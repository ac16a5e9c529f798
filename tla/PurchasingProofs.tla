--------------------------- MODULE PurchasingProofs ---------------------------
(***************************************************************************)
(* Proofs about Purchasing, for any number of requests, suppliers, orders, *)
(* receipts and items, any ordered quantities and any deliveries.          *)
(***************************************************************************)
EXTENDS Purchasing, TLAPS

USE PurchasingAssumption DEF PurchasingAssumption

(* What is delivered once the request commits.                             *)
Total(p, i) == delivered[OrderOf(p)][i] + req[p].moved[i]

(* A request that posts has read counts the stock covers, writes no more   *)
(* than it brings on top of them, and derives a status it will have earned *)
(* when it commits.                                                        *)
Accepting(p) == req[p].pc = "accepting" => req[p].quotation \in Quotations
Holds(p) ==
    /\ req[p].pc \in {"created", "posting", "derived"} =>
          req[p].receipt \in Receipts /\ receipt[req[p].receipt].status # "none"
    /\ req[p].pc = "derived" => req[p].status # "none"
Covered(p) == req[p].pc \in {"posting", "derived"} =>
    \A i \in Items : /\ req[p].seen[i] <= delivered[OrderOf(p)][i]
                     /\ req[p].wrote[i] <= req[p].seen[i] + req[p].moved[i]
Earned(p)  == req[p].pc = "derived" =>
    /\ req[p].status = "RECEIVED" => \A i \in Items : Total(p, i) >= Ordered[i]
    /\ req[p].status = "PARTIALLY_RECEIVED" => \E i \in Items : Total(p, i) > 0

ReceiptsOK == \A r \in Receipts : receipt[r].status # "none" =>
    receipt[r].order \in Orders /\ Exists(receipt[r].order)

(* What every step keeps: an order keeps its supplier request, a receipt   *)
(* its order, and what is delivered only grows.                            *)
Kept == /\ \A o \in Orders : Exists(o) =>
              order'[o].status # "none" /\ order'[o].from = order[o].from
        /\ \A r \in Receipts : receipt[r].status # "none" =>
              receipt'[r].status # "none" /\ receipt'[r].order = receipt[r].order
        /\ \A o \in Orders, i \in Items : delivered[o][i] <= delivered'[o][i]
TypeInv == TypeOK /\ ReceiptsOK /\ \A p \in Requests : Accepting(p) /\ Holds(p)

-----------------------------------------------------------------------------
(* Types of the record updates. *)

LEMMA IdleType == Idle \in Request
<1>1. 0 \in Nat /\ 1 \in Nat /\ Unwritten \in Nat \cup {Unwritten}
  OBVIOUS
<1>2. "idle" \in Steps /\ "none" \in DerivedStatuses
  BY DEF Steps, DerivedStatuses
<1>3. Nothing \in [Items -> Nat]
  BY DEF Nothing
<1>4. [i \in Items |-> Unwritten] \in [Items -> Nat \cup {Unwritten}]
  BY <1>1
<1>5. QED
  BY <1>1, <1>2, <1>3, <1>4, Zenon DEF Idle, Request

LEMMA BeginAccept ==
    ASSUME NEW r \in Request, NEW q \in Quotations
    PROVE  [r EXCEPT !.pc = "accepting", !.quotation = q] \in Request
<1>1. "accepting" \in Steps
  BY DEF Steps
<1>2. QED
  BY <1>1, Zenon DEF Request

LEMMA BeginReceive ==
    ASSUME NEW r \in Request, NEW t \in Receipts
    PROVE  [r EXCEPT !.pc = "created", !.receipt = t] \in Request
<1>1. "created" \in Steps
  BY DEF Steps
<1>2. QED
  BY <1>1, Zenon DEF Request

LEMMA BeginPosting ==
    ASSUME NEW r \in Request, NEW t \in Receipts, NEW s \in [Items -> Nat]
    PROVE  [r EXCEPT !.pc = "posting", !.receipt = t, !.seen = s] \in Request
<1>1. "posting" \in Steps
  BY DEF Steps
<1>2. QED
  BY <1>1, Zenon DEF Request

LEMMA LineUpdate ==
    ASSUME NEW r \in Request, NEW n \in Nat, NEW m \in [Items -> Nat],
           NEW w \in [Items -> Nat \cup {Unwritten}]
    PROVE  [r EXCEPT !.next = n, !.moved = m, !.wrote = w] \in Request
BY Zenon DEF Request

LEMMA Derivation ==
    ASSUME NEW r \in Request, NEW s \in DerivedStatuses
    PROVE  [r EXCEPT !.pc = "derived", !.status = s] \in Request
<1>1. "derived" \in Steps
  BY DEF Steps
<1>2. QED
  BY <1>1, Zenon DEF Request

LEMMA OrderStatusChange ==
    ASSUME NEW r \in OrderRow, NEW s \in OrderStatuses
    PROVE  [r EXCEPT !.status = s] \in OrderRow
BY Zenon DEF OrderRow

LEMMA Posted ==
    ASSUME NEW r \in ReceiptRow
    PROVE  [r EXCEPT !.status = "POSTED"] \in ReceiptRow
BY Zenon DEF ReceiptRow

LEMMA LinesAreLines ==
    ASSUME TypeOK, NEW r \in Receipts
    PROVE  /\ receipt[r].lines \in Seq(Line)
           /\ \A n \in DOMAIN receipt[r].lines : receipt[r].lines[n] \in Line
<1>1. receipt[r].lines \in Deliveries \cup {<<>>}
  BY DEF TypeOK, ReceiptRow
<1>2. <<>> \in Seq(Line)
  OBVIOUS
<1>3. receipt[r].lines \in Seq(Line)
  BY <1>1, <1>2
<1>4. QED
  BY <1>3

-----------------------------------------------------------------------------
(* The types, and what every step keeps, one lemma per action that does    *)
(* more than write statuses.                                               *)

LEMMA TypeInit == Init => TypeInv
<1>1. ASSUME Init PROVE TypeOK
  <2>1. [status |-> "none", from |-> NoSupplier] \in OrderRow
    BY DEF OrderRow, OrderStatuses
  <2>2. [status |-> "none", order |-> NoOrder, lines |-> <<>>] \in ReceiptRow
    BY DEF ReceiptRow
  <2>3. QED
    BY <1>1, <2>1, <2>2, IdleType DEF Init, TypeOK, ProcurementStatuses,
       SupplierStatuses, Nothing
<1>2. QED
  BY <1>1 DEF Init, TypeInv, ReceiptsOK, Accepting, Holds, Idle

(* A request that is given a new local state, with the rows it refers to.  *)
LEMMA RequestChange ==
    ASSUME TypeInv, Kept, NEW p \in Requests, NEW r, req' = [req EXCEPT ![p] = r],
           r.pc = "accepting" => r.quotation \in Quotations,
           r.pc \in {"created", "posting", "derived"} =>
              r.receipt \in Receipts /\ receipt'[r.receipt].status # "none",
           r.pc = "derived" => r.status # "none"
    PROVE  (\A q \in Requests : Accepting(q) /\ Holds(q))'
<1>1. SUFFICES ASSUME NEW q \in Requests PROVE Accepting(q)' /\ Holds(q)'
  OBVIOUS
<1>2. CASE q = p
  <2>1. req'[q] = r
    BY <1>2 DEF TypeInv, TypeOK
  <2>2. QED
    BY <2>1 DEF Accepting, Holds
<1>3. CASE q # p
  <2>1. req'[q] = req[q]
    BY <1>3 DEF TypeInv, TypeOK
  <2>2. QED
    BY <2>1 DEF Accepting, Holds, TypeInv, Kept
<1>4. QED
  BY <1>2, <1>3

LEMMA NoRequestChange ==
    ASSUME TypeInv, Kept, UNCHANGED req
    PROVE  (\A q \in Requests : Accepting(q) /\ Holds(q))'
BY DEF TypeInv, Kept, Accepting, Holds

(* Receipts that are not new keep an order that exists.                    *)
LEMMA ReceiptsStay ==
    ASSUME ReceiptsOK, Kept,
           \A r \in Receipts : receipt[r].status = "none" => receipt'[r].status = "none"
    PROVE  ReceiptsOK'
BY DEF ReceiptsOK, Kept, Exists

LEMMA NewOrderKeeps ==
    ASSUME TypeInv, NEW o \in Orders, NEW s \in Suppliers \cup {NoSupplier},
           NewOrder(o, s), UNCHANGED goods
    PROVE  /\ order' \in [Orders -> OrderRow]
           /\ Kept /\ ReceiptsOK'
<1>1. [status |-> "DRAFT", from |-> s] \in OrderRow
  BY DEF OrderRow, OrderStatuses
<1>2. order' \in [Orders -> OrderRow]
  BY <1>1 DEF NewOrder, TypeInv, TypeOK
<1>3. Kept
  BY <1>2 DEF NewOrder, Kept, Exists, TypeInv, TypeOK, goods
<1>4. QED
  BY <1>2, <1>3, ReceiptsStay DEF TypeInv, goods

LEMMA NewReceiptKeeps ==
    ASSUME TypeInv, NEW r \in Receipts, NEW o \in Orders, Exists(o),
           NEW lines \in Deliveries, NewReceipt(r, o, lines)
    PROVE  /\ receipt' \in [Receipts -> ReceiptRow]
           /\ receipt'[r].status = "DRAFT"
           /\ Kept /\ ReceiptsOK'
<1> DEFINE row == [status |-> "DRAFT", order |-> o, lines |-> lines]
<1>1. row \in ReceiptRow
  BY DEF ReceiptRow
<1>2. receipt' = [receipt EXCEPT ![r] = row]
  BY DEF NewReceipt
<1>3. receipt' \in [Receipts -> ReceiptRow]
  BY <1>1, <1>2 DEF TypeInv, TypeOK
<1>4. UNCHANGED <<papers, delivered>>
  BY DEF NewReceipt
<1>5. Kept
  BY <1>2, <1>4 DEF NewReceipt, Kept, Exists, TypeInv, TypeOK, papers
<1>6. receipt'[r] = row
  BY <1>2 DEF TypeInv, TypeOK
<1>7. ReceiptsOK'
  BY <1>2, <1>4, <1>6 DEF ReceiptsOK, Exists, TypeInv, TypeOK, papers
<1>8. QED
  BY <1>3, <1>5, <1>6, <1>7

(* Statuses alone: nothing else is touched.                                *)
LEMMA QuietKeeps ==
    ASSUME TypeInv, UNCHANGED <<order, receipt, delivered>>
    PROVE  Kept /\ ReceiptsOK'
BY DEF Kept, ReceiptsOK, TypeInv, TypeOK, Exists

LEMMA SupplyStep ==
    ASSUME TypeInv, Supply
    PROVE  TypeInv' /\ Kept
<1>1. ASSUME NEW s \in Suppliers, MessageSent(s) PROVE TypeInv' /\ Kept
  <2>1. Kept /\ ReceiptsOK'
    BY <1>1, QuietKeeps DEF MessageSent, goods
  <2>2. TypeOK'
    BY <1>1 DEF MessageSent, goods, TypeInv, TypeOK, SupplierStatuses, ProcurementStatuses
  <2>3. QED
    BY <1>1, <2>1, <2>2, NoRequestChange DEF MessageSent, TypeInv
<1>2. ASSUME NEW q \in Quotations, AddSupplierResponse(q) PROVE TypeInv' /\ Kept
  <2>1. Kept /\ ReceiptsOK'
    BY <1>2, QuietKeeps DEF AddSupplierResponse, goods
  <2>2. TypeOK'
    BY <1>2 DEF AddSupplierResponse, goods, TypeInv, TypeOK, SupplierStatuses,
       ProcurementStatuses
  <2>3. QED
    BY <1>2, <2>1, <2>2, NoRequestChange DEF AddSupplierResponse, TypeInv
<1>3. ASSUME NEW q \in Quotations, RejectSupplierQuotation(q) PROVE TypeInv' /\ Kept
  <2>1. Kept /\ ReceiptsOK'
    BY <1>3, QuietKeeps DEF RejectSupplierQuotation, goods
  <2>2. TypeOK'
    BY <1>3 DEF RejectSupplierQuotation, goods, TypeInv, TypeOK, SupplierStatuses
  <2>3. QED
    BY <1>3, <2>1, <2>2, NoRequestChange DEF RejectSupplierQuotation, TypeInv
<1>4. ASSUME CreatePurchaseOrder PROVE TypeInv' /\ Kept
  <2>1. PICK o \in Orders : NewOrder(o, NoSupplier)
    BY <1>4 DEF CreatePurchaseOrder
  <2>2. order' \in [Orders -> OrderRow] /\ Kept /\ ReceiptsOK'
    BY <1>4, <2>1, NewOrderKeeps DEF CreatePurchaseOrder
  <2>3. TypeOK'
    BY <1>4, <2>2 DEF CreatePurchaseOrder, goods, TypeInv, TypeOK
  <2>4. QED
    BY <1>4, <2>2, <2>3, NoRequestChange DEF CreatePurchaseOrder, TypeInv
<1>5. ASSUME NEW o \in Orders, SubmitPurchaseOrder(o) PROVE TypeInv' /\ Kept
  <2>1. "SUBMITTED" \in OrderStatuses
    BY DEF OrderStatuses
  <2>2. order' \in [Orders -> OrderRow]
    BY <1>5, <2>1, OrderStatusChange DEF SubmitPurchaseOrder, TypeInv, TypeOK
  <2>3. /\ order[o] \in OrderRow
        /\ order' = [order EXCEPT ![o] = [order[o] EXCEPT !.status = "SUBMITTED"]]
    BY <1>5 DEF SubmitPurchaseOrder, TypeInv, TypeOK
  <2>4. Kept
    BY <1>5, <2>3 DEF SubmitPurchaseOrder, goods, Kept, Exists, TypeInv, TypeOK, OrderRow
  <2>5. ReceiptsOK'
    BY <1>5, <2>4, ReceiptsStay DEF SubmitPurchaseOrder, goods, TypeInv
  <2>6. TypeOK'
    BY <1>5, <2>2 DEF SubmitPurchaseOrder, goods, TypeInv, TypeOK
  <2>7. QED
    BY <1>5, <2>4, <2>5, <2>6, NoRequestChange DEF SubmitPurchaseOrder, TypeInv
<1>6. ASSUME NEW r \in Receipts, NEW o \in Orders, CreateGoodsReceipt(r, o)
      PROVE  TypeInv' /\ Kept
  <2>1. PICK lines \in Deliveries : NewReceipt(r, o, lines)
    BY <1>6 DEF CreateGoodsReceipt
  <2>2. receipt' \in [Receipts -> ReceiptRow] /\ Kept /\ ReceiptsOK'
    BY <1>6, <2>1, NewReceiptKeeps DEF CreateGoodsReceipt
  <2>3. TypeOK'
    BY <1>6, <2>1, <2>2 DEF CreateGoodsReceipt, NewReceipt, papers, TypeInv, TypeOK
  <2>4. QED
    BY <1>6, <2>2, <2>3, NoRequestChange DEF CreateGoodsReceipt, TypeInv
<1>7. ASSUME NEW s \in Suppliers, MessageFailed(s) PROVE TypeInv' /\ Kept
  <2>1. Kept /\ ReceiptsOK'
    BY <1>7, QuietKeeps DEF MessageFailed, goods
  <2>2. TypeOK'
    BY <1>7 DEF MessageFailed, goods, TypeInv, TypeOK, SupplierStatuses
  <2>3. QED
    BY <1>7, <2>1, <2>2, NoRequestChange DEF MessageFailed, TypeInv
<1>8. QED
  BY <1>1, <1>2, <1>3, <1>4, <1>5, <1>6, <1>7 DEF Supply

(* A request moves on and nothing but its own state, or its locks, changes. *)
LEMMA LocalStep ==
    ASSUME TypeInv, NEW p \in Requests, NEW r \in Request, req' = [req EXCEPT ![p] = r],
           lineLock' \in [Orders -> [Items -> Requests \cup {NoRequest}]],
           UNCHANGED <<papers, counted, receipt, delivered, booked>>,
           r.pc = "accepting" => r.quotation \in Quotations,
           r.pc \in {"created", "posting", "derived"} =>
              r.receipt \in Receipts /\ receipt[r.receipt].status # "none",
           r.pc = "derived" => r.status # "none"
    PROVE  TypeInv' /\ Kept
<1>1. Kept /\ ReceiptsOK'
  BY QuietKeeps DEF papers
<1>2. TypeOK'
  BY DEF TypeInv, TypeOK, papers
<1>3. QED
  BY <1>1, <1>2, RequestChange DEF TypeInv

LEMMA ReleaseType ==
    ASSUME TypeOK, NEW p \in Requests, NEW o, Release(p, o)
    PROVE  lineLock' \in [Orders -> [Items -> Requests \cup {NoRequest}]]
<1> DEFINE row == [i \in Items |-> IF lineLock[o][i] = p THEN NoRequest ELSE lineLock[o][i]]
<1>1. o \in Orders => row \in [Items -> Requests \cup {NoRequest}]
  BY DEF TypeOK
<1>2. lineLock' = [lineLock EXCEPT ![o] = row]
  BY DEF Release
<1> HIDE DEF row
<1>3. QED
  BY <1>1, <1>2 DEF TypeOK

(* The order of a request that holds a receipt, and its lines. *)
LEMMA OrderExists ==
    ASSUME TypeInv, NEW p \in Requests, req[p].pc \in {"created", "posting", "derived"}
    PROVE  OrderOf(p) \in Orders /\ Exists(OrderOf(p))
BY DEF TypeInv, Holds, ReceiptsOK, OrderOf

LEMMA VisibleType ==
    ASSUME TypeInv, NEW p \in Requests, req[p].pc \in {"posting", "derived"}
    PROVE  Visible(p) \in [Items -> Nat]
<1>1. OrderOf(p) \in Orders
  BY OrderExists
<1>2. \A i \in Items : counted[OrderOf(p)][i] \in Nat
  BY <1>1 DEF TypeInv, TypeOK
<1>3. \A i \in Items : req[p].wrote[i] \in Nat \cup {Unwritten}
  BY DEF TypeInv, TypeOK, Request
<1>4. QED
  BY <1>2, <1>3 DEF Visible

LEMMA IdleHolds == ~(Idle.pc \in {"accepting", "created", "posting", "derived"})
BY DEF Idle

LEMMA ReadQuotationStep ==
    ASSUME TypeInv, NEW p \in Requests, NEW q \in Quotations, ReadQuotation(p, q)
    PROVE  TypeInv' /\ Kept
<1> DEFINE r == [Idle EXCEPT !.pc = "accepting", !.quotation = q]
<1>1. r \in Request
  BY IdleType, BeginAccept
<1>2. r.pc = "accepting" /\ r.quotation = q
  BY DEF Idle
<1>3. req' = [req EXCEPT ![p] = r] /\ UNCHANGED <<papers, goods>>
  BY DEF ReadQuotation
<1> HIDE DEF r
<1>4. QED
  BY <1>1, <1>2, <1>3, LocalStep DEF goods, TypeInv, TypeOK

LEMMA AcceptStep ==
    ASSUME TypeInv, NEW p \in Requests, Accept(p)
    PROVE  TypeInv' /\ Kept
<1>1. req[p].quotation \in Quotations
  BY DEF Accept, TypeInv, Accepting
<1>2. PICK o \in Orders : NewOrder(o, AnswerTo[req[p].quotation])
  BY DEF Accept
<1>3. order' \in [Orders -> OrderRow] /\ Kept /\ ReceiptsOK'
  BY <1>1, <1>2, NewOrderKeeps DEF Accept
<1>4. TypeOK'
  <2>1. /\ req' = [req EXCEPT ![p] = Idle]
        /\ quotation' = [quotation EXCEPT ![req[p].quotation] = "PO_CREATED"]
        /\ supplier' = [supplier EXCEPT ![AnswerTo[req[p].quotation]] = "PO_CREATED"]
        /\ procurement' = "CONFIRMED"
        /\ UNCHANGED goods
    BY DEF Accept
  <2>2. req' \in [Requests -> Request]
    BY <2>1, IdleType DEF TypeInv, TypeOK
  <2>3. QED
    BY <1>3, <2>1, <2>2 DEF goods, TypeInv, TypeOK, SupplierStatuses, ProcurementStatuses
<1>5. req' = [req EXCEPT ![p] = Idle]
  BY DEF Accept
<1>6. QED
  BY <1>3, <1>4, <1>5, IdleHolds, RequestChange DEF TypeInv

LEMMA ReceiveStep ==
    ASSUME TypeInv, NEW p \in Requests, NEW s \in Suppliers, NEW t \in Receipts,
           ReceiveSupplierRequestGoods(p, s, t)
    PROVE  TypeInv' /\ Kept
<1> DEFINE r == [Idle EXCEPT !.pc = "created", !.receipt = t]
<1>1. r \in Request
  BY IdleType, BeginReceive
<1>2. r.pc = "created" /\ r.receipt = t
  BY DEF Idle
<1>3. PICK o \in Orders, lines \in Deliveries : Exists(o) /\ NewReceipt(t, o, lines)
  BY DEF ReceiveSupplierRequestGoods, NewestFrom, From
<1>4. /\ receipt' \in [Receipts -> ReceiptRow] /\ Kept /\ ReceiptsOK'
      /\ receipt'[t].status = "DRAFT"
  BY <1>3, NewReceiptKeeps
<1>5. req' = [req EXCEPT ![p] = r]
  BY DEF ReceiveSupplierRequestGoods
<1> HIDE DEF r
<1>6. TypeOK'
  BY <1>1, <1>3, <1>4, <1>5 DEF NewReceipt, papers, TypeInv, TypeOK
<1>7. QED
  BY <1>2, <1>4, <1>5, <1>6, RequestChange DEF TypeInv

LEMMA ReadReceiptStep ==
    ASSUME TypeInv, NEW p \in Requests, NEW t \in Receipts, ReadReceipt(p, t)
    PROVE  TypeInv' /\ Kept
<1> DEFINE r == [Idle EXCEPT !.pc = "posting", !.receipt = t,
                             !.seen = counted[receipt[t].order]]
<1>1. receipt[t].status = "DRAFT"
  BY DEF ReadReceipt
<1>2. counted[receipt[t].order] \in [Items -> Nat]
  BY <1>1 DEF TypeInv, ReceiptsOK, TypeOK
<1>3. r \in Request
  BY <1>2, IdleType, BeginPosting
<1>4. r.pc = "posting" /\ r.receipt = t
  BY DEF Idle
<1>5. req' = [req EXCEPT ![p] = r] /\ UNCHANGED <<papers, goods>>
  BY DEF ReadReceipt
<1> HIDE DEF r
<1>6. QED
  BY <1>1, <1>3, <1>4, <1>5, LocalStep DEF goods, TypeInv, TypeOK

(* What one line does to the request that posts it. *)
LineEffect(p, line, m, w, n) ==
    /\ req' = [req EXCEPT ![p] = [req[p] EXCEPT !.next = n, !.moved = m, !.wrote = w]]
    /\ m = [req[p].moved EXCEPT ![line.item] = req[p].moved[line.item] + line.acceptedQty]
    /\ w = [req[p].wrote EXCEPT ![line.item] = req[p].seen[line.item] + line.acceptedQty]
    /\ lineLock' \in [Orders -> [Items -> Requests \cup {NoRequest}]]

LEMMA LineFacts ==
    ASSUME TypeInv, NEW p \in Requests, UpdateLine(p)
    PROVE  \E line \in Line, m \in [Items -> Nat], w \in [Items -> Nat \cup {Unwritten}],
              n \in Nat : LineEffect(p, line, m, w, n)
<1> DEFINE line == Lines(p)[req[p].next]
           i == line.item
           m == [req[p].moved EXCEPT ![i] = req[p].moved[i] + line.acceptedQty]
           w == [req[p].wrote EXCEPT ![i] = Counted(p, line)]
           n == req[p].next + 1
<1>1. req[p] \in Request /\ req[p].pc = "posting"
  BY DEF TypeInv, TypeOK, UpdateLine
<1>2. req[p].receipt \in Receipts
  BY <1>1 DEF TypeInv, Holds
<1>3. line \in Line
  BY <1>2, LinesAreLines DEF UpdateLine, Lines, TypeInv
<1>4. i \in Items /\ line.acceptedQty \in Nat
  BY <1>3 DEF Line
<1>5. req[p].moved \in [Items -> Nat] /\ req[p].seen \in [Items -> Nat]
      /\ req[p].wrote \in [Items -> Nat \cup {Unwritten}] /\ req[p].next \in Nat
  BY <1>1 DEF Request
<1>6. Counted(p, line) = req[p].seen[i] + line.acceptedQty
  BY DEF Counted
<1>7. req' = [req EXCEPT ![p] = [req[p] EXCEPT !.next = n, !.moved = m, !.wrote = w]]
  BY DEF UpdateLine
<1>8. lineLock' = [lineLock EXCEPT ![OrderOf(p)] = [lineLock[OrderOf(p)] EXCEPT ![i] = p]]
  BY <1>1, OrderExists DEF UpdateLine, TypeInv, TypeOK
<1> HIDE DEF line, i, m, w, n
<1>9. m \in [Items -> Nat] /\ w \in [Items -> Nat \cup {Unwritten}] /\ n \in Nat
  BY <1>4, <1>5, <1>6 DEF m, w, n
<1>10. lineLock' \in [Orders -> [Items -> Requests \cup {NoRequest}]]
  BY <1>4, <1>8 DEF TypeInv, TypeOK
<1>11. i = line.item
  BY DEF i
<1>12. /\ m = [req[p].moved EXCEPT ![line.item] = req[p].moved[line.item] + line.acceptedQty]
       /\ w = [req[p].wrote EXCEPT ![line.item] = req[p].seen[line.item] + line.acceptedQty]
  BY <1>6, <1>11 DEF m, w
<1>13. QED
  BY <1>3, <1>7, <1>9, <1>10, <1>12 DEF LineEffect

LEMMA UpdateLineStep ==
    ASSUME TypeInv, NEW p \in Requests, UpdateLine(p)
    PROVE  TypeInv' /\ Kept
<1>1. PICK line \in Line, m \in [Items -> Nat], w \in [Items -> Nat \cup {Unwritten}],
           n \in Nat : LineEffect(p, line, m, w, n)
  BY LineFacts
<1> DEFINE r == [req[p] EXCEPT !.next = n, !.moved = m, !.wrote = w]
<1>2. req[p] \in Request /\ req[p].pc = "posting"
  BY DEF TypeInv, TypeOK, UpdateLine
<1>3. r \in Request
  BY <1>2, LineUpdate
<1>4. r.pc = req[p].pc /\ r.receipt = req[p].receipt
  BY <1>2 DEF Request
<1>5. /\ req' = [req EXCEPT ![p] = r]
      /\ lineLock' \in [Orders -> [Items -> Requests \cup {NoRequest}]]
  BY <1>1 DEF LineEffect
<1> HIDE DEF r
<1>6. UNCHANGED <<papers, counted, receipt, delivered, booked>>
  BY DEF UpdateLine
<1>7. QED
  BY <1>2, <1>3, <1>4, <1>5, <1>6, LocalStep DEF TypeInv, Holds

LEMMA DeriveStatusStep ==
    ASSUME TypeInv, NEW p \in Requests, DeriveStatus(p)
    PROVE  TypeInv' /\ Kept
<1> DEFINE s == OrderStatus(Visible(p))
           r == [req[p] EXCEPT !.pc = "derived", !.status = s]
<1>1. s \in DerivedStatuses /\ s # "none"
  BY DEF OrderStatus, DerivedStatuses
<1>2. req[p] \in Request /\ req[p].pc = "posting"
  BY DEF TypeInv, TypeOK, DeriveStatus
<1>3. r \in Request
  BY <1>1, <1>2, Derivation
<1>4. r.receipt = req[p].receipt /\ r.pc = "derived" /\ r.status = s
  BY <1>2 DEF Request
<1>5. req' = [req EXCEPT ![p] = r] /\ UNCHANGED <<papers, goods>>
  BY DEF DeriveStatus
<1> HIDE DEF r, s
<1>6. QED
  BY <1>1, <1>2, <1>3, <1>4, <1>5, LocalStep DEF goods, TypeInv, TypeOK, Holds

LEMMA PostStep ==
    ASSUME TypeInv, NEW p \in Requests, Post(p)
    PROVE  TypeInv' /\ Kept
<1> DEFINE o == OrderOf(p)
           t == req[p].receipt
           row == [i \in Items |-> delivered[o][i] + req[p].moved[i]]
<1>1. req[p] \in Request /\ req[p].pc = "derived" /\ t \in Receipts
      /\ receipt[t].status # "none"
  BY DEF TypeInv, TypeOK, Post, Holds
<1>2. o \in Orders /\ Exists(o)
  BY <1>1, OrderExists
<1>3. req[p].status \in OrderStatuses
  BY <1>1 DEF Request, DerivedStatuses, OrderStatuses
<1>4. Visible(p) \in [Items -> Nat]
  BY <1>1, VisibleType
<1>5. row \in [Items -> Nat] /\ \A i \in Items : delivered[o][i] <= row[i]
  BY <1>1, <1>2 DEF TypeInv, TypeOK, Request
<1>6. /\ order' = [order EXCEPT ![o] = [order[o] EXCEPT !.status = req[p].status]]
      /\ counted' = [counted EXCEPT ![o] = Visible(p)]
      /\ delivered' = [delivered EXCEPT ![o] = row]
      /\ receipt' = [receipt EXCEPT ![t] = [receipt[t] EXCEPT !.status = "POSTED"]]
      /\ booked' = [booked EXCEPT ![t] = booked[t] + 1]
      /\ req' = [req EXCEPT ![p] = Idle]
      /\ Release(p, o)
      /\ UNCHANGED quotation
  BY <1>1, <1>2 DEF Post, TypeInv, TypeOK
<1> HIDE DEF row
<1>7. order' \in [Orders -> OrderRow]
  BY <1>2, <1>3, <1>6, OrderStatusChange DEF TypeInv, TypeOK
<1>8. receipt' \in [Receipts -> ReceiptRow]
  BY <1>1, <1>6, Posted DEF TypeInv, TypeOK
<1>9. SyncUpstream(order[o].from, req[p].status)
  BY DEF Post
<1>10. supplier' \in [Suppliers -> SupplierStatuses]
       /\ procurement' \in ProcurementStatuses
  BY <1>9 DEF SyncUpstream, SupplierStatus, ProcurementStatus, SupplierStatuses,
     ProcurementStatuses, Received, TypeInv, TypeOK
<1>11. TypeOK'
  <2>1. req' \in [Requests -> Request]
    BY <1>6, IdleType DEF TypeInv, TypeOK
  <2>2. counted' \in [Orders -> [Items -> Nat]]
    BY <1>4, <1>6 DEF TypeInv, TypeOK
  <2>3. delivered' \in [Orders -> [Items -> Nat]]
    BY <1>5, <1>6 DEF TypeInv, TypeOK
  <2>4. lineLock' \in [Orders -> [Items -> Requests \cup {NoRequest}]]
    BY <1>6, ReleaseType DEF TypeInv
  <2>5. booked' \in [Receipts -> Nat]
    BY <1>1, <1>6 DEF TypeInv, TypeOK
  <2>6. quotation' \in [Quotations -> {"none", "RECEIVED", "REJECTED", "PO_CREATED"}]
    BY <1>6 DEF TypeInv, TypeOK
  <2>7. QED
    BY <1>7, <1>8, <1>10, <2>1, <2>2, <2>3, <2>4, <2>5, <2>6 DEF TypeOK
<1>12. Kept
  <2>1. order[o] \in OrderRow /\ receipt[t] \in ReceiptRow
    BY <1>1, <1>2 DEF TypeInv, TypeOK
  <2>2. req[p].status # "none" => \A n \in Orders : Exists(n) =>
           order'[n].status # "none" /\ order'[n].from = order[n].from
    BY <1>6, <2>1 DEF Exists, TypeInv, TypeOK, OrderRow
  <2>3. req[p].status # "none"
    BY <1>1 DEF TypeInv, Holds
  <2>4. \A r \in Receipts : receipt[r].status # "none" =>
           receipt'[r].status # "none" /\ receipt'[r].order = receipt[r].order
    BY <1>6, <2>1 DEF TypeInv, TypeOK, ReceiptRow
  <2>5. \A n \in Orders, i \in Items : delivered[n][i] <= delivered'[n][i]
    BY <1>5, <1>6 DEF TypeInv, TypeOK
  <2>6. QED
    BY <2>2, <2>3, <2>4, <2>5 DEF Kept
<1>13. \A r \in Receipts : receipt[r].status = "none" => receipt'[r].status = "none"
  BY <1>1, <1>6 DEF TypeInv, TypeOK
<1>14. ReceiptsOK'
  BY <1>12, <1>13, ReceiptsStay DEF TypeInv
<1>15. QED
  BY <1>6, <1>11, <1>12, <1>14, IdleHolds, RequestChange DEF TypeInv

LEMMA FailStep ==
    ASSUME TypeInv, NEW p \in Requests, Fail(p)
    PROVE  TypeInv' /\ Kept
<1>1. lineLock' \in [Orders -> [Items -> Requests \cup {NoRequest}]]
  BY ReleaseType DEF Fail, TypeInv, TypeOK
<1>2. /\ req' = [req EXCEPT ![p] = Idle]
      /\ UNCHANGED <<papers, counted, receipt, delivered, booked>>
  BY DEF Fail
<1>3. QED
  BY <1>1, <1>2, IdleType, IdleHolds, LocalStep

LEMMA TypeStep == TypeInv /\ [Next]_vars => TypeInv' /\ Kept
<1> SUFFICES ASSUME TypeInv, [Next]_vars PROVE TypeInv' /\ Kept
  OBVIOUS
<1>2. CASE Supply
  BY <1>2, SupplyStep
<1>3. ASSUME NEW p \in Requests, Serve(p) PROVE TypeInv' /\ Kept
  <2>1. CASE \E q \in Quotations : ReadQuotation(p, q)
    BY <2>1, ReadQuotationStep
  <2>2. CASE \E s \in Suppliers, r \in Receipts : ReceiveSupplierRequestGoods(p, s, r)
    BY <2>2, ReceiveStep
  <2>3. CASE \E r \in Receipts : ReadReceipt(p, r)
    BY <2>3, ReadReceiptStep
  <2>4. QED
    BY <1>3, <2>1, <2>2, <2>3, AcceptStep, UpdateLineStep, DeriveStatusStep, PostStep,
       FailStep DEF Serve
<1>4. CASE UNCHANGED vars
  <2>1. UNCHANGED <<papers, goods, req>>
    BY <1>4 DEF vars
  <2>2. Kept /\ ReceiptsOK'
    BY <2>1, QuietKeeps DEF papers, goods
  <2>3. TypeOK'
    BY <2>1 DEF papers, goods, TypeInv, TypeOK
  <2>4. QED
    BY <2>1, <2>2, <2>3, NoRequestChange DEF TypeInv
<1>5. QED
  BY <1>2, <1>3, <1>4 DEF Next

(* The variables keep their types: in particular the counts and deliveries *)
(* of an order stay numbers of this order, whatever is posted.             *)
THEOREM TypeCorrect == Spec => []TypeOK
<1>1. TypeInv => TypeOK
  BY DEF TypeInv
<1>2. QED
  BY <1>1, TypeInit, TypeStep, PTL DEF Spec

-----------------------------------------------------------------------------
(* Counts and statuses. *)

SafetyInv == /\ NeverMoreThanDelivered /\ StatusIsEarned /\ UpstreamIsEarned
             /\ \A p \in Requests : Covered(p) /\ Earned(p)

LEMMA SafetyInit == Init => SafetyInv
BY DEF Init, SafetyInv, NeverMoreThanDelivered, StatusIsEarned, UpstreamIsEarned,
   Covered, Earned, Idle, Nothing

(* Every step but Post: no count and no status that would have to be earned. *)
Silent ==
    /\ counted' = counted
    /\ \A o \in Orders : order'[o].status \in {"RECEIVED", "PARTIALLY_RECEIVED"} =>
          order'[o].status = order[o].status
    /\ \A s \in Suppliers : supplier'[s] \in Received => supplier'[s] = supplier[s]
    /\ procurement' \in Received => procurement' = procurement

LEMMA Grows ==
    ASSUME TypeOK, TypeOK', Kept, NEW o \in Orders
    PROVE  (AllOf(o) => AllOf(o)') /\ (SomeOf(o) => SomeOf(o)')
<1>1. \A i \in Items : /\ delivered[o][i] \in Nat /\ delivered'[o][i] \in Nat
                       /\ delivered[o][i] <= delivered'[o][i] /\ Ordered[i] \in Nat
  BY DEF TypeOK, Kept
<1>2. QED
  BY <1>1 DEF AllOf, SomeOf

LEMMA FromStays ==
    ASSUME Kept, NEW o \in Orders, NEW s
    PROVE  From(o, s) => From(o, s)'
BY DEF Kept, From, Exists

LEMMA SilentStep ==
    ASSUME TypeOK, TypeOK', Kept, Silent,
           NeverMoreThanDelivered, StatusIsEarned, UpstreamIsEarned
    PROVE  NeverMoreThanDelivered' /\ StatusIsEarned' /\ UpstreamIsEarned'
<1>1. NeverMoreThanDelivered'
  <2>1. ASSUME NEW o \in Orders, NEW i \in Items PROVE counted'[o][i] <= delivered'[o][i]
    <3>1. /\ counted[o][i] \in Nat /\ delivered[o][i] \in Nat /\ delivered'[o][i] \in Nat
          /\ counted[o][i] <= delivered[o][i] /\ delivered[o][i] <= delivered'[o][i]
      BY DEF TypeOK, Kept, NeverMoreThanDelivered
    <3>2. counted'[o][i] = counted[o][i]
      BY DEF Silent
    <3>3. QED
      BY <3>1, <3>2
  <2>2. QED
    BY <2>1 DEF NeverMoreThanDelivered
<1>2. StatusIsEarned'
  BY Grows DEF Silent, StatusIsEarned
<1>3. \A o \in Orders, s \in Suppliers :
         /\ From(o, s) /\ AllOf(o) => From(o, s)' /\ AllOf(o)'
         /\ From(o, s) /\ SomeOf(o) => From(o, s)' /\ SomeOf(o)'
  BY Grows, FromStays
<1>4. UpstreamIsEarned'
  BY <1>3 DEF Silent, UpstreamIsEarned, Received
<1>5. QED
  BY <1>1, <1>2, <1>4

LEMMA SupplySilent ==
    ASSUME TypeInv, Supply
    PROVE  Silent /\ req' = req
<1>1. \A o \in Orders : order[o] \in OrderRow
  BY DEF TypeInv, TypeOK
<1>2. ASSUME NEW s \in Suppliers, MessageSent(s) PROVE Silent /\ req' = req
  BY <1>2 DEF MessageSent, goods, Silent, Received, TypeInv, TypeOK
<1>3. ASSUME NEW q \in Quotations, AddSupplierResponse(q) PROVE Silent /\ req' = req
  BY <1>3 DEF AddSupplierResponse, goods, Silent, Received, TypeInv, TypeOK
<1>4. ASSUME NEW q \in Quotations, RejectSupplierQuotation(q) PROVE Silent /\ req' = req
  BY <1>4 DEF RejectSupplierQuotation, goods, Silent, Received, TypeInv, TypeOK
<1>5. ASSUME CreatePurchaseOrder PROVE Silent /\ req' = req
  BY <1>5 DEF CreatePurchaseOrder, NewOrder, goods, Silent, TypeInv, TypeOK
<1>6. ASSUME NEW o \in Orders, SubmitPurchaseOrder(o) PROVE Silent /\ req' = req
  BY <1>1, <1>6 DEF SubmitPurchaseOrder, goods, Silent, TypeInv, TypeOK, OrderRow
<1>7. ASSUME NEW r \in Receipts, NEW o \in Orders, CreateGoodsReceipt(r, o)
      PROVE  Silent /\ req' = req
  BY <1>7 DEF CreateGoodsReceipt, NewReceipt, papers, Silent
<1>8. ASSUME NEW s \in Suppliers, MessageFailed(s) PROVE Silent /\ req' = req
  BY <1>8 DEF MessageFailed, goods, Silent, Received, TypeInv, TypeOK
<1>9. QED
  BY <1>2, <1>3, <1>4, <1>5, <1>6, <1>7, <1>8 DEF Supply

LEMMA AcceptSilent ==
    ASSUME TypeInv, NEW p \in Requests, Accept(p)
    PROVE  Silent
<1>1. PICK o \in Orders : NewOrder(o, AnswerTo[req[p].quotation])
  BY DEF Accept
<1>2. counted' = counted
  BY DEF Accept, goods
<1>3. \A n \in Orders : order'[n].status \in {"RECEIVED", "PARTIALLY_RECEIVED"} =>
         order'[n].status = order[n].status
  BY <1>1 DEF NewOrder, TypeInv, TypeOK
<1>4. \A s \in Suppliers : supplier'[s] \in Received => supplier'[s] = supplier[s]
  BY DEF Accept, Received, TypeInv, TypeOK
<1>5. procurement' \notin Received
  BY DEF Accept, Received
<1>6. QED
  BY <1>2, <1>3, <1>4, <1>5 DEF Silent

LEMMA OtherSilent ==
    ASSUME NEW p \in Requests,
           \/ \E q \in Quotations : ReadQuotation(p, q)
           \/ \E s \in Suppliers, r \in Receipts : ReceiveSupplierRequestGoods(p, s, r)
           \/ \E r \in Receipts : ReadReceipt(p, r)
           \/ UpdateLine(p) \/ DeriveStatus(p) \/ Fail(p)
    PROVE  Silent
<1>1. UNCHANGED <<papers, counted>>
  BY DEF ReadQuotation, ReceiveSupplierRequestGoods, NewReceipt, ReadReceipt, UpdateLine,
     DeriveStatus, Fail, goods
<1>2. QED
  BY <1>1 DEF papers, Silent

(* Requests that do not move stay covered, as deliveries only grow.        *)
LEMMA UnmovedRequest ==
    ASSUME TypeInv, TypeOK', Kept, NEW q \in Requests, req'[q] = req[q],
           Covered(q), Earned(q)
    PROVE  Covered(q)' /\ Earned(q)'
<1>1. SUFFICES ASSUME req[q].pc \in {"posting", "derived"} PROVE Covered(q)' /\ Earned(q)'
  BY DEF Covered, Earned
<1>2. OrderOf(q) \in Orders /\ OrderOf(q)' = OrderOf(q)
  BY <1>1, OrderExists DEF TypeInv, Holds, OrderOf, Kept
<1>3. \A i \in Items :
         /\ delivered[OrderOf(q)][i] \in Nat /\ delivered'[OrderOf(q)][i] \in Nat
         /\ delivered[OrderOf(q)][i] <= delivered'[OrderOf(q)][i]
  BY <1>2 DEF Kept, TypeInv, TypeOK
<1>4. \A i \in Items : req[q].seen[i] \in Nat /\ req[q].moved[i] \in Nat /\ Ordered[i] \in Nat
  BY DEF TypeInv, TypeOK, Request
<1>5. Covered(q)'
  BY <1>1, <1>2, <1>3, <1>4 DEF Covered
<1>6. \A i \in Items : /\ Total(q, i) \in Nat /\ Total(q, i)' \in Nat
                       /\ Total(q, i) <= Total(q, i)'
  BY <1>2, <1>3, <1>4 DEF Total
<1>7. Earned(q)'
  BY <1>4, <1>6 DEF Earned
<1>8. QED
  BY <1>5, <1>7

(* It is enough to look at the request that moves.                         *)
LEMMA MovedRequest ==
    ASSUME TypeInv, TypeOK', Kept, SafetyInv, NEW p \in Requests, NEW r,
           req' = [req EXCEPT ![p] = r],
           r.pc \notin {"posting", "derived"} \/ (Covered(p)' /\ Earned(p)')
    PROVE  (\A q \in Requests : Covered(q) /\ Earned(q))'
<1>1. SUFFICES ASSUME NEW q \in Requests PROVE Covered(q)' /\ Earned(q)'
  OBVIOUS
<1>2. CASE q = p
  <2>1. req'[p] = r
    BY DEF TypeInv, TypeOK
  <2>2. QED
    BY <1>2, <2>1 DEF Covered, Earned
<1>3. CASE q # p
  <2>1. req'[q] = req[q]
    BY <1>3 DEF TypeInv, TypeOK
  <2>2. QED
    BY <2>1, UnmovedRequest DEF SafetyInv
<1>4. QED
  BY <1>2, <1>3

LEMMA ReadReceiptSafe ==
    ASSUME TypeInv, TypeOK', Kept, SafetyInv, NEW p \in Requests, NEW t \in Receipts,
           ReadReceipt(p, t)
    PROVE  (\A q \in Requests : Covered(q) /\ Earned(q))'
<1> DEFINE o == receipt[t].order
           r == [Idle EXCEPT !.pc = "posting", !.receipt = t, !.seen = counted[o]]
<1>1. o \in Orders
  BY DEF ReadReceipt, TypeInv, ReceiptsOK
<1>2. /\ r.pc = "posting" /\ r.receipt = t /\ r.seen = counted[o]
      /\ r.moved = Nothing /\ r.wrote = [i \in Items |-> Unwritten]
  BY DEF Idle
<1>3. req' = [req EXCEPT ![p] = r] /\ UNCHANGED <<receipt, delivered>>
  BY DEF ReadReceipt, goods
<1> HIDE DEF r
<1>4. req'[p] = r
  BY <1>3 DEF TypeInv, TypeOK
<1>5. OrderOf(p)' = o
  BY <1>2, <1>3, <1>4 DEF OrderOf
<1>6. \A i \in Items : counted[o][i] \in Nat /\ counted[o][i] <= delivered[o][i]
  BY <1>1 DEF TypeInv, TypeOK, SafetyInv, NeverMoreThanDelivered
<1> HIDE DEF o
<1>7. ASSUME NEW i \in Items
      PROVE  /\ req'[p].seen[i] <= delivered'[OrderOf(p)'][i]
             /\ req'[p].wrote[i] <= req'[p].seen[i] + req'[p].moved[i]
  <2>1. req'[p].moved[i] = 0 /\ req'[p].wrote[i] = Unwritten /\ req'[p].seen[i] = counted[o][i]
    BY <1>2, <1>4 DEF Nothing
  <2>2. delivered'[OrderOf(p)'][i] = delivered[o][i]
    BY <1>3, <1>5
  <2>3. QED
    BY <1>6, <2>1, <2>2 DEF Unwritten
<1>8. Covered(p)' /\ Earned(p)'
  BY <1>2, <1>4, <1>7 DEF Covered, Earned
<1>9. QED
  BY <1>3, <1>8, MovedRequest

LEMMA UpdateLineSafe ==
    ASSUME TypeInv, TypeOK', Kept, SafetyInv, NEW p \in Requests, UpdateLine(p)
    PROVE  (\A q \in Requests : Covered(q) /\ Earned(q))'
<1>1. PICK line \in Line, m \in [Items -> Nat], w \in [Items -> Nat \cup {Unwritten}],
           n \in Nat : LineEffect(p, line, m, w, n)
  BY LineFacts
<1> DEFINE r == [req[p] EXCEPT !.next = n, !.moved = m, !.wrote = w]
<1>2. req[p] \in Request /\ req[p].pc = "posting"
  BY DEF TypeInv, TypeOK, UpdateLine
<1>3. /\ r.pc = "posting" /\ r.receipt = req[p].receipt /\ r.seen = req[p].seen
      /\ r.moved = m /\ r.wrote = w
  BY <1>2 DEF Request
<1>4. req' = [req EXCEPT ![p] = r]
  BY <1>1 DEF LineEffect
<1>5. m = [req[p].moved EXCEPT ![line.item] = req[p].moved[line.item] + line.acceptedQty]
      /\ w = [req[p].wrote EXCEPT ![line.item] = req[p].seen[line.item] + line.acceptedQty]
  BY <1>1 DEF LineEffect
<1>6. UNCHANGED <<receipt, delivered>>
  BY DEF UpdateLine
<1> HIDE DEF r
<1>7. req'[p] = r
  BY <1>4 DEF TypeInv, TypeOK
<1>8. OrderOf(p)' = OrderOf(p)
  BY <1>3, <1>6, <1>7 DEF OrderOf
<1>9. ASSUME NEW i \in Items
      PROVE  /\ req'[p].seen[i] <= delivered'[OrderOf(p)'][i]
             /\ req'[p].wrote[i] <= req'[p].seen[i] + req'[p].moved[i]
  <2>1. /\ req[p].seen[i] <= delivered[OrderOf(p)][i]
        /\ req[p].wrote[i] <= req[p].seen[i] + req[p].moved[i]
    BY <1>2 DEF SafetyInv, Covered
  <2>2. /\ req[p].seen[i] \in Nat /\ req[p].moved[i] \in Nat
        /\ req[p].wrote[i] \in Nat \cup {Unwritten}
        /\ line.acceptedQty \in Nat
    BY <1>2 DEF Request, Line
  <2>3. req[p].moved \in [Items -> Nat] /\ req[p].wrote \in [Items -> Nat \cup {Unwritten}]
    BY <1>2 DEF Request
  <2>4. w[i] <= req[p].seen[i] + m[i]
    <3>1. CASE i = line.item
      <4>1. m[i] = req[p].moved[i] + line.acceptedQty /\ w[i] = req[p].seen[i] + line.acceptedQty
        BY <1>5, <2>3, <3>1
      <4>2. QED
        BY <2>2, <4>1
    <3>2. CASE i # line.item
      <4>1. m[i] = req[p].moved[i] /\ w[i] = req[p].wrote[i]
        BY <1>5, <2>3, <3>2
      <4>2. QED
        BY <2>1, <4>1
    <3>3. QED
      BY <3>1, <3>2
  <2>5. QED
    BY <1>3, <1>6, <1>7, <1>8, <2>1, <2>4
<1>10. Covered(p)' /\ Earned(p)'
  BY <1>3, <1>7, <1>9 DEF Covered, Earned
<1>11. QED
  BY <1>4, <1>10, MovedRequest

(* What a transaction sees of its order's lines will be in the stock when  *)
(* it commits.                                                             *)
LEMMA VisibleIsCovered ==
    ASSUME TypeInv, SafetyInv, NEW p \in Requests, req[p].pc \in {"posting", "derived"},
           NEW i \in Items
    PROVE  Visible(p)[i] <= Total(p, i) /\ Visible(p)[i] \in Nat /\ Total(p, i) \in Nat
<1> DEFINE o == OrderOf(p)
<1>1. o \in Orders
  BY OrderExists
<1>2. /\ counted[o][i] \in Nat /\ delivered[o][i] \in Nat /\ counted[o][i] <= delivered[o][i]
  BY <1>1 DEF TypeInv, TypeOK, SafetyInv, NeverMoreThanDelivered
<1>3. /\ req[p].seen[i] \in Nat /\ req[p].moved[i] \in Nat
      /\ req[p].wrote[i] \in Nat \cup {Unwritten}
  BY DEF TypeInv, TypeOK, Request
<1>4. /\ req[p].seen[i] <= delivered[o][i]
      /\ req[p].wrote[i] <= req[p].seen[i] + req[p].moved[i]
  BY DEF SafetyInv, Covered
<1>5. Visible(p)[i] = IF req[p].wrote[i] = Unwritten THEN counted[o][i] ELSE req[p].wrote[i]
  BY DEF Visible
<1>6. QED
  BY <1>2, <1>3, <1>4, <1>5 DEF Total

LEMMA DeriveStatusSafe ==
    ASSUME TypeInv, TypeOK', Kept, SafetyInv, NEW p \in Requests, DeriveStatus(p)
    PROVE  (\A q \in Requests : Covered(q) /\ Earned(q))'
<1> DEFINE s == OrderStatus(Visible(p))
           r == [req[p] EXCEPT !.pc = "derived", !.status = s]
<1>1. req[p] \in Request /\ req[p].pc = "posting"
  BY DEF TypeInv, TypeOK, DeriveStatus
<1>2. /\ r.pc = "derived" /\ r.receipt = req[p].receipt /\ r.seen = req[p].seen
      /\ r.moved = req[p].moved /\ r.wrote = req[p].wrote /\ r.status = s
  BY <1>1 DEF Request
<1>3. req' = [req EXCEPT ![p] = r] /\ UNCHANGED <<receipt, delivered>>
  BY DEF DeriveStatus, goods
<1> HIDE DEF r, s
<1>4. req'[p] = r
  BY <1>3 DEF TypeInv, TypeOK
<1>5. OrderOf(p)' = OrderOf(p) /\ \A i \in Items : Total(p, i)' = Total(p, i)
  BY <1>2, <1>3, <1>4 DEF OrderOf, Total
<1>6. Covered(p)'
  BY <1>1, <1>2, <1>3, <1>4, <1>5 DEF Covered, SafetyInv
<1>7. \A i \in Items : /\ Visible(p)[i] <= Total(p, i) /\ Ordered[i] \in Nat
                       /\ Visible(p)[i] \in Nat /\ Total(p, i) \in Nat
  BY <1>1, VisibleIsCovered
<1>8. s = "RECEIVED" => \A i \in Items : Visible(p)[i] >= Ordered[i]
  BY DEF s, OrderStatus, AllReceived
<1>9. s = "PARTIALLY_RECEIVED" => \E i \in Items : Visible(p)[i] > 0
  BY DEF s, OrderStatus, AnyReceived
<1>10. s = "RECEIVED" => \A i \in Items : Total(p, i) >= Ordered[i]
  BY <1>7, <1>8
<1>11. s = "PARTIALLY_RECEIVED" => \E i \in Items : Total(p, i) > 0
  BY <1>7, <1>9
<1>12. Earned(p)'
  BY <1>2, <1>4, <1>5, <1>10, <1>11 DEF Earned
<1>13. QED
  BY <1>3, <1>6, <1>12, MovedRequest

LEMMA PostSafe ==
    ASSUME TypeInv, TypeOK', Kept, SafetyInv, NEW p \in Requests, Post(p)
    PROVE  NeverMoreThanDelivered' /\ StatusIsEarned' /\ UpstreamIsEarned'
<1>1. req[p] \in Request /\ req[p].pc = "derived"
  BY DEF TypeInv, TypeOK, Post
<1>2. PICK o \in Orders : o = OrderOf(p) /\ Exists(o)
  BY <1>1, OrderExists
<1>3. PICK st \in DerivedStatuses : st = req[p].status
  BY <1>1 DEF Request
<1>4. \A i \in Items : /\ Visible(p)[i] <= Total(p, i) /\ Ordered[i] \in Nat
                       /\ Visible(p)[i] \in Nat /\ Total(p, i) \in Nat
  BY <1>1, VisibleIsCovered
<1>5. /\ order' = [order EXCEPT ![o] = [order[o] EXCEPT !.status = st]]
      /\ counted' = [counted EXCEPT ![o] = Visible(p)]
      /\ delivered' = [delivered EXCEPT ![o] =
            [i \in Items |-> delivered[o][i] + req[p].moved[i]]]
      /\ SyncUpstream(order[o].from, st)
  BY <1>2, <1>3 DEF Post, TypeInv, TypeOK
<1>6. \A i \in Items : delivered'[o][i] = Total(p, i)
  BY <1>2, <1>5 DEF Total, TypeInv, TypeOK
<1>7. /\ st = "RECEIVED" => AllOf(o)'
      /\ st = "PARTIALLY_RECEIVED" => SomeOf(o)'
  BY <1>1, <1>6, <1>3 DEF SafetyInv, Earned, AllOf, SomeOf
<1>8. NeverMoreThanDelivered'
  <2>1. ASSUME NEW n \in Orders, NEW i \in Items PROVE counted'[n][i] <= delivered'[n][i]
    <3>1. CASE n = o
      BY <1>2, <1>4, <1>5, <1>6, <3>1 DEF TypeInv, TypeOK
    <3>2. CASE n # o
      BY <1>5, <3>2 DEF TypeInv, TypeOK, SafetyInv, NeverMoreThanDelivered
    <3>3. QED
      BY <3>1, <3>2
  <2>2. QED
    BY <2>1 DEF NeverMoreThanDelivered
<1>9. StatusIsEarned'
  <2>1. ASSUME NEW n \in Orders
        PROVE  /\ order'[n].status = "RECEIVED" => AllOf(n)'
               /\ order'[n].status = "PARTIALLY_RECEIVED" => SomeOf(n)'
    <3>1. CASE n = o
      <4>1. order'[o].status = st
        BY <1>2, <1>5 DEF TypeInv, TypeOK, OrderRow
      <4>2. QED
        BY <1>7, <3>1, <4>1
    <3>2. CASE n # o
      <4>1. order'[n] = order[n]
        BY <1>5, <3>2 DEF TypeInv, TypeOK
      <4>2. QED
        BY <4>1, Grows DEF TypeInv, SafetyInv, StatusIsEarned
    <3>3. QED
      BY <3>1, <3>2
  <2>2. QED
    BY <2>1 DEF StatusIsEarned
<1>10. \A n \in Orders, s \in Suppliers :
         /\ From(n, s) /\ AllOf(n) => From(n, s)' /\ AllOf(n)'
         /\ From(n, s) /\ SomeOf(n) => From(n, s)' /\ SomeOf(n)'
  BY Grows, FromStays DEF TypeInv
<1>11. CASE order[o].from = NoSupplier
  <2>1. UNCHANGED <<supplier, procurement>>
    BY <1>5, <1>11 DEF SyncUpstream
  <2>2. UpstreamIsEarned'
    BY <1>10, <2>1 DEF UpstreamIsEarned, SafetyInv
  <2>3. QED
    BY <1>8, <1>9, <2>2
<1>12. CASE order[o].from # NoSupplier
  <2>0. PICK f \in Suppliers : f = order[o].from
    BY <1>12 DEF TypeInv, TypeOK, OrderRow
  <2>1. From(o, f)'
    BY <1>2, <2>0, FromStays DEF From
  <2>2. supplier' = [supplier EXCEPT ![f] = SupplierStatus(st)]
        /\ procurement' = ProcurementStatus(st)
    BY <1>5, <1>12, <2>0 DEF SyncUpstream
  <2>3. /\ SupplierStatus(st) = "FULLY_RECEIVED" => st = "RECEIVED"
        /\ SupplierStatus(st) = "PARTIALLY_RECEIVED" => st = "PARTIALLY_RECEIVED"
        /\ ProcurementStatus(st) = "FULLY_RECEIVED" => st = "RECEIVED"
        /\ ProcurementStatus(st) = "PARTIALLY_RECEIVED" => st = "PARTIALLY_RECEIVED"
    BY DEF SupplierStatus, ProcurementStatus
  <2>4. \A s \in Suppliers : s # f => supplier'[s] = supplier[s]
    BY <2>2 DEF TypeInv, TypeOK
  <2>5. supplier'[f] = SupplierStatus(st)
    BY <2>1, <2>2 DEF TypeInv, TypeOK
  <2>6. UpstreamIsEarned'
    <3>1. ASSUME NEW s \in Suppliers
          PROVE  /\ supplier'[s] = "FULLY_RECEIVED" =>
                       \E n \in Orders : From(n, s)' /\ AllOf(n)'
                 /\ supplier'[s] = "PARTIALLY_RECEIVED" =>
                       \E n \in Orders : From(n, s)' /\ SomeOf(n)'
      <4>1. CASE s = f
        BY <1>2, <1>7, <2>1, <2>3, <2>5, <4>1
      <4>2. CASE s # f
        BY <1>10, <2>4, <4>2 DEF UpstreamIsEarned, SafetyInv
      <4>3. QED
        BY <4>1, <4>2
    <3>2. /\ procurement' = "FULLY_RECEIVED" =>
                \E n \in Orders, s \in Suppliers : From(n, s)' /\ AllOf(n)'
          /\ procurement' = "PARTIALLY_RECEIVED" =>
                \E n \in Orders, s \in Suppliers : From(n, s)' /\ SomeOf(n)'
      BY <1>2, <1>7, <2>1, <2>2, <2>3
    <3>3. QED
      BY <3>1, <3>2 DEF UpstreamIsEarned
  <2>7. QED
    BY <1>8, <1>9, <2>6
<1>13. QED
  BY <1>11, <1>12

LEMMA RequestsSafe ==
    ASSUME TypeInv, TypeOK', Kept, SafetyInv, NEW p \in Requests, Serve(p)
    PROVE  (\A q \in Requests : Covered(q) /\ Earned(q))'
<1>1. CASE \E q \in Quotations : ReadQuotation(p, q)
  <2>1. PICK q \in Quotations : ReadQuotation(p, q)
    BY <1>1
  <2> DEFINE r == [Idle EXCEPT !.pc = "accepting", !.quotation = q]
  <2>2. req' = [req EXCEPT ![p] = r] /\ r.pc = "accepting"
    BY <2>1 DEF ReadQuotation, Idle
  <2> HIDE DEF r
  <2>3. QED
    BY <2>2, MovedRequest
<1>2. CASE Accept(p) \/ Post(p) \/ Fail(p)
  <2>1. req' = [req EXCEPT ![p] = Idle]
    BY <1>2 DEF Accept, Post, Fail
  <2>2. QED
    BY <2>1, IdleHolds, MovedRequest
<1>3. CASE \E s \in Suppliers, t \in Receipts : ReceiveSupplierRequestGoods(p, s, t)
  <2>1. PICK s \in Suppliers, t \in Receipts : ReceiveSupplierRequestGoods(p, s, t)
    BY <1>3
  <2> DEFINE r == [Idle EXCEPT !.pc = "created", !.receipt = t]
  <2>2. req' = [req EXCEPT ![p] = r] /\ r.pc = "created"
    BY <2>1 DEF ReceiveSupplierRequestGoods, Idle
  <2> HIDE DEF r
  <2>3. QED
    BY <2>2, MovedRequest
<1>4. CASE \E t \in Receipts : ReadReceipt(p, t)
  BY <1>4, ReadReceiptSafe
<1>5. CASE UpdateLine(p)
  BY <1>5, UpdateLineSafe
<1>6. CASE DeriveStatus(p)
  BY <1>6, DeriveStatusSafe
<1>7. QED
  BY <1>1, <1>2, <1>3, <1>4, <1>5, <1>6 DEF Serve

LEMMA SafetyStep == TypeInv /\ SafetyInv /\ [Next]_vars => SafetyInv'
<1> SUFFICES ASSUME TypeInv, SafetyInv, [Next]_vars PROVE SafetyInv'
  OBVIOUS
<1>1. TypeInv' /\ TypeOK /\ TypeOK' /\ Kept
  BY TypeStep DEF TypeInv
<1>2. CASE Supply \/ UNCHANGED vars
  <2>1. Silent /\ req' = req
    BY <1>2, SupplySilent DEF vars, papers, goods, Silent
  <2>2. \A q \in Requests : Covered(q)' /\ Earned(q)'
    BY <1>1, <2>1, UnmovedRequest DEF SafetyInv
  <2>3. QED
    BY <1>1, <2>1, <2>2, SilentStep DEF SafetyInv
<1>3. ASSUME NEW p \in Requests, Serve(p) PROVE SafetyInv'
  <2>1. (\A q \in Requests : Covered(q) /\ Earned(q))'
    BY <1>1, <1>3, RequestsSafe
  <2>2. CASE Post(p)
    BY <1>1, <2>1, <2>2, PostSafe DEF SafetyInv
  <2>3. CASE ~Post(p)
    <3>1. Silent
      BY <1>3, <2>3, AcceptSilent, OtherSilent DEF Serve
    <3>2. QED
      BY <1>1, <2>1, <3>1, SilentStep DEF SafetyInv
  <2>4. QED
    BY <2>2, <2>3
<1>4. QED
  BY <1>2, <1>3 DEF Next

LEMMA Safe == Spec => [](TypeInv /\ SafetyInv)
BY TypeInit, SafetyInit, TypeStep, SafetyStep, PTL DEF Spec

(* However postings interleave, an order line never counts more than was   *)
(* delivered for it.                                                       *)
THEOREM CountsAreCovered == Spec => []NeverMoreThanDelivered
<1>1. SafetyInv => NeverMoreThanDelivered
  BY DEF SafetyInv
<1>2. QED
  BY <1>1, Safe, PTL

(* An order is RECEIVED, or PARTIALLY_RECEIVED, only when it was.          *)
THEOREM OrdersAreReceived == Spec => []StatusIsEarned
<1>1. SafetyInv => StatusIsEarned
  BY DEF SafetyInv
<1>2. QED
  BY <1>1, Safe, PTL

(* The supplier request and the procurement request say so only when one   *)
(* of their orders was.                                                    *)
THEOREM RequestsAreReceived == Spec => []UpstreamIsEarned
<1>1. SafetyInv => UpstreamIsEarned
  BY DEF SafetyInv
<1>2. QED
  BY <1>1, Safe, PTL

-----------------------------------------------------------------------------
(* One request at a time. *)

LEMMA SerialIsNext == [SerialNext]_vars => [Next]_vars
BY DEF SerialNext, Next

LEMMA SerialTypes == SerialSpec => []TypeInv
<1>1. TypeInv /\ [SerialNext]_vars => TypeInv'
  BY SerialIsNext, TypeStep
<1>2. QED
  BY <1>1, TypeInit, PTL DEF SerialSpec

(* A receipt that is being posted is still a draft, because whoever else   *)
(* could post it waits, and a receipt is booked once it is posted.         *)
BookedOnPosting == \A r \in Receipts :
    booked[r] = IF receipt[r].status = "POSTED" THEN 1 ELSE 0
PostsDraft(p) == req[p].pc \in {"posting", "derived"} =>
    receipt[req[p].receipt].status = "DRAFT"
SerialInv == BookedOnPosting /\ \A p \in Requests : PostsDraft(p)

(* What the suppliers and the office do leaves a draft a draft.            *)
LEMMA SupplyKeepsDrafts ==
    ASSUME TypeInv, Supply
    PROVE  /\ UNCHANGED <<booked, req>>
           /\ \A r \in Receipts :
                 \/ receipt'[r] = receipt[r]
                 \/ receipt[r].status = "none" /\ receipt'[r].status = "DRAFT"
<1>1. CASE \E r \in Receipts, o \in Orders : CreateGoodsReceipt(r, o)
  BY <1>1 DEF TypeInv, TypeOK, CreateGoodsReceipt, NewReceipt
<1>2. CASE UNCHANGED <<booked, receipt, req>>
  BY <1>2
<1>3. QED
  BY <1>1, <1>2 DEF Supply, MessageSent, MessageFailed, AddSupplierResponse,
     RejectSupplierQuotation, CreatePurchaseOrder, SubmitPurchaseOrder, goods

(* A request in progress either posts its receipt, or creates one, or      *)
(* leaves them all; when it goes on posting, its receipt is a draft.       *)
LEMMA ServeKeepsDrafts ==
    ASSUME TypeInv, SerialInv, NEW p \in Requests, Serve(p)
    PROVE  /\ \A q \in Requests \ {p} : req'[q] = req[q]
           /\ BookedOnPosting'
           /\ PostsDraft(p)'
<1>1. ASSUME NEW s \in Suppliers, NEW r \in Receipts, ReceiveSupplierRequestGoods(p, s, r)
      PROVE  BookedOnPosting' /\ PostsDraft(p)'
  <2>1. req'[p].pc = "created"
    BY <1>1 DEF ReceiveSupplierRequestGoods, TypeInv, TypeOK, Idle
  <2>2. /\ booked' = booked
        /\ \A t \in Receipts : \/ receipt'[t] = receipt[t]
                               \/ receipt[t].status = "none" /\ receipt'[t].status = "DRAFT"
    BY <1>1 DEF ReceiveSupplierRequestGoods, NewReceipt, TypeInv, TypeOK
  <2>3. QED
    BY <2>1, <2>2 DEF SerialInv, BookedOnPosting, PostsDraft
<1>2. ASSUME NEW r \in Receipts, ReadReceipt(p, r)
      PROVE  BookedOnPosting' /\ PostsDraft(p)'
  <2>1. req'[p].receipt = r /\ receipt[r].status = "DRAFT"
    BY <1>2 DEF ReadReceipt, TypeInv, TypeOK, Idle
  <2>2. booked' = booked /\ receipt' = receipt
    BY <1>2 DEF ReadReceipt, goods
  <2>3. QED
    BY <2>1, <2>2 DEF SerialInv, BookedOnPosting, PostsDraft
<1>3. ASSUME UpdateLine(p) \/ DeriveStatus(p)
      PROVE  BookedOnPosting' /\ PostsDraft(p)'
  <2>0. req \in [Requests -> Request]
    BY DEF TypeInv, TypeOK
  <2>1. req'[p].receipt = req[p].receipt /\ req[p].pc = "posting"
    <3>1. CASE UpdateLine(p)
      <4>1. PICK n, m, w :
              req' = [req EXCEPT ![p] = [req[p] EXCEPT !.next = n, !.moved = m, !.wrote = w]]
        BY <3>1 DEF UpdateLine
      <4>2. QED
        BY <2>0, <3>1, <4>1 DEF Request, UpdateLine
    <3>2. CASE DeriveStatus(p)
      <4>1. PICK t : req' = [req EXCEPT ![p] = [req[p] EXCEPT !.pc = "derived", !.status = t]]
        BY <3>2 DEF DeriveStatus
      <4>2. QED
        BY <2>0, <3>2, <4>1 DEF Request, DeriveStatus
    <3>3. QED
      BY <1>3, <3>1, <3>2
  <2>2. booked' = booked /\ receipt' = receipt
    BY <1>3 DEF UpdateLine, DeriveStatus, goods
  <2>3. QED
    BY <2>1, <2>2 DEF SerialInv, BookedOnPosting, PostsDraft
<1>4. ASSUME Post(p)
      PROVE  BookedOnPosting' /\ PostsDraft(p)'
  <2>1. PICK r \in Receipts : r = req[p].receipt /\ receipt[r].status = "DRAFT"
    BY <1>4 DEF Post, SerialInv, PostsDraft, TypeInv, Holds
  <2>2. /\ receipt'[r].status = "POSTED" /\ booked'[r] = booked[r] + 1
        /\ \A t \in Receipts \ {r} : receipt'[t] = receipt[t] /\ booked'[t] = booked[t]
        /\ req'[p].pc = "idle"
    BY <1>4, <2>1 DEF Post, TypeInv, TypeOK, ReceiptRow, Idle
  <2>3. booked[r] = 0
    BY <2>1 DEF SerialInv, BookedOnPosting
  <2>4. QED
    BY <2>2, <2>3 DEF SerialInv, BookedOnPosting, PostsDraft
<1>5. ASSUME \/ \E q \in Quotations : ReadQuotation(p, q)
             \/ Accept(p)
             \/ Fail(p)
      PROVE  BookedOnPosting' /\ PostsDraft(p)'
  <2>0. p \in DOMAIN req
    BY DEF TypeInv, TypeOK
  <2>1. req'[p].pc \in {"idle", "accepting"}
    <3>1. CASE \E q \in Quotations : ReadQuotation(p, q)
      <4>1. PICK q : req' = [req EXCEPT ![p] = [Idle EXCEPT !.pc = "accepting", !.quotation = q]]
        BY <3>1 DEF ReadQuotation
      <4>2. QED
        BY <2>0, <4>1 DEF Idle
    <3>2. CASE req' = [req EXCEPT ![p] = Idle]
      BY <2>0, <3>2 DEF Idle
    <3>3. QED
      BY <1>5, <3>1, <3>2 DEF Accept, Fail
  <2>2. booked' = booked /\ receipt' = receipt
    BY <1>5 DEF ReadQuotation, Accept, Fail, goods
  <2>3. QED
    BY <2>1, <2>2 DEF SerialInv, BookedOnPosting, PostsDraft
<1>6. \A q \in Requests \ {p} : req'[q] = req[q]
  BY DEF Serve, ReadQuotation, Accept, ReceiveSupplierRequestGoods, ReadReceipt, UpdateLine,
     DeriveStatus, Post, Fail, TypeInv, TypeOK
<1>7. QED
  BY <1>1, <1>2, <1>3, <1>4, <1>5, <1>6 DEF Serve

LEMMA SerialStep == TypeInv /\ SerialInv /\ [SerialNext]_vars => SerialInv'
<1> SUFFICES ASSUME TypeInv, SerialInv, [SerialNext]_vars
             PROVE  SerialInv'
  OBVIOUS
<1>1. CASE UNCHANGED vars
  BY <1>1 DEF vars, goods, SerialInv, BookedOnPosting, PostsDraft
<1>2. CASE Supply
  <2>1. BookedOnPosting'
    BY <1>2, SupplyKeepsDrafts DEF SerialInv, BookedOnPosting
  <2>2. ASSUME NEW p \in Requests
        PROVE  PostsDraft(p)'
    BY <1>2, <2>2, SupplyKeepsDrafts DEF SerialInv, PostsDraft, TypeInv, Holds
  <2>3. QED
    BY <2>1, <2>2 DEF SerialInv
<1>3. ASSUME NEW p \in Requests, Serve(p), \A q \in Requests \ {p} : req[q].pc = "idle"
      PROVE  SerialInv'
  <2>1. \A q \in Requests \ {p} : req'[q].pc = "idle"
    BY <1>3, ServeKeepsDrafts
  <2>2. \A q \in Requests \ {p} : PostsDraft(q)'
    BY <2>1 DEF PostsDraft
  <2>3. QED
    BY <1>3, <2>2, ServeKeepsDrafts DEF SerialInv
<1>4. QED
  BY <1>1, <1>2, <1>3 DEF SerialNext

(* "Goods receipt cannot be posted twice" holds as long as no two requests *)
(* overlap: only a post that read the draft before another one committed   *)
(* books a receipt a second time.                                          *)
THEOREM SerialReceiptsPostOnce == SerialSpec => []PostedOnce
<1>1. Init => SerialInv
  BY DEF Init, SerialInv, BookedOnPosting, PostsDraft, Idle
<1>2. SerialInv => PostedOnce
  BY DEF SerialInv, BookedOnPosting, PostedOnce
<1>3. QED
  BY <1>1, <1>2, SerialStep, SerialTypes, PTL DEF SerialSpec
=============================================================================
