------------------------------ MODULE Purchasing ------------------------------
(***************************************************************************)
(* From a supplier's quotation to the goods on the shelf, for ONE          *)
(* procurement request: quotations are received, accepted (which creates a *)
(* purchase order) or rejected; orders are submitted; goods receipts are   *)
(* created against an order and posted, which books their accepted         *)
(* quantities into the stock, counts them on the order's lines and derives *)
(* the status of the order, of the supplier request and of the procurement *)
(* request from the lines.                                                 *)
(*                                                                         *)
(* Accepting and posting check a status BEFORE the transaction that acts   *)
(* on it, and posting adds to line quantities it has read there too.  A    *)
(* transaction locks the order lines it writes; its other rows are written *)
(* last and always in the same order, so that those writes are one step    *)
(* with the COMMIT.  A receipt without an order only moves stock, as in    *)
(* StockLedger, and is left out here.  Every order has a line per item.    *)
(***************************************************************************)
EXTENDS Integers, Sequences

CONSTANTS
    Requests,      \* requests in progress at the same time
    NoRequest,
    Suppliers,     \* the supplier requests of the procurement request
    NoSupplier,    \* of an order that was created by hand
    Quotations,
    NoQuotation,
    AnswerTo,      \* the supplier request a quotation answers
    MaxOrder,      \* BOUND: orders are 1 .. MaxOrder, in createdAt order
    Receipts,
    NoReceipt,
    Items,
    Ordered,       \* orderedQty of the line of each item, in every order
    Deliveries     \* the lines of a receipt: sequences of Line

Orders  == 1 .. MaxOrder
NoOrder == 0

(* validateGoodsReceipt: what is accepted was received.                    *)
Line == {l \in [item : Items, receivedQty : Nat, acceptedQty : Nat] :
            l.acceptedQty <= l.receivedQty}

ASSUME PurchasingAssumption ==
    /\ NoRequest \notin Requests
    /\ NoSupplier \notin Suppliers
    /\ AnswerTo \in [Quotations -> Suppliers]
    /\ MaxOrder \in Nat
    /\ NoQuotation \notin Quotations
    /\ NoReceipt \notin Receipts
    /\ Ordered \in [Items -> Nat]
    /\ Deliveries \subseteq Seq(Line)

VARIABLES
    procurement,   \* status of the procurement request
    supplier,      \* status of each supplier request
    quotation,     \* status of each quotation; "none" before it exists
    order,         \* PurchaseOrder rows: status, supplier request
    counted,       \* receivedQty of the order lines
    lineLock,      \* the request whose transaction has written the line
    receipt,       \* GoodsReceipt rows: status, order, lines
    delivered,     \* what PURCHASE_RECEIPT movements brought, by order and item
    booked,        \* how many times a receipt was posted
    req            \* the local state of each request

papers == <<procurement, supplier, quotation, order>>
goods  == <<counted, lineLock, receipt, delivered, booked>>
vars   == <<papers, goods, req>>

Nothing   == [i \in Items |-> 0]
Unwritten == -1
Idle == [pc |-> "idle", quotation |-> NoQuotation, receipt |-> NoReceipt,
         next |-> 1, seen |-> Nothing, moved |-> Nothing,
         wrote |-> [i \in Items |-> Unwritten], status |-> "none"]

Init ==
    /\ procurement = "SUPPLIER_REQUEST_CREATED"
    /\ supplier = [s \in Suppliers |-> "READY_TO_SEND"]
    /\ quotation = [q \in Quotations |-> "none"]
    /\ order = [o \in Orders |-> [status |-> "none", from |-> NoSupplier]]
    /\ counted = [o \in Orders |-> Nothing]
    /\ lineLock = [o \in Orders |-> [i \in Items |-> NoRequest]]
    /\ receipt = [r \in Receipts |-> [status |-> "none", order |-> NoOrder, lines |-> <<>>]]
    /\ delivered = [o \in Orders |-> Nothing]
    /\ booked = [r \in Receipts |-> 0]
    /\ req = [p \in Requests |-> Idle]

Exists(o) == order[o].status # "none"
From(o, s) == Exists(o) /\ order[o].from = s
NewOrder(o, s) ==
    /\ ~Exists(o)
    /\ \A n \in Orders : n < o => Exists(n)
    /\ order' = [order EXCEPT ![o] = [status |-> "DRAFT", from |-> s]]

(***************************************************************************)
(* Quotations and orders.                                                  *)
(***************************************************************************)

(* sendSupplierRequestMessage, once the provider took the message.         *)
MessageSent(s) ==
    /\ supplier' = [supplier EXCEPT ![s] = "AWAITING_REPLY"]
    /\ procurement' = "SUPPLIER_MESSAGE_SENT"
    /\ UNCHANGED <<quotation, order, goods, req>>

(* markSendFailure, when it did not.                                       *)
MessageFailed(s) ==
    /\ supplier' = [supplier EXCEPT ![s] = "READY_TO_SEND"]
    /\ UNCHANGED <<procurement, quotation, order, goods, req>>

AddSupplierResponse(q) ==
    /\ quotation[q] = "none"
    /\ quotation' = [quotation EXCEPT ![q] = "RECEIVED"]
    /\ supplier' = [supplier EXCEPT ![AnswerTo[q]] = "QUOTATION_RECEIVED"]
    /\ procurement' = "QUOTATION_RECEIVED"
    /\ UNCHANGED <<order, goods, req>>

Final(status) == status \in {"REJECTED", "PO_CREATED"}
ReadQuotation(p, q) ==
    /\ req[p].pc = "idle"
    /\ quotation[q] # "none"
    /\ ~Final(quotation[q])
    /\ req' = [req EXCEPT ![p] = [Idle EXCEPT !.pc = "accepting", !.quotation = q]]
    /\ UNCHANGED <<papers, goods>>

Accept(p) ==
    /\ req[p].pc = "accepting"
    /\ \E o \in Orders : NewOrder(o, AnswerTo[req[p].quotation])
    /\ quotation' = [quotation EXCEPT ![req[p].quotation] = "PO_CREATED"]
    /\ supplier' = [supplier EXCEPT ![AnswerTo[req[p].quotation]] = "PO_CREATED"]
    /\ procurement' = "CONFIRMED"
    /\ req' = [req EXCEPT ![p] = Idle]
    /\ UNCHANGED goods

RejectSupplierQuotation(q) ==
    /\ quotation[q] # "none"
    /\ quotation' = [quotation EXCEPT ![q] = "REJECTED"]
    /\ supplier' = [supplier EXCEPT ![AnswerTo[q]] = "REJECTED"]
    /\ UNCHANGED <<procurement, order, goods, req>>

CreatePurchaseOrder ==
    /\ \E o \in Orders : NewOrder(o, NoSupplier)
    /\ UNCHANGED <<procurement, supplier, quotation, goods, req>>

SubmitPurchaseOrder(o) ==
    /\ Exists(o)
    /\ order' = [order EXCEPT ![o] = [@ EXCEPT !.status = "SUBMITTED"]]
    /\ UNCHANGED <<procurement, supplier, quotation, goods, req>>

(***************************************************************************)
(* Goods receipts.                                                         *)
(***************************************************************************)
NewReceipt(r, o, lines) ==
    /\ receipt[r].status = "none"
    /\ receipt' = [receipt EXCEPT ![r] = [status |-> "DRAFT", order |-> o, lines |-> lines]]
    /\ UNCHANGED <<papers, counted, lineLock, delivered, booked>>

CreateGoodsReceipt(r, o) ==
    /\ Exists(o)
    /\ \E lines \in Deliveries : NewReceipt(r, o, lines)
    /\ UNCHANGED req

(* receiveSupplierRequestGoods creates a receipt for the newest order of   *)
(* the supplier request and goes on to post it.                            *)
NewestFrom(o, s) ==
    /\ From(o, s)
    /\ \A n \in Orders : From(n, s) => n <= o
ReceiveSupplierRequestGoods(p, s, r) ==
    /\ req[p].pc = "idle"
    /\ \E o \in Orders, lines \in Deliveries :
          NewestFrom(o, s) /\ NewReceipt(r, o, lines)
    /\ req' = [req EXCEPT ![p] = [Idle EXCEPT !.pc = "created", !.receipt = r]]

(* postGoodsReceipt.  The status and the order's lines are read here; the  *)
(* transaction begins with the first line.                                 *)
ReadReceipt(p, r) ==
    /\ \/ req[p].pc = "idle"
       \/ req[p].pc = "created" /\ req[p].receipt = r
    /\ receipt[r].status = "DRAFT"
    /\ req' = [req EXCEPT ![p] = [Idle EXCEPT !.pc = "posting", !.receipt = r,
                                              !.seen = counted[receipt[r].order]]]
    /\ UNCHANGED <<papers, goods>>

OrderOf(p) == receipt[req[p].receipt].order
Lines(p)   == receipt[req[p].receipt].lines

(* One line: its accepted quantity moves into the stock and is added to    *)
(* the receivedQty that ReadReceipt saw.                                   *)
ReceivedToo(p, line) == req[p].seen[line.item] + line.receivedQty   \* mutant
TakenOff(p, line)    == req[p].seen[line.item] - line.acceptedQty   \* mutant
Counted(p, line) == req[p].seen[line.item] + line.acceptedQty
UpdateLine(p) ==
    /\ req[p].pc = "posting"
    /\ req[p].next \in DOMAIN Lines(p)
    /\ LET o == OrderOf(p)
           line == Lines(p)[req[p].next]
           i == line.item
       IN /\ lineLock[o][i] \in {NoRequest, p}
          /\ lineLock' = [lineLock EXCEPT ![o] = [@ EXCEPT ![i] = p]]
          /\ req' = [req EXCEPT ![p] =
                [req[p] EXCEPT
                    !.next = req[p].next + 1,
                    !.moved = [req[p].moved EXCEPT ![i] = req[p].moved[i] + line.acceptedQty],
                    !.wrote = [req[p].wrote EXCEPT ![i] = Counted(p, line)]]]
    /\ UNCHANGED <<papers, counted, receipt, delivered, booked>>

(* receivedQty of the order's lines as the transaction sees it.            *)
Visible(p) == [i \in Items |->
    IF req[p].wrote[i] = Unwritten THEN counted[OrderOf(p)][i] ELSE req[p].wrote[i]]

AnyReceived(qty) == \E i \in Items : qty[i] > 0
AllReceived(qty) == \A i \in Items : qty[i] >= Ordered[i]
OrderStatus(qty) ==
    IF AllReceived(qty) THEN "RECEIVED"
    ELSE IF AnyReceived(qty) THEN "PARTIALLY_RECEIVED"
    ELSE "SUBMITTED"

DeriveStatus(p) ==
    /\ req[p].pc = "posting"
    /\ req[p].next \notin DOMAIN Lines(p)
    /\ req' = [req EXCEPT ![p] = [req[p] EXCEPT !.pc = "derived",
                                                !.status = OrderStatus(Visible(p))]]
    /\ UNCHANGED <<papers, goods>>

Release(p, o) == lineLock' = [lineLock EXCEPT ![o] =
    [i \in Items |-> IF lineLock[o][i] = p THEN NoRequest ELSE lineLock[o][i]]]

(* syncSupplierRequestReceiptStatus: an order created by hand has neither  *)
(* a supplier request nor a procurement request.                           *)
SupplierStatus(status) ==
    CASE status = "RECEIVED" -> "FULLY_RECEIVED"
      [] status = "PARTIALLY_RECEIVED" -> "PARTIALLY_RECEIVED"
      [] OTHER -> "DELIVERY_PENDING"
PartIsFull(status) ==                                               \* mutant
    IF status = "SUBMITTED" THEN "CONFIRMED" ELSE "FULLY_RECEIVED"
ProcurementStatus(status) ==
    CASE status = "RECEIVED" -> "FULLY_RECEIVED"
      [] status = "PARTIALLY_RECEIVED" -> "PARTIALLY_RECEIVED"
      [] OTHER -> "CONFIRMED"
SyncUpstream(s, status) ==
    IF s = NoSupplier THEN UNCHANGED <<supplier, procurement>>
    ELSE /\ supplier' = [supplier EXCEPT ![s] = SupplierStatus(status)]
         /\ procurement' = ProcurementStatus(status)

Post(p) ==
    /\ req[p].pc = "derived"
    /\ LET o == OrderOf(p)  r == req[p].receipt
       IN /\ order' = [order EXCEPT ![o] = [@ EXCEPT !.status = req[p].status]]
          /\ SyncUpstream(order[o].from, req[p].status)
          /\ counted' = [counted EXCEPT ![o] = Visible(p)]
          /\ delivered' = [delivered EXCEPT ![o] =
                [i \in Items |-> delivered[o][i] + req[p].moved[i]]]
          /\ receipt' = [receipt EXCEPT ![r] = [@ EXCEPT !.status = "POSTED"]]
          /\ booked' = [booked EXCEPT ![r] = @ + 1]
          /\ Release(p, o)
    /\ req' = [req EXCEPT ![p] = Idle]
    /\ UNCHANGED quotation

(* An error, a deadlock broken by the database, a timeout or a crash: the  *)
(* transaction leaves nothing behind.                                      *)
Fail(p) ==
    /\ req[p].pc # "idle"
    /\ IF req[p].receipt = NoReceipt THEN UNCHANGED lineLock ELSE Release(p, OrderOf(p))
    /\ req' = [req EXCEPT ![p] = Idle]
    /\ UNCHANGED <<papers, counted, receipt, delivered, booked>>

Supply ==
    \/ \E s \in Suppliers : MessageSent(s) \/ MessageFailed(s)
    \/ \E q \in Quotations : AddSupplierResponse(q) \/ RejectSupplierQuotation(q)
    \/ CreatePurchaseOrder
    \/ \E o \in Orders : SubmitPurchaseOrder(o)
    \/ \E r \in Receipts, o \in Orders : CreateGoodsReceipt(r, o)
Serve(p) ==
    \/ \E q \in Quotations : ReadQuotation(p, q)
    \/ Accept(p)
    \/ \E s \in Suppliers, r \in Receipts : ReceiveSupplierRequestGoods(p, s, r)
    \/ \E r \in Receipts : ReadReceipt(p, r)
    \/ UpdateLine(p)
    \/ DeriveStatus(p)
    \/ Post(p)
    \/ Fail(p)
Next == Supply \/ \E p \in Requests : Serve(p)
Spec == Init /\ [][Next]_vars

(* The same requests, one at a time: none takes a step while another is in *)
(* progress.                                                               *)
SerialNext ==
    \/ Supply
    \/ \E p \in Requests : Serve(p) /\ \A q \in Requests \ {p} : req[q].pc = "idle"

SerialSpec == Init /\ [][SerialNext]_vars

(***************************************************************************)
(* Properties                                                              *)
(***************************************************************************)
Received == {"FULLY_RECEIVED", "PARTIALLY_RECEIVED"}
ProcurementStatuses ==
    {"SUPPLIER_REQUEST_CREATED", "SUPPLIER_MESSAGE_SENT", "QUOTATION_RECEIVED",
     "CONFIRMED"} \cup Received
SupplierStatuses ==
    {"READY_TO_SEND", "AWAITING_REPLY", "QUOTATION_RECEIVED", "PO_CREATED",
     "REJECTED", "DELIVERY_PENDING"} \cup Received
OrderStatuses   == {"none", "DRAFT", "SUBMITTED", "PARTIALLY_RECEIVED", "RECEIVED"}
DerivedStatuses == {"none", "SUBMITTED", "PARTIALLY_RECEIVED", "RECEIVED"}
Steps      == {"idle", "accepting", "created", "posting", "derived"}
OrderRow   == [status : OrderStatuses, from : Suppliers \cup {NoSupplier}]
ReceiptRow == [status : {"none", "DRAFT", "POSTED"}, order : Orders \cup {NoOrder},
               lines : Deliveries \cup {<<>>}]
Request    == [pc : Steps, quotation : Quotations \cup {NoQuotation},
               receipt : Receipts \cup {NoReceipt}, next : Nat,
               seen : [Items -> Nat], moved : [Items -> Nat],
               wrote : [Items -> Nat \cup {Unwritten}], status : DerivedStatuses]

TypeOK ==
    /\ procurement \in ProcurementStatuses
    /\ supplier \in [Suppliers -> SupplierStatuses]
    /\ quotation \in [Quotations -> {"none", "RECEIVED", "REJECTED", "PO_CREATED"}]
    /\ order \in [Orders -> OrderRow]
    /\ counted \in [Orders -> [Items -> Nat]]
    /\ lineLock \in [Orders -> [Items -> Requests \cup {NoRequest}]]
    /\ receipt \in [Receipts -> ReceiptRow]
    /\ delivered \in [Orders -> [Items -> Nat]]
    /\ booked \in [Receipts -> Nat]
    /\ req \in [Requests -> Request]

(* An order line never counts more than was brought into the stock for it, *)
(* though the count is written from a value read before the transaction.   *)
NeverMoreThanDelivered ==
    \A o \in Orders, i \in Items : counted[o][i] <= delivered[o][i]

(* An order is RECEIVED only when all that was ordered on each of its      *)
(* lines is in the stock, and PARTIALLY_RECEIVED only when something is.   *)
SomeOf(o) == \E i \in Items : delivered[o][i] > 0
AllOf(o)  == \A i \in Items : delivered[o][i] >= Ordered[i]
StatusIsEarned == \A o \in Orders :
    /\ order[o].status = "RECEIVED" => AllOf(o)
    /\ order[o].status = "PARTIALLY_RECEIVED" => SomeOf(o)

(* The supplier request and the procurement request say FULLY_RECEIVED or  *)
(* PARTIALLY_RECEIVED only when an order made for them was, whatever       *)
(* message, quotation, order or receipt came in between.                   *)
UpstreamIsEarned ==
    /\ \A s \in Suppliers :
        /\ supplier[s] = "FULLY_RECEIVED" => \E o \in Orders : From(o, s) /\ AllOf(o)
        /\ supplier[s] = "PARTIALLY_RECEIVED" => \E o \in Orders : From(o, s) /\ SomeOf(o)
    /\ procurement = "FULLY_RECEIVED" =>
          \E o \in Orders, s \in Suppliers : From(o, s) /\ AllOf(o)
    /\ procurement = "PARTIALLY_RECEIVED" =>
          \E o \in Orders, s \in Suppliers : From(o, s) /\ SomeOf(o)

(* "Goods receipt cannot be posted twice".                                 *)
PostedOnce == \A r \in Receipts : booked[r] <= 1
=============================================================================
