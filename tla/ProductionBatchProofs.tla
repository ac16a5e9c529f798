------------------------ MODULE ProductionBatchProofs ------------------------
(***************************************************************************)
(* Proofs about ProductionBatch, for any number of requests, batches,      *)
(* ingredients and balance rows, and any recipe.                           *)
(***************************************************************************)
EXTENDS ProductionBatch, TLAPS

(* Arithmetic of whole recipes. *)
LEMMA Remainder == ASSUME NEW n \in Nat, NEW k \in Nat \ {0} PROVE (n * k) % k = 0
OBVIOUS

LEMMA Quotient == ASSUME NEW n \in Nat, NEW k \in Nat \ {0} PROVE (n * k) \div k = n
OBVIOUS

LEMMA OneMore == ASSUME NEW n \in Nat, NEW k \in Nat \ {0} PROVE n * k + k = (n + 1) * k
OBVIOUS

USE ProductionAssumption DEF ProductionAssumption

Starting == {"check", "balances", "take", "write"}

(* What a request knows of itself: while it starts a batch, the items it   *)
(* is done with are taken in full, those to do not at all.                 *)
RequestOK(r, t) ==
    /\ r.pc # "idle" => r.batch \in Batches
    /\ r.pc \in Starting => r.op = "start"
    /\ r.pc \in {"idle", "status", "check"} => \A i \in Items : t[i] = 0
    /\ r.pc \in {"balances", "take", "write"} => \A i \in r.todo : t[i] = 0
    /\ r.pc = "balances" => \A i \in Items \ r.todo : t[i] = Needs[r.batch][i]
    /\ r.pc \in {"take", "write"} =>
          /\ r.item \in Items \ r.todo
          /\ t[r.item] + r.remaining = Needs[r.batch][r.item]
          /\ \A i \in Items \ (r.todo \cup {r.item}) : t[i] = Needs[r.batch][i]
    /\ r.pc = "write" => r.quantity <= r.remaining
    /\ r.pc = "update" /\ r.op = "start" => \A i \in Items : t[i] = Needs[r.batch][i]

RequestsOK == \A p \in Requests : RequestOK(req[p], taken[p])
TypeInv    == TypeOK /\ RequestsOK

-----------------------------------------------------------------------------
(* Types of the record updates. *)

LEMMA PcUpdate ==
    ASSUME NEW r \in Request, NEW s \in Steps
    PROVE  [r EXCEPT !.pc = s] \in Request
BY Zenon DEF Request

LEMMA ArriveUpdate ==
    ASSUME NEW r \in Request, NEW o \in Operations, NEW b \in Batches, NEW s \in Steps
    PROVE  [r EXCEPT !.op = o, !.batch = b, !.pc = s] \in Request
BY Zenon DEF Request

LEMMA StatusUpdate ==
    ASSUME NEW r \in Request, NEW d \in SUBSET Items, NEW s \in Steps
    PROVE  /\ [r EXCEPT !.pc = s, !.todo = d] \in Request
           /\ [r EXCEPT !.todo = d, !.pc = s] \in Request
BY Zenon DEF Request

LEMMA BalancesUpdate ==
    ASSUME NEW r \in Request, NEW d \in SUBSET Items, NEW i \in Items, NEW n \in Nat,
           NEW s \in Steps
    PROVE  [r EXCEPT !.todo = d, !.item = i, !.remaining = n, !.pc = s] \in Request
BY Zenon DEF Request

LEMMA RowUpdate ==
    ASSUME NEW r \in Request, NEW w \in Nat, NEW q \in Nat, NEW n \in Int, NEW s \in Steps
    PROVE  [r EXCEPT !.row = w, !.quantity = q, !.next = n, !.pc = s] \in Request
BY Zenon DEF Request

LEMMA WriteUpdate ==
    ASSUME NEW r \in Request, NEW m \in Nat, NEW w \in Nat, NEW q \in Nat, NEW n \in Int,
           NEW s \in Steps
    PROVE  [r EXCEPT !.remaining = m, !.row = w, !.quantity = q, !.next = n, !.pc = s]
              \in Request
BY Zenon DEF Request

LEMMA StatusChange ==
    ASSUME NEW p \in Requests, NEW s \in Statuses, TypeOK, req[p].batch \in Batches,
           SetStatus(p, s)
    PROVE  batch' \in [Batches -> Batch]
<1>1. ASSUME NEW r \in Batch
      PROVE  [r EXCEPT !.status = s] \in Batch
  BY Zenon DEF Batch
<1>2. QED
  BY <1>1 DEF SetStatus, TypeOK

-----------------------------------------------------------------------------
(* Every step keeps the types and what the requests know of themselves.    *)

LEMMA IdleOK == Idle \in Request /\ RequestOK(Idle, NoneTaken)
BY DEF Idle, NoneTaken, Request, Steps, Operations, RequestOK, Starting

LEMMA ReleaseType ==
    ASSUME TypeOK, NEW p \in Requests
    PROVE  Release(p) \in [BinRows -> Requests \cup {NoRequest}]
BY DEF TypeOK, Release

LEMMA FinishType ==
    ASSUME TypeInv, NEW p \in Requests, Finish(p)
    PROVE  /\ req' \in [Requests -> Request]
           /\ taken' \in [Requests -> [Items -> Nat]]
           /\ found' \in [Requests -> [BinRows -> Nat]]
           /\ rowLock' \in [BinRows -> Requests \cup {NoRequest}]
           /\ RequestsOK'
<1>1. NoneTaken \in [Items -> Nat] /\ NoneFound \in [BinRows -> Nat]
  BY DEF NoneTaken, NoneFound
<1>2. /\ req' = [req EXCEPT ![p] = Idle]
      /\ taken' = [taken EXCEPT ![p] = NoneTaken]
      /\ found' = [found EXCEPT ![p] = NoneFound]
      /\ rowLock' = Release(p)
  BY DEF Finish
<1>3. QED
  BY <1>1, <1>2, IdleOK, ReleaseType DEF TypeInv, TypeOK, RequestsOK

LEMMA RejectType ==
    ASSUME TypeInv, NEW p \in Requests, Reject(p)
    PROVE  TypeInv'
BY FinishType DEF Reject, TypeInv, TypeOK, tables

(* A step in which only the local state of p changes. *)
LEMMA LocalType ==
    ASSUME TypeInv, NEW p \in Requests, NEW r \in Request, NEW t \in [Items -> Nat],
           req' = [req EXCEPT ![p] = r], taken' = [taken EXCEPT ![p] = t],
           RequestOK(r, t), found' \in [Requests -> [BinRows -> Nat]],
           rowLock' \in [BinRows -> Requests \cup {NoRequest}], draft' \in [BinRows -> Int],
           UNCHANGED <<tables, stock>>
    PROVE  TypeInv'
<1>1. RequestsOK'
  BY DEF TypeInv, TypeOK, RequestsOK
<1>2. TypeOK'
  BY DEF TypeInv, TypeOK, tables
<1>3. QED
  BY <1>1, <1>2 DEF TypeInv

LEMMA GotoType ==
    ASSUME TypeInv, NEW p \in Requests, NEW r \in Request,
           req' = [req EXCEPT ![p] = r], RequestOK(r, taken[p]),
           UNCHANGED <<tables, ledger, local>>
    PROVE  TypeInv'
<1>1. taken' = [taken EXCEPT ![p] = taken[p]] /\ taken[p] \in [Items -> Nat]
  BY DEF TypeInv, TypeOK, local
<1>2. QED
  BY <1>1, LocalType DEF TypeInv, TypeOK, ledger, local

LEMMA StepType ==
    ASSUME TypeInv, [Next]_vars
    PROVE  TypeInv'
<1>0. \A p \in Requests : /\ req[p] \in Request
                          /\ RequestOK(req[p], taken[p])
                          /\ taken[p] \in [Items -> Nat]
                          /\ found[p] \in [BinRows -> Nat]
  BY DEF TypeInv, TypeOK, RequestsOK
<1>1. CASE UNCHANGED vars
  BY <1>1 DEF TypeInv, TypeOK, RequestsOK, vars, tables, ledger, local
<1>2. ASSUME NEW b \in Batches, Create(b)
      PROVE  TypeInv'
  <2>1. [batch[b] EXCEPT !.status = "PLANNED"] \in Batch
    <3>1. batch[b] \in Batch
      BY DEF TypeInv, TypeOK
    <3>2. QED
      BY <3>1, Zenon DEF Batch, Statuses
  <2>2. batch' \in [Batches -> Batch]
    BY <1>2, <2>1 DEF Create, TypeInv, TypeOK
  <2>3. QED
    BY <1>2, <2>2 DEF Create, TypeInv, TypeOK, RequestsOK, ledger, local
<1>3. ASSUME NEW p \in Requests, Arrive(p)
      PROVE  TypeInv'
  <2>1. PICK o \in Operations, b \in Batches :
          req' = [req EXCEPT ![p] = [@ EXCEPT !.op = o, !.batch = b, !.pc = "status"]]
    BY <1>3 DEF Arrive
  <2> DEFINE r == [req[p] EXCEPT !.op = o, !.batch = b, !.pc = "status"]
  <2>2. r \in Request
    BY <1>0, ArriveUpdate DEF Steps
  <2>3. RequestOK(r, taken[p])
    BY <1>0, <1>3 DEF Arrive, RequestOK, Request, Starting
  <2>4. req' = [req EXCEPT ![p] = r]
    BY <2>1
  <2> HIDE DEF r
  <2>5. QED
    BY <1>3, <2>2, <2>3, <2>4, GotoType DEF Arrive
<1>4. ASSUME NEW p \in Requests, ReadStatus(p)
      PROVE  TypeInv'
  <2> DEFINE s == IF req[p].op = "start" THEN "check" ELSE "update"
             r == [req[p] EXCEPT !.pc = s, !.todo = Items]
  <2>1. r \in Request
    BY <1>0, StatusUpdate DEF Steps
  <2>2. RequestOK(r, taken[p])
    BY <1>0, <1>4 DEF ReadStatus, RequestOK, Request, Starting
  <2>3. Reject(p) \/ (req' = [req EXCEPT ![p] = r] /\ UNCHANGED <<tables, ledger, local>>)
    BY <1>4 DEF ReadStatus
  <2> HIDE DEF r
  <2>4. QED
    BY <2>1, <2>2, <2>3, GotoType, RejectType
<1>5. ASSUME NEW p \in Requests, CheckStock(p)
      PROVE  TypeInv'
  <2>1. PICK i \in req[p].todo :
          \/ Reject(p)
          \/ /\ req' = [req EXCEPT ![p] = [@ EXCEPT
                     !.todo = IF req[p].todo = {i} THEN Items ELSE req[p].todo \ {i},
                     !.pc = IF req[p].todo = {i} THEN "balances" ELSE "check"]]
             /\ UNCHANGED <<tables, ledger, local>>
    BY <1>5 DEF CheckStock
  <2> DEFINE d == IF req[p].todo = {i} THEN Items ELSE req[p].todo \ {i}
             s == IF req[p].todo = {i} THEN "balances" ELSE "check"
             r == [req[p] EXCEPT !.todo = d, !.pc = s]
  <2>2. r \in Request
    <3>1. d \in SUBSET Items
      BY <1>0 DEF Request
    <3>2. s \in Steps
      BY DEF Steps
    <3> HIDE DEF d, s
    <3>3. QED
      BY <1>0, <3>1, <3>2, StatusUpdate
  <2>3. RequestOK(r, taken[p])
    <3>1. /\ r.pc = s /\ r.todo = d /\ r.batch = req[p].batch /\ r.op = req[p].op
      BY <1>0 DEF Request
    <3>2. req[p].pc = "check"
      BY <1>5 DEF CheckStock
    <3> HIDE DEF r
    <3>3. d \subseteq Items
      BY <1>0 DEF Request
    <3>4. CASE s = "check"
      BY <1>0, <3>1, <3>2, <3>4 DEF RequestOK, Starting
    <3>5. CASE s = "balances" /\ d = Items
      BY <1>0, <3>1, <3>2, <3>5 DEF RequestOK, Starting
    <3>6. QED
      BY <3>4, <3>5
  <2>4. Reject(p) \/ (req' = [req EXCEPT ![p] = r] /\ UNCHANGED <<tables, ledger, local>>)
    BY <2>1
  <2> HIDE DEF r
  <2>5. QED
    BY <2>2, <2>3, <2>4, GotoType, RejectType
<1>6. ASSUME NEW p \in Requests, ReadBalances(p)
      PROVE  TypeInv'
  <2>1. PICK i \in req[p].todo :
          /\ req' = [req EXCEPT ![p] = [@ EXCEPT
                        !.todo = req[p].todo \ {i}, !.item = i,
                        !.remaining = Need(p, i), !.pc = "take"]]
          /\ found' = [found EXCEPT ![p] = [x \in BinRows |->
                          IF RowItem[x] = i /\ Visible(p, x) > 0
                          THEN Visible(p, x) ELSE 0]]
    BY <1>6 DEF ReadBalances
  <2> DEFINE r == [req[p] EXCEPT !.todo = req[p].todo \ {i}, !.item = i,
                                 !.remaining = Need(p, i), !.pc = "take"]
  <2>2. /\ req[p].batch \in Batches
        /\ i \in Items
        /\ Need(p, i) \in Nat
        /\ Need(p, i) = Needs[req[p].batch][i]
    BY <1>0, <1>6 DEF ReadBalances, RequestOK, Request, Need
  <2>3. r \in Request
    <3>1. req[p].todo \ {i} \in SUBSET Items
      BY <1>0 DEF Request
    <3>2. QED
      BY <1>0, <2>2, <3>1, BalancesUpdate DEF Steps
  <2>4. RequestOK(r, taken[p])
    <3>1. /\ r.pc = "take" /\ r.todo = req[p].todo \ {i} /\ r.batch = req[p].batch
          /\ r.op = req[p].op /\ r.item = i /\ r.remaining = Need(p, i)
      BY <1>0 DEF Request
    <3>2. req[p].pc = "balances"
      BY <1>6 DEF ReadBalances
    <3>3. taken[p][i] = 0
      BY <1>0, <3>2 DEF RequestOK
    <3> HIDE DEF r
    <3>4. QED
      BY <1>0, <2>2, <3>1, <3>2, <3>3 DEF RequestOK, Starting
  <2>5. found' \in [Requests -> [BinRows -> Nat]]
    <3>1. \A x \in BinRows : Visible(p, x) \in Int
      BY DEF TypeInv, TypeOK, Visible
    <3>2. [x \in BinRows |-> IF RowItem[x] = i /\ Visible(p, x) > 0
                          THEN Visible(p, x) ELSE 0] \in [BinRows -> Nat]
      BY <3>1
    <3>3. QED
      BY <2>1, <3>2 DEF TypeInv, TypeOK
  <2>6. taken' = [taken EXCEPT ![p] = taken[p]]
    BY <1>6 DEF ReadBalances, TypeInv, TypeOK
  <2>7. req' = [req EXCEPT ![p] = r]
    BY <2>1
  <2> HIDE DEF r
  <2>8. QED
    BY <1>0, <1>6, <2>3, <2>4, <2>5, <2>6, <2>7, LocalType
    DEF ReadBalances, TypeInv, TypeOK, ledger
<1>7. ASSUME NEW p \in Requests, ReadRow(p)
      PROVE  TypeInv'
  <2>1. PICK x \in Oldest(p) :
          \/ Reject(p)
          \/ /\ req' = [req EXCEPT ![p] = [@ EXCEPT
                     !.row = x, !.quantity = ToConsume(p, x),
                     !.next = Visible(p, x) - ToConsume(p, x), !.pc = "write"]]
             /\ UNCHANGED <<tables, ledger, local>>
    BY <1>7 DEF ReadRow
  <2> DEFINE q == ToConsume(p, x)
             n == Visible(p, x) - ToConsume(p, x)
             r == [req[p] EXCEPT !.row = x, !.quantity = q, !.next = n, !.pc = "write"]
  <2>2. x \in BinRows /\ x \in Nat
    BY DEF Oldest, Listed
  <2>3. q \in Nat /\ q <= req[p].remaining
    <3>1. req[p].remaining \in Nat /\ found[p][x] \in Nat
      BY <1>0, <2>2 DEF Request
    <3>2. QED
      BY <3>1 DEF ToConsume
  <2>4. n \in Int
    BY <2>2, <2>3 DEF TypeInv, TypeOK, Visible
  <2>5. Reject(p) \/ (req' = [req EXCEPT ![p] = r] /\ UNCHANGED <<tables, ledger, local>>)
    BY <2>1
  <2> HIDE DEF q, n
  <2>6. r \in Request
    BY <1>0, <2>2, <2>3, <2>4, RowUpdate DEF Steps
  <2>7. RequestOK(r, taken[p])
    <3>1. /\ r.pc = "write" /\ r.todo = req[p].todo /\ r.batch = req[p].batch
          /\ r.op = req[p].op /\ r.item = req[p].item
          /\ r.remaining = req[p].remaining /\ r.quantity = q
      BY <1>0 DEF Request
    <3>2. req[p].pc = "take"
      BY <1>7 DEF ReadRow
    <3> HIDE DEF r
    <3>3. QED
      BY <1>0, <2>3, <3>1, <3>2 DEF RequestOK, Starting
  <2> HIDE DEF r
  <2>8. QED
    BY <2>5, <2>6, <2>7, GotoType, RejectType
<1>8. ASSUME NEW p \in Requests, WriteRow(p)
      PROVE  TypeInv'
  <2> DEFINE m == req[p].remaining - req[p].quantity
             r == [req[p] EXCEPT !.remaining = m, !.row = 0, !.quantity = 0,
                                 !.next = 0, !.pc = "take"]
             t == [taken[p] EXCEPT ![req[p].item] = @ + req[p].quantity]
             f == [found[p] EXCEPT ![req[p].row] = 0]
  <2>1. /\ req[p].pc = "write"
        /\ req[p].item \in Items \ req[p].todo
        /\ req[p].quantity \in Nat /\ req[p].remaining \in Nat
        /\ req[p].quantity <= req[p].remaining
        /\ req[p].batch \in Batches
        /\ req[p].next \in Int
        /\ req[p].todo \in SUBSET Items
    BY <1>0, <1>8 DEF WriteRow, RequestOK, Request
  <2>2. m \in Nat
    BY <2>1
  <2>3. t \in [Items -> Nat]
    BY <1>0, <2>1
  <2>4. f \in [BinRows -> Nat]
    BY <1>0
  <2>5. /\ taken' = [taken EXCEPT ![p] = t]
        /\ found' = [found EXCEPT ![p] = f]
        /\ req' = [req EXCEPT ![p] = r]
    BY <1>8 DEF WriteRow
  <2>6. rowLock' \in [BinRows -> Requests \cup {NoRequest}] /\ draft' \in [BinRows -> Int]
    BY <1>8, <2>1 DEF WriteRow, TypeInv, TypeOK
  <2>7. RequestOK(r, t)
    <3>1. /\ r.pc = "take" /\ r.todo = req[p].todo /\ r.batch = req[p].batch
          /\ r.op = req[p].op /\ r.item = req[p].item /\ r.remaining = m
      BY <1>0 DEF Request
    <3>2. /\ t[req[p].item] = taken[p][req[p].item] + req[p].quantity
          /\ \A i \in Items : i # req[p].item => t[i] = taken[p][i]
      BY <1>0, <2>1
    <3>3. t[req[p].item] + m = Needs[req[p].batch][req[p].item]
      <4>1. taken[p][req[p].item] + req[p].remaining = Needs[req[p].batch][req[p].item]
        BY <1>0, <2>1 DEF RequestOK
      <4>2. taken[p][req[p].item] \in Nat
        BY <1>0, <2>1
      <4>3. QED
        BY <2>1, <3>2, <4>1, <4>2
    <3> HIDE DEF r, t, m
    <3>4. QED
      BY <1>0, <2>1, <3>1, <3>2, <3>3 DEF RequestOK, Starting
  <2> HIDE DEF m
  <2>8. r \in Request
    <3>1. 0 \in Nat /\ 0 \in Int
      OBVIOUS
    <3>2. "take" \in Steps
      BY DEF Steps
    <3>3. QED
      BY <1>0, <2>2, <3>1, <3>2, WriteUpdate
  <2>9. found' \in [Requests -> [BinRows -> Nat]]
    BY <2>4, <2>5 DEF TypeInv, TypeOK
  <2> HIDE DEF r, t, f
  <2>10. QED
    BY <1>8, <2>3, <2>5, <2>6, <2>7, <2>8, <2>9, LocalType DEF WriteRow
<1>9. ASSUME NEW p \in Requests, EndItem(p)
      PROVE  TypeInv'
  <2> DEFINE s == IF req[p].todo = {} THEN "update" ELSE "balances"
             r == [req[p] EXCEPT !.pc = s]
  <2>1. \/ Reject(p)
        \/ /\ req' = [req EXCEPT ![p] = r]
           /\ req[p].remaining = 0
           /\ UNCHANGED <<tables, ledger, local>>
    <3>1. req[p].remaining \in Nat
      BY <1>0 DEF Request
    <3>2. QED
      BY <1>9, <3>1 DEF EndItem, Short, Goto
  <2>2. r \in Request
    BY <1>0, PcUpdate DEF Steps
  <2>3. ASSUME req[p].remaining = 0
        PROVE  RequestOK(r, taken[p])
    <3>1. /\ r.pc = s /\ r.todo = req[p].todo /\ r.batch = req[p].batch
          /\ r.op = req[p].op /\ r.item = req[p].item
      BY <1>0 DEF Request
    <3>2. req[p].pc = "take"
      BY <1>9 DEF EndItem
    <3>3. \A i \in Items \ req[p].todo : taken[p][i] = Needs[req[p].batch][i]
      <4>1. taken[p][req[p].item] + 0 = Needs[req[p].batch][req[p].item]
        BY <1>0, <2>3, <3>2 DEF RequestOK
      <4>2. taken[p][req[p].item] \in Nat
        BY <1>0, <3>2 DEF RequestOK
      <4>3. taken[p][req[p].item] = Needs[req[p].batch][req[p].item]
        BY <4>1, <4>2
      <4>4. QED
        BY <1>0, <3>2, <4>3 DEF RequestOK
    <3> HIDE DEF r
    <3>4. QED
      BY <1>0, <3>1, <3>2, <3>3 DEF RequestOK, Starting
  <2> HIDE DEF r
  <2>4. QED
    BY <2>1, <2>2, <2>3, GotoType, RejectType
<1>10. ASSUME NEW p \in Requests,
              Approve(p) \/ Complete(p) \/ Cancel(p) \/ CheckQuality(p)
       PROVE  TypeInv'
  <2>1. Finish(p) /\ UNCHANGED <<consumed, stock, draft>>
    BY <1>10 DEF Approve, Complete, Cancel, CheckQuality
  <2>2. batch' \in [Batches -> Batch]
    <3>1. req[p].batch \in Batches
      BY <1>0, <1>10 DEF Approve, Complete, Cancel, CheckQuality, Ready, RequestOK
    <3>2. CASE Approve(p)
      <4>1. [status |-> "APPROVED", approved |-> TRUE] \in Batch
        BY DEF Batch, Statuses
      <4>2. QED
        BY <3>2, <4>1 DEF Approve, TypeInv, TypeOK
    <3>3. CASE Complete(p) \/ Cancel(p) \/ CheckQuality(p)
      BY <3>1, <3>3, StatusChange
      DEF Complete, Cancel, CheckQuality, TypeInv, Statuses
    <3>4. QED
      BY <1>10, <3>2, <3>3
  <2>3. outputs' \in [Batches -> Nat]
    BY <1>10 DEF Approve, Complete, Cancel, CheckQuality, TypeInv, TypeOK
  <2>4. QED
    BY <2>1, <2>2, <2>3, FinishType DEF TypeInv, TypeOK
<1>11. ASSUME NEW p \in Requests, Start(p)
       PROVE  TypeInv'
  <2>1. Finish(p) /\ UNCHANGED <<outputs, draft>>
    BY <1>11 DEF Start
  <2>2. batch' \in [Batches -> Batch]
    <3>1. req[p].batch \in Batches
      BY <1>0, <1>11 DEF Start, Ready, RequestOK
    <3>2. QED
      BY <1>11, <3>1, StatusChange DEF Start, TypeInv, Statuses
  <2>3. stock' \in [BinRows -> Int]
    BY <1>11 DEF Start, TypeInv, TypeOK
  <2>4. consumed' \in [Batches -> [Items -> Nat]]
    <3>1. req[p].batch \in Batches
      BY <1>0, <1>11 DEF Start, Ready, RequestOK
    <3>2. \A i \in Items : consumed[req[p].batch][i] \in Nat /\ taken[p][i] \in Nat
      BY <1>0, <3>1 DEF TypeInv, TypeOK
    <3>3. [i \in Items |-> consumed[req[p].batch][i] + taken[p][i]] \in [Items -> Nat]
      BY <3>2
    <3>4. consumed' = [consumed EXCEPT ![req[p].batch] =
                          [i \in Items |-> consumed[req[p].batch][i] + taken[p][i]]]
      BY <1>11 DEF Start
    <3>5. QED
      BY <3>1, <3>3, <3>4 DEF TypeInv, TypeOK
  <2>5. QED
    BY <2>1, <2>2, <2>3, <2>4, FinishType DEF TypeInv, TypeOK
<1>12. ASSUME NEW p \in Requests, Fail(p) \/ EndDeadlock(p)
       PROVE  TypeInv'
  BY <1>12, RejectType DEF Fail, EndDeadlock
<1>13. QED
  BY <1>1, <1>2, <1>3, <1>4, <1>5, <1>6, <1>7, <1>8, <1>9, <1>10, <1>11, <1>12
  DEF Next, Step

LEMMA InitType == ASSUME Init PROVE TypeInv
<1>1. NoneTaken \in [Items -> Nat] /\ NoneFound \in [BinRows -> Nat]
  BY DEF NoneTaken, NoneFound
<1>2. InitialStock \in [BinRows -> Int]
  BY DEF ProductionAssumption
<1>3. [status |-> "none", approved |-> FALSE] \in Batch
  BY DEF Batch, Statuses
<1>4. QED
  BY <1>1, <1>2, <1>3, IdleOK DEF Init, TypeInv, TypeOK, RequestsOK

LEMMA TypeInvariant == Spec => []TypeInv
BY InitType, StepType, PTL DEF Spec

(* The type invariant holds: statuses, recipes consumed so far and the     *)
(* local state of a start keep their types for any number of requests.     *)
THEOREM TypeCorrect == Spec => []TypeOK
BY TypeInvariant, PTL DEF TypeInv

-----------------------------------------------------------------------------
(* Why the two safety properties hold although every status is read before *)
(* the transaction that writes it: what a status once proved of a batch    *)
(* (it was approved; its ingredients were consumed) is never undone, so a  *)
(* check that is stale about the status is not stale about that.           *)

Full(b) == \A i \in Items : consumed[b][i] >= Needs[b][i]

Checked(r) == r.pc \notin {"idle", "status"}     \* past ReadStatus

ApprovedIsApproved == \A b \in Batches : batch[b].status = "APPROVED" => batch[b].approved
StartsAreApproved  == \A p \in Requests :
    Checked(req[p]) /\ req[p].op = "start" => batch[req[p].batch].approved
InProgressIsFull   == \A b \in Batches : batch[b].status = "IN_PROGRESS" => Full(b)
CompletesAreFull   == \A p \in Requests :
    Checked(req[p]) /\ req[p].op = "complete" => Full(req[p].batch)

SafetyInv ==
    /\ ApprovedIsApproved
    /\ StartsAreApproved
    /\ ConsumedAfterApproval
    /\ InProgressIsFull
    /\ CompletesAreFull
    /\ MadeFromConsumed

(* A request past its check was past it already, or passes it now. *)
Follows(old, new) ==
    Checked(new) =>
        /\ new.batch = old.batch /\ new.op = old.op
        /\ Checked(old) \/ batch[old.batch].status \in Allowed(old.op)

LEMMA OneFollows ==
    ASSUME TypeInv, NEW p \in Requests, NEW r, req' = [req EXCEPT ![p] = r],
           Follows(req[p], r)
    PROVE  \A q \in Requests : Follows(req[q], req'[q])
BY DEF Follows, TypeInv, TypeOK

LEMMA FinishFollows ==
    ASSUME TypeInv, NEW p \in Requests, Finish(p)
    PROVE  \A q \in Requests : Follows(req[q], req'[q])
<1>1. Follows(req[p], Idle)
  BY DEF Follows, Checked, Idle
<1>2. QED
  BY <1>1, OneFollows DEF Finish

LEMMA RequestSteps ==
    ASSUME TypeInv, [Next]_vars
    PROVE  \A q \in Requests : Follows(req[q], req'[q])
<1>0. \A p \in Requests : req[p] \in Request
  BY DEF TypeInv, TypeOK
<1>1. CASE req' = req
  BY <1>1 DEF Follows
<1>2. ASSUME NEW p \in Requests, Finish(p)
      PROVE  \A q \in Requests : Follows(req[q], req'[q])
  BY <1>2, FinishFollows
<1>3. ASSUME NEW p \in Requests, NEW r, req' = [req EXCEPT ![p] = r],
             Checked(r) => /\ r.batch = req[p].batch /\ r.op = req[p].op
                           /\ Checked(req[p])
      PROVE  \A q \in Requests : Follows(req[q], req'[q])
  BY <1>3, OneFollows DEF Follows
<1>4. ASSUME NEW p \in Requests, Arrive(p)
      PROVE  \A q \in Requests : Follows(req[q], req'[q])
  <2>1. PICK o \in Operations, b \in Batches :
          req' = [req EXCEPT ![p] = [@ EXCEPT !.op = o, !.batch = b, !.pc = "status"]]
    BY <1>4 DEF Arrive
  <2> DEFINE r == [req[p] EXCEPT !.op = o, !.batch = b, !.pc = "status"]
  <2>2. ~Checked(r)
    BY <1>0 DEF Checked, Request
  <2>3. req' = [req EXCEPT ![p] = r]
    BY <2>1
  <2> HIDE DEF r
  <2>4. QED
    BY <1>3, <2>2, <2>3
<1>5. ASSUME NEW p \in Requests, ReadStatus(p)
      PROVE  \A q \in Requests : Follows(req[q], req'[q])
  <2> DEFINE s == IF req[p].op = "start" THEN "check" ELSE "update"
             r == [req[p] EXCEPT !.pc = s, !.todo = Items]
  <2>1. \/ Reject(p)
        \/ /\ req' = [req EXCEPT ![p] = r]
           /\ batch[req[p].batch].status \in Allowed(req[p].op)
    BY <1>5 DEF ReadStatus
  <2>2. r.batch = req[p].batch /\ r.op = req[p].op
    BY <1>0 DEF Request
  <2> HIDE DEF r
  <2>3. QED
    BY <1>2, <2>1, <2>2, OneFollows DEF Follows, Reject
<1>6. ASSUME NEW p \in Requests, CheckStock(p)
      PROVE  \A q \in Requests : Follows(req[q], req'[q])
  <2>1. PICK i \in req[p].todo :
          \/ Reject(p)
          \/ req' = [req EXCEPT ![p] = [@ EXCEPT
                     !.todo = IF req[p].todo = {i} THEN Items ELSE req[p].todo \ {i},
                     !.pc = IF req[p].todo = {i} THEN "balances" ELSE "check"]]
    BY <1>6 DEF CheckStock
  <2> DEFINE d == IF req[p].todo = {i} THEN Items ELSE req[p].todo \ {i}
             s == IF req[p].todo = {i} THEN "balances" ELSE "check"
             r == [req[p] EXCEPT !.todo = d, !.pc = s]
  <2>2. r.batch = req[p].batch /\ r.op = req[p].op
    BY <1>0 DEF Request
  <2>3. Reject(p) \/ req' = [req EXCEPT ![p] = r]
    BY <2>1
  <2>4. Checked(req[p])
    BY <1>6 DEF CheckStock, Checked
  <2> HIDE DEF r
  <2>5. QED
    BY <1>2, <1>3, <2>2, <2>3, <2>4 DEF Reject
<1>7. ASSUME NEW p \in Requests, ReadBalances(p)
      PROVE  \A q \in Requests : Follows(req[q], req'[q])
  <2>1. PICK i \in req[p].todo :
          req' = [req EXCEPT ![p] = [@ EXCEPT
                        !.todo = req[p].todo \ {i}, !.item = i,
                        !.remaining = Need(p, i), !.pc = "take"]]
    BY <1>7 DEF ReadBalances
  <2> DEFINE r == [req[p] EXCEPT !.todo = req[p].todo \ {i}, !.item = i,
                                 !.remaining = Need(p, i), !.pc = "take"]
  <2>2. r.batch = req[p].batch /\ r.op = req[p].op
    BY <1>0 DEF Request
  <2>3. req' = [req EXCEPT ![p] = r]
    BY <2>1
  <2>4. Checked(req[p])
    BY <1>7 DEF ReadBalances, Checked
  <2> HIDE DEF r
  <2>5. QED
    BY <1>3, <2>2, <2>3, <2>4
<1>8. ASSUME NEW p \in Requests, ReadRow(p)
      PROVE  \A q \in Requests : Follows(req[q], req'[q])
  <2>1. PICK x \in Oldest(p) :
          \/ Reject(p)
          \/ req' = [req EXCEPT ![p] = [@ EXCEPT
                     !.row = x, !.quantity = ToConsume(p, x),
                     !.next = Visible(p, x) - ToConsume(p, x), !.pc = "write"]]
    BY <1>8 DEF ReadRow
  <2> DEFINE r == [req[p] EXCEPT !.row = x, !.quantity = ToConsume(p, x),
                     !.next = Visible(p, x) - ToConsume(p, x), !.pc = "write"]
  <2>2. r.batch = req[p].batch /\ r.op = req[p].op
    BY <1>0 DEF Request
  <2>3. Reject(p) \/ req' = [req EXCEPT ![p] = r]
    BY <2>1
  <2>4. Checked(req[p])
    BY <1>8 DEF ReadRow, Checked
  <2> HIDE DEF r
  <2>5. QED
    BY <1>2, <1>3, <2>2, <2>3, <2>4 DEF Reject
<1>9. ASSUME NEW p \in Requests, WriteRow(p)
      PROVE  \A q \in Requests : Follows(req[q], req'[q])
  <2> DEFINE m == req[p].remaining - req[p].quantity
             r == [req[p] EXCEPT !.remaining = m, !.row = 0, !.quantity = 0,
                                 !.next = 0, !.pc = "take"]
  <2>1. r.batch = req[p].batch /\ r.op = req[p].op
    BY <1>0 DEF Request
  <2>2. req' = [req EXCEPT ![p] = r]
    BY <1>9 DEF WriteRow
  <2>3. Checked(req[p])
    BY <1>9 DEF WriteRow, Checked
  <2> HIDE DEF r
  <2>4. QED
    BY <1>3, <2>1, <2>2, <2>3
<1>10. ASSUME NEW p \in Requests, EndItem(p)
       PROVE  \A q \in Requests : Follows(req[q], req'[q])
  <2> DEFINE s == IF req[p].todo = {} THEN "update" ELSE "balances"
             r == [req[p] EXCEPT !.pc = s]
  <2>1. r.batch = req[p].batch /\ r.op = req[p].op
    BY <1>0 DEF Request
  <2>2. Reject(p) \/ req' = [req EXCEPT ![p] = r]
    BY <1>10 DEF EndItem, Goto
  <2>3. Checked(req[p])
    BY <1>10 DEF EndItem, Checked
  <2> HIDE DEF r
  <2>4. QED
    BY <1>2, <1>3, <2>1, <2>2, <2>3 DEF Reject
<1>11. QED
  BY <1>1, <1>2, <1>4, <1>5, <1>6, <1>7, <1>8, <1>9, <1>10
  DEF Next, Step, vars, Create, Approve, Start, Complete, Cancel, CheckQuality,
      EndDeadlock, Fail, Reject

(* What a step does to the rows of the tables. *)
LEMMA TableSteps ==
    ASSUME [Next]_vars
    PROVE  \/ UNCHANGED tables
           \/ \E b \in Batches : Create(b)
           \/ \E p \in Requests :
                Approve(p) \/ Start(p) \/ Complete(p) \/ Cancel(p) \/ CheckQuality(p)
<1>1. ASSUME NEW p \in Requests, Reject(p)
      PROVE  UNCHANGED tables
  BY <1>1 DEF Reject
<1>2. ASSUME NEW p \in Requests, Arrive(p) \/ ReadStatus(p) \/ CheckStock(p)
      PROVE  UNCHANGED tables
  BY <1>1, <1>2 DEF Arrive, ReadStatus, CheckStock
<1>3. ASSUME NEW p \in Requests,
             ReadBalances(p) \/ ReadRow(p) \/ WriteRow(p) \/ EndItem(p)
      PROVE  UNCHANGED tables
  BY <1>1, <1>3 DEF ReadBalances, ReadRow, WriteRow, EndItem
<1>4. ASSUME NEW p \in Requests, EndDeadlock(p) \/ Fail(p)
      PROVE  UNCHANGED tables
  BY <1>1, <1>4 DEF EndDeadlock, Fail
<1>5. CASE UNCHANGED vars
  BY <1>5 DEF vars, tables
<1>6. QED
  BY <1>2, <1>3, <1>4, <1>5 DEF Next, Step

(* What a step does to one batch: approval and consumption are never       *)
(* undone, and each status or quantity has the request that wrote it.      *)
BatchStep(b) ==
    /\ batch[b].approved => batch'[b].approved
    /\ batch'[b].status = "APPROVED" => batch[b].status = "APPROVED" \/ batch'[b].approved
    /\ \A i \in Items : consumed'[b][i] >= consumed[b][i]
    /\ (\E i \in Items : consumed'[b][i] # consumed[b][i]) =>
          \E p \in Requests : Ready(p, "start") /\ req[p].batch = b
    /\ batch'[b].status = "IN_PROGRESS" =>
          batch[b].status = "IN_PROGRESS" \/ \A i \in Items : consumed'[b][i] >= Needs[b][i]
    /\ outputs'[b] # outputs[b] =>
          \E p \in Requests : Ready(p, "complete") /\ req[p].batch = b

LEMMA BatchSteps ==
    ASSUME TypeInv, [Next]_vars
    PROVE  \A b \in Batches : BatchStep(b)
<1>0. /\ \A b \in Batches, i \in Items : consumed[b][i] \in Nat
      /\ \A b \in Batches : batch[b] \in Batch
      /\ \A p \in Requests : RequestOK(req[p], taken[p])
      /\ \A p \in Requests, i \in Items : taken[p][i] \in Nat
      /\ DOMAIN batch = Batches /\ DOMAIN consumed = Batches /\ DOMAIN outputs = Batches
  BY DEF TypeInv, TypeOK, RequestsOK
<1>1. CASE UNCHANGED tables
  BY <1>0, <1>1 DEF BatchStep, tables
<1>2. ASSUME NEW b \in Batches, NEW s \in Statuses, s # "APPROVED", s # "IN_PROGRESS",
             batch' = [batch EXCEPT ![b] = [@ EXCEPT !.status = s]],
             UNCHANGED consumed
      PROVE  \A c \in Batches :
               /\ batch[c].approved => batch'[c].approved
               /\ batch'[c].status = "APPROVED" => batch[c].status = "APPROVED"
               /\ batch'[c].status = "IN_PROGRESS" => batch[c].status = "IN_PROGRESS"
               /\ \A i \in Items : consumed'[c][i] >= consumed[c][i]
               /\ \A i \in Items : consumed'[c][i] = consumed[c][i]
  BY <1>0, <1>2 DEF Batch
<1>3. ASSUME NEW b \in Batches, Create(b)
      PROVE  \A c \in Batches : BatchStep(c)
  BY <1>2, <1>3 DEF Create, BatchStep, Statuses
<1>4. ASSUME NEW p \in Requests, Approve(p)
      PROVE  \A c \in Batches : BatchStep(c)
  BY <1>0, <1>4 DEF Approve, BatchStep, Batch
<1>5. ASSUME NEW p \in Requests, Cancel(p) \/ CheckQuality(p)
      PROVE  \A c \in Batches : BatchStep(c)
  <2>1. req[p].batch \in Batches
    BY <1>0, <1>5 DEF Cancel, CheckQuality, Ready, RequestOK
  <2>2. QED
    BY <1>2, <1>5, <2>1 DEF Cancel, CheckQuality, SetStatus, BatchStep, Statuses
<1>6. ASSUME NEW p \in Requests, Complete(p)
      PROVE  \A c \in Batches : BatchStep(c)
  <2>1. req[p].batch \in Batches
    BY <1>0, <1>6 DEF Complete, Ready, RequestOK
  <2>2. \A c \in Batches : outputs'[c] # outputs[c] => req[p].batch = c
    BY <1>0, <1>6 DEF Complete
  <2>3. QED
    BY <1>2, <1>6, <2>1, <2>2 DEF Complete, SetStatus, BatchStep, Statuses
<1>7. ASSUME NEW p \in Requests, Start(p)
      PROVE  \A c \in Batches : BatchStep(c)
  <2> DEFINE b == req[p].batch
  <2>1. /\ b \in Batches
        /\ Ready(p, "start")
        /\ \A i \in Items : taken[p][i] = Needs[b][i]
    BY <1>0, <1>7 DEF Start, Ready, RequestOK
  <2>2. \A c \in Batches, i \in Items :
          consumed'[c][i] = IF c = b THEN consumed[c][i] + Needs[b][i] ELSE consumed[c][i]
    BY <1>0, <1>7, <2>1 DEF Start
  <2>3. \A i \in Items : Needs[b][i] \in Nat
    BY <2>1
  <2>4. \A c \in Batches, i \in Items : consumed'[c][i] >= consumed[c][i]
    BY <1>0, <2>2, <2>3
  <2>5. \A i \in Items : consumed'[b][i] >= Needs[b][i]
    BY <1>0, <2>1, <2>2, <2>3
  <2>6. \A c \in Batches, i \in Items : c # b => consumed'[c][i] = consumed[c][i]
    BY <2>2
  <2>7. \A c \in Batches : /\ batch[c].approved => batch'[c].approved
                           /\ batch'[c].status = "APPROVED" => batch[c].status = "APPROVED"
                           /\ c # b => batch'[c] = batch[c]
    BY <1>0, <1>7, <2>1 DEF Start, SetStatus, Batch
  <2>8. UNCHANGED outputs
    BY <1>7 DEF Start
  <2> HIDE DEF b
  <2>9. ASSUME NEW c \in Batches
        PROVE  (\E i \in Items : consumed'[c][i] # consumed[c][i]) =>
                  \E q \in Requests : Ready(q, "start") /\ req[q].batch = c
    BY <2>1, <2>6 DEF b
  <2>10. QED
    BY <2>1, <2>4, <2>5, <2>7, <2>8, <2>9 DEF BatchStep
<1>8. QED
  BY <1>1, <1>3, <1>4, <1>5, <1>6, <1>7, TableSteps

LEMMA SafetyStep ==
    ASSUME TypeInv, SafetyInv, [Next]_vars
    PROVE  SafetyInv'
<1>0. /\ \A b \in Batches : BatchStep(b)
      /\ \A p \in Requests : Follows(req[p], req'[p])
  BY BatchSteps, RequestSteps
<1>1. /\ \A b \in Batches, i \in Items : /\ consumed[b][i] \in Nat /\ Needs[b][i] \in Nat
                                         /\ consumed'[b][i] \in Nat
      /\ \A b \in Batches : outputs[b] \in Nat /\ outputs'[b] \in Nat
      /\ \A p \in Requests : req[p].pc # "idle" => req[p].batch \in Batches
  BY StepType DEF TypeInv, TypeOK, RequestsOK, RequestOK
<1>2. \A b \in Batches : Full(b) => Full(b)'
  BY <1>0, <1>1 DEF BatchStep, Full
<1>3. ASSUME NEW p \in Requests, Checked(req'[p])
      PROVE  /\ req'[p].batch = req[p].batch /\ req'[p].op = req[p].op
             /\ req[p].batch \in Batches
             /\ Checked(req[p]) \/ batch[req[p].batch].status \in Allowed(req[p].op)
  <2>1. Follows(req[p], req'[p])
    BY <1>0
  <2>2. req'[p].pc # "idle"
    BY <1>3 DEF Checked
  <2>3. req'[p].batch \in Batches
    BY <2>2, StepType DEF TypeInv, RequestsOK, RequestOK
  <2>4. QED
    BY <1>3, <2>1, <2>3 DEF Follows
<1>4. ApprovedIsApproved'
  BY <1>0 DEF SafetyInv, ApprovedIsApproved, BatchStep
<1>5. StartsAreApproved'
  <2> SUFFICES ASSUME NEW p \in Requests, Checked(req'[p]), req'[p].op = "start"
               PROVE  batch'[req'[p].batch].approved
    BY DEF StartsAreApproved, Checked
  <2>1. batch[req[p].batch].approved
    BY <1>3 DEF SafetyInv, StartsAreApproved, ApprovedIsApproved, Allowed, Startable
  <2>2. QED
    BY <1>0, <1>3, <2>1 DEF BatchStep
<1>6. ConsumedAfterApproval'
  <2> SUFFICES ASSUME NEW b \in Batches, NEW i \in Items, consumed'[b][i] > 0
               PROVE  batch'[b].approved
    BY DEF ConsumedAfterApproval
  <2>1. CASE consumed[b][i] > 0
    BY <1>0, <2>1 DEF SafetyInv, ConsumedAfterApproval, BatchStep
  <2>2. CASE ~(consumed[b][i] > 0)
    <3>1. consumed'[b][i] # consumed[b][i]
      BY <2>2
    <3>2. PICK p \in Requests : Ready(p, "start") /\ req[p].batch = b
      BY <1>0, <3>1 DEF BatchStep
    <3>3. batch[b].approved
      BY <3>2 DEF SafetyInv, StartsAreApproved, Ready, Checked
    <3>4. QED
      BY <1>0, <3>3 DEF BatchStep
  <2>3. QED
    BY <2>1, <2>2
<1>7. InProgressIsFull'
  <2> SUFFICES ASSUME NEW b \in Batches, batch'[b].status = "IN_PROGRESS"
               PROVE  Full(b)'
    BY DEF InProgressIsFull, Full
  <2>1. BatchStep(b)
    BY <1>0
  <2>2. CASE batch[b].status = "IN_PROGRESS"
    BY <1>2, <2>2 DEF SafetyInv, InProgressIsFull
  <2>3. CASE \A i \in Items : consumed'[b][i] >= Needs[b][i]
    BY <2>3 DEF Full
  <2>4. QED
    BY <2>1, <2>2, <2>3 DEF BatchStep
<1>8. CompletesAreFull'
  <2> SUFFICES ASSUME NEW p \in Requests, Checked(req'[p]), req'[p].op = "complete"
               PROVE  \A i \in Items : consumed'[req'[p].batch][i] >= Needs[req'[p].batch][i]
    BY DEF CompletesAreFull, Checked, Full
  <2>1. Full(req[p].batch)
    BY <1>3 DEF SafetyInv, CompletesAreFull, InProgressIsFull, Allowed, Completable
  <2>2. QED
    BY <1>0, <1>1, <1>3, <2>1 DEF BatchStep, Full
<1>9. MadeFromConsumed'
  <2> SUFFICES ASSUME NEW b \in Batches, outputs'[b] > 0
               PROVE  Full(b)'
    BY DEF MadeFromConsumed, Full
  <2>1. CASE outputs[b] > 0
    BY <1>2, <2>1 DEF SafetyInv, MadeFromConsumed, Full
  <2>2. CASE ~(outputs[b] > 0)
    <3>1. PICK p \in Requests : Ready(p, "complete") /\ req[p].batch = b
      BY <1>0, <2>2 DEF BatchStep
    <3>2. Full(b)
      BY <3>1 DEF SafetyInv, CompletesAreFull, Ready, Checked
    <3>3. QED
      BY <1>2, <3>2
  <2>3. QED
    BY <2>1, <2>2
<1>10. QED
  BY <1>4, <1>5, <1>6, <1>7, <1>8, <1>9 DEF SafetyInv

LEMMA InitSafety == ASSUME Init PROVE SafetyInv
BY DEF Init, SafetyInv, ApprovedIsApproved, StartsAreApproved, ConsumedAfterApproval,
       InProgressIsFull, CompletesAreFull, MadeFromConsumed, Checked, Idle, NoneTaken

LEMMA SafetyInvariant == Spec => []SafetyInv
<1>1. Init => SafetyInv
  BY InitSafety
<1>2. TypeInv /\ SafetyInv /\ [Next]_vars => SafetyInv'
  BY SafetyStep
<1>3. QED
  BY <1>1, <1>2, TypeInvariant, PTL DEF Spec

(* A batch has an output only if its ingredients were consumed, however    *)
(* requests interleave between their checks and their writes.              *)
THEOREM GoodsAreMadeOfSomething == Spec => []MadeFromConsumed
BY SafetyInvariant, PTL DEF SafetyInv

(* Ingredients are consumed only for a batch that was approved.            *)
THEOREM ApprovalComesFirst == Spec => []ConsumedAfterApproval
BY SafetyInvariant, PTL DEF SafetyInv

(* What makes the two inductive: an approval, and a consumption, is never  *)
(* taken back, whatever a later request does to the status.                *)
Kept ==
    \A b \in Batches :
        /\ batch[b].approved => batch'[b].approved
        /\ \A i \in Items : consumed'[b][i] >= consumed[b][i]

THEOREM NothingIsUndone == Spec => [][Kept]_vars
<1>1. TypeInv /\ [Next]_vars => [Kept]_vars
  BY BatchSteps DEF BatchStep, Kept
<1>2. QED
  BY <1>1, TypeInvariant, PTL DEF Spec
-----------------------------------------------------------------------------
(* Whole recipes.  A start takes each ingredient in full (RequestOK), and  *)
(* every start of a batch takes the same recipe: what was consumed for a   *)
(* batch is that recipe a number of times.                                 *)

Multiple(b, n) == \A i \in Items : consumed[b][i] = n * Needs[b][i]
WholeInv == \A b \in Batches : \E n \in Nat : Multiple(b, n)

LEMMA StepWhole ==
    ASSUME TypeInv, WholeInv, [Next]_vars
    PROVE  WholeInv'
<1>1. CASE UNCHANGED consumed
  BY <1>1 DEF WholeInv, Multiple
<1>2. ASSUME NEW p \in Requests, Start(p)
      PROVE  WholeInv'
  <2> DEFINE b == req[p].batch
  <2>1. RequestOK(req[p], taken[p]) /\ consumed \in [Batches -> [Items -> Nat]]
    BY DEF TypeInv, RequestsOK, TypeOK
  <2>2. b \in Batches /\ \A i \in Items : taken[p][i] = Needs[b][i]
    BY <1>2, <2>1 DEF Start, Ready, RequestOK
  <2>3. /\ \A c \in Batches \ {b} : consumed'[c] = consumed[c]
        /\ \A i \in Items : consumed'[b][i] = consumed[b][i] + Needs[b][i]
    BY <1>2, <2>1, <2>2 DEF Start
  <2> HIDE DEF b
  <2>4. PICK n \in Nat : Multiple(b, n)
    BY <2>2 DEF WholeInv
  <2>5. \A i \in Items : consumed'[b][i] = (n + 1) * Needs[b][i]
    <3> TAKE i \in Items
    <3>1. Needs[b][i] \in Nat \ {0}
      BY <2>2
    <3>2. consumed[b][i] = n * Needs[b][i]
      BY <2>4 DEF Multiple
    <3>3. consumed[b][i] + Needs[b][i] = (n + 1) * Needs[b][i]
      BY <3>1, <3>2, OneMore
    <3>4. QED
      BY <2>3, <3>3
  <2>6. n + 1 \in Nat
    OBVIOUS
  <2>7. \A c \in Batches : \E m \in Nat : Multiple(c, m)'
    <3> TAKE c \in Batches
    <3>1. CASE c = b
      BY <2>5, <2>6, <3>1 DEF Multiple
    <3>2. CASE c # b
      BY <2>3, <3>2 DEF WholeInv, Multiple
    <3>3. QED
      BY <3>1, <3>2
  <2>8. QED
    BY <2>7 DEF WholeInv
<1>3. QED
  BY <1>1, <1>2, TableSteps DEF tables, Create, Approve, Complete, Cancel, CheckQuality

LEMMA InitWhole == Init => WholeInv
<1> SUFFICES ASSUME Init, NEW b \in Batches PROVE \E n \in Nat : Multiple(b, n)
  BY DEF WholeInv
<1>1. \A i \in Items : consumed[b][i] = 0 /\ Needs[b][i] \in Nat
  BY DEF Init, NoneTaken
<1>2. Multiple(b, 0)
  BY <1>1 DEF Multiple
<1>3. QED
  BY <1>2

LEMMA WholeRecipes == WholeInv => ConsumesWholeRecipes
<1> SUFFICES ASSUME WholeInv, NEW b \in Batches, NEW i \in Items, NEW j \in Items
             PROVE  /\ consumed[b][i] % Needs[b][i] = 0
                    /\ consumed[b][i] \div Needs[b][i] = consumed[b][j] \div Needs[b][j]
  BY DEF ConsumesWholeRecipes
<1>1. PICK n \in Nat : Multiple(b, n)
  BY DEF WholeInv
<1>2. ASSUME NEW k \in Items
      PROVE  consumed[b][k] % Needs[b][k] = 0 /\ consumed[b][k] \div Needs[b][k] = n
  <2>1. Needs[b][k] \in Nat \ {0} /\ consumed[b][k] = n * Needs[b][k]
    BY <1>1 DEF Multiple
  <2>2. QED
    BY <2>1, Remainder, Quotient
<1>3. QED
  BY <1>2

(* A start consumes the whole recipe or nothing, for any recipe, any rows  *)
(* it is taken from, and any number of starts that overlap.                *)
THEOREM RecipesAreWhole == Spec => []ConsumesWholeRecipes
<1>1. TypeInv /\ WholeInv /\ [Next]_vars => WholeInv'
  BY StepWhole
<1>2. QED
  BY <1>1, InitWhole, WholeRecipes, TypeInvariant, PTL DEF Spec
-----------------------------------------------------------------------------
(* One request at a time, the batches live as BatchLifecycle says.  What   *)
(* makes it inductive: the status a request has checked is still the       *)
(* status of the batch when the request writes it, and the status tells    *)
(* whether the ingredients have left the stock.                            *)

Consuming(r) == r.pc \in {"balances", "take", "write"} \/ (r.pc = "update" /\ r.op = "start")

SerialRequest(p) ==
    /\ Active(p) => batch[req[p].batch].status # "none"
    /\ Checked(req[p]) => batch[req[p].batch].status \in Allowed(req[p].op)
    /\ Consuming(req[p]) => Items # {}

StatusTells(b) ==
    /\ batch[b].status \in {"none", "PLANNED", "APPROVED"} =>
          consumed[b] = NoneTaken /\ outputs[b] = 0
    /\ batch[b].status = "IN_PROGRESS" =>
          consumed[b] = Needs[b] /\ outputs[b] = 0 /\ Items # {}

SerialInv ==
    /\ \A p, q \in Requests : Active(p) /\ Active(q) => p = q
    /\ \A p \in Requests : SerialRequest(p)
    /\ \A b \in Batches : StatusTells(b)

LEMMA SerialIsNext == [SerialNext]_vars => [Next]_vars
BY DEF SerialNext, Next

LEMMA SerialTypes == SerialSpec => []TypeInv
<1>1. TypeInv /\ [SerialNext]_vars => TypeInv'
  BY SerialIsNext, StepType
<1>2. QED
  BY <1>1, InitType, PTL DEF SerialSpec

(* Only a recipe with ingredients is ever consumed. *)
LEMMA ConsumesSomething ==
    ASSUME TypeInv, NEW p \in Requests, Step(p) \/ Fail(p), Consuming(req'[p])
    PROVE  Consuming(req[p]) \/ Items # {}
<1>0. /\ req[p] \in Request /\ RequestOK(req[p], taken[p])
      /\ DOMAIN req = Requests
  BY DEF TypeInv, TypeOK, RequestsOK
<1>1. ~Finish(p)
  BY <1>0 DEF Finish, Consuming, Idle
<1>2. CASE ReadStatus(p)
  <2>1. PICK r : r = [req[p] EXCEPT !.pc = IF req[p].op = "start" THEN "check" ELSE "update",
                                    !.todo = Items]
    OBVIOUS
  <2>2. req'[p] = r
    BY <1>0, <1>1, <1>2, <2>1 DEF ReadStatus, Reject
  <2>3. r.pc \in {"check", "update"} /\ (r.pc = "update" => r.op # "start")
    BY <1>0, <2>1 DEF Request
  <2>4. QED
    BY <2>2, <2>3 DEF Consuming
<1>3. CASE CheckStock(p)
  BY <1>0, <1>1, <1>3 DEF CheckStock, Reject, Request
<1>4. CASE ReadBalances(p) \/ ReadRow(p) \/ WriteRow(p) \/ EndItem(p)
  BY <1>0, <1>4 DEF ReadBalances, ReadRow, WriteRow, EndItem, Consuming
<1>5. QED
  BY <1>1, <1>2, <1>3, <1>4 DEF Step, Fail, EndDeadlock, Reject, Approve, Start, Complete,
     Cancel, CheckQuality

(* A request steps alone, and either goes on or is over. *)
LEMMA SerialMoves ==
    ASSUME TypeInv, NEW p \in Requests, Step(p) \/ Fail(p)
    PROVE  /\ Active(p)
           /\ \A q \in Requests : q # p => req'[q] = req[q]
           /\ req'[p].pc # "idle" => Checked(req'[p])
<1>0. req[p] \in Request /\ req \in [Requests -> Request]
  BY DEF TypeInv, TypeOK
<1>1. CASE Finish(p) /\ Active(p)
  BY <1>0, <1>1 DEF Finish, Idle
<1>2. ASSUME NEW r, req' = [req EXCEPT ![p] = r], Checked(r), Active(p)
      PROVE  /\ \A q \in Requests : q # p => req'[q] = req[q]
             /\ Checked(req'[p])
  BY <1>0, <1>2
<1>3. CASE Fail(p)
  BY <1>1, <1>3 DEF Fail, Reject
<1>4. CASE ReadStatus(p)
  <2> DEFINE r == [req[p] EXCEPT
                     !.pc = IF req[p].op = "start" THEN "check" ELSE "update", !.todo = Items]
  <2>1. CASE req' = [req EXCEPT ![p] = r]
    <3>1. Checked(r)
      BY <1>0 DEF Checked, Request
    <3> HIDE DEF r
    <3>2. QED
      BY <1>2, <1>4, <2>1, <3>1 DEF ReadStatus, Active
  <2>2. QED
    BY <1>1, <1>4, <2>1 DEF ReadStatus, Reject, Active
<1>5. CASE CheckStock(p)
  <2>1. ASSUME NEW d, NEW s \in {"balances", "check"},
               req' = [req EXCEPT ![p] = [@ EXCEPT !.todo = d, !.pc = s]]
        PROVE  /\ \A q \in Requests : q # p => req'[q] = req[q]
               /\ Checked(req'[p])
    <3>1. PICK r : r = [req[p] EXCEPT !.todo = d, !.pc = s]
      OBVIOUS
    <3>2. Checked(r)
      BY <1>0, <3>1 DEF Checked, Request
    <3>3. QED
      BY <1>2, <1>5, <2>1, <3>1, <3>2 DEF CheckStock, Active
  <2>2. QED
    BY <1>1, <1>5, <2>1 DEF CheckStock, Reject, Active
<1>6. CASE ReadBalances(p)
  <2>1. ASSUME NEW d, NEW i, NEW n,
               req' = [req EXCEPT ![p] = [@ EXCEPT
                         !.todo = d, !.item = i, !.remaining = n, !.pc = "take"]]
        PROVE  /\ \A q \in Requests : q # p => req'[q] = req[q]
               /\ Checked(req'[p])
    <3>1. PICK r : r = [req[p] EXCEPT !.todo = d, !.item = i, !.remaining = n, !.pc = "take"]
      OBVIOUS
    <3>2. Checked(r)
      BY <1>0, <3>1 DEF Checked, Request
    <3>3. QED
      BY <1>2, <1>6, <2>1, <3>1, <3>2 DEF ReadBalances, Active
  <2>2. PICK i \in req[p].todo :
          req' = [req EXCEPT ![p] = [@ EXCEPT
                    !.todo = req[p].todo \ {i}, !.item = i,
                    !.remaining = Need(p, i), !.pc = "take"]]
    BY <1>6 DEF ReadBalances
  <2>3. /\ \A q \in Requests : q # p => req'[q] = req[q]
        /\ Checked(req'[p])
    BY <2>1, <2>2
  <2>4. QED
    BY <1>6, <2>3 DEF ReadBalances, Active
<1>7. CASE ReadRow(p)
  <2>1. ASSUME NEW x, NEW n, NEW m,
               req' = [req EXCEPT ![p] = [@ EXCEPT
                         !.row = x, !.quantity = n, !.next = m, !.pc = "write"]]
        PROVE  /\ \A q \in Requests : q # p => req'[q] = req[q]
               /\ Checked(req'[p])
    <3>1. PICK r : r = [req[p] EXCEPT !.row = x, !.quantity = n, !.next = m, !.pc = "write"]
      OBVIOUS
    <3>2. Checked(r)
      BY <1>0, <3>1 DEF Checked, Request
    <3>3. QED
      BY <1>2, <1>7, <2>1, <3>1, <3>2 DEF ReadRow, Active
  <2>2. QED
    BY <1>1, <1>7, <2>1 DEF ReadRow, Reject, Active
<1>8. CASE WriteRow(p)
  <2>1. PICK r : r = [req[p] EXCEPT !.remaining = req[p].remaining - req[p].quantity,
                        !.row = 0, !.quantity = 0, !.next = 0, !.pc = "take"]
    OBVIOUS
  <2>2. Checked(r)
    BY <1>0, <2>1 DEF Checked, Request
  <2>3. QED
    BY <1>2, <1>8, <2>1, <2>2 DEF WriteRow, Active
<1>9. CASE EndItem(p)
  <2>1. ASSUME NEW s \in {"update", "balances"}, Goto(p, s)
        PROVE  /\ \A q \in Requests : q # p => req'[q] = req[q]
               /\ Checked(req'[p])
    BY <1>0, <2>1 DEF Goto, Checked, Request
  <2>2. QED
    BY <1>1, <1>9, <2>1 DEF EndItem, Reject, Active
<1>10. CASE EndDeadlock(p)
  <2>1. Active(p)
    BY <1>10 DEF EndDeadlock, Blocker, Active
  <2>2. QED
    BY <1>1, <1>10, <2>1 DEF EndDeadlock, Reject
<1>11. CASE Approve(p) \/ Start(p) \/ Complete(p) \/ Cancel(p) \/ CheckQuality(p)
  BY <1>1, <1>11 DEF Approve, Start, Complete, Cancel, CheckQuality, Ready, Active
<1>12. QED
  BY <1>3, <1>4, <1>5, <1>6, <1>7, <1>8, <1>9, <1>10, <1>11 DEF Step

LEMMA SerialStep ==
    ASSUME TypeInv, SerialInv, [SerialNext]_vars
    PROVE  SerialInv'
<1>0. /\ req \in [Requests -> Request] /\ batch \in [Batches -> Batch]
      /\ consumed \in [Batches -> [Items -> Nat]] /\ outputs \in [Batches -> Nat]
      /\ \A p \in Requests : RequestOK(req[p], taken[p]) /\ taken[p] \in [Items -> Nat]
  BY DEF TypeInv, TypeOK, RequestsOK
<1>1. CASE UNCHANGED vars
  BY <1>1 DEF vars, tables, SerialInv, SerialRequest, StatusTells, Active
<1>2. ASSUME NEW b \in Batches, Create(b)
      PROVE  SerialInv'
  <2>1. /\ batch[b].status = "none" /\ batch'[b].status = "PLANNED"
        /\ \A c \in Batches : c # b => batch'[c] = batch[c]
        /\ consumed' = consumed /\ outputs' = outputs /\ req' = req
    BY <1>0, <1>2 DEF Create, Batch
  <2>2. \A p \in Requests : SerialRequest(p)'
    <3>1. SUFFICES ASSUME NEW p \in Requests PROVE SerialRequest(p)'
      OBVIOUS
    <3>2. SerialRequest(p) /\ RequestOK(req[p], taken[p])
      BY <1>0 DEF SerialInv
    <3>3. CASE req[p].pc = "idle"
      BY <2>1, <3>2, <3>3 DEF SerialRequest, Active, Checked, Consuming
    <3>4. CASE req[p].pc # "idle"
      <4>1. req[p].batch \in Batches \ {b}
        BY <2>1, <3>2, <3>4 DEF SerialRequest, Active, RequestOK
      <4>2. QED
        BY <2>1, <3>2, <4>1 DEF SerialRequest, Active
    <3>5. QED
      BY <3>3, <3>4
  <2>3. \A c \in Batches : StatusTells(c)'
    <3>1. StatusTells(b)'
      BY <2>1 DEF SerialInv, StatusTells
    <3>2. \A c \in Batches : c # b => StatusTells(c)'
      BY <2>1 DEF SerialInv, StatusTells
    <3>3. QED
      BY <3>1, <3>2
  <2>4. QED
    BY <2>1, <2>2, <2>3 DEF SerialInv, Active
<1>3. ASSUME NEW p \in Requests, Arrive(p), \A q \in Requests : ~Active(q)
      PROVE  SerialInv'
  <2>1. PICK o \in Operations, b \in Batches :
          /\ batch[b].status # "none"
          /\ req' = [req EXCEPT ![p] = [@ EXCEPT !.op = o, !.batch = b, !.pc = "status"]]
    BY <1>3 DEF Arrive
  <2>2. PICK r : r = [req[p] EXCEPT !.op = o, !.batch = b, !.pc = "status"]
    OBVIOUS
  <2>3. r.pc = "status" /\ r.batch = b
    BY <1>0, <2>2 DEF Request
  <2>4. req'[p] = r /\ \A q \in Requests : q # p => req'[q] = req[q]
    BY <1>0, <2>1, <2>2
  <2>5. UNCHANGED tables
    BY <1>3 DEF Arrive
  <2>6. SerialRequest(p)'
    BY <2>1, <2>3, <2>4, <2>5 DEF SerialRequest, Checked, Consuming, tables
  <2>7. \A q \in Requests : q # p => ~Active(q)' /\ SerialRequest(q)'
    BY <1>3, <2>4, <2>5 DEF Active, SerialRequest, Checked, Consuming, tables
  <2>8. QED
    BY <2>5, <2>6, <2>7 DEF SerialInv, StatusTells, tables
<1>4. ASSUME NEW p \in Requests, Step(p) \/ Fail(p), UNCHANGED tables
      PROVE  SerialInv'
  <2>1. /\ Active(p)
        /\ \A q \in Requests : q # p => req'[q] = req[q]
        /\ req'[p].pc # "idle" => Checked(req'[p])
    BY <1>0, <1>4, SerialMoves
  <2>2. Follows(req[p], req'[p])
    BY <1>4, RequestSteps DEF Next
  <2>3. SerialRequest(p) /\ \A q \in Requests : q # p => ~Active(q)
    BY <2>1 DEF SerialInv
  <2>4. \A q \in Requests : q # p => ~Active(q)' /\ SerialRequest(q)'
    BY <2>1, <2>3 DEF Active, SerialRequest, Checked, Consuming
  <2>5. SerialRequest(p)'
    <3>1. Consuming(req'[p]) => Items # {}
      BY <1>4, <2>3, ConsumesSomething DEF SerialRequest
    <3>2. batch' = batch
      BY <1>4 DEF tables
    <3>3. Checked(req'[p]) => /\ batch[req'[p].batch].status # "none"
                              /\ batch[req'[p].batch].status \in Allowed(req'[p].op)
      BY <2>1, <2>2, <2>3 DEF Follows, SerialRequest
    <3>4. QED
      BY <2>1, <3>1, <3>2, <3>3 DEF SerialRequest, Active
  <2>6. QED
    BY <1>4, <2>4, <2>5 DEF SerialInv, StatusTells, tables
<1>5. ASSUME NEW p \in Requests, Finish(p), Active(p),
             \A b \in Batches : StatusTells(b)'
      PROVE  SerialInv'
  <2>1. \A q \in Requests : req'[q].pc = "idle"
    BY <1>0, <1>5 DEF SerialInv, Active, Finish, Idle
  <2>2. QED
    BY <1>5, <2>1 DEF SerialInv, SerialRequest, Active, Checked, Consuming
<1>6. ASSUME NEW p \in Requests, NEW s \in Statuses, SetStatus(p, s), Active(p),
             s \notin {"none", "PLANNED", "APPROVED", "IN_PROGRESS"},
             UNCHANGED <<consumed>>,
             \A b \in Batches : outputs'[b] # outputs[b] => b = req[p].batch
      PROVE  \A b \in Batches : StatusTells(b)'
  <2>1. req[p].batch \in Batches
    BY <1>0, <1>6 DEF Active, RequestOK
  <2>2. /\ batch'[req[p].batch].status = s
        /\ \A c \in Batches : c # req[p].batch => batch'[c] = batch[c]
    BY <1>0, <1>6, <2>1 DEF SetStatus, Batch
  <2>3. QED
    BY <1>6, <2>2 DEF SerialInv, StatusTells
<1>7. ASSUME NEW p \in Requests, Cancel(p) \/ CheckQuality(p) \/ Complete(p)
      PROVE  SerialInv'
  <2>1. Active(p) /\ Finish(p) /\ UNCHANGED <<consumed>>
    BY <1>7 DEF Cancel, CheckQuality, Complete, Ready, Active
  <2>2. \A b \in Batches : outputs'[b] # outputs[b] => b = req[p].batch
    BY <1>0, <1>7 DEF Cancel, CheckQuality, Complete
  <2>3. PICK s \in {"CANCELLED", "QC_HOLD", "COMPLETED"} : SetStatus(p, s)
    BY <1>7 DEF Cancel, CheckQuality, Complete
  <2>4. QED
    BY <1>5, <1>6, <2>1, <2>2, <2>3 DEF Statuses
<1>8. ASSUME NEW p \in Requests, Approve(p)
      PROVE  SerialInv'
  <2>1. /\ Active(p) /\ Finish(p) /\ UNCHANGED <<consumed, outputs>>
        /\ req[p].batch \in Batches /\ batch[req[p].batch].status = "PLANNED"
    BY <1>0, <1>8 DEF Approve, Ready, Active, RequestOK, SerialInv, SerialRequest,
       Checked, Allowed
  <2>2. /\ batch'[req[p].batch].status = "APPROVED"
        /\ \A c \in Batches : c # req[p].batch => batch'[c] = batch[c]
    BY <1>0, <1>8, <2>1 DEF Approve
  <2>3. QED
    BY <1>5, <2>1, <2>2 DEF SerialInv, StatusTells
<1>9. ASSUME NEW p \in Requests, Start(p)
      PROVE  SerialInv'
  <2>1. /\ Active(p) /\ Finish(p) /\ UNCHANGED <<outputs>>
        /\ req[p].batch \in Batches /\ batch[req[p].batch].status = "APPROVED"
        /\ Items # {} /\ \A i \in Items : taken[p][i] = Needs[req[p].batch][i]
    BY <1>0, <1>9 DEF Start, Ready, Active, RequestOK, SerialInv, SerialRequest,
       Checked, Allowed, Startable, Consuming
  <2>2. /\ batch'[req[p].batch].status = "IN_PROGRESS"
        /\ \A c \in Batches : c # req[p].batch => batch'[c] = batch[c]
    BY <1>0, <1>9, <2>1 DEF Start, SetStatus, Batch
  <2>3. consumed[req[p].batch] = NoneTaken /\ outputs[req[p].batch] = 0
    BY <2>1 DEF SerialInv, StatusTells
  <2>4. /\ consumed'[req[p].batch] = Needs[req[p].batch]
        /\ \A c \in Batches : c # req[p].batch => consumed'[c] = consumed[c]
    <3>1. [i \in Items |-> consumed[req[p].batch][i] + taken[p][i]] = Needs[req[p].batch]
      <4>1. Needs[req[p].batch] \in [Items -> Nat \ {0}]
        BY <2>1
      <4>2. \A i \in Items : consumed[req[p].batch][i] + taken[p][i] = Needs[req[p].batch][i]
        BY <1>0, <2>1, <2>3, <4>1 DEF NoneTaken
      <4>3. QED
        BY <4>1, <4>2
    <3>2. QED
      BY <1>0, <1>9, <2>1, <3>1 DEF Start
  <2>5. QED
    BY <1>5, <2>1, <2>2, <2>3, <2>4 DEF SerialInv, StatusTells
<1>10. QED
  <2>1. UNCHANGED tables \/ (\E b \in Batches : Create(b))
        \/ \E p \in Requests :
             Approve(p) \/ Start(p) \/ Complete(p) \/ Cancel(p) \/ CheckQuality(p)
    BY SerialIsNext, TableSteps
  <2>2. QED
    BY <1>1, <1>2, <1>3, <1>4, <1>7, <1>8, <1>9, <2>1 DEF SerialNext

(* The refinement mapping. *)
StatusOf == [b \in Batches |-> batch[b].status]
UsedOf   == [b \in Batches |-> IF \A i \in Items : consumed[b][i] = 0 THEN 0
                               ELSE IF consumed[b] = Needs[b] THEN 1 ELSE 2]

LEMMA StatusMoves ==
    ASSUME TypeInv, NEW b \in Batches, NEW s, batch'[b].status = s,
           \A c \in Batches : c # b => batch'[c] = batch[c]
    PROVE  StatusOf' = [StatusOf EXCEPT ![b] = s] /\ StatusOf[b] = batch[b].status
BY DEF StatusOf

LEMMA UsedStays == ASSUME consumed' = consumed PROVE UsedOf' = UsedOf
BY DEF UsedOf

LEMMA UsedMoves ==
    ASSUME NEW b \in Batches, consumed'[b] = Needs[b], ~(\A i \in Items : consumed'[b][i] = 0),
           \A c \in Batches : c # b => consumed'[c] = consumed[c]
    PROVE  UsedOf' = [UsedOf EXCEPT ![b] = 1]
<1>1. \A c \in Batches : UsedOf'[c] = IF c = b THEN 1 ELSE UsedOf[c]
  BY DEF UsedOf
<1>2. QED
  BY <1>1 DEF UsedOf

(* Which status a request finds when it writes one. *)
LEMMA WritesFrom ==
    ASSUME TypeInv, SerialInv, NEW p \in Requests, NEW o \in Operations, Ready(p, o)
    PROVE  /\ req[p].batch \in Batches
           /\ batch[req[p].batch].status \in Allowed(o)
           /\ batch[req[p].batch].status # "none"
BY DEF TypeInv, RequestsOK, RequestOK, SerialInv, SerialRequest, Ready, Active, Checked

LEMMA SetStatusMoves ==
    ASSUME TypeInv, NEW p \in Requests, req[p].batch \in Batches, NEW s, SetStatus(p, s)
    PROVE  StatusOf' = [StatusOf EXCEPT ![req[p].batch] = s]
           /\ StatusOf[req[p].batch] = batch[req[p].batch].status
BY StatusMoves DEF SetStatus, TypeInv, TypeOK, Batch

LEMMA LifeStep ==
    ASSUME TypeInv, SerialInv, [SerialNext]_vars
    PROVE  Life!Next \/ UNCHANGED Life!vars
<1>0. Life!vars = <<StatusOf, UsedOf, outputs>>
  BY DEF Life!vars, StatusOf, UsedOf
<1>1. CASE UNCHANGED tables
  BY <1>1 DEF Life!vars, tables
<1>2. ASSUME NEW b \in Batches, Create(b)
      PROVE  Life!Next
  <2>1. StatusOf' = [StatusOf EXCEPT ![b] = "PLANNED"] /\ StatusOf[b] = "none"
    BY <1>2, StatusMoves DEF Create, TypeInv, TypeOK, Batch
  <2>2. UsedOf' = UsedOf /\ outputs' = outputs
    BY <1>2, UsedStays DEF Create
  <2>3. Life!Create(b)
    BY <2>1, <2>2 DEF Life!Create, Life!Move, StatusOf, UsedOf
  <2>4. QED
    BY <2>3 DEF Life!Next
<1>3. ASSUME NEW p \in Requests, Approve(p)
      PROVE  Life!Next
  <2>1. PICK b \in Batches : b = req[p].batch /\ batch[b].status = "PLANNED"
    BY <1>3, WritesFrom DEF Approve, Operations, Allowed
  <2>2. StatusOf' = [StatusOf EXCEPT ![b] = "APPROVED"]
        /\ StatusOf[b] = "PLANNED"
    BY <1>3, <2>1, StatusMoves DEF Approve, TypeInv, TypeOK
  <2>3. UsedOf' = UsedOf /\ outputs' = outputs
    BY <1>3, UsedStays DEF Approve
  <2>4. Life!Approve(b)
    BY <2>2, <2>3 DEF Life!Approve, Life!Move, StatusOf, UsedOf
  <2>5. QED
    BY <2>1, <2>4 DEF Life!Next
<1>4. ASSUME NEW p \in Requests, Cancel(p)
      PROVE  Life!Next
  <2>1. PICK b \in Batches : b = req[p].batch /\ batch[b].status \in {"PLANNED", "APPROVED"}
    BY <1>4, WritesFrom DEF Cancel, Operations, Allowed, Cancellable
  <2>2. StatusOf' = [StatusOf EXCEPT ![b] = "CANCELLED"]
        /\ StatusOf[b] \in {"PLANNED", "APPROVED"}
    BY <1>4, <2>1, SetStatusMoves DEF Cancel
  <2>3. UsedOf' = UsedOf /\ outputs' = outputs
    BY <1>4, UsedStays DEF Cancel
  <2>4. Life!Cancel(b)
    BY <2>2, <2>3 DEF Life!Cancel, Life!Move, StatusOf, UsedOf
  <2>5. QED
    BY <2>1, <2>4 DEF Life!Next
<1>5. ASSUME NEW p \in Requests, CheckQuality(p)
      PROVE  Life!Next
  <2>1. UsedOf' = UsedOf /\ outputs' = outputs
    BY <1>5, UsedStays DEF CheckQuality
  <2>2. CASE Ready(p, "hold") /\ SetStatus(p, "QC_HOLD")
    <3>1. PICK b \in Batches : b = req[p].batch /\ batch[b].status # "none"
      BY <2>2, WritesFrom DEF Operations
    <3>2. StatusOf' = [StatusOf EXCEPT ![b] = "QC_HOLD"]
          /\ StatusOf[b] # "none"
      BY <2>2, <3>1, SetStatusMoves
    <3>3. Life!Hold(b)
      BY <2>1, <3>2 DEF Life!Hold, StatusOf, UsedOf
    <3>4. QED
      BY <3>1, <3>3 DEF Life!Next
  <2>3. CASE Ready(p, "release") /\ SetStatus(p, "COMPLETED")
    <3>1. PICK b \in Batches : b = req[p].batch /\ batch[b].status = "QC_HOLD"
      BY <2>3, WritesFrom DEF Operations, Allowed
    <3>2. StatusOf' = [StatusOf EXCEPT ![b] = "COMPLETED"]
          /\ StatusOf[b] = "QC_HOLD"
      BY <2>3, <3>1, SetStatusMoves
    <3>3. Life!Release(b)
      BY <2>1, <3>2 DEF Life!Release, Life!Move, StatusOf, UsedOf
    <3>4. QED
      BY <3>1, <3>3 DEF Life!Next
  <2>4. QED
    BY <1>5, <2>2, <2>3 DEF CheckQuality
<1>6. ASSUME NEW p \in Requests, Start(p)
      PROVE  Life!Next
  <2>1. PICK b \in Batches : b = req[p].batch /\ batch[b].status = "APPROVED"
    BY <1>6, WritesFrom DEF Start, Operations, Allowed, Startable
  <2>2. StatusOf' = [StatusOf EXCEPT ![b] = "IN_PROGRESS"]
        /\ StatusOf[b] = "APPROVED"
    BY <1>6, <2>1, SetStatusMoves DEF Start
  <2>3. PICK i \in Items : TRUE
    BY <1>6 DEF Start, Ready, SerialInv, SerialRequest, Consuming
  <2>4. /\ \A j \in Items : consumed[b][j] = 0
        /\ consumed \in [Batches -> [Items -> Nat]]
        /\ \A j \in Items : taken[p][j] = Needs[b][j]
    BY <1>6, <2>1 DEF SerialInv, StatusTells, NoneTaken, TypeInv, TypeOK, RequestsOK,
       RequestOK, Start, Ready
  <2>5. Needs[b] \in [Items -> Nat \ {0}]
    BY <2>1
  <2>6. [j \in Items |-> consumed[b][j] + taken[p][j]] = Needs[b]
    <3>1. \A j \in Items : consumed[b][j] + taken[p][j] = Needs[b][j]
      BY <2>4, <2>5
    <3>2. QED
      BY <2>5, <3>1
  <2>7. /\ consumed'[b] = Needs[b]
        /\ \A c \in Batches : c # b => consumed'[c] = consumed[c]
    BY <1>6, <2>1, <2>4, <2>6 DEF Start
  <2>8. ~(\A j \in Items : consumed'[b][j] = 0)
    BY <2>3, <2>5, <2>7
  <2>9. UsedOf' = [UsedOf EXCEPT ![b] = 1] /\ UsedOf[b] = 0
    BY <2>1, <2>4, <2>7, <2>8, UsedMoves DEF UsedOf
  <2>10. outputs' = outputs
    BY <1>6 DEF Start
  <2>11. Life!Start(b)
    BY <2>2, <2>9, <2>10 DEF Life!Start, Life!Move, StatusOf, UsedOf
  <2>12. QED
    BY <2>1, <2>11 DEF Life!Next
<1>7. ASSUME NEW p \in Requests, Complete(p)
      PROVE  Life!Next
  <2>1. PICK b \in Batches : b = req[p].batch /\ batch[b].status = "IN_PROGRESS"
    BY <1>7, WritesFrom DEF Complete, Operations, Allowed, Completable
  <2>2. StatusOf' = [StatusOf EXCEPT ![b] = "COMPLETED"]
        /\ StatusOf[b] = "IN_PROGRESS"
    BY <1>7, <2>1, SetStatusMoves DEF Complete
  <2>3. UsedOf' = UsedOf
    BY <1>7, UsedStays DEF Complete
  <2>4. UsedOf[b] = 1
    <3>1. PICK i \in Items : TRUE
      BY <2>1 DEF SerialInv, StatusTells
    <3>2. consumed[b] = Needs[b]
      BY <2>1 DEF SerialInv, StatusTells
    <3>3. Needs[b] \in [Items -> Nat \ {0}]
      BY <2>1
    <3>4. ~(\A j \in Items : consumed[b][j] = 0)
      BY <3>1, <3>2, <3>3
    <3>5. QED
      BY <2>1, <3>2, <3>4 DEF UsedOf
  <2>5. outputs' = [outputs EXCEPT ![b] = 1] /\ outputs[b] = 0
    <3>1. outputs[b] = 0
      BY <2>1 DEF SerialInv, StatusTells
    <3>2. outputs' = [outputs EXCEPT ![b] = outputs[b] + 1]
      BY <1>7, <2>1 DEF Complete
    <3>3. outputs[b] + 1 = 1
      BY <3>1
    <3>4. QED
      BY <3>1, <3>2, <3>3
  <2>6. Life!Complete(b)
    BY <2>2, <2>3, <2>4, <2>5 DEF Life!Complete, Life!Move, StatusOf, UsedOf
  <2>7. QED
    BY <2>1, <2>6 DEF Life!Next
<1>8. QED
  BY <1>1, <1>2, <1>3, <1>4, <1>5, <1>6, <1>7, SerialIsNext, TableSteps

(* When requests do not overlap, a batch is planned, approved, started and *)
(* completed once each, its ingredients leave the stock at the start and   *)
(* its goods exist from the completion.                                    *)
THEOREM SerialBatchesLiveByStatus == SerialSpec => LivesByStatus
<1>1. Init => SerialInv
  BY DEF Init, SerialInv, SerialRequest, StatusTells, Active, Checked, Consuming, Idle
<1>2. TypeInv /\ SerialInv /\ [SerialNext]_vars => SerialInv'
  BY SerialStep
<1>3. Init => Life!Init
  BY DEF Init, Life!Init, NoneTaken
<1>4. TypeInv /\ SerialInv /\ [SerialNext]_vars => [Life!Next]_(Life!vars)
  BY LifeStep
<1>5. QED
  BY <1>1, <1>2, <1>3, <1>4, SerialTypes, PTL DEF SerialSpec, LivesByStatus, Life!Spec

(* ... and one approval lets a batch consume its ingredients once: only    *)
(* starts that overlap consume them twice.                                 *)
THEOREM SerialBatchesConsumeOnce == SerialSpec => []ConsumedOnce
<1> DEFINE OnceInv == \A b \in Batches : consumed[b] \in {NoneTaken, Needs[b]}
<1>1. Init => SerialInv /\ OnceInv
  BY DEF Init, SerialInv, SerialRequest, StatusTells, Active, Checked, Consuming, Idle, NoneTaken
<1>2. ASSUME TypeInv, SerialInv, OnceInv, [SerialNext]_vars
      PROVE  OnceInv'
  <2>1. CASE consumed' = consumed
    BY <1>2, <2>1
  <2>2. ASSUME NEW p \in Requests, Start(p)
        PROVE  OnceInv'
    <3>1. PICK b \in Batches : b = req[p].batch /\ batch[b].status = "APPROVED"
      BY <1>2, <2>2, WritesFrom DEF Start, Operations, Allowed, Startable
    <3>2. /\ \A j \in Items : consumed[b][j] = 0
          /\ consumed \in [Batches -> [Items -> Nat]]
          /\ \A j \in Items : taken[p][j] = Needs[b][j]
      BY <1>2, <2>2, <3>1 DEF SerialInv, StatusTells, NoneTaken, TypeInv, TypeOK, RequestsOK,
         RequestOK, Start, Ready
    <3>3. Needs[b] \in [Items -> Nat \ {0}]
      BY <3>1
    <3>4. \A j \in Items : consumed[b][j] + taken[p][j] = Needs[b][j]
      BY <3>2, <3>3
    <3>5. [j \in Items |-> consumed[b][j] + taken[p][j]] = Needs[b]
      BY <3>3, <3>4
    <3>6. /\ consumed'[b] = Needs[b]
          /\ \A c \in Batches : c # b => consumed'[c] = consumed[c]
      BY <2>2, <3>1, <3>2, <3>5 DEF Start
    <3>7. QED
      BY <1>2, <3>6
  <2>3. UNCHANGED tables \/ (\E b \in Batches : Create(b))
        \/ \E p \in Requests :
             Approve(p) \/ Start(p) \/ Complete(p) \/ Cancel(p) \/ CheckQuality(p)
    BY <1>2, SerialIsNext, TableSteps
  <2>4. QED
    BY <2>1, <2>2, <2>3 DEF tables, Create, Approve, Complete, Cancel, CheckQuality
<1>3. TypeInv /\ OnceInv => ConsumedOnce
  <2>1. SUFFICES ASSUME TypeInv, OnceInv, NEW b \in Batches, NEW i \in Items
                 PROVE  consumed[b][i] <= Needs[b][i]
    BY DEF ConsumedOnce
  <2>2. Needs[b] \in [Items -> Nat \ {0}] /\ NoneTaken[i] = 0
    BY DEF NoneTaken
  <2>3. QED
    BY <2>1, <2>2
<1>4. TypeInv /\ SerialInv /\ [SerialNext]_vars => SerialInv'
  BY SerialStep
<1>5. QED
  BY <1>1, <1>2, <1>3, <1>4, SerialTypes, PTL DEF SerialSpec
=============================================================================
