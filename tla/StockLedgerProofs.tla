-------------------------- MODULE StockLedgerProofs --------------------------
(***************************************************************************)
(* Proofs about StockLedger, for any number of requests, rows, lots,       *)
(* quantities and costs.                                                   *)
(***************************************************************************)
EXTENDS StockLedger, FiniteSums, TLAPS

USE LedgerAssumption DEF LedgerAssumption, LotIds

-----------------------------------------------------------------------------
(* Every step of the tables, the locks and the requests keeps its type.    *)

LEMMA DeltaType ==
    ASSUME LedgerTypeOK, NEW p \in Requests
    PROVE  Delta(p) \in Int
BY DEF LedgerTypeOK, Delta, Request

LEMMA InputUpdate ==
    ASSUME NEW r \in Request, NEW k \in Kinds, NEW l \in LotIds, NEW q \in Nat,
           NEW s \in Steps
    PROVE  [r EXCEPT !.kind = k, !.lot = l, !.qty = q, !.pc = s] \in Request
BY Zenon DEF Request

LEMMA LotUpdate ==
    ASSUME NEW r \in Request, NEW l \in LotIds, NEW s \in Steps
    PROVE  [r EXCEPT !.lot = l, !.pc = s] \in Request
BY Zenon DEF Request

LEMMA ReadUpdate ==
    ASSUME NEW r \in Request, NEW b \in Rows \cup {NoRow}, NEW n \in Int,
           NEW a \in Int, NEW s \in Steps
    PROVE  [r EXCEPT !.row = b, !.onHand = n, !.available = a, !.pc = s] \in Request
BY Zenon DEF Request

LEMMA CreateUpdate ==
    ASSUME NEW r \in Request, NEW b \in Rows, NEW s \in Steps
    PROVE  [r EXCEPT !.row = b, !.pc = s] \in Request
BY Zenon DEF Request

LEMMA RowUpdate ==
    ASSUME NEW b \in Row, NEW l \in LotIds, NEW n \in Int, NEW a \in Int
    PROVE  [b EXCEPT !.lot = l, !.onHand = n, !.available = a] \in Row
BY Zenon DEF Row

LEMMA RollbackType ==
    ASSUME LedgerTypeOK, NEW p \in Requests, Rollback(p)
    PROVE  LedgerTypeOK'
BY DEF LedgerTypeOK, Rollback, Finish, IdleRequest, table, Request, Steps,
       Finished, Kinds

(* A cost set or removed by hand touches the cost and nothing else. *)
LEMMA ByHandQuiet ==
    ASSUME ByHand
    PROVE  UNCHANGED <<balance, moved, rowLock, settingLock, req, costing>>
BY DEF ByHand, SetCost, ForgetCost, locks

LEMMA StepType ==
    ASSUME LedgerTypeOK, [Next]_vars
    PROVE  LedgerTypeOK'
<1>1. CASE UNCHANGED vars \/ ByHand
  BY <1>1, ByHandQuiet DEF LedgerTypeOK, vars, table, locks
<1>2. ASSUME NEW p \in Requests, Begin(p)
      PROVE  LedgerTypeOK'
  <2>1. PICK k \in Kinds, l \in LotIds, q \in Quantities :
          req' = [req EXCEPT ![p] = [@ EXCEPT
                    !.kind = k, !.lot = l, !.qty = q,
                    !.pc = IF k = "opening" THEN "balance" ELSE "money"]]
    BY <1>2 DEF Begin
  <2>2. (IF k = "opening" THEN "balance" ELSE "money") \in Steps
    BY DEF Steps
  <2>3. [req[p] EXCEPT !.kind = k, !.lot = l, !.qty = q,
           !.pc = IF k = "opening" THEN "balance" ELSE "money"] \in Request
    BY <2>2, InputUpdate DEF LedgerTypeOK
  <2>4. req' \in [Requests -> Request]
    BY <2>1, <2>3 DEF LedgerTypeOK
  <2>5. QED
    BY <1>2, <2>4 DEF Begin, LedgerTypeOK, table, locks
<1>3. ASSUME NEW p \in Requests, CheckMoney(p)
      PROVE  LedgerTypeOK'
  BY <1>3, RollbackType DEF CheckMoney, Goto, LedgerTypeOK, Request, Steps,
       table, locks
<1>4. ASSUME NEW p \in Requests, ResolveLot(p)
      PROVE  LedgerTypeOK'
  <2>1. CASE Rollback(p)
    BY <2>1, RollbackType
  <2>2. CASE Goto(p, "balance") /\ UNCHANGED <<table, locks>>
    BY <2>2 DEF Goto, LedgerTypeOK, Request, Steps, table, locks
  <2>3. ASSUME NEW r \in Rows, Stored(r), UNCHANGED <<table, locks>>,
               req' = [req EXCEPT ![p] = [@ EXCEPT
                         !.lot = balance[r].lot, !.pc = "balance"]]
        PROVE  LedgerTypeOK'
    <3>1. balance[r].lot \in LotIds
      BY <2>3 DEF Stored, LedgerTypeOK, Row
    <3>2. [req[p] EXCEPT !.lot = balance[r].lot, !.pc = "balance"] \in Request
      BY <3>1, LotUpdate DEF LedgerTypeOK, Steps
    <3>3. QED
      BY <2>3, <3>2 DEF LedgerTypeOK, table, locks
  <2>4. QED
    BY <1>4, <2>1, <2>2, <2>3 DEF ResolveLot, FirstExpired, InStock
<1>5. ASSUME NEW p \in Requests, ReadBalance(p)
      PROVE  LedgerTypeOK'
  <2>1. Delta(p) \in Int /\ req[p] \in Request
    BY DeltaType DEF LedgerTypeOK
  <2>2. ASSUME NEW r \in Rows, NEW n \in Int, NEW a \in Int
        PROVE  /\ [req[p] EXCEPT !.row = r, !.onHand = n, !.available = a,
                                 !.pc = "onHands"] \in Request
               /\ [req[p] EXCEPT !.row = NoRow, !.onHand = n, !.available = a,
                                 !.pc = "onHands"] \in Request
    BY <2>1, ReadUpdate DEF Steps
  <2>3. \A r \in Rows : balance[r].onHand \in Int /\ balance[r].reserved \in Int
    BY DEF LedgerTypeOK, Row
  <2>4. req' \in [Requests -> Request]
    <3>1. CASE FindBalance(req[p].lot) = {}
      <4>1. [req[p] EXCEPT !.row = NoRow, !.onHand = Delta(p),
                           !.available = Delta(p), !.pc = "onHands"] \in Request
        BY <2>1, ReadUpdate DEF Steps
      <4>2. QED
        BY <1>5, <3>1, <4>1 DEF ReadBalance, LedgerTypeOK
    <3>2. ASSUME NEW r \in Rows,
                 req' = [req EXCEPT ![p] = [@ EXCEPT
                   !.row = r, !.onHand = balance[r].onHand + Delta(p),
                   !.available = balance[r].onHand + Delta(p) - balance[r].reserved,
                   !.pc = "onHands"]]
          PROVE  req' \in [Requests -> Request]
      <4>1. /\ balance[r].onHand + Delta(p) \in Int
            /\ balance[r].onHand + Delta(p) - balance[r].reserved \in Int
        BY <2>1, <2>3
      <4>2. QED
        BY <2>2, <3>2, <4>1 DEF LedgerTypeOK
    <3>3. QED
      BY <1>5, <3>1, <3>2 DEF ReadBalance, FindBalance, RowsOf
  <2>5. QED
    BY <1>5, <2>4 DEF ReadBalance, LedgerTypeOK, table, locks
<1>6. ASSUME NEW p \in Requests, ReadOnHands(p)
      PROVE  LedgerTypeOK'
  BY <1>6, RollbackType DEF ReadOnHands, Goto, LedgerTypeOK, Request, Steps,
       table, locks
<1>7. ASSUME NEW p \in Requests, UpdateBalance(p)
      PROVE  LedgerTypeOK'
  BY <1>7 DEF UpdateBalance, Goto, AfterWrite, LedgerTypeOK, Request, Steps, table
<1>8. ASSUME NEW p \in Requests, CreateBalance(p)
      PROVE  LedgerTypeOK'
  <2>1. CASE Rollback(p)
    BY <2>1, RollbackType
  <2>2. ASSUME NEW r \in Rows, UNCHANGED <<table, settingLock>>,
               rowLock' = [rowLock EXCEPT ![r] = p],
               req' = [req EXCEPT ![p] = [@ EXCEPT !.row = r, !.pc = AfterWrite(p)]]
        PROVE  LedgerTypeOK'
    <3>1. [req[p] EXCEPT !.row = r, !.pc = AfterWrite(p)] \in Request
      BY CreateUpdate DEF LedgerTypeOK, AfterWrite, Steps
    <3>2. QED
      BY <2>2, <3>1 DEF LedgerTypeOK, table
  <2>3. QED
    BY <1>8, <2>1, <2>2 DEF CreateBalance
<1>9. ASSUME NEW p \in Requests, ReadSetting(p)
      PROVE  LedgerTypeOK'
  BY <1>9 DEF ReadSetting, Goto, LedgerTypeOK, Request, Steps, table, locks
<1>10. ASSUME NEW p \in Requests, UpsertSetting(p)
       PROVE  LedgerTypeOK'
  BY <1>10 DEF UpsertSetting, Goto, LedgerTypeOK, Request, Steps, table
<1>11. ASSUME NEW p \in Requests, Commit(p)
       PROVE  LedgerTypeOK'
  <2>1. req' \in [Requests -> Request]
    BY <1>11 DEF Commit, Finish, IdleRequest, LedgerTypeOK, Request, Steps,
         Finished, Kinds
  <2>2. balance' \in [Rows -> Row]
    <3> DEFINE new == [balance[req[p].row] EXCEPT !.lot = req[p].lot,
                         !.onHand = req[p].onHand, !.available = req[p].available]
    <3>1. /\ req[p].lot \in LotIds
          /\ req[p].onHand \in Int
          /\ req[p].available \in Int
      BY DEF LedgerTypeOK, Request
    <3>2. ASSUME req[p].row \in Rows
          PROVE  new \in Row
      BY <3>1, <3>2, RowUpdate DEF LedgerTypeOK
    <3>3. balance' = [balance EXCEPT ![req[p].row] = new]
      BY <1>11 DEF Commit
    <3>4. QED
      <4> HIDE DEF new
      <4>1. QED
        BY <3>2, <3>3 DEF LedgerTypeOK
  <2>3. moved' \in [LotIds -> Int]
    <3>1. Delta(p) \in Int
      BY DeltaType
    <3>2. req[p].lot \in LotIds
      BY DEF LedgerTypeOK, Request
    <3>3. moved[req[p].lot] + Delta(p) \in Int
      BY <3>1, <3>2 DEF LedgerTypeOK
    <3>4. moved' = [moved EXCEPT ![req[p].lot] = moved[req[p].lot] + Delta(p)]
      BY <1>11 DEF Commit
    <3>5. QED
      BY <3>2, <3>3, <3>4 DEF LedgerTypeOK
  <2>4. QED
    BY <1>11, <2>1, <2>2, <2>3 DEF Commit, LedgerTypeOK
<1>12. ASSUME NEW p \in Requests, Fail(p)
       PROVE  LedgerTypeOK'
  BY <1>12, RollbackType DEF Fail
<1>13. QED
  BY <1>1, <1>2, <1>3, <1>4, <1>5, <1>6, <1>7, <1>8, <1>9, <1>10, <1>11, <1>12
  DEF Next, Step

(* The tables, the locks and the requests hold values of their types. *)
THEOREM TypeCorrect == Spec => []LedgerTypeOK
<1>1. Init => LedgerTypeOK
  BY DEF Init, LedgerTypeOK, NewRow, Row, IdleRequest, Request, Steps, Kinds
<1>2. LedgerTypeOK /\ [Next]_vars => LedgerTypeOK'
  BY StepType
<1>3. QED
  BY <1>1, <1>2, PTL DEF Spec

-----------------------------------------------------------------------------
(* Stock never goes negative.  The invariant adds to the property that the *)
(* reservation is always 0, and that a request past the NEGATIVE_STOCK     *)
(* check carries the non-negative value it is about to write: it is that   *)
(* value, and not what the row holds by then, that reaches the table.      *)

Locked  == {"price", "setting", "commit"}
Writing == {"write"} \cup Locked

RowSafe(b) == b.reserved = 0 /\ b.available = b.onHand /\ b.onHand >= 0

RequestSafe(r) ==
    /\ r.pc \notin {"idle"} \cup Finished => r.qty \in Quantities
    /\ r.pc \in {"onHands"} \cup Writing => r.available = r.onHand
    /\ r.pc \in Writing => r.onHand >= 0
    /\ r.pc \in Locked => r.row \in Rows

SafetyInv ==
    /\ \A r \in Rows : RowSafe(balance[r])
    /\ \A p \in Requests : RequestSafe(req[p])

(* A step of p that leaves the table alone keeps SafetyInv if p is safe. *)
LEMMA OtherSafe ==
    ASSUME LedgerTypeOK, SafetyInv, NEW p \in Requests, NEW new,
           req' = [req EXCEPT ![p] = new], RequestSafe(new), balance' = balance
    PROVE  SafetyInv'
BY DEF LedgerTypeOK, SafetyInv

LEMMA GotoSafe ==
    ASSUME LedgerTypeOK, SafetyInv, NEW p \in Requests, NEW s,
           Goto(p, s), RequestSafe([req[p] EXCEPT !.pc = s]), balance' = balance
    PROVE  SafetyInv'
BY OtherSafe DEF Goto

LEMMA RollbackSafe ==
    ASSUME LedgerTypeOK, SafetyInv, NEW p \in Requests, Rollback(p)
    PROVE  SafetyInv'
<1>1. RequestSafe([IdleRequest EXCEPT !.pc = "aborted"])
  BY DEF IdleRequest, RequestSafe, Finished, Locked, Writing
<1>2. QED
  BY <1>1, OtherSafe DEF Rollback, Finish, table

LEMMA StepSafe ==
    ASSUME LedgerTypeOK, SafetyInv, [Next]_vars
    PROVE  SafetyInv'
<1>0. \A q \in Requests : req[q] \in Request /\ RequestSafe(req[q])
  BY DEF LedgerTypeOK, SafetyInv
<1>1. CASE UNCHANGED vars \/ ByHand
  BY <1>1, ByHandQuiet DEF SafetyInv, vars, table
<1>2. ASSUME NEW p \in Requests, Begin(p)
      PROVE  SafetyInv'
  <2>1. PICK k \in Kinds, l \in LotIds, q \in Quantities :
          req' = [req EXCEPT ![p] = [@ EXCEPT
                    !.kind = k, !.lot = l, !.qty = q,
                    !.pc = IF k = "opening" THEN "balance" ELSE "money"]]
    BY <1>2 DEF Begin
  <2> DEFINE new == [req[p] EXCEPT !.kind = k, !.lot = l, !.qty = q,
                       !.pc = IF k = "opening" THEN "balance" ELSE "money"]
  <2>2. RequestSafe(new)
    BY <1>0 DEF Request, RequestSafe, Locked, Writing
  <2>3. QED
    BY <1>2, <2>1, <2>2, OtherSafe DEF Begin, table
<1>3. ASSUME NEW p \in Requests, CheckMoney(p)
      PROVE  SafetyInv'
  <2>1. \A s \in {"resolve", "balance"} : RequestSafe([req[p] EXCEPT !.pc = s])
    BY <1>0, <1>3 DEF CheckMoney, Request, RequestSafe, Finished, Locked, Writing
  <2>2. QED
    BY <1>3, <2>1, RollbackSafe, GotoSafe DEF CheckMoney, table
<1>4. ASSUME NEW p \in Requests, ResolveLot(p)
      PROVE  SafetyInv'
  <2>1. RequestSafe([req[p] EXCEPT !.pc = "balance"])
    BY <1>0, <1>4 DEF ResolveLot, Request, RequestSafe, Finished, Locked, Writing
  <2>2. ASSUME NEW l
        PROVE  RequestSafe([req[p] EXCEPT !.lot = l, !.pc = "balance"])
    BY <1>0, <1>4 DEF ResolveLot, Request, RequestSafe, Finished, Locked, Writing
  <2>3. QED
    BY <1>4, <2>1, <2>2, RollbackSafe, GotoSafe, OtherSafe
    DEF ResolveLot, table
<1>5. ASSUME NEW p \in Requests, ReadBalance(p)
      PROVE  SafetyInv'
  <2>1. ASSUME NEW b, NEW n
        PROVE  RequestSafe([req[p] EXCEPT !.row = b, !.onHand = n,
                              !.available = n, !.pc = "onHands"])
    BY <1>0, <1>5 DEF ReadBalance, Request, RequestSafe, Finished, Locked, Writing
  <2>2. \A r \in Rows : balance[r].reserved = 0 /\ balance[r].onHand \in Int
    BY DEF SafetyInv, RowSafe, LedgerTypeOK, Row
  <2>3. Delta(p) \in Int
    BY DeltaType
  <2>4. ASSUME NEW r \in Rows
        PROVE  balance[r].onHand + Delta(p) - balance[r].reserved
                 = balance[r].onHand + Delta(p)
    BY <2>2, <2>3
  <2>5. \E b, n : req' = [req EXCEPT ![p] = [@ EXCEPT
                     !.row = b, !.onHand = n, !.available = n, !.pc = "onHands"]]
    <3>1. CASE FindBalance(req[p].lot) = {}
      BY <1>5, <3>1 DEF ReadBalance
    <3>2. CASE FindBalance(req[p].lot) # {}
      <4>1. PICK r \in FindBalance(req[p].lot) :
              req' = [req EXCEPT ![p] = [@ EXCEPT
                !.row = r, !.onHand = balance[r].onHand + Delta(p),
                !.available = balance[r].onHand + Delta(p) - balance[r].reserved,
                !.pc = "onHands"]]
        BY <1>5, <3>2 DEF ReadBalance
      <4>2. r \in Rows
        BY DEF FindBalance, RowsOf
      <4>3. req' = [req EXCEPT ![p] = [@ EXCEPT
              !.row = r, !.onHand = balance[r].onHand + Delta(p),
              !.available = balance[r].onHand + Delta(p), !.pc = "onHands"]]
        BY <2>4, <4>1, <4>2
      <4>4. QED
        BY <4>3
    <3>3. QED
      BY <3>1, <3>2
  <2>6. UNCHANGED balance
    BY <1>5 DEF ReadBalance, table
  <2>7. QED
    BY <2>1, <2>5, <2>6, OtherSafe
<1>6. ASSUME NEW p \in Requests, ReadOnHands(p)
      PROVE  SafetyInv'
  <2>1. CASE ~Overdraws(p)
    <3>1. RequestSafe([req[p] EXCEPT !.pc = "write"])
      BY <1>0, <1>6, <2>1 DEF ReadOnHands, Overdraws, Request, RequestSafe,
           Finished, Locked, Writing
    <3>2. QED
      BY <1>6, <2>1, <3>1, GotoSafe DEF ReadOnHands, table
  <2>2. QED
    BY <1>6, <2>1, RollbackSafe DEF ReadOnHands
<1>7. ASSUME NEW p \in Requests, UpdateBalance(p)
      PROVE  SafetyInv'
  <2>1. RequestSafe([req[p] EXCEPT !.pc = AfterWrite(p)])
    BY <1>0, <1>7 DEF UpdateBalance, AfterWrite, Request, RequestSafe,
         Finished, Locked, Writing
  <2>2. QED
    BY <1>7, <2>1, GotoSafe DEF UpdateBalance, table
<1>8. ASSUME NEW p \in Requests, CreateBalance(p)
      PROVE  SafetyInv'
  <2>1. ASSUME NEW r \in Rows
        PROVE  RequestSafe([req[p] EXCEPT !.row = r, !.pc = AfterWrite(p)])
    BY <1>0, <1>8 DEF CreateBalance, AfterWrite, Request, RequestSafe,
         Finished, Locked, Writing
  <2>2. QED
    BY <1>8, <2>1, RollbackSafe, OtherSafe DEF CreateBalance, table
<1>9. ASSUME NEW p \in Requests, ReadSetting(p)
      PROVE  SafetyInv'
  <2>1. RequestSafe([req[p] EXCEPT !.pc = "setting"])
    BY <1>0, <1>9 DEF ReadSetting, Request, RequestSafe, Finished, Locked, Writing
  <2>2. QED
    BY <1>9, <2>1, GotoSafe DEF ReadSetting, table
<1>10. ASSUME NEW p \in Requests, UpsertSetting(p)
       PROVE  SafetyInv'
  <2>1. RequestSafe([req[p] EXCEPT !.pc = "commit"])
    BY <1>0, <1>10 DEF UpsertSetting, Request, RequestSafe, Finished, Locked,
         Writing
  <2>2. QED
    BY <1>10, <2>1, GotoSafe DEF UpsertSetting, table
<1>11. ASSUME NEW p \in Requests, Commit(p)
       PROVE  SafetyInv'
  <2> DEFINE old == balance[req[p].row]
             new == [old EXCEPT !.lot = req[p].lot, !.onHand = req[p].onHand,
                                !.available = req[p].available]
  <2>1. /\ req[p].row \in Rows
        /\ req[p].available = req[p].onHand
        /\ req[p].onHand >= 0
    BY <1>0, <1>11 DEF Commit, RequestSafe, Locked, Writing
  <2>2. old \in Row /\ old.reserved = 0
    BY <2>1 DEF LedgerTypeOK, SafetyInv, RowSafe
  <2>3. RowSafe(new)
    BY <2>1, <2>2 DEF Row, RowSafe
  <2>4. RequestSafe([IdleRequest EXCEPT !.pc = "committed"])
    BY DEF IdleRequest, RequestSafe, Finished, Locked, Writing
  <2>5. balance' = [balance EXCEPT ![req[p].row] = new]
    BY <1>11 DEF Commit
  <2>6. \A r \in Rows : RowSafe(balance'[r])
    <3> HIDE DEF new
    <3>1. QED
      BY <2>1, <2>3, <2>5 DEF SafetyInv, LedgerTypeOK
  <2>7. \A q \in Requests : RequestSafe(req'[q])
    BY <1>0, <1>11, <2>4 DEF Commit, Finish, LedgerTypeOK
  <2>8. QED
    BY <2>6, <2>7 DEF SafetyInv
<1>12. ASSUME NEW p \in Requests, Fail(p)
       PROVE  SafetyInv'
  BY <1>12, RollbackSafe DEF Fail
<1>13. QED
  BY <1>1, <1>2, <1>3, <1>4, <1>5, <1>6, <1>7, <1>8, <1>9, <1>10, <1>11, <1>12
  DEF Next, Step

LEMMA SafetyHolds == Spec => []SafetyInv
<1>1. Init => SafetyInv
  BY DEF Init, SafetyInv, NewRow, RowSafe, IdleRequest, RequestSafe, Finished,
     Locked, Writing
<1>2. LedgerTypeOK /\ SafetyInv /\ [Next]_vars => SafetyInv'
  BY StepSafe
<1>3. QED
  BY <1>1, <1>2, TypeCorrect, PTL DEF Spec

(* Whatever the interleaving of the requests, no committed balance is      *)
(* negative, and available is on hand less reserved.                       *)
THEOREM StockNeverNegative == Spec => []NoNegativeStock
<1>1. LedgerTypeOK /\ SafetyInv => NoNegativeStock
  BY DEF LedgerTypeOK, Row, SafetyInv, RowSafe, NoNegativeStock
<1>2. QED
  BY <1>1, SafetyHolds, TypeCorrect, PTL

-----------------------------------------------------------------------------
(* One request at a time, the tables are the stock book.  What makes it    *)
(* inductive: the one active request still holds what the movement log     *)
(* says of its lot, and knows whether the lot has a row.                   *)

Ready == {"onHands"} \cup Writing

SerialReq(p) ==
    req[p].pc \in Ready =>
        /\ req[p].onHand = moved[req[p].lot] + Delta(p)
        /\ RowsOf(req[p].lot) # {} => req[p].row \in RowsOf(req[p].lot)
        /\ RowsOf(req[p].lot) = {} /\ req[p].row \in Rows => ~Stored(req[p].row)

BookRows ==
    /\ \A r \in Rows : Stored(r) => balance[r].onHand = moved[balance[r].lot]
    /\ \A l \in LotIds : RowsOf(l) = {} => moved[l] = 0
    /\ OneRowPerLotId

OneActive == \A p, q \in Requests : Active(p) /\ Active(q) => p = q

SerialInv == BookRows /\ OneActive /\ \A p \in Requests : SerialReq(p)

LEMMA SerialStepIsStep == SerialNext => Next
BY DEF SerialNext, Next

(* A step of the active request that leaves balances and movements alone. *)
LEMMA SerialQuiet ==
    ASSUME LedgerTypeOK, SerialInv, NEW p \in Requests,
           \A q \in Requests \ {p} : ~Active(q),
           NEW new, req' = [req EXCEPT ![p] = new],
           UNCHANGED <<balance, moved>>, SerialReq(p)'
    PROVE  SerialInv'
<1>1. \A q \in Requests \ {p} : req'[q] = req[q]
  BY DEF LedgerTypeOK
<1>2. \A q \in Requests \ {p} : ~Active(q)' /\ SerialReq(q)'
  BY <1>1 DEF Active, Finished, SerialReq, Ready, Writing, Locked
<1>3. BookRows'
  BY DEF SerialInv, BookRows, OneRowPerLotId, Stored, RowsOf
<1>4. QED
  BY <1>2, <1>3 DEF SerialInv, OneActive

(* ... in particular when it ends up with nothing computed yet. *)
LEMMA SerialNotReady ==
    ASSUME LedgerTypeOK, SerialInv, NEW p \in Requests,
           \A q \in Requests \ {p} : ~Active(q),
           NEW new \in Request, req' = [req EXCEPT ![p] = new], new.pc \notin Ready,
           UNCHANGED <<balance, moved>>
    PROVE  SerialInv'
<1>1. SerialReq(p)'
  BY DEF LedgerTypeOK, SerialReq
<1>2. QED
  BY <1>1, SerialQuiet

LEMMA SerialRollback ==
    ASSUME LedgerTypeOK, SerialInv, NEW p \in Requests,
           \A q \in Requests \ {p} : ~Active(q), Rollback(p)
    PROVE  SerialInv'
<1> DEFINE new == [IdleRequest EXCEPT !.pc = "aborted"]
<1>1. new \in Request /\ new.pc \notin Ready
  BY DEF IdleRequest, Request, Steps, Finished, Kinds, Ready, Writing, Locked
<1>2. req' = [req EXCEPT ![p] = new] /\ UNCHANGED <<balance, moved>>
  BY DEF Rollback, Finish, table
<1>3. QED
  <2> HIDE DEF new
  <2>1. QED
    BY <1>1, <1>2, SerialNotReady

(* ... or goes on with what it has computed. *)
LEMMA SerialGoto ==
    ASSUME LedgerTypeOK, SerialInv, NEW p \in Requests,
           \A q \in Requests \ {p} : ~Active(q),
           NEW s \in Steps, Goto(p, s), s \in Ready => req[p].pc \in Ready,
           UNCHANGED <<balance, moved>>
    PROVE  SerialInv'
<1> DEFINE new == [req[p] EXCEPT !.pc = s]
<1>1. /\ req'[p].pc = s
      /\ req'[p].kind = req[p].kind /\ req'[p].qty = req[p].qty
      /\ req'[p].lot = req[p].lot /\ req'[p].row = req[p].row
      /\ req'[p].onHand = req[p].onHand
  BY DEF Goto, LedgerTypeOK, Request
<1>2. SerialReq(p)
  BY DEF SerialInv
<1>3. SerialReq(p)'
  BY <1>1, <1>2 DEF SerialReq, Delta, RowsOf, Stored
<1>4. req' = [req EXCEPT ![p] = new]
  BY DEF Goto
<1>5. QED
  <2> HIDE DEF new
  <2>1. QED
    BY <1>3, <1>4, SerialQuiet

LEMMA StepSerial ==
    ASSUME LedgerTypeOK, SafetyInv, SerialInv, [SerialNext]_vars
    PROVE  SerialInv'
<1>0. \A q \in Requests : req[q] \in Request /\ SerialReq(q)
  BY DEF LedgerTypeOK, SerialInv
<1>1. CASE UNCHANGED vars \/ ByHand
  BY <1>1, ByHandQuiet DEF SerialInv, BookRows, OneRowPerLotId, OneActive, SerialReq, Delta,
       Active, Stored, RowsOf, vars, table
<1>2. ASSUME NEW p \in Requests, Begin(p), \A q \in Requests : ~Active(q)
      PROVE  SerialInv'
  <2>1. PICK k \in Kinds, l \in LotIds, q \in Quantities :
          req' = [req EXCEPT ![p] = [@ EXCEPT
                    !.kind = k, !.lot = l, !.qty = q,
                    !.pc = IF k = "opening" THEN "balance" ELSE "money"]]
    BY <1>2 DEF Begin
  <2> DEFINE new == [req[p] EXCEPT !.kind = k, !.lot = l, !.qty = q,
                       !.pc = IF k = "opening" THEN "balance" ELSE "money"]
  <2>2. new \in Request
    BY <1>0, InputUpdate DEF Steps
  <2>3. new.pc \notin Ready
    BY <1>0 DEF Request, Ready, Writing, Locked
  <2>4. req' = [req EXCEPT ![p] = new] /\ UNCHANGED <<balance, moved>>
    BY <1>2, <2>1 DEF Begin, table
  <2>5. QED
    <3> HIDE DEF new
    <3>1. QED
      BY <1>2, <2>2, <2>3, <2>4, SerialNotReady
<1>3. ASSUME NEW p \in Requests, Step(p) \/ Fail(p)
      PROVE  SerialInv'
  <2>0. Active(p)
    BY <1>3 DEF Step, Fail, Active, Finished, CheckMoney, ResolveLot,
         ReadBalance, ReadOnHands, UpdateBalance, CreateBalance, ReadSetting,
         UpsertSetting, Commit
  <2>1. \A q \in Requests \ {p} : ~Active(q)
    BY <2>0 DEF SerialInv, OneActive
  <2>2. CASE Rollback(p)
    BY <2>1, <2>2, SerialRollback
  <2>3. CASE CheckMoney(p)
    <3>1. \A s \in {"resolve", "balance"} : s \in Steps /\ s \notin Ready
      BY DEF Steps, Ready, Writing, Locked
    <3>2. QED
      BY <2>1, <2>2, <2>3, <3>1, SerialGoto DEF CheckMoney, table
  <2>4. CASE ResolveLot(p)
    <3>1. "balance" \in Steps /\ "balance" \notin Ready
      BY DEF Steps, Ready, Writing, Locked
    <3>2. ASSUME NEW r \in Rows, Stored(r), UNCHANGED <<table, locks, costing>>,
                 req' = [req EXCEPT ![p] = [@ EXCEPT
                           !.lot = balance[r].lot, !.pc = "balance"]]
          PROVE  SerialInv'
      <4> DEFINE new == [req[p] EXCEPT !.lot = balance[r].lot, !.pc = "balance"]
      <4>1. balance[r].lot \in LotIds
        BY <3>2 DEF Stored, LedgerTypeOK, Row
      <4>2. new \in Request
        BY <1>0, <3>1, <4>1, LotUpdate
      <4>3. new.pc \notin Ready
        BY <1>0, <3>1 DEF Request
      <4>4. UNCHANGED <<balance, moved>>
        BY <3>2 DEF table
      <4>5. QED
        <5>1. req' = [req EXCEPT ![p] = new]
          BY <3>2
        <5> HIDE DEF new
        <5>2. QED
          BY <2>1, <4>2, <4>3, <4>4, <5>1, SerialNotReady
    <3>3. QED
      BY <2>1, <2>2, <2>4, <3>1, <3>2, SerialGoto
      DEF ResolveLot, FirstExpired, InStock, table
  <2>5. CASE ReadBalance(p)
    <3>1. UNCHANGED <<balance, moved>>
      BY <2>5 DEF ReadBalance, table
    <3>2. Delta(p) \in Int /\ req[p].lot \in LotIds
      BY <1>0, DeltaType DEF Request
    <3>3. ASSUME NEW b, NEW n, NEW a,
                 req' = [req EXCEPT ![p] = [@ EXCEPT
                   !.row = b, !.onHand = n, !.available = a, !.pc = "onHands"]],
                 n = moved[req[p].lot] + Delta(p),
                 RowsOf(req[p].lot) # {} => b \in RowsOf(req[p].lot),
                 RowsOf(req[p].lot) = {} => b \notin Rows
          PROVE  SerialInv'
      <4> DEFINE new == [req[p] EXCEPT !.row = b, !.onHand = n,
                           !.available = a, !.pc = "onHands"]
      <4>1. /\ new.lot = req[p].lot /\ new.onHand = n /\ new.row = b
            /\ new.kind = req[p].kind /\ new.qty = req[p].qty
        BY <1>0 DEF Request
      <4>2. req' = [req EXCEPT ![p] = new]
        BY <3>3
      <4> HIDE DEF new
      <4>3. req'[p] = new
        BY <4>2 DEF LedgerTypeOK
      <4>4. SerialReq(p)'
        BY <3>1, <3>3, <4>1, <4>3 DEF SerialReq, Delta, RowsOf, Stored
      <4>5. QED
        BY <2>1, <3>1, <4>2, <4>4, SerialQuiet
    <3>4. CASE RowsOf(req[p].lot) = {}
      <4>1. moved[req[p].lot] = 0
        BY <3>2, <3>4 DEF SerialInv, BookRows
      <4>2. Delta(p) = moved[req[p].lot] + Delta(p)
        BY <3>2, <4>1
      <4>3. req' = [req EXCEPT ![p] = [@ EXCEPT
              !.row = NoRow, !.onHand = Delta(p), !.available = Delta(p),
              !.pc = "onHands"]]
        BY <2>5, <3>4 DEF ReadBalance, FindBalance
      <4>4. QED
        BY <3>3, <3>4, <4>2, <4>3
    <3>5. ASSUME NEW r \in RowsOf(req[p].lot),
                 req' = [req EXCEPT ![p] = [@ EXCEPT
                   !.row = r, !.onHand = balance[r].onHand + Delta(p),
                   !.available = balance[r].onHand + Delta(p) - balance[r].reserved,
                   !.pc = "onHands"]]
          PROVE  SerialInv'
      <4>1. balance[r].onHand = moved[req[p].lot]
        BY <3>2, <3>5 DEF SerialInv, BookRows, RowsOf, Stored
      <4>2. QED
        BY <3>3, <3>5, <4>1 DEF RowsOf
    <3>6. QED
      BY <2>5, <3>4, <3>5 DEF ReadBalance, FindBalance
  <2>6. CASE ReadOnHands(p)
    <3>1. "write" \in Steps /\ req[p].pc \in Ready
      BY <2>6 DEF ReadOnHands, Steps, Ready
    <3>2. QED
      BY <2>1, <2>2, <2>6, <3>1, SerialGoto DEF ReadOnHands, table
  <2>7. CASE UpdateBalance(p)
    <3>1. AfterWrite(p) \in Steps /\ req[p].pc \in Ready
      BY <2>7 DEF UpdateBalance, AfterWrite, Steps, Ready, Writing
    <3>2. QED
      BY <2>1, <2>7, <3>1, SerialGoto DEF UpdateBalance, table
  <2>8. CASE CreateBalance(p)
    <3>1. ASSUME NEW r \in Rows, ~Stored(r), UNCHANGED <<table, settingLock, costing>>,
                 req[p].pc = "write", req[p].row = NoRow,
                 req' = [req EXCEPT ![p] = [@ EXCEPT
                           !.row = r, !.pc = AfterWrite(p)]]
          PROVE  SerialInv'
      <4> DEFINE new == [req[p] EXCEPT !.row = r, !.pc = AfterWrite(p)]
      <4>1. /\ new.lot = req[p].lot /\ new.onHand = req[p].onHand
            /\ new.row = r /\ new.kind = req[p].kind /\ new.qty = req[p].qty
        BY <1>0 DEF Request
      <4>2. req' = [req EXCEPT ![p] = new] /\ UNCHANGED <<balance, moved>>
        BY <3>1 DEF table
      <4> HIDE DEF new
      <4>3. req'[p] = new
        BY <4>2 DEF LedgerTypeOK
      <4>4. RowsOf(req[p].lot) = {} /\ req[p].onHand = moved[req[p].lot] + Delta(p)
        BY <1>0, <3>1 DEF SerialReq, Ready, Writing, RowsOf
      <4>5. SerialReq(p)'
        BY <3>1, <4>1, <4>2, <4>3, <4>4 DEF SerialReq, Delta, RowsOf, Stored
      <4>6. QED
        BY <2>1, <4>2, <4>5, SerialQuiet
    <3>2. QED
      BY <2>2, <2>8, <3>1 DEF CreateBalance
  <2>9. CASE ReadSetting(p)
    <3>1. "setting" \in Steps /\ req[p].pc \in Ready
      BY <2>9 DEF ReadSetting, Steps, Ready, Writing, Locked
    <3>2. QED
      BY <2>1, <2>9, <3>1, SerialGoto DEF ReadSetting, table
  <2>10. CASE UpsertSetting(p)
    <3>1. "commit" \in Steps /\ req[p].pc \in Ready
      BY <2>10 DEF UpsertSetting, Steps, Ready, Writing, Locked
    <3>2. QED
      BY <2>1, <2>10, <3>1, SerialGoto DEF UpsertSetting, table
  <2>11. CASE Commit(p)
    <3> DEFINE lot == req[p].lot
               row == req[p].row
    <3>1. /\ lot \in LotIds /\ row \in Rows /\ req[p].pc = "commit"
          /\ Delta(p) \in Int
      BY <1>0, <2>11, DeltaType
      DEF Commit, SafetyInv, RequestSafe, Locked, Request
    <3>2. /\ req[p].onHand = moved[lot] + Delta(p)
          /\ RowsOf(lot) # {} => row \in RowsOf(lot)
          /\ RowsOf(lot) = {} => ~Stored(row)
      BY <1>0, <3>1 DEF SerialReq, Ready, Writing, Locked
    <3>3. /\ moved' = [moved EXCEPT ![lot] = moved[lot] + Delta(p)]
          /\ balance'[row].lot = lot
          /\ balance'[row].onHand = req[p].onHand
          /\ \A r \in Rows \ {row} : balance'[r] = balance[r]
      BY <2>11, <3>1 DEF Commit, LedgerTypeOK, Row
    <3>4. moved'[lot] = req[p].onHand /\ \A l \in LotIds \ {lot} : moved'[l] = moved[l]
      BY <3>1, <3>2, <3>3 DEF LedgerTypeOK
    <3>5. \A r \in Rows \ {row} : balance[r].lot # lot
      BY <3>1, <3>2 DEF SerialInv, BookRows, OneRowPerLotId, RowsOf, Stored
    <3>6. balance[row].lot = lot \/ balance[row].lot = Unused
      BY <3>2 DEF RowsOf, Stored
    <3>7. BookRows'
      <4>1. ASSUME NEW r \in Rows, Stored(r)'
            PROVE  balance'[r].onHand = moved'[balance'[r].lot]
        <5>1. CASE r = row
          BY <5>1, <3>3, <3>4
        <5>2. CASE r # row
          <6>1. balance'[r] = balance[r] /\ Stored(r) /\ balance[r].lot # lot
            BY <4>1, <5>2, <3>3, <3>5 DEF Stored
          <6>2. balance[r].lot \in LotIds
            BY <6>1 DEF Stored, LedgerTypeOK, Row
          <6>3. QED
            BY <6>1, <6>2, <3>4 DEF SerialInv, BookRows
        <5>3. QED
          BY <5>1, <5>2
      <4>2. ASSUME NEW l \in LotIds, RowsOf(l)' = {}
            PROVE  moved'[l] = 0
        <5>1. l # lot
          BY <4>2, <3>1, <3>3 DEF RowsOf
        <5>2. RowsOf(l) = {}
          BY <4>2, <5>1, <3>3, <3>6 DEF RowsOf
        <5>3. QED
          BY <5>1, <5>2, <3>4 DEF SerialInv, BookRows
      <4>3. OneRowPerLotId'
        <5>1. SUFFICES ASSUME NEW r \in Rows, NEW s \in Rows,
                              Stored(r)', balance'[s].lot = balance'[r].lot
                       PROVE  r = s
          BY DEF OneRowPerLotId
        <5>2. CASE r # row /\ s # row
          BY <5>1, <5>2, <3>3 DEF SerialInv, BookRows, OneRowPerLotId, Stored
        <5>3. CASE r = row \/ s = row
          BY <5>1, <5>3, <3>3, <3>5
        <5>4. QED
          BY <5>2, <5>3
      <4>4. QED
        BY <4>1, <4>2, <4>3 DEF BookRows
    <3>8. /\ req'[p].pc = "committed"
          /\ \A q \in Requests \ {p} : req'[q] = req[q]
      BY <2>11 DEF Commit, Finish, IdleRequest, LedgerTypeOK
    <3>9. \A q \in Requests : ~Active(q)' /\ SerialReq(q)'
      BY <2>1, <3>8 DEF Active, Finished, SerialReq, Ready, Writing, Locked
    <3>10. QED
      BY <3>7, <3>9 DEF SerialInv, OneActive
  <2>12. QED
    BY <1>3, <2>2, <2>3, <2>4, <2>5, <2>6, <2>7, <2>8, <2>9, <2>10, <2>11
    DEF Step, Fail
<1>4. QED
  BY <1>1, <1>2, <1>3 DEF SerialNext

LEMMA SerialStart == Init => LedgerTypeOK /\ SafetyInv /\ SerialInv
<1>1. Init => LedgerTypeOK
  BY DEF Init, LedgerTypeOK, NewRow, Row, IdleRequest, Request, Steps, Kinds
<1>2. Init => SafetyInv
  BY DEF Init, SafetyInv, NewRow, RowSafe, IdleRequest, RequestSafe, Finished,
     Locked, Writing
<1>3. Init => SerialInv
  BY DEF Init, SerialInv, BookRows, OneRowPerLotId, OneActive, SerialReq, Ready,
     Writing, Locked, Active, Finished, Stored, RowsOf, NewRow, IdleRequest
<1>4. QED
  BY <1>1, <1>2, <1>3

LEMMA SerialInvariant == SerialSpec => [](LedgerTypeOK /\ SafetyInv /\ SerialInv)
<1>1. LedgerTypeOK /\ SafetyInv /\ SerialInv /\ [SerialNext]_vars
        => (LedgerTypeOK /\ SafetyInv /\ SerialInv)'
  BY StepType, StepSafe, StepSerial, SerialStepIsStep
<1>2. QED
  BY <1>1, SerialStart, PTL DEF SerialSpec

LEMMA BookRowsAgree ==
    ASSUME BookRows
    PROVE  BalanceIsLedger
<1>1. SUFFICES ASSUME NEW l \in LotIds
               PROVE  OnHandOf(l) = moved[l]
  BY DEF BalanceIsLedger
<1>2. CASE RowsOf(l) = {}
  BY <1>2 DEF BookRows, OnHandOf
<1>3. CASE RowsOf(l) # {}
  <2>1. (CHOOSE r \in RowsOf(l) : TRUE) \in RowsOf(l)
    BY <1>3
  <2>2. QED
    BY <1>3, <2>1 DEF BookRows, OnHandOf, RowsOf, Stored
<1>4. QED
  BY <1>2, <1>3

(* Served one at a time, the requests keep every balance equal to the sum  *)
(* of its movements.                                                       *)
THEOREM SerialBalanceIsLedger == SerialSpec => []BalanceIsLedger
<1>1. SerialInv => BalanceIsLedger
  BY BookRowsAgree DEF SerialInv
<1>2. QED
  BY <1>1, SerialInvariant, PTL

(* ... and, one at a time, they never take more than the ledger holds: the *)
(* check of a decrease is overtaken only by a request that runs beside it. *)
THEOREM SerialLedgerIsNotOverdrawn == SerialSpec => []LedgerNeverOverdrawn
<1>1. ASSUME LedgerTypeOK, SafetyInv, SerialInv
      PROVE  LedgerNeverOverdrawn
  <2>1. SUFFICES ASSUME NEW l \in LotIds PROVE moved[l] >= 0
    BY DEF LedgerNeverOverdrawn
  <2>2. CASE RowsOf(l) = {}
    BY <1>1, <2>2 DEF SerialInv, BookRows
  <2>3. ASSUME NEW r \in RowsOf(l)
        PROVE  moved[l] >= 0
    <3>1. r \in Rows /\ Stored(r) /\ balance[r].lot = l
      BY <2>1, <2>3 DEF RowsOf, Stored
    <3>2. balance[r].onHand = moved[l]
      BY <1>1, <3>1 DEF SerialInv, BookRows
    <3>3. RowSafe(balance[r]) /\ balance[r] \in Row
      BY <1>1, <3>1 DEF SafetyInv, LedgerTypeOK
    <3>4. QED
      BY <3>1, <3>2, <3>3 DEF RowSafe, Row, Stored
  <2>4. QED
    BY <2>2, <2>3
<1>2. QED
  BY <1>1, SerialInvariant, PTL

(* ... and stock without a lot, which the unique key does not cover, has   *)
(* one row as well.                                                        *)
THEOREM SerialLotsHaveOneRow == SerialSpec => []OneRowPerLotId
<1>1. SerialInv => OneRowPerLotId
  BY DEF SerialInv, BookRows
<1>2. QED
  BY <1>1, SerialInvariant, PTL

-----------------------------------------------------------------------------
(* Refinement: the serial ledger implements the stock book.                *)

LEMMA BookInit == Init => Book!Init
<1>1. Init => BookRows
  BY SerialStart DEF SerialInv
<1>2. Init => moved = [l \in LotIds |-> 0]
  BY DEF Init
<1>3. Init => [l \in LotIds |-> OnHandOf(l)] = [l \in LotIds |-> 0]
  BY <1>1, <1>2, BookRowsAgree DEF BalanceIsLedger
<1>4. QED
  BY <1>2, <1>3 DEF Book!Init

(* Where both are right, the balances read as the movement log does. *)
LEMMA StockIsMoved ==
    ASSUME LedgerTypeOK, BookRows
    PROVE  [l \in LotIds |-> OnHandOf(l)] = moved
BY BookRowsAgree DEF LedgerTypeOK, BalanceIsLedger

LEMMA StockIsMovedNext ==
    ASSUME LedgerTypeOK', BookRows'
    PROVE  [l \in LotIds |-> OnHandOf(l)]' = moved'
<1>1. BalanceIsLedger'
  <2>1. SUFFICES ASSUME NEW l \in LotIds
                 PROVE  OnHandOf(l)' = moved'[l]
    BY DEF BalanceIsLedger
  <2>2. CASE RowsOf(l)' = {}
    BY <2>2 DEF BookRows, OnHandOf
  <2>3. CASE RowsOf(l)' # {}
    <3>1. (CHOOSE r \in RowsOf(l)' : TRUE) \in RowsOf(l)'
      BY <2>3
    <3>2. QED
      BY <2>3, <3>1 DEF BookRows, OnHandOf, RowsOf, Stored
  <2>4. QED
    BY <2>2, <2>3
<1>2. QED
  BY <1>1 DEF LedgerTypeOK, BalanceIsLedger

(* A step that commits nothing is a stutter of the book. *)
LEMMA TablesChangeOnCommit ==
    ASSUME NEW p \in Requests, Begin(p) \/ Step(p) \/ Fail(p)
    PROVE  Commit(p) \/ UNCHANGED <<balance, moved>>
BY DEF Begin, Step, Fail, CheckMoney, ResolveLot, ReadBalance, ReadOnHands,
   UpdateBalance, CreateBalance, ReadSetting, UpsertSetting, Rollback, table

LEMMA CommitPosts ==
    ASSUME LedgerTypeOK, SafetyInv, SerialInv, NEW p \in Requests, Commit(p),
           LedgerTypeOK', SerialInv'
    PROVE  Book!Next
<1> DEFINE lot == req[p].lot
           q   == req[p].qty
<1>1. lot \in LotIds /\ q \in Quantities /\ req[p].pc = "commit"
  BY DEF Commit, LedgerTypeOK, Request, SafetyInv, RequestSafe, Finished
<1>2. req[p].onHand >= 0 /\ req[p].onHand = moved[lot] + Delta(p)
  BY <1>1 DEF SafetyInv, RequestSafe, SerialInv, SerialReq, Ready, Writing, Locked
<1>3. Delta(p) \in {q, -q}
  BY DEF Delta
<1>4. moved' = [moved EXCEPT ![lot] = moved[lot] + Delta(p)]
  BY DEF Commit
<1>5. /\ [l \in LotIds |-> OnHandOf(l)] = moved
      /\ [l \in LotIds |-> OnHandOf(l)]' = moved'
  BY StockIsMoved, StockIsMovedNext DEF SerialInv
<1>6. Book!Post(lot, Delta(p))
  BY <1>1, <1>2, <1>4, <1>5 DEF Book!Post
<1>7. QED
  BY <1>1, <1>3, <1>6 DEF Book!Next

(* The serial ledger is a stock book: each commit posts its quantity to    *)
(* balance and movement log at once, and never below zero.                 *)
THEOREM SerialLedgerIsStockBook == SerialSpec => ImplementsBook
<1> DEFINE Inv == LedgerTypeOK /\ SafetyInv /\ SerialInv
           stock == [l \in LotIds |-> OnHandOf(l)]
<1>1. Inv /\ Inv' /\ [SerialNext]_vars => [Book!Next]_<<stock, moved>>
  <2>1. SUFFICES ASSUME Inv, Inv', [SerialNext]_vars
                 PROVE  Book!Next \/ (stock' = stock /\ moved' = moved)
    OBVIOUS
  <2>2. CASE \E p \in Requests : Commit(p)
    BY <2>1, <2>2, CommitPosts
  <2>3. CASE UNCHANGED <<balance, moved>>
    BY <2>1, <2>3, StockIsMoved, StockIsMovedNext DEF SerialInv
  <2>4. CASE UNCHANGED vars \/ ByHand
    BY <2>3, <2>4, ByHandQuiet DEF vars, table
  <2>5. QED
    BY <2>1, <2>2, <2>3, <2>4, TablesChangeOnCommit DEF SerialNext
<1>2. Init => Book!Init
  BY BookInit
<1>3. QED
  BY <1>1, <1>2, SerialInvariant, PTL DEF SerialSpec, ImplementsBook, Book!Spec, Book!vars
-----------------------------------------------------------------------------
(* A lot has one row.  A request that has found a row found one of its     *)
(* lot, and a row keeps its lot; a request that is creating one holds the  *)
(* row's lock, is the only one to create for its lot, and there is no row  *)
(* of the lot as long as it does.                                          *)

KnowsRow(p) ==
    /\ req[p].pc \notin Ready => req[p].row = NoRow
    /\ req[p].pc \in {"onHands", "write"} /\ req[p].row \in Rows =>
          balance[req[p].row].lot = req[p].lot
    /\ req[p].pc \in Locked =>
          /\ req[p].row \in Rows
          /\ rowLock[req[p].row] = p
          /\ Stored(req[p].row) => balance[req[p].row].lot = req[p].lot

CreatesFor(p, l) == Creating(p) /\ req[p].lot = l

LotInv ==
    /\ OneRowPerLot
    /\ \A p \in Requests : KnowsRow(p)
    /\ \A p \in Requests, l \in Lots : CreatesFor(p, l) => RowsOf(l) = {}
    /\ \A p, q \in Requests, l \in Lots : CreatesFor(p, l) /\ CreatesFor(q, l) => p = q

(* A step of p that leaves the rows and the locks of others alone, and     *)
(* does not begin to create a row.                                         *)
LEMMA LotQuiet ==
    ASSUME LedgerTypeOK, LotInv, NEW p \in Requests,
           NEW new \in Request, req' = [req EXCEPT ![p] = new], balance' = balance,
           \A r \in Rows : rowLock[r] \in Requests \ {p} => rowLock'[r] = rowLock[r],
           \A l \in Lots : CreatesFor(p, l)' => CreatesFor(p, l),
           KnowsRow(p)'
    PROVE  LotInv'
<1>1. /\ req'[p] = new
      /\ \A q \in Requests \ {p} : req'[q] = req[q]
  BY DEF LedgerTypeOK
<1>2. OneRowPerLot'
  BY DEF LotInv, OneRowPerLot
<1>3. \A q \in Requests \ {p} : KnowsRow(q)'
  <2>1. SUFFICES ASSUME NEW q \in Requests \ {p}
                 PROVE  KnowsRow(q)'
    OBVIOUS
  <2>2. KnowsRow(q) /\ req'[q] = req[q]
    BY <1>1 DEF LotInv
  <2>3. QED
    BY <2>2 DEF KnowsRow, Stored
<1>4. \A q \in Requests, l \in Lots : CreatesFor(q, l)' => CreatesFor(q, l)
  BY <1>1 DEF CreatesFor, Creating, Stored
<1>5. \A l \in Lots : RowsOf(l)' = RowsOf(l)
  BY DEF RowsOf
<1>6. (\A q \in Requests, l \in Lots : CreatesFor(q, l) => RowsOf(l) = {})'
  BY <1>4, <1>5 DEF LotInv
<1>7. (\A q, s \in Requests, l \in Lots : CreatesFor(q, l) /\ CreatesFor(s, l) => q = s)'
  BY <1>4 DEF LotInv
<1>8. QED
  BY <1>2, <1>3, <1>6, <1>7 DEF LotInv

LEMMA LotRollback ==
    ASSUME LedgerTypeOK, LotInv, NEW p \in Requests, Rollback(p)
    PROVE  LotInv'
<1> DEFINE new == [IdleRequest EXCEPT !.pc = "aborted"]
<1>1. new \in Request /\ new.pc = "aborted" /\ new.row = NoRow
  BY DEF IdleRequest, Request, Steps, Finished, Kinds
<1>2. req' = [req EXCEPT ![p] = new] /\ balance' = balance
  BY DEF Rollback, Finish, table
<1>3. \A r \in Rows : rowLock[r] \in Requests \ {p} => rowLock'[r] = rowLock[r]
  BY DEF Rollback
<1>4. KnowsRow(p)' /\ \A l \in Lots : ~CreatesFor(p, l)'
  <2> HIDE DEF new
  <2>1. req'[p] = new
    BY <1>2 DEF LedgerTypeOK
  <2>2. QED
    BY <1>1, <2>1 DEF KnowsRow, Ready, Writing, Locked, CreatesFor, Creating
<1>5. QED
  <2> HIDE DEF new
  <2>1. QED
    BY <1>1, <1>2, <1>3, <1>4, LotQuiet

(* A step of p that only moves its program counter. *)
LEMMA LotGoto ==
    ASSUME LedgerTypeOK, LotInv, NEW p \in Requests, NEW s \in Steps,
           Goto(p, s), balance' = balance, KnowsRow(p)',
           \A r \in Rows : rowLock[r] \in Requests \ {p} => rowLock'[r] = rowLock[r]
    PROVE  LotInv'
<1> DEFINE new == [req[p] EXCEPT !.pc = s]
<1>1. new \in Request /\ new.row = req[p].row /\ new.lot = req[p].lot
  BY DEF LedgerTypeOK, Request
<1>2. req' = [req EXCEPT ![p] = new]
  BY DEF Goto
<1>3. \A l \in Lots : CreatesFor(p, l)' => CreatesFor(p, l)
  <2> HIDE DEF new
  <2>1. req'[p] = new
    BY <1>2 DEF LedgerTypeOK
  <2>2. QED
    BY <1>1, <2>1 DEF CreatesFor, Creating, Stored
<1>4. QED
  <2> HIDE DEF new
  <2>1. QED
    BY <1>1, <1>2, <1>3, LotQuiet

(* COMMIT writes a row of the request's lot: one it found, or one it is    *)
(* alone to create, and the lot has no other.                              *)
LEMMA CommitLot ==
    ASSUME LedgerTypeOK, LotInv, NEW p \in Requests, Commit(p)
    PROVE  LotInv'
<1> DEFINE row == req[p].row
           lot == req[p].lot
<1>1. /\ row \in Rows /\ rowLock[row] = p /\ lot \in LotIds
      /\ Stored(row) => balance[row].lot = lot
  BY DEF Commit, LotInv, KnowsRow, Locked, LedgerTypeOK, Request
<1>2. /\ balance'[row].lot = lot
      /\ \A r \in Rows \ {row} : balance'[r] = balance[r]
  BY <1>1 DEF Commit, LedgerTypeOK, Row
<1>3. \A r \in Rows : Stored(r) => Stored(r)' /\ balance'[r].lot = balance[r].lot
  BY <1>1, <1>2 DEF Stored
<1>4. /\ req'[p].pc = "committed" /\ req'[p].row = NoRow
      /\ \A q \in Requests \ {p} : req'[q] = req[q]
  BY DEF Commit, Finish, LedgerTypeOK, IdleRequest
<1>5. \A r \in Rows \ {row} : rowLock'[r] = rowLock[r]
  BY DEF Commit, LedgerTypeOK
<1>6. \A q \in Requests \ {p}, l \in Lots : CreatesFor(q, l)' => CreatesFor(q, l)
  BY <1>3, <1>4 DEF CreatesFor, Creating
<1>7. \A l \in Lots : ~CreatesFor(p, l)'
  BY <1>4 DEF CreatesFor, Creating
<1>8. ~Stored(row) /\ lot \in Lots => RowsOf(lot) = {}
  BY <1>1 DEF LotInv, CreatesFor, Creating
<1>9. ASSUME NEW l \in Lots, NEW q \in Requests \ {p}, CreatesFor(q, l)
      PROVE  l # lot
  BY <1>1, <1>9 DEF LotInv, CreatesFor, Creating, Stored, RowsOf
<1>10. OneRowPerLot'
  <2>1. SUFFICES ASSUME NEW r \in Rows, NEW s \in Rows, balance'[r].lot \in Lots,
                        balance'[s].lot = balance'[r].lot
                 PROVE  r = s
    BY DEF OneRowPerLot
  <2>2. CASE Stored(row)
    BY <1>1, <1>2, <2>1, <2>2 DEF LotInv, OneRowPerLot
  <2>3. CASE ~Stored(row)
    BY <1>2, <1>8, <2>1, <2>3 DEF LotInv, OneRowPerLot, RowsOf
  <2>4. QED
    BY <2>2, <2>3
<1>11. \A q \in Requests : KnowsRow(q)'
  <2>1. KnowsRow(p)'
    BY <1>4 DEF KnowsRow, Ready, Writing, Locked
  <2>2. ASSUME NEW q \in Requests \ {p}
        PROVE  KnowsRow(q)'
    <3>1. KnowsRow(q) /\ req'[q] = req[q] /\ req[q] \in Request
      BY <1>4 DEF LotInv, LedgerTypeOK
    <3>2. CASE req[q].pc \in Locked
      <4>1. req[q].row \in Rows \ {row}
        BY <1>1, <3>1, <3>2 DEF KnowsRow
      <4>2. balance'[req[q].row] = balance[req[q].row] /\ rowLock'[req[q].row] = q
        BY <1>2, <1>5, <3>1, <3>2, <4>1 DEF KnowsRow
      <4>3. QED
        BY <3>1, <3>2, <4>1, <4>2 DEF KnowsRow, Ready, Writing, Locked, Stored
    <3>3. CASE req[q].pc \in {"onHands", "write"}
      <4>1. req[q].row \in Rows => Stored(req[q].row)
        BY <3>1, <3>3 DEF KnowsRow, Stored, Request
      <4>2. QED
        BY <1>3, <3>1, <3>3, <4>1 DEF KnowsRow, Ready, Writing, Locked
    <3>4. CASE req[q].pc \notin Ready
      BY <3>1, <3>4 DEF KnowsRow, Ready, Writing
    <3>5. QED
      BY <3>2, <3>3, <3>4 DEF Ready, Writing
  <2>3. QED
    BY <2>1, <2>2
<1>12. (\A q \in Requests, l \in Lots : CreatesFor(q, l) => RowsOf(l) = {})'
  <2>1. SUFFICES ASSUME NEW q \in Requests, NEW l \in Lots, CreatesFor(q, l)'
                 PROVE  RowsOf(l)' = {}
    OBVIOUS
  <2>2. q # p /\ CreatesFor(q, l) /\ RowsOf(l) = {} /\ l # lot
    BY <1>6, <1>7, <1>9, <2>1 DEF LotInv
  <2>3. QED
    BY <1>2, <2>2 DEF RowsOf
<1>13. (\A q, s \in Requests, l \in Lots : CreatesFor(q, l) /\ CreatesFor(s, l) => q = s)'
  BY <1>6, <1>7 DEF LotInv
<1>14. QED
  BY <1>10, <1>11, <1>12, <1>13 DEF LotInv

LEMMA StepLot ==
    ASSUME LedgerTypeOK, LotInv, [Next]_vars
    PROVE  LotInv'
<1>0. \A q \in Requests : req[q] \in Request /\ KnowsRow(q)
  BY DEF LedgerTypeOK, LotInv
<1>1. CASE UNCHANGED vars \/ ByHand
  BY <1>1, ByHandQuiet DEF LotInv, OneRowPerLot, KnowsRow, Stored, CreatesFor, Creating, RowsOf,
       vars, table, locks
<1>2. ASSUME NEW p \in Requests, Begin(p)
      PROVE  LotInv'
  <2>1. PICK k \in Kinds, l \in LotIds, q \in Quantities :
          req' = [req EXCEPT ![p] = [@ EXCEPT
                    !.kind = k, !.lot = l, !.qty = q,
                    !.pc = IF k = "opening" THEN "balance" ELSE "money"]]
    BY <1>2 DEF Begin
  <2> DEFINE new == [req[p] EXCEPT !.kind = k, !.lot = l, !.qty = q,
                       !.pc = IF k = "opening" THEN "balance" ELSE "money"]
  <2>2. new \in Request
    BY InputUpdate DEF LedgerTypeOK, Steps
  <2>3. new.row = NoRow /\ new.pc \in {"balance", "money"}
    BY <1>0, <1>2 DEF Begin, Request, KnowsRow, Ready, Writing, Locked
  <2>4. req' = [req EXCEPT ![p] = new]
    BY <2>1
  <2> HIDE DEF new
  <2>5. req'[p] = new
    BY <2>4 DEF LedgerTypeOK
  <2>6. KnowsRow(p)' /\ \A m \in Lots : ~CreatesFor(p, m)'
    BY <2>3, <2>5 DEF KnowsRow, Ready, Writing, Locked, CreatesFor, Creating
  <2>7. QED
    BY <1>2, <2>2, <2>4, <2>6, LotQuiet DEF Begin, table, locks
<1>3. ASSUME NEW p \in Requests, CheckMoney(p)
      PROVE  LotInv'
  <2>1. ASSUME NEW s \in {"resolve", "balance"}, Goto(p, s), UNCHANGED <<table, locks>>
        PROVE  LotInv'
    <3>1. req'[p].pc = s /\ req'[p].row = NoRow
      BY <1>0, <1>3, <2>1 DEF CheckMoney, Goto, LedgerTypeOK, Request, KnowsRow, Ready,
           Writing, Locked
    <3>2. KnowsRow(p)'
      BY <3>1 DEF KnowsRow, Ready, Writing, Locked
    <3>3. QED
      BY <2>1, <3>2, LotGoto DEF Steps, table, locks
  <2>2. QED
    BY <1>3, <2>1, LotRollback DEF CheckMoney
<1>4. ASSUME NEW p \in Requests, ResolveLot(p)
      PROVE  LotInv'
  <2>1. CASE Goto(p, "balance") /\ UNCHANGED <<table, locks>>
    <3>1. req'[p].pc = "balance" /\ req'[p].row = NoRow
      BY <1>0, <1>4, <2>1 DEF ResolveLot, Goto, LedgerTypeOK, Request, KnowsRow, Ready,
           Writing, Locked
    <3>2. KnowsRow(p)'
      BY <3>1 DEF KnowsRow, Ready, Writing, Locked
    <3>3. QED
      BY <2>1, <3>2, LotGoto DEF Steps, table, locks
  <2>2. ASSUME NEW r \in Rows, Stored(r), UNCHANGED <<table, locks>>,
               req' = [req EXCEPT ![p] = [@ EXCEPT
                         !.lot = balance[r].lot, !.pc = "balance"]]
        PROVE  LotInv'
    <3> DEFINE new == [req[p] EXCEPT !.lot = balance[r].lot, !.pc = "balance"]
    <3>1. balance[r].lot \in LotIds
      BY <2>2 DEF Stored, LedgerTypeOK, Row
    <3>2. new \in Request
      BY <3>1, LotUpdate DEF LedgerTypeOK, Steps
    <3>3. new.row = NoRow /\ new.pc = "balance"
      BY <1>0, <1>4 DEF ResolveLot, Request, KnowsRow, Ready, Writing, Locked
    <3>4. req' = [req EXCEPT ![p] = new]
      BY <2>2
    <3> HIDE DEF new
    <3>5. req'[p] = new
      BY <3>4 DEF LedgerTypeOK
    <3>6. KnowsRow(p)' /\ \A m \in Lots : ~CreatesFor(p, m)'
      BY <3>3, <3>5 DEF KnowsRow, Ready, Writing, Locked, CreatesFor, Creating
    <3>7. QED
      BY <2>2, <3>2, <3>4, <3>6, LotQuiet DEF table, locks
  <2>3. QED
    BY <1>4, <2>1, <2>2, LotRollback DEF ResolveLot, FirstExpired, InStock
<1>5. ASSUME NEW p \in Requests, ReadBalance(p)
      PROVE  LotInv'
  <2>1. ASSUME NEW b \in Rows \cup {NoRow}, NEW n \in Int, NEW a \in Int,
               b \in Rows => balance[b].lot = req[p].lot,
               req' = [req EXCEPT ![p] = [@ EXCEPT
                         !.row = b, !.onHand = n, !.available = a, !.pc = "onHands"]]
        PROVE  LotInv'
    <3> DEFINE new == [req[p] EXCEPT !.row = b, !.onHand = n, !.available = a,
                                     !.pc = "onHands"]
    <3>1. new \in Request
      BY ReadUpdate DEF LedgerTypeOK, Steps
    <3>2. new.row = b /\ new.pc = "onHands" /\ new.lot = req[p].lot
      BY <1>0 DEF Request
    <3>3. req' = [req EXCEPT ![p] = new]
      BY <2>1
    <3> HIDE DEF new
    <3>4. req'[p] = new
      BY <3>3 DEF LedgerTypeOK
    <3>5. UNCHANGED <<balance, rowLock>>
      BY <1>5 DEF ReadBalance, table, locks
    <3>6. KnowsRow(p)'
      BY <2>1, <3>2, <3>4, <3>5 DEF KnowsRow, Ready, Writing, Locked
    <3>7. \A m \in Lots : ~CreatesFor(p, m)'
      BY <2>1, <3>2, <3>4, <3>5 DEF CreatesFor, Creating, Stored
    <3>8. QED
      BY <3>1, <3>3, <3>5, <3>6, <3>7, LotQuiet
  <2>2. Delta(p) \in Int
    BY DeltaType
  <2>3. CASE FindBalance(req[p].lot) = {}
    BY <1>5, <2>1, <2>2, <2>3 DEF ReadBalance
  <2>4. ASSUME NEW r \in FindBalance(req[p].lot),
               req' = [req EXCEPT ![p] = [@ EXCEPT
                 !.row = r, !.onHand = balance[r].onHand + Delta(p),
                 !.available = balance[r].onHand + Delta(p) - balance[r].reserved,
                 !.pc = "onHands"]]
        PROVE  LotInv'
    <3>1. r \in Rows /\ balance[r].lot = req[p].lot
      BY DEF FindBalance, RowsOf
    <3>2. /\ balance[r].onHand + Delta(p) \in Int
          /\ balance[r].onHand + Delta(p) - balance[r].reserved \in Int
      BY <2>2, <3>1 DEF LedgerTypeOK, Row
    <3>3. QED
      BY <2>1, <2>4, <3>1, <3>2
  <2>5. QED
    BY <1>5, <2>3, <2>4 DEF ReadBalance
<1>6. ASSUME NEW p \in Requests, ReadOnHands(p)
      PROVE  LotInv'
  <2>1. CASE ~Overdraws(p)
    <3>1. /\ req'[p].pc = "write" /\ req'[p].row = req[p].row
          /\ req'[p].lot = req[p].lot
      BY <1>0, <1>6, <2>1 DEF ReadOnHands, Goto, LedgerTypeOK, Request
    <3>2. UNCHANGED <<balance, rowLock>>
      BY <1>6, <2>1 DEF ReadOnHands, table, locks
    <3>3. KnowsRow(p)'
      BY <1>0, <1>6, <3>1, <3>2 DEF ReadOnHands, KnowsRow, Ready, Writing, Locked
    <3>4. QED
      BY <1>6, <2>1, <3>2, <3>3, LotGoto DEF ReadOnHands, Steps
  <2>2. QED
    BY <1>6, <2>1, LotRollback DEF ReadOnHands
<1>7. ASSUME NEW p \in Requests, UpdateBalance(p)
      PROVE  LotInv'
  <2>1. AfterWrite(p) \in {"price", "commit"}
    BY DEF AfterWrite
  <2>2. /\ req'[p].pc = AfterWrite(p) /\ req'[p].row = req[p].row
        /\ req'[p].lot = req[p].lot
    BY <1>0, <1>7 DEF UpdateBalance, Goto, LedgerTypeOK, Request
  <2>3. req[p].row \in Rows /\ balance[req[p].row].lot = req[p].lot
    BY <1>0, <1>7 DEF UpdateBalance, Request, KnowsRow
  <2>4. balance' = balance /\ rowLock'[req[p].row] = p
    BY <1>7, <2>3 DEF UpdateBalance, table, LedgerTypeOK
  <2>5. KnowsRow(p)'
    BY <2>1, <2>2, <2>3, <2>4 DEF KnowsRow, Ready, Writing, Locked
  <2>6. \A r \in Rows : rowLock[r] \in Requests \ {p} => rowLock'[r] = rowLock[r]
    BY <1>7 DEF UpdateBalance, LedgerTypeOK
  <2>7. QED
    BY <1>7, <2>1, <2>4, <2>5, <2>6, LotGoto DEF UpdateBalance, Steps
<1>8. ASSUME NEW p \in Requests, CreateBalance(p)
      PROVE  LotInv'
  <2>1. ASSUME NEW r \in Rows, ~Stored(r), rowLock[r] = NoRequest,
               ~DuplicateLot(req[p].lot), ~InsertPending(req[p].lot),
               rowLock' = [rowLock EXCEPT ![r] = p], UNCHANGED table,
               req' = [req EXCEPT ![p] = [@ EXCEPT !.row = r, !.pc = AfterWrite(p)]]
        PROVE  LotInv'
    <3> DEFINE new == [req[p] EXCEPT !.row = r, !.pc = AfterWrite(p)]
    <3>1. AfterWrite(p) \in {"price", "commit"}
      BY DEF AfterWrite
    <3>2. new.row = r /\ new.pc = AfterWrite(p) /\ new.lot = req[p].lot
      BY <1>0 DEF Request
    <3>3. req' = [req EXCEPT ![p] = new]
      BY <2>1
    <3> HIDE DEF new
    <3>4. req'[p] = new /\ \A q \in Requests \ {p} : req'[q] = req[q]
      BY <3>3 DEF LedgerTypeOK
    <3>5. balance' = balance
      BY <2>1 DEF table
    <3>6. rowLock'[r] = p /\ \A s \in Rows \ {r} : rowLock'[s] = rowLock[s]
      BY <2>1 DEF LedgerTypeOK
    <3>7. KnowsRow(p)'
      BY <2>1, <3>1, <3>2, <3>4, <3>5, <3>6 DEF KnowsRow, Ready, Writing, Locked, Stored
    <3>8. \A q \in Requests \ {p} : KnowsRow(q)'
      <4>1. SUFFICES ASSUME NEW q \in Requests \ {p}
                     PROVE  KnowsRow(q)'
        OBVIOUS
      <4>2. KnowsRow(q) /\ req'[q] = req[q]
        BY <1>0, <3>4
      <4>3. q # NoRequest
        OBVIOUS
      <4>4. QED
        BY <2>1, <3>5, <3>6, <4>2, <4>3 DEF KnowsRow, Stored
    <3>9. \A q \in Requests \ {p}, l \in Lots : CreatesFor(q, l)' => CreatesFor(q, l)
      BY <3>4, <3>5 DEF CreatesFor, Creating, Stored
    <3>10. \A l \in Lots : CreatesFor(p, l)' =>
              RowsOf(l) = {} /\ \A q \in Requests : ~CreatesFor(q, l)
      BY <2>1, <3>2, <3>4 DEF CreatesFor, DuplicateLot, InsertPending
    <3>11. \A l \in Lots : RowsOf(l)' = RowsOf(l)
      BY <3>5 DEF RowsOf
    <3>12. OneRowPerLot'
      BY <3>5 DEF LotInv, OneRowPerLot
    <3>13. (\A q \in Requests, l \in Lots : CreatesFor(q, l) => RowsOf(l) = {})'
      BY <3>9, <3>10, <3>11 DEF LotInv
    <3>14. (\A q, s \in Requests, l \in Lots : CreatesFor(q, l) /\ CreatesFor(s, l) => q = s)'
      BY <3>9, <3>10 DEF LotInv
    <3>15. QED
      BY <3>7, <3>8, <3>12, <3>13, <3>14 DEF LotInv
  <2>2. QED
    BY <1>8, <2>1, LotRollback DEF CreateBalance
<1>9. ASSUME NEW p \in Requests, NEW s \in {"setting", "commit"}, Goto(p, s),
             req[p].pc \in Locked, UNCHANGED <<balance, rowLock>>
      PROVE  LotInv'
  <2>1. /\ req'[p].pc = s /\ req'[p].row = req[p].row
        /\ req'[p].lot = req[p].lot
    BY <1>0, <1>9 DEF Goto, LedgerTypeOK, Request
  <2>2. KnowsRow(p)'
    BY <1>0, <1>9, <2>1 DEF KnowsRow, Ready, Writing, Locked, Stored
  <2>3. QED
    BY <1>9, <2>2, LotGoto DEF Steps
<1>10. ASSUME NEW p \in Requests, ReadSetting(p)
       PROVE  LotInv'
  BY <1>9, <1>10 DEF ReadSetting, Locked, table, locks
<1>11. ASSUME NEW p \in Requests, UpsertSetting(p)
       PROVE  LotInv'
  BY <1>9, <1>11 DEF UpsertSetting, Locked, table
<1>12. ASSUME NEW p \in Requests, Commit(p)
       PROVE  LotInv'
  BY <1>12, CommitLot DEF Commit
<1>13. ASSUME NEW p \in Requests, Fail(p)
       PROVE  LotInv'
  BY <1>13, LotRollback DEF Fail
<1>14. QED
  BY <1>1, <1>2, <1>3, <1>4, <1>5, <1>6, <1>7, <1>8, <1>10, <1>11, <1>12, <1>13
  DEF Next, Step

(* A lot never gets two balance rows, however its first movements overlap. *)
THEOREM LotsHaveOneRow == Spec => []OneRowPerLot
<1>1. Init => LotInv
  BY DEF Init, LotInv, OneRowPerLot, NewRow, IdleRequest, KnowsRow, Ready, Writing,
     Locked, CreatesFor, Creating
<1>2. LedgerTypeOK /\ LotInv /\ [Next]_vars => LotInv'
  BY StepLot
<1>3. LotInv => OneRowPerLot
  BY DEF LotInv
<1>4. QED
  BY <1>1, <1>2, <1>3, TypeCorrect, PTL DEF Spec
-----------------------------------------------------------------------------
(* The on-hand total of a ledger without a negative row: the fold of the   *)
(* community modules is one of the sums of FiniteSums.                     *)
LEMMA TotalIsNatural ==
    ASSUME IsFiniteSet(Rows), \A r \in Rows : balance[r].onHand \in Nat
    PROVE  OnHandTotal \in Nat
<1> DEFINE f == [r \in Rows |-> balance[r].onHand]
           P(h) == h = [s \in SUBSET Rows |->
                          IF s = {} THEN 0
                          ELSE balance[CHOOSE x \in s : TRUE].onHand
                               + h[s \ {CHOOSE x \in s : TRUE}]]
           total == CHOOSE h : P(h)
<1>1. f \in [Rows -> Nat]
  OBVIOUS
<1>2. ASSUME NEW h
      PROVE  P(h) <=> IsSum(f, h, Rows)
  <2>1. ASSUME NEW s \in SUBSET Rows
        PROVE  SumStep(f, h, s) = IF s = {} THEN 0
                                  ELSE balance[CHOOSE x \in s : TRUE].onHand
                                       + h[s \ {CHOOSE x \in s : TRUE}]
    <3>1. CASE s = {}
      BY <3>1 DEF SumStep
    <3>2. CASE s # {}
      <4>1. Any(s) \in s
        BY <3>2, AnyIsIn
      <4>2. f[Any(s)] = balance[Any(s)].onHand
        BY <4>1
      <4>3. QED
        BY <3>2, <4>2 DEF SumStep, Any
    <3>3. QED
      BY <3>1, <3>2
  <2>2. [s \in SUBSET Rows |-> SumStep(f, h, s)]
          = [s \in SUBSET Rows |->
                IF s = {} THEN 0
                ELSE balance[CHOOSE x \in s : TRUE].onHand + h[s \ {CHOOSE x \in s : TRUE}]]
    BY <2>1
  <2>3. QED
    BY <2>2 DEF IsSum
<1>3. \E h : P(h)
  <2> HIDE DEF P, f
  <2>1. QED
    BY <1>1, <1>2, SumExists
<1>4. P(total)
  <2> HIDE DEF P
  <2>1. QED
    BY <1>3
<1>5. IsSum(f, total, Rows)
  <2> HIDE DEF P, f, total
  <2>1. QED
    BY <1>2, <1>4
<1>6. OnHandTotal = total[Rows]
  BY DEF OnHandTotal, MapThenSumSet, MapThenFoldSet
<1>7. total[Rows] \in Nat
  <2> HIDE DEF f, total
  <2>1. QED
    BY <1>1, <1>5, SumIsNatural
<1>8. QED
  BY <1>6, <1>7

(* A rounded weighted mean lies between what it averages. *)
LEMMA Weighted ==
    ASSUME NEW n \in Nat, NEW q \in Nat, NEW a \in Nat, NEW b \in Nat,
           NEW c \in Nat, a <= b
    PROVE  n * a <= n * b
OBVIOUS

LEMMA Quotient ==
    ASSUME NEW v \in Nat, NEW d \in Nat \ {0}
    PROVE  /\ v \div d \in Nat
           /\ d * (v \div d) <= v
           /\ v < d * (v \div d) + d
OBVIOUS

LEMMA AverageBetween ==
    ASSUME NEW n \in Nat, NEW q \in Nat \ {0}, NEW old \in Nat, NEW cost \in Nat,
           NEW lo \in Nat, NEW hi \in Nat,
           lo <= old, lo <= cost, old <= hi, cost <= hi
    PROVE  /\ MovingAverage(n, old, q, cost) \in Nat
           /\ lo <= MovingAverage(n, old, q, cost)
           /\ MovingAverage(n, old, q, cost) <= hi
<1> DEFINE total == n + q
           value == n * old + q * cost
           average == (2 * value + total) \div (2 * total)
<1>1. total \in Nat \ {0} /\ value \in Nat
  OBVIOUS
<1>2. MovingAverage(n, old, q, cost) = average
  BY <1>1 DEF MovingAverage
<1>3. lo * total <= value /\ value <= hi * total
  <2>1. n * lo <= n * old /\ q * lo <= q * cost /\ n * old <= n * hi /\ q * cost <= q * hi
    BY Weighted
  <2>2. lo * total = n * lo + q * lo /\ hi * total = n * hi + q * hi
    OBVIOUS
  <2>3. QED
    BY <2>1, <2>2
<1> HIDE DEF total, value
<1>4. /\ average \in Nat
      /\ (2 * total) * average <= 2 * value + total
      /\ 2 * value + total < (2 * total) * average + 2 * total
  <2>1. 2 * value + total \in Nat /\ 2 * total \in Nat \ {0}
    BY <1>1
  <2>2. \A v \in Nat, d \in Nat \ {0} : /\ v \div d \in Nat
                                         /\ d * (v \div d) <= v
                                         /\ v < d * (v \div d) + d
    BY Quotient
  <2>3. QED
    BY <2>1, <2>2, Zenon
<1> HIDE DEF average
<1>5. lo <= average
  <2> SUFFICES ASSUME average + 1 <= lo PROVE FALSE
    BY <1>4
  <2>1. total * (average + 1) <= total * lo
    BY <1>1, <1>4, Weighted
  <2>2. QED
    BY <1>1, <1>3, <1>4, <2>1
<1>6. average <= hi
  <2> SUFFICES ASSUME hi + 1 <= average PROVE FALSE
    BY <1>4
  <2>1. total * (hi + 1) <= total * average
    BY <1>1, <1>4, Weighted
  <2>2. QED
    BY <1>1, <1>3, <1>4, <2>1
<1>7. QED
  BY <1>2, <1>4, <1>5, <1>6

-----------------------------------------------------------------------------
(* Costs.  A moving average lies between the cost of the stock on hand and *)
(* the incoming one, because the quantities it weighs them with are not    *)
(* negative: the on-hand total because stock is not (SafetyInv), the       *)
(* quantity because the input is positive.  A request past the money check *)
(* has a cost, and one past the setting an average within that cost and    *)
(* those paid before: its own joins them when it commits.                  *)

Within(costs, c) == (\E d \in costs : d <= c) /\ (\E d \in costs : c <= d)

CostSafe(r, c) ==
    /\ c.total \in Nat
    /\ r.pc \notin {"idle", "money"} \cup Finished => c.cost # Unpriced
    /\ r.pc = "price" => r.kind \notin Outgoing
    /\ r.pc = "setting" \/ (r.pc = "commit" /\ r.kind \notin Outgoing) =>
          c.average # Unpriced /\ Within(paid \cup {c.cost}, c.average)

CostInv ==
    /\ CostTypeOK
    /\ CostWithinPaid
    /\ \A p \in Requests : CostSafe(req[p], costing[p])

(* What a step must show: that the request that makes it stays safe. *)
LEMMA CostFromOne ==
    ASSUME LedgerTypeOK, CostInv, NEW p \in Requests, NEW r, NEW c \in Costing,
           req' = [req EXCEPT ![p] = r], costing' = [costing EXCEPT ![p] = c],
           CostSafe(r, c), UNCHANGED <<unitCost, paid>>
    PROVE  CostInv'
<1>1. CostTypeOK'
  BY DEF CostInv, CostTypeOK
<1>2. CostWithinPaid'
  BY DEF CostInv, CostWithinPaid
<1>3. \A q \in Requests : CostSafe(req'[q], costing'[q])
  <2>1. SUFFICES ASSUME NEW q \in Requests PROVE CostSafe(req'[q], costing'[q])
    OBVIOUS
  <2>2. CASE q = p
    <3>1. req'[p] = r /\ costing'[p] = c
      BY DEF LedgerTypeOK, CostInv, CostTypeOK
    <3>2. QED
      BY <2>2, <3>1
  <2>3. CASE q # p
    <3>1. req'[q] = req[q] /\ costing'[q] = costing[q]
      BY <2>3 DEF LedgerTypeOK, CostInv, CostTypeOK
    <3>2. QED
      BY <3>1 DEF CostInv
  <2>4. QED
    BY <2>2, <2>3
<1>4. QED
  BY <1>1, <1>2, <1>3 DEF CostInv, CostSafe, Within

(* A step that leaves the costs alone. *)
LEMMA CostUnread ==
    ASSUME LedgerTypeOK, CostInv, NEW p \in Requests, NEW r,
           req' = [req EXCEPT ![p] = r], CostSafe(r, costing[p]),
           UNCHANGED <<unitCost, paid, costing>>
    PROVE  CostInv'
<1>1. costing[p] \in Costing /\ costing' = [costing EXCEPT ![p] = costing[p]]
  BY DEF CostInv, CostTypeOK
<1>2. QED
  BY <1>1, CostFromOne

LEMMA CostGoto ==
    ASSUME LedgerTypeOK, CostInv, NEW p \in Requests, NEW s \in Steps, Goto(p, s),
           req[p].pc \notin {"idle", "money"} \cup Finished,
           s = "price" => req[p].kind \notin Outgoing,
           s # "setting",
           s = "commit" => req[p].kind \in Outgoing \/ req[p].pc = "setting",
           UNCHANGED <<unitCost, paid, costing>>
    PROVE  CostInv'
<1>1. PICK r : r = [req[p] EXCEPT !.pc = s]
  OBVIOUS
<1>2. r.pc = s /\ r.kind = req[p].kind
  BY <1>1 DEF LedgerTypeOK, Request
<1>3. CostSafe(req[p], costing[p])
  BY DEF CostInv
<1>4. CostSafe(r, costing[p])
  BY <1>2, <1>3 DEF CostSafe
<1>5. req' = [req EXCEPT ![p] = r]
  BY <1>1 DEF Goto
<1>6. QED
  BY <1>4, <1>5, CostUnread

(* What was paid only grows, and a request that was safe stays so. *)
LEMMA PaidGrows ==
    ASSUME NEW q, CostSafe(req[q], costing[q]), paid \subseteq paid',
           req'[q] = req[q], costing'[q] = costing[q]
    PROVE  CostSafe(req[q], costing[q])'
BY DEF CostSafe, Within

LEMMA NothingCosted ==
    ASSUME NEW s \in {"idle", "committed", "aborted"}
    PROVE  NoCosting \in Costing /\ CostSafe([IdleRequest EXCEPT !.pc = s], NoCosting)
BY DEF NoCosting, Costing, CostSafe, IdleRequest, Finished

LEMMA CostRollback ==
    ASSUME LedgerTypeOK, CostInv, NEW p \in Requests, Rollback(p)
    PROVE  CostInv'
<1>1. /\ req' = [req EXCEPT ![p] = [IdleRequest EXCEPT !.pc = "aborted"]]
      /\ costing' = [costing EXCEPT ![p] = NoCosting]
      /\ UNCHANGED <<unitCost, paid>>
  BY DEF Rollback, Finish, table
<1>2. NoCosting \in Costing /\ CostSafe([IdleRequest EXCEPT !.pc = "aborted"], NoCosting)
  BY NothingCosted
<1>3. QED
  BY <1>1, <1>2, CostFromOne

LEMMA CostBegin ==
    ASSUME LedgerTypeOK, CostInv, NEW p \in Requests, Begin(p)
    PROVE  CostInv'
<1>1. PICK k \in Kinds, l \in LotIds, q \in Quantities, c \in Costs \cup {Unpriced} :
        /\ k = "opening" => c # Unpriced
        /\ req' = [req EXCEPT ![p] = [@ EXCEPT
                    !.kind = k, !.lot = l, !.qty = q,
                    !.pc = IF k = "opening" THEN "balance" ELSE "money"]]
        /\ costing' = [costing EXCEPT ![p].cost = c]
  BY DEF Begin
<1>2. PICK r : r = [req[p] EXCEPT !.kind = k, !.lot = l, !.qty = q,
                      !.pc = IF k = "opening" THEN "balance" ELSE "money"]
  OBVIOUS
<1>3. PICK d : d = [costing[p] EXCEPT !.cost = c]
  OBVIOUS
<1>4. /\ r.pc \in {"balance", "money"}
      /\ r.pc = "balance" => k = "opening"
  BY <1>2 DEF LedgerTypeOK, Request
<1>5. d \in Costing /\ d.cost = c /\ d.total = costing[p].total
  BY <1>3 DEF CostInv, CostTypeOK, Costing
<1>6. CostSafe(r, d)
  BY <1>1, <1>4, <1>5 DEF CostInv, CostSafe, Finished
<1>7. req' = [req EXCEPT ![p] = r] /\ costing' = [costing EXCEPT ![p] = d]
  BY <1>1, <1>2, <1>3
<1>8. UNCHANGED <<unitCost, paid>>
  BY DEF Begin, table
<1>9. QED
  BY <1>5, <1>6, <1>7, <1>8, CostFromOne

(* A request that brings no cost of its own takes that of the setting. *)
LEMMA CostCheckMoney ==
    ASSUME LedgerTypeOK, CostInv, NEW p \in Requests, CheckMoney(p)
    PROVE  CostInv'
<1>1. CASE Rollback(p)
  BY <1>1, CostRollback
<1>2. CASE /\ unitCost # Unpriced
           /\ Goto(p, IF req[p].kind \in Outgoing /\ req[p].lot = NoLot
                      THEN "resolve" ELSE "balance")
           /\ costing' = [costing EXCEPT ![p].cost = IF @ = Unpriced THEN unitCost ELSE @]
           /\ UNCHANGED <<table, locks>>
  <2>1. PICK s \in {"resolve", "balance"} : Goto(p, s)
    BY <1>2
  <2>2. PICK r : r = [req[p] EXCEPT !.pc = s]
    OBVIOUS
  <2>3. PICK c : c = IF costing[p].cost = Unpriced THEN unitCost ELSE costing[p].cost
    OBVIOUS
  <2>4. PICK d : d = [costing[p] EXCEPT !.cost = c]
    OBVIOUS
  <2>5. r.pc = s
    BY <2>2 DEF LedgerTypeOK, Request
  <2>6. /\ unitCost \in Nat
        /\ costing[p] \in Costing /\ CostSafe(req[p], costing[p])
    BY <1>2 DEF CostInv, CostTypeOK
  <2>7. c \in Nat /\ c # Unpriced
    BY <2>3, <2>6 DEF Costing
  <2>8. d \in Costing /\ d.cost = c /\ d.total = costing[p].total
    BY <2>4, <2>6, <2>7 DEF Costing
  <2>9. CostSafe(r, d)
    BY <2>5, <2>6, <2>7, <2>8 DEF CostSafe
  <2>10. req' = [req EXCEPT ![p] = r] /\ costing' = [costing EXCEPT ![p] = d]
    BY <1>2, <2>1, <2>2, <2>3, <2>4 DEF Goto
  <2>11. UNCHANGED <<unitCost, paid>>
    BY <1>2 DEF table
  <2>12. QED
    BY <2>8, <2>9, <2>10, <2>11, CostFromOne
<1>3. QED
  BY <1>1, <1>2 DEF CheckMoney

(* The total read for the average is a natural number: no row is negative. *)
LEMMA CostReadOnHands ==
    ASSUME LedgerTypeOK, SafetyInv, CostInv, NEW p \in Requests, ReadOnHands(p)
    PROVE  CostInv'
<1>1. CASE Rollback(p)
  BY <1>1, CostRollback
<1>2. CASE /\ Goto(p, "write")
           /\ costing' = [costing EXCEPT ![p].total =
                             IF Delta(p) > 0 THEN OnHandTotal ELSE 0]
           /\ UNCHANGED <<table, locks>>
  <2>1. PICK r : r = [req[p] EXCEPT !.pc = "write"]
    OBVIOUS
  <2>2. PICK n : n = IF Delta(p) > 0 THEN OnHandTotal ELSE 0
    OBVIOUS
  <2>3. PICK d : d = [costing[p] EXCEPT !.total = n]
    OBVIOUS
  <2>4. n \in Nat
    <3>1. \A x \in Rows : balance[x].onHand \in Nat
      BY DEF SafetyInv, RowSafe, LedgerTypeOK, Row
    <3>2. OnHandTotal \in Nat
      BY <3>1, TotalIsNatural
    <3>3. QED
      BY <2>2, <3>2
  <2>5. costing[p] \in Costing /\ CostSafe(req[p], costing[p])
    BY DEF CostInv, CostTypeOK
  <2>6. d \in Costing /\ d.cost = costing[p].cost /\ d.total = n
    BY <2>3, <2>4, <2>5 DEF Costing
  <2>7. r.pc = "write" /\ req[p].pc = "onHands"
    BY <2>1 DEF ReadOnHands, LedgerTypeOK, Request
  <2>8. CostSafe(r, d)
    BY <2>4, <2>5, <2>6, <2>7 DEF CostSafe, Finished
  <2>9. req' = [req EXCEPT ![p] = r] /\ costing' = [costing EXCEPT ![p] = d]
    BY <1>2, <2>1, <2>2, <2>3 DEF Goto
  <2>10. UNCHANGED <<unitCost, paid>>
    BY <1>2 DEF table
  <2>11. QED
    BY <2>6, <2>8, <2>9, <2>10, CostFromOne
<1>3. QED
  BY <1>1, <1>2 DEF ReadOnHands

LEMMA CostReadSetting ==
    ASSUME LedgerTypeOK, SafetyInv, CostInv, NEW p \in Requests, ReadSetting(p)
    PROVE  CostInv'
<1>1. PICK old : old = IF unitCost = Unpriced THEN costing[p].cost ELSE unitCost
  OBVIOUS
<1>2. PICK a : a = MovingAverage(costing[p].total, old, req[p].qty, costing[p].cost)
  OBVIOUS
<1>3. PICK r : r = [req[p] EXCEPT !.pc = "setting"]
  OBVIOUS
<1>4. PICK d : d = [costing[p] EXCEPT !.average = a]
  OBVIOUS
<1>5. /\ costing[p] \in Costing /\ CostSafe(req[p], costing[p])
      /\ req[p].pc = "price" /\ req[p].qty \in Nat \ {0}
      /\ unitCost \in Nat \cup {Unpriced} /\ paid \subseteq Nat
      /\ unitCost # Unpriced => Within(paid, unitCost)
  BY DEF CostInv, CostTypeOK, CostWithinPaid, Within, ReadSetting, SafetyInv,
     RequestSafe, Finished
<1> DEFINE cost == costing[p].cost
           costs == paid \cup {cost}
<1>6. costing[p].total \in Nat /\ cost \in Nat /\ costs \subseteq Nat
  BY <1>5 DEF Costing, CostSafe, Finished
<1>7. old \in Nat /\ Within(costs, old)
  BY <1>1, <1>5, <1>6 DEF Within
<1> HIDE DEF costs
<1>8. PICK lo \in costs : lo <= old /\ lo <= cost
  <2>1. PICK x \in costs : x <= old
    BY <1>7 DEF Within
  <2>2. CASE x <= cost
    BY <2>1, <2>2
  <2>3. CASE cost <= x
    BY <1>6, <1>7, <2>1, <2>3 DEF costs
  <2>4. x \in Nat
    BY <1>6
  <2>5. QED
    BY <1>6, <2>2, <2>3, <2>4
<1>9. PICK hi \in costs : old <= hi /\ cost <= hi
  <2>1. PICK x \in costs : old <= x
    BY <1>7 DEF Within
  <2>2. CASE x <= cost
    BY <1>6, <1>7, <2>1, <2>2 DEF costs
  <2>3. CASE cost <= x
    BY <2>1, <2>3
  <2>4. x \in Nat
    BY <1>6
  <2>5. QED
    BY <1>6, <2>2, <2>3, <2>4
<1>10. a \in Nat /\ a # Unpriced /\ Within(costs, a)
  <2>1. a \in Nat /\ lo <= a /\ a <= hi
    BY <1>2, <1>5, <1>6, <1>7, <1>8, <1>9, AverageBetween
  <2>2. QED
    BY <2>1 DEF Within
<1>11. /\ d \in Costing /\ d.cost = costing[p].cost /\ d.total = costing[p].total
       /\ d.average = a
  BY <1>4, <1>5, <1>10 DEF Costing
<1>12. r.pc = "setting"
  BY <1>3 DEF LedgerTypeOK, Request
<1>13. CostSafe(r, d)
  BY <1>5, <1>10, <1>11, <1>12 DEF CostSafe, Finished, costs
<1>14. req' = [req EXCEPT ![p] = r] /\ costing' = [costing EXCEPT ![p] = d]
  BY <1>1, <1>2, <1>3, <1>4 DEF ReadSetting, Goto
<1>15. UNCHANGED <<unitCost, paid>>
  BY DEF ReadSetting, table
<1>16. QED
  BY <1>11, <1>13, <1>14, <1>15, CostFromOne

LEMMA CostCommit ==
    ASSUME LedgerTypeOK, SafetyInv, CostInv, NEW p \in Requests, Commit(p)
    PROVE  CostInv'
<1>1. /\ req' = [req EXCEPT ![p] = [IdleRequest EXCEPT !.pc = "committed"]]
      /\ costing' = [costing EXCEPT ![p] = NoCosting]
      /\ IF Delta(p) > 0
         THEN unitCost' = costing[p].average /\ paid' = paid \cup {costing[p].cost}
         ELSE UNCHANGED <<unitCost, paid>>
  BY DEF Commit, Finish
<1>2. Delta(p) > 0 =>
        /\ costing[p].cost \in Nat /\ costing[p].average \in Nat
        /\ Within(paid \cup {costing[p].cost}, costing[p].average)
  <2>1. Delta(p) > 0 => req[p].kind \notin Outgoing
    BY DEF Delta, LedgerTypeOK, Request, SafetyInv, RequestSafe, Commit, Finished
  <2>2. CostSafe(req[p], costing[p]) /\ costing[p] \in Costing
    BY DEF CostInv, CostTypeOK
  <2>3. QED
    BY <2>1, <2>2 DEF Commit, CostSafe, Costing, Finished
<1>3. CostTypeOK' /\ CostWithinPaid'
  <2>1. costing' \in [Requests -> Costing]
    BY <1>1, NothingCosted DEF CostInv, CostTypeOK
  <2>2. QED
    BY <1>1, <1>2, <2>1 DEF CostInv, CostTypeOK, CostWithinPaid, Within
<1>4. paid \subseteq paid'
  BY <1>1
<1>5. \A q \in Requests : CostSafe(req[q], costing[q])'
  <2>1. SUFFICES ASSUME NEW q \in Requests PROVE CostSafe(req[q], costing[q])'
    OBVIOUS
  <2>2. CASE q = p
    <3>1. req'[p] = [IdleRequest EXCEPT !.pc = "committed"] /\ costing'[p] = NoCosting
      BY <1>1 DEF LedgerTypeOK, CostInv, CostTypeOK
    <3>2. QED
      BY <2>2, <3>1 DEF CostSafe, NoCosting, IdleRequest, Finished
  <2>3. CASE q # p
    <3>1. req'[q] = req[q] /\ costing'[q] = costing[q]
      BY <1>1, <2>3 DEF LedgerTypeOK, CostInv, CostTypeOK
    <3>2. QED
      BY <1>4, <3>1, PaidGrows DEF CostInv
  <2>4. QED
    BY <2>2, <2>3
<1>6. QED
  BY <1>3, <1>5 DEF CostInv

(* A cost set by hand joins what was paid; one removed leaves it alone. *)
LEMMA CostByHand ==
    ASSUME LedgerTypeOK, CostInv, ByHand
    PROVE  CostInv'
<1>1. CostTypeOK' /\ CostWithinPaid' /\ paid \subseteq paid'
  <2>1. CASE ForgetCost
    BY <2>1 DEF ForgetCost, CostInv, CostTypeOK, CostWithinPaid
  <2>2. ASSUME NEW c \in Costs, SetCost(c)
        PROVE  CostTypeOK' /\ CostWithinPaid' /\ paid \subseteq paid'
    <3>1. c \in Nat /\ c <= c
      OBVIOUS
    <3>2. QED
      BY <2>2, <3>1 DEF SetCost, CostInv, CostTypeOK, CostWithinPaid
  <2>3. QED
    BY <2>1, <2>2 DEF ByHand
<1>2. \A q \in Requests : CostSafe(req[q], costing[q])'
  <2>1. UNCHANGED <<req, costing>>
    BY ByHandQuiet
  <2>2. QED
    BY <1>1, <2>1, PaidGrows DEF CostInv
<1>3. QED
  BY <1>1, <1>2 DEF CostInv

LEMMA StepCost ==
    ASSUME LedgerTypeOK, SafetyInv, CostInv, [Next]_vars
    PROVE  CostInv'
<1>1. CASE UNCHANGED vars
  BY <1>1 DEF vars, table, CostInv, CostTypeOK, CostWithinPaid, CostSafe, Within
<1>2. ASSUME NEW p \in Requests, NEW s \in Steps, Goto(p, s),
             req[p].pc \notin {"idle", "money"} \cup Finished,
             s \in {"balance", "write"}, UNCHANGED <<unitCost, paid, costing>>
      PROVE  CostInv'
  BY <1>2, CostGoto
<1>3. ASSUME NEW p \in Requests, ResolveLot(p)
      PROVE  CostInv'
  <2>1. CASE Rollback(p)
    BY <2>1, CostRollback
  <2>2. CASE Goto(p, "balance") /\ UNCHANGED <<table, costing>>
    BY <1>2, <1>3, <2>2 DEF ResolveLot, table, Steps, Finished
  <2>3. ASSUME NEW l, UNCHANGED <<table, costing>>,
               req' = [req EXCEPT ![p] = [@ EXCEPT !.lot = l, !.pc = "balance"]]
        PROVE  CostInv'
    <3>1. PICK r : r = [req[p] EXCEPT !.lot = l, !.pc = "balance"]
      OBVIOUS
    <3>2. r.pc = "balance"
      BY <3>1 DEF LedgerTypeOK, Request
    <3>3. CostSafe(r, costing[p])
      BY <1>3, <3>2 DEF ResolveLot, CostInv, CostSafe, Finished
    <3>4. QED
      BY <2>3, <3>1, <3>3, CostUnread DEF table
  <2>4. QED
    BY <1>3, <2>1, <2>2, <2>3 DEF ResolveLot
<1>4. ASSUME NEW p \in Requests, ReadBalance(p)
      PROVE  CostInv'
  <2>1. ASSUME NEW b, NEW n, NEW a,
               req' = [req EXCEPT ![p] = [@ EXCEPT
                         !.row = b, !.onHand = n, !.available = a, !.pc = "onHands"]]
        PROVE  CostInv'
    <3>1. PICK r : r = [req[p] EXCEPT !.row = b, !.onHand = n, !.available = a,
                                      !.pc = "onHands"]
      OBVIOUS
    <3>2. r.pc = "onHands"
      BY <3>1 DEF LedgerTypeOK, Request
    <3>3. CostSafe(r, costing[p])
      BY <1>4, <3>2 DEF ReadBalance, CostInv, CostSafe, Finished
    <3>4. QED
      BY <1>4, <2>1, <3>1, <3>3, CostUnread DEF ReadBalance, table
  <2>2. QED
    BY <1>4, <2>1 DEF ReadBalance
<1>5. ASSUME NEW p \in Requests
      PROVE  /\ AfterWrite(p) \in Steps \ {"setting"}
             /\ AfterWrite(p) = "price" => req[p].kind \notin Outgoing
             /\ AfterWrite(p) = "commit" /\ req[p].pc = "write" /\ SafetyInv =>
                   req[p].kind \in Outgoing
  BY DEF AfterWrite, Delta, Steps, LedgerTypeOK, Request, SafetyInv, RequestSafe, Finished
<1>6. ASSUME NEW p \in Requests, UpdateBalance(p)
      PROVE  CostInv'
  BY <1>5, <1>6, CostGoto DEF UpdateBalance, table, Finished
<1>7. ASSUME NEW p \in Requests, CreateBalance(p)
      PROVE  CostInv'
  <2>1. CASE Rollback(p)
    BY <2>1, CostRollback
  <2>2. ASSUME NEW x, UNCHANGED <<table, costing>>,
               req' = [req EXCEPT ![p] = [@ EXCEPT !.row = x, !.pc = AfterWrite(p)]]
        PROVE  CostInv'
    <3>1. PICK r : r = [req[p] EXCEPT !.row = x, !.pc = AfterWrite(p)]
      OBVIOUS
    <3>2. r.pc = AfterWrite(p) /\ r.kind = req[p].kind
      BY <3>1 DEF LedgerTypeOK, Request
    <3>3. CostSafe(r, costing[p])
      BY <1>5, <1>7, <3>2 DEF CreateBalance, CostInv, CostSafe, Finished
    <3>4. QED
      BY <2>2, <3>1, <3>3, CostUnread DEF table
  <2>3. QED
    BY <1>7, <2>1, <2>2 DEF CreateBalance
<1>8. ASSUME NEW p \in Requests, UpsertSetting(p)
      PROVE  CostInv'
  BY <1>8, CostGoto DEF UpsertSetting, table, Steps, Finished
<1>9. QED
  BY <1>1, <1>3, <1>4, <1>6, <1>7, <1>8, CostByHand, CostBegin, CostCheckMoney,
     CostReadOnHands, CostReadSetting, CostCommit, CostRollback DEF Next, Step, Fail

LEMMA CostsHold == Spec => []CostInv
<1>1. Init => CostInv
  BY NothingCosted DEF Init, CostInv, CostTypeOK, CostWithinPaid, CostSafe, Costing,
     NoCosting, IdleRequest
<1>2. LedgerTypeOK /\ SafetyInv /\ CostInv /\ [Next]_vars => CostInv'
  BY StepCost
<1>3. Spec => []SafetyInv
  BY SafetyHolds
<1>4. QED
  BY <1>1, <1>2, <1>3, TypeCorrect, PTL DEF Spec

(* However the quantity, the old cost and the new cost of an average come  *)
(* from three moments, and whatever is set or removed by hand in between,  *)
(* the cost of an item lies between two costs paid or set up to then.      *)
THEOREM CostStaysWithinPaid == Spec => []CostWithinPaid
BY CostsHold, PTL DEF CostInv

(* ... and every number the ledger computes or stores has its type: the    *)
(* average of a receipt is a natural number.                               *)
THEOREM AllTypesCorrect == Spec => []TypeOK
<1>1. LedgerTypeOK /\ CostInv => TypeOK
  BY DEF CostInv, TypeOK
<1>2. QED
  BY <1>1, TypeCorrect, CostsHold, PTL
=============================================================================
