-------------------------- MODULE WasteEventsProofs --------------------------
(***************************************************************************)
(* Proofs about WasteEvents, for any number of attempts, keys and lots,    *)
(* any quantities and any size of bulk request.                            *)
(***************************************************************************)
EXTENDS WasteEvents, FiniteSums, TLAPS

USE WasteAssumption DEF WasteAssumption

InTx     == {"basis", "void", "read", "write", "commit"}
Finished == {"answered", "failed"}

-----------------------------------------------------------------------------
(* Every step keeps the types.  A void names an event that can be read,    *)
(* and a line of a recording takes goods out.                              *)

InputOK(a) ==
    /\ a.pc = "void" => a.kind = "void" /\ a.target \in Events
    /\ a.pc \in {"read", "write"} /\ a.kind # "void" => -a.qty \in Nat
InputsOK == \A p \in Attempts : InputOK(att[p])
TypeInv  == TypeOK /\ InputsOK

LEMMA ArrivalUpdate ==
    ASSUME NEW a \in Attempt, NEW d \in Kinds, NEW k \in Keys \cup {NoKey},
           NEW t \in Events \cup {NoAttempt}, NEW s \in Steps
    PROVE  /\ [a EXCEPT !.kind = d, !.key = k, !.pc = s] \in Attempt
           /\ [a EXCEPT !.kind = d, !.pc = s] \in Attempt
           /\ [a EXCEPT !.kind = d, !.target = t, !.pc = s] \in Attempt
BY Zenon DEF Attempt

LEMMA StepUpdate ==
    ASSUME NEW a \in Attempt, NEW s \in Steps
    PROVE  [a EXCEPT !.pc = s] \in Attempt
BY Zenon DEF Attempt

LEMMA AnswerUpdate ==
    ASSUME NEW a \in Attempt, NEW b \in Attempts, NEW s \in Steps
    PROVE  [a EXCEPT !.pc = s, !.answer = b] \in Attempt
BY Zenon DEF Attempt

LEMMA LotUpdate ==
    ASSUME NEW a \in Attempt, NEW l \in LotIds, NEW q \in Int, NEW s \in Steps
    PROVE  [a EXCEPT !.lot = l, !.qty = q, !.pc = s] \in Attempt
BY Zenon DEF Attempt

LEMMA NextUpdate ==
    ASSUME NEW a \in Attempt, NEW n \in Int, NEW s \in Steps
    PROVE  [a EXCEPT !.next = n, !.pc = s] \in Attempt
BY Zenon DEF Attempt

LEMMA LinesUpdate ==
    ASSUME NEW a \in Attempt, NEW n \in Seq(Event), NEW s \in Steps
    PROVE  [a EXCEPT !.lines = n, !.pc = s] \in Attempt
BY Zenon DEF Attempt

LEMMA GotoType ==
    ASSUME TypeOK, NEW p \in Attempts, NEW s \in Steps, Goto(p, s)
    PROVE  att' \in [Attempts -> Attempt]
BY StepUpdate DEF TypeOK, Goto

LEMMA ReplyType ==
    ASSUME TypeOK, NEW p \in Attempts, NEW a \in Attempts, Reply(p, a)
    PROVE  att' \in [Attempts -> Attempt]
<1>1. [att[p] EXCEPT !.pc = "answered", !.answer = a] \in Attempt
  BY AnswerUpdate DEF TypeOK, Steps
<1>2. QED
  BY <1>1 DEF TypeOK, Reply

LEMMA ReleaseType ==
    ASSUME TypeOK, NEW p \in Attempts
    PROVE  Release(p) \in [LotIds -> Attempts \cup {NoAttempt}]
BY DEF TypeOK, Release

LEMMA RollbackType ==
    ASSUME TypeOK, NEW p \in Attempts, NEW s \in Steps, Rollback(p, s)
    PROVE  TypeOK'
BY GotoType, ReleaseType DEF TypeOK, Rollback, events

LEMMA RejectType ==
    ASSUME TypeOK, NEW p \in Attempts, Reject(p)
    PROVE  TypeOK'
BY RollbackType DEF Reject, Steps

LEMMA VisibleType ==
    ASSUME TypeOK, NEW p \in Attempts, NEW l \in LotIds
    PROVE  Visible(p, l) \in Int
BY DEF TypeOK, Visible

LEMMA LedgerLotType ==
    ASSUME NEW p \in Attempts, NEW l \in LotIds, NEW q
    PROVE  LedgerLot(p, l, q) \subseteq LotIds
BY DEF LedgerLot, Enough, Fullest, LotIds

(* Nothing but the local state of one attempt changes. *)
LEMMA LocalType ==
    ASSUME TypeOK, UNCHANGED <<ledger, keyRow, events>>,
           att' \in [Attempts -> Attempt]
    PROVE  TypeOK'
BY DEF TypeOK, ledger, events

LEMMA CommitType ==
    ASSUME TypeOK, NEW p \in Attempts, Commit(p)
    PROVE  TypeOK'
<1>1. stock' \in [LotIds -> Int]
  BY DEF Commit, TypeOK
<1>2. rowLock' \in [LotIds -> Attempts \cup {NoAttempt}]
  BY ReleaseType DEF Commit
<1>3. keyRow' \in [Keys -> Response \cup {NoRow}]
  BY DEF Commit, ResponseHash, TypeOK, Response
<1>4. waste' \in [Events -> Event]
  <2>1. ASSUME NEW e \in Events
        PROVE  (IF e = att[p].target THEN [waste[e] EXCEPT !.state = "voided"]
                ELSE IF e[1] = p /\ e[2] \in DOMAIN att[p].lines
                     THEN att[p].lines[e[2]]
                     ELSE waste[e]) \in Event
    <3>1. waste[e] \in Event
      BY DEF TypeOK
    <3>2. [waste[e] EXCEPT !.state = "voided"] \in Event
      BY <3>1 DEF Event
    <3>3. ASSUME e[2] \in DOMAIN att[p].lines
          PROVE  att[p].lines[e[2]] \in Event
      <4>1. att[p].lines \in Seq(Event)
        BY DEF TypeOK, Attempt
      <4>2. QED
        BY <3>3, <4>1
    <3>4. QED
      BY <3>1, <3>2, <3>3
  <2>2. QED
    BY <2>1 DEF Commit
<1>5. restored' \in [Events -> Nat]
  BY DEF Commit, TypeOK
<1>6. att' \in [Attempts -> Attempt]
  BY ReplyType, GotoType DEF Commit, Steps
<1>7. QED
  BY <1>1, <1>2, <1>3, <1>4, <1>5, <1>6 DEF Commit, TypeOK

LEMMA StepType ==
    ASSUME TypeInv, [Next]_vars
    PROVE  TypeOK'
<1>0. TypeOK /\ \A q \in Attempts : att[q] \in Attempt /\ InputOK(att[q])
  BY DEF TypeInv, TypeOK, InputsOK
<1>1. CASE UNCHANGED vars
  BY <1>0, <1>1 DEF TypeOK, vars, ledger, events
<1>2. ASSUME NEW p \in Attempts, Arrive(p)
      PROVE  TypeOK'
  <2>1. ASSUME NEW k \in Keys \cup {NoKey}
        PROVE  [att[p] EXCEPT !.kind = "record", !.key = k,
                  !.pc = IF k = NoKey THEN "basis" ELSE "find"] \in Attempt
    BY <1>0, ArrivalUpdate DEF Kinds, Steps
  <2>2. [att[p] EXCEPT !.kind = "bulk", !.pc = "basis"] \in Attempt
    BY <1>0, ArrivalUpdate DEF Kinds, Steps
  <2>3. ASSUME NEW e \in Events
        PROVE  [att[p] EXCEPT !.kind = "void", !.target = e, !.pc = "void"] \in Attempt
    BY <1>0, ArrivalUpdate DEF Kinds, Steps
  <2>4. att' \in [Attempts -> Attempt]
    <3>1. ASSUME NEW k \in Keys \cup {NoKey},
                 att' = [att EXCEPT ![p] = [@ EXCEPT !.kind = "record", !.key = k,
                            !.pc = IF k = NoKey THEN "basis" ELSE "find"]]
          PROVE  att' \in [Attempts -> Attempt]
      <4> DEFINE new == [att[p] EXCEPT !.kind = "record", !.key = k,
                            !.pc = IF k = NoKey THEN "basis" ELSE "find"]
      <4>1. att' = [att EXCEPT ![p] = new]
        BY <3>1
      <4>2. new \in Attempt
        BY <2>1
      <4> HIDE DEF new
      <4>3. QED
        BY <1>0, <4>1, <4>2 DEF TypeOK
    <3>2. CASE att' = [att EXCEPT ![p] = [@ EXCEPT !.kind = "bulk", !.pc = "basis"]]
      BY <1>0, <3>2, <2>2 DEF TypeOK
    <3>3. CASE \E e \in Events :
                 att' = [att EXCEPT ![p] = [@ EXCEPT !.kind = "void",
                                              !.target = e, !.pc = "void"]]
      BY <1>0, <3>3, <2>3 DEF TypeOK
    <3>4. QED
      BY <1>2, <3>1, <3>2, <3>3 DEF Arrive
  <2>5. QED
    BY <1>0, <1>2, <2>4, LocalType DEF Arrive
<1>3. ASSUME NEW p \in Attempts, FindKey(p)
      PROVE  TypeOK'
  <2>1. att' \in [Attempts -> Attempt]
    BY <1>0, <1>3, ReplyType, GotoType DEF FindKey, Replies, Steps
  <2>2. QED
    BY <1>0, <1>3, <2>1, LocalType DEF FindKey
<1>4. ASSUME NEW p \in Attempts, InsertKey(p)
      PROVE  TypeOK'
  BY <1>0, <1>4, RollbackType, GotoType, LocalType DEF InsertKey, Steps
<1>5. ASSUME NEW p \in Attempts, Reread(p)
      PROVE  TypeOK'
  <2>1. att' \in [Attempts -> Attempt]
    BY <1>0, <1>5, ReplyType, GotoType DEF Reread, Replies, Steps
  <2>2. QED
    BY <1>0, <1>5, <2>1, LocalType DEF Reread
<1>6. ASSUME NEW p \in Attempts, Basis(p)
      PROVE  TypeOK'
  <2>1. ASSUME NEW w \in LotIds, NEW q \in Quantities, NEW l \in LedgerLot(p, w, q),
               UNCHANGED <<ledger, keyRow, events>>,
               att' = [att EXCEPT ![p] = [@ EXCEPT !.lot = l, !.qty = -q, !.pc = "read"]]
        PROVE  TypeOK'
    <3>1. l \in LotIds /\ -q \in Int
      BY <2>1, LedgerLotType DEF LotIds
    <3>2. [att[p] EXCEPT !.lot = l, !.qty = -q, !.pc = "read"] \in Attempt
      BY <1>0, <3>1, LotUpdate DEF Steps
    <3>3. QED
      BY <1>0, <2>1, <3>2, LocalType DEF TypeOK
  <2>2. QED
    BY <1>0, <1>6, <2>1, RejectType DEF Basis
<1>7. ASSUME NEW p \in Attempts, ReadEvent(p)
      PROVE  TypeOK'
  <2>1. CASE Reject(p)
    BY <1>0, <2>1, RejectType
  <2>2. CASE ~Reject(p)
    <3> DEFINE e == att[p].target
    <3>1. waste[e].lot \in LotIds /\ waste[e].qty \in Int
      <4>1. e \in Events
        BY <1>0, <1>7 DEF ReadEvent, InputOK
      <4>2. QED
        BY <1>0, <4>1 DEF TypeOK, Event
    <3>2. [att[p] EXCEPT !.lot = waste[e].lot, !.qty = waste[e].qty,
                         !.pc = "read"] \in Attempt
      BY <1>0, <3>1, LotUpdate DEF Steps
    <3>3. QED
      BY <1>0, <1>7, <2>2, <3>2, LocalType DEF ReadEvent, TypeOK
  <2>3. QED
    BY <2>1, <2>2
<1>8. ASSUME NEW p \in Attempts, ReadStock(p)
      PROVE  TypeOK'
  <2>1. Visible(p, att[p].lot) + att[p].qty \in Int
    BY <1>0, VisibleType DEF Attempt
  <2>2. [att[p] EXCEPT !.next = Visible(p, att[p].lot) + att[p].qty,
                       !.pc = "write"] \in Attempt
    BY <1>0, <2>1, NextUpdate DEF Steps
  <2>3. QED
    BY <1>0, <1>8, <2>2, RejectType, LocalType DEF ReadStock, TypeOK
<1>9. ASSUME NEW p \in Attempts, WriteStock(p)
      PROVE  TypeOK'
  <2> DEFINE lines == IF att[p].kind = "void" THEN <<>> ELSE Append(att[p].lines, Line(p))
             pc == IF att[p].kind = "bulk" /\ Len(lines) < BulkSize
                   THEN "basis" ELSE "commit"
  <2>1. lines \in Seq(Event)
    <3>1. CASE att[p].kind = "void"
      BY <3>1
    <3>2. CASE att[p].kind # "void"
      <4>1. Line(p) \in Event
        BY <1>0, <1>9, <3>2 DEF WriteStock, Line, Event, Attempt, InputOK
      <4>2. att[p].lines \in Seq(Event)
        BY <1>0 DEF Attempt
      <4>3. QED
        BY <3>2, <4>1, <4>2
    <3>3. QED
      BY <3>1, <3>2
  <2>2. pc \in Steps
    BY DEF Steps
  <2>3. att' = [att EXCEPT ![p] = [att[p] EXCEPT !.lines = lines, !.pc = pc]]
    BY <1>9 DEF WriteStock
  <2> HIDE DEF lines, pc
  <2>4. [att[p] EXCEPT !.lines = lines, !.pc = pc] \in Attempt
    BY <1>0, <2>1, <2>2, LinesUpdate
  <2>5. att' \in [Attempts -> Attempt]
    BY <1>0, <2>3, <2>4 DEF TypeOK
  <2>6. att[p].lot \in LotIds /\ att[p].next \in Int
    BY <1>0 DEF Attempt
  <2>7. QED
    BY <1>0, <1>9, <2>5, <2>6 DEF WriteStock, TypeOK, events
<1>10. ASSUME NEW p \in Attempts, Commit(p)
       PROVE  TypeOK'
  BY <1>0, <1>10, CommitType
<1>11. ASSUME NEW p \in Attempts, Fail(p) \/ EndDeadlock(p)
       PROVE  TypeOK'
  BY <1>0, <1>11, RejectType DEF Fail, EndDeadlock
<1>12. QED
  BY <1>1, <1>2, <1>3, <1>4, <1>5, <1>6, <1>7, <1>8, <1>9, <1>10, <1>11
  DEF Next, Step

(* A step that leaves the attempts alone but for one of them.              *)
LEMMA OtherInput ==
    ASSUME TypeInv, NEW p \in Attempts, NEW new, InputOK(new),
           att' = [att EXCEPT ![p] = new]
    PROVE  InputsOK'
BY DEF TypeInv, TypeOK, InputsOK

LEMMA GotoInput ==
    ASSUME TypeInv, NEW p \in Attempts, NEW s \in Steps \ {"void", "read", "write"},
           Goto(p, s)
    PROVE  InputsOK'
<1>1. att[p] \in Attempt
  BY DEF TypeInv, TypeOK
<1>2. InputOK([att[p] EXCEPT !.pc = s])
  BY <1>1 DEF InputOK, Attempt
<1>3. QED
  BY <1>2, OtherInput DEF Goto

LEMMA ReplyInput ==
    ASSUME TypeInv, NEW p \in Attempts, NEW a, Reply(p, a)
    PROVE  InputsOK'
<1>1. att[p] \in Attempt
  BY DEF TypeInv, TypeOK
<1>2. InputOK([att[p] EXCEPT !.pc = "answered", !.answer = a])
  BY <1>1 DEF InputOK, Attempt
<1>3. QED
  BY <1>2, OtherInput DEF Reply

LEMMA RejectInput ==
    ASSUME TypeInv, NEW p \in Attempts, Reject(p)
    PROVE  InputsOK'
BY GotoInput DEF Reject, Rollback, Steps

LEMMA StepInput ==
    ASSUME TypeInv, [Next]_vars
    PROVE  InputsOK'
<1>0. \A q \in Attempts : att[q] \in Attempt /\ InputOK(att[q])
  BY DEF TypeInv, TypeOK, InputsOK
<1>1. CASE UNCHANGED vars
  BY <1>0, <1>1 DEF InputsOK, vars
<1>2. ASSUME NEW p \in Attempts, Arrive(p)
      PROVE  InputsOK'
  <2>1. ASSUME NEW k
        PROVE  InputOK([att[p] EXCEPT !.kind = "record", !.key = k,
                  !.pc = IF k = NoKey THEN "basis" ELSE "find"])
    BY <1>0 DEF InputOK, Attempt
  <2>2. InputOK([att[p] EXCEPT !.kind = "bulk", !.pc = "basis"])
    BY <1>0 DEF InputOK, Attempt
  <2>3. ASSUME NEW e \in Events
        PROVE  InputOK([att[p] EXCEPT !.kind = "void", !.target = e, !.pc = "void"])
    BY <1>0 DEF InputOK, Attempt
  <2>4. QED
    BY <1>2, <2>1, <2>2, <2>3, OtherInput DEF Arrive
<1>3. ASSUME NEW p \in Attempts, FindKey(p) \/ InsertKey(p) \/ Reread(p)
      PROVE  InputsOK'
  BY <1>3, GotoInput, ReplyInput DEF FindKey, InsertKey, Reread, Rollback, Steps
<1>4. ASSUME NEW p \in Attempts, Basis(p)
      PROVE  InputsOK'
  <2>1. ASSUME NEW q \in Quantities, NEW l,
               att' = [att EXCEPT ![p] = [@ EXCEPT !.lot = l, !.qty = -q, !.pc = "read"]]
        PROVE  InputsOK'
    <3>1. InputOK([att[p] EXCEPT !.lot = l, !.qty = -q, !.pc = "read"])
      <4>1. -(-q) \in Nat
        BY <2>1
      <4>2. QED
        BY <1>0, <4>1 DEF InputOK, Attempt
    <3>2. QED
      BY <2>1, <3>1, OtherInput
  <2>2. QED
    BY <1>4, <2>1, RejectInput DEF Basis
<1>5. ASSUME NEW p \in Attempts, ReadEvent(p)
      PROVE  InputsOK'
  <2>1. ASSUME NEW l, NEW q
        PROVE  InputOK([att[p] EXCEPT !.lot = l, !.qty = q, !.pc = "read"])
    BY <1>0, <1>5 DEF ReadEvent, InputOK, Attempt
  <2>2. QED
    BY <1>5, <2>1, OtherInput, RejectInput DEF ReadEvent
<1>6. ASSUME NEW p \in Attempts, ReadStock(p)
      PROVE  InputsOK'
  <2>1. ASSUME NEW n
        PROVE  InputOK([att[p] EXCEPT !.next = n, !.pc = "write"])
    BY <1>0, <1>6 DEF ReadStock, InputOK, Attempt
  <2>2. QED
    BY <1>6, <2>1, OtherInput, RejectInput DEF ReadStock
<1>7. ASSUME NEW p \in Attempts, WriteStock(p)
      PROVE  InputsOK'
  <2>1. ASSUME NEW n, NEW s \in {"basis", "commit"}
        PROVE  InputOK([att[p] EXCEPT !.lines = n, !.pc = s])
    BY <1>0 DEF InputOK, Attempt
  <2>2. QED
    BY <1>7, <2>1, OtherInput DEF WriteStock
<1>8. ASSUME NEW p \in Attempts, Commit(p)
      PROVE  InputsOK'
  BY <1>8, GotoInput, ReplyInput DEF Commit, Steps
<1>9. ASSUME NEW p \in Attempts, Fail(p) \/ EndDeadlock(p)
      PROVE  InputsOK'
  BY <1>9, RejectInput DEF Fail, EndDeadlock
<1>10. QED
  BY <1>1, <1>2, <1>3, <1>4, <1>5, <1>6, <1>7, <1>8, <1>9 DEF Next, Step

LEMMA InitType == Init => TypeInv
<1> HAVE Init
<1>1. NewAttempt \in Attempt
  BY DEF NewAttempt, Attempt, Steps, Kinds, LotIds
<1>2. InputOK(NewAttempt)
  BY DEF NewAttempt, InputOK
<1>3. NoEvent \in Event
  BY DEF NoEvent, Event, LotIds
<1>4. QED
  BY <1>1, <1>2, <1>3 DEF Init, TypeInv, TypeOK, InputsOK

(* The tables, the locks and the attempts hold values of their types. *)
THEOREM TypeCorrect == Spec => []TypeOK
<1>1. TypeInv /\ [Next]_vars => TypeInv'
  BY StepType, StepInput DEF TypeInv
<1>2. TypeInv => TypeOK
  BY DEF TypeInv
<1>3. QED
  BY <1>1, <1>2, InitType, PTL DEF Spec

-----------------------------------------------------------------------------
(* The invariant that makes the keys work.                                 *)

(* Only finished attempts have events; the event of a finished attempt     *)
(* under a key is the one the key's row names.                             *)
EventsAreOwned ==
    \A p \in Attempts, i \in 1..BulkSize :
        Recorded(<<p, i>>) => att[p].pc \in Finished
KeyNamesEvent ==
    \A p \in Attempts :
        Recorded(<<p, 1>>) /\ att[p].key # NoKey => keyRow[att[p].key] = p

(* The uncommitted insert of a key excludes the key's row, and is alone.   *)
InsertIsNew ==
    \A p \in Attempts : att[p].pc \in InTx /\ att[p].key # NoKey => ~HasKey(att[p].key)
InsertIsAlone ==
    \A p, q \in Attempts :
        (att[p].pc \in InTx /\ att[q].pc \in InTx
            /\ att[p].key # NoKey /\ att[p].key = att[q].key) => p = q

(* A row always has its responseHash, so a conflict can be answered.       *)
RowsReply == \A k \in Keys : HasKey(k) => Replies(k)
KeySteps  ==
    \A p \in Attempts :
        /\ att[p].pc \in {"find", "key", "reread"} => att[p].key \in Keys
        /\ att[p].pc = "reread" => HasKey(att[p].key)

(* What has not happened yet has left no trace.                            *)
Untouched ==
    \A p \in Attempts :
        /\ att[p].pc = "idle" => att[p].key = NoKey /\ att[p].target = NoAttempt
        /\ att[p].pc # "answered" => att[p].answer = NoAttempt
        /\ att[p].target # NoAttempt => Recorded(att[p].target)

KeyInv ==
    /\ EventsAreOwned
    /\ KeyNamesEvent
    /\ InsertIsNew
    /\ InsertIsAlone
    /\ RowsReply
    /\ KeySteps
    /\ Untouched

(* A step of p outside COMMIT touches the invariant through p's own key,   *)
(* target, answer and position only.                                       *)
LEMMA LocalKey ==
    ASSUME TypeInv, KeyInv, NEW p \in Attempts, NEW new,
           att' = [att EXCEPT ![p] = new], keyRow' = keyRow, waste' = waste,
           new.key = att[p].key, new.target = att[p].target,
           new.answer = att[p].answer,
           \/ att[p].pc \in InTx /\ new.pc \in InTx
           \/ att[p].pc \in InTx \cup {"find", "key", "reread"} /\ new.pc = "failed"
           \/ att[p].pc = "find" /\ new.pc = "key"
           \/ att[p].pc = "key" /\ new.pc = "reread" /\ HasKey(att[p].key)
    PROVE  KeyInv'
<1>0. /\ att'[p] = new
      /\ \A q \in Attempts : q # p => att'[q] = att[q]
      /\ \A e \in Events : Recorded(e)' = Recorded(e)
      /\ \A q \in Attempts, i \in 1..BulkSize : <<q, i>> \in Events
      /\ 1 \in 1..BulkSize
      /\ \A k \in Keys : HasKey(k)' = HasKey(k) /\ Replies(k)' = Replies(k)
  BY DEF TypeInv, TypeOK, Recorded, HasKey, Replies, Events
<1>01. \A q \in Attempts : /\ att[q].key \in Keys \cup {NoKey}
                           /\ att[q].target \in Events \cup {NoAttempt}
  BY DEF TypeInv, TypeOK, Attempt
<1>1. EventsAreOwned'
  BY <1>0 DEF KeyInv, EventsAreOwned, InTx, Finished
<1>2. KeyNamesEvent'
  BY <1>0, <1>01 DEF KeyInv, KeyNamesEvent
<1>3. InsertIsNew'
  BY <1>0, <1>01 DEF KeyInv, InsertIsNew, InTx
<1>4. InsertIsAlone'
  BY <1>0, <1>01 DEF KeyInv, InsertIsAlone, InTx
<1>5. RowsReply'
  BY <1>0 DEF KeyInv, RowsReply
<1>6. KeySteps'
  BY <1>0, <1>01 DEF KeyInv, KeySteps, InTx
<1>7. Untouched'
  BY <1>0, <1>01 DEF KeyInv, Untouched, InTx
<1>8. QED
  BY <1>1, <1>2, <1>3, <1>4, <1>5, <1>6, <1>7 DEF KeyInv

LEMMA GotoKey ==
    ASSUME TypeInv, KeyInv, NEW p \in Attempts, NEW s, Goto(p, s),
           keyRow' = keyRow, waste' = waste,
           \/ att[p].pc \in InTx /\ s \in InTx
           \/ att[p].pc \in InTx \cup {"find", "key", "reread"} /\ s = "failed"
           \/ att[p].pc = "find" /\ s = "key"
           \/ att[p].pc = "key" /\ s = "reread" /\ HasKey(att[p].key)
    PROVE  KeyInv'
<1> DEFINE new == [att[p] EXCEPT !.pc = s]
<1>1. att[p] \in Attempt
  BY DEF TypeInv, TypeOK
<1>2. /\ new.key = att[p].key
      /\ new.target = att[p].target
      /\ new.answer = att[p].answer
      /\ new.pc = s
  BY <1>1 DEF Attempt
<1>3. att' = [att EXCEPT ![p] = new]
  BY DEF Goto
<1> HIDE DEF new
<1>4. QED
  BY <1>2, <1>3, LocalKey

LEMMA RejectKey ==
    ASSUME TypeInv, KeyInv, NEW p \in Attempts, Reject(p), Active(p)
    PROVE  KeyInv'
<1>1. att[p] \in Attempt
  BY DEF TypeInv, TypeOK
<1>2. att[p].pc \in InTx \cup {"find", "key", "reread"}
  BY <1>1 DEF Attempt, Steps, Active, InTx
<1>3. QED
  BY <1>2, GotoKey DEF Reject, Rollback, events

(* The answer of a retry is the event its key's row names. *)
LEMMA ReplyKey ==
    ASSUME TypeInv, KeyInv, NEW p \in Attempts, att[p].pc \in {"find", "reread"},
           NEW a, Reply(p, a), keyRow' = keyRow, waste' = waste
    PROVE  KeyInv'
<1>0. att[p] \in Attempt
  BY DEF TypeInv, TypeOK
<1>1. /\ att'[p].key = att[p].key
      /\ att'[p].target = att[p].target
      /\ att'[p].pc = "answered"
      /\ \A q \in Attempts : q # p => att'[q] = att[q]
      /\ \A e \in Events : Recorded(e)' = Recorded(e)
      /\ \A q \in Attempts, i \in 1..BulkSize : <<q, i>> \in Events
      /\ 1 \in 1..BulkSize
      /\ \A k \in Keys : HasKey(k)' = HasKey(k) /\ Replies(k)' = Replies(k)
  BY <1>0 DEF TypeInv, TypeOK, Attempt, Reply, Recorded, HasKey, Replies, Events
<1>2. \A q \in Attempts : /\ att[q].key \in Keys \cup {NoKey}
                          /\ att[q].target \in Events \cup {NoAttempt}
  BY DEF TypeInv, TypeOK, Attempt
<1>3. EventsAreOwned' /\ KeyNamesEvent'
  BY <1>1, <1>2 DEF KeyInv, EventsAreOwned, KeyNamesEvent, Finished
<1>4. InsertIsNew' /\ InsertIsAlone'
  BY <1>1, <1>2 DEF KeyInv, InsertIsNew, InsertIsAlone, InTx
<1>5. RowsReply' /\ KeySteps' /\ Untouched'
  BY <1>1, <1>2 DEF KeyInv, RowsReply, KeySteps, Untouched
<1>6. QED
  BY <1>3, <1>4, <1>5 DEF KeyInv

(* A request arrives: it has left no trace before. *)
Arrived(a) ==
    /\ a.answer = NoAttempt
    /\ \/ a.pc = "find" /\ a.key \in Keys
       \/ a.pc \in {"basis", "void"} /\ a.key = NoKey
    /\ \/ a.target = NoAttempt
       \/ a.target \in Events /\ Recorded(a.target)

LEMMA ArriveKey ==
    ASSUME TypeInv, KeyInv, NEW p \in Attempts, Arrive(p)
    PROVE  KeyInv'
<1>0. /\ att[p] \in Attempt
      /\ att[p].pc = "idle"
      /\ att[p].key = NoKey
      /\ att[p].answer = NoAttempt
      /\ att[p].target = NoAttempt
  BY DEF TypeInv, TypeOK, Arrive, KeyInv, Untouched
<1>1. PICK new : att' = [att EXCEPT ![p] = new] /\ Arrived(new)
  <2>1. ASSUME NEW k \in Keys \cup {NoKey},
               att' = [att EXCEPT ![p] = [@ EXCEPT !.kind = "record", !.key = k,
                          !.pc = IF k = NoKey THEN "basis" ELSE "find"]]
        PROVE  \E new : att' = [att EXCEPT ![p] = new] /\ Arrived(new)
    <3> DEFINE new == [att[p] EXCEPT !.kind = "record", !.key = k,
                          !.pc = IF k = NoKey THEN "basis" ELSE "find"]
    <3>1. Arrived(new)
      BY <1>0 DEF Arrived, Attempt
    <3>2. att' = [att EXCEPT ![p] = new]
      BY <2>1
    <3> HIDE DEF new
    <3>3. QED
      BY <3>1, <3>2
  <2>2. ASSUME att' = [att EXCEPT ![p] = [@ EXCEPT !.kind = "bulk", !.pc = "basis"]]
        PROVE  \E new : att' = [att EXCEPT ![p] = new] /\ Arrived(new)
    <3> DEFINE new == [att[p] EXCEPT !.kind = "bulk", !.pc = "basis"]
    <3>1. Arrived(new)
      BY <1>0 DEF Arrived, Attempt
    <3>2. att' = [att EXCEPT ![p] = new]
      BY <2>2
    <3> HIDE DEF new
    <3>3. QED
      BY <3>1, <3>2
  <2>3. ASSUME NEW e \in Events, Recorded(e),
               att' = [att EXCEPT ![p] = [@ EXCEPT !.kind = "void",
                                            !.target = e, !.pc = "void"]]
        PROVE  \E new : att' = [att EXCEPT ![p] = new] /\ Arrived(new)
    <3> DEFINE new == [att[p] EXCEPT !.kind = "void", !.target = e, !.pc = "void"]
    <3>1. Arrived(new)
      BY <1>0, <2>3 DEF Arrived, Attempt
    <3>2. att' = [att EXCEPT ![p] = new]
      BY <2>3
    <3> HIDE DEF new
    <3>3. QED
      BY <3>1, <3>2
  <2>4. QED
    BY <2>1, <2>2, <2>3 DEF Arrive
<1>2. /\ att'[p] = new
      /\ \A q \in Attempts : q # p => att'[q] = att[q]
      /\ \A e \in Events : Recorded(e)' = Recorded(e)
      /\ \A q \in Attempts, i \in 1..BulkSize : <<q, i>> \in Events
      /\ 1 \in 1..BulkSize
      /\ \A k \in Keys : HasKey(k)' = HasKey(k) /\ Replies(k)' = Replies(k)
      /\ keyRow' = keyRow
  <2>1. UNCHANGED <<keyRow, waste>>
    BY DEF Arrive, events
  <2>2. QED
    BY <1>1, <2>1 DEF TypeInv, TypeOK, Recorded, HasKey, Replies, Events
<1>3. \A q \in Attempts : /\ att[q].key \in Keys \cup {NoKey}
                          /\ att[q].target \in Events \cup {NoAttempt}
  BY DEF TypeInv, TypeOK, Attempt
<1>4. \A i \in 1..BulkSize : ~Recorded(<<p, i>>)
  BY <1>0 DEF KeyInv, EventsAreOwned, Finished
<1>5. EventsAreOwned' /\ KeyNamesEvent'
  BY <1>2, <1>3, <1>4 DEF KeyInv, EventsAreOwned, KeyNamesEvent
<1>6. InsertIsNew' /\ InsertIsAlone'
  BY <1>1, <1>2, <1>3 DEF KeyInv, InsertIsNew, InsertIsAlone, InTx, Arrived
<1>7. RowsReply' /\ KeySteps'
  BY <1>1, <1>2, <1>3 DEF KeyInv, RowsReply, KeySteps, Arrived
<1>8. Untouched'
  BY <1>1, <1>2, <1>3 DEF KeyInv, Untouched, Arrived
<1>9. QED
  BY <1>5, <1>6, <1>7, <1>8 DEF KeyInv

(* The insert of a key: the row is not there, and no other insert is open. *)
LEMMA InsertKeyKey ==
    ASSUME TypeInv, KeyInv, NEW p \in Attempts, InsertKey(p)
    PROVE  KeyInv'
<1>1. CASE Duplicate(att[p].key)
  BY <1>1, GotoKey DEF InsertKey, Rollback, Duplicate, events
<1>2. CASE ~Duplicate(att[p].key)
  <2> DEFINE new == [att[p] EXCEPT !.pc = "basis"]
  <2>0. att[p] \in Attempt /\ att[p].key \in Keys
    BY DEF TypeInv, TypeOK, InsertKey, KeyInv, KeySteps
  <2>1. /\ att' = [att EXCEPT ![p] = new]
        /\ ~HasKey(att[p].key)
        /\ \A q \in Attempts : InTransaction(q) => att[q].key # att[p].key
        /\ UNCHANGED <<keyRow, waste>>
        /\ att[p].pc = "key"
    BY <1>2 DEF InsertKey, Goto, Duplicate, InsertPending, events
  <2>2. /\ new.key = att[p].key
        /\ new.target = att[p].target
        /\ new.answer = att[p].answer
        /\ new.pc = "basis"
    BY <2>0 DEF Attempt
  <2> HIDE DEF new
  <2>3. /\ att'[p] = new
        /\ \A q \in Attempts : q # p => att'[q] = att[q]
        /\ \A e \in Events : Recorded(e)' = Recorded(e)
        /\ \A q \in Attempts, i \in 1..BulkSize : <<q, i>> \in Events
        /\ 1 \in 1..BulkSize
        /\ \A k \in Keys : HasKey(k)' = HasKey(k) /\ Replies(k)' = Replies(k)
    BY <2>1 DEF TypeInv, TypeOK, Recorded, HasKey, Replies, Events
  <2>4. \A q \in Attempts : /\ att[q].key \in Keys \cup {NoKey}
                            /\ att[q].target \in Events \cup {NoAttempt}
    BY DEF TypeInv, TypeOK, Attempt
  <2>5. EventsAreOwned' /\ KeyNamesEvent'
    BY <2>1, <2>2, <2>3, <2>4 DEF KeyInv, EventsAreOwned, KeyNamesEvent, Finished
  <2>6. InsertIsNew'
    BY <2>1, <2>2, <2>3, <2>4 DEF KeyInv, InsertIsNew
  <2>7. InsertIsAlone'
    BY <2>1, <2>2, <2>3, <2>4 DEF KeyInv, InsertIsAlone, InTx, InTransaction
  <2>8. RowsReply' /\ KeySteps' /\ Untouched'
    BY <2>1, <2>2, <2>3, <2>4 DEF KeyInv, RowsReply, KeySteps, Untouched
  <2>9. QED
    BY <2>5, <2>6, <2>7, <2>8 DEF KeyInv
<1>3. QED
  BY <1>1, <1>2

(* COMMIT makes the events of p and the row of its key visible together.   *)
LEMMA CommitKey ==
    ASSUME TypeInv, KeyInv, NEW p \in Attempts, Commit(p)
    PROVE  KeyInv'
<1> DEFINE key == att[p].key
<1>0. /\ att[p] \in Attempt
      /\ att[p].pc = "commit"
      /\ \A q \in Attempts : /\ att[q].key \in Keys \cup {NoKey}
                             /\ att[q].target \in Events \cup {NoAttempt}
      /\ \A q \in Attempts, i \in 1..BulkSize : <<q, i>> \in Events
      /\ 1 \in 1..BulkSize
  BY DEF TypeInv, TypeOK, Attempt, Commit, Events
<1>1. /\ att'[p].key = key
      /\ att'[p].target = att[p].target
      /\ att'[p].pc \in Finished
      /\ att'[p].pc # "answered" => att'[p].answer = NoAttempt
      /\ \A q \in Attempts : q # p => att'[q] = att[q]
  <2>1. att[p].answer = NoAttempt
    BY <1>0 DEF KeyInv, Untouched
  <2>2. CASE Reply(p, p)
    BY <1>0, <2>2 DEF Reply, TypeInv, TypeOK, Attempt, Finished
  <2>3. CASE Goto(p, "failed")
    BY <1>0, <2>1, <2>3 DEF Goto, TypeInv, TypeOK, Attempt, Finished
  <2>4. QED
    BY <2>2, <2>3 DEF Commit
<1>2. \A k \in Keys : keyRow'[k] = IF key = k THEN p ELSE keyRow[k]
  BY DEF Commit, ResponseHash
<1>3. \A e \in Events : Recorded(e) => Recorded(e)'
  <2> SUFFICES ASSUME NEW e \in Events, Recorded(e) PROVE Recorded(e)'
    OBVIOUS
  <2>1. waste[e] \in Event /\ waste[e].state # "none"
    BY DEF TypeInv, TypeOK, Recorded
  <2>2. CASE e = att[p].target
    <3>1. waste'[e] = [waste[e] EXCEPT !.state = "voided"]
      BY <2>2 DEF Commit
    <3>2. QED
      BY <2>1, <3>1 DEF Event, Recorded
  <2>3. CASE e # att[p].target
    <3>1. e[1] # p
      BY <1>0 DEF Events, KeyInv, EventsAreOwned, Finished
    <3>2. waste'[e] = waste[e]
      BY <2>3, <3>1 DEF Commit
    <3>3. QED
      BY <2>1, <3>2 DEF Recorded
  <2>4. QED
    BY <2>2, <2>3
<1>4. \A e \in Events : e[1] # p => Recorded(e)' = Recorded(e)
  <2> SUFFICES ASSUME NEW e \in Events, e[1] # p PROVE Recorded(e)' = Recorded(e)
    OBVIOUS
  <2>1. CASE e = att[p].target
    <3>1. Recorded(e)
      BY <1>0, <2>1 DEF KeyInv, Untouched
    <3>2. Recorded(e)'
      BY <1>3, <3>1
    <3>3. QED
      BY <3>1, <3>2 DEF Recorded
  <2>2. CASE e # att[p].target
    <3>1. waste'[e] = waste[e]
      BY <2>2 DEF Commit
    <3>2. QED
      BY <3>1 DEF Recorded
  <2>3. QED
    BY <2>1, <2>2
<1>5. \A q \in Attempts, i \in 1..BulkSize :
          q # p => Recorded(<<q, i>>)' = Recorded(<<q, i>>)
  BY <1>0, <1>4
<1>6. \A k \in Keys : k # key => HasKey(k)' = HasKey(k) /\ Replies(k)' = Replies(k)
  BY <1>2 DEF HasKey, Replies
<1>7. \A q \in Attempts : q # p /\ att[q].key # NoKey /\ Recorded(<<q, 1>>)
                             => att[q].key # key
  BY <1>0 DEF KeyInv, KeyNamesEvent, InsertIsNew, HasKey, InTx
<1>8. \A q \in Attempts : q # p /\ att[q].key # NoKey /\ att[q].pc \in InTx
                             => att[q].key # key
  BY <1>0 DEF KeyInv, InsertIsAlone, InTx
<1>9. \A k \in Keys : k = key => HasKey(k)' /\ Replies(k)'
  BY <1>2 DEF HasKey, Replies
<1>10. EventsAreOwned'
  BY <1>1, <1>5 DEF KeyInv, EventsAreOwned
<1>11. KeyNamesEvent'
  <2> SUFFICES ASSUME NEW q \in Attempts, Recorded(<<q, 1>>)', att'[q].key # NoKey
               PROVE  keyRow'[att'[q].key] = q
    BY DEF KeyNamesEvent
  <2>1. CASE q = p
    BY <1>0, <1>1, <1>2, <2>1
  <2>2. CASE q # p
    <3>1. att[q].key # key /\ keyRow[att[q].key] = q
      BY <1>0, <1>1, <1>5, <1>7, <2>2 DEF KeyInv, KeyNamesEvent
    <3>2. QED
      BY <1>0, <1>1, <1>2, <2>2, <3>1
  <2>3. QED
    BY <2>1, <2>2
<1>12. InsertIsNew' /\ InsertIsAlone'
  <2>1. att'[p].pc \notin InTx
    BY <1>1 DEF Finished, InTx
  <2>2. InsertIsNew'
    BY <1>0, <1>1, <1>6, <1>8, <2>1 DEF KeyInv, InsertIsNew
  <2>3. InsertIsAlone'
    BY <1>1, <2>1 DEF KeyInv, InsertIsAlone
  <2>4. QED
    BY <2>2, <2>3
<1>13. RowsReply'
  BY <1>6, <1>9 DEF KeyInv, RowsReply
<1>14. KeySteps'
  <2>1. \A k \in Keys : HasKey(k) => HasKey(k)'
    BY <1>6, <1>9
  <2>2. QED
    BY <1>1, <2>1 DEF KeyInv, KeySteps, Finished
<1>15. Untouched'
  BY <1>0, <1>1, <1>3 DEF KeyInv, Untouched, Finished
<1>16. QED
  BY <1>10, <1>11, <1>12, <1>13, <1>14, <1>15 DEF KeyInv

LEMMA StepKey ==
    ASSUME TypeInv, KeyInv, [Next]_vars
    PROVE  KeyInv'
<1>0. \A q \in Attempts : att[q] \in Attempt
  BY DEF TypeInv, TypeOK
<1>1. CASE UNCHANGED vars
  BY <1>1 DEF vars, events, KeyInv, EventsAreOwned, KeyNamesEvent, InsertIsNew,
       InsertIsAlone, RowsReply, KeySteps, Untouched, Recorded, HasKey, Replies
<1>2. ASSUME NEW p \in Attempts, FindKey(p)
      PROVE  KeyInv'
  BY <1>2, ReplyKey, GotoKey DEF FindKey, events
<1>3. ASSUME NEW p \in Attempts, Reread(p)
      PROVE  KeyInv'
  BY <1>3, ReplyKey, GotoKey DEF Reread, events
<1>4. ASSUME NEW p \in Attempts, Basis(p)
      PROVE  KeyInv'
  <2>1. ASSUME NEW l, NEW q, UNCHANGED <<keyRow, waste>>,
               att' = [att EXCEPT ![p] = [@ EXCEPT !.lot = l, !.qty = q, !.pc = "read"]]
        PROVE  KeyInv'
    <3> DEFINE new == [att[p] EXCEPT !.lot = l, !.qty = q, !.pc = "read"]
    <3>1. /\ new.key = att[p].key
          /\ new.target = att[p].target
          /\ new.answer = att[p].answer
          /\ new.pc = "read"
      BY <1>0 DEF Attempt
    <3>2. att' = [att EXCEPT ![p] = new]
      BY <2>1
    <3> HIDE DEF new
    <3>3. QED
      BY <1>4, <2>1, <3>1, <3>2, LocalKey DEF Basis, InTx
  <2>2. Active(p)
    BY <1>4 DEF Basis, Active
  <2>3. QED
    BY <1>4, <2>1, <2>2, RejectKey DEF Basis, events
<1>5. ASSUME NEW p \in Attempts, ReadEvent(p)
      PROVE  KeyInv'
  <2> DEFINE e == att[p].target
             new == [att[p] EXCEPT !.lot = waste[e].lot, !.qty = waste[e].qty,
                                   !.pc = "read"]
  <2>1. /\ new.key = att[p].key
        /\ new.target = att[p].target
        /\ new.answer = att[p].answer
        /\ new.pc = "read"
    BY <1>0 DEF Attempt
  <2>2. \/ Reject(p)
        \/ att' = [att EXCEPT ![p] = new] /\ UNCHANGED <<keyRow, waste>>
    BY <1>5 DEF ReadEvent, events
  <2>3. Active(p) /\ att[p].pc \in InTx
    BY <1>5 DEF ReadEvent, Active, InTx
  <2> HIDE DEF new
  <2>4. QED
    BY <2>1, <2>2, <2>3, RejectKey, LocalKey DEF InTx
<1>6. ASSUME NEW p \in Attempts, ReadStock(p)
      PROVE  KeyInv'
  <2> DEFINE new == [att[p] EXCEPT !.next = Visible(p, att[p].lot) + att[p].qty,
                                   !.pc = "write"]
  <2>1. /\ new.key = att[p].key
        /\ new.target = att[p].target
        /\ new.answer = att[p].answer
        /\ new.pc = "write"
    BY <1>0 DEF Attempt
  <2>2. \/ Reject(p)
        \/ att' = [att EXCEPT ![p] = new] /\ UNCHANGED <<keyRow, waste>>
    BY <1>6 DEF ReadStock, events
  <2>3. Active(p) /\ att[p].pc \in InTx
    BY <1>6 DEF ReadStock, Active, InTx
  <2> HIDE DEF new
  <2>4. QED
    BY <2>1, <2>2, <2>3, RejectKey, LocalKey DEF InTx
<1>7. ASSUME NEW p \in Attempts, WriteStock(p)
      PROVE  KeyInv'
  <2> DEFINE lines == IF att[p].kind = "void" THEN <<>> ELSE Append(att[p].lines, Line(p))
             pc == IF att[p].kind = "bulk" /\ Len(lines) < BulkSize
                   THEN "basis" ELSE "commit"
             new == [att[p] EXCEPT !.lines = lines, !.pc = pc]
  <2>1. att' = [att EXCEPT ![p] = new] /\ UNCHANGED <<keyRow, waste>>
    BY <1>7 DEF WriteStock, events
  <2>2. pc \in InTx /\ att[p].pc \in InTx
    BY <1>7 DEF WriteStock, InTx
  <2> HIDE DEF lines, pc
  <2>3. /\ new.key = att[p].key
        /\ new.target = att[p].target
        /\ new.answer = att[p].answer
        /\ new.pc = pc
    BY <1>0 DEF Attempt
  <2> HIDE DEF new
  <2>4. QED
    BY <2>1, <2>2, <2>3, LocalKey
<1>8. ASSUME NEW p \in Attempts, Fail(p) \/ EndDeadlock(p)
      PROVE  KeyInv'
  <2>1. EndDeadlock(p) => Active(p)
    BY DEF EndDeadlock, Deadlocked, Blocker, Active
  <2>2. QED
    BY <1>8, <2>1, RejectKey DEF Fail, EndDeadlock
<1>9. QED
  BY <1>1, <1>2, <1>3, <1>4, <1>5, <1>6, <1>7, <1>8, ArriveKey, InsertKeyKey,
     CommitKey DEF Next, Step

LEMMA InitKey == Init => KeyInv
BY DEF Init, NewAttempt, NoEvent, KeyInv, EventsAreOwned, KeyNamesEvent, InsertIsNew,
   InsertIsAlone, RowsReply, KeySteps, Untouched, Recorded, HasKey, Events, InTx

LEMMA Invariant == Spec => [](TypeInv /\ KeyInv)
<1>1. TypeInv /\ KeyInv /\ [Next]_vars => (TypeInv /\ KeyInv)'
  BY StepType, StepInput, StepKey DEF TypeInv
<1>2. QED
  BY <1>1, InitType, InitKey, PTL DEF Spec

(* recordWasteEvent records at most one event under an idempotency key,    *)
(* for any number of attempts, in any interleaving, whichever fail.        *)
THEOREM OneEventForAKey == Spec => []OneEventPerKey
<1>1. KeyInv => OneEventPerKey
  BY DEF KeyInv, KeyNamesEvent, OneEventPerKey
<1>2. QED
  BY <1>1, Invariant, PTL

(* The handler of the unique-key conflict always finds the winner's event. *)
THEOREM ConflictsAreAnswered == Spec => ConflictIsAnswered
<1>1. TypeInv /\ KeyInv /\ [Next]_vars
        => [\A p \in Attempts : Reread(p) => att'[p].pc = "answered"]_vars
  <2> SUFFICES ASSUME TypeInv, KeyInv, NEW p \in Attempts, Reread(p)
               PROVE  att'[p].pc = "answered"
    OBVIOUS
  <2>1. att[p] \in Attempt
    BY DEF TypeInv, TypeOK
  <2>2. Replies(att[p].key)
    BY DEF Reread, KeyInv, KeySteps, RowsReply
  <2>3. QED
    <3>1. Reply(p, keyRow[att[p].key])
      BY <2>2 DEF Reread
    <3>2. QED
      BY <2>1, <3>1 DEF Reply, TypeInv, TypeOK, Attempt
<1>2. QED
  BY <1>1, Invariant, PTL DEF Spec, ConflictIsAnswered

-----------------------------------------------------------------------------
(* The keys keep the abstract promise.                                     *)

LEMMA SameView ==
    ASSUME keyRow' = keyRow,
           \A q \in Attempts : att'[q].key = att[q].key /\ att'[q].answer = att[q].answer
    PROVE  UNCHANGED <<AskedKeys, Outcomes, Answers>>
BY DEF AskedKeys, Outcomes, Answers, Replies

(* A step that leaves the key, the answer and the key table alone.         *)
LEMMA QuietStep ==
    ASSUME TypeInv, NEW p \in Attempts, NEW new, att' = [att EXCEPT ![p] = new],
           new.key = att[p].key, new.answer = att[p].answer, keyRow' = keyRow
    PROVE  UNCHANGED <<AskedKeys, Outcomes, Answers>>
BY SameView DEF TypeInv, TypeOK

LEMMA QuietGoto ==
    ASSUME TypeInv, NEW p \in Attempts, NEW s, Goto(p, s), keyRow' = keyRow
    PROVE  UNCHANGED <<AskedKeys, Outcomes, Answers>>
<1> DEFINE new == [att[p] EXCEPT !.pc = s]
<1>1. att[p] \in Attempt
  BY DEF TypeInv, TypeOK
<1>2. new.key = att[p].key /\ new.answer = att[p].answer
  BY <1>1 DEF Attempt
<1>3. att' = [att EXCEPT ![p] = new]
  BY DEF Goto
<1> HIDE DEF new
<1>4. QED
  BY <1>2, <1>3, QuietStep

LEMMA QuietReject ==
    ASSUME TypeInv, NEW p \in Attempts, Reject(p)
    PROVE  UNCHANGED <<AskedKeys, Outcomes, Answers>>
BY QuietGoto DEF Reject, Rollback

LEMMA ArriveAsks ==
    ASSUME TypeInv, KeyInv, NEW p \in Attempts, Arrive(p)
    PROVE  Promise!Ask(p) \/ UNCHANGED <<AskedKeys, Outcomes, Answers>>
<1>0. /\ att \in [Attempts -> Attempt]
      /\ att[p] \in Attempt
      /\ att[p].key = NoKey
      /\ att[p].answer = NoAttempt
      /\ keyRow' = keyRow
  BY DEF TypeInv, TypeOK, Arrive, KeyInv, Untouched
<1>1. ASSUME NEW k \in Keys \cup {NoKey},
             att' = [att EXCEPT ![p] = [@ EXCEPT !.kind = "record", !.key = k,
                        !.pc = IF k = NoKey THEN "basis" ELSE "find"]]
      PROVE  Promise!Ask(p) \/ UNCHANGED <<AskedKeys, Outcomes, Answers>>
  <2> DEFINE new == [att[p] EXCEPT !.kind = "record", !.key = k,
                        !.pc = IF k = NoKey THEN "basis" ELSE "find"]
  <2>1. new.key = k /\ new.answer = NoAttempt
    BY <1>0 DEF Attempt
  <2>2. att' = [att EXCEPT ![p] = new]
    BY <1>1
  <2> HIDE DEF new
  <2>3. CASE k = NoKey
    BY <1>0, <2>1, <2>2, <2>3, QuietStep
  <2>4. CASE k \in Keys
    <3>1. Outcomes' = Outcomes /\ Answers' = Answers
      BY <1>0, <2>1, <2>2 DEF Outcomes, Answers, Replies
    <3>2. AskedKeys[p] = NoAttempt
      BY <1>0 DEF AskedKeys
    <3>3. AskedKeys' = [AskedKeys EXCEPT ![p] = k]
      BY <1>0, <2>1, <2>2, <2>4 DEF AskedKeys
    <3>4. QED
      BY <2>4, <3>1, <3>2, <3>3 DEF Promise!Ask
  <2>5. QED
    BY <2>3, <2>4
<1>2. ASSUME att' = [att EXCEPT ![p] = [@ EXCEPT !.kind = "bulk", !.pc = "basis"]]
      PROVE  UNCHANGED <<AskedKeys, Outcomes, Answers>>
  <2> DEFINE new == [att[p] EXCEPT !.kind = "bulk", !.pc = "basis"]
  <2>1. new.key = att[p].key /\ new.answer = att[p].answer
    BY <1>0 DEF Attempt
  <2>2. att' = [att EXCEPT ![p] = new]
    BY <1>2
  <2> HIDE DEF new
  <2>3. QED
    BY <1>0, <2>1, <2>2, QuietStep
<1>3. ASSUME NEW e,
             att' = [att EXCEPT ![p] = [@ EXCEPT !.kind = "void",
                                          !.target = e, !.pc = "void"]]
      PROVE  UNCHANGED <<AskedKeys, Outcomes, Answers>>
  <2> DEFINE new == [att[p] EXCEPT !.kind = "void", !.target = e, !.pc = "void"]
  <2>1. new.key = att[p].key /\ new.answer = att[p].answer
    BY <1>0 DEF Attempt
  <2>2. att' = [att EXCEPT ![p] = new]
    BY <1>3
  <2> HIDE DEF new
  <2>3. QED
    BY <1>0, <2>1, <2>2, QuietStep
<1>4. QED
  BY <1>1, <1>2, <1>3 DEF Arrive

LEMMA ReplyReplays ==
    ASSUME TypeInv, KeyInv, NEW p \in Attempts, att[p].pc \in {"find", "reread"},
           Replies(att[p].key), Reply(p, keyRow[att[p].key]), keyRow' = keyRow
    PROVE  Promise!Replay(p)
<1> DEFINE key == att[p].key
<1>0. /\ att \in [Attempts -> Attempt]
      /\ att[p] \in Attempt
      /\ key \in Keys
      /\ att[p].answer = NoAttempt
      /\ keyRow[key] \in Attempts
      /\ key # NoKey
  BY DEF TypeInv, TypeOK, KeyInv, KeySteps, Untouched, Replies
<1>1. /\ att'[p].key = key
      /\ att'[p].answer = keyRow[key]
      /\ \A q \in Attempts : q # p => att'[q] = att[q]
  BY <1>0 DEF Reply, Attempt
<1>2. AskedKeys[p] = key /\ AskedKeys' = AskedKeys
  BY <1>0, <1>1 DEF AskedKeys
<1>3. Outcomes[key] = keyRow[key] /\ Outcomes' = Outcomes
  BY <1>0 DEF Outcomes, Replies
<1>4. Answers[p] = NoAttempt /\ Answers' = [Answers EXCEPT ![p] = keyRow[key]]
  BY <1>0, <1>1 DEF Answers
<1> HIDE DEF key
<1>5. QED
  BY <1>0, <1>2, <1>3, <1>4 DEF Promise!Replay

LEMMA CommitPerforms ==
    ASSUME TypeInv, KeyInv, NEW p \in Attempts, Commit(p)
    PROVE  Promise!Perform(p) \/ UNCHANGED <<AskedKeys, Outcomes, Answers>>
<1> DEFINE key == att[p].key
<1>0. /\ att \in [Attempts -> Attempt]
      /\ att[p] \in Attempt
      /\ att[p].pc = "commit"
      /\ key \in Keys \cup {NoKey}
      /\ att[p].answer = NoAttempt
      /\ \A q \in Attempts : att[q].key \in Keys \cup {NoKey}
  BY DEF TypeInv, TypeOK, KeyInv, Untouched, Attempt, Commit
<1>1. PICK a \in {p, NoAttempt} : /\ att'[p].answer = a
                                 /\ att'[p].key = key
                                 /\ \A q \in Attempts : q # p => att'[q] = att[q]
  <2>1. CASE Reply(p, p)
    BY <1>0, <2>1 DEF Reply, Attempt
  <2>2. CASE Goto(p, "failed")
    BY <1>0, <2>2 DEF Goto, Attempt
  <2>3. QED
    BY <2>1, <2>2 DEF Commit
<1>2. keyRow' = [k \in Keys |-> IF key = k THEN p ELSE keyRow[k]]
  BY DEF Commit, ResponseHash
<1>3. AskedKeys' = AskedKeys
  BY <1>1 DEF AskedKeys
<1>4. CASE key = NoKey
  <2>1. keyRow' = keyRow
    BY <1>2, <1>4 DEF TypeInv, TypeOK
  <2>2. Outcomes' = Outcomes
    BY <2>1 DEF Outcomes, Replies
  <2>3. Answers' = Answers
    BY <1>1, <1>4 DEF Answers
  <2>4. QED
    BY <1>3, <2>2, <2>3
<1>5. CASE key \in Keys
  <2>1. key # NoKey /\ keyRow[key] = NoRow
    BY <1>0, <1>5 DEF KeyInv, InsertIsNew, HasKey, InTx
  <2>2. AskedKeys[p] = key
    BY <2>1 DEF AskedKeys
  <2>3. Outcomes[key] = NoAttempt
    BY <1>5, <2>1 DEF Outcomes, Replies
  <2>4. Outcomes' = [Outcomes EXCEPT ![key] = p]
    BY <1>2, <1>5 DEF Outcomes, Replies
  <2>5. Answers[p] = NoAttempt /\ Answers' = [Answers EXCEPT ![p] = a]
    BY <1>0, <1>1, <2>1 DEF Answers
  <2> HIDE DEF key
  <2>6. QED
    BY <1>1, <1>3, <1>5, <2>2, <2>3, <2>4, <2>5 DEF Promise!Perform
<1>6. QED
  BY <1>0, <1>4, <1>5

LEMMA StepKeepsPromise ==
    ASSUME TypeInv, KeyInv, [Next]_vars
    PROVE  [Promise!Next]_(Promise!vars)
<1>0. \A q \in Attempts : att[q] \in Attempt
  BY DEF TypeInv, TypeOK
<1> DEFINE Quiet == UNCHANGED <<AskedKeys, Outcomes, Answers>>
<1>1. CASE UNCHANGED vars
  BY <1>1, SameView DEF vars, Promise!vars
<1>2. ASSUME NEW p \in Attempts, Arrive(p)
      PROVE  Promise!Ask(p) \/ Quiet
  BY <1>2, ArriveAsks
<1>3. ASSUME NEW p \in Attempts, FindKey(p) \/ Reread(p)
      PROVE  Promise!Replay(p) \/ Quiet
  BY <1>3, ReplyReplays, QuietGoto DEF FindKey, Reread
<1>4. ASSUME NEW p \in Attempts, InsertKey(p)
      PROVE  Quiet
  BY <1>4, QuietGoto DEF InsertKey, Rollback
<1>5. ASSUME NEW p \in Attempts, Basis(p)
      PROVE  Quiet
  <2>1. ASSUME NEW l, NEW q, keyRow' = keyRow,
               att' = [att EXCEPT ![p] = [@ EXCEPT !.lot = l, !.qty = q, !.pc = "read"]]
        PROVE  Quiet
    <3> DEFINE new == [att[p] EXCEPT !.lot = l, !.qty = q, !.pc = "read"]
    <3>1. new.key = att[p].key /\ new.answer = att[p].answer
      BY <1>0 DEF Attempt
    <3>2. att' = [att EXCEPT ![p] = new]
      BY <2>1
    <3> HIDE DEF new
    <3>3. QED
      BY <2>1, <3>1, <3>2, QuietStep
  <2>2. QED
    BY <1>5, <2>1, QuietReject DEF Basis
<1>6. ASSUME NEW p \in Attempts, ReadEvent(p)
      PROVE  Quiet
  <2> DEFINE e == att[p].target
             new == [att[p] EXCEPT !.lot = waste[e].lot, !.qty = waste[e].qty,
                                   !.pc = "read"]
  <2>1. new.key = att[p].key /\ new.answer = att[p].answer
    BY <1>0 DEF Attempt
  <2>2. Reject(p) \/ (att' = [att EXCEPT ![p] = new] /\ keyRow' = keyRow)
    BY <1>6 DEF ReadEvent
  <2> HIDE DEF new
  <2>3. QED
    BY <2>1, <2>2, QuietReject, QuietStep
<1>7. ASSUME NEW p \in Attempts, ReadStock(p)
      PROVE  Quiet
  <2> DEFINE new == [att[p] EXCEPT !.next = Visible(p, att[p].lot) + att[p].qty,
                                   !.pc = "write"]
  <2>1. new.key = att[p].key /\ new.answer = att[p].answer
    BY <1>0 DEF Attempt
  <2>2. Reject(p) \/ (att' = [att EXCEPT ![p] = new] /\ keyRow' = keyRow)
    BY <1>7 DEF ReadStock
  <2> HIDE DEF new
  <2>3. QED
    BY <2>1, <2>2, QuietReject, QuietStep
<1>8. ASSUME NEW p \in Attempts, WriteStock(p)
      PROVE  Quiet
  <2> DEFINE lines == IF att[p].kind = "void" THEN <<>> ELSE Append(att[p].lines, Line(p))
             pc == IF att[p].kind = "bulk" /\ Len(lines) < BulkSize
                   THEN "basis" ELSE "commit"
             new == [att[p] EXCEPT !.lines = lines, !.pc = pc]
  <2>1. att' = [att EXCEPT ![p] = new] /\ keyRow' = keyRow
    BY <1>8 DEF WriteStock
  <2> HIDE DEF lines, pc
  <2>2. new.key = att[p].key /\ new.answer = att[p].answer
    BY <1>0 DEF Attempt
  <2> HIDE DEF new
  <2>3. QED
    BY <2>1, <2>2, QuietStep
<1>9. ASSUME NEW p \in Attempts, Commit(p)
      PROVE  Promise!Perform(p) \/ Quiet
  BY <1>9, CommitPerforms
<1>10. ASSUME NEW p \in Attempts, Fail(p) \/ EndDeadlock(p)
       PROVE  Quiet
  BY <1>10, QuietReject DEF Fail, EndDeadlock
<1>11. Quiet => UNCHANGED Promise!vars
  BY DEF Promise!vars
<1> HIDE DEF Quiet
<1>12. QED
  BY <1>1, <1>2, <1>3, <1>4, <1>5, <1>6, <1>7, <1>8, <1>9, <1>10, <1>11
  DEF Next, Step, Promise!Next

(* Recording waste under an idempotency key implements OncePerKey: retried,*)
(* concurrent and failing attempts take effect once and agree on what it   *)
(* was.                                                                    *)
THEOREM KeysKeepTheirPromise == Spec => KeepsPromise
<1>1. Init => Promise!Init
  BY DEF Init, NewAttempt, Promise!Init, AskedKeys, Outcomes, Answers, Replies
<1>2. TypeInv /\ KeyInv /\ [Next]_vars => [Promise!Next]_(Promise!vars)
  BY StepKeepsPromise
<1>3. QED
  BY <1>1, <1>2, Invariant, PTL DEF Spec, KeepsPromise, Promise!Spec
-----------------------------------------------------------------------------
(* No negative stock.  A committed balance was a draft, and a draft was    *)
(* checked when it was computed, whatever was committed since.             *)
StockInv ==
    /\ NoNegativeStock
    /\ \A l \in LotIds : rowLock[l] # NoAttempt => draft[l] >= 0
    /\ \A p \in Attempts : att[p].pc = "write" => att[p].next >= 0

(* A step that makes no attempt ready to write. *)
LEMMA QuietStock ==
    ASSUME TypeInv, StockInv, NEW p \in Attempts, NEW new, new.pc # "write",
           att' = [att EXCEPT ![p] = new], UNCHANGED <<stock, draft>>,
           \A l \in LotIds : rowLock'[l] \in {rowLock[l], NoAttempt}
    PROVE  StockInv'
<1>1. \A q \in Attempts : att'[q].pc = "write" => att'[q].next >= 0
  BY DEF TypeInv, TypeOK, StockInv
<1>2. QED
  BY <1>1 DEF StockInv, NoNegativeStock

LEMMA GotoStock ==
    ASSUME TypeInv, StockInv, NEW p \in Attempts, NEW s \in Steps \ {"write"}, Goto(p, s),
           UNCHANGED <<stock, draft>>,
           \A l \in LotIds : rowLock'[l] \in {rowLock[l], NoAttempt}
    PROVE  StockInv'
<1>1. [att[p] EXCEPT !.pc = s].pc # "write"
  BY DEF TypeInv, TypeOK, Attempt
<1>2. QED
  BY <1>1, QuietStock DEF Goto

LEMMA ReplyStock ==
    ASSUME TypeInv, StockInv, NEW p \in Attempts, NEW a, Reply(p, a),
           UNCHANGED <<stock, draft>>,
           \A l \in LotIds : rowLock'[l] \in {rowLock[l], NoAttempt}
    PROVE  StockInv'
<1>1. [att[p] EXCEPT !.pc = "answered", !.answer = a].pc # "write"
  BY DEF TypeInv, TypeOK, Attempt
<1>2. QED
  BY <1>1, QuietStock DEF Reply

LEMMA RollbackStock ==
    ASSUME TypeInv, StockInv, NEW p \in Attempts, NEW s \in Steps \ {"write"}, Rollback(p, s)
    PROVE  StockInv'
<1>1. \A l \in LotIds : rowLock'[l] \in {rowLock[l], NoAttempt}
  BY DEF Rollback, Release
<1>2. QED
  BY <1>1, GotoStock DEF Rollback

LEMMA WriteStockStock ==
    ASSUME TypeInv, StockInv, NEW p \in Attempts, WriteStock(p)
    PROVE  StockInv'
<1> DEFINE lines == IF att[p].kind = "void" THEN <<>> ELSE Append(att[p].lines, Line(p))
           pc == IF att[p].kind = "bulk" /\ Len(lines) < BulkSize THEN "basis" ELSE "commit"
           new == [att[p] EXCEPT !.lines = lines, !.pc = pc]
<1>1. att \in [Attempts -> Attempt] /\ draft \in [LotIds -> Int] /\ att[p].lot \in LotIds
  BY DEF TypeInv, TypeOK, Attempt
<1>2. att' = [att EXCEPT ![p] = new] /\ att[p].next >= 0 /\ UNCHANGED stock
  BY DEF WriteStock, StockInv
<1>3. new.pc # "write"
  BY <1>1 DEF Attempt
<1> HIDE DEF new
<1>4. \A q \in Attempts : att'[q].pc = "write" => att'[q].next >= 0
  BY <1>1, <1>2, <1>3 DEF StockInv
<1>5. \A l \in LotIds : rowLock'[l] # NoAttempt => draft'[l] >= 0
  BY <1>1, <1>2 DEF WriteStock, StockInv, TypeInv, TypeOK
<1>6. QED
  BY <1>2, <1>4, <1>5 DEF StockInv, NoNegativeStock

LEMMA CommitStock ==
    ASSUME TypeInv, StockInv, NEW p \in Attempts, Commit(p)
    PROVE  StockInv'
<1>1. \A l \in LotIds : rowLock'[l] \in {rowLock[l], NoAttempt} /\ UNCHANGED draft
  BY DEF Commit, Release
<1>2. \A l \in LotIds : stock'[l] >= 0
  BY DEF Commit, StockInv, NoNegativeStock
<1>3. \A q \in Attempts : att'[q].pc = "write" => att'[q].next >= 0
  <2>1. att \in [Attempts -> Attempt]
    BY DEF TypeInv, TypeOK
  <2>2. CASE Reply(p, p)
    BY <2>1, <2>2 DEF Reply, Attempt, StockInv
  <2>3. CASE Goto(p, "failed")
    BY <2>1, <2>3 DEF Goto, Attempt, StockInv
  <2>4. QED
    BY <2>2, <2>3 DEF Commit
<1>4. QED
  BY <1>1, <1>2, <1>3 DEF StockInv, NoNegativeStock, Commit

LEMMA ReadStockStock ==
    ASSUME TypeInv, StockInv, NEW p \in Attempts, ReadStock(p)
    PROVE  StockInv'
<1>1. CASE Reject(p)
  BY <1>1, RollbackStock DEF Reject, Steps
<1>2. CASE ~Reject(p)
  <2> DEFINE n == Visible(p, att[p].lot) + att[p].qty
             new == [att[p] EXCEPT !.next = n, !.pc = "write"]
  <2>1. att \in [Attempts -> Attempt] /\ n \in Int
    <3>1. att \in [Attempts -> Attempt] /\ att[p].lot \in LotIds /\ att[p].qty \in Int
      BY DEF TypeInv, TypeOK, Attempt
    <3>2. Visible(p, att[p].lot) \in Int
      BY <3>1, VisibleType DEF TypeInv
    <3>3. QED
      BY <3>1, <3>2
  <2>2. att' = [att EXCEPT ![p] = new] /\ ~(n < 0) /\ UNCHANGED ledger
    BY <1>2 DEF ReadStock, Overdraws
  <2> HIDE DEF n
  <2>3. new.next = n /\ n >= 0
    BY <2>1, <2>2 DEF Attempt
  <2> HIDE DEF new
  <2>4. \A q \in Attempts : att'[q].pc = "write" => att'[q].next >= 0
    BY <2>1, <2>2, <2>3 DEF StockInv
  <2>5. QED
    BY <2>2, <2>4 DEF StockInv, NoNegativeStock, ledger
<1>3. QED
  BY <1>1, <1>2

LEMMA StepStock ==
    ASSUME TypeInv, StockInv, [Next]_vars
    PROVE  StockInv'
<1>0. att \in [Attempts -> Attempt]
  BY DEF TypeInv, TypeOK
<1>1. CASE UNCHANGED vars
  BY <1>1 DEF vars, ledger, StockInv, NoNegativeStock
<1>2. ASSUME NEW p \in Attempts, Arrive(p)
      PROVE  StockInv'
  <2>1. ASSUME NEW new, new.pc # "write", att' = [att EXCEPT ![p] = new]
        PROVE  StockInv'
    BY <1>2, <2>1, QuietStock DEF Arrive, ledger
  <2>2. ASSUME NEW k, att' = [att EXCEPT ![p] = [@ EXCEPT !.kind = "record", !.key = k,
                                 !.pc = IF k = NoKey THEN "basis" ELSE "find"]]
        PROVE  StockInv'
    <3> DEFINE new == [att[p] EXCEPT !.kind = "record", !.key = k,
                                     !.pc = IF k = NoKey THEN "basis" ELSE "find"]
    <3>1. new.pc # "write" /\ att' = [att EXCEPT ![p] = new]
      BY <1>0, <2>2 DEF Attempt
    <3> HIDE DEF new
    <3>2. QED
      BY <2>1, <3>1
  <2>3. CASE att' = [att EXCEPT ![p] = [@ EXCEPT !.kind = "bulk", !.pc = "basis"]]
    <3> DEFINE new == [att[p] EXCEPT !.kind = "bulk", !.pc = "basis"]
    <3>1. new.pc # "write" /\ att' = [att EXCEPT ![p] = new]
      BY <1>0, <2>3 DEF Attempt
    <3> HIDE DEF new
    <3>2. QED
      BY <2>1, <3>1
  <2>4. ASSUME NEW e, att' = [att EXCEPT ![p] = [@ EXCEPT !.kind = "void", !.target = e,
                                 !.pc = "void"]]
        PROVE  StockInv'
    <3> DEFINE new == [att[p] EXCEPT !.kind = "void", !.target = e, !.pc = "void"]
    <3>1. new.pc # "write" /\ att' = [att EXCEPT ![p] = new]
      BY <1>0, <2>4 DEF Attempt
    <3> HIDE DEF new
    <3>2. QED
      BY <2>1, <3>1
  <2>5. QED
    BY <1>2, <2>2, <2>3, <2>4 DEF Arrive
<1>3. ASSUME NEW p \in Attempts, FindKey(p) \/ Reread(p)
      PROVE  StockInv'
  <2>1. UNCHANGED ledger
    BY <1>3 DEF FindKey, Reread
  <2>2. (\E a : Reply(p, a)) \/ Goto(p, "key") \/ Goto(p, "failed")
    BY <1>3 DEF FindKey, Reread
  <2>3. QED
    BY <2>1, <2>2, GotoStock, ReplyStock DEF ledger, Steps
<1>4. ASSUME NEW p \in Attempts, InsertKey(p)
      PROVE  StockInv'
  BY <1>4, RollbackStock, GotoStock DEF InsertKey, ledger, Steps
<1>5. ASSUME NEW p \in Attempts, Basis(p) \/ ReadEvent(p)
      PROVE  StockInv'
  <2>1. ASSUME NEW l, NEW q, UNCHANGED ledger,
               att' = [att EXCEPT ![p] = [@ EXCEPT !.lot = l, !.qty = q, !.pc = "read"]]
        PROVE  StockInv'
    <3> DEFINE new == [att[p] EXCEPT !.lot = l, !.qty = q, !.pc = "read"]
    <3>1. new.pc # "write" /\ att' = [att EXCEPT ![p] = new]
      BY <1>0, <2>1 DEF Attempt
    <3> HIDE DEF new
    <3>2. QED
      BY <2>1, <3>1, QuietStock DEF ledger
  <2>2. CASE Reject(p)
    BY <2>2, RollbackStock DEF Reject, Steps
  <2>3. QED
    BY <1>5, <2>1, <2>2 DEF Basis, ReadEvent
<1>6. ASSUME NEW p \in Attempts, ReadStock(p) \/ WriteStock(p) \/ Commit(p)
      PROVE  StockInv'
  BY <1>6, ReadStockStock, WriteStockStock, CommitStock
<1>7. ASSUME NEW p \in Attempts, EndDeadlock(p) \/ Fail(p)
      PROVE  StockInv'
  BY <1>7, RollbackStock DEF EndDeadlock, Fail, Reject, Steps
<1>8. QED
  BY <1>1, <1>2, <1>3, <1>4, <1>5, <1>6, <1>7 DEF Next, Step

(* No committed balance is negative, for any number of attempts, bulk      *)
(* requests of any size, and whatever commits between check and write.     *)
THEOREM StockNeverNegative == Spec => []NoNegativeStock
<1>1. Init => StockInv
  BY DEF Init, StockInv, NoNegativeStock, NewAttempt
<1>2. TypeInv /\ StockInv /\ [Next]_vars => StockInv'
  BY StepStock
<1>3. StockInv => NoNegativeStock
  BY DEF StockInv
<1>4. QED
  BY <1>1, <1>2, <1>3, Invariant, PTL DEF Spec
-----------------------------------------------------------------------------
(* One request at a time: what is missing from a balance is the waste that *)
(* stands.                                                                 *)

(* What an event takes from the balance of lot l ...                       *)
Worth(ev, l) == IF ev.state = "recorded" /\ ev.lot = l THEN ev.qty ELSE 0
Taken(w, l)  == [e \in Events |-> Worth(w[e], l)]

(* ... and the events as a transaction is going to leave them.             *)
Ahead(p) ==
    [e \in Events |->
        IF att[p].pc = "commit" /\ e = att[p].target
        THEN [waste[e] EXCEPT !.state = "voided"]
        ELSE IF e[1] = p /\ e[2] \in DOMAIN att[p].lines
             THEN att[p].lines[e[2]]
             ELSE waste[e]]

Waits(p) == att[p].pc \in {"idle", "find", "key", "reread"}

OneAtATime == \A p, q \in Attempts : Active(p) /\ Active(q) => p = q
OwnLocks   == \A l \in LotIds : rowLock[l] # NoAttempt => InTransaction(rowLock[l])

Room(p) == att[p].pc = "commit" \/ Len(att[p].lines) < BulkSize
Position(p) ==
    /\ Waits(p) => att[p].lines = <<>>
    /\ att[p].kind = "void" => att[p].lines = <<>>
    /\ att[p].kind # "void" => att[p].target = NoAttempt
    /\ att[p].kind = "void" => /\ att[p].target \in Events
                               /\ att[p].pc \in {"void", "read", "write", "commit"}
    /\ att[p].kind = "void" /\ ~Waits(p) /\ att[p].pc # "void"
           => waste[att[p].target].state = "recorded"
    /\ att[p].kind = "void" /\ att[p].pc \in {"read", "write"}
           => /\ att[p].lot = waste[att[p].target].lot
              /\ att[p].qty = waste[att[p].target].qty
    /\ att[p].kind # "void" => Room(p)
    /\ att[p].pc = "write" => att[p].next = Visible(p, att[p].lot) + att[p].qty
    /\ Len(att[p].lines) <= BulkSize
Positions == \A p \in Attempts : att[p].pc \notin Finished => Position(p)

Balanced(s, w) == \A l \in LotIds : s[l] + SumOver(Taken(w, l), Events) = InitialStock[l]
Underway(p)    == Balanced([l \in LotIds |-> Visible(p, l)], Ahead(p))

SerialInv ==
    /\ OneAtATime
    /\ OwnLocks
    /\ Positions
    /\ Balanced(stock, waste)
    /\ \A p \in Attempts : Active(p) => Underway(p)

LEMMA FiniteEvents == IsFiniteSet(Events)
<1>1. IsFiniteSet(1..BulkSize)
  BY FS_Interval
<1>2. QED
  BY <1>1, FS_Product DEF Events

LEMMA TakenType ==
    ASSUME NEW w \in [Events -> Event], NEW l \in LotIds
    PROVE  Taken(w, l) \in [Events -> Nat]
BY DEF Taken, Worth, Event

(* One event changes: what is taken from a balance changes by as much.     *)
LEMMA OneEventChanges ==
    ASSUME NEW w \in [Events -> Event],
           NEW v \in [Events -> Event], NEW x \in Events,
           \A y \in Events \ {x} : v[y] = w[y], NEW l \in LotIds
    PROVE  /\ SumOver(Taken(v, l), Events) \in Nat
           /\ SumOver(Taken(w, l), Events) \in Nat
           /\ SumOver(Taken(v, l), Events) + Worth(w[x], l)
                  = SumOver(Taken(w, l), Events) + Worth(v[x], l)
<1>1. IsFiniteSet(Events)
  BY FiniteEvents
<1>2. Taken(v, l) \in [Events -> Nat] /\ Taken(w, l) \in [Events -> Nat]
  BY TakenType
<1>3. \A y \in Events : Taken(v, l)[y] = Worth(v[y], l) /\ Taken(w, l)[y] = Worth(w[y], l)
  BY DEF Taken
<1>4. \A y \in Events \ {x} : Taken(v, l)[y] = Taken(w, l)[y]
  BY <1>3
<1>5. SumOver(Taken(v, l), Events) + Taken(w, l)[x]
          = SumOver(Taken(w, l), Events) + Taken(v, l)[x]
  BY <1>1, <1>2, <1>4, SumOverChange
<1>6. QED
  BY <1>1, <1>2, <1>3, <1>5, SumOverNatural

(* The recursive sum of the property is the sum over all events.           *)
LEMMA StandingIsTaken ==
    ASSUME waste \in [Events -> Event], NEW l \in LotIds
    PROVE  Standing(l) = SumOver(Taken(waste, l), Events)
<1> DEFINE E == {e \in Events : waste[e].state = "recorded" /\ waste[e].lot = l}
           Q == [e \in Events |-> waste[e].qty]
           Adds(s, g) == IF s = {} THEN 0
                         ELSE LET e == CHOOSE e \in s : TRUE
                              IN  waste[e].qty + g[s \ {e}]
           H == CHOOSE g : g = [s \in SUBSET E |-> Adds(s, g)]
<1>1. Standing(l) = H[E]
  BY Zenon DEF Standing
<1>2. IsFiniteSet(Events) /\ Taken(waste, l) \in [Events -> Nat]
  BY FiniteEvents, TakenType
<1>3. E \in SUBSET Events /\ IsFiniteSet(E)
  BY <1>2, FS_Subset
<1>4. Q \in [Events -> Nat] /\ [e \in E |-> Q[e]] \in [E -> Nat]
  BY DEF Event
<1>5. ASSUME NEW s \in SUBSET E, NEW g
      PROVE  SumStep([e \in E |-> Q[e]], g, s) = Adds(s, g)
  <2>1. CASE s = {}
    BY <2>1 DEF SumStep
  <2>2. CASE s # {}
    <3>1. Any(s) \in s
      BY <2>2, AnyIsIn
    <3>2. Any(s) \in E /\ Any(s) \in Events
      BY <3>1, <1>3
    <3>3. [e \in E |-> Q[e]][Any(s)] = waste[Any(s)].qty
      BY <3>2
    <3>4. Adds(s, g) = waste[Any(s)].qty + g[s \ {Any(s)}]
      BY <2>2, Zenon DEF Any
    <3>5. QED
      BY <2>2, <3>3, <3>4 DEF SumStep
  <2>3. QED
    BY <2>1, <2>2
<1>6. ASSUME NEW g
      PROVE  IsSum([e \in E |-> Q[e]], g, E) <=> g = [s \in SUBSET E |-> Adds(s, g)]
  <2> HIDE DEF Adds, E, Q
  <2>1. [s \in SUBSET E |-> SumStep([e \in E |-> Q[e]], g, s)] = [s \in SUBSET E |-> Adds(s, g)]
    BY <1>5
  <2>2. QED
    BY <2>1 DEF IsSum
<1>7. IsSum([e \in E |-> Q[e]], H, E)
  <2> HIDE DEF Adds, E, Q
  <2>1. \E g : IsSum([e \in E |-> Q[e]], g, E)
    BY <1>3, <1>4, SumExists
  <2>2. \E g : g = [s \in SUBSET E |-> Adds(s, g)]
    BY <1>6, <2>1
  <2>3. H = [s \in SUBSET E |-> Adds(s, H)]
    BY <2>2
  <2>4. QED
    BY <1>6, <2>3
<1>8. \A e \in Events \ E : Taken(waste, l)[e] = 0
  BY DEF Taken, Worth
<1>9. \A e \in E : [x \in E |-> Q[x]][e] = Taken(waste, l)[e]
  BY DEF Taken, Worth
<1>10. H[E] = SumOver(Taken(waste, l), Events)
  <2> HIDE DEF H, E, Q
  <2>1. QED
    BY <1>2, <1>3, <1>7, <1>8, <1>9, SumOverPart
<1>11. QED
  BY <1>1, <1>10

-----------------------------------------------------------------------------
(* What the invariant says of the request a step is taken for.             *)

Alone(p) == \A q \in Attempts \ {p} : ~Active(q)
OthersWait(p) == \A q \in Attempts \ {p} : att'[q] = att[q]

LEMMA Acting ==
    ASSUME TypeOK, SerialInv, NEW p \in Attempts, Active(p)
    PROVE  /\ Alone(p)
           /\ att[p].pc \notin Finished /\ Position(p)
           /\ \A l \in LotIds : rowLock[l] \in {p, NoAttempt}
           /\ ~InTransaction(p) => \A l \in LotIds : rowLock[l] = NoAttempt
           /\ Underway(p) /\ Balanced(stock, waste)
<1>1. Alone(p)
  BY DEF SerialInv, OneAtATime, Alone
<1>2. att[p].pc \notin Finished
  BY DEF Active, Finished
<1>3. ASSUME NEW l \in LotIds, rowLock[l] # NoAttempt
      PROVE  rowLock[l] = p /\ InTransaction(p)
  <2>1. rowLock[l] \in Attempts /\ InTransaction(rowLock[l])
    BY <1>3 DEF SerialInv, OwnLocks, TypeOK
  <2>2. Active(rowLock[l])
    BY <2>1 DEF Active, InTransaction
  <2>3. QED
    BY <1>1, <2>1, <2>2 DEF Alone
<1>4. QED
  BY <1>1, <1>2, <1>3 DEF SerialInv, Positions

(* The requests that wait take no part: the invariant is about the other.  *)
LEMMA SerialFromOne ==
    ASSUME SerialInv, NEW p \in Attempts, Alone(p), OthersWait(p),
           \A l \in LotIds : rowLock'[l] \in {p, NoAttempt},
           \A l \in LotIds : rowLock'[l] = p => InTransaction(p)',
           att'[p].pc \notin Finished => Position(p)',
           Balanced(stock, waste)',
           Active(p)' => Underway(p)'
    PROVE  SerialInv'
<1>1. ASSUME NEW q \in Attempts \ {p}
      PROVE  /\ ~Active(q)'
             /\ att'[q].pc \notin Finished => Position(q)'
  <2>1. ~Active(q) /\ att'[q] = att[q]
    BY DEF Alone, OthersWait
  <2>2. ~Active(q)'
    BY <2>1 DEF Active
  <2>3. ASSUME att[q].pc \notin Finished
        PROVE  Position(q)'
    <3>1. att[q].pc = "idle" /\ Position(q)
      BY <2>1, <2>3 DEF Active, Finished, SerialInv, Positions
    <3>2. QED
      BY <2>1, <3>1 DEF Position, Waits, Room
  <2>4. QED
    BY <2>1, <2>2, <2>3
<1>2. OneAtATime' /\ Positions'
  BY <1>1 DEF OneAtATime, Positions
<1>3. OwnLocks'
  BY DEF OwnLocks
<1>4. \A q \in Attempts : Active(q)' => Underway(q)'
  BY <1>1
<1>5. QED
  BY <1>2, <1>3, <1>4 DEF SerialInv

LEMMA AheadType ==
    ASSUME TypeOK, NEW p \in Attempts
    PROVE  Ahead(p) \in [Events -> Event]
<1>1. waste \in [Events -> Event] /\ att[p].lines \in Seq(Event)
  BY DEF TypeOK, Attempt
<1>2. ASSUME NEW ev \in Event
      PROVE  [ev EXCEPT !.state = "voided"] \in Event
  BY Zenon DEF Event
<1>3. \A i \in DOMAIN att[p].lines : att[p].lines[i] \in Event
  BY <1>1
<1>4. QED
  BY <1>1, <1>2, <1>3 DEF Ahead

(* Before the first line a transaction leaves the events as they are.      *)
LEMMA NothingAhead ==
    ASSUME waste' \in [Events -> Event], NEW p \in Attempts,
           att'[p].lines = <<>>, att'[p].pc # "commit"
    PROVE  Ahead(p)' = waste'
BY DEF Ahead

LEMMA NothingWritten ==
    ASSUME stock' \in [LotIds -> Int], NEW p \in Attempts,
           \A l \in LotIds : rowLock'[l] = NoAttempt
    PROVE  [l \in LotIds |-> Visible(p, l)]' = stock'
BY DEF Visible

LEMMA UnderwayAnew ==
    ASSUME TypeOK', NEW p \in Attempts, Balanced(stock, waste)',
           att'[p].lines = <<>>, att'[p].pc # "commit",
           \A l \in LotIds : rowLock'[l] = NoAttempt
    PROVE  Underway(p)'
<1>1. Ahead(p)' = waste'
  BY NothingAhead DEF TypeOK
<1>2. [l \in LotIds |-> Visible(p, l)]' = stock'
  BY NothingWritten DEF TypeOK
<1>3. QED
  BY <1>1, <1>2 DEF Underway

LEMMA BalanceKept ==
    ASSUME Balanced(stock, waste), UNCHANGED <<stock, waste>>
    PROVE  Balanced(stock, waste)'
BY DEF Balanced, Taken

(* Only the request's own position changes, between its writes.            *)
LEMMA LocalSerial ==
    ASSUME TypeOK, SerialInv, NEW p \in Attempts, Active(p), OthersWait(p),
           UNCHANGED <<ledger, keyRow, events>>,
           att'[p].lines = att[p].lines,
           att[p].pc # "commit", att'[p].pc # "commit",
           InTransaction(p) => InTransaction(p)',
           att'[p].pc \notin Finished => Position(p)'
    PROVE  SerialInv'
<1>1. stock' = stock /\ rowLock' = rowLock /\ draft' = draft /\ waste' = waste
  BY DEF ledger, events
<1>2. Ahead(p)' = Ahead(p)
  BY <1>1 DEF Ahead
<1>3. [l \in LotIds |-> Visible(p, l)]' = [l \in LotIds |-> Visible(p, l)]
  BY <1>1 DEF Visible
<1>4. Underway(p)'
  BY <1>2, <1>3, Acting DEF Underway
<1>5. QED
  BY <1>1, <1>4, Acting, BalanceKept, SerialFromOne

LEMMA GotoSerial ==
    ASSUME TypeOK, SerialInv, NEW p \in Attempts, Active(p),
           att[p].pc # "commit", NEW s \in {"key", "basis", "failed"}, Goto(p, s),
           Waits(p), att[p].kind # "void",
           UNCHANGED <<ledger, keyRow, events>>
    PROVE  SerialInv'
<1>1. /\ OthersWait(p)
      /\ att'[p] = [att[p] EXCEPT !.pc = s]
  BY DEF Goto, OthersWait, TypeOK
<1>2. /\ att'[p].pc = s /\ att'[p].lines = att[p].lines
      /\ att'[p].kind = att[p].kind /\ att'[p].target = att[p].target
  BY <1>1 DEF TypeOK, Attempt
<1>3. Position(p)' /\ ~InTransaction(p)
  BY <1>2, Acting DEF Position, Waits, Room, InTransaction
<1>4. QED
  BY <1>1, <1>2, <1>3, LocalSerial

LEMMA ReplySerial ==
    ASSUME TypeOK, SerialInv, NEW p \in Attempts, Active(p), Waits(p),
           NEW a \in Attempts, Reply(p, a), UNCHANGED <<ledger, keyRow, events>>
    PROVE  SerialInv'
<1>1. /\ OthersWait(p)
      /\ att'[p] = [att[p] EXCEPT !.pc = "answered", !.answer = a]
  BY DEF Reply, OthersWait, TypeOK
<1>2. att'[p].pc = "answered" /\ att'[p].lines = att[p].lines
  BY <1>1 DEF TypeOK, Attempt
<1>3. ~InTransaction(p) /\ att[p].pc # "commit"
  BY DEF Waits, InTransaction
<1>4. QED
  BY <1>1, <1>2, <1>3, LocalSerial DEF Finished

LEMMA RollbackSerial ==
    ASSUME TypeOK, TypeOK', SerialInv, NEW p \in Attempts, Active(p),
           NEW s, Rollback(p, s), s = "failed" \/ (s = "reread" /\ Waits(p))
    PROVE  SerialInv'
<1>1. /\ OthersWait(p)
      /\ att'[p] = [att[p] EXCEPT !.pc = s]
      /\ UNCHANGED <<stock, waste>>
  BY DEF Rollback, Goto, OthersWait, TypeOK, events
<1>2. /\ att'[p].pc = s /\ att'[p].lines = att[p].lines
      /\ att'[p].kind = att[p].kind /\ att'[p].target = att[p].target
  BY <1>1 DEF TypeOK, Attempt
<1>3. \A l \in LotIds : rowLock'[l] = NoAttempt
  BY Acting DEF Rollback, Release
<1>4. Balanced(stock, waste)'
  BY <1>1, Acting, BalanceKept
<1>5. CASE s = "failed"
  <2>1. att'[p].pc \in Finished /\ ~Active(p)'
    BY <1>2, <1>5 DEF Finished, Active
  <2>2. QED
    BY <1>1, <1>3, <1>4, <2>1, Acting, SerialFromOne
<1>6. CASE s = "reread" /\ Waits(p)
  <2>1. Position(p)'
    BY <1>2, <1>6, Acting DEF Position, Waits, Room
  <2>2. att'[p].lines = <<>> /\ att'[p].pc # "commit"
    BY <1>2, <1>6, Acting DEF Position
  <2>3. Underway(p)'
    BY <1>3, <1>4, <2>2, UnderwayAnew
  <2>4. QED
    BY <1>1, <1>3, <1>4, <2>1, <2>3, Acting, SerialFromOne
<1>7. QED
  BY <1>5, <1>6

LEMMA RejectSerial ==
    ASSUME TypeOK, TypeOK', SerialInv, NEW p \in Attempts, Active(p), Reject(p)
    PROVE  SerialInv'
BY RollbackSerial DEF Reject

LEMMA ArriveSerial ==
    ASSUME TypeOK, TypeOK', KeyInv, SerialInv, NEW p \in Attempts, Arrive(p),
           \A q \in Attempts : ~Active(q)
    PROVE  SerialInv'
<1>1. /\ att[p].pc = "idle" /\ Position(p)
      /\ att[p].lines = <<>> /\ att[p].target = NoAttempt
  BY DEF Arrive, SerialInv, Positions, Finished, Position, Waits, KeyInv, Untouched
<1>2. UNCHANGED <<stock, rowLock, waste>> /\ OthersWait(p)
  BY DEF Arrive, ledger, events, OthersWait, TypeOK
<1>3. \A l \in LotIds : rowLock[l] = NoAttempt
  BY DEF SerialInv, OwnLocks, TypeOK, Active, InTransaction
<1>4. \/ \E k \in Keys \cup {NoKey} :
            att'[p] = [att[p] EXCEPT !.kind = "record", !.key = k,
                          !.pc = IF k = NoKey THEN "basis" ELSE "find"]
      \/ att'[p] = [att[p] EXCEPT !.kind = "bulk", !.pc = "basis"]
      \/ \E e \in Events :
            att'[p] = [att[p] EXCEPT !.kind = "void", !.target = e, !.pc = "void"]
  BY DEF Arrive, TypeOK
<1>5. att[p] \in Attempt
  BY DEF TypeOK
<1>6. /\ att'[p].lines = <<>>
      /\ \/ /\ att'[p].kind \in {"record", "bulk"} /\ att'[p].target = NoAttempt
            /\ att'[p].pc \in {"basis", "find"}
         \/ /\ att'[p].kind = "void" /\ att'[p].target \in Events /\ att'[p].pc = "void"
  BY <1>1, <1>4, <1>5 DEF Attempt
<1>7. Position(p)'
  BY <1>6 DEF Position, Waits, Room
<1>8. Balanced(stock, waste)'
  BY <1>2, BalanceKept DEF SerialInv
<1>9. Underway(p)'
  BY <1>2, <1>3, <1>6, <1>8, UnderwayAnew
<1>10. QED
  BY <1>2, <1>3, <1>7, <1>8, <1>9, SerialFromOne DEF Alone

LEMMA BasisSerial ==
    ASSUME TypeOK, TypeOK', SerialInv, NEW p \in Attempts, Basis(p)
    PROVE  SerialInv'
<1>1. att[p].pc = "basis" /\ Active(p) /\ InTransaction(p)
  BY DEF Basis, Active, InTransaction
<1>2. CASE Reject(p)
  BY <1>1, <1>2, RejectSerial
<1>3. ASSUME NEW l \in LotIds, NEW q \in Quantities,
             att' = [att EXCEPT ![p] = [@ EXCEPT !.lot = l, !.qty = -q, !.pc = "read"]],
             UNCHANGED <<ledger, keyRow, events>>
      PROVE  SerialInv'
  <2>1. /\ OthersWait(p)
        /\ att'[p] = [att[p] EXCEPT !.lot = l, !.qty = -q, !.pc = "read"]
    BY <1>3 DEF OthersWait, TypeOK
  <2>2. /\ att'[p].pc = "read" /\ att'[p].lines = att[p].lines
        /\ att'[p].kind = att[p].kind /\ att'[p].target = att[p].target
    BY <2>1 DEF TypeOK, Attempt
  <2>3. att[p].kind # "void"
    BY <1>1, Acting DEF Position, Waits
  <2>4. Position(p)' /\ InTransaction(p)'
    BY <1>1, <2>2, <2>3, Acting DEF Position, Waits, Room, InTransaction
  <2>5. QED
    BY <1>1, <1>3, <2>1, <2>2, <2>4, LocalSerial
<1>4. \E w \in LotIds, q \in Quantities :
         \/ Reject(p)
         \/ \E l \in LedgerLot(p, w, q) :
              /\ att' = [att EXCEPT ![p] = [@ EXCEPT !.lot = l, !.qty = -q, !.pc = "read"]]
              /\ UNCHANGED <<ledger, keyRow, events>>
  BY DEF Basis
<1>5. QED
  BY <1>2, <1>3, <1>4, LedgerLotType

LEMMA ReadEventSerial ==
    ASSUME TypeOK, TypeOK', SerialInv, KeyInv, NEW p \in Attempts, ReadEvent(p),
           InputOK(att[p])
    PROVE  SerialInv'
<1>1. /\ att[p].pc = "void" /\ Active(p) /\ InTransaction(p)
      /\ att[p].kind = "void" /\ att[p].target \in Events
  BY DEF ReadEvent, Active, InTransaction, InputOK
<1>2. PICK e \in Events : e = att[p].target
  BY <1>1
<1>3. CASE Reject(p)
  BY <1>1, <1>3, RejectSerial
<1>4. CASE /\ NotYetVoided(e)
           /\ att' = [att EXCEPT ![p] = [@ EXCEPT
                         !.lot = waste[e].lot, !.qty = waste[e].qty, !.pc = "read"]]
           /\ UNCHANGED <<ledger, keyRow, events>>
  <2>1. /\ OthersWait(p)
        /\ att'[p] = [att[p] EXCEPT !.lot = waste[e].lot, !.qty = waste[e].qty,
                                    !.pc = "read"]
    BY <1>4 DEF OthersWait, TypeOK
  <2>2. /\ att'[p].pc = "read" /\ att'[p].lines = att[p].lines
        /\ att'[p].kind = att[p].kind /\ att'[p].target = e
        /\ att'[p].lot = waste[e].lot /\ att'[p].qty = waste[e].qty
    BY <1>2, <2>1 DEF TypeOK, Attempt
  <2>3. e # NoAttempt
    OBVIOUS
  <2>4. waste[e].state = "recorded" /\ waste' = waste
    BY <1>2, <1>4, <2>3 DEF NotYetVoided, KeyInv, Untouched, Recorded, TypeOK, Event, events
  <2>5. Position(p)' /\ InTransaction(p)'
    BY <1>1, <2>2, <2>4, Acting DEF Position, Waits, Room, InTransaction
  <2>6. QED
    BY <1>1, <1>4, <2>1, <2>2, <2>5, LocalSerial
<1>5. QED
  BY <1>2, <1>3, <1>4 DEF ReadEvent

LEMMA ReadStockSerial ==
    ASSUME TypeOK, TypeOK', SerialInv, NEW p \in Attempts, ReadStock(p)
    PROVE  SerialInv'
<1>1. att[p].pc = "read" /\ Active(p) /\ InTransaction(p)
  BY DEF ReadStock, Active, InTransaction
<1>2. CASE Overdraws(p)
  BY <1>1, <1>2, RejectSerial DEF ReadStock
<1>3. CASE ~Overdraws(p)
  <2>1. PICK n : n = Visible(p, att[p].lot) + att[p].qty
    OBVIOUS
  <2>2. /\ OthersWait(p)
        /\ att'[p] = [att[p] EXCEPT !.next = n, !.pc = "write"]
        /\ UNCHANGED <<ledger, keyRow, events>>
    BY <1>3, <2>1 DEF ReadStock, OthersWait, TypeOK
  <2>3. /\ att'[p].pc = "write" /\ att'[p].lines = att[p].lines
        /\ att'[p].kind = att[p].kind /\ att'[p].target = att[p].target
        /\ att'[p].lot = att[p].lot /\ att'[p].qty = att[p].qty
        /\ att'[p].next = n
    BY <2>2 DEF TypeOK, Attempt
  <2>4. Visible(p, att[p].lot)' = Visible(p, att[p].lot) /\ waste' = waste
    BY <2>2, <2>3 DEF Visible, ledger, events
  <2>5. att'[p].next = Visible(p, att[p].lot)' + att'[p].qty
    BY <2>1, <2>3, <2>4
  <2>6. Position(p)' /\ InTransaction(p)'
    BY <1>1, <2>3, <2>4, <2>5, Acting DEF Position, Waits, Room, InTransaction
  <2>7. QED
    BY <1>1, <2>2, <2>3, <2>6, LocalSerial
<1>4. QED
  BY <1>2, <1>3

(* A write moves the balance as the event it stands for will.              *)
LEMMA WriteStockAhead ==
    ASSUME TypeOK, TypeOK', SerialInv,
           NEW p \in Attempts, WriteStock(p), Active(p),
           OthersWait(p), NEW x \in Events,
           \A y \in Events \ {x} : Ahead(p)'[y] = Ahead(p)[y],
           Worth(Ahead(p)[x], att[p].lot)
               = Worth(Ahead(p)'[x], att[p].lot) + att[p].qty,
           \A l \in LotIds \ {att[p].lot} :
               Worth(Ahead(p)[x], l) = Worth(Ahead(p)'[x], l),
           att[p].next = Visible(p, att[p].lot) + att[p].qty
    PROVE  Underway(p)'
<1>1. att[p].lot \in LotIds /\ att[p].qty \in Int /\ att[p].next \in Int
  BY DEF TypeOK, Attempt
<1>2. Ahead(p) \in [Events -> Event] /\ Ahead(p)' \in [Events -> Event]
  <2>1. Ahead(p)' \in [Events -> Event]
    <3>1. waste' \in [Events -> Event] /\ att'[p].lines \in Seq(Event)
      BY DEF TypeOK, Attempt
    <3>2. ASSUME NEW ev \in Event
          PROVE  [ev EXCEPT !.state = "voided"] \in Event
      BY Zenon DEF Event
    <3>3. \A i \in DOMAIN att'[p].lines : att'[p].lines[i] \in Event
      BY <3>1
    <3>4. QED
      BY <3>1, <3>2, <3>3 DEF Ahead
  <2>2. QED
    BY <2>1, AheadType
<1>3. PICK v \in [Events -> Event] : v = Ahead(p)'
  BY <1>2
<1>4. PICK w \in [Events -> Event] : w = Ahead(p)
  BY <1>2
<1>5. ASSUME NEW l \in LotIds
      PROVE  Visible(p, l)' + SumOver(Taken(v, l), Events) = InitialStock[l]
  <2>1. /\ SumOver(Taken(v, l), Events) \in Nat
        /\ SumOver(Taken(w, l), Events) \in Nat
        /\ SumOver(Taken(v, l), Events) + Worth(w[x], l)
               = SumOver(Taken(w, l), Events) + Worth(v[x], l)
    BY <1>3, <1>4, OneEventChanges
  <2>2. Visible(p, l) + SumOver(Taken(w, l), Events) = InitialStock[l]
    BY <1>4, Acting DEF Underway, Balanced
  <2>3. Visible(p, l) \in Int /\ InitialStock[l] \in Nat
    BY VisibleType
  <2>4. Worth(w[x], l) \in Nat /\ Worth(v[x], l) \in Nat
    BY DEF Worth, Event
  <2>5. CASE l = att[p].lot
    <3>1. Visible(p, l)' = att[p].next
      BY <2>5, <1>1 DEF WriteStock, Visible, TypeOK
    <3>2. Worth(w[x], l) = Worth(v[x], l) + att[p].qty
      BY <2>5, <1>3, <1>4
    <3>3. att[p].next = Visible(p, l) + att[p].qty
      BY <2>5
    <3>4. QED
      BY <1>1, <2>1, <2>2, <2>3, <2>4, <3>1, <3>2, <3>3
  <2>6. CASE l # att[p].lot
    <3>1. Visible(p, l)' = Visible(p, l)
      BY <2>6, <1>1 DEF WriteStock, Visible, TypeOK
    <3>2. Worth(w[x], l) = Worth(v[x], l)
      BY <2>6, <1>3, <1>4
    <3>3. QED
      BY <2>1, <2>2, <2>3, <2>4, <3>1, <3>2
  <2>7. QED
    BY <2>5, <2>6
<1>6. QED
  BY <1>3, <1>5 DEF Underway, Balanced

LEMMA WriteStockSerial ==
    ASSUME TypeOK, TypeOK', SerialInv, KeyInv,
           NEW p \in Attempts, WriteStock(p), InputOK(att[p])
    PROVE  SerialInv'
<1>1. att[p].pc = "write" /\ Active(p) /\ Position(p)
  BY Acting DEF WriteStock, Active
<1>2. /\ OthersWait(p) /\ stock' = stock /\ waste' = waste
      /\ \A l \in LotIds : rowLock'[l] \in {p, NoAttempt}
  BY <1>1, Acting DEF WriteStock, OthersWait, TypeOK, events
<1>3. att[p].lot \in LotIds /\ att[p].qty \in Int /\ att[p].lines \in Seq(Event)
  BY DEF TypeOK, Attempt
<1>4. PICK s \in Seq(Event) :
         s = IF att[p].kind = "void" THEN <<>> ELSE Append(att[p].lines, Line(p))
  <2>1. CASE att[p].kind = "void"
    <3>1. <<>> \in Seq(Event)
      OBVIOUS
    <3>2. QED
      BY <2>1, <3>1, Zenon
  <2>2. CASE att[p].kind # "void"
    <3>1. Line(p) \in Event
      BY <1>1, <1>3, <2>2 DEF Line, Event, InputOK
    <3>2. Append(att[p].lines, Line(p)) \in Seq(Event)
      BY <1>3, <3>1
    <3>3. QED
      BY <2>2, <3>2, Zenon
  <2>3. QED
    BY <2>1, <2>2
<1>5. PICK c : c = IF att[p].kind = "bulk" /\ Len(s) < BulkSize THEN "basis" ELSE "commit"
  OBVIOUS
<1>6. att'[p] = [att[p] EXCEPT !.lines = s, !.pc = c]
  BY <1>4, <1>5 DEF WriteStock, TypeOK
<1>7. /\ att'[p].pc = c /\ att'[p].lines = s
      /\ att'[p].kind = att[p].kind /\ att'[p].target = att[p].target
  BY <1>6 DEF TypeOK, Attempt
<1>8. c \in {"basis", "commit"} /\ InTransaction(p)'
  BY <1>5, <1>7 DEF InTransaction
<1>9. Balanced(stock, waste)'
  BY <1>1, <1>2, Acting, BalanceKept
<1>10. CASE att[p].kind = "void"
  <2>1. PICK x \in Events : x = att[p].target
    BY <1>1, <1>10 DEF Position
  <2>2. /\ s = <<>> /\ c = "commit" /\ att[p].lines = <<>>
        /\ waste[x].state = "recorded" /\ att[p].lot = waste[x].lot
        /\ att[p].qty = waste[x].qty
    BY <1>1, <1>4, <1>5, <1>10, <2>1 DEF Position, Waits
  <2>3. Ahead(p) = waste
    BY <1>1, <2>2 DEF Ahead, TypeOK
  <2>4. Ahead(p)' = [y \in Events |-> IF y = x THEN [waste[y] EXCEPT !.state = "voided"]
                                              ELSE waste[y]]
    BY <1>2, <1>7, <2>1, <2>2 DEF Ahead
  <2>5. waste[x] \in Event
    BY DEF TypeOK
  <2>6. PICK d : d = [waste[x] EXCEPT !.state = "voided"]
    OBVIOUS
  <2>7. d.state = "voided"
    BY <2>5, <2>6 DEF Event
  <2>8. Ahead(p)'[x] = d /\ Ahead(p)[x] = waste[x]
    BY <2>3, <2>4, <2>6
  <2>9. \A l : Worth(d, l) = 0
    BY <2>7 DEF Worth
  <2>10. \A l : Worth(waste[x], l) = IF l = att[p].lot THEN att[p].qty ELSE 0
    BY <2>2 DEF Worth
  <2>11. /\ \A y \in Events \ {x} : Ahead(p)'[y] = Ahead(p)[y]
         /\ Worth(Ahead(p)[x], att[p].lot) = Worth(Ahead(p)'[x], att[p].lot) + att[p].qty
         /\ \A l \in LotIds \ {att[p].lot} :
               Worth(Ahead(p)[x], l) = Worth(Ahead(p)'[x], l)
    <3>1. \A y \in Events \ {x} : Ahead(p)'[y] = Ahead(p)[y]
      BY <2>3, <2>4
    <3>2. \A l : /\ Worth(Ahead(p)'[x], l) = 0
                 /\ Worth(Ahead(p)[x], l) = IF l = att[p].lot THEN att[p].qty ELSE 0
      BY <2>8, <2>9, <2>10, Zenon
    <3>3. QED
      BY <1>3, <3>1, <3>2
  <2>12. Underway(p)'
    BY <1>1, <1>2, <2>11, WriteStockAhead DEF Position
  <2>13. Position(p)'
    BY <1>1, <1>2, <1>7, <1>10, <2>1, <2>2 DEF Position, Waits, Room
  <2>14. QED
    BY <1>1, <1>2, <1>8, <1>9, <2>12, <2>13, Acting, SerialFromOne
<1>11. CASE att[p].kind # "void"
  <2>1. /\ s = Append(att[p].lines, Line(p)) /\ att[p].target = NoAttempt
        /\ Len(att[p].lines) \in Nat /\ Len(att[p].lines) < BulkSize
    BY <1>1, <1>3, <1>4, <1>11 DEF Position, Room
  <2>2. PICK n \in 1..BulkSize : n = Len(att[p].lines) + 1
    BY <2>1
  <2>3. PICK x \in Events : x = <<p, n>>
    BY DEF Events
  <2>4. PICK ln : ln = Line(p)
    OBVIOUS
  <2>5. /\ Len(s) = n /\ DOMAIN s = 1..n /\ s[n] = ln
        /\ DOMAIN att[p].lines = 1..(n - 1)
        /\ \A i \in 1..(n - 1) : s[i] = att[p].lines[i]
    <3>1. Line(p) \in Event
      BY <1>1, <1>3, <1>11 DEF Line, Event, InputOK
    <3>2. QED
      BY <1>3, <2>1, <2>2, <2>4, <3>1
  <2>6. ASSUME NEW y \in Events
        PROVE  /\ Ahead(p)[y] = IF y[1] = p /\ y[2] \in 1..(n - 1)
                                THEN att[p].lines[y[2]] ELSE waste[y]
               /\ Ahead(p)'[y] = IF y[1] = p /\ y[2] \in 1..n THEN s[y[2]] ELSE waste[y]
    <3>1. y # NoAttempt
      OBVIOUS
    <3>2. QED
      BY <1>1, <1>2, <1>7, <2>1, <2>5, <3>1 DEF Ahead
  <2>7. x[1] = p /\ x[2] = n
    BY <2>3
  <2>8. Ahead(p)[x] = waste[x] /\ Ahead(p)'[x] = ln
    BY <2>2, <2>5, <2>6, <2>7
  <2>9. ASSUME NEW y \in Events \ {x}
        PROVE  Ahead(p)'[y] = Ahead(p)[y]
    <3>1. PICK a \in Attempts, i \in 1..BulkSize : y = <<a, i>>
      BY DEF Events
    <3>2. y[1] = a /\ y[2] = i /\ (a # p \/ i # n)
      BY <2>3, <3>1
    <3>3. CASE a # p
      BY <2>6, <3>2, <3>3
    <3>4. CASE i # n
      BY <2>2, <2>5, <2>6, <3>2, <3>4
    <3>5. QED
      BY <3>2, <3>3, <3>4
  <2>10. waste[x].state = "none"
    BY <1>1, <2>2, <2>3 DEF KeyInv, EventsAreOwned, Recorded, Finished, Active, Acting
  <2>11. /\ \A l : Worth(waste[x], l) = 0
         /\ \A l : Worth(ln, l) = IF l = att[p].lot THEN -att[p].qty ELSE 0
    BY <2>4, <2>10 DEF Worth, Line
  <2>12. /\ Worth(Ahead(p)[x], att[p].lot) = Worth(Ahead(p)'[x], att[p].lot) + att[p].qty
         /\ \A l \in LotIds \ {att[p].lot} :
               Worth(Ahead(p)[x], l) = Worth(Ahead(p)'[x], l)
    BY <1>3, <2>8, <2>11
  <2>13. Underway(p)'
    BY <1>1, <1>2, <2>9, <2>12, WriteStockAhead DEF Position
  <2>14. Position(p)'
    BY <1>1, <1>5, <1>7, <1>8, <1>11, <2>1, <2>2, <2>5 DEF Position, Waits, Room
  <2>15. QED
    BY <1>1, <1>2, <1>8, <1>9, <2>13, <2>14, Acting, SerialFromOne
<1>12. QED
  BY <1>10, <1>11

LEMMA CommitSerial ==
    ASSUME TypeOK, TypeOK', SerialInv, NEW p \in Attempts, Commit(p)
    PROVE  SerialInv'
<1>1. att[p].pc = "commit" /\ Active(p)
  BY DEF Commit, Active
<1>2. waste' = Ahead(p)
  BY <1>1 DEF Commit, Ahead
<1>3. stock' = [l \in LotIds |-> Visible(p, l)]
  BY DEF Commit, Visible
<1>4. \A l \in LotIds : rowLock'[l] = NoAttempt
  BY <1>1, Acting DEF Commit, Release
<1>5. Balanced(stock, waste)'
  BY <1>1, <1>2, <1>3, Acting DEF Underway, Balanced, Taken
<1>6. OthersWait(p) /\ att'[p].pc \in {"answered", "failed"}
  <2>1. CASE Reply(p, p)
    BY <2>1 DEF Reply, OthersWait, TypeOK, Attempt
  <2>2. CASE Goto(p, "failed")
    BY <2>2 DEF Goto, OthersWait, TypeOK, Attempt
  <2>3. QED
    BY <2>1, <2>2 DEF Commit
<1>7. att'[p].pc \in Finished /\ ~Active(p)'
  BY <1>6 DEF Finished, Active
<1>8. QED
  BY <1>1, <1>4, <1>5, <1>6, <1>7, Acting, SerialFromOne

LEMMA StepSerial ==
    ASSUME TypeInv, TypeInv', KeyInv, SerialInv,
           [SerialNext]_vars
    PROVE  SerialInv'
<1>0. TypeOK /\ TypeOK' /\ \A q \in Attempts : InputOK(att[q])
  BY DEF TypeInv, InputsOK
<1>1. CASE UNCHANGED vars
  <2>1. UNCHANGED <<stock, rowLock, draft, waste, att>>
    BY <1>1 DEF vars, ledger, events
  <2>2. \A p \in Attempts : /\ Active(p)' = Active(p)
                            /\ Position(p)' = Position(p)
                            /\ Underway(p)' = Underway(p)
                            /\ InTransaction(p)' = InTransaction(p)
    BY <2>1 DEF Active, InTransaction, Position, Waits, Room, Underway, Balanced, Ahead,
                Visible, Taken
  <2>3. Balanced(stock, waste)'
    BY <2>1, BalanceKept DEF SerialInv
  <2>4. OwnLocks'
    BY <2>1 DEF SerialInv, OwnLocks, InTransaction
  <2>5. QED
    BY <2>1, <2>2, <2>3, <2>4 DEF SerialInv, OneAtATime, Positions
<1>2. ASSUME NEW p \in Attempts, FindKey(p)
      PROVE  SerialInv'
  <2>1. /\ att[p].pc = "find" /\ Active(p) /\ Waits(p)
        /\ UNCHANGED <<ledger, keyRow, events>>
    BY <1>2 DEF FindKey, Active, Waits
  <2>2. att[p].kind # "void"
    BY <1>0, <2>1, Acting DEF Position
  <2>3. CASE Replies(att[p].key)
    BY <1>0, <1>2, <2>1, <2>3, ReplySerial DEF FindKey, Replies
  <2>4. CASE ~Replies(att[p].key)
    BY <1>0, <1>2, <2>1, <2>2, <2>4, GotoSerial DEF FindKey
  <2>5. QED
    BY <2>3, <2>4
<1>3. ASSUME NEW p \in Attempts, InsertKey(p)
      PROVE  SerialInv'
  <2>1. att[p].pc = "key" /\ Active(p) /\ Waits(p)
    BY <1>3 DEF InsertKey, Active, Waits
  <2>2. att[p].kind # "void"
    BY <1>0, <2>1, Acting DEF Position
  <2>3. CASE Duplicate(att[p].key)
    BY <1>0, <1>3, <2>1, <2>3, RollbackSerial DEF InsertKey
  <2>4. CASE ~Duplicate(att[p].key)
    BY <1>0, <1>3, <2>1, <2>2, <2>4, GotoSerial DEF InsertKey
  <2>5. QED
    BY <2>3, <2>4
<1>4. ASSUME NEW p \in Attempts, Reread(p)
      PROVE  SerialInv'
  <2>1. /\ att[p].pc = "reread" /\ Active(p) /\ Waits(p)
        /\ UNCHANGED <<ledger, keyRow, events>>
    BY <1>4 DEF Reread, Active, Waits
  <2>2. att[p].kind # "void"
    BY <1>0, <2>1, Acting DEF Position
  <2>3. CASE Replies(att[p].key)
    BY <1>0, <1>4, <2>1, <2>3, ReplySerial DEF Reread, Replies
  <2>4. CASE ~Replies(att[p].key)
    BY <1>0, <1>4, <2>1, <2>2, <2>4, GotoSerial DEF Reread
  <2>5. QED
    BY <2>3, <2>4
<1>5. ASSUME NEW p \in Attempts, Fail(p) \/ EndDeadlock(p)
      PROVE  SerialInv'
  <2>1. Active(p) /\ Reject(p)
    <3>1. CASE Fail(p)
      BY <3>1 DEF Fail
    <3>2. CASE EndDeadlock(p)
      <4>1. Reject(p) /\ Blocker(p) \in Attempts
        BY <3>2 DEF EndDeadlock, Deadlocked
      <4>2. att[p].pc = "write"
        BY <4>1 DEF Blocker
      <4>3. QED
        BY <4>1, <4>2 DEF Active
    <3>3. QED
      BY <1>5, <3>1, <3>2
  <2>2. QED
    BY <1>0, <2>1, RejectSerial
<1>6. ASSUME NEW p \in Attempts, Step(p)
      PROVE  SerialInv'
  BY <1>0, <1>2, <1>3, <1>4, <1>5, <1>6, BasisSerial, ReadEventSerial, ReadStockSerial,
     WriteStockSerial, CommitSerial DEF Step
<1>7. QED
  BY <1>0, <1>1, <1>5, <1>6, ArriveSerial DEF SerialNext

LEMMA InitSerial ==
    ASSUME Init
    PROVE  SerialInv
<1>1. \A p \in Attempts : ~Active(p) /\ Position(p)
  BY DEF Init, NewAttempt, Active, Position, Waits, Room
<1>2. Balanced(stock, waste)
  <2>1. TypeOK
    BY InitType DEF TypeInv
  <2>2. ASSUME NEW l \in LotIds
        PROVE  SumOver(Taken(waste, l), Events) = 0
    <3>1. ASSUME NEW e, NEW h
          PROVE  IsSum(e, h, {}) => h[{}] = 0
      BY DEF IsSum, SumStep
    <3>2. \A e \in Events : Taken(waste, l)[e] = 0
      BY DEF Init, NoEvent, Taken, Worth
    <3>3. IsFiniteSet(Events) /\ Taken(waste, l) \in [Events -> Nat]
      BY <2>1, FiniteEvents, TakenType DEF TypeOK
    <3>4. PICK h : IsSum(<<>>, h, {})
      <4>1. IsFiniteSet({})
        BY FS_EmptySet
      <4>2. [i \in {} |-> 0] \in [{} -> Nat]
        OBVIOUS
      <4>3. \E h : IsSum([i \in {} |-> 0], h, {})
        BY <4>1, <4>2, SumExists
      <4>4. \A h : IsSum([i \in {} |-> 0], h, {}) => IsSum(<<>>, h, {})
        BY DEF IsSum, SumStep
      <4>5. QED
        BY <4>3, <4>4
    <3>5. h[{}] = SumOver(Taken(waste, l), Events)
      BY <3>2, <3>3, <3>4, SumOverPart
    <3>6. QED
      BY <3>1, <3>4, <3>5
  <2>3. QED
    BY <2>2 DEF Init, Balanced
<1>3. QED
  BY <1>1, <1>2 DEF Init, SerialInv, OneAtATime, OwnLocks, Positions

(* wastage.service.ts: with one request at a time, however requests fail,  *)
(* are sent again or bulk several events, the stock that is missing from a *)
(* balance is exactly the waste recorded there and not voided since.       *)
THEOREM StockLacksStandingWaste == SerialSpec => []StockIsStandingWaste
<1> DEFINE Inv == TypeInv /\ KeyInv /\ SerialInv
<1>1. Init => Inv
  BY InitType, InitKey, InitSerial
<1>2. Inv /\ [SerialNext]_vars => Inv'
  <2>1. [SerialNext]_vars => [Next]_vars
    BY DEF SerialNext, Next
  <2>2. QED
    BY <2>1, StepType, StepInput, StepKey, StepSerial DEF TypeInv
<1>3. Inv => StockIsStandingWaste
  BY StandingIsTaken DEF TypeInv, TypeOK, SerialInv, Balanced, StockIsStandingWaste
<1>4. QED
  BY <1>1, <1>2, <1>3, PTL DEF SerialSpec

(* ... and an event that was voided has its goods back once: two voids     *)
(* restore them twice only when they overlap.                              *)
THEOREM SerialVoidsRestoreOnce == SerialSpec => []RestoredOnce
<1> DEFINE OnceInv == \A e \in Events :
                          /\ restored[e] <= 1
                          /\ waste[e].state # "voided" => restored[e] = 0
           Inv     == TypeInv /\ KeyInv /\ SerialInv
<1>1. Init => Inv /\ OnceInv
  BY InitType, InitKey, InitSerial DEF Init, NoEvent
<1>2. Inv /\ [SerialNext]_vars => Inv'
  <2>1. [SerialNext]_vars => [Next]_vars
    BY DEF SerialNext, Next
  <2>2. QED
    BY <2>1, StepType, StepInput, StepKey, StepSerial DEF TypeInv
<1>3. ASSUME Inv, OnceInv, [SerialNext]_vars
      PROVE  OnceInv'
  <2>1. CASE UNCHANGED events
    BY <1>3, <2>1 DEF events
  <2>2. ASSUME NEW p \in Attempts, Commit(p), NEW e \in Events
        PROVE  /\ restored'[e] <= 1
               /\ waste'[e].state # "voided" => restored'[e] = 0
    <3>1. /\ att[p].pc = "commit"
          /\ restored'[e] = IF e = att[p].target THEN restored[e] + 1 ELSE restored[e]
          /\ waste'[e] = IF e = att[p].target THEN [waste[e] EXCEPT !.state = "voided"]
                         ELSE IF e[1] = p /\ e[2] \in DOMAIN att[p].lines
                              THEN att[p].lines[e[2]]
                              ELSE waste[e]
      BY <2>2 DEF Commit
    <3>2. waste[e] \in Event /\ restored[e] \in Nat
      BY <1>3 DEF TypeInv, TypeOK
    <3>3. CASE e = att[p].target
      <4>1. Position(p) /\ ~Waits(p)
        BY <1>3, <3>1 DEF SerialInv, Positions, Finished, Waits
      <4>2. e # NoAttempt
        BY DEF Events
      <4>3. waste[e].state = "recorded"
        BY <3>1, <3>3, <4>1, <4>2 DEF Position
      <4>4. restored[e] = 0
        BY <1>3, <4>3
      <4>5. waste'[e].state = "voided"
        BY <3>1, <3>2, <3>3 DEF Event
      <4>6. QED
        BY <3>1, <3>3, <4>4, <4>5
    <3>4. CASE e # att[p].target /\ e[1] = p
      <4>1. PICK i \in 1..BulkSize : e = <<p, i>>
        BY <3>4 DEF Events
      <4>2. waste[e].state = "none"
        BY <1>3, <3>1, <4>1 DEF KeyInv, EventsAreOwned, Recorded, Finished
      <4>3. QED
        BY <1>3, <3>1, <3>4, <4>2
    <3>5. CASE e # att[p].target /\ e[1] # p
      BY <1>3, <3>1, <3>5
    <3>6. QED
      BY <3>3, <3>4, <3>5
  <2>3. UNCHANGED events \/ \E p \in Attempts : Commit(p)
    BY <1>3 DEF SerialNext, Arrive, Step, Fail, FindKey, InsertKey, Reread, Basis, ReadEvent,
       ReadStock, WriteStock, EndDeadlock, Reject, Rollback, vars
  <2>4. QED
    BY <2>1, <2>2, <2>3
<1>4. OnceInv => RestoredOnce
  BY DEF RestoredOnce
<1>5. QED
  BY <1>1, <1>2, <1>3, <1>4, PTL DEF SerialSpec
=============================================================================
