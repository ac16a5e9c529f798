----------------------------- MODULE WasteEvents -----------------------------
(***************************************************************************)
(* Wastage of ONE inventory item at ONE location: recording a waste event  *)
(* (with or without an idempotency key), recording several in one bulk     *)
(* transaction, and voiding an event, as concurrent HTTP requests that are *)
(* sent again, fail half-way or lose their answer.                         *)
(*                                                                         *)
(* applyInventoryDelta is reduced to its read and its write of the balance *)
(* row (module StockLedger has its other statements); the balance rows     *)
(* exist from the start and the item's costs are set up, so a reduction    *)
(* never creates a row.  A row written by an uncommitted transaction is    *)
(* locked, and its new value is visible to that transaction alone.         *)
(***************************************************************************)
EXTENDS Integers, Sequences, FiniteSets

CONSTANTS
    Attempts,      \* HTTP requests; a retry is a new attempt
    NoAttempt,
    Keys,          \* values of dto.idempotencyKey
    NoKey,
    NoRow,         \* "findUnique returned null"
    Lots,
    NoLot,
    InitialStock,  \* availableQty of the rows, by lotId
    Quantities,    \* dto.quantity
    BulkSize       \* number of events in a bulk request

LotIds == Lots \cup {NoLot}

Events == Attempts \X (1..BulkSize)

ASSUME WasteAssumption ==
    /\ NoAttempt \notin Attempts \cup Events
    /\ NoRow \notin Attempts \cup {NoAttempt}
    /\ NoKey \notin Keys
    /\ NoLot \notin Lots
    /\ InitialStock \in [LotIds -> Nat]
    /\ Quantities \subseteq Nat \ {0}
    /\ BulkSize \in Nat \ {0}
    /\ IsFiniteSet(Attempts)

VARIABLES
    stock,      \* committed availableQty, by lotId
    rowLock,    \* the attempt whose transaction has written the row ...
    draft,      \* ... and the value it wrote
    keyRow,     \* committed IdempotencyKey rows
    waste,      \* committed WasteEvent rows: <<attempt, line>> -> event
    restored,   \* the number of WasteEventVoid movements of each event
    att         \* the local state of each attempt

ledger == <<stock, rowLock, draft>>
events == <<waste, restored>>
vars   == <<ledger, keyRow, events, att>>

Kinds  == {"record", "bulk", "void"}
Steps  == {"idle", "find", "key", "reread", "basis", "void", "read",
           "write", "commit", "answered", "failed"}

Event    == [state : {"none", "recorded", "voided"}, lot : LotIds, qty : Nat]
NoEvent  == [state |-> "none", lot |-> NoLot, qty |-> 0]
Attempt  == [pc : Steps, kind : Kinds, key : Keys \cup {NoKey},
             target : Events \cup {NoAttempt}, lot : LotIds, qty : Int,
             next : Int, lines : Seq(Event),
             answer : Attempts \cup {NoAttempt}]
NewAttempt == [pc |-> "idle", kind |-> "record", key |-> NoKey,
               target |-> NoAttempt, lot |-> NoLot, qty |-> 0, next |-> 0,
               lines |-> <<>>, answer |-> NoAttempt]

(* An IdempotencyKey row: absent, or its responseHash, the event's id (the *)
(* one event of the attempt that created it), which may be null.           *)
Response == Attempts \cup {NoAttempt}

Init ==
    /\ stock = InitialStock
    /\ rowLock = [l \in LotIds |-> NoAttempt]
    /\ draft = InitialStock
    /\ keyRow = [k \in Keys |-> NoRow]
    /\ waste = [e \in Events |-> NoEvent]
    /\ restored = [e \in Events |-> 0]
    /\ att = [p \in Attempts |-> NewAttempt]

InTransaction(p) == att[p].pc \in {"basis", "void", "read", "write", "commit"}
Active(p)        == att[p].pc \notin {"idle", "answered", "failed"}
Recorded(e)      == waste[e].state # "none"
HasKey(k)        == keyRow[k] # NoRow
Replies(k)       == keyRow[k] \in Attempts       \* existing?.responseHash
InsertPending(k) == \E q \in Attempts : InTransaction(q) /\ att[q].key = k

(* A transaction reads its own writes, and otherwise what is committed. *)
CommittedOnly(p, l) == stock[l]                  \* mutant: not through tx
Visible(p, l)       == IF rowLock[l] = p THEN draft[l] ELSE stock[l]

-----------------------------------------------------------------------------
Goto(p, pc) == att' = [att EXCEPT ![p].pc = pc]

Reply(p, a) ==
    att' = [att EXCEPT ![p] = [@ EXCEPT !.pc = "answered", !.answer = a]]

ReleaseNothing(p) == rowLock                     \* mutant: left open
Release(p) == [l \in LotIds |-> IF rowLock[l] = p THEN NoAttempt ELSE rowLock[l]]

(* ROLLBACK: the row locks are released, the uncommitted rows are gone. *)
Rollback(p, pc) ==
    /\ rowLock' = Release(p)
    /\ Goto(p, pc)
    /\ UNCHANGED <<stock, draft, keyRow, events>>

Reject(p) == Rollback(p, "failed")

Arrive(p) ==
    /\ att[p].pc = "idle"
    /\ \/ \E k \in Keys \cup {NoKey} :
            att' = [att EXCEPT ![p] = [@ EXCEPT !.kind = "record", !.key = k,
                       !.pc = IF k = NoKey THEN "basis" ELSE "find"]]
       \/ att' = [att EXCEPT ![p] = [@ EXCEPT !.kind = "bulk", !.pc = "basis"]]
       \/ \E e \in Events :
            /\ Recorded(e)
            /\ att' = [att EXCEPT ![p] = [@ EXCEPT !.kind = "void",
                                             !.target = e, !.pc = "void"]]
    /\ UNCHANGED <<ledger, keyRow, events>>

-----------------------------------------------------------------------------
(* recordWasteEvent: the key *)

(* findExisting, before the transaction. *)
FindKey(p) ==
    /\ att[p].pc = "find"
    /\ IF Replies(att[p].key) THEN Reply(p, keyRow[att[p].key]) ELSE Goto(p, "key")
    /\ UNCHANGED <<ledger, keyRow, events>>

(* idempotencyKey.create: the unique index makes a second insert wait for  *)
(* the first transaction, and fail with P2002 once that has committed.     *)
Unchecked(k) == FALSE                            \* mutant: no unique key
Duplicate(k) == HasKey(k)

InsertKey(p) ==
    /\ att[p].pc = "key"
    /\ IF Duplicate(att[p].key)
       THEN Rollback(p, "reread")
       ELSE /\ ~InsertPending(att[p].key)
            /\ Goto(p, "basis")
            /\ UNCHANGED <<ledger, keyRow, events>>

(* The P2002 handler answers with the winner's event, if it is there. *)
Reread(p) ==
    /\ att[p].pc = "reread"
    /\ IF Replies(att[p].key) THEN Reply(p, keyRow[att[p].key]) ELSE Goto(p, "failed")
    /\ UNCHANGED <<ledger, keyRow, events>>

-----------------------------------------------------------------------------
(* recordWasteEventInTransaction, and the bulk loop over it *)

TotalVisible(p) ==
    LET Total[S \in SUBSET LotIds] ==
          IF S = {} THEN 0
          ELSE LET l == CHOOSE l \in S : TRUE IN Visible(p, l) + Total[S \ {l}]
    IN  Total[LotIds]

(* resolveCostBasis: the lots a line of q units may be taken from.  Without *)
(* dto.lotId it is the lotless row, else the fullest of the rows with q.   *)
Enough(p, q)  == {l \in LotIds : Visible(p, l) >= q}
Fullest(p, q) == {l \in Enough(p, q) :
                     \A m \in Enough(p, q) : Visible(p, m) <= Visible(p, l)}
LedgerLot(p, wanted, q) ==
    IF TotalVisible(p) < q THEN {}
    ELSE IF wanted # NoLot THEN {wanted} \cap Enough(p, q)
    ELSE IF NoLot \in Enough(p, q) THEN {NoLot} ELSE Fullest(p, q)

Basis(p) ==
    /\ att[p].pc = "basis"
    /\ \E wanted \in LotIds, q \in Quantities :
          \/ /\ LedgerLot(p, wanted, q) = {}
             /\ Reject(p)
          \/ /\ \E l \in LedgerLot(p, wanted, q) :
                   att' = [att EXCEPT ![p] = [@ EXCEPT
                              !.lot = l, !.qty = -q, !.pc = "read"]]
             /\ UNCHANGED <<ledger, keyRow, events>>

(* voidWasteEvent reads the event in its transaction, without a lock. *)
NotYetVoided(e) == waste[e].state # "voided"

ReadEvent(p) ==
    /\ att[p].pc = "void"
    /\ LET e == att[p].target IN
       IF NotYetVoided(e)
       THEN /\ att' = [att EXCEPT ![p] = [@ EXCEPT
                          !.lot = waste[e].lot, !.qty = waste[e].qty, !.pc = "read"]]
            /\ UNCHANGED <<ledger, keyRow, events>>
       ELSE Reject(p)

(* applyInventoryDelta reads the balance and checks it ... *)
NeverOverdraws(p) == FALSE                       \* mutant: checked before only
Overdraws(p)      == Visible(p, att[p].lot) + att[p].qty < 0

ReadStock(p) ==
    /\ att[p].pc = "read"
    /\ IF Overdraws(p)
       THEN Reject(p)
       ELSE /\ att' = [att EXCEPT ![p] = [@ EXCEPT
                          !.next = Visible(p, att[p].lot) + att[p].qty, !.pc = "write"]]
            /\ UNCHANGED <<ledger, keyRow, events>>

(* ... and writes it back, when no other transaction has the row locked.   *)
(* A bulk request goes on with its next event.                             *)
NegativeLine(p) ==                               \* mutant: sign not restored
    [state |-> "recorded", lot |-> att[p].lot, qty |-> att[p].qty]
Line(p) == [state |-> "recorded", lot |-> att[p].lot, qty |-> -att[p].qty]

WriteStock(p) ==
    /\ att[p].pc = "write"
    /\ rowLock[att[p].lot] \in {p, NoAttempt}
    /\ rowLock' = [rowLock EXCEPT ![att[p].lot] = p]
    /\ draft' = [draft EXCEPT ![att[p].lot] = att[p].next]
    /\ LET lines == IF att[p].kind = "void" THEN <<>> ELSE Append(att[p].lines, Line(p))
       IN  att' = [att EXCEPT ![p] = [@ EXCEPT
                      !.lines = lines,
                      !.pc = IF att[p].kind = "bulk" /\ Len(lines) < BulkSize
                             THEN "basis" ELSE "commit"]]
    /\ UNCHANGED <<stock, keyRow, events>>

-----------------------------------------------------------------------------
(* The idempotencyKey.update that precedes COMMIT: the key's responseHash. *)
NoResponseHash(p) == NoAttempt                   \* mutant: update left out
ResponseHash(p)   == p

(* COMMIT.  The answer may be lost on its way to the client. *)
Commit(p) ==
    /\ att[p].pc = "commit"
    /\ stock' = [l \in LotIds |-> IF rowLock[l] = p THEN draft[l] ELSE stock[l]]
    /\ rowLock' = Release(p)
    /\ keyRow' = [k \in Keys |-> IF att[p].key = k THEN ResponseHash(p) ELSE keyRow[k]]
    /\ waste' = [e \in Events |->
                    IF e = att[p].target THEN [waste[e] EXCEPT !.state = "voided"]
                    ELSE IF e[1] = p /\ e[2] \in DOMAIN att[p].lines
                         THEN att[p].lines[e[2]]
                         ELSE waste[e]]
    /\ restored' = [e \in Events |-> IF e = att[p].target THEN restored[e] + 1
                                                          ELSE restored[e]]
    /\ \/ Reply(p, p)
       \/ Goto(p, "failed")
    /\ UNCHANGED draft

(* The transaction times out, its connection is lost or the server stops.  *)
Fail(p) == Active(p) /\ Reject(p)

(* Transactions that wait for each other's rows: PostgreSQL ends one.      *)
Blocker(p) == IF att[p].pc = "write" THEN rowLock[att[p].lot] ELSE NoAttempt
Deadlocked(S) == \A p \in S : Blocker(p) \in S \ {p}
EndDeadlock(p) ==
    /\ \E S \in SUBSET Attempts : p \in S /\ Deadlocked(S)
    /\ Reject(p)

Step(p) ==
    \/ FindKey(p)   \/ InsertKey(p) \/ Reread(p)     \/ Basis(p)  \/ ReadEvent(p)
    \/ ReadStock(p) \/ WriteStock(p) \/ Commit(p)    \/ EndDeadlock(p)

Next == \E p \in Attempts : Arrive(p) \/ Step(p) \/ Fail(p)

Spec == Init /\ [][Next]_vars

(* The event loop and the database run every step that can run. *)
FairSpec == Spec /\ \A p \in Attempts : WF_vars(Step(p))

(* The same requests, arriving only when no other is in progress. *)
SerialNext ==
    \E p \in Attempts :
        \/ Arrive(p) /\ \A q \in Attempts : ~Active(q)
        \/ Step(p)
        \/ Fail(p)

SerialSpec == Init /\ [][SerialNext]_vars

-----------------------------------------------------------------------------
(* Type invariant. *)
TypeOK ==
    /\ stock \in [LotIds -> Int]
    /\ rowLock \in [LotIds -> Attempts \cup {NoAttempt}]
    /\ draft \in [LotIds -> Int]
    /\ keyRow \in [Keys -> Response \cup {NoRow}]
    /\ waste \in [Events -> Event]
    /\ restored \in [Events -> Nat]
    /\ att \in [Attempts -> Attempt]

(* An idempotency key records at most one waste event, however many        *)
(* attempts carry it and whichever of them fail.                           *)
OneEventPerKey ==
    \A p, q \in Attempts :
        (att[p].key # NoKey /\ att[q].key = att[p].key
            /\ Recorded(<<p, 1>>) /\ Recorded(<<q, 1>>)) => p = q

(* A retry that loses the insert to a concurrent attempt with its key is   *)
(* answered with the winner's event or dies; it never reports the conflict.*)
ConflictIsAnswered ==
    [][\A p \in Attempts : Reread(p) => att'[p].pc = "answered"]_vars

(* Seen from the clients, recording under a key is the abstract promise:   *)
(* one attempt takes effect and every answer names that one.               *)
AskedKeys == [p \in Attempts |-> IF att[p].key = NoKey THEN NoAttempt ELSE att[p].key]
Outcomes  == [k \in Keys |-> IF Replies(k) THEN keyRow[k] ELSE NoAttempt]
Answers   == [p \in Attempts |-> IF att[p].key = NoKey THEN NoAttempt ELSE att[p].answer]

Promise == INSTANCE OncePerKey
    WITH Nothing <- NoAttempt, asked <- AskedKeys, outcome <- Outcomes,
         answer <- Answers
KeepsPromise == Promise!Spec

(* No committed balance is negative, although the later events of a bulk   *)
(* request are checked before its earlier ones are committed.              *)
NoNegativeStock == \A l \in LotIds : stock[l] >= 0

(* With one request at a time, what is missing from a balance is exactly   *)
(* the waste that stands: recorded, and not voided since.                  *)
Standing(l) ==
    LET E == {e \in Events : waste[e].state = "recorded" /\ waste[e].lot = l}
        Sum[S \in SUBSET E] ==
            IF S = {} THEN 0
            ELSE LET e == CHOOSE e \in S : TRUE IN waste[e].qty + Sum[S \ {e}]
    IN  Sum[E]
StockIsStandingWaste == \A l \in LotIds : stock[l] + Standing(l) = InitialStock[l]

(* "Waste event has already been voided": goods come back to stock once.   *)
RestoredOnce == \A e \in Events : restored[e] <= 1

(* Every attempt is answered or fails: no wait for a key or a row is       *)
(* forever, deadlocks of bulk requests included.                           *)
Answered == \A p \in Attempts : Active(p) ~> ~Active(p)
=============================================================================
