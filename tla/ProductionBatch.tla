--------------------------- MODULE ProductionBatch ---------------------------
(***************************************************************************)
(* Production batches at ONE location: created, approved, started (which   *)
(* consumes their ingredients from the stock, oldest rows first),          *)
(* completed, cancelled, and held or released by quality control.  Every   *)
(* operation is an HTTP request that reads the batch BEFORE the statement  *)
(* or transaction that acts on it, and writes the status unconditionally.  *)
(*                                                                         *)
(* applyInventoryDelta is reduced to its read and its write of the balance *)
(* row, as in WasteEvents.  The update of the batch row is the last        *)
(* statement of its transaction that can wait, so it is one step with the  *)
(* COMMIT.  Finished goods go to a lot of their own, which no other        *)
(* request writes: only the number of outputs of a batch is kept.          *)
(***************************************************************************)
EXTENDS Integers, FiniteSets

CONSTANTS
    Requests,      \* requests in progress at the same time
    NoRequest,
    Batches,
    NoBatch,
    Items,         \* the ingredients
    NoItem,
    Needs,         \* requiredQty of each consumption, by batch and item
    RowItem,       \* the item of each balance row; rows are in createdAt order
    InitialStock   \* availableQty of each row

BinRows == DOMAIN RowItem

ASSUME ProductionAssumption ==
    /\ NoRequest \notin Requests
    /\ NoBatch \notin Batches
    /\ NoItem \notin Items
    /\ Needs \in [Batches -> [Items -> Nat \ {0}]]
    /\ BinRows \subseteq Nat
    /\ RowItem \in [BinRows -> Items]
    /\ InitialStock \in [BinRows -> Nat]

VARIABLES
    batch,     \* ProductionBatch rows: status, and whether approvedById is set
    consumed,  \* the sum of PRODUCTION_CONSUMPTION movements, by batch and item
    outputs,   \* the number of ProductionOutput rows of a batch
    stock,     \* committed availableQty of the rows
    rowLock,   \* the request whose transaction has written the row ...
    draft,     \* ... and the value it wrote
    req,       \* the local state of each request
    taken,     \* what its transaction has consumed so far, by item
    found      \* the rows it has listed and not used yet, with availableQty

tables == <<batch, consumed, outputs>>
ledger == <<stock, rowLock, draft>>
local  == <<taken, found>>
vars   == <<tables, ledger, req, local>>

Operations == {"approve", "start", "complete", "cancel", "hold", "release"}
Statuses   == {"none", "PLANNED", "APPROVED", "IN_PROGRESS", "COMPLETED",
               "CANCELLED", "QC_HOLD"}
Steps      == {"idle", "status", "check", "balances", "take", "write", "update"}

Batch   == [status : Statuses, approved : BOOLEAN]
Request == [pc : Steps, op : Operations, batch : Batches \cup {NoBatch},
            todo : SUBSET Items, item : Items \cup {NoItem}, remaining : Nat,
            row : Nat, quantity : Nat, next : Int]
Idle    == [pc |-> "idle", op |-> "approve", batch |-> NoBatch, todo |-> {},
            item |-> NoItem, remaining |-> 0,
            row |-> 0, quantity |-> 0, next |-> 0]
NoneTaken == [i \in Items |-> 0]
NoneFound == [r \in BinRows |-> 0]

Init ==
    /\ batch = [b \in Batches |-> [status |-> "none", approved |-> FALSE]]
    /\ consumed = [b \in Batches |-> NoneTaken]
    /\ outputs = [b \in Batches |-> 0]
    /\ stock = InitialStock
    /\ rowLock = [r \in BinRows |-> NoRequest]
    /\ draft = InitialStock
    /\ req = [p \in Requests |-> Idle]
    /\ taken = [p \in Requests |-> NoneTaken]
    /\ found = [p \in Requests |-> NoneFound]

Active(p)     == req[p].pc # "idle"
Need(p, i)    == Needs[req[p].batch][i]
Visible(p, r) == IF rowLock[r] = p THEN draft[r] ELSE stock[r]

-----------------------------------------------------------------------------
Goto(p, pc) == req' = [req EXCEPT ![p].pc = pc]

Release(p) == [r \in BinRows |-> IF rowLock[r] = p THEN NoRequest ELSE rowLock[r]]

(* The request ends, and with it its transaction, if it has one. *)
Finish(p) ==
    /\ req' = [req EXCEPT ![p] = Idle]
    /\ taken' = [taken EXCEPT ![p] = NoneTaken]
    /\ found' = [found EXCEPT ![p] = NoneFound]
    /\ rowLock' = Release(p)

Reject(p) == Finish(p) /\ UNCHANGED <<tables, stock, draft>>

Arrive(p) ==
    /\ req[p].pc = "idle"
    /\ \E op \in Operations, b \in Batches :
          /\ batch[b].status # "none"
          /\ req' = [req EXCEPT ![p] = [@ EXCEPT
                        !.op = op, !.batch = b, !.pc = "status"]]
    /\ UNCHANGED <<tables, ledger, local>>

(* createProductionBatch: the consumptions are the recipe's components. *)
Create(b) ==
    /\ batch[b].status = "none"
    /\ batch' = [batch EXCEPT ![b] = [@ EXCEPT !.status = "PLANNED"]]
    /\ UNCHANGED <<consumed, outputs, ledger, req, local>>

-----------------------------------------------------------------------------
(* The status checks, on the batch as it is read before the transaction.   *)
StartableUnapproved == {"PLANNED", "APPROVED"}   \* mutant: approval skipped
Startable   == {"APPROVED"}
CompletableEarly == {"APPROVED", "IN_PROGRESS"}  \* mutant: not yet started
Completable == {"IN_PROGRESS"}
CancellableLate == {"PLANNED", "APPROVED", "IN_PROGRESS"}  \* mutant: started
Cancellable == {"PLANNED", "APPROVED"}

Allowed(op) == CASE op = "approve"  -> {"PLANNED"}
                 [] op = "start"    -> Startable
                 [] op = "complete" -> Completable
                 [] op = "cancel"   -> Cancellable
                 [] op = "hold"     -> Statuses
                 [] op = "release"  -> {"QC_HOLD"}

ReadStatus(p) ==
    /\ req[p].pc = "status"
    /\ IF batch[req[p].batch].status \in Allowed(req[p].op)
       THEN /\ req' = [req EXCEPT ![p] = [@ EXCEPT
                          !.pc = IF req[p].op = "start" THEN "check" ELSE "update",
                          !.todo = Items]]
            /\ UNCHANGED <<tables, ledger, local>>
       ELSE Reject(p)

-----------------------------------------------------------------------------
(* startBatch *)

RowsOf(i) == {r \in BinRows : RowItem[r] = i}

(* The stock of the item, summed over its rows. *)
Available(i) ==
    LET Sum[S \in SUBSET RowsOf(i)] ==
          IF S = {} THEN 0
          ELSE LET r == CHOOSE r \in S : TRUE IN stock[r] + Sum[S \ {r}]
    IN  Sum[RowsOf(i)]

(* ensureSufficientStock, one query per consumption (in no defined order), *)
(* outside the transaction.                                                *)
CheckStock(p) ==
    /\ req[p].pc = "check"
    /\ \E i \in req[p].todo :
          IF Available(i) < Need(p, i)
          THEN Reject(p)
          ELSE /\ req' = [req EXCEPT ![p] = [@ EXCEPT
                     !.todo = IF req[p].todo = {i} THEN Items ELSE req[p].todo \ {i},
                     !.pc = IF req[p].todo = {i} THEN "balances" ELSE "check"]]
               /\ UNCHANGED <<tables, ledger, local>>

(* The rows of the next consumption that have stock. *)
ReadBalances(p) ==
    /\ req[p].pc = "balances"
    /\ \E i \in req[p].todo :
          /\ req' = [req EXCEPT ![p] = [@ EXCEPT
                        !.todo = req[p].todo \ {i}, !.item = i,
                        !.remaining = Need(p, i), !.pc = "take"]]
          /\ found' = [found EXCEPT ![p] = [r \in BinRows |->
                          IF RowItem[r] = i /\ Visible(p, r) > 0
                          THEN Visible(p, r) ELSE 0]]
    /\ UNCHANGED <<tables, ledger, taken>>

(* The oldest listed row gives what is still needed, or all it had when it *)
(* was listed; applyInventoryDelta reads it again and checks.              *)
Listed(p) == {r \in BinRows : found[p][r] > 0}
Oldest(p) == {r \in Listed(p) : \A s \in Listed(p) : r <= s}

WholeRow(p, r)  == found[p][r]                   \* mutant: remaining ignored
ToConsume(p, r) == IF req[p].remaining < found[p][r] THEN req[p].remaining
                                                     ELSE found[p][r]

ReadRow(p) ==
    /\ req[p].pc = "take"
    /\ req[p].remaining > 0
    /\ \E r \in Oldest(p) :
          IF Visible(p, r) < ToConsume(p, r)
          THEN Reject(p)
          ELSE /\ req' = [req EXCEPT ![p] = [@ EXCEPT
                     !.row = r, !.quantity = ToConsume(p, r),
                     !.next = Visible(p, r) - ToConsume(p, r), !.pc = "write"]]
               /\ UNCHANGED <<tables, ledger, local>>

WriteRow(p) ==
    /\ req[p].pc = "write"
    /\ rowLock[req[p].row] \in {p, NoRequest}
    /\ rowLock' = [rowLock EXCEPT ![req[p].row] = p]
    /\ draft' = [draft EXCEPT ![req[p].row] = req[p].next]
    /\ taken' = [taken EXCEPT ![p] = [@ EXCEPT
                    ![req[p].item] = taken[p][req[p].item] + req[p].quantity]]
    /\ found' = [found EXCEPT ![p] = [@ EXCEPT ![req[p].row] = 0]]
    /\ req' = [req EXCEPT ![p] = [@ EXCEPT
                  !.remaining = req[p].remaining - req[p].quantity, !.row = 0,
                  !.quantity = 0, !.next = 0, !.pc = "take"]]
    /\ UNCHANGED <<tables, stock>>

(* The rows are used up or the need is met: NEGATIVE_STOCK, the next        *)
(* consumption, or the update of the batch.                                *)
NeverShort(p) == FALSE                           \* mutant: check left out
Short(p)      == req[p].remaining > 0

EndItem(p) ==
    /\ req[p].pc = "take"
    /\ req[p].remaining = 0 \/ Listed(p) = {}
    /\ IF Short(p)
       THEN Reject(p)
       ELSE /\ Goto(p, IF req[p].todo = {} THEN "update" ELSE "balances")
            /\ UNCHANGED <<tables, ledger, local>>

-----------------------------------------------------------------------------
(* The update of the batch, whatever its status has become since.          *)
Ready(p, op)   == req[p].pc = "update" /\ req[p].op = op
SetStatus(p, s) == batch' = [batch EXCEPT ![req[p].batch] = [@ EXCEPT !.status = s]]

Approve(p) ==
    /\ Ready(p, "approve")
    /\ batch' = [batch EXCEPT ![req[p].batch] = [status |-> "APPROVED", approved |-> TRUE]]
    /\ Finish(p)
    /\ UNCHANGED <<consumed, outputs, stock, draft>>

Start(p) ==
    /\ Ready(p, "start")
    /\ SetStatus(p, "IN_PROGRESS")
    /\ consumed' = [consumed EXCEPT ![req[p].batch] =
                       [i \in Items |-> consumed[req[p].batch][i] + taken[p][i]]]
    /\ stock' = [r \in BinRows |-> IF rowLock[r] = p THEN draft[r] ELSE stock[r]]
    /\ Finish(p)
    /\ UNCHANGED <<outputs, draft>>

Complete(p) ==
    /\ Ready(p, "complete")
    /\ SetStatus(p, "COMPLETED")
    /\ outputs' = [outputs EXCEPT ![req[p].batch] = @ + 1]
    /\ Finish(p)
    /\ UNCHANGED <<consumed, stock, draft>>

Cancel(p) ==
    /\ Ready(p, "cancel")
    /\ SetStatus(p, "CANCELLED")
    /\ Finish(p)
    /\ UNCHANGED <<consumed, outputs, stock, draft>>

(* A quality check that holds or fails the batch, or releases it. *)
CheckQuality(p) ==
    /\ \/ Ready(p, "hold") /\ SetStatus(p, "QC_HOLD")
       \/ Ready(p, "release") /\ SetStatus(p, "COMPLETED")
    /\ Finish(p)
    /\ UNCHANGED <<consumed, outputs, stock, draft>>

(* The request fails: timeout, lost connection, missing money settings.    *)
Fail(p) == Active(p) /\ Reject(p)

(* Starts that wait for each other's rows: PostgreSQL ends one.            *)
Blocker(p) == IF req[p].pc = "write" THEN rowLock[req[p].row] ELSE NoRequest
EndDeadlock(p) ==
    /\ \E S \in SUBSET Requests : p \in S /\ \A q \in S : Blocker(q) \in S \ {q}
    /\ Reject(p)

Step(p) ==
    \/ ReadStatus(p) \/ CheckStock(p) \/ ReadBalances(p) \/ ReadRow(p)
    \/ WriteRow(p)   \/ EndItem(p)    \/ Approve(p)      \/ Start(p)
    \/ Complete(p)   \/ Cancel(p)     \/ CheckQuality(p) \/ EndDeadlock(p)

Next ==
    \/ \E b \in Batches : Create(b)
    \/ \E p \in Requests : Arrive(p) \/ Step(p) \/ Fail(p)

Spec == Init /\ [][Next]_vars

(* The same requests, arriving only when no other is in progress. *)
SerialNext ==
    \/ \E b \in Batches : Create(b)
    \/ \E p \in Requests :
          \/ Arrive(p) /\ \A q \in Requests : ~Active(q)
          \/ Step(p)
          \/ Fail(p)

SerialSpec == Init /\ [][SerialNext]_vars

-----------------------------------------------------------------------------
(* Type invariant. *)
TypeOK ==
    /\ batch \in [Batches -> Batch]
    /\ consumed \in [Batches -> [Items -> Nat]]
    /\ outputs \in [Batches -> Nat]
    /\ stock \in [BinRows -> Int]
    /\ rowLock \in [BinRows -> Requests \cup {NoRequest}]
    /\ draft \in [BinRows -> Int]
    /\ req \in [Requests -> Request]
    /\ taken \in [Requests -> [Items -> Nat]]
    /\ found \in [Requests -> [BinRows -> Nat]]

(* Finished goods are made of something: a batch has an output only when   *)
(* all its ingredients were consumed, whatever happened to its status      *)
(* between the checks and the writes of the requests around it.            *)
MadeFromConsumed ==
    \A b \in Batches : outputs[b] > 0 =>
        \A i \in Items : consumed[b][i] >= Needs[b][i]

(* "Production batch cannot start without approval": ingredients leave the *)
(* stock only for a batch somebody approved.                               *)
ConsumedAfterApproval ==
    \A b \in Batches : (\E i \in Items : consumed[b][i] > 0) => batch[b].approved

(* A start consumes the whole recipe or nothing, though the rows it takes  *)
(* it from change between its check, its listing and its writes.           *)
ConsumesWholeRecipes ==
    \A b \in Batches : \A i, j \in Items :
        /\ consumed[b][i] % Needs[b][i] = 0
        /\ consumed[b][i] \div Needs[b][i] = consumed[b][j] \div Needs[b][j]

(* One request at a time, batches live as their status checks describe.    *)
Life == INSTANCE BatchLifecycle
    WITH status <- [b \in Batches |-> batch[b].status],
         used   <- [b \in Batches |->
                       IF \A i \in Items : consumed[b][i] = 0 THEN 0
                       ELSE IF consumed[b] = Needs[b] THEN 1 ELSE 2],
         made   <- outputs
LivesByStatus == Life!Spec

(* "Production batch cannot start without approval": one approval lets the *)
(* batch be started, and its ingredients consumed, once.                   *)
ConsumedOnce ==
    \A b \in Batches, i \in Items : consumed[b][i] <= Needs[b][i]
=============================================================================
