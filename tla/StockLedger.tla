----------------------------- MODULE StockLedger -----------------------------
(***************************************************************************)
(* The inventory ledger of ONE inventory item at ONE location: the rows of *)
(* InventoryBalance, the InventoryMovement log and the moving-average cost *)
(* in LocationInventoryItemSetting, under concurrent HTTP requests that    *)
(* record opening stock, adjust stock or record wastage, and under the     *)
(* requests that set or remove the item's cost by hand.  Rows of other     *)
(* items and locations never meet these (every query filters on both).     *)
(*                                                                         *)
(* A request is one interactive Prisma transaction on PostgreSQL at READ   *)
(* COMMITTED: a read sees what is committed when its statement runs, a     *)
(* write takes the row's lock, which is held until COMMIT or ROLLBACK, and *)
(* nothing a transaction wrote is visible before COMMIT.  One action is    *)
(* one statement of applyInventoryDelta or of its callers.                 *)
(***************************************************************************)
EXTENDS Integers, FiniteSets, FiniteSetsExt

CONSTANTS
    Requests,     \* HTTP requests; each one posts at most one movement
    NoRequest,    \* nobody holds the lock
    Rows,         \* the ids an InventoryBalance row can be given
    NoRow,        \* "findFirst returned null"
    Lots,         \* ids of InventoryLot
    NoLot,        \* lotId = null
    Unused,       \* the lot column of a row id not in the table
    Quantities,   \* dto.quantity, in units of 10^-4
    Costs,        \* dto.unitCost, by hand or of a movement, or item.unitCost,
                  \* in units of 10^-4
    Unpriced,     \* no unit cost in the dto, or no cost in the setting
    Expiry        \* lot.expiryAt, by lot; NoLot stands for "no expiry"

LotIds == Lots \cup {NoLot}

ASSUME LedgerAssumption ==
    /\ NoLot \notin Lots
    /\ Unused \notin LotIds
    /\ IsFiniteSet(Rows) /\ NoRow \notin Rows
    /\ NoRequest \notin Requests
    /\ Quantities \subseteq Nat \ {0}
    /\ Costs \subseteq Nat
    /\ Unpriced \notin Nat
    /\ Expiry \in [LotIds -> Nat]

VARIABLES
    balance,      \* the committed InventoryBalance rows, by id
    moved,        \* the sum of InventoryMovement.quantity, by lotId
    unitCost,     \* LocationInventoryItemSetting.unitCost
    rowLock,      \* the request that holds the lock of a balance row
    settingLock,  \* the request that holds the lock of the setting row
    req,          \* the local state of each request ...
    costing,      \* ... and the costs it has read and computed
    paid          \* history: the costs set by hand so far, and the unitCost of
                  \* the InventoryMovement of every receipt committed so far

locks == <<rowLock, settingLock>>
table == <<balance, moved, unitCost, paid>>
vars  == <<table, locks, req, costing>>

Kinds    == {"opening", "increase", "decrease", "waste"}
Outgoing == {"decrease", "waste"}
Finished == {"committed", "aborted"}
Steps    == {"idle", "money", "resolve", "balance", "onHands", "write",
             "price", "setting", "commit"} \cup Finished

Row     == [lot : LotIds \cup {Unused}, onHand : Int, reserved : Int,
            available : Int]
NewRow  == [lot |-> Unused, onHand |-> 0, reserved |-> 0, available |-> 0]
Request == [pc : Steps, kind : Kinds, lot : LotIds, qty : Nat,
            row : Rows \cup {NoRow}, onHand : Int, available : Int]
Costing == [cost : Nat \cup {Unpriced}, total : Int, average : Nat \cup {Unpriced}]

IdleRequest == [pc |-> "idle", kind |-> "opening", lot |-> NoLot, qty |-> 0,
                row |-> NoRow, onHand |-> 0, available |-> 0]
NoCosting   == [cost |-> Unpriced, total |-> 0, average |-> Unpriced]

Stored(r)     == balance[r].lot # Unused
RowsOf(lot)   == {r \in Rows : balance[r].lot = lot}
Active(p)     == req[p].pc \notin {"idle"} \cup Finished
Delta(p)      == IF req[p].kind \in Outgoing THEN -req[p].qty ELSE req[p].qty
Creating(p)   == req[p].row \in Rows /\ ~Stored(req[p].row)
OnHandTotal   == MapThenSumSet(LAMBDA r : balance[r].onHand, Rows)

Init ==
    /\ balance = [r \in Rows |-> NewRow]
    /\ moved = [l \in LotIds |-> 0]
    /\ unitCost = Unpriced
    /\ rowLock = [r \in Rows |-> NoRequest]
    /\ settingLock = NoRequest
    /\ req = [p \in Requests |-> IdleRequest]
    /\ costing = [p \in Requests |-> NoCosting]
    /\ paid = {}

-----------------------------------------------------------------------------
Goto(p, pc)   == req' = [req EXCEPT ![p].pc = pc]
Finish(p, pc) == /\ req' = [req EXCEPT ![p] = [IdleRequest EXCEPT !.pc = pc]]
                 /\ costing' = [costing EXCEPT ![p] = NoCosting]

(* ROLLBACK: the private writes are dropped and the locks released. *)
RollbackKeepsLocks(p) ==                              \* mutant: left open
    Finish(p, "aborted") /\ UNCHANGED <<table, locks>>

Rollback(p) ==
    /\ Finish(p, "aborted")
    /\ rowLock' = [r \in Rows |-> IF rowLock[r] = p THEN NoRequest ELSE rowLock[r]]
    /\ settingLock' = IF settingLock = p THEN NoRequest ELSE settingLock
    /\ UNCHANGED table

(* A request arrives.  recordOpeningStock takes its unit cost from the dto *)
(* or the item and needs no setting; the others read the setting first.    *)
Begin(p) ==
    /\ req[p].pc = "idle"
    /\ \E k \in Kinds, l \in LotIds, q \in Quantities, c \in Costs \cup {Unpriced} :
          /\ k = "opening" => c # Unpriced
          /\ k \in Outgoing => c = Unpriced   \* it only values the movement
          /\ req' = [req EXCEPT ![p] = [@ EXCEPT
                        !.kind = k, !.lot = l, !.qty = q,
                        !.pc = IF k = "opening" THEN "balance" ELSE "money"]]
          /\ costing' = [costing EXCEPT ![p].cost = c]
    /\ UNCHANGED <<table, locks>>

(* requireInventoryItemMoneySettings: without a priced setting the request *)
(* fails with LOCATION_MONEY_SETUP_REQUIRED.                               *)
CheckMoney(p) ==
    /\ req[p].pc = "money"
    /\ IF unitCost = Unpriced
       THEN Rollback(p)
       ELSE /\ Goto(p, IF req[p].kind \in Outgoing /\ req[p].lot = NoLot
                       THEN "resolve" ELSE "balance")
            /\ costing' = [costing EXCEPT ![p].cost = IF @ = Unpriced THEN unitCost ELSE @]
            /\ UNCHANGED <<table, locks>>

(* resolveLotIdForReduction, for a reduction whose dto names no lot: the   *)
(* row with stock that expires first (ties, which the code breaks by       *)
(* updatedAt, either way), unless it is short and there are others.        *)
InStock      == {r \in Rows : Stored(r) /\ balance[r].available > 0}
FirstExpired == {r \in InStock : \A s \in InStock :
                     Expiry[balance[r].lot] <= Expiry[balance[s].lot]}

ResolveLot(p) ==
    /\ req[p].pc = "resolve"
    /\ \/ /\ InStock = {}
          /\ Goto(p, "balance")
          /\ UNCHANGED <<table, locks, costing>>
       \/ \E r \in FirstExpired :
            IF InStock = {r} \/ balance[r].available >= req[p].qty
            THEN /\ req' = [req EXCEPT ![p] = [@ EXCEPT
                                !.lot = balance[r].lot, !.pc = "balance"]]
                 /\ UNCHANGED <<table, locks, costing>>
            ELSE Rollback(p)

-----------------------------------------------------------------------------
(* applyInventoryDelta, statement by statement. *)

(* findInventoryBalance: some row of the lot, or null.  The next on-hand   *)
(* and available quantities are computed from what is read HERE.           *)
FindBalanceAnyLot(lot) == {r \in Rows : Stored(r)}   \* mutant: lotId left out
FindBalance(lot)       == RowsOf(lot)

ReadBalance(p) ==
    /\ req[p].pc = "balance"
    /\ \/ \E r \in FindBalance(req[p].lot) :
            req' = [req EXCEPT ![p] = [@ EXCEPT
                !.row = r,
                !.onHand = balance[r].onHand + Delta(p),
                !.available = balance[r].onHand + Delta(p) - balance[r].reserved,
                !.pc = "onHands"]]
       \/ /\ FindBalance(req[p].lot) = {}
          /\ req' = [req EXCEPT ![p] = [@ EXCEPT
                        !.row = NoRow, !.onHand = Delta(p),
                        !.available = Delta(p), !.pc = "onHands"]]
    /\ UNCHANGED <<table, locks, costing>>

(* The rows of the item are read by a later statement than the balance;    *)
(* then NEGATIVE_STOCK is decided.  Only a receipt uses the total.         *)
OverdrawsNever(p) == FALSE                            \* mutant: no check
OverdrawsByOne(p) == req[p].available < -1            \* mutant: off by one
Overdraws(p)      == req[p].available < 0

ReadOnHands(p) ==
    /\ req[p].pc = "onHands"
    /\ IF Overdraws(p)
       THEN Rollback(p)
       ELSE /\ Goto(p, "write")
            /\ costing' = [costing EXCEPT ![p].total =
                              IF Delta(p) > 0 THEN OnHandTotal ELSE 0]
            /\ UNCHANGED <<table, locks>>

AfterWrite(p) == IF Delta(p) > 0 THEN "price" ELSE "commit"

(* inventoryBalance.update with absolute values: waits for the row's lock, *)
(* then overwrites whatever was committed since the row was read.          *)
UpdateBalance(p) ==
    /\ req[p].pc = "write"
    /\ req[p].row # NoRow
    /\ rowLock[req[p].row] = NoRequest
    /\ rowLock' = [rowLock EXCEPT ![req[p].row] = p]
    /\ Goto(p, AfterWrite(p))
    /\ UNCHANGED <<table, settingLock, costing>>

(* inventoryBalance.create.  The unique key (tenant, location, item, lot)  *)
(* makes a second insert of a lot wait for the first transaction, and fail *)
(* (P2002) once that one has committed; a null lot is never a duplicate.   *)
DuplicateNever(l) == FALSE                            \* mutant: no unique key
DuplicateLot(l)   == l # NoLot /\ RowsOf(l) # {}
InsertPending(l) ==
    l # NoLot /\ \E q \in Requests : Creating(q) /\ req[q].lot = l

CreateBalance(p) ==
    /\ req[p].pc = "write"
    /\ req[p].row = NoRow
    /\ \/ /\ DuplicateLot(req[p].lot)
          /\ Rollback(p)
       \/ /\ ~DuplicateLot(req[p].lot)
          /\ ~InsertPending(req[p].lot)
          /\ \E r \in Rows :
                /\ ~Stored(r)
                /\ rowLock[r] = NoRequest
                /\ rowLock' = [rowLock EXCEPT ![r] = p]
                /\ req' = [req EXCEPT ![p] = [@ EXCEPT
                              !.row = r, !.pc = AfterWrite(p)]]
          /\ UNCHANGED <<table, settingLock, costing>>

(* The moving average of a receipt, rounded half up to 4 decimals as the   *)
(* Decimal(14,4) column stores it.  A missing setting prices the stock on  *)
(* hand at the incoming cost.                                              *)
MovingAverageOld(onHand, oldCost, qty, cost) ==       \* mutant: old quantity
    IF onHand > 0 THEN (onHand * oldCost + qty * cost) \div onHand ELSE cost

MovingAverageSub(onHand, oldCost, qty, cost) ==       \* mutant: wrong sign
    (onHand * oldCost - qty * cost) \div (onHand + qty)

MovingAverage(onHand, oldCost, qty, cost) ==
    LET total == onHand + qty
        value == onHand * oldCost + qty * cost
    IN  IF total > 0 THEN (2 * value + total) \div (2 * total) ELSE cost

ReadSetting(p) ==
    /\ req[p].pc = "price"
    /\ Goto(p, "setting")
    /\ LET c       == costing[p]
           oldCost == IF unitCost = Unpriced THEN c.cost ELSE unitCost
       IN  costing' = [costing EXCEPT ![p].average =
                          MovingAverage(c.total, oldCost, req[p].qty, c.cost)]
    /\ UNCHANGED <<table, locks>>

UpsertSetting(p) ==
    /\ req[p].pc = "setting"
    /\ settingLock = NoRequest
    /\ settingLock' = p
    /\ Goto(p, "commit")
    /\ UNCHANGED <<table, rowLock, costing>>

(* COMMIT publishes the balance row, the movement and the new average; the *)
(* waste event and audit row written just before are private until here.   *)
Commit(p) ==
    /\ req[p].pc = "commit"
    /\ Finish(p, "committed")
    /\ balance' = [balance EXCEPT ![req[p].row] =
                     [@ EXCEPT !.lot = req[p].lot, !.onHand = req[p].onHand,
                               !.available = req[p].available]]
    /\ moved' = [moved EXCEPT ![req[p].lot] = @ + Delta(p)]
    /\ IF Delta(p) > 0
       THEN unitCost' = costing[p].average /\ paid' = paid \cup {costing[p].cost}
       ELSE UNCHANGED <<unitCost, paid>>
    /\ rowLock' = [rowLock EXCEPT ![req[p].row] = NoRequest]
    /\ settingLock' = IF settingLock = p THEN NoRequest ELSE settingLock

(* The transaction times out, its connection is lost or the server stops.  *)
Fail(p) == Active(p) /\ Rollback(p)

Step(p) ==
    \/ CheckMoney(p)    \/ ResolveLot(p)    \/ ReadBalance(p)
    \/ ReadOnHands(p)   \/ UpdateBalance(p) \/ CreateBalance(p)
    \/ ReadSetting(p)   \/ UpsertSetting(p) \/ Commit(p)

(* upsertInventoryItemSetting writes the cost its dto names into the same  *)
(* column, whatever was paid; it waits for the row as every writer does.   *)
SetCost(c) ==
    /\ settingLock = NoRequest
    /\ unitCost' = c
    /\ paid' = paid \cup {c}
    /\ UNCHANGED <<balance, moved, locks, req, costing>>

(* deleteInventoryItemSetting removes the row; a change of the location's  *)
(* market, where it is allowed, empties its cost.                          *)
ForgetCost ==
    /\ settingLock = NoRequest
    /\ unitCost' = Unpriced
    /\ UNCHANGED <<balance, moved, paid, locks, req, costing>>

ByHand == ForgetCost \/ \E c \in Costs : SetCost(c)

Next == ByHand \/ \E p \in Requests : Begin(p) \/ Step(p) \/ Fail(p)

Spec == Init /\ [][Next]_vars

(* The event loop and the database run every step that can run. *)
FairSpec == Spec /\ \A p \in Requests : WF_vars(Step(p))

(* The same requests, arriving only when no other is in progress. *)
SerialNext ==
    \/ ByHand
    \/ \E p \in Requests :
        \/ Begin(p) /\ \A q \in Requests : ~Active(q)
        \/ Step(p)
        \/ Fail(p)

SerialSpec == Init /\ [][SerialNext]_vars

-----------------------------------------------------------------------------
(* Type invariant: the tables hold rows of their type, a request in        *)
(* progress holds only ids and numbers.                                    *)
LedgerTypeOK ==
    /\ balance \in [Rows -> Row]
    /\ moved \in [LotIds -> Int]
    /\ rowLock \in [Rows -> Requests \cup {NoRequest}]
    /\ settingLock \in Requests \cup {NoRequest}
    /\ req \in [Requests -> Request]

CostTypeOK ==
    /\ unitCost \in Nat \cup {Unpriced}
    /\ costing \in [Requests -> Costing]
    /\ paid \subseteq Nat

TypeOK == LedgerTypeOK /\ CostTypeOK

(* "Stock cannot go negative for this operation": whatever the             *)
(* interleaving, no committed balance row is overdrawn, and its available  *)
(* quantity is what is on hand and not reserved.  Every writer stores the  *)
(* absolute value it has checked, never an increment.                      *)
NoNegativeStock ==
    \A r \in Rows : Stored(r) =>
        /\ balance[r].available = balance[r].onHand - balance[r].reserved
        /\ balance[r].available >= 0

(* A lot has one balance row at a location, even when its first movements  *)
(* are concurrent: the second insert waits, then fails and rolls back.     *)
OneRowPerLot ==
    \A r, s \in Rows : balance[r].lot \in Lots /\ balance[s].lot = balance[r].lot => r = s

(* @@unique([tenantId, locationId, inventoryItemId, lotId]) read as "one   *)
(* balance per item and lot", stock without a lot included.                *)
OneRowPerLotId ==
    \A r, s \in Rows : Stored(r) /\ balance[s].lot = balance[r].lot => r = s

(* The cost of an item, moving average or set by hand, stays between the   *)
(* lowest and the highest cost paid or set UP TO NOW, although the         *)
(* quantity, the old cost and the new cost an average is made of may come  *)
(* from three different moments, and the average may overwrite a cost set, *)
(* or the removal of one, that its request never saw.                      *)
CostWithinPaid ==
    unitCost # Unpriced =>
        /\ \E c \in paid : c <= unitCost
        /\ \E c \in paid : unitCost <= c

(* The goods the movements took out never exceed those they brought in.    *)
LedgerNeverOverdrawn == \A l \in LotIds : moved[l] >= 0

(* With one request at a time, the balance of every lot is the sum of its  *)
(* movements: nothing is lost and nothing is counted twice.                *)
OnHandOf(l) == IF RowsOf(l) = {} THEN 0 ELSE balance[CHOOSE r \in RowsOf(l) : TRUE].onHand
BalanceIsLedger == \A l \in LotIds : OnHandOf(l) = moved[l]

Book == INSTANCE StockBook
    WITH stock <- [l \in LotIds |-> OnHandOf(l)], ledger <- moved

(* ... and the tables are the stock book of the abstract specification:    *)
(* every commit posts one quantity to one lot, in the balance and in the   *)
(* movement log alike, and never more than there is.                       *)
ImplementsBook == Book!Spec

(* Every request is answered: no interleaving of row locks, unique-key     *)
(* waits and rollbacks leaves a transaction waiting forever.               *)
Answered == \A p \in Requests : Active(p) ~> ~Active(p)
=============================================================================
