------------------------------- MODULE ItemImport -------------------------------
(***************************************************************************)
(* Inventory items and their import from a file, with opening stock: a job *)
(* row is created, the rows of the file are imported one after the other,  *)
(* each in a transaction of its own, and the counts kept in memory are     *)
(* written to the job at the end.  Several imports, and the removal of     *)
(* items, run at the same time; the process may end between two steps, and *)
(* nothing resumes a job.                                                  *)
(***************************************************************************)
EXTENDS Naturals, Sequences, FiniteSets

CONSTANTS
    Imports,      \* import jobs
    Names,        \* names of items
    Nothing,      \* no name, no batch number
    Batches,      \* supplier batch numbers
    Files,        \* sequences of Row: the files there are to import
    Variants,     \* product variants that may be linked to an item
    MaxRemovals   \* bound on the removals

(* terms: the columns that describe the item; 0 when they are left empty.  *)
(* readable: every number and date of the row can be parsed.               *)
Row == [name : Names, terms : 0..2, batch : Batches \cup {Nothing}, qty : Nat,
        readable : BOOLEAN]

ImportAssumption ==
    /\ Nothing \notin Names \cup Batches
    /\ Files \subseteq Seq(Row) \ {<<>>}
    /\ MaxRemovals \in Nat

VARIABLES
    item,         \* InventoryItem rows, by name: unique, deleted rows included
    lots,         \* how many InventoryLot rows each batch of an item has
    booked,       \* OPENING_STOCK movements: (import, row number) pairs
    link,         \* the item each variant is linked to
    job,          \* InventoryImport rows
    run,          \* importFile in memory
    rem,          \* removeItem in memory
    removals,
    done,         \* (import, row number) pairs whose transaction committed
    lost,         \* imports one of whose commits was not answered
    late,         \* variants linked to an item already deleted
    calm          \* no two transactions or removals overlapped so far

tables  == <<item, lots, booked, link, job>>
local   == <<run, rem, removals>>
history == <<done, lost, late, calm>>
vars    == <<tables, local, history>>

NoCounts == [processed |-> 0, created |-> 0, updated |-> 0, stocked |-> 0, errors |-> 0]
Absent   == [status |-> "none", terms |-> 0]
NoRun    == [pc |-> "idle", file |-> <<>>, row |-> 1, goOn |-> TRUE, seen |-> Absent,
             lot |-> FALSE, counts |-> NoCounts]
NoRem    == [pc |-> "idle", name |-> Nothing, links |-> {}]

Init ==
    /\ item = [n \in Names |-> Absent]
    /\ lots = [n \in Names |-> [b \in Batches |-> 0]]
    /\ booked = {}
    /\ link = [v \in Variants |-> Nothing]
    /\ job = [j \in Imports |-> [status |-> "none", total |-> 0, counts |-> NoCounts]]
    /\ run = [j \in Imports |-> NoRun]
    /\ rem = NoRem /\ removals = 0
    /\ done = {} /\ lost = {} /\ late = {} /\ calm = TRUE

Busy == rem.pc # "idle" \/ \E j \in Imports : run[j].pc \in {"lot", "commit"}

-----------------------------------------------------------------------------
StartImport(j, file, goOn) ==
    /\ job[j].status = "none"
    /\ job' = [job EXCEPT ![j] = [status |-> "PROCESSING", total |-> Len(file),
                                  counts |-> NoCounts]]
    /\ run' = [run EXCEPT ![j] = [NoRun EXCEPT !.pc = "row", !.file = file, !.goOn = goOn]]
    /\ UNCHANGED <<item, lots, booked, link, rem, removals, history>>

RowOf(j) == run[j].file[run[j].row]

(* The next row after this one: none when an error stops the import.       *)
Passed(j, counts) ==
    [run[j] EXCEPT !.pc = "row", !.seen = Absent, !.lot = FALSE, !.counts = counts,
                   !.row = IF counts.errors > run[j].counts.errors /\ ~run[j].goOn
                           THEN Len(run[j].file) + 1 ELSE run[j].row + 1]
Erred(j) == [run[j].counts EXCEPT !.errors = run[j].counts.errors + 1]

(* upsertItemFromImport looks the item up among those not deleted; a row   *)
(* it refuses, and a number it cannot parse, roll the transaction back.    *)
SeenDeleted(row) ==                               \* mutant: deleted ones found too
    IF item[row.name].status # "none" THEN item[row.name] ELSE Absent
Seen(row) == IF item[row.name].status = "live" THEN item[row.name] ELSE Absent
Refused(row) == ~row.readable \/ (Seen(row) = Absent /\ row.terms = 0)

FindItem(j) ==
    /\ run[j].pc = "row" /\ run[j].row <= Len(run[j].file)
    /\ run' = [run EXCEPT ![j] = IF Refused(RowOf(j)) THEN Passed(j, Erred(j))
                                 ELSE [run[j] EXCEPT !.pc = "lot", !.seen = Seen(RowOf(j))]]
    /\ calm' = (calm /\ ~Busy)
    /\ UNCHANGED <<tables, rem, removals, done, lost, late>>

(* findOrCreateLot: the first lot of the batch, when the row names one.    *)
LotAnyway(row) == FALSE                               \* mutant: the look-up dropped
HasLot(row) == row.batch # Nothing /\ lots[row.name][row.batch] > 0

FindLot(j) ==
    /\ run[j].pc = "lot"
    /\ run' = [run EXCEPT ![j] = [run[j] EXCEPT !.pc = "commit", !.lot = HasLot(RowOf(j))]]
    /\ UNCHANGED <<tables, rem, removals, history>>

AllStocked(row) == TRUE                           \* mutant: counted without a quantity
Stocked(row) == row.qty > 0

Terms(j) == IF RowOf(j).terms = 0 THEN run[j].seen.terms ELSE RowOf(j).terms
One(b) == IF b THEN 1 ELSE 0
Imported(j) == LET c == run[j].counts
                   new == run[j].seen = Absent
    IN  [processed |-> c.processed + 1, created |-> c.created + One(new),
         updated |-> c.updated + One(~new /\ Terms(j) # run[j].seen.terms),
         stocked |-> c.stocked + One(Stocked(RowOf(j))), errors |-> c.errors]

(* Inserting a name that exists, deleted or not, fails.                    *)
Duplicate(j) == run[j].seen = Absent /\ item[RowOf(j).name].status # "none"

CommitRow(j, answered) == LET row == RowOf(j) IN
    /\ run[j].pc = "commit"
    /\ ~Duplicate(j)
    /\ item' = [item EXCEPT ![row.name] =
          [status |-> IF run[j].seen = Absent THEN "live" ELSE item[row.name].status,
           terms  |-> IF Terms(j) = run[j].seen.terms THEN item[row.name].terms ELSE Terms(j)]]
    /\ lots' = IF row.qty > 0 /\ row.batch # Nothing /\ ~run[j].lot
               THEN [lots EXCEPT ![row.name] =
                        [lots[row.name] EXCEPT ![row.batch] = lots[row.name][row.batch] + 1]]
               ELSE lots
    /\ booked' = IF row.qty > 0 THEN booked \cup {<<j, run[j].row>>} ELSE booked
    /\ done' = done \cup {<<j, run[j].row>>}
    /\ lost' = IF answered THEN lost ELSE lost \cup {j}
    /\ run' = [run EXCEPT ![j] = Passed(j, IF answered THEN Imported(j) ELSE Erred(j))]
    /\ UNCHANGED <<link, job, rem, removals, late, calm>>

(* A duplicate name, or any other failure of the transaction.              *)
RowFails(j) ==
    /\ run[j].pc \in {"lot", "commit"}
    /\ run' = [run EXCEPT ![j] = Passed(j, Erred(j))]
    /\ UNCHANGED <<tables, rem, removals, history>>

Outcome(c) == IF c.processed = 0 THEN "FAILED"
              ELSE IF c.errors > 0 THEN "COMPLETED_WITH_ERRORS" ELSE "COMPLETED"

FinishImport(j) ==
    /\ run[j].pc = "row" /\ run[j].row > Len(run[j].file)
    /\ job' = [job EXCEPT ![j] = [status |-> Outcome(run[j].counts), total |-> job[j].total,
                                  counts |-> run[j].counts]]
    /\ run' = [run EXCEPT ![j] = NoRun]
    /\ UNCHANGED <<item, lots, booked, link, rem, removals, history>>

(* The process ends: what it kept in memory is gone.                       *)
Crash ==
    /\ \E j \in Imports : run[j].pc # "idle"
    /\ run' = [j \in Imports |-> NoRun]
    /\ rem' = NoRem
    /\ UNCHANGED <<tables, removals, history>>

-----------------------------------------------------------------------------
(* createVariant and updateVariant write the link they are given.          *)
Link(v, n) ==
    /\ item[n].status # "none"
    /\ link[v] = Nothing /\ \A w \in Variants : link[w] # n
    /\ link' = [link EXCEPT ![v] = n]
    /\ late' = IF item[n].status = "deleted" THEN late \cup {v} ELSE late
    /\ calm' = (calm /\ ~Busy)
    /\ UNCHANGED <<item, lots, booked, job, local, done, lost>>

(* removeItem finds the item and the variants linked to it, then deletes   *)
(* the one and unlinks the others in a transaction.                        *)
FindRemoved(n) ==
    /\ rem.pc = "idle" /\ removals < MaxRemovals
    /\ item[n].status = "live"
    /\ rem' = [pc |-> "remove", name |-> n, links |-> {v \in Variants : link[v] = n}]
    /\ removals' = removals + 1
    /\ calm' = (calm /\ ~Busy)
    /\ UNCHANGED <<tables, run, done, lost, late>>

StillLinked(v) == link[v]                         \* mutant: the link kept
Unlinked(v) == IF v \in rem.links THEN Nothing ELSE link[v]

CommitRemoval ==
    /\ rem.pc = "remove"
    /\ item' = [item EXCEPT ![rem.name] = [item[rem.name] EXCEPT !.status = "deleted"]]
    /\ link' = [v \in Variants |-> Unlinked(v)]
    /\ rem' = NoRem
    /\ UNCHANGED <<lots, booked, job, run, removals, history>>

Next ==
    \/ \E j \in Imports :
          \/ \E file \in Files, goOn \in BOOLEAN : StartImport(j, file, goOn)
          \/ FindItem(j) \/ FindLot(j) \/ RowFails(j) \/ FinishImport(j)
          \/ \E answered \in BOOLEAN : CommitRow(j, answered)
    \/ Crash \/ CommitRemoval
    \/ \E n \in Names : FindRemoved(n) \/ \E v \in Variants : Link(v, n)

Spec == Init /\ [][Next]_vars

-----------------------------------------------------------------------------
Counts == [processed : Nat, created : Nat, updated : Nat, stocked : Nat, errors : Nat]
ItemRow == [status : {"none", "live", "deleted"}, terms : 0..2]

(* Type invariant. *)
TypeOK ==
    /\ item \in [Names -> ItemRow]
    /\ lots \in [Names -> [Batches -> Nat]]
    /\ booked \subseteq Imports \X Nat
    /\ link \in [Variants -> Names \cup {Nothing}]
    /\ job \in [Imports -> [total : Nat, counts : Counts, status :
          {"none", "PROCESSING", "FAILED", "COMPLETED_WITH_ERRORS", "COMPLETED"}]]
    /\ run \in [Imports -> [pc : {"idle", "row", "lot", "commit"}, file : Files \cup {<<>>},
          row : Nat \ {0}, goOn : BOOLEAN, seen : ItemRow, lot : BOOLEAN, counts : Counts]]
    /\ rem \in [pc : {"idle", "remove"}, name : Names \cup {Nothing}, links : SUBSET Variants]
    /\ removals \in 0..MaxRemovals
    /\ done \subseteq Imports \X Nat /\ lost \subseteq Imports
    /\ late \subseteq Variants /\ calm \in BOOLEAN

(* What a finished job reports is in the tables: it claims no more rows    *)
(* and no more opening stock than were committed in its name, exactly as   *)
(* much when every commit was answered, and COMPLETED means the whole file.*)
Finished(j) == job[j].status \notin {"none", "PROCESSING"}
RowsOf(j, pairs) == Cardinality({n \in 1..job[j].total : <<j, n>> \in pairs})
JobTellsTruth == \A j \in Imports : Finished(j) =>
    LET c == job[j].counts IN
    /\ c.processed <= RowsOf(j, done) /\ c.stocked <= RowsOf(j, booked)
    /\ j \notin lost => c.processed = RowsOf(j, done) /\ c.stocked = RowsOf(j, booked)
    /\ c.created + c.updated <= c.processed
    /\ job[j].status = "COMPLETED" => RowsOf(j, done) = job[j].total
    /\ job[j].status = "FAILED" /\ j \notin lost => RowsOf(j, booked) = 0

(* One lot per batch number when transactions do not overlap: the look-up  *)
(* is all that keeps it so.                                                *)
OneLotPerBatch == calm => \A n \in Names, b \in Batches : lots[n][b] <= 1

(* When they do not overlap, no import books stock for a deleted item, and *)
(* no variant stays linked to one unless it was linked to it afterwards.   *)
BooksForLive ==
    \A j \in Imports : calm /\ CommitRow(j, TRUE) => item'[RowOf(j).name].status = "live"
NoLinkToDeleted == calm => \A v \in Variants \ late :
    link[v] # Nothing => item[link[v]].status = "live"
=============================================================================
