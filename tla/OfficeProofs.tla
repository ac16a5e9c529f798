---------------------------- MODULE OfficeProofs ----------------------------
(***************************************************************************)
(* Proofs about the components around the ledger, each for any values of   *)
(* its constants: the daily close, the import of items, the provisioning   *)
(* of users, the mirrored rows, recipes, the money of a location, the      *)
(* set-up of a tenant and procurement requests.  They are                  *)
(* stated of the instances of Components, whose steps they are part of.    *)
(***************************************************************************)
EXTENDS Components, FiniteSums, TLAPS

-----------------------------------------------------------------------------
(* DAILY CLOSE.                                                            *)

IsDaySlot(s) == s = [f \in DOMAIN Day!Free |-> s[f]]

(* A closing holds the stamp it was given and what it found under it; the  *)
(* row may have changed since.                                             *)
FoundOK(s) == s.pc = "read" =>
    /\ s.stamp \in Stamps
    /\ s.found \in {"none", "DRAFT"}
    /\ s.found = "DRAFT" => s.stamp \in seeded

(* A row that is not there was never closed; one that was not seeded is no *)
(* draft and was closed once at most.                                      *)
CloseInv ==
    /\ DOMAIN slot = Slots /\ slot = [p \in DOMAIN slot |-> slot[p]]
    /\ \A p \in Slots : IsDaySlot(slot[p]) /\ FoundOK(slot[p])
    /\ DOMAIN day = Stamps /\ day = [s \in DOMAIN day |-> day[s]]
    /\ closings \in [Stamps -> Nat]
    /\ \A s \in Stamps : day[s].status \in {"none", "DRAFT", "CLOSED"}
    /\ \A s \in Stamps : day[s].status = "none" => closings[s] = 0
    /\ \A s \in Stamps \ seeded : day[s].status # "DRAFT" /\ closings[s] <= 1

LEMMA DaySlotFields ==
    {"pc", "variant", "units", "price", "stamp", "found", "manual", "labour", "sheet",
     "todo", "needs", "sum"} = DOMAIN Day!Free
BY DEF Day!Free

LEMMA FreeIsDaySlot == IsDaySlot(Day!Free) /\ Day!Free.pc = "idle"
BY DEF Day!Free, IsDaySlot

LEMMA InitCloses == Day!Init => CloseInv
<1> SUFFICES ASSUME Day!Init PROVE CloseInv
  OBVIOUS
<1>1. day \in [Stamps -> [status : {"none", "DRAFT"}, totals : {Day!Zero}]]
  BY DEF Day!Init
<1> QED
  BY <1>1, FreeIsDaySlot DEF Day!Init, CloseInv, FoundOK

(* A step that replaces one slot and leaves the rows alone. *)
LEMMA QuietClose ==
    ASSUME CloseInv, NEW p \in Slots, NEW new, IsDaySlot(new), FoundOK(new),
           slot' = [slot EXCEPT ![p] = new], UNCHANGED <<day, closings, seeded>>
    PROVE  CloseInv'
<1>1. \A q \in Slots : slot'[q] = IF q = p THEN new ELSE slot[q]
  BY DEF CloseInv
<1>2. \A q \in Slots : (IsDaySlot(slot[q]) /\ FoundOK(slot[q]))'
  BY <1>1 DEF CloseInv, FoundOK, IsDaySlot
<1>3. DOMAIN slot' = Slots /\ slot' = [q \in DOMAIN slot' |-> slot'[q]]
  BY DEF CloseInv
<1> QED
  BY <1>2, <1>3 DEF CloseInv

(* A step of a closing that goes on reading. *)
LEMMA ReadOn ==
    ASSUME CloseInv, NEW p \in Slots, NEW new, IsDaySlot(new), new.pc = slot[p].pc,
           new.stamp = slot[p].stamp, new.found = slot[p].found,
           slot' = [slot EXCEPT ![p] = new], UNCHANGED <<day, closings, seeded>>
    PROVE  CloseInv'
<1>1. FoundOK(new)
  BY DEF CloseInv, FoundOK
<1> QED
  BY <1>1, QuietClose

(* The write: a row found as a draft was seeded; one that was not found is *)
(* inserted only when it is still not there, and then it was never closed. *)
LEMMA WritingCloses ==
    ASSUME CloseInv, NEW p \in Slots, Day!WriteClose(p)
    PROVE  CloseInv'
<1> DEFINE s == slot[p]
<1>1. FoundOK(s) /\ s.pc = "read" /\ seeded' = seeded /\ slot' = [slot EXCEPT ![p] = Day!Free]
  BY DEF CloseInv, Day!WriteClose, Day!Finish
<1>2. FoundOK(Day!Free)
  BY FreeIsDaySlot DEF FoundOK
<1>3. CASE UNCHANGED <<day, closings>>
  BY <1>1, <1>2, <1>3, FreeIsDaySlot, QuietClose
<1>4. ASSUME NEW closed, closed.status = "CLOSED", ~(s.found = "none" /\ Day!Duplicate(s.stamp)),
             day' = [day EXCEPT ![s.stamp] = closed],
             closings' = [closings EXCEPT ![s.stamp] = @ + 1]
      PROVE  CloseInv'
  <2>1. \A q \in Slots : slot'[q] = IF q = p THEN Day!Free ELSE slot[q]
    BY <1>1 DEF CloseInv
  <2>2. \A q \in Slots : (IsDaySlot(slot[q]) /\ FoundOK(slot[q]))'
    BY <1>1, <1>2, <2>1, FreeIsDaySlot DEF CloseInv, FoundOK, IsDaySlot
  <2>3. DOMAIN slot' = Slots /\ slot' = [q \in DOMAIN slot' |-> slot'[q]]
    BY <1>1 DEF CloseInv
  <2>4. \A t \in Stamps : day'[t] = IF t = s.stamp THEN closed ELSE day[t]
    BY <1>4 DEF CloseInv
  <2>5. closings' \in [Stamps -> Nat]
        /\ \A t \in Stamps : closings'[t] = IF t = s.stamp THEN closings[t] + 1 ELSE closings[t]
    <3>1. s.stamp \in Stamps
      BY <1>1 DEF FoundOK
    <3> QED
      BY <1>4, <3>1 DEF CloseInv
  <2>6. s.stamp \in Stamps \ seeded => closings[s.stamp] = 0
    BY <1>1, <1>4 DEF CloseInv, FoundOK, Day!Duplicate
  <2>7. DOMAIN day' = Stamps /\ day' = [t \in DOMAIN day' |-> day'[t]]
    BY <1>4 DEF CloseInv
  <2>8. \A t \in Stamps : (day[t].status \in {"none", "DRAFT", "CLOSED"})'
                          /\ (day[t].status = "none" => closings[t] = 0)'
    BY <1>4, <2>4, <2>5 DEF CloseInv
  <2>9. \A t \in Stamps \ seeded : (day[t].status # "DRAFT" /\ closings[t] <= 1)'
    BY <1>4, <2>4, <2>5, <2>6 DEF CloseInv
  <2> QED
    BY <1>1, <2>2, <2>3, <2>5, <2>7, <2>8, <2>9 DEF CloseInv
<1>5. [status |-> "CLOSED", totals |-> [s.sum EXCEPT !.net = Day!Net(s.sum, s.labour)]].status = "CLOSED"
  OBVIOUS
<1> QED
  BY <1>3, <1>4, <1>5 DEF Day!WriteClose

LEMMA StepCloses == CloseInv /\ [Day!Next]_Day!vars => CloseInv'
<1> SUFFICES ASSUME CloseInv, [Day!Next]_Day!vars PROVE CloseInv'
  OBVIOUS
<1> USE DEF Day!tables, Day!history
<1>1. ASSUME UNCHANGED <<slot, day, closings, seeded>> PROVE CloseInv'
  BY <1>1 DEF CloseInv, FoundOK, IsDaySlot
<1>2. ASSUME NEW p \in Slots, Day!Finish(p), UNCHANGED <<day, closings, seeded>>
      PROVE  CloseInv'
  BY <1>2, QuietClose, FreeIsDaySlot DEF Day!Finish, FoundOK
<1>3. ASSUME NEW p \in Slots, NEW v \in Variants, NEW units \in Units,
             NEW wanted \in Prices \cup {None}, Day!CaptureSale(p, v, units, wanted)
      PROVE  CloseInv'
  <2> DEFINE amount == IF wanted = None THEN local[v] ELSE wanted
             new == [slot[p] EXCEPT !.pc = "sale", !.variant = v, !.units = units, !.price = amount]
  <2>1. slot' = [slot EXCEPT ![p] = new] /\ UNCHANGED <<day, closings, seeded>>
    BY <1>3 DEF Day!CaptureSale
  <2>2. IsDaySlot(new) /\ new.pc = "sale"
    BY DaySlotFields DEF CloseInv, IsDaySlot
  <2> QED
    BY <2>1, <2>2, QuietClose DEF FoundOK
<1>4. ASSUME NEW p \in Slots, NEW stamp \in Stamps, NEW manual, NEW labour,
             Day!FindDay(p, stamp, manual, labour)
      PROVE  CloseInv'
  <2> DEFINE new == [slot[p] EXCEPT !.pc = "read", !.stamp = stamp,
                        !.found = day[stamp].status, !.manual = manual, !.labour = labour,
                        !.needs = {"sales", "waste"}]
  <2>1. slot' = [slot EXCEPT ![p] = new] /\ UNCHANGED <<day, closings, seeded>>
    BY <1>4 DEF Day!FindDay
  <2>2. IsDaySlot(new) /\ new.stamp = stamp /\ new.found = day[stamp].status
    BY DaySlotFields DEF CloseInv, IsDaySlot
  <2>3. FoundOK(new)
    BY <1>4, <2>2 DEF CloseInv, FoundOK, Day!FindDay, Day!Refused
  <2> QED
    BY <2>1, <2>2, <2>3, QuietClose
<1>5. ASSUME NEW p \in Slots, Day!ReadSales(p) PROVE CloseInv'
  <2> DEFINE new == [slot[p] EXCEPT !.needs = slot[p].needs \ {"sales"},
                        !.sheet = entry, !.todo = Day!Sold(entry),
                        !.sum = [slot[p].sum EXCEPT !.sales = Day!SalesTotal(entry, slot[p].manual)]]
  <2>1. slot' = [slot EXCEPT ![p] = new] /\ UNCHANGED <<day, closings, seeded>>
    BY <1>5 DEF Day!ReadSales
  <2>2. IsDaySlot(new) /\ new.pc = slot[p].pc /\ new.stamp = slot[p].stamp /\ new.found = slot[p].found
    BY DaySlotFields DEF CloseInv, IsDaySlot
  <2> QED
    BY <2>1, <2>2, ReadOn
<1>6. ASSUME NEW p \in Slots, Day!ReadWaste(p) PROVE CloseInv'
  <2> DEFINE new == [slot[p] EXCEPT !.needs = slot[p].needs \ {"waste"},
                        !.sum = [slot[p].sum EXCEPT !.waste = waste.standing + waste.voided]]
  <2>1. slot' = [slot EXCEPT ![p] = new] /\ UNCHANGED <<day, closings, seeded>>
    BY <1>6 DEF Day!ReadWaste
  <2>2. IsDaySlot(new) /\ new.pc = slot[p].pc /\ new.stamp = slot[p].stamp /\ new.found = slot[p].found
    BY DaySlotFields DEF CloseInv, IsDaySlot
  <2> QED
    BY <2>1, <2>2, ReadOn
<1>7. ASSUME NEW p \in Slots, NEW v \in Variants, Day!CostVariant(p, v) PROVE CloseInv'
  <2> DEFINE new == [slot[p] EXCEPT !.todo = slot[p].todo \ {v},
                        !.sum = [slot[p].sum EXCEPT
                            !.cogs = slot[p].sum.cogs + Day!Cost(v, slot[p].sheet[v].units)]]
  <2>1. slot' = [slot EXCEPT ![p] = new] /\ UNCHANGED <<day, closings, seeded>>
    BY <1>7 DEF Day!CostVariant
  <2>2. IsDaySlot(new) /\ new.pc = slot[p].pc /\ new.stamp = slot[p].stamp /\ new.found = slot[p].found
    BY DaySlotFields DEF CloseInv, IsDaySlot
  <2> QED
    BY <2>1, <2>2, ReadOn
<1>8. ASSUME NEW p \in Slots, Day!Arrivals(p) PROVE CloseInv'
  <2>1. CASE Day!Environment(p)
    BY <2>1, <1>1 DEF Day!Environment
  <2> QED
    BY <1>3, <1>4, <1>8, <2>1 DEF Day!Arrivals
<1>9. ASSUME NEW p \in Slots, Day!Step(p) PROVE CloseInv'
  <2>1. CASE Day!UpsertEntry(p)
    BY <2>1, <1>2 DEF Day!UpsertEntry
  <2> QED
    BY <1>5, <1>6, <1>7, <1>9, <2>1, WritingCloses DEF Day!Step
<1>10. ASSUME NEW p \in Slots, Day!Fail(p) PROVE CloseInv'
  BY <1>2, <1>10 DEF Day!Fail
<1> QED
  BY <1>1, <1>8, <1>9, <1>10 DEF Day!Next, Day!vars

(* A row of DailyClose is closed once however closings overlap, unless it  *)
(* was seeded as a draft: closeDailyClose checks the row before it reads   *)
(* the day and never again, and the unique key stops the second insert.    *)
THEOREM RowsAreClosedOnce == Day!Spec => []Day!RowClosedOnce
<1>1. CloseInv => Day!RowClosedOnce
  BY DEF CloseInv, Day!RowClosedOnce
<1> QED
  BY InitCloses, StepCloses, <1>1, PTL DEF Day!Spec

-----------------------------------------------------------------------------
(* ITEM IMPORT: what a finished job reports is in the tables.              *)

JobRow == [total : Nat, counts : Import!Counts, status :
          {"none", "PROCESSING", "FAILED", "COMPLETED_WITH_ERRORS", "COMPLETED"}]
RunRow == [pc : {"idle", "row", "lot", "commit"}, file : ItemFiles \cup {<<>>},
        row : Nat \ {0}, goOn : BOOLEAN, seen : Import!ItemRow, lot : BOOLEAN, counts : Import!Counts]

(* The counts of an import in progress, against what it has committed.     *)
Counted(j, c) ==
    /\ c.processed <= Import!RowsOf(j, done) /\ c.stocked <= Import!RowsOf(j, booked)
    /\ j \notin lost => c.processed = Import!RowsOf(j, done) /\ c.stocked = Import!RowsOf(j, booked)
    /\ c.created + c.updated <= c.processed

(* It is somewhere in its file, has committed only rows before that place, *)
(* and all of them if it has met no error.                                 *)
Running(j) == LET r == run[j] IN
    /\ job[j].status = "PROCESSING" /\ job[j].total = Len(r.file)
    /\ r.file \in ItemFiles
    /\ r.row <= Len(r.file) + 1
    /\ r.pc \in {"lot", "commit"} => r.row <= Len(r.file)
    /\ \A n \in Nat : <<j, n>> \in done => n < r.row
    /\ Counted(j, r.counts)
    /\ r.counts.errors = 0 => r.counts.processed = r.row - 1

Told(j) == LET c == job[j].counts IN
    /\ Counted(j, c)
    /\ job[j].status = "COMPLETED" => Import!RowsOf(j, done) = job[j].total
    /\ job[j].status = "FAILED" /\ j \notin lost => Import!RowsOf(j, booked) = 0

JobOK(j) ==
    /\ job[j].status = "none" => \A n \in Nat : <<j, n>> \notin done
    /\ run[j].pc # "idle" => Running(j)
    /\ Import!Finished(j) => run[j].pc = "idle" /\ Told(j)

ImportInv ==
    /\ Import!TypeOK
    /\ booked \subseteq done
    /\ \A j \in Slots, n \in Nat : <<j, n>> \in done => n \in 1..job[j].total
    /\ \A j \in Slots : JobOK(j)

-----------------------------------------------------------------------------
(* Counting rows. *)
RowSet(j, total, pairs) == {n \in 1..total : <<j, n>> \in pairs}

LEMMA RowsAreFinite ==
    ASSUME NEW j, NEW total \in Nat, NEW pairs
    PROVE  /\ IsFiniteSet(RowSet(j, total, pairs))
           /\ Cardinality(RowSet(j, total, pairs)) \in Nat
           /\ Cardinality(RowSet(j, total, pairs)) <= total
<1>1. RowSet(j, total, pairs) \subseteq 1..total
  BY DEF RowSet
<1>2. IsFiniteSet(1..total) /\ Cardinality(1..total) = total
  BY FS_Interval
<1> QED
  BY <1>1, <1>2, FS_Subset, FS_CardinalityType

LEMMA OneRowMore ==
    ASSUME NEW j, NEW total \in Nat, NEW pairs, NEW n \in 1..total, <<j, n>> \notin pairs
    PROVE  Cardinality(RowSet(j, total, pairs \cup {<<j, n>>}))
             = Cardinality(RowSet(j, total, pairs)) + 1
<1>1. RowSet(j, total, pairs \cup {<<j, n>>}) = RowSet(j, total, pairs) \cup {n}
  BY DEF RowSet
<1>2. n \notin RowSet(j, total, pairs)
  BY DEF RowSet
<1> QED
  BY <1>1, <1>2, RowsAreFinite, FS_AddElement

LEMMA FewerRows ==
    ASSUME NEW j, NEW total \in Nat, NEW pairs, NEW more, pairs \subseteq more
    PROVE  Cardinality(RowSet(j, total, pairs)) <= Cardinality(RowSet(j, total, more))
<1>1. RowSet(j, total, pairs) \subseteq RowSet(j, total, more)
  BY DEF RowSet
<1> QED
  BY <1>1, RowsAreFinite, FS_Subset

LEMMA NoRows ==
    ASSUME NEW j, NEW total \in Nat, NEW pairs, \A n \in Nat : <<j, n>> \notin pairs
    PROVE  Cardinality(RowSet(j, total, pairs)) = 0
<1>1. RowSet(j, total, pairs) = {}
  BY DEF RowSet
<1> QED
  BY <1>1, FS_EmptySet

(* The import counts with its own module's name for Cardinality. *)
LEMMA SameCount == \A S : Import!Cardinality(S) = Cardinality(S)
BY DEF Cardinality, Import!Cardinality, IsFiniteSet, Import!IsFiniteSet

LEMMA RowsOfIs ==
    ASSUME NEW j, NEW pairs
    PROVE  Import!RowsOf(j, pairs) = Cardinality(RowSet(j, job[j].total, pairs))
BY SameCount DEF Import!RowsOf, RowSet

-----------------------------------------------------------------------------
LEMMA CountsTyped == Import!NoCounts \in Import!Counts /\ Import!Absent \in Import!ItemRow /\ Import!NoRun \in RunRow
BY DEF Import!NoCounts, Import!Counts, Import!Absent, Import!ItemRow, Import!NoRun,
   RunRow

LEMMA RunTyped ==
    ASSUME Import!ImportAssumption, ImportInv, NEW j \in Slots
    PROVE  /\ run[j] \in RunRow /\ job[j] \in JobRow
           /\ run[j].pc # "idle" => run[j].file \in ItemFiles /\ run[j].file \in Seq(Import!Row)
           /\ run[j].pc # "idle" /\ run[j].row <= Len(run[j].file) => Import!RowOf(j) \in Import!Row
<1>1. run[j] \in RunRow /\ job[j] \in JobRow
  BY DEF ImportInv, Import!TypeOK, RunRow, JobRow
<1>2. run[j].pc # "idle" => run[j].file \in ItemFiles /\ run[j].file \in Seq(Import!Row)
  BY DEF ImportInv, JobOK, Running, Import!ImportAssumption
<1>3. run[j].row \in Nat \ {0}
  BY <1>1 DEF RunRow
<1> QED
  BY <1>1, <1>2, <1>3 DEF Import!RowOf

LEMMA PassedTyped ==
    ASSUME Import!ImportAssumption, ImportInv, NEW j \in Slots, run[j].pc # "idle", NEW c \in Import!Counts
    PROVE  /\ Import!Passed(j, c) \in RunRow
           /\ Import!Passed(j, c).pc = "row" /\ Import!Passed(j, c).file = run[j].file /\ Import!Passed(j, c).counts = c
           /\ Import!Passed(j, c).row \in {run[j].row + 1, Len(run[j].file) + 1}
           /\ c.errors = run[j].counts.errors => Import!Passed(j, c).row = run[j].row + 1
<1>1. run[j] \in RunRow /\ run[j].file \in Seq(Import!Row)
  BY RunTyped
<1>2. Len(run[j].file) \in Nat /\ run[j].row \in Nat
  BY <1>1 DEF RunRow
<1>3. PICK next : next = IF c.errors > run[j].counts.errors /\ ~run[j].goOn
                         THEN Len(run[j].file) + 1 ELSE run[j].row + 1
  BY Zenon
<1>4. (next = Len(run[j].file) + 1 /\ c.errors > run[j].counts.errors) \/ next = run[j].row + 1
  BY <1>3, Zenon
<1>5. c.errors \in Nat /\ run[j].counts.errors \in Nat
  BY <1>1 DEF RunRow, Import!Counts
<1>6. Import!Passed(j, c) = [run[j] EXCEPT !.pc = "row", !.seen = Import!Absent, !.lot = FALSE,
                                    !.counts = c, !.row = next]
  BY <1>3, Zenon DEF Import!Passed
<1>7. Import!Absent \in Import!ItemRow /\ next \in Nat \ {0}
  BY <1>2, <1>4, CountsTyped
<1>8. Import!Passed(j, c) \in RunRow
  BY <1>1, <1>6, <1>7 DEF RunRow
<1>9. /\ Import!Passed(j, c).pc = "row" /\ Import!Passed(j, c).file = run[j].file /\ Import!Passed(j, c).counts = c
      /\ Import!Passed(j, c).row = next
  BY <1>1, <1>6 DEF RunRow
<1>10. c.errors > run[j].counts.errors => c.errors # run[j].counts.errors
  BY <1>5
<1> QED
  BY <1>4, <1>8, <1>9, <1>10, Zenon

(* A job none of whose rows and counts a step touches. *)
LEMMA QuietJob ==
    ASSUME ImportInv, NEW q \in Slots, job'[q] = job[q], run'[q] = run[q],
           \A n \in Nat : (<<q, n>> \in done' <=> <<q, n>> \in done)
                          /\ (<<q, n>> \in booked' <=> <<q, n>> \in booked),
           q \in lost' <=> q \in lost
    PROVE  JobOK(q)' /\ \A n \in Nat : <<q, n>> \in done' => n \in 1..job'[q].total
<1>1. job[q].total \in Nat
  BY DEF ImportInv, Import!TypeOK
<1>2. RowSet(q, job[q].total, done') = RowSet(q, job[q].total, done)
      /\ RowSet(q, job[q].total, booked') = RowSet(q, job[q].total, booked)
  BY <1>1 DEF RowSet
<1>3. Import!RowsOf(q, done)' = Import!RowsOf(q, done) /\ Import!RowsOf(q, booked)' = Import!RowsOf(q, booked)
  BY <1>2, RowsOfIs DEF Import!RowsOf, RowSet
<1>4. JobOK(q)
  BY DEF ImportInv
<1> QED
  BY <1>3, <1>4 DEF ImportInv, JobOK, Running, Told, Counted, Import!Finished

(* A step that replaces what one import keeps in memory, and no row.       *)
LEMMA QuietRun ==
    ASSUME Import!ImportAssumption, ImportInv, NEW j \in Slots, NEW new \in RunRow,
           run' = [run EXCEPT ![j] = new], job[j].status = "PROCESSING", (Running(j))',
           UNCHANGED <<item, lots, booked, link, job, rem, removals, done, lost, late>>,
           calm' \in BOOLEAN
    PROVE  ImportInv'
<1>1. Import!TypeOK'
  BY DEF ImportInv, Import!TypeOK, RunRow
<1>2. ASSUME NEW q \in Slots PROVE JobOK(q)'
  <2>1. CASE q # j
    <3>1. run'[q] = run[q]
      BY <2>1 DEF ImportInv, Import!TypeOK
    <3> QED
      BY <3>1, QuietJob
  <2>2. CASE q = j
    BY <2>2 DEF JobOK, Import!Finished
  <2> QED
    BY <2>1, <2>2
<1> QED
  BY <1>1, <1>2 DEF ImportInv

(* A row that is not imported: the import goes on or stops after it.       *)
LEMMA ErrorSkips ==
    ASSUME Import!ImportAssumption, ImportInv, NEW j \in Slots, run[j].pc # "idle",
           run[j].row <= Len(run[j].file),
           run' = [run EXCEPT ![j] = Import!Passed(j, Import!Erred(j))],
           UNCHANGED <<item, lots, booked, link, job, rem, removals, done, lost, late>>,
           calm' \in BOOLEAN
    PROVE  ImportInv'
<1>0. PICK c : c = Import!Erred(j)
  OBVIOUS
<1>1. run[j] \in RunRow /\ run[j].file \in Seq(Import!Row) /\ Running(j)
  BY RunTyped DEF ImportInv, JobOK
<1>2. /\ c \in Import!Counts /\ c.errors = run[j].counts.errors + 1 /\ c.errors # 0
      /\ c.processed = run[j].counts.processed /\ c.stocked = run[j].counts.stocked
      /\ c.created = run[j].counts.created /\ c.updated = run[j].counts.updated
  BY <1>0, <1>1 DEF RunRow, Import!Counts, Import!Erred
<1>3. /\ Import!Passed(j, c) \in RunRow
      /\ Import!Passed(j, c).pc = "row" /\ Import!Passed(j, c).file = run[j].file /\ Import!Passed(j, c).counts = c
      /\ Import!Passed(j, c).row \in {run[j].row + 1, Len(run[j].file) + 1}
  BY <1>2, PassedTyped
<1>4. run' = [run EXCEPT ![j] = Import!Passed(j, c)] /\ run'[j] = Import!Passed(j, c)
  BY <1>0 DEF ImportInv, Import!TypeOK
<1>5. run[j].row \in Nat /\ Len(run[j].file) \in Nat
  BY <1>1 DEF RunRow
<1>6. Import!RowsOf(j, done)' = Import!RowsOf(j, done) /\ Import!RowsOf(j, booked)' = Import!RowsOf(j, booked)
  BY DEF Import!RowsOf
<1>8. Counted(j, c)'
  BY <1>1, <1>2, <1>6 DEF Counted, Running
<1>9. \A n \in Nat : <<j, n>> \in done => n < Import!Passed(j, c).row
  BY <1>1, <1>3, <1>5 DEF Running
<1>10. Running(j)'
  BY <1>1, <1>2, <1>3, <1>4, <1>5, <1>8, <1>9 DEF Running
<1> QED
  BY <1>1, <1>3, <1>4, <1>10, QuietRun DEF Running

LEMMA FindItemTells ==
    ASSUME Import!ImportAssumption, ImportInv, NEW j \in Slots, Import!FindItem(j)
    PROVE  ImportInv'
<1>1. run[j] \in RunRow /\ Import!RowOf(j) \in Import!Row /\ Running(j)
  BY RunTyped DEF Import!FindItem, ImportInv, JobOK
<1>2. UNCHANGED <<item, lots, booked, link, job, rem, removals, done, lost, late>>
      /\ calm' \in BOOLEAN
  BY DEF Import!FindItem, Import!tables, ImportInv, Import!TypeOK
<1>3. CASE Import!Refused(Import!RowOf(j))
  BY <1>2, <1>3, ErrorSkips DEF Import!FindItem
<1>4. CASE ~Import!Refused(Import!RowOf(j))
  <2> DEFINE new == [run[j] EXCEPT !.pc = "lot", !.seen = Import!Seen(Import!RowOf(j))]
  <2>1. Import!Seen(Import!RowOf(j)) \in Import!ItemRow
    BY <1>1, CountsTyped DEF Import!Seen, Import!Row, ImportInv, Import!TypeOK
  <2>2. new \in RunRow /\ new.pc = "lot" /\ new.file = run[j].file /\ new.row = run[j].row
        /\ new.counts = run[j].counts
    BY <1>1, <2>1 DEF RunRow
  <2>3. run' = [run EXCEPT ![j] = new] /\ run'[j] = new
    BY <1>4 DEF Import!FindItem, ImportInv, Import!TypeOK
  <2>4. Running(j)'
    BY <1>1, <1>2, <2>2, <2>3 DEF Running, Counted, Import!RowsOf, Import!FindItem
  <2> QED
    BY <1>1, <1>2, <2>2, <2>3, <2>4, QuietRun DEF Running
<1> QED
  BY <1>3, <1>4

LEMMA FindLotTells ==
    ASSUME Import!ImportAssumption, ImportInv, NEW j \in Slots, Import!FindLot(j)
    PROVE  ImportInv'
<1>1. run[j] \in RunRow /\ Running(j)
  BY RunTyped DEF Import!FindLot, ImportInv, JobOK
<1>2. UNCHANGED <<item, lots, booked, link, job, rem, removals, done, lost, late>>
      /\ calm' \in BOOLEAN
  BY DEF Import!FindLot, Import!tables, Import!history, ImportInv, Import!TypeOK
<1>3. PICK b \in BOOLEAN : b = Import!HasLot(Import!RowOf(j))
  BY Zenon DEF Import!HasLot
<1> DEFINE new == [run[j] EXCEPT !.pc = "commit", !.lot = b]
<1>4. new \in RunRow /\ new.pc = "commit" /\ new.file = run[j].file /\ new.row = run[j].row
      /\ new.counts = run[j].counts
  <2>1. b \in BOOLEAN
    BY <1>3
  <2> QED
    BY <1>1, <2>1 DEF RunRow
<1>5. run' = [run EXCEPT ![j] = new]
  BY <1>3, Zenon DEF Import!FindLot
<1>6. run'[j] = new
  BY <1>5 DEF ImportInv, Import!TypeOK
<1>7. Running(j)'
  BY <1>1, <1>2, <1>4, <1>6 DEF Running, Counted, Import!RowsOf, Import!FindLot
<1> QED
  BY <1>1, <1>2, <1>4, <1>5, <1>7, QuietRun DEF Running

LEMMA RowFailsTells ==
    ASSUME Import!ImportAssumption, ImportInv, NEW j \in Slots, Import!RowFails(j)
    PROVE  ImportInv'
<1>1. run[j].pc # "idle" /\ run[j].row <= Len(run[j].file)
  BY DEF Import!RowFails, ImportInv, JobOK, Running
<1>2. UNCHANGED <<item, lots, booked, link, job, rem, removals, done, lost, late>>
      /\ calm' \in BOOLEAN
  BY DEF Import!RowFails, Import!tables, Import!history, ImportInv, Import!TypeOK
<1> QED
  BY <1>1, <1>2, ErrorSkips DEF Import!RowFails

(* A step that touches no job. *)
LEMMA NoJobTells ==
    ASSUME ImportInv, Import!TypeOK', UNCHANGED <<booked, job, run, done, lost>>
    PROVE  ImportInv'
<1>1. ASSUME NEW q \in Slots PROVE JobOK(q)'
  BY QuietJob
<1> QED
  BY <1>1 DEF ImportInv

LEMMA StartTells ==
    ASSUME Import!ImportAssumption, ImportInv, NEW j \in Slots, NEW file \in ItemFiles,
           NEW goOn \in BOOLEAN, Import!StartImport(j, file, goOn)
    PROVE  ImportInv'
<1> DEFINE new == [Import!NoRun EXCEPT !.pc = "row", !.file = file, !.goOn = goOn]
           line == [status |-> "PROCESSING", total |-> Len(file), counts |-> Import!NoCounts]
<1>1. file \in Seq(Import!Row) /\ Len(file) \in Nat
  BY DEF Import!ImportAssumption
<1>2. new \in RunRow /\ new.pc = "row" /\ new.file = file /\ new.row = 1 /\ new.counts = Import!NoCounts
  BY CountsTyped DEF RunRow, Import!NoRun
<1>3. line \in JobRow
  BY <1>1, CountsTyped DEF JobRow
<1>4. run' = [run EXCEPT ![j] = new] /\ job' = [job EXCEPT ![j] = line]
      /\ UNCHANGED <<item, lots, booked, link, rem, removals, done, lost, late, calm>>
  BY DEF Import!StartImport, Import!history
<1>5. run'[j] = new /\ job'[j] = line
      /\ \A q \in Slots \ {j} : run'[q] = run[q] /\ job'[q] = job[q]
  BY <1>4 DEF ImportInv, Import!TypeOK
<1>6. /\ job'[j].total = Len(file) /\ job'[j].status = "PROCESSING"
       /\ run'[j].pc = "row" /\ run'[j].file = file /\ run'[j].row = 1 /\ run'[j].counts = Import!NoCounts
  BY <1>2, <1>5
<1>7. Import!TypeOK'
  BY <1>2, <1>3, <1>4 DEF ImportInv, Import!TypeOK, RunRow, JobRow
<1>8. \A n \in Nat : <<j, n>> \notin done /\ <<j, n>> \notin booked
  BY DEF Import!StartImport, ImportInv, JobOK
<1>9. Import!RowsOf(j, done)' = 0 /\ Import!RowsOf(j, booked)' = 0
  <2>1. Import!RowsOf(j, done)' = Cardinality(RowSet(j, Len(file), done))
        /\ Import!RowsOf(j, booked)' = Cardinality(RowSet(j, Len(file), booked))
    BY <1>4, <1>6, SameCount DEF Import!RowsOf, RowSet
  <2> QED
    BY <1>1, <1>8, <2>1, NoRows
<1>10. JobOK(j)'
  <2>1. Counted(j, Import!NoCounts)'
    BY <1>9 DEF Counted, Import!NoCounts
  <2>2. Import!NoCounts.processed = 0
    BY DEF Import!NoCounts
  <2>3. Running(j)'
    BY <1>1, <1>4, <1>6, <1>8, <2>1, <2>2 DEF Running
  <2> QED
    BY <1>6, <2>3 DEF JobOK, Import!Finished
<1>11. \A q \in Slots : JobOK(q)'
  BY <1>4, <1>5, <1>10, QuietJob
<1>12. \A q \in Slots, n \in Nat : <<q, n>> \in done' => n \in 1..job'[q].total
  BY <1>4, <1>5, <1>8 DEF ImportInv
<1> QED
  BY <1>4, <1>7, <1>11, <1>12 DEF ImportInv

(* The counts kept in memory become the report. *)
LEMMA FinishTells ==
    ASSUME Import!ImportAssumption, ImportInv, NEW j \in Slots, Import!FinishImport(j)
    PROVE  ImportInv'
<1>0. PICK c : c = run[j].counts
  OBVIOUS
<1> DEFINE line == [status |-> Import!Outcome(c), total |-> job[j].total, counts |-> c]
<1>1. run[j] \in RunRow /\ job[j] \in JobRow /\ c \in Import!Counts /\ run[j].file \in Seq(Import!Row)
      /\ Running(j) /\ run[j].row = Len(run[j].file) + 1
  BY <1>0, RunTyped DEF Import!FinishImport, ImportInv, JobOK, Running, RunRow
<1>2. line \in JobRow
  BY <1>1 DEF JobRow, Import!Outcome
<1>3. run' = [run EXCEPT ![j] = Import!NoRun] /\ job' = [job EXCEPT ![j] = line]
      /\ UNCHANGED <<item, lots, booked, link, rem, removals, done, lost, late, calm>>
  BY <1>0 DEF Import!FinishImport, Import!history
<1>4. run'[j] = Import!NoRun /\ job'[j] = line
      /\ \A q \in Slots \ {j} : run'[q] = run[q] /\ job'[q] = job[q]
  BY <1>3 DEF ImportInv, Import!TypeOK
<1>5. Import!TypeOK'
  BY <1>2, <1>3, CountsTyped DEF ImportInv, Import!TypeOK, RunRow, JobRow
<1>6. /\ Import!RowsOf(j, done)' = Import!RowsOf(j, done) /\ Import!RowsOf(j, booked)' = Import!RowsOf(j, booked)
      /\ Import!RowsOf(j, booked) <= Import!RowsOf(j, done) /\ Import!RowsOf(j, done) <= job[j].total
      /\ Import!RowsOf(j, done) \in Nat /\ Import!RowsOf(j, booked) \in Nat /\ job[j].total \in Nat
  <2>1. job'[j].total = job[j].total /\ job[j].total \in Nat
    BY <1>1, <1>4 DEF JobRow
  <2>2. Import!RowsOf(j, done)' = Cardinality(RowSet(j, job[j].total, done))
        /\ Import!RowsOf(j, booked)' = Cardinality(RowSet(j, job[j].total, booked))
    BY <1>3, <2>1, SameCount DEF Import!RowsOf, RowSet
  <2> QED
    BY <2>1, <2>2, RowsOfIs, RowsAreFinite, FewerRows DEF ImportInv
<1>7. Counted(j, c)'
  BY <1>0, <1>1, <1>3, <1>6 DEF Counted, Running
<1>8. Import!Outcome(c) = "COMPLETED" => Import!RowsOf(j, done) = job[j].total
  <2>1. Import!Outcome(c) = "COMPLETED" => c.errors = 0
    BY <1>1 DEF Import!Outcome, Import!Counts
  <2>2. c.errors = 0 => c.processed = job[j].total
    BY <1>0, <1>1 DEF Running, RunRow
  <2>3. c.processed <= Import!RowsOf(j, done) /\ c.processed \in Nat
    BY <1>0, <1>1 DEF Running, Counted, Import!Counts
  <2> QED
    BY <1>6, <2>1, <2>2, <2>3
<1>9. Import!Outcome(c) = "FAILED" /\ j \notin lost => Import!RowsOf(j, booked) = 0
  BY <1>0, <1>1, <1>6 DEF Import!Outcome, Running, Counted
<1>10. JobOK(j)'
  <2>1. Told(j)'
    BY <1>3, <1>4, <1>6, <1>7, <1>8, <1>9 DEF Told
  <2>2. line.status \notin {"none", "PROCESSING"}
    BY DEF Import!Outcome
  <2> QED
    BY <1>4, <2>1, <2>2 DEF JobOK, Import!NoRun
<1>11. \A q \in Slots : JobOK(q)'
  BY <1>3, <1>4, <1>10, QuietJob
<1>12. \A q \in Slots, n \in Nat : <<q, n>> \in done' => n \in 1..job'[q].total
  BY <1>3, <1>4 DEF ImportInv
<1> QED
  BY <1>3, <1>5, <1>11, <1>12 DEF ImportInv

LEMMA CrashTells ==
    ASSUME Import!ImportAssumption, ImportInv, Import!Crash
    PROVE  ImportInv'
<1>1. run' = [q \in Slots |-> Import!NoRun] /\ rem' = Import!NoRem
      /\ UNCHANGED <<item, lots, booked, link, job, removals, done, lost, late, calm>>
  BY DEF Import!Crash, Import!tables, Import!history
<1>2. Import!TypeOK'
  BY <1>1, CountsTyped DEF ImportInv, Import!TypeOK, RunRow, Import!NoRem
<1>3. \A q \in Slots : Import!RowsOf(q, done)' = Import!RowsOf(q, done) /\ Import!RowsOf(q, booked)' = Import!RowsOf(q, booked)
  BY <1>1 DEF Import!RowsOf
<1>4. \A q \in Slots : JobOK(q)'
  BY <1>1, <1>3 DEF ImportInv, JobOK, Import!NoRun, Told, Counted, Import!Finished
<1> QED
  BY <1>1, <1>2, <1>4 DEF ImportInv

(* What an answered commit adds to the counts. *)
LEMMA ImportedIs ==
    ASSUME NEW j \in Slots, run[j] \in RunRow
    PROVE  LET c == run[j].counts
               d == Import!Imported(j)
           IN  /\ d \in Import!Counts /\ d.processed = c.processed + 1 /\ d.errors = c.errors
               /\ d.stocked = IF Import!RowOf(j).qty > 0 THEN c.stocked + 1 ELSE c.stocked
               /\ d.created + d.updated <= c.created + c.updated + 1
<1>1. run[j].counts \in Import!Counts
  BY DEF RunRow
<1>2. PICK a \in {0, 1}, b \in {0, 1}, k \in {0, 1} :
         /\ a = Import!One(run[j].seen = Import!Absent)
         /\ b = Import!One(~(run[j].seen = Import!Absent) /\ Import!Terms(j) # run[j].seen.terms)
         /\ k = Import!One(Import!Stocked(Import!RowOf(j)))
  BY DEF Import!One
<1>3. a + b <= 1
  BY <1>2 DEF Import!One
<1>4. k = IF Import!RowOf(j).qty > 0 THEN 1 ELSE 0
  BY <1>2 DEF Import!One, Import!Stocked
<1>5. Import!Imported(j) = [processed |-> run[j].counts.processed + 1,
                     created |-> run[j].counts.created + a, updated |-> run[j].counts.updated + b,
                     stocked |-> run[j].counts.stocked + k, errors |-> run[j].counts.errors]
  BY <1>2, Zenon DEF Import!Imported
<1>6. PICK d : d = Import!Imported(j)
  OBVIOUS
<1>7. /\ d.processed = run[j].counts.processed + 1 /\ d.errors = run[j].counts.errors
      /\ d.stocked = run[j].counts.stocked + k
      /\ d.created = run[j].counts.created + a /\ d.updated = run[j].counts.updated + b
  BY <1>5, <1>6
<1>8. d \in Import!Counts
  <2>1. a \in Nat /\ b \in Nat /\ k \in Nat
    BY <1>2
  <2> QED
    BY <1>1, <1>5, <1>6, <2>1 DEF Import!Counts
<1>9. d.created + d.updated <= run[j].counts.created + run[j].counts.updated + 1
  <2>1. a \in Nat /\ b \in Nat
    BY <1>2
  <2>2. run[j].counts.created \in Nat /\ run[j].counts.updated \in Nat
    BY <1>1 DEF Import!Counts
  <2> QED
    BY <1>3, <1>7, <2>1, <2>2
<1>10. d.stocked = IF Import!RowOf(j).qty > 0 THEN run[j].counts.stocked + 1 ELSE run[j].counts.stocked
  <2>1. run[j].counts.stocked \in Nat
    BY <1>1 DEF Import!Counts
  <2> QED
    BY <1>4, <1>7, <2>1
<1> QED
  BY <1>6, <1>7, <1>8, <1>9, <1>10

LEMMA ErredIs ==
    ASSUME NEW j \in Slots, run[j] \in RunRow
    PROVE  LET c == run[j].counts
               d == Import!Erred(j)
           IN  /\ d \in Import!Counts /\ d.errors = c.errors + 1 /\ d.errors # 0
               /\ d.processed = c.processed /\ d.stocked = c.stocked
               /\ d.created = c.created /\ d.updated = c.updated
BY DEF RunRow, Import!Counts, Import!Erred

(* A commit, answered or not: one row more is in the tables. *)
LEMMA CommitTells ==
    ASSUME Import!ImportAssumption, ImportInv, NEW j \in Slots, NEW answered \in BOOLEAN,
           Import!CommitRow(j, answered)
    PROVE  ImportInv'
<1>0. PICK c, n, total, d : /\ c = run[j].counts /\ n = run[j].row /\ total = job[j].total
                            /\ d = IF answered THEN Import!Imported(j) ELSE Import!Erred(j)
  OBVIOUS
<1>1. run[j] \in RunRow /\ Import!RowOf(j) \in Import!Row /\ run[j].file \in Seq(Import!Row) /\ Running(j)
      /\ run[j].pc = "commit" /\ n \in 1..total /\ total \in Nat /\ total = Len(run[j].file)
      /\ c \in Import!Counts
  BY <1>0, RunTyped DEF Import!CommitRow, ImportInv, JobOK, Running, RunRow
<1>2. /\ d \in Import!Counts
      /\ IF answered
         THEN /\ d.processed = c.processed + 1 /\ d.errors = c.errors
              /\ d.stocked = IF Import!RowOf(j).qty > 0 THEN c.stocked + 1 ELSE c.stocked
              /\ d.created + d.updated <= c.created + c.updated + 1
         ELSE /\ d.errors # 0
              /\ d.processed = c.processed /\ d.stocked = c.stocked
              /\ d.created = c.created /\ d.updated = c.updated
  BY <1>0, <1>1, ImportedIs, ErredIs
<1>3. /\ Import!Passed(j, d) \in RunRow
      /\ Import!Passed(j, d).pc = "row" /\ Import!Passed(j, d).file = run[j].file /\ Import!Passed(j, d).counts = d
      /\ Import!Passed(j, d).row \in {n + 1, total + 1}
      /\ d.errors = c.errors => Import!Passed(j, d).row = n + 1
  BY <1>0, <1>1, <1>2, PassedTyped
<1>4. /\ run' = [run EXCEPT ![j] = Import!Passed(j, d)]
      /\ UNCHANGED <<link, job, rem, removals, late, calm>>
      /\ done' = done \cup {<<j, n>>}
      /\ booked' = IF Import!RowOf(j).qty > 0 THEN booked \cup {<<j, n>>} ELSE booked
      /\ lost' = IF answered THEN lost ELSE lost \cup {j}
  BY <1>0, Zenon DEF Import!CommitRow
<1>5. run'[j] = Import!Passed(j, d) /\ \A q \in Slots \ {j} : run'[q] = run[q]
  BY <1>4 DEF ImportInv, Import!TypeOK
<1>6. Import!TypeOK'
  <2>1. item' \in [ItemNames -> Import!ItemRow]
    <3>1. run[j].seen \in Import!ItemRow /\ item[Import!RowOf(j).name] \in Import!ItemRow /\ Import!RowOf(j).terms \in 0..2
      BY <1>1 DEF RunRow, Import!Row, ImportInv, Import!TypeOK
    <3>2. Import!Terms(j) \in 0..2
      BY <3>1 DEF Import!Terms, Import!ItemRow
    <3> QED
      BY <3>1, <3>2 DEF Import!CommitRow, Import!ItemRow, ImportInv, Import!TypeOK
  <2>2. lots' \in [ItemNames -> [BatchNumbers -> Nat]]
    <3> DEFINE line == Import!RowOf(j)
               more == [lots EXCEPT ![line.name] =
                          [lots[line.name] EXCEPT ![line.batch] = lots[line.name][line.batch] + 1]]
    <3>1. (lots' = more /\ line.batch # None) \/ lots' = lots
      BY DEF Import!CommitRow
    <3>2. line.batch # None => line.name \in ItemNames /\ line.batch \in BatchNumbers
      BY <1>1 DEF Import!Row
    <3>3. lots \in [ItemNames -> [BatchNumbers -> Nat]]
      BY DEF ImportInv, Import!TypeOK
    <3>4. ASSUME line.batch # None PROVE more \in [ItemNames -> [BatchNumbers -> Nat]]
      <4>1. lots[line.name] \in [BatchNumbers -> Nat] /\ lots[line.name][line.batch] + 1 \in Nat
        BY <3>2, <3>3, <3>4
      <4>2. [lots[line.name] EXCEPT ![line.batch] = lots[line.name][line.batch] + 1] \in [BatchNumbers -> Nat]
        BY <4>1
      <4> QED
        BY <3>3, <4>2
    <3> QED
      BY <3>1, <3>3, <3>4
  <2>3. done' \subseteq Slots \X Nat /\ booked' \subseteq Slots \X Nat /\ lost' \subseteq Slots
    BY <1>1, <1>4 DEF ImportInv, Import!TypeOK
  <2>4. run' \in [Slots -> RunRow]
    BY <1>3, <1>4 DEF ImportInv, Import!TypeOK, RunRow
  <2> QED
    BY <1>4, <2>1, <2>2, <2>3, <2>4 DEF ImportInv, Import!TypeOK, RunRow
<1>7. <<j, n>> \notin done /\ <<j, n>> \notin booked
  BY <1>0, <1>1 DEF Running, ImportInv
<1>8. /\ Import!RowsOf(j, done) \in Nat /\ Import!RowsOf(j, booked) \in Nat
      /\ Import!RowsOf(j, done)' = Import!RowsOf(j, done) + 1
      /\ Import!RowsOf(j, booked)' = IF Import!RowOf(j).qty > 0 THEN Import!RowsOf(j, booked) + 1 ELSE Import!RowsOf(j, booked)
  <2>1. Import!RowsOf(j, done)' = Cardinality(RowSet(j, total, done'))
        /\ Import!RowsOf(j, booked)' = Cardinality(RowSet(j, total, booked'))
    BY <1>0, <1>4, SameCount DEF Import!RowsOf, RowSet
  <2>2. Import!RowsOf(j, done) = Cardinality(RowSet(j, total, done))
        /\ Import!RowsOf(j, booked) = Cardinality(RowSet(j, total, booked))
    BY <1>0, RowsOfIs
  <2> QED
    BY <1>1, <1>4, <1>7, <2>1, <2>2, RowsAreFinite, OneRowMore
<1>9. Counted(j, d)'
  <2>1. Counted(j, c)
    BY <1>0, <1>1 DEF Running
  <2>2. {c.processed, c.stocked, c.created, c.updated, c.errors} \subseteq Nat
        /\ {d.processed, d.stocked, d.created, d.updated, d.errors} \subseteq Nat
    BY <1>1, <1>2 DEF Import!Counts
  <2>3. CASE answered
    BY <1>2, <1>4, <1>8, <2>1, <2>2, <2>3 DEF Counted
  <2>4. CASE ~answered
    BY <1>2, <1>4, <1>8, <2>1, <2>2, <2>4 DEF Counted
  <2> QED
    BY <2>3, <2>4
<1>10. JobOK(j)'
  <2>1. /\ job[j].status = "PROCESSING" /\ run[j].file \in ItemFiles
        /\ \A m \in Nat : <<j, m>> \in done => m < n
        /\ c.errors = 0 => c.processed = n - 1
    BY <1>0, <1>1 DEF Running
  <2>2. \A m \in Nat : <<j, m>> \in done' => m < Import!Passed(j, d).row
    BY <1>1, <1>3, <1>4, <2>1
  <2>3. d.errors = 0 => d.processed = Import!Passed(j, d).row - 1
    <3>1. d.errors = 0 => answered /\ c.errors = 0 /\ Import!Passed(j, d).row = n + 1
      BY <1>2, <1>3
    <3>2. d.errors = 0 => d.processed = c.processed + 1
      BY <1>2, <3>1, Zenon
    <3>3. d.errors = 0 => c.processed = n - 1
      BY <2>1, <3>1, Zenon
    <3>4. n \in Nat
      BY <1>1
    <3> QED
      BY <3>1, <3>2, <3>3, <3>4
  <2>4. Import!Passed(j, d).row <= Len(run[j].file) + 1
    BY <1>1, <1>3
  <2>5. Running(j)'
    BY <1>0, <1>1, <1>3, <1>4, <1>5, <1>9, <2>1, <2>2, <2>3, <2>4 DEF Running
  <2> QED
    BY <1>4, <2>1, <2>5 DEF JobOK, Import!Finished
<1>11. ASSUME NEW q \in Slots \ {j} PROVE JobOK(q)'
  <2>1. \A m \in Nat : (<<q, m>> \in done' <=> <<q, m>> \in done)
                       /\ (<<q, m>> \in booked' <=> <<q, m>> \in booked)
    BY <1>4
  <2>2. q \in lost' <=> q \in lost
    BY <1>4
  <2> QED
    BY <1>4, <1>5, <2>1, <2>2, QuietJob
<1>12. \A q \in Slots, m \in Nat : <<q, m>> \in done' => m \in 1..job'[q].total
  BY <1>0, <1>1, <1>4 DEF ImportInv
<1>13. booked' \subseteq done'
  BY <1>4 DEF ImportInv
<1> QED
  BY <1>6, <1>10, <1>11, <1>12, <1>13 DEF ImportInv

-----------------------------------------------------------------------------
LEMMA InitTells == Import!ImportAssumption /\ Import!Init => ImportInv
<1> SUFFICES ASSUME Import!ImportAssumption, Import!Init PROVE ImportInv
  OBVIOUS
<1>1. Import!TypeOK
  BY CountsTyped DEF Import!ImportAssumption, Import!Init, Import!TypeOK, RunRow,
     Import!NoRem, JobRow
<1>2. \A j \in Slots : JobOK(j)
  BY DEF Import!Init, JobOK, Import!NoRun, Import!Finished
<1> QED
  BY <1>1, <1>2 DEF Import!Init, ImportInv

LEMMA StepTells == Import!ImportAssumption /\ ImportInv /\ [Import!Next]_Import!vars => ImportInv'
<1> SUFFICES ASSUME Import!ImportAssumption, ImportInv, [Import!Next]_Import!vars PROVE ImportInv'
  OBVIOUS
<1>1. CASE UNCHANGED Import!vars
  <2>1. Import!TypeOK'
    BY <1>1 DEF Import!vars, Import!tables, Import!local, Import!history, ImportInv,
       Import!TypeOK
  <2> QED
    BY <1>1, <2>1, NoJobTells DEF Import!vars, Import!tables, Import!local,
       Import!history
<1>2. ASSUME NEW v \in LinkedVariants, NEW n \in ItemNames, Import!Link(v, n) PROVE ImportInv'
  <2>1. Import!TypeOK'
    BY <1>2 DEF Import!Link, Import!local, ImportInv, Import!TypeOK
  <2> QED
    BY <1>2, <2>1, NoJobTells DEF Import!Link, Import!local
<1>3. ASSUME NEW n \in ItemNames, Import!FindRemoved(n) PROVE ImportInv'
  <2>1. Import!TypeOK'
    BY <1>3 DEF Import!FindRemoved, Import!tables, ImportInv, Import!TypeOK,
       Import!ImportAssumption
  <2> QED
    BY <1>3, <2>1, NoJobTells DEF Import!FindRemoved, Import!tables
<1>4. CASE Import!CommitRemoval
  <2>1. item' \in [ItemNames -> Import!ItemRow]
    <3>1. item \in [ItemNames -> Import!ItemRow]
      BY DEF ImportInv, Import!TypeOK
    <3>2. CASE rem.name \in ItemNames
      <4>1. item[rem.name] \in Import!ItemRow
        BY <3>1, <3>2
      <4>2. [item[rem.name] EXCEPT !.status = "deleted"] \in Import!ItemRow
        BY <4>1 DEF Import!ItemRow
      <4> QED
        BY <1>4, <3>1, <4>2 DEF Import!CommitRemoval
    <3>3. CASE rem.name \notin ItemNames
      BY <1>4, <3>1, <3>3 DEF Import!CommitRemoval
    <3> QED
      BY <3>2, <3>3
  <2>2. Import!TypeOK'
    BY <1>4, <2>1 DEF Import!CommitRemoval, Import!history, Import!Unlinked,
       Import!NoRem, ImportInv, Import!TypeOK
  <2> QED
    BY <1>4, <2>2, NoJobTells DEF Import!CommitRemoval, Import!history
<1> QED
  BY <1>1, <1>2, <1>3, <1>4, StartTells, FindItemTells, FindLotTells, RowFailsTells,
     FinishTells, CommitTells, CrashTells DEF Import!Next

LEMMA InvTells == ImportInv => Import!JobTellsTruth
BY DEF ImportInv, JobOK, Told, Counted, Import!JobTellsTruth

(* Type correctness. *)
THEOREM ImportTypes == ASSUME Import!ImportAssumption PROVE Import!Spec => []Import!TypeOK
<1>1. Import!Init => ImportInv
  BY InitTells
<1>2. ImportInv /\ [Import!Next]_Import!vars => ImportInv'
  BY StepTells
<1>3. ImportInv => Import!TypeOK
  BY DEF ImportInv
<1> QED
  BY <1>1, <1>2, <1>3, PTL DEF Import!Spec

(* What a finished import reports was committed, whatever other imports,   *)
(* removals, lost answers and crashes did meanwhile: importFile counts a   *)
(* row only after its transaction was answered.                            *)
THEOREM ReportsAreTrue == ASSUME Import!ImportAssumption PROVE Import!Spec => []Import!JobTellsTruth
<1>1. Import!Init => ImportInv
  BY InitTells
<1>2. ImportInv /\ [Import!Next]_Import!vars => ImportInv'
  BY StepTells
<1> QED
  BY <1>1, <1>2, InvTells, PTL DEF Import!Spec

-----------------------------------------------------------------------------
(* PROVISIONING.                                                           *)

UserRow == [status : {"none", "INVITED", "ACTIVE"}, org : People!Orgs \cup {None},
            person : People!People \cup {None}, email : People!Emails \cup {None}]
SlotRow == [pc : {"idle", "sync", "role", "commit", "scope"},
            who : Identities \cup {None}, where : SUBSET Branches,
            user : People!Users \cup {People!NoUser}, newTenant : BOOLEAN, synced : BOOLEAN,
            newRole : BOOLEAN, assign : BOOLEAN]

(* What a request that has found its user may rely on: the row is there,   *)
(* and is either up to date, and then owned, or locked by this request; an *)
(* assignment that is still to be made has not been made.                  *)
HasUser(p) == slot[p].pc \in {"sync", "role", "commit"} /\ slot[p].user # People!NoUser
SlotOK(p) ==
    /\ slot[p].pc # "idle" => slot[p].who \in Identities
    /\ slot[p].pc = "sync" => slot[p].user # People!NoUser /\ ~slot[p].synced
    /\ HasUser(p) => user[slot[p].user].status # "none"
    /\ HasUser(p) /\ slot[p].synced => owner[slot[p].user] >= 1
    /\ HasUser(p) /\ ~slot[p].synced /\ slot[p].pc # "sync" => lock[slot[p].user] = p
    /\ slot[p].pc = "commit" /\ ~slot[p].assign =>
          slot[p].user # People!NoUser /\ owner[slot[p].user] >= 1
    /\ slot[p].pc = "commit" /\ slot[p].assign /\ slot[p].user # People!NoUser =>
          slot[p].user \in byHand \/ owner[slot[p].user] = 0

(* A user who is not there owns nothing. *)
OwnersExist == \A u \in People!Users : user[u].status = "none" => owner[u] = 0

OwnInv ==
    /\ People!TypeOK
    /\ \A p \in Slots : SlotOK(p)
    /\ OwnersExist
    /\ People!OneOwnership
    /\ People!ProvisionedWhole

LEMMA InitOwns == People!ProvisioningAssumption /\ People!Init => OwnInv
BY DEF People!ProvisioningAssumption, People!Init, OwnInv, People!TypeOK, SlotOK,
   HasUser, OwnersExist, People!OneOwnership, People!ProvisionedWhole, People!Vacant,
   People!Free, People!NoUser, People!Users

(* A step of p that leaves the users and their owners alone, and only      *)
(* gives back locks of p or takes a free one.                              *)
LEMMA QuietSlot ==
    ASSUME People!ProvisioningAssumption, OwnInv, NEW p \in Slots, NEW new \in SlotRow,
           slot' = [slot EXCEPT ![p] = new], SlotOK(p)',
           UNCHANGED <<tenant, user, role, owner, progress, byHand, active>>,
           lock' \in [People!Users -> Slots \cup {None}],
           \A u \in People!Users : lock[u] \in Slots \ {p} => lock'[u] = lock[u],
           calls' \in 0..PeopleCalls, alone' \in BOOLEAN
    PROVE  OwnInv'
<1>1. People!TypeOK'
  BY DEF OwnInv, People!TypeOK, SlotRow
<1>2. ASSUME NEW q \in Slots \ {p} PROVE SlotOK(q)'
  <2>1. slot'[q] = slot[q] /\ slot[q] \in SlotRow
    BY DEF OwnInv, People!TypeOK, SlotRow
  <2>2. HasUser(q) => slot[q].user \in People!Users
    BY <2>1 DEF HasUser, SlotRow
  <2> QED
    BY <2>1, <2>2 DEF OwnInv, SlotOK, HasUser
<1>3. OwnersExist' /\ People!OneOwnership' /\ People!ProvisionedWhole'
  BY DEF OwnInv, OwnersExist, People!OneOwnership, People!ProvisionedWhole
<1> QED
  BY <1>1, <1>2, <1>3 DEF OwnInv

LEMMA LocksReleased ==
    ASSUME People!ProvisioningAssumption, People!TypeOK, NEW p \in Slots, People!Release(p)
    PROVE  /\ lock' \in [People!Users -> Slots \cup {None}]
           /\ \A u \in People!Users : lock[u] \in Slots \ {p} => lock'[u] = lock[u]
BY DEF People!TypeOK, People!Release

LEMMA FreeSlot == People!Free \in SlotRow /\ People!Free.pc = "idle"
BY DEF People!Free, SlotRow, People!NoUser

(* The slot of a request that has looked for its user. *)
Looked(who, where, u, new, synced, pc) ==
    [pc |-> pc, who |-> who, where |-> where, user |-> u, newTenant |-> new,
     synced |-> synced, newRole |-> FALSE, assign |-> FALSE]

LEMMA FoundSlot ==
    ASSUME NEW p \in Slots, NEW who \in Identities, NEW where \in SUBSET Branches,
           People!FindUser(p, who, where)
    PROVE  \E u \in People!Users \cup {People!NoUser}, new \in BOOLEAN, synced \in BOOLEAN, pc \in {"role", "sync"} :
              /\ u # People!NoUser => u \in People!Found(who)
              /\ u = People!NoUser => who.org \notin tenant \/ People!Found(who) = {}
              /\ new <=> who.org \notin tenant
              /\ synced <=> (u = People!NoUser \/ People!Synced(u, who))
              /\ pc = "role" <=> synced
              /\ slot' = [slot EXCEPT ![p] = Looked(who, where, u, new, synced, pc)]
<1>1. PICK u \in IF who.org \in tenant /\ People!Found(who) # {} THEN People!Found(who) ELSE {People!NoUser} :
         slot' = [slot EXCEPT ![p] = [People!Free EXCEPT !.who = who, !.where = where, !.user = u,
                    !.newTenant = who.org \notin tenant, !.synced = u = People!NoUser \/ People!Synced(u, who),
                    !.pc = IF u = People!NoUser \/ People!Synced(u, who) THEN "role" ELSE "sync"]]
  BY Zenon DEF People!FindUser
<1>2. /\ u \in People!Users \cup {People!NoUser}
      /\ u # People!NoUser => u \in People!Found(who)
      /\ u = People!NoUser => who.org \notin tenant \/ People!Found(who) = {}
  BY <1>1 DEF People!Found, People!NoUser, People!Users
<1>3. PICK new \in BOOLEAN, synced \in BOOLEAN :
         new = (who.org \notin tenant) /\ synced = (u = People!NoUser \/ People!Synced(u, who))
  BY Zenon
<1>4. PICK pc : pc = IF u = People!NoUser \/ People!Synced(u, who) THEN "role" ELSE "sync"
  BY Zenon
<1>5. PICK s : s = [People!Free EXCEPT !.who = who, !.where = where, !.user = u,
                       !.newTenant = new, !.synced = synced, !.pc = pc]
  BY Zenon
<1>6. slot' = [slot EXCEPT ![p] = s]
  BY <1>1, <1>3, <1>4, <1>5, Zenon
<1>7. s = Looked(who, where, u, new, synced, pc)
  <2>1. new \in BOOLEAN /\ synced \in BOOLEAN
    BY <1>3
  <2> QED
    BY <1>5, <2>1 DEF People!Free, Looked
<1>8. (synced <=> (u = People!NoUser \/ People!Synced(u, who))) /\ (new <=> who.org \notin tenant)
  BY <1>3, Zenon
<1>9. pc \in {"role", "sync"} /\ (pc = "role" <=> synced)
  BY <1>4, <1>8
<1> QED
  BY <1>2, <1>3, <1>6, <1>7, <1>8, <1>9, Zenon

LEMMA FindUserOwns ==
    ASSUME People!ProvisioningAssumption, OwnInv, NEW p \in Slots, NEW who \in Identities,
           NEW where \in SUBSET Branches, People!FindUser(p, who, where)
    PROVE  OwnInv'
<1>1. PICK u \in People!Users \cup {People!NoUser}, new \in BOOLEAN, synced \in BOOLEAN, pc \in {"role", "sync"} :
         /\ u # People!NoUser => u \in People!Found(who)
         /\ u = People!NoUser => who.org \notin tenant \/ People!Found(who) = {}
         /\ new <=> who.org \notin tenant
         /\ synced <=> (u = People!NoUser \/ People!Synced(u, who))
         /\ pc = "role" <=> synced
         /\ slot' = [slot EXCEPT ![p] = Looked(who, where, u, new, synced, pc)]
  BY FoundSlot, Zenon
<1>2. Looked(who, where, u, new, synced, pc) \in SlotRow
  BY <1>1 DEF Looked, SlotRow
<1>3. u # People!NoUser => /\ u \in People!Users /\ user[u].status # "none"
                           /\ synced => owner[u] >= 1
  BY <1>1 DEF People!Found, People!Synced, OwnInv, People!ProvisionedWhole,
     People!ProvisioningAssumption, People!People
<1>4. UNCHANGED <<tenant, user, role, owner, progress, byHand, active, lock>>
      /\ calls' \in 0..PeopleCalls /\ alone' \in BOOLEAN
  BY DEF People!FindUser, People!Receive, People!tables, OwnInv, People!TypeOK,
     People!ProvisioningAssumption
<1>5. SlotOK(p)'
  <2>1. slot'[p] = Looked(who, where, u, new, synced, pc)
    BY <1>1 DEF OwnInv, People!TypeOK
  <2> QED
    BY <1>1, <1>3, <1>4, <2>1 DEF SlotOK, HasUser, Looked
<1> QED
  BY <1>1, <1>2, <1>4, <1>5, QuietSlot DEF OwnInv, People!TypeOK

LEMMA SyncUserOwns ==
    ASSUME People!ProvisioningAssumption, OwnInv, NEW p \in Slots, People!SyncUser(p)
    PROVE  OwnInv'
<1> DEFINE new == [slot[p] EXCEPT !.pc = "role"]
<1>1. slot[p] \in SlotRow /\ slot[p].pc = "sync" /\ lock[slot[p].user] = None
  BY DEF OwnInv, People!TypeOK, SlotRow, People!SyncUser
<1>2. new \in SlotRow /\ slot' = [slot EXCEPT ![p] = new] /\ slot'[p] = new
  BY <1>1 DEF SlotRow, People!SyncUser, OwnInv, People!TypeOK
<1>3. slot[p].user \in People!Users
  BY <1>1 DEF OwnInv, SlotOK, SlotRow
<1>4. /\ lock' \in [People!Users -> Slots \cup {None}] /\ lock'[slot[p].user] = p
      /\ \A u \in People!Users : lock[u] \in Slots \ {p} => lock'[u] = lock[u]
  BY <1>1, <1>3 DEF People!SyncUser, OwnInv, People!TypeOK,
     People!ProvisioningAssumption
<1>5. UNCHANGED <<tenant, user, role, owner, progress, byHand, active>>
      /\ calls' \in 0..PeopleCalls /\ alone' \in BOOLEAN
  BY DEF People!SyncUser, People!history, OwnInv, People!TypeOK
<1>6. SlotOK(p)'
  BY <1>1, <1>2, <1>4, <1>5 DEF SlotOK, HasUser, OwnInv, SlotRow
<1> QED
  BY <1>2, <1>4, <1>5, <1>6, QuietSlot

LEMMA FindRoleOwns ==
    ASSUME People!ProvisioningAssumption, OwnInv, NEW p \in Slots, People!FindRole(p)
    PROVE  OwnInv'
<1>1. PICK newRole \in BOOLEAN, assign \in BOOLEAN :
         newRole = (slot[p].newTenant \/ slot[p].who.org \notin role) /\ assign = People!Unowned(p)
  BY Zenon DEF People!Unowned
<1> DEFINE new == [slot[p] EXCEPT !.pc = "commit", !.newRole = newRole, !.assign = assign]
<1>2. slot[p] \in SlotRow /\ slot[p].pc = "role"
  BY DEF OwnInv, People!TypeOK, SlotRow, People!FindRole
<1>3. slot' = [slot EXCEPT ![p] = new]
  BY <1>1, Zenon DEF People!FindRole
<1>4. new \in SlotRow /\ slot'[p] = new
  <2>1. newRole \in BOOLEAN /\ assign \in BOOLEAN
    BY <1>1
  <2> QED
    BY <1>2, <1>3, <2>1 DEF SlotRow, OwnInv, People!TypeOK
<1>5. assign <=> slot[p].user = People!NoUser \/ owner[slot[p].user] = 0
  BY <1>1, Zenon DEF People!Unowned
<1>6. UNCHANGED <<tenant, user, role, owner, progress, byHand, active, lock>>
      /\ calls' \in 0..PeopleCalls /\ alone' \in BOOLEAN
  BY DEF People!FindRole, People!tables, People!history, OwnInv, People!TypeOK
<1>7. SlotOK(p)'
  <2>1. slot[p].user # People!NoUser => owner[slot[p].user] \in Nat
    BY <1>2 DEF SlotRow, OwnInv, People!TypeOK
  <2>2. /\ slot'[p].pc = "commit" /\ slot'[p].user = slot[p].user /\ slot'[p].who = slot[p].who
        /\ slot'[p].synced = slot[p].synced /\ slot'[p].assign = assign
    BY <1>2, <1>4 DEF SlotRow
  <2> QED
    BY <1>2, <1>5, <1>6, <2>1, <2>2 DEF SlotOK, HasUser, OwnInv
<1> QED
  BY <1>3, <1>4, <1>6, <1>7, QuietSlot DEF OwnInv, People!TypeOK

LEMMA FinishOwns ==
    ASSUME People!ProvisioningAssumption, OwnInv, NEW p \in Slots, People!Finish(p),
           People!Release(p) \/ UNCHANGED lock,
           UNCHANGED <<tenant, user, role, owner, progress, active, calls, People!history>>
    PROVE  OwnInv'
<1>1. lock' \in [People!Users -> Slots \cup {None}]
      /\ \A u \in People!Users : lock[u] \in Slots \ {p} => lock'[u] = lock[u]
  BY LocksReleased DEF OwnInv, People!TypeOK
<1>2. slot' = [slot EXCEPT ![p] = People!Free] /\ slot'[p] = People!Free
  BY DEF People!Finish, OwnInv, People!TypeOK
<1>3. SlotOK(p)'
  BY <1>2, FreeSlot DEF SlotOK, HasUser
<1> QED
  BY <1>1, <1>2, <1>3, FreeSlot, QuietSlot DEF People!history, OwnInv, People!TypeOK

(* A commit: the row it writes is the one it has locked, one that is up to *)
(* date, or a new one; whoever else has found that row as it was before    *)
(* would hold its lock.                                                    *)
LEMMA CommitOwns ==
    ASSUME People!ProvisioningAssumption, OwnInv, NEW p \in Slots, NEW u \in People!Users, People!Commit(p, u)
    PROVE  OwnInv'
<1> DEFINE s == slot[p]
           made == [status |-> "ACTIVE", org |-> s.who.org, person |-> s.who.person,
                    email |-> s.who.email]
           new == [s EXCEPT !.pc = "scope", !.user = u]
<1>1. s \in SlotRow /\ s.pc = "commit" /\ s.who \in Identities /\ SlotOK(p)
  BY DEF OwnInv, People!TypeOK, SlotRow, People!Commit, SlotOK
<1>2. s.who.org \in People!Orgs /\ s.who.person \in People!People /\ s.who.email \in People!Emails
      /\ s.who.person # None
  BY <1>1 DEF People!Orgs, People!People, People!Emails, People!ProvisioningAssumption
<1>3. new \in SlotRow /\ slot' = [slot EXCEPT ![p] = new] /\ slot'[p].pc = "scope"
      /\ slot'[p].who = s.who
  BY <1>1 DEF SlotRow, People!Commit, OwnInv, People!TypeOK
<1>4. made \in UserRow /\ made.status = "ACTIVE"
  BY <1>2 DEF UserRow
<1>5. /\ s.user # People!NoUser => s.user = u /\ user[u].status # "none"
      /\ s.user = People!NoUser => user[u].status = "none"
  BY <1>1 DEF People!Commit, People!Keeps, People!Row, SlotOK, HasUser
<1>6. /\ user' \in [People!Users -> UserRow]
      /\ \A v \in People!Users \ {u} : user'[v] = user[v]
      /\ user'[u] = IF s.synced /\ s.user # People!NoUser THEN user[u] ELSE made
  BY <1>4 DEF People!Commit, OwnInv, People!TypeOK, UserRow
<1>7. /\ owner' \in [People!Users -> Nat]
      /\ \A v \in People!Users \ {u} : owner'[v] = owner[v]
      /\ owner'[u] = IF s.assign THEN owner[u] + 1 ELSE owner[u]
  BY DEF People!Commit, OwnInv, People!TypeOK
<1>8. owner'[u] >= 1
  BY <1>1, <1>5, <1>7 DEF SlotOK, OwnInv, People!TypeOK
<1>9. u \notin byHand => owner'[u] <= 1
  <2>1. s.assign /\ u \notin byHand => owner[u] = 0
    BY <1>1, <1>5 DEF SlotOK, OwnInv, OwnersExist
  <2> QED
    BY <1>7, <2>1 DEF OwnInv, People!OneOwnership
<1>10. lock' \in [People!Users -> Slots \cup {None}]
       /\ \A v \in People!Users : lock[v] \in Slots \ {p} => lock'[v] = lock[v]
  BY LocksReleased DEF OwnInv, People!Commit
<1>11. People!TypeOK'
  <2>1. tenant' \subseteq People!Orgs /\ role' \subseteq People!Orgs /\ progress' \subseteq People!Users
    BY <1>2 DEF People!Commit, OwnInv, People!TypeOK
  <2>2. slot' \in [Slots -> SlotRow]
    BY <1>3 DEF OwnInv, People!TypeOK, SlotRow
  <2>3. UNCHANGED <<active, calls, byHand, alone>>
    BY DEF People!Commit, People!history
  <2> QED
    BY <1>6, <1>7, <1>10, <2>1, <2>2, <2>3 DEF OwnInv, People!TypeOK, UserRow, SlotRow
<1>12. byHand' = byHand
  BY DEF People!Commit, People!history
<1>13. SlotOK(p)'
  BY <1>1, <1>3 DEF SlotOK, HasUser
<1>14. ASSUME NEW q \in Slots \ {p} PROVE SlotOK(q)'
  <2>1. slot'[q] = slot[q] /\ slot[q] \in SlotRow /\ SlotOK(q)
    BY <1>3 DEF OwnInv, People!TypeOK, SlotRow
  <2>2. HasUser(q) => slot[q].user \in People!Users /\ user'[slot[q].user].status # "none"
    BY <1>4, <1>6, <2>1 DEF HasUser, SlotRow, SlotOK
  <2>3. \A v \in People!Users : owner[v] \in Nat /\ owner'[v] \in Nat /\ owner'[v] >= owner[v]
    BY <1>7 DEF OwnInv, People!TypeOK
  <2>4. HasUser(q) /\ ~slot[q].synced /\ slot[q].pc # "sync" => lock'[slot[q].user] = q
    BY <1>10, <2>1, <2>2 DEF SlotOK
  <2>5. slot[q].pc = "commit" /\ slot[q].assign /\ slot[q].user # People!NoUser =>
           slot[q].user \in byHand \/ owner'[slot[q].user] = 0
    <3>1. CASE slot[q].user # u
      BY <1>7, <2>1, <2>2, <3>1 DEF SlotOK, HasUser
    <3>2. CASE slot[q].user = u /\ slot[q].pc = "commit" /\ slot[q].assign /\ u \notin byHand
               /\ slot[q].user # People!NoUser
      <4>1. owner[u] = 0 /\ HasUser(q)
        BY <2>1, <3>2 DEF SlotOK, HasUser
      <4>2. ~slot[q].synced /\ lock[u] = q
        BY <2>1, <3>2, <4>1 DEF SlotOK
      <4>3. s.user = u
        BY <1>5, <2>1, <3>2, <4>1 DEF SlotOK
      <4>4. FALSE
        BY <1>1, <3>2, <4>1, <4>2, <4>3 DEF SlotOK, HasUser
      <4> QED
        BY <4>4
    <3> QED
      BY <3>1, <3>2
  <2>6. (slot[q].pc = "commit" /\ ~slot[q].assign => owner'[slot[q].user] >= 1)
        /\ (HasUser(q) /\ slot[q].synced => owner'[slot[q].user] >= 1)
    BY <2>1, <2>2, <2>3 DEF SlotOK, HasUser
  <2> QED
    BY <1>12, <2>1, <2>2, <2>4, <2>5, <2>6 DEF SlotOK, HasUser
<1>15. OwnersExist' /\ People!OneOwnership'
  BY <1>4, <1>5, <1>6, <1>7, <1>9, <1>12 DEF OwnInv, OwnersExist, People!OneOwnership
<1>16. People!ProvisionedWhole'
  <2>1. tenant' = tenant \cup {s.who.org} /\ role' = role \cup {s.who.org}
        /\ progress' = progress \cup {u}
    BY DEF People!Commit
  <2> QED
    BY <1>6, <1>7, <1>8, <2>1 DEF OwnInv, People!ProvisionedWhole
<1> QED
  BY <1>11, <1>13, <1>14, <1>15, <1>16 DEF OwnInv

(* The rows an administrator writes. *)
LEMMA CreateUserOwns ==
    ASSUME People!ProvisioningAssumption, OwnInv, NEW u \in People!Users, NEW org \in People!Orgs, NEW email \in People!Emails,
           NEW status \in {"INVITED", "ACTIVE"}, People!CreateUser(u, org, email, status)
    PROVE  OwnInv'
<1> DEFINE made == [status |-> status, org |-> org, person |-> None, email |-> email]
<1>1. made \in UserRow /\ made.person = None /\ made.status # "none"
  BY DEF UserRow
<1>2. /\ user' \in [People!Users -> UserRow] /\ user[u].status = "none"
      /\ \A v \in People!Users : user'[v] = IF v = u THEN made ELSE user[v]
  BY <1>1 DEF People!CreateUser, OwnInv, People!TypeOK, UserRow
<1>3. UNCHANGED <<tenant, role, owner, progress, lock, active, slot, byHand>>
      /\ calls' \in 0..PeopleCalls /\ alone' \in BOOLEAN
  BY DEF People!CreateUser, People!Receive, OwnInv, People!TypeOK,
     People!ProvisioningAssumption
<1>4. People!TypeOK'
  BY <1>2, <1>3 DEF OwnInv, People!TypeOK, UserRow
<1>5. ASSUME NEW q \in Slots PROVE SlotOK(q)'
  <2>1. HasUser(q) => slot[q].user \in People!Users
    BY DEF HasUser, OwnInv, People!TypeOK
  <2> QED
    BY <1>1, <1>2, <1>3, <2>1 DEF OwnInv, SlotOK, HasUser
<1>6. OwnersExist' /\ People!OneOwnership' /\ People!ProvisionedWhole'
  BY <1>1, <1>2, <1>3 DEF OwnInv, OwnersExist, People!OneOwnership,
     People!ProvisionedWhole
<1> QED
  BY <1>4, <1>5, <1>6 DEF OwnInv

LEMMA AssignOwns ==
    ASSUME People!ProvisioningAssumption, OwnInv, NEW u \in People!Users, People!Assign(u)
    PROVE  OwnInv'
<1>1. /\ owner' \in [People!Users -> Nat] /\ user[u].status # "none"
      /\ \A v \in People!Users : owner'[v] = IF v = u THEN owner[v] + 1 ELSE owner[v]
  BY DEF People!Assign, OwnInv, People!TypeOK
<1>2. UNCHANGED <<tenant, user, role, progress, lock, active, slot>> /\ byHand' = byHand \cup {u}
      /\ calls' \in 0..PeopleCalls /\ alone' \in BOOLEAN
  BY DEF People!Assign, People!Receive, OwnInv, People!TypeOK,
     People!ProvisioningAssumption
<1>3. People!TypeOK'
  BY <1>1, <1>2 DEF OwnInv, People!TypeOK
<1>4. ASSUME NEW q \in Slots PROVE SlotOK(q)'
  <2>1. slot[q].user # People!NoUser => slot[q].user \in People!Users
    BY DEF OwnInv, People!TypeOK
  <2>2. \A v \in People!Users : owner[v] \in Nat
    BY DEF OwnInv, People!TypeOK
  <2> QED
    BY <1>1, <1>2, <2>1, <2>2 DEF OwnInv, SlotOK, HasUser
<1>5. OwnersExist' /\ People!OneOwnership'
  BY <1>1, <1>2 DEF OwnInv, OwnersExist, People!OneOwnership
<1>6. People!ProvisionedWhole'
  BY <1>1, <1>2 DEF OwnInv, People!ProvisionedWhole, People!TypeOK
<1> QED
  BY <1>3, <1>4, <1>5, <1>6 DEF OwnInv

LEMMA StepOwns == People!ProvisioningAssumption /\ OwnInv /\ [People!Next]_People!vars => OwnInv'
<1> SUFFICES ASSUME People!ProvisioningAssumption, OwnInv, [People!Next]_People!vars PROVE OwnInv'
  OBVIOUS
<1>1. ASSUME UNCHANGED <<tenant, user, role, owner, progress, lock, slot, byHand>>,
             active' \subseteq Branches, calls' \in 0..PeopleCalls, alone' \in BOOLEAN
      PROVE  OwnInv'
  BY <1>1 DEF OwnInv, People!TypeOK, SlotOK, HasUser, OwnersExist, People!OneOwnership,
     People!ProvisionedWhole
<1>2. CASE UNCHANGED People!vars
  BY <1>1, <1>2 DEF People!vars, People!tables, People!history, OwnInv, People!TypeOK
<1>3. ASSUME NEW p \in Slots, People!GoOnWithout(p) \/ People!Fail(p) \/ People!Serve(p) \/ People!Refuse(p) PROVE OwnInv'
  BY <1>3, FinishOwns DEF People!GoOnWithout, People!Fail, People!Serve, People!Refuse,
     People!tables
<1>4. ASSUME NEW l \in Branches, People!Deactivate(l) PROVE OwnInv'
  <2>1. active' \subseteq Branches /\ calls' \in 0..PeopleCalls /\ alone' \in BOOLEAN
    BY <1>4 DEF People!Deactivate, People!Receive, OwnInv, People!TypeOK,
       People!ProvisioningAssumption
  <2> QED
    BY <1>1, <1>4, <2>1 DEF People!Deactivate
<1> QED
  BY <1>2, <1>3, <1>4, FindUserOwns, SyncUserOwns, FindRoleOwns, CommitOwns,
     CreateUserOwns, AssignOwns DEF People!Next

(* Type correctness. *)
THEOREM PeopleTypes == ASSUME People!ProvisioningAssumption PROVE People!Spec => []People!TypeOK
<1>1. People!Init => OwnInv
  BY InitOwns
<1>2. OwnInv /\ [People!Next]_People!vars => OwnInv'
  BY StepOwns
<1>3. OwnInv => People!TypeOK
  BY DEF OwnInv
<1> QED
  BY <1>1, <1>2, <1>3, PTL DEF People!Spec

(* Requests make a user the Owner once, however many first requests of a   *)
(* person overlap: nothing in the schema makes the assignment unique, but  *)
(* ensureProvisionedIdentity updates a row that is not up to date first.   *)
THEOREM OwnersOnce == ASSUME People!ProvisioningAssumption PROVE People!Spec => []People!OneOwnership
<1>1. People!Init => OwnInv
  BY InitOwns
<1>2. OwnInv /\ [People!Next]_People!vars => OwnInv'
  BY StepOwns
<1>3. OwnInv => People!OneOwnership
  BY DEF OwnInv
<1> QED
  BY <1>1, <1>2, <1>3, PTL DEF People!Spec

(* A user who has logged in has the tenant, the Owner role, an assignment  *)
(* and a progress row: the transaction writes them together or not at all. *)
THEOREM RowsComeTogether == ASSUME People!ProvisioningAssumption PROVE People!Spec => []People!ProvisionedWhole
<1>1. People!Init => OwnInv
  BY InitOwns
<1>2. OwnInv /\ [People!Next]_People!vars => OwnInv'
  BY StepOwns
<1>3. OwnInv => People!ProvisionedWhole
  BY DEF OwnInv
<1> QED
  BY <1>1, <1>2, <1>3, PTL DEF People!Spec

-----------------------------------------------------------------------------
(* MIRRORED ROWS.                                                          *)

CopyRow == [pc : {"idle", "write", "mirror"}, sent : Mirror!Version,
            kind : {"create", "update", "remove"}]

(* As long as nothing overlapped or failed: one request at most is under   *)
(* way, it writes a row that is not deleted but to delete it, and what it  *)
(* then sends is the row; with nothing to send the copy is the row.        *)
OneWriter == \A p, q \in Requests : slot[p].pc # "idle" /\ slot[q].pc # "idle" => p = q
Sending(p) ==
    /\ slot[p].pc = "write" => slot[p].kind = "remove" \/ ~row.deleted
    /\ slot[p].pc = "mirror" =>
          /\ slot[p].sent = row.version /\ row.version > 0
          /\ slot[p].kind = "remove" <=> row.deleted
Copied == copy = IF Mirror!Live THEN row.version ELSE Mirror!Gone

MirrorInv ==
    /\ Mirror!TypeOK
    /\ row.version = 0 => ~row.deleted
    /\ calm => /\ OneWriter
               /\ \A p \in Requests : Sending(p)
               /\ (\A p \in Requests : slot[p].pc # "mirror") => Copied

LEMMA InitMirrors == Mirror!MirrorAssumption /\ Mirror!Init => MirrorInv
BY DEF Mirror!MirrorAssumption, Mirror!Init, MirrorInv, Mirror!TypeOK, Mirror!Free, Mirror!Gone,
       Mirror!Version, OneWriter, Sending, Copied, Mirror!Live

LEMMA FreeCopy == Mirror!MirrorAssumption => Mirror!Free \in CopyRow /\ Mirror!Free.pc = "idle"
BY DEF Mirror!MirrorAssumption, Mirror!Free, CopyRow, Mirror!Gone, Mirror!Version

LEMMA BeginMirrors ==
    ASSUME Mirror!MirrorAssumption, MirrorInv, NEW p \in Requests,
           NEW kind \in {"create", "update", "remove"}, Mirror!Begin(p, kind)
    PROVE  MirrorInv'
<1>1. PICK new : new = [pc |-> "write", kind |-> kind, sent |-> Mirror!Gone]
  OBVIOUS
<1>2. new \in CopyRow /\ new.pc = "write" /\ new.kind = kind
  BY <1>1 DEF CopyRow, Mirror!MirrorAssumption, Mirror!Gone, Mirror!Version
<1>3. slot' = [slot EXCEPT ![p] = new] /\ UNCHANGED <<row, copy>> /\ slot[p].pc = "idle"
  BY <1>1 DEF Mirror!Begin
<1>4. slot \in [Requests -> CopyRow] /\ row \in [version : Mirror!Version, deleted : BOOLEAN]
  BY DEF MirrorInv, Mirror!TypeOK, CopyRow
<1>5. \A q \in Requests : slot'[q] = IF q = p THEN new ELSE slot[q]
  BY <1>3, <1>4
<1>6. Mirror!TypeOK'
  <2>1. calm' \in BOOLEAN
    BY DEF Mirror!Begin
  <2>2. slot' \in [Requests -> CopyRow]
    BY <1>2, <1>3, <1>4
  <2>3. QED
    BY <1>3, <2>1, <2>2 DEF MirrorInv, Mirror!TypeOK, CopyRow
<1>7. kind = "remove" \/ ~row.deleted
  BY DEF Mirror!Begin, Mirror!Live, MirrorInv
<1>8. ASSUME calm'
      PROVE  /\ OneWriter'
             /\ \A q \in Requests : Sending(q)'
             /\ (\A q \in Requests : slot'[q].pc # "mirror") => Copied'
  <2>1. calm /\ \A q \in Requests : slot[q].pc = "idle"
    BY <1>8 DEF Mirror!Begin, Mirror!AtRest
  <2>2. OneWriter'
    BY <1>5, <2>1 DEF OneWriter
  <2>3. \A q \in Requests : Sending(q)'
    BY <1>2, <1>3, <1>5, <1>7, <2>1 DEF Sending
  <2>4. Copied
    BY <2>1 DEF MirrorInv
  <2>5. Copied'
    BY <1>3, <2>4 DEF Copied, Mirror!Live
  <2>6. QED
    BY <2>2, <2>3, <2>5
<1>9. QED
  BY <1>3, <1>6, <1>8 DEF MirrorInv

LEMMA WriteMirrors ==
    ASSUME Mirror!MirrorAssumption, MirrorInv, NEW p \in Requests, Mirror!Write(p)
    PROVE  MirrorInv'
<1>1. slot \in [Requests -> CopyRow] /\ row \in [version : Mirror!Version, deleted : BOOLEAN]
  BY DEF MirrorInv, Mirror!TypeOK, CopyRow
<1>2. PICK n, gone : n = row.version + 1 /\ gone = Mirror!Gains(slot[p].kind)
  BY Zenon
<1>3. gone \in BOOLEAN
  BY <1>1, <1>2, Zenon DEF Mirror!Gains
<1>4. n \in Mirror!Version /\ n > 0
  BY <1>1, <1>2 DEF Mirror!Write, Mirror!Version, Mirror!MirrorAssumption
<1>5. PICK new : new = [slot[p] EXCEPT !.pc = "mirror", !.sent = n]
  BY Zenon
<1>6. new \in CopyRow /\ new.pc = "mirror" /\ new.sent = n /\ new.kind = slot[p].kind
  BY <1>1, <1>4, <1>5 DEF CopyRow
<1>7. /\ slot[p].pc = "write" /\ slot' = [slot EXCEPT ![p] = new]
      /\ row' = [version |-> n, deleted |-> gone] /\ UNCHANGED <<copy, calm>>
  BY <1>2, <1>5, Zenon DEF Mirror!Write
<1>8. row'.version = n /\ (row'.deleted <=> gone)
  BY <1>3, <1>7
<1>9. \A q \in Requests : slot'[q] = IF q = p THEN new ELSE slot[q]
  BY <1>1, <1>7
<1>10. Mirror!TypeOK'
  <2>1. row' \in [version : Mirror!Version, deleted : BOOLEAN]
    BY <1>3, <1>4, <1>7
  <2>2. slot' \in [Requests -> CopyRow]
    BY <1>1, <1>6, <1>7
  <2>3. QED
    BY <1>7, <2>1, <2>2 DEF MirrorInv, Mirror!TypeOK, CopyRow
<1>11. ASSUME calm
       PROVE  /\ OneWriter'
              /\ \A q \in Requests : Sending(q)'
  <2>1. OneWriter /\ Sending(p)
    BY <1>11 DEF MirrorInv
  <2>2. \A q \in Requests \ {p} : slot[q].pc = "idle"
    BY <1>7, <2>1 DEF OneWriter
  <2>3. OneWriter'
    BY <1>9, <2>2 DEF OneWriter
  <2>4. slot[p].kind = "remove" <=> gone
    BY <1>2, <1>7, <2>1, Zenon DEF Sending, Mirror!Gains
  <2>5. Sending(p)'
    BY <1>4, <1>6, <1>8, <1>9, <2>4 DEF Sending
  <2>6. \A q \in Requests \ {p} : Sending(q)'
    BY <1>9, <2>2 DEF Sending
  <2>7. QED
    BY <2>3, <2>5, <2>6
<1>12. slot'[p].pc = "mirror"
  BY <1>6, <1>9
<1>13. row'.version = 0 => ~row'.deleted
  BY <1>4, <1>8, <1>10 DEF Mirror!Version
<1>14. QED
  BY <1>7, <1>10, <1>11, <1>12, <1>13 DEF MirrorInv

LEMMA MirrorMirrors ==
    ASSUME Mirror!MirrorAssumption, MirrorInv, NEW p \in Requests, Mirror!Mirror(p)
    PROVE  MirrorInv'
<1>1. slot \in [Requests -> CopyRow] /\ row \in [version : Mirror!Version, deleted : BOOLEAN]
  BY DEF MirrorInv, Mirror!TypeOK, CopyRow
<1>2. /\ slot[p].pc = "mirror" /\ slot' = [slot EXCEPT ![p] = Mirror!Free]
      /\ copy' = Mirror!Sent(p) /\ UNCHANGED <<row, calm>>
  BY DEF Mirror!Mirror
<1>3. \A q \in Requests : slot'[q] = IF q = p THEN Mirror!Free ELSE slot[q]
  BY <1>1, <1>2
<1>4. Mirror!TypeOK'
  <2>1. copy' \in Mirror!Version
    BY <1>1, <1>2 DEF Mirror!Sent, CopyRow, Mirror!Gone, Mirror!Version, Mirror!MirrorAssumption
  <2>2. slot' \in [Requests -> CopyRow]
    BY <1>1, <1>2, FreeCopy
  <2>3. QED
    BY <1>2, <2>1, <2>2 DEF MirrorInv, Mirror!TypeOK, CopyRow
<1>5. ASSUME calm
      PROVE  OneWriter' /\ (\A q \in Requests : Sending(q)') /\ Copied'
  <2>1. OneWriter /\ Sending(p)
    BY <1>5 DEF MirrorInv
  <2>2. \A q \in Requests : slot'[q].pc = "idle"
    BY <1>2, <1>3, <2>1, FreeCopy DEF OneWriter
  <2>3. Copied'
    BY <1>1, <1>2, <2>1 DEF Copied, Sending, Mirror!Sent, Mirror!Live, Mirror!Version
  <2>4. QED
    BY <2>2, <2>3 DEF OneWriter, Sending
<1>6. QED
  BY <1>2, <1>4, <1>5 DEF MirrorInv

LEMMA DropMirrors ==
    ASSUME Mirror!MirrorAssumption, MirrorInv, NEW p \in Requests, Mirror!Drop(p)
    PROVE  MirrorInv'
<1>1. slot \in [Requests -> CopyRow]
  BY DEF MirrorInv, Mirror!TypeOK, CopyRow
<1>2. slot' = [slot EXCEPT ![p] = Mirror!Free] /\ UNCHANGED <<row, copy>>
  BY DEF Mirror!Drop
<1>3. \A q \in Requests : slot'[q] = IF q = p THEN Mirror!Free ELSE slot[q]
  BY <1>1, <1>2
<1>4. Mirror!TypeOK'
  <2>1. slot' \in [Requests -> CopyRow] /\ calm' \in BOOLEAN
    BY <1>1, <1>2, FreeCopy DEF Mirror!Drop
  <2>2. QED
    BY <1>2, <2>1 DEF MirrorInv, Mirror!TypeOK, CopyRow
<1>5. ASSUME calm'
      PROVE  OneWriter' /\ (\A q \in Requests : Sending(q)') /\ Copied'
  <2>1. calm /\ slot[p].pc = "write"
    BY <1>5 DEF Mirror!Drop
  <2>2. \A q \in Requests : slot'[q].pc = "idle"
    BY <1>3, <2>1, FreeCopy DEF MirrorInv, OneWriter
  <2>3. \A q \in Requests : slot[q].pc # "mirror"
    BY <2>1 DEF MirrorInv, OneWriter
  <2>4. Copied'
    BY <1>2, <2>1, <2>3 DEF MirrorInv, Copied, Mirror!Live
  <2>5. QED
    BY <2>2, <2>4 DEF OneWriter, Sending
<1>6. QED
  BY <1>2, <1>4, <1>5 DEF MirrorInv

LEMMA StepMirrors == Mirror!MirrorAssumption /\ MirrorInv /\ [Mirror!Next]_Mirror!vars => MirrorInv'
<1>1. UNCHANGED Mirror!vars /\ MirrorInv => MirrorInv'
  BY DEF Mirror!vars, MirrorInv, Mirror!TypeOK, OneWriter, Sending, Copied, Mirror!Live
<1>2. QED
  BY <1>1, BeginMirrors, WriteMirrors, MirrorMirrors, DropMirrors DEF Mirror!Next

LEMMA InvMirrors == MirrorInv => Mirror!TypeOK /\ Mirror!CopiedAtRest
BY DEF MirrorInv, Mirror!CopiedAtRest, Mirror!AtRest, Copied

-----------------------------------------------------------------------------
(* RECIPES.  A request that makes a recipe active has, from the moment it  *)
(* finds the others, every recipe another request can make active on its   *)
(* list: none is created behind its back but one of a behaviour the        *)
(* property leaves out.                                                    *)
Under(m)    == m.pc \notin {"idle", "done"}
Making(m)   == Under(m) /\ m.op = "create"
Choosing(m) == m.pc = "demote" /\ m.op = "activate"
MakingActive(m) == Making(m) /\ m.active = "yes"
Clash(m, n) == Making(n) /\ (Choosing(m) \/ (MakingActive(m) /\ MakingActive(n)))

(* The others that m finds or has demoted: for an activation every one.    *)
Covers(m, book) ==
    /\ Choosing(m) => \A s \in RecipeIds \ {m.recipe} :
           book[s].state # "none" => s \in m.others \cup m.off
    /\ MakingActive(m) => \A s \in RecipeIds \ {m.recipe} :
           book[s].state = "live" /\ book[s].active => s \in m.others \cup m.off

(* A request whose recipe existed when it began. *)
Known1(m, book) ==
    m.pc \in {"others", "lists", "unlist", "edit", "archive"} => book[m.recipe].state # "none"

(* A request that rewrites the components of its recipe has seen them all. *)
SawAll(m, book) == m.pc \in {"unlist", "edit"} /\ m.relist => m.lists = book[m.recipe].lists

OneList(book) == \A s \in RecipeIds : book[s].state # "none" => \E w : book[s].lists = {w}

BookInv ==
    /\ Recipes!TypeOK
    /\ \A q \in Requests : Known1(act[q], recipe)
    /\ \A s \in RecipeIds : recipe[s].state # "none" => recipe[s].lists # {}
    /\ calm => /\ \A p, q \in Requests : Under(act[p]) /\ Under(act[q]) => p = q
               /\ \A q \in Requests : SawAll(act[q], recipe)
               /\ OneList(recipe)
    /\ ~loose => /\ \A p, q \in Requests : p # q => ~Clash(act[p], act[q])
                 /\ \A q \in Requests : Covers(act[q], recipe)
                 /\ Recipes!OneActive

LEMMA RestingRecipe ==
    ASSUME Recipes!RecipeAssumption, NEW r \in RecipeIds, NEW state \in {"idle", "done"}
    PROVE  /\ [Recipes!Idle(r) EXCEPT !.pc = state] \in Recipes!Request
           /\ [Recipes!Idle(r) EXCEPT !.pc = state].pc = state
           /\ Recipes!Idle(r) \in Recipes!Request /\ Recipes!Idle(r).pc = "idle"
BY DEF Recipes!Request, Recipes!Idle, Recipes!Change

LEMMA SomeRecipe == Recipes!RecipeAssumption => Recipes!AnyRecipe \in RecipeIds
BY DEF Recipes!AnyRecipe, Recipes!RecipeAssumption

LEMMA InitBooks == Recipes!RecipeAssumption /\ Recipes!Init => BookInv
<1> SUFFICES ASSUME Recipes!RecipeAssumption, Recipes!Init PROVE BookInv
  OBVIOUS
<1>1. PICK i : i = Recipes!Idle(Recipes!AnyRecipe)
  BY Zenon
<1>2. i \in Recipes!Request /\ i.pc = "idle"
  BY <1>1, SomeRecipe, RestingRecipe
<1>3. act = [p \in Requests |-> i] /\ calm = TRUE /\ loose = FALSE
  BY <1>1, Zenon DEF Recipes!Init
<1>4. \A s \in RecipeIds : recipe[s].state = "none"
  BY DEF Recipes!Init
<1>5. Recipes!TypeOK
  <2>1. recipe \in [RecipeIds -> Recipes!Row]
    BY DEF Recipes!Init, Recipes!Row
  <2>2. act \in [Requests -> Recipes!Request]
    BY <1>2, <1>3
  <2>3. held \in [RecipeIds -> Requests \cup {None}] /\ listLock \in [RecipeIds -> Requests \cup {None}]
    BY DEF Recipes!Init
  <2>4. QED
    BY <1>3, <2>1, <2>2, <2>3, Zenon DEF Recipes!TypeOK
<1>6. \A q \in Requests : act[q].pc = "idle"
  BY <1>2, <1>3
<1>7. Recipes!OneActive
  BY <1>4 DEF Recipes!OneActive, Recipes!Live
<1>8. QED
  BY <1>4, <1>5, <1>6, <1>7
     DEF BookInv, Known1, SawAll, OneList, Clash, Covers, Making, MakingActive, Choosing, Under

(* A step that leaves the recipes as they are. *)
LEMMA MoveBooks ==
    ASSUME BookInv, NEW p \in Requests, NEW new \in Recipes!Request,
           act' = [act EXCEPT ![p] = new], UNCHANGED recipe,
           held' \in [RecipeIds -> Requests \cup {None}],
           listLock' \in [RecipeIds -> Requests \cup {None}],
           calm' \in BOOLEAN, loose' \in BOOLEAN,
           calm' => calm /\ (Under(act[p]) \/ \A q \in Requests : ~Under(act[q])),
           ~loose' => ~loose,
           Known1(new, recipe),
           calm' => SawAll(new, recipe),
           ~loose' => /\ \A q \in Requests \ {p} : ~Clash(new, act[q]) /\ ~Clash(act[q], new)
                      /\ Covers(new, recipe)
    PROVE  BookInv'
<1>1. act \in [Requests -> Recipes!Request]
  BY DEF BookInv, Recipes!TypeOK
<1>2. \A q \in Requests : act'[q] = IF q = p THEN new ELSE act[q]
  BY <1>1
<1>3. Recipes!TypeOK'
  BY <1>1 DEF BookInv, Recipes!TypeOK
<1>4. \A q \in Requests : Known1(act[q], recipe)'
  BY <1>2 DEF BookInv, Known1
<1>5. \A s \in RecipeIds : (recipe[s].state # "none" => recipe[s].lists # {})'
  BY DEF BookInv
<1>6. ASSUME calm'
      PROVE  /\ (\A q1, q2 \in Requests : Under(act[q1]) /\ Under(act[q2]) => q1 = q2)'
             /\ (\A q \in Requests : SawAll(act[q], recipe))'
             /\ OneList(recipe)'
  <2>1. \A q1, q2 \in Requests : Under(act[q1]) /\ Under(act[q2]) => q1 = q2
    BY <1>6 DEF BookInv
  <2>2. \A q \in Requests \ {p} : ~Under(act[q])
    BY <1>6, <2>1
  <2>3. \A q \in Requests \ {p} : ~Under(act'[q])
    BY <1>2, <2>2
  <2>4. \A q \in Requests : SawAll(act[q], recipe)'
    BY <1>2, <1>6 DEF BookInv, SawAll
  <2>5. QED
    BY <1>6, <2>3, <2>4 DEF BookInv, OneList, Under
<1>7. ASSUME ~loose'
      PROVE  /\ (\A q1, q2 \in Requests : q1 # q2 => ~Clash(act[q1], act[q2]))'
             /\ (\A q \in Requests : Covers(act[q], recipe))'
             /\ Recipes!OneActive'
  <2>1. \A q1, q2 \in Requests : q1 # q2 => ~Clash(act[q1], act[q2])
    BY <1>7 DEF BookInv
  <2>2. \A q1, q2 \in Requests : q1 # q2 => ~Clash(act'[q1], act'[q2])
    <3>1. SUFFICES ASSUME NEW q1 \in Requests, NEW q2 \in Requests, q1 # q2
                   PROVE  ~Clash(act'[q1], act'[q2])
      OBVIOUS
    <3>2. CASE q1 = p
      BY <1>2, <1>7, <3>1, <3>2
    <3>3. CASE q2 = p
      BY <1>2, <1>7, <3>1, <3>3
    <3>4. CASE q1 # p /\ q2 # p
      BY <1>2, <2>1, <3>1, <3>4
    <3>5. QED
      BY <3>2, <3>3, <3>4
  <2>3. \A q \in Requests : Covers(act'[q], recipe')
    <3>1. SUFFICES ASSUME NEW q \in Requests PROVE Covers(act'[q], recipe)
      OBVIOUS
    <3>2. Covers(act[q], recipe)
      BY <1>7 DEF BookInv
    <3>3. QED
      BY <1>2, <1>7, <3>2
  <2>4. Recipes!OneActive'
    BY <1>7 DEF BookInv, Recipes!OneActive, Recipes!Live
  <2>5. QED
    BY <2>2, <2>3, <2>4 DEF Clash, Covers, Making, MakingActive, Choosing, Under
<1>8. QED
  BY <1>3, <1>4, <1>5, <1>6, <1>7 DEF BookInv

LEMMA ArriveBooks ==
    ASSUME BookInv, NEW p \in Requests, Recipes!Arrive(p)
    PROVE  /\ act[p] \in Recipes!Request /\ act[p].pc = "idle"
           /\ calm' \in BOOLEAN
           /\ calm' => calm /\ \A q \in Requests : ~Under(act[q])
<1>1. act[p] \in Recipes!Request /\ act[p].pc = "idle"
  BY DEF BookInv, Recipes!TypeOK, Recipes!Arrive
<1>2. calm' \in BOOLEAN
  BY Zenon DEF Recipes!Arrive
<1>3. calm' => calm /\ \A q \in Requests : ~Recipes!Active(q)
  BY Zenon DEF Recipes!Arrive
<1>4. QED
  BY <1>1, <1>2, <1>3 DEF Recipes!Active, Under

LEMMA CreateBooks ==
    ASSUME Recipes!RecipeAssumption, BookInv, NEW p \in Requests, NEW r \in RecipeIds,
           NEW first \in BOOLEAN, Recipes!Create(p, r, first)
    PROVE  BookInv'
<1>1. act[p] \in Recipes!Request /\ act[p].pc = "idle" /\ held \in [RecipeIds -> Requests \cup {None}]
  BY ArriveBooks DEF BookInv, Recipes!TypeOK, Recipes!Create
<1>2. PICK choice : choice = IF first THEN "yes" ELSE "no"
  OBVIOUS
<1>3. choice \in {"yes", "no"} /\ (choice = "yes" <=> first)
  BY <1>2
<1>4. PICK found1 : found1 = IF first THEN Recipes!Others(r) ELSE {}
  OBVIOUS
<1>5. found1 \in SUBSET RecipeIds
  BY <1>4 DEF Recipes!Others
<1>6. PICK new : new = [act[p] EXCEPT !.op = "create", !.recipe = r, !.active = choice,
                                      !.others = found1, !.pc = "demote"]
  OBVIOUS
<1>7. /\ new \in Recipes!Request /\ new.pc = "demote" /\ new.op = "create"
      /\ new.recipe = r /\ new.active = choice /\ new.others = found1
  BY <1>1, <1>3, <1>5, <1>6 DEF Recipes!Request, Recipes!Change
<1>8. act' = [act EXCEPT ![p] = new] /\ UNCHANGED <<recipe, listLock>>
      /\ held' = [held EXCEPT ![r] = p]
  BY <1>2, <1>4, <1>6, Zenon DEF Recipes!Create, Recipes!Lock
<1>9. loose' \in BOOLEAN /\ (~loose' => ~loose /\ \A q \in Requests : ~Recipes!Promotes(q))
  BY Zenon DEF Recipes!Create
<1>10. /\ calm' \in BOOLEAN
       /\ calm' => calm /\ \A q \in Requests : ~Under(act[q])
  BY ArriveBooks DEF Recipes!Create
<1>11. ASSUME ~loose'
       PROVE  /\ \A q \in Requests \ {p} : ~Clash(new, act[q]) /\ ~Clash(act[q], new)
              /\ Covers(new, recipe)
  <2>1. \A q \in Requests : ~Choosing(act[q]) /\ ~MakingActive(act[q])
    BY <1>9, <1>11 DEF Recipes!Promotes, Recipes!Active, Choosing, MakingActive, Making, Under
  <2>2. \A q \in Requests \ {p} : ~Clash(new, act[q]) /\ ~Clash(act[q], new)
    BY <1>7, <2>1 DEF Clash, Choosing
  <2>3. Covers(new, recipe)
    BY <1>3, <1>4, <1>7 DEF Covers, Choosing, MakingActive, Recipes!Others
  <2>4. QED
    BY <2>2, <2>3
<1>12. held' \in [RecipeIds -> Requests \cup {None}] /\ listLock' \in [RecipeIds -> Requests \cup {None}]
  BY <1>1, <1>8 DEF BookInv, Recipes!TypeOK
<1>13. Known1(new, recipe) /\ SawAll(new, recipe)
  BY <1>7 DEF Known1, SawAll
<1>14. QED
  BY <1>7, <1>8, <1>9, <1>10, <1>11, <1>12, <1>13, MoveBooks

(* The other arrivals promise nothing yet. *)
LEMMA BeginBooks ==
    ASSUME BookInv, NEW p \in Requests, Recipes!Arrive(p), NEW new \in Recipes!Request,
           act' = [act EXCEPT ![p] = new], UNCHANGED <<recipe, held, listLock, loose>>,
           recipe[new.recipe].state # "none", new.op # "create", new.pc # "demote",
           new.pc # "unlist", new.pc = "edit" => ~new.relist
    PROVE  BookInv'
<1>1. /\ calm' \in BOOLEAN
      /\ calm' => calm /\ \A q \in Requests : ~Under(act[q])
  BY ArriveBooks
<1>2. Known1(new, recipe) /\ SawAll(new, recipe)
  BY DEF Known1, SawAll
<1>3. /\ \A q \in Requests \ {p} : ~Clash(new, act[q]) /\ ~Clash(act[q], new)
      /\ Covers(new, recipe)
  BY DEF Clash, Covers, Choosing, MakingActive, Making
<1>4. /\ held' \in [RecipeIds -> Requests \cup {None}] /\ listLock' \in [RecipeIds -> Requests \cup {None}]
      /\ loose' \in BOOLEAN
  BY DEF BookInv, Recipes!TypeOK
<1>5. QED
  BY <1>1, <1>2, <1>3, <1>4, MoveBooks

LEMMA ActivateBooks ==
    ASSUME BookInv, NEW p \in Requests, NEW r \in RecipeIds, Recipes!Activate(p, r)
    PROVE  BookInv'
<1>1. act[p] \in Recipes!Request
  BY ArriveBooks DEF Recipes!Activate
<1>2. PICK new : new = [act[p] EXCEPT !.op = "activate", !.recipe = r, !.pc = "others"]
  OBVIOUS
<1>3. new \in Recipes!Request /\ new.pc = "others" /\ new.op = "activate" /\ new.recipe = r
  BY <1>1, <1>2 DEF Recipes!Request
<1>4. act' = [act EXCEPT ![p] = new] /\ UNCHANGED <<recipe, held, listLock, loose>>
  BY <1>2, Zenon DEF Recipes!Activate
<1>5. recipe[new.recipe].state # "none"
  BY <1>3 DEF Recipes!Activate, Recipes!Live
<1>6. QED
  BY <1>3, <1>4, <1>5, BeginBooks DEF Recipes!Activate

LEMMA RemoveBooks ==
    ASSUME BookInv, NEW p \in Requests, NEW r \in RecipeIds, Recipes!Remove(p, r)
    PROVE  BookInv'
<1>1. act[p] \in Recipes!Request
  BY ArriveBooks DEF Recipes!Remove
<1>2. PICK new : new = [act[p] EXCEPT !.op = "remove", !.recipe = r, !.pc = "archive"]
  OBVIOUS
<1>3. new \in Recipes!Request /\ new.pc = "archive" /\ new.op = "remove" /\ new.recipe = r
  BY <1>1, <1>2 DEF Recipes!Request
<1>4. act' = [act EXCEPT ![p] = new] /\ UNCHANGED <<recipe, held, listLock, loose>>
  BY <1>2, Zenon DEF Recipes!Remove
<1>5. recipe[new.recipe].state # "none"
  BY <1>3 DEF Recipes!Remove, Recipes!Live
<1>6. QED
  BY <1>3, <1>4, <1>5, BeginBooks DEF Recipes!Remove

LEMMA UpdateBooks ==
    ASSUME BookInv, NEW p \in Requests, NEW r \in RecipeIds,
           NEW again \in BOOLEAN, NEW gone \in BOOLEAN, NEW choice \in Recipes!Change,
           Recipes!Update(p, r, again, choice, gone)
    PROVE  BookInv'
<1>1. act[p] \in Recipes!Request
  BY ArriveBooks DEF Recipes!Update
<1>2. PICK next : next = IF again THEN "lists" ELSE "edit"
  OBVIOUS
<1>3. next \in {"lists", "edit"} /\ (next = "edit" => ~again)
  BY <1>2
<1>4. PICK new : new = [act[p] EXCEPT !.op = "update", !.recipe = r, !.relist = again,
                            !.active = choice, !.archived = gone, !.pc = next]
  OBVIOUS
<1>5. new \in Recipes!Request /\ new.pc = next /\ new.op = "update" /\ new.recipe = r
      /\ new.relist = again
  BY <1>1, <1>3, <1>4 DEF Recipes!Request
<1>6. act' = [act EXCEPT ![p] = new] /\ UNCHANGED <<recipe, held, listLock, loose>>
  BY <1>2, <1>4, Zenon DEF Recipes!Update
<1>7. recipe[new.recipe].state # "none"
  BY <1>5 DEF Recipes!Update, Recipes!Live
<1>8. Recipes!Arrive(p)
  BY DEF Recipes!Update
<1>9. new.op # "create" /\ new.pc # "demote" /\ new.pc # "unlist" /\ (new.pc = "edit" => ~new.relist)
  BY <1>3, <1>5
<1>10. QED
  BY <1>5, <1>6, <1>7, <1>8, <1>9, BeginBooks

LEMMA FindOthersBooks ==
    ASSUME BookInv, NEW p \in Requests, Recipes!FindOthers(p)
    PROVE  BookInv'
<1>1. act[p] \in Recipes!Request /\ act[p].pc = "others"
  BY DEF BookInv, Recipes!TypeOK, Recipes!FindOthers
<1>2. PICK new : new = [act[p] EXCEPT !.others = Recipes!Demoted(act[p].recipe), !.pc = "demote"]
  OBVIOUS
<1>3. /\ new \in Recipes!Request /\ new.pc = "demote" /\ new.op = act[p].op
      /\ new.recipe = act[p].recipe /\ new.others = Recipes!Others(act[p].recipe)
      /\ new.active = act[p].active
  BY <1>1, <1>2 DEF Recipes!Request, Recipes!Others, Recipes!Demoted
<1>4. act' = [act EXCEPT ![p] = new] /\ UNCHANGED <<recipe, held, listLock, calm>>
  BY <1>2, Zenon DEF Recipes!FindOthers
<1>5. /\ loose' \in BOOLEAN
      /\ ~loose' => ~loose /\ \A q \in Requests : ~(Recipes!Active(q) /\ act[q].op = "create")
  BY Zenon DEF Recipes!FindOthers
<1>6. Known1(new, recipe) /\ SawAll(new, recipe)
  BY <1>3 DEF Known1, SawAll
<1>7. ASSUME ~loose'
      PROVE  /\ \A q \in Requests \ {p} : ~Clash(new, act[q]) /\ ~Clash(act[q], new)
             /\ Covers(new, recipe)
  <2>1. \A q \in Requests : ~Making(act[q])
    BY <1>5, <1>7 DEF Recipes!Active, Making, Under
  <2>2. ~Making(new)
    BY <1>1, <1>3, <2>1 DEF Making, Under
  <2>3. Covers(new, recipe)
    BY <1>3, <2>2 DEF Covers, MakingActive, Recipes!Others
  <2>4. QED
    BY <2>1, <2>2, <2>3 DEF Clash
<1>8. /\ held' \in [RecipeIds -> Requests \cup {None}] /\ listLock' \in [RecipeIds -> Requests \cup {None}]
      /\ calm' \in BOOLEAN
  BY <1>4 DEF BookInv, Recipes!TypeOK
<1>9. Under(act[p])
  BY <1>1 DEF Under
<1>10. QED
  BY <1>3, <1>4, <1>5, <1>6, <1>7, <1>8, <1>9, MoveBooks

LEMMA DemoteBooks ==
    ASSUME BookInv, NEW p \in Requests, Recipes!Demote(p)
    PROVE  BookInv'
<1>1. act[p] \in Recipes!Request /\ act \in [Requests -> Recipes!Request]
  BY DEF BookInv, Recipes!TypeOK
<1>2. PICK s \in act[p].others :
          /\ act[p].pc = "demote" /\ Recipes!Lock(p, s)
          /\ act' = [act EXCEPT ![p].others = @ \ {s}, ![p].off = @ \cup {s}]
          /\ UNCHANGED <<recipe, listLock, calm, loose>>
  BY DEF Recipes!Demote
<1>3. PICK new : new = [act[p] EXCEPT !.others = @ \ {s}, !.off = @ \cup {s}]
  OBVIOUS
<1>4. /\ new \in Recipes!Request /\ new.pc = "demote" /\ new.op = act[p].op
      /\ new.recipe = act[p].recipe /\ new.active = act[p].active
      /\ new.others \cup new.off = act[p].others \cup act[p].off
  BY <1>1, <1>2, <1>3 DEF Recipes!Request
<1>5. act' = [act EXCEPT ![p] = new]
  BY <1>1, <1>2, <1>3
<1>6. Known1(new, recipe) /\ SawAll(new, recipe)
  BY <1>4 DEF Known1, SawAll
<1>7. ASSUME ~loose'
      PROVE  /\ \A q \in Requests \ {p} : ~Clash(new, act[q]) /\ ~Clash(act[q], new)
             /\ Covers(new, recipe)
  <2>1. /\ \A q \in Requests \ {p} : ~Clash(act[p], act[q]) /\ ~Clash(act[q], act[p])
        /\ Covers(act[p], recipe)
    BY <1>2, <1>7 DEF BookInv
  <2>2. QED
    BY <1>2, <1>4, <2>1 DEF Clash, Covers, Making, MakingActive, Choosing, Under
<1>8. /\ held' \in [RecipeIds -> Requests \cup {None}] /\ listLock' \in [RecipeIds -> Requests \cup {None}]
      /\ calm' \in BOOLEAN /\ loose' \in BOOLEAN
  BY <1>1, <1>2 DEF BookInv, Recipes!TypeOK, Recipes!Lock, Recipes!Request
<1>9. Under(act[p])
  BY <1>2 DEF Under
<1>10. QED
  BY <1>2, <1>4, <1>5, <1>6, <1>7, <1>8, <1>9, MoveBooks

LEMMA FindListsBooks ==
    ASSUME BookInv, NEW p \in Requests, Recipes!FindLists(p)
    PROVE  BookInv'
<1>1. act[p] \in Recipes!Request /\ act[p].pc = "lists" /\ recipe \in [RecipeIds -> Recipes!Row]
  BY DEF BookInv, Recipes!TypeOK, Recipes!FindLists
<1>2. PICK new : new = [act[p] EXCEPT !.lists = recipe[act[p].recipe].lists, !.pc = "unlist"]
  OBVIOUS
<1>3. /\ new \in Recipes!Request /\ new.pc = "unlist" /\ new.recipe = act[p].recipe
      /\ new.lists = recipe[act[p].recipe].lists /\ new.op = act[p].op /\ new.active = act[p].active
      /\ new.others = act[p].others /\ new.off = act[p].off
  BY <1>1, <1>2 DEF Recipes!Request, Recipes!Row
<1>4. act' = [act EXCEPT ![p] = new] /\ UNCHANGED <<recipe, held, listLock, calm, loose>>
  BY <1>2, Zenon DEF Recipes!FindLists
<1>5. Known1(act[p], recipe)
  BY DEF BookInv
<1>6. Known1(new, recipe) /\ SawAll(new, recipe)
  BY <1>1, <1>3, <1>5 DEF Known1, SawAll
<1>7. ASSUME ~loose'
      PROVE  /\ \A q \in Requests \ {p} : ~Clash(new, act[q]) /\ ~Clash(act[q], new)
             /\ Covers(new, recipe)
  <2>1. /\ \A q \in Requests \ {p} : ~Clash(act[p], act[q]) /\ ~Clash(act[q], act[p])
        /\ Covers(act[p], recipe)
    BY <1>4, <1>7 DEF BookInv
  <2>2. QED
    BY <1>1, <1>3, <2>1 DEF Clash, Covers, Making, MakingActive, Choosing, Under
<1>8. /\ held' \in [RecipeIds -> Requests \cup {None}] /\ listLock' \in [RecipeIds -> Requests \cup {None}]
      /\ calm' \in BOOLEAN /\ loose' \in BOOLEAN
  BY <1>4 DEF BookInv, Recipes!TypeOK
<1>9. Under(act[p])
  BY <1>1 DEF Under
<1>10. QED
  BY <1>3, <1>4, <1>6, <1>7, <1>8, <1>9, MoveBooks

LEMMA UnlistBooks ==
    ASSUME BookInv, NEW p \in Requests, Recipes!Unlist(p)
    PROVE  BookInv'
<1>1. act[p] \in Recipes!Request /\ act[p].pc = "unlist" /\ act \in [Requests -> Recipes!Request]
  BY DEF BookInv, Recipes!TypeOK, Recipes!Unlist
<1>2. PICK new : new = [act[p] EXCEPT !.pc = "edit"]
  OBVIOUS
<1>3. /\ new \in Recipes!Request /\ new.pc = "edit" /\ new.recipe = act[p].recipe
      /\ new.lists = act[p].lists /\ new.op = act[p].op /\ new.active = act[p].active
      /\ new.relist = act[p].relist /\ new.others = act[p].others /\ new.off = act[p].off
  BY <1>1, <1>2 DEF Recipes!Request
<1>4. act' = [act EXCEPT ![p] = new] /\ UNCHANGED <<recipe, held, calm, loose>>
  BY <1>1, <1>2 DEF Recipes!Unlist
<1>5. Known1(act[p], recipe) /\ (calm => SawAll(act[p], recipe))
  BY DEF BookInv
<1>6. Known1(new, recipe) /\ (calm' => SawAll(new, recipe))
  BY <1>1, <1>3, <1>4, <1>5 DEF Known1, SawAll
<1>7. ASSUME ~loose'
      PROVE  /\ \A q \in Requests \ {p} : ~Clash(new, act[q]) /\ ~Clash(act[q], new)
             /\ Covers(new, recipe)
  <2>1. /\ \A q \in Requests \ {p} : ~Clash(act[p], act[q]) /\ ~Clash(act[q], act[p])
        /\ Covers(act[p], recipe)
    BY <1>4, <1>7 DEF BookInv
  <2>2. QED
    BY <1>1, <1>3, <2>1 DEF Clash, Covers, Making, MakingActive, Choosing, Under
<1>8. /\ held' \in [RecipeIds -> Requests \cup {None}] /\ listLock' \in [RecipeIds -> Requests \cup {None}]
      /\ calm' \in BOOLEAN /\ loose' \in BOOLEAN
  BY <1>1, <1>4 DEF BookInv, Recipes!TypeOK, Recipes!Unlist, Recipes!Request
<1>9. Under(act[p])
  BY <1>1 DEF Under
<1>10. QED
  BY <1>3, <1>4, <1>6, <1>7, <1>8, <1>9, MoveBooks

(* A step that ends a request. *)
LEMMA EndBooks ==
    ASSUME Recipes!RecipeAssumption, BookInv, NEW p \in Requests, Recipes!Finish(p),
           Recipes!Active(p), UNCHANGED calm,
           recipe' \in [RecipeIds -> Recipes!Row], loose' \in BOOLEAN, ~loose' => ~loose,
           \A s \in RecipeIds : recipe[s].state # "none" => recipe'[s].state # "none",
           \A s \in RecipeIds : recipe'[s].state # "none" => recipe'[s].lists # {},
           calm => OneList(recipe'),
           ~loose' => Recipes!OneActive',
           ~loose' => \A q \in Requests \ {p} : Covers(act[q], recipe')
    PROVE  BookInv'
<1>1. act \in [Requests -> Recipes!Request] /\ Recipes!TypeOK
  BY DEF BookInv, Recipes!TypeOK
<1>2. PICK new : new = [Recipes!Idle(Recipes!AnyRecipe) EXCEPT !.pc = "done"]
  OBVIOUS
<1>3. new \in Recipes!Request /\ new.pc = "done"
  BY <1>2, SomeRecipe, RestingRecipe
<1>4. act' = [act EXCEPT ![p] = new]
  BY <1>2, Zenon DEF Recipes!Finish
<1>5. \A q \in Requests : act'[q] = IF q = p THEN new ELSE act[q]
  BY <1>1, <1>4
<1>6. Recipes!TypeOK'
  <2>1. /\ held' \in [RecipeIds -> Requests \cup {None}]
        /\ listLock' \in [RecipeIds -> Requests \cup {None}]
    BY <1>1 DEF Recipes!TypeOK, Recipes!Finish, Recipes!Release
  <2>2. QED
    BY <1>1, <1>3, <1>4, <2>1 DEF Recipes!TypeOK
<1>7. \A q \in Requests : Known1(act[q], recipe)'
  BY <1>1, <1>3, <1>5 DEF BookInv, Known1, Recipes!Request
<1>8. ASSUME calm'
      PROVE  /\ (\A q1, q2 \in Requests : Under(act[q1]) /\ Under(act[q2]) => q1 = q2)'
             /\ (\A q \in Requests : SawAll(act[q], recipe))'
  <2>1. \A q \in Requests \ {p} : ~Under(act[q])
    BY <1>8 DEF BookInv, Recipes!Active, Under
  <2>2. \A q \in Requests : ~Under(act'[q])
    BY <1>3, <1>5, <2>1 DEF Under
  <2>3. QED
    BY <2>2 DEF SawAll, Under
<1>9. ASSUME ~loose'
      PROVE  /\ (\A q1, q2 \in Requests : q1 # q2 => ~Clash(act[q1], act[q2]))'
             /\ (\A q \in Requests : Covers(act[q], recipe))'
  <2>1. \A q1, q2 \in Requests : q1 # q2 => ~Clash(act[q1], act[q2])
    BY <1>9 DEF BookInv
  <2>2. \A m : ~Clash(new, m) /\ ~Clash(m, new) /\ Covers(new, recipe')
    BY <1>3 DEF Clash, Covers, Making, MakingActive, Choosing, Under
  <2>3. (\A q1, q2 \in Requests : q1 # q2 => ~Clash(act[q1], act[q2]))'
    <3>1. SUFFICES ASSUME NEW q1 \in Requests, NEW q2 \in Requests, q1 # q2
                   PROVE  ~Clash(act'[q1], act'[q2])
      BY DEF Clash, Making, MakingActive, Choosing, Under
    <3>2. CASE q1 = p
      BY <1>5, <2>2, <3>1, <3>2
    <3>3. CASE q2 = p
      BY <1>5, <2>2, <3>1, <3>3
    <3>4. CASE q1 # p /\ q2 # p
      BY <1>5, <2>1, <3>1, <3>4
    <3>5. QED
      BY <3>2, <3>3, <3>4
  <2>4. \A q \in Requests : Covers(act'[q], recipe')
    <3>1. SUFFICES ASSUME NEW q \in Requests PROVE Covers(act'[q], recipe')
      OBVIOUS
    <3>2. QED
      BY <1>5, <1>9, <2>2, <3>1
  <2>5. QED
    BY <2>3, <2>4 DEF Covers, Making, MakingActive, Choosing, Under
<1>10. OneList(recipe') => OneList(recipe)'
  BY DEF OneList
<1>11. QED
  BY <1>6, <1>7, <1>8, <1>9, <1>10 DEF BookInv

LEMMA CommitCreateBooks ==
    ASSUME Recipes!RecipeAssumption, BookInv, NEW p \in Requests, Recipes!CommitCreate(p)
    PROVE  BookInv'
<1>1. /\ act \in [Requests -> Recipes!Request] /\ act[p] \in Recipes!Request
      /\ recipe \in [RecipeIds -> Recipes!Row]
  BY DEF BookInv, Recipes!TypeOK
<1>2. PICK r : r = act[p].recipe
  OBVIOUS
<1>3. PICK yes : yes = (act[p].active = "yes")
  BY Zenon
<1>4. yes \in BOOLEAN
  BY <1>3, Zenon
<1>5. /\ act[p].pc = "demote" /\ act[p].op = "create" /\ act[p].others = {}
      /\ recipe' = [s \in RecipeIds |->
             IF s = r THEN [state |-> "live", active |-> yes, lists |-> {p}] ELSE Recipes!Off(p, s)]
      /\ Recipes!Finish(p) /\ UNCHANGED <<calm, loose>>
  BY <1>2, <1>3, Zenon DEF Recipes!CommitCreate
<1>6. r \in RecipeIds
  BY <1>1, <1>2 DEF Recipes!Request
<1>7. \A s \in RecipeIds : /\ Recipes!Off(p, s) \in Recipes!Row
                           /\ Recipes!Off(p, s).state = recipe[s].state
                           /\ Recipes!Off(p, s).lists = recipe[s].lists
                           /\ Recipes!Off(p, s).active => recipe[s].active /\ s \notin act[p].off
  BY <1>1 DEF Recipes!Off, Recipes!Row
<1>8. /\ recipe'[r].state = "live" /\ recipe'[r].lists = {p} /\ (recipe'[r].active <=> yes)
      /\ \A s \in RecipeIds \ {r} : recipe'[s] = Recipes!Off(p, s)
  BY <1>5, <1>6
<1>9. recipe' \in [RecipeIds -> Recipes!Row]
  <2>1. [state |-> "live", active |-> yes, lists |-> {p}] \in Recipes!Row
    BY <1>4 DEF Recipes!Row
  <2>2. QED
    BY <1>5, <1>7, <2>1
<1>10. /\ \A s \in RecipeIds : recipe[s].state # "none" => recipe'[s].state # "none"
       /\ \A s \in RecipeIds : recipe'[s].state # "none" => recipe'[s].lists # {}
  BY <1>7, <1>8 DEF BookInv
<1>11. ASSUME calm
       PROVE  OneList(recipe')
  <2>1. OneList(recipe)
    BY <1>11, Zenon DEF BookInv
  <2>2. SUFFICES ASSUME NEW s \in RecipeIds, recipe'[s].state # "none"
                 PROVE  \E w : recipe'[s].lists = {w}
    BY Zenon DEF OneList
  <2>3. CASE s = r
    BY <1>8, <2>3, Zenon
  <2>4. CASE s # r
    <3>1. recipe'[s].state = recipe[s].state /\ recipe'[s].lists = recipe[s].lists
      BY <1>7, <1>8, <2>4
    <3>2. QED
      BY <2>1, <2>2, <3>1, Zenon DEF OneList
  <2>5. QED
    BY <2>3, <2>4, Zenon
<1>12. ASSUME ~loose, yes
       PROVE  \A s \in RecipeIds \ {r} : recipe[s].state = "live" => ~recipe'[s].active
  BY <1>2, <1>3, <1>5, <1>7, <1>8, <1>12 DEF BookInv, Covers, MakingActive, Making, Under
<1>13. ASSUME ~loose
       PROVE  Recipes!OneActive'
  <2>1. SUFFICES ASSUME NEW s \in RecipeIds, NEW t \in RecipeIds,
                        recipe'[s].state = "live", recipe'[t].state = "live",
                        recipe'[s].active, recipe'[t].active
                 PROVE  s = t
    BY DEF Recipes!OneActive, Recipes!Live
  <2>2. CASE yes
    BY <1>7, <1>8, <1>12, <1>13, <2>1, <2>2
  <2>3. CASE ~yes
    BY <1>7, <1>8, <1>13, <2>1, <2>3 DEF BookInv, Recipes!OneActive, Recipes!Live
  <2>4. QED
    BY <2>2, <2>3
<1>14. ASSUME ~loose, NEW q \in Requests \ {p}
       PROVE  Covers(act[q], recipe')
  <2>1. ~Clash(act[q], act[p]) /\ Covers(act[q], recipe)
    BY <1>14 DEF BookInv
  <2>2. ~Choosing(act[q])
    BY <1>5, <2>1 DEF Clash, Making, Under
  <2>3. ASSUME MakingActive(act[q]), NEW s \in RecipeIds \ {act[q].recipe},
               recipe'[s].state = "live", recipe'[s].active
        PROVE  s \in act[q].others \cup act[q].off
    <3>1. ~yes
      BY <1>3, <1>5, <2>1, <2>3 DEF Clash, Making, MakingActive, Under
    <3>2. s # r
      BY <1>8, <2>3, <3>1
    <3>3. QED
      BY <1>7, <1>8, <2>1, <2>3, <3>2 DEF Covers
  <2>4. QED
    BY <2>2, <2>3 DEF Covers
<1>15. QED
  BY <1>5, <1>9, <1>10, <1>11, <1>13, <1>14, EndBooks DEF Recipes!Active, BookInv, Recipes!TypeOK

LEMMA CommitActivateBooks ==
    ASSUME Recipes!RecipeAssumption, BookInv, NEW p \in Requests, Recipes!CommitActivate(p)
    PROVE  BookInv'
<1>1. /\ act \in [Requests -> Recipes!Request] /\ act[p] \in Recipes!Request
      /\ recipe \in [RecipeIds -> Recipes!Row]
  BY DEF BookInv, Recipes!TypeOK
<1>2. PICK r : r = act[p].recipe
  OBVIOUS
<1>3. /\ act[p].pc = "demote" /\ act[p].op = "activate" /\ act[p].others = {}
      /\ recipe' = [s \in RecipeIds |->
             IF s = r THEN [recipe[s] EXCEPT !.active = TRUE] ELSE Recipes!Off(p, s)]
      /\ Recipes!Finish(p) /\ UNCHANGED <<calm, loose>>
  BY <1>2, Zenon DEF Recipes!CommitActivate
<1>4. r \in RecipeIds
  BY <1>1, <1>2 DEF Recipes!Request
<1>5. \A s \in RecipeIds : /\ Recipes!Off(p, s) \in Recipes!Row
                           /\ Recipes!Off(p, s).state = recipe[s].state
                           /\ Recipes!Off(p, s).lists = recipe[s].lists
                           /\ Recipes!Off(p, s).active => recipe[s].active /\ s \notin act[p].off
  BY <1>1 DEF Recipes!Off, Recipes!Row
<1>6. /\ recipe'[r] \in Recipes!Row
      /\ recipe'[r].state = recipe[r].state /\ recipe'[r].lists = recipe[r].lists
      /\ \A s \in RecipeIds \ {r} : recipe'[s] = Recipes!Off(p, s)
      /\ recipe' = [s \in RecipeIds |-> recipe'[s]]
  BY <1>1, <1>3, <1>4 DEF Recipes!Row
<1>7. recipe' \in [RecipeIds -> Recipes!Row]
  BY <1>5, <1>6
<1>8. \A s \in RecipeIds : recipe'[s].state = recipe[s].state /\ recipe'[s].lists = recipe[s].lists
  BY <1>5, <1>6
<1>9. /\ \A s \in RecipeIds : recipe'[s].state # "none" => recipe'[s].lists # {}
      /\ calm => OneList(recipe')
  BY <1>8 DEF BookInv, OneList
<1>10. ASSUME ~loose
       PROVE  Recipes!OneActive'
  <2>1. \A s \in RecipeIds \ {r} : recipe'[s].state = "live" => ~recipe'[s].active
    BY <1>2, <1>3, <1>5, <1>6, <1>8, <1>10 DEF BookInv, Covers, Choosing
  <2>2. QED
    BY <2>1 DEF Recipes!OneActive, Recipes!Live
<1>11. ASSUME ~loose, NEW q \in Requests \ {p}
       PROVE  Covers(act[q], recipe')
  <2>1. ~Clash(act[p], act[q]) /\ Covers(act[q], recipe)
    BY <1>11 DEF BookInv
  <2>2. ~MakingActive(act[q])
    BY <1>3, <2>1 DEF Clash, Choosing, MakingActive
  <2>3. QED
    BY <1>8, <2>1, <2>2 DEF Covers
<1>12. QED
  BY <1>3, <1>7, <1>8, <1>9, <1>10, <1>11, EndBooks DEF Recipes!Active, BookInv, Recipes!TypeOK

(* A step that changes one recipe that exists, without making it active.   *)
LEMMA EditBooks ==
    ASSUME Recipes!RecipeAssumption, BookInv, NEW p \in Requests, NEW r \in RecipeIds,
           NEW fresh \in Recipes!Row,
           recipe' = [recipe EXCEPT ![r] = fresh], recipe[r].state # "none",
           fresh.state # "none", fresh.state = "live" => recipe[r].state = "live",
           fresh.lists # {}, calm => \E w : fresh.lists = {w},
           ~loose' => (fresh.active => recipe[r].active),
           Recipes!Active(p), Recipes!Finish(p), UNCHANGED calm,
           loose' \in BOOLEAN, ~loose' => ~loose
    PROVE  BookInv'
<1>1. recipe \in [RecipeIds -> Recipes!Row]
  BY DEF BookInv, Recipes!TypeOK
<1>2. /\ recipe' \in [RecipeIds -> Recipes!Row]
      /\ \A s \in RecipeIds : recipe'[s] = IF s = r THEN fresh ELSE recipe[s]
  BY <1>1
<1>3. /\ \A s \in RecipeIds : recipe[s].state # "none" => recipe'[s].state # "none"
      /\ \A s \in RecipeIds : recipe'[s].state # "none" => recipe'[s].lists # {}
  BY <1>2 DEF BookInv
<1>4. calm => OneList(recipe')
  BY <1>2 DEF BookInv, OneList
<1>5. ASSUME ~loose'
      PROVE  \A s \in RecipeIds :
                 /\ recipe'[s].state # "none" => recipe[s].state # "none"
                 /\ recipe'[s].state = "live" => recipe[s].state = "live"
                 /\ recipe'[s].active => recipe[s].active
  BY <1>2, <1>5
<1>6. ASSUME ~loose'
      PROVE  Recipes!OneActive'
  BY <1>5, <1>6 DEF BookInv, Recipes!OneActive, Recipes!Live
<1>7. ASSUME ~loose', NEW q \in Requests \ {p}
      PROVE  Covers(act[q], recipe')
  <2>1. Covers(act[q], recipe)
    BY <1>7 DEF BookInv
  <2>2. QED
    BY <1>5, <1>7, <2>1 DEF Covers
<1>8. QED
  BY <1>2, <1>3, <1>4, <1>6, <1>7, EndBooks

LEMMA CommitUpdateBooks ==
    ASSUME Recipes!RecipeAssumption, BookInv, NEW p \in Requests, Recipes!CommitUpdate(p)
    PROVE  BookInv'
<1>1. /\ act \in [Requests -> Recipes!Request] /\ act[p] \in Recipes!Request
      /\ recipe \in [RecipeIds -> Recipes!Row] /\ act[p].pc = "edit"
  BY DEF BookInv, Recipes!TypeOK, Recipes!CommitUpdate
<1>2. PICK r : r = act[p].recipe
  OBVIOUS
<1>3. r \in RecipeIds /\ recipe[r] \in Recipes!Row /\ recipe[r].state # "none"
  BY <1>1, <1>2 DEF Recipes!Request, BookInv, Known1
<1>4. PICK status : status = IF act[p].archived THEN "deleted" ELSE recipe[r].state
  OBVIOUS
<1>5. PICK yes : yes = IF act[p].active = "keep" THEN recipe[r].active ELSE act[p].active = "yes"
  BY Zenon
<1>6. PICK fresh : fresh = [state |-> status, active |-> yes, lists |-> Recipes!NewLists(p)]
  OBVIOUS
<1>7. /\ recipe' = [recipe EXCEPT ![r] = fresh] /\ Recipes!Finish(p) /\ UNCHANGED calm
      /\ loose' = (loose \/ act[p].active = "yes")
  BY <1>2, <1>4, <1>5, <1>6, Zenon DEF Recipes!CommitUpdate
<1>8. loose' \in BOOLEAN /\ (~loose' => ~loose /\ act[p].active # "yes")
  BY <1>7, Zenon
<1>9. status \in {"live", "deleted"} /\ (status = "live" => recipe[r].state = "live")
  BY <1>3, <1>4 DEF Recipes!Row
<1>10. recipe[r].active \in BOOLEAN
  BY <1>3 DEF Recipes!Row
<1>11. /\ yes \in BOOLEAN
       /\ act[p].active # "yes" /\ yes => recipe[r].active
  <2>1. CASE act[p].active = "keep"
    BY <1>5, <1>10, <2>1, Zenon
  <2>2. CASE act[p].active # "keep"
    BY <1>5, <2>2, Zenon
  <2>3. QED
    BY <2>1, <2>2
<1>12. /\ Recipes!NewLists(p) \in SUBSET (Requests \cup {Recipes!Original})
       /\ Recipes!NewLists(p) # {}
  BY <1>2, <1>3 DEF Recipes!NewLists, Recipes!Row, BookInv
<1>13. ASSUME calm
       PROVE  \E w : Recipes!NewLists(p) = {w}
  <2>1. SawAll(act[p], recipe) /\ OneList(recipe)
    BY <1>13 DEF BookInv
  <2>2. act[p].relist => act[p].lists = recipe[r].lists
    BY <1>1, <1>2, <2>1 DEF SawAll
  <2>3. CASE act[p].relist
    <3>1. Recipes!NewLists(p) = (recipe[r].lists \ act[p].lists) \cup {p}
      BY <1>2, <2>3 DEF Recipes!NewLists
    <3>2. Recipes!NewLists(p) = {p}
      BY <2>2, <2>3, <3>1
    <3>3. QED
      BY <3>2
  <2>4. CASE ~act[p].relist
    BY <1>2, <1>3, <2>1, <2>4 DEF Recipes!NewLists, OneList
  <2>5. QED
    BY <2>3, <2>4
<1>14. /\ fresh \in Recipes!Row /\ fresh.state = status /\ (fresh.active <=> yes)
       /\ fresh.lists = Recipes!NewLists(p)
  BY <1>6, <1>9, <1>11, <1>12 DEF Recipes!Row
<1>15. Recipes!Active(p)
  BY <1>1 DEF Recipes!Active
<1>16. QED
  BY <1>3, <1>7, <1>8, <1>9, <1>11, <1>12, <1>13, <1>14, <1>15, EditBooks

LEMMA ArchiveBooks ==
    ASSUME Recipes!RecipeAssumption, BookInv, NEW p \in Requests, Recipes!Archive(p)
    PROVE  BookInv'
<1>1. /\ act \in [Requests -> Recipes!Request] /\ act[p] \in Recipes!Request
      /\ recipe \in [RecipeIds -> Recipes!Row] /\ act[p].pc = "archive"
  BY DEF BookInv, Recipes!TypeOK, Recipes!Archive
<1>2. PICK r : r = act[p].recipe
  OBVIOUS
<1>3. r \in RecipeIds /\ recipe[r] \in Recipes!Row /\ recipe[r].state # "none"
  BY <1>1, <1>2 DEF Recipes!Request, BookInv, Known1
<1>4. PICK fresh : fresh = [recipe[r] EXCEPT !.state = "deleted", !.active = FALSE]
  OBVIOUS
<1>5. /\ fresh \in Recipes!Row /\ fresh.state = "deleted" /\ ~fresh.active
      /\ fresh.lists = recipe[r].lists
  BY <1>3, <1>4 DEF Recipes!Row
<1>6. recipe' = [recipe EXCEPT ![r] = fresh] /\ Recipes!Finish(p) /\ UNCHANGED <<calm, loose>>
  BY <1>1, <1>2, <1>3, <1>4 DEF Recipes!Archive
<1>7. Recipes!Active(p)
  BY <1>1 DEF Recipes!Active
<1>8. fresh.lists # {} /\ (calm => \E w : fresh.lists = {w})
  BY <1>3, <1>5 DEF BookInv, OneList
<1>9. loose' \in BOOLEAN
  BY <1>6 DEF BookInv, Recipes!TypeOK
<1>10. QED
  BY <1>3, <1>5, <1>6, <1>7, <1>8, <1>9, EditBooks

LEMMA FailBooks ==
    ASSUME Recipes!RecipeAssumption, BookInv, NEW p \in Requests, Recipes!Fail(p)
    PROVE  BookInv'
<1>1. Recipes!Finish(p) /\ Recipes!Active(p) /\ UNCHANGED <<recipe, calm, loose>>
  BY DEF Recipes!Fail
<1>2. Recipes!TypeOK
  BY DEF BookInv
<1>3. /\ recipe' \in [RecipeIds -> Recipes!Row] /\ loose' \in BOOLEAN
      /\ ~loose => Recipes!OneActive'
  BY <1>1, <1>2 DEF BookInv, Recipes!TypeOK, Recipes!OneActive, Recipes!Live
<1>4. ~loose => \A q \in Requests : Covers(act[q], recipe')
  BY <1>1, Zenon DEF BookInv
<1>5. QED
  BY <1>1, <1>3, <1>4, EndBooks DEF BookInv

LEMMA StepBooks ==
    Recipes!RecipeAssumption /\ BookInv /\ [Recipes!Next]_Recipes!vars => BookInv'
<1> SUFFICES ASSUME Recipes!RecipeAssumption, BookInv, [Recipes!Next]_Recipes!vars PROVE BookInv'
  OBVIOUS
<1>1. CASE UNCHANGED Recipes!vars
  BY <1>1 DEF Recipes!vars, BookInv, Recipes!TypeOK, Known1, SawAll, OneList, Clash, Covers,
              Making, MakingActive, Choosing, Under, Recipes!OneActive, Recipes!Live
<1>2. CASE Recipes!Next
  <2>1. PICK p \in Requests : Recipes!Arrivals(p) \/ Recipes!Step(p) \/ Recipes!Fail(p)
    BY <1>2 DEF Recipes!Next
  <2>2. CASE Recipes!Arrivals(p)
    BY <2>2, CreateBooks, ActivateBooks, UpdateBooks, RemoveBooks DEF Recipes!Arrivals
  <2>3. CASE Recipes!Step(p)
    BY <2>3, FindOthersBooks, DemoteBooks, CommitCreateBooks, CommitActivateBooks,
       FindListsBooks, UnlistBooks, CommitUpdateBooks, ArchiveBooks DEF Recipes!Step
  <2>4. CASE Recipes!Fail(p)
    BY <2>4, FailBooks
  <2>5. QED
    BY <2>1, <2>2, <2>3, <2>4
<1>3. QED
  BY <1>1, <1>2

LEMMA InvBooks == BookInv => Recipes!TypeOK /\ Recipes!OneActive /\ Recipes!ListedOnce
<1> SUFFICES ASSUME BookInv PROVE Recipes!TypeOK /\ Recipes!OneActive /\ Recipes!ListedOnce
  OBVIOUS
<1>1. \A w : Recipes!Cardinality({w}) = 1
  BY FS_Singleton DEF Cardinality, Recipes!Cardinality, IsFiniteSet, Recipes!IsFiniteSet
<1>2. Recipes!TypeOK /\ (~loose => Recipes!OneActive)
  BY DEF BookInv
<1>3. Recipes!OneActive
  BY <1>2, Zenon DEF Recipes!OneActive
<1>4. ASSUME NEW s \in RecipeIds, recipe[s].state # "none"
      PROVE  recipe[s].lists # {} /\ (calm => Recipes!Cardinality(recipe[s].lists) = 1)
  BY <1>1, <1>4 DEF BookInv, OneList
<1>5. QED
  BY <1>2, <1>3, <1>4 DEF Recipes!ListedOnce

-----------------------------------------------------------------------------
(* MONEY.  As long as no change of the market overlaps another request,    *)
(* every local price stored is in the currency of the location, whatever   *)
(* its label says, and so is every row that counts as activity.            *)
Shaped(m) ==
    /\ m.pc = "idle" => m = Money!Quiet
    /\ m.pc \in {"resolve", "write"} => m.currency # None
    /\ m.pc \in {"count", "clear"} => m.market \in Markets
    /\ m.pc # "move" => m.cleared = {}
    /\ m.cleared # {} => m.market \in Markets

Change(m, at) == m.op = "update" /\ m.market \notin {None, at.market}

(* What a request has read is still so: the location, the settings and     *)
(* the currencies recorded.                                                *)
Meant(m, at, settings, sums) ==
    /\ m.pc \in {"resolve", "write"} =>
                         /\ m.currency = CurrencyOf[at.market]
                         /\ m.amount \in {None, CurrencyOf[at.market]}
    /\ m.pc \in {"count", "clear", "move"} =>
           /\ m.op = "update"
           /\ m.zone \in IF m.market = None THEN {None, at.market} ELSE {m.market}
    /\ m.pc \in {"count", "clear"} => Change(m, at)
    /\ m.pc = "clear" => sums = {}
    /\ m.pc = "move" => \/ m.market \in {None, at.market} /\ m.cleared = {}
                        \/ /\ Change(m, at) /\ sums = {}
                           /\ \A k \in Money!Kinds : settings[k].exists => k \in m.cleared

Sound(at, settings, sums) ==
    /\ \A k \in Money!Kinds : /\ settings[k].amount \in {None, CurrencyOf[at.market]}
                              /\ ~settings[k].exists => settings[k].amount = None
    /\ sums \subseteq {CurrencyOf[at.market]}
    /\ at.zone = at.market

Overlap(m, n, at) == m.pc # "idle" /\ n.pc # "idle" /\ (Change(m, at) \/ Change(n, at))

Takings == [Days -> Money!Currencies \cup {None}]

MoneyInv ==
    /\ Money!TypeOK
    /\ \A p \in Slots : Shaped(ask[p])
    /\ ~crossed => /\ \A p, q \in Slots : p # q => ~Overlap(ask[p], ask[q], loc)
                   /\ \A p \in Slots : Meant(ask[p], loc, price, recorded)
                   /\ Sound(loc, price, recorded)

LEMMA QuietAsk ==
    /\ Money!Quiet \in Money!Request /\ Money!Quiet.pc = "idle" /\ Money!Quiet.op = "none"
    /\ Money!Quiet.cleared = {} /\ Money!Quiet.amount = None /\ Shaped(Money!Quiet)
BY DEF Money!Quiet, Money!Request, Money!Kinds, Shaped

LEMMA InitMoney == Money!MoneyAssumption /\ Money!Init => MoneyInv
<1> SUFFICES ASSUME Money!MoneyAssumption, Money!Init PROVE MoneyInv
  OBVIOUS
<1>1. PICK m \in Markets : loc = [market |-> m, zone |-> m, active |-> TRUE]
  BY DEF Money!Init
<1>2. \A p \in Slots : ask[p] = Money!Quiet
  BY DEF Money!Init
<1>3. /\ Money!NoSetting \in Money!Setting /\ Money!NoSetting.amount = None
      /\ ~Money!NoSetting.exists
  BY DEF Money!NoSetting, Money!Setting
<1>4. Money!TypeOK
  <2>1. loc \in Money!Location
    BY <1>1 DEF Money!Location
  <2>5. calls = 0 /\ crossed = FALSE /\ 0 \in 0..MoneyCalls
    BY DEF Money!Init, Money!MoneyAssumption
  <2>2. price \in [Money!Kinds -> Money!Setting]
    BY <1>3 DEF Money!Init
  <2>3. /\ ask \in [Slots -> Money!Request] /\ recorded \subseteq Money!Currencies
        /\ sales \in [Days -> Money!Currencies \cup {None}]
    BY QuietAsk DEF Money!Init
  <2>4. QED
    BY <2>1, <2>2, <2>3, <2>5 DEF Money!TypeOK, Takings
<1>5. Sound(loc, price, recorded)
  BY <1>1, <1>3 DEF Money!Init, Sound
<1>6. QED
  BY <1>2, <1>4, <1>5, QuietAsk DEF MoneyInv, Overlap, Meant, Change

(* A step that writes nothing but its own request. *)
LEMMA AskHolds ==
    ASSUME MoneyInv, NEW p \in Slots, NEW new \in Money!Request,
           ask' = [ask EXCEPT ![p] = new], UNCHANGED <<loc, price, recorded, sales>>,
           calls' \in 0..MoneyCalls, crossed' \in BOOLEAN, ~crossed' => ~crossed,
           Shaped(new),
           ~crossed' => /\ \A q \in Slots \ {p} : ~Overlap(new, ask[q], loc) /\ ~Overlap(ask[q], new, loc)
                        /\ Meant(new, loc, price, recorded)
    PROVE  MoneyInv'
<1>1. ask \in [Slots -> Money!Request] /\ Money!TypeOK
  BY DEF MoneyInv, Money!TypeOK, Takings
<1>2. \A q \in Slots : ask'[q] = IF q = p THEN new ELSE ask[q]
  BY <1>1
<1>3. Money!TypeOK'
  BY <1>1 DEF Money!TypeOK, Takings
<1>4. \A q \in Slots : Shaped(ask'[q])
  BY <1>2 DEF MoneyInv
<1>5. ASSUME ~crossed'
      PROVE  /\ \A q1, q2 \in Slots : q1 # q2 => ~Overlap(ask'[q1], ask'[q2], loc')
             /\ \A q \in Slots : Meant(ask'[q], loc', price', recorded')
             /\ Sound(loc', price', recorded')
  <2>1. /\ \A q1, q2 \in Slots : q1 # q2 => ~Overlap(ask[q1], ask[q2], loc)
        /\ \A q \in Slots : Meant(ask[q], loc, price, recorded)
        /\ Sound(loc, price, recorded)
    BY <1>5 DEF MoneyInv
  <2>2. \A q1, q2 \in Slots : q1 # q2 => ~Overlap(ask'[q1], ask'[q2], loc')
    <3>1. SUFFICES ASSUME NEW q1 \in Slots, NEW q2 \in Slots, q1 # q2
                   PROVE  ~Overlap(ask'[q1], ask'[q2], loc')
      OBVIOUS
    <3>2. CASE q1 = p
      BY <1>2, <1>5, <3>1, <3>2
    <3>3. CASE q2 = p
      BY <1>2, <1>5, <3>1, <3>3
    <3>4. CASE q1 # p /\ q2 # p
      BY <1>2, <2>1, <3>1, <3>4
    <3>5. QED
      BY <3>2, <3>3, <3>4
  <2>3. QED
    BY <1>2, <1>5, <2>1, <2>2
<1>6. QED
  BY <1>3, <1>4, <1>5 DEF MoneyInv, Shaped, Meant, Sound, Overlap, Change

(* The end of a request that leaves everything sound for those still busy. *)
LEMMA DoneHolds ==
    ASSUME MoneyInv, NEW p \in Slots, ask' = [ask EXCEPT ![p] = Money!Quiet],
           loc' \in Money!Location, price' \in [Money!Kinds -> Money!Setting],
           recorded' \subseteq Money!Currencies /\ sales' \in Takings,
           calls' \in 0..MoneyCalls, crossed' \in BOOLEAN, ~crossed' => ~crossed,
           ~crossed' => /\ \A q \in Slots \ {p} : /\ Meant(ask[q], loc', price', recorded')
                                                 /\ (ask[q].pc = "idle" \/ loc'.market = loc.market)
                        /\ Sound(loc', price', recorded')
    PROVE  MoneyInv'
<1>1. ask \in [Slots -> Money!Request] /\ Money!TypeOK
  BY DEF MoneyInv, Money!TypeOK, Takings
<1>2. \A q \in Slots : ask'[q] = IF q = p THEN Money!Quiet ELSE ask[q]
  BY <1>1
<1>3. Money!TypeOK'
  BY <1>1, QuietAsk DEF Money!TypeOK, Takings
<1>4. \A q \in Slots : Shaped(ask'[q])
  BY <1>2, QuietAsk DEF MoneyInv
<1>5. ASSUME ~crossed'
      PROVE  /\ \A q1, q2 \in Slots : q1 # q2 => ~Overlap(ask'[q1], ask'[q2], loc')
             /\ \A q \in Slots : Meant(ask'[q], loc', price', recorded')
             /\ Sound(loc', price', recorded')
  <2>1. \A q1, q2 \in Slots : q1 # q2 => ~Overlap(ask[q1], ask[q2], loc)
    BY <1>5 DEF MoneyInv
  <2>2. \A q1, q2 \in Slots : q1 # q2 => ~Overlap(ask'[q1], ask'[q2], loc')
    BY <1>2, <1>5, <2>1, QuietAsk DEF Overlap, Change
  <2>3. Meant(Money!Quiet, loc', price', recorded')
    BY QuietAsk DEF Meant, Change
  <2>4. QED
    BY <1>2, <1>5, <2>2, <2>3
<1>6. QED
  BY <1>3, <1>4, <1>5 DEF MoneyInv, Shaped, Meant, Sound, Overlap, Change

LEMMA ReceiveMoney ==
    ASSUME Money!MoneyAssumption, MoneyInv, NEW p \in Slots, NEW change \in BOOLEAN,
           Money!Receive(p, change)
    PROVE  /\ ask \in [Slots -> Money!Request] /\ ask[p] = Money!Quiet
           /\ calls' \in 0..MoneyCalls /\ crossed' \in BOOLEAN /\ (~crossed' => ~crossed)
           /\ ~crossed' => \A q \in Slots : ask[q].pc # "idle" => ~change /\ ~Change(ask[q], loc)
<1>1. ask \in [Slots -> Money!Request] /\ ask[p] = Money!Quiet
  BY DEF MoneyInv, Money!TypeOK, Money!Receive, Shaped
<1>2. calls' \in 0..MoneyCalls
  BY DEF MoneyInv, Money!TypeOK, Money!Receive, Money!MoneyAssumption
<1>3. crossed' \in BOOLEAN /\ (~crossed' => ~crossed)
  BY Zenon DEF Money!Receive
<1>4. ~crossed' => \A q \in Slots : Money!Busy(q) => ~change /\ ~Money!Changes(q)
  BY Zenon DEF Money!Receive
<1>5. QED
  BY <1>1, <1>2, <1>3, <1>4 DEF Money!Busy, Money!Changes, Change

LEMMA CurrencyTyped ==
    ASSUME Money!MoneyAssumption, MoneyInv
    PROVE  /\ Money!Currency \in Money!Currencies /\ Money!Currency = CurrencyOf[loc.market]
           /\ loc.market \in Markets /\ loc.zone \in Markets /\ Money!Currency # None
BY DEF MoneyInv, Money!TypeOK, Money!Location, Money!Currency, Money!Currencies,
       Money!MoneyAssumption

LEMMA SetPriceMoney ==
    ASSUME Money!MoneyAssumption, MoneyInv, NEW p \in Slots, NEW k \in Money!Kinds,
           NEW given \in BOOLEAN, Money!SetPrice(p, k, given)
    PROVE  MoneyInv'
<1>1. /\ ask \in [Slots -> Money!Request] /\ ask[p] = Money!Quiet
      /\ calls' \in 0..MoneyCalls /\ crossed' \in BOOLEAN /\ (~crossed' => ~crossed)
      /\ ~crossed' => \A q \in Slots : ask[q].pc # "idle" => ~Change(ask[q], loc)
  BY ReceiveMoney DEF Money!SetPrice
<1>2. PICK sum : sum = IF given THEN Money!Currency ELSE None
  OBVIOUS
<1>3. PICK new : new = [ask[p] EXCEPT !.op = "price", !.kind = k, !.currency = Money!Currency,
                                      !.amount = sum, !.pc = "write"]
  OBVIOUS
<1>4. sum \in Money!Currencies \cup {None} /\ Money!Currency \in Money!Currencies
  BY <1>2, CurrencyTyped
<1>5. ask[p] \in Money!Request /\ ask[p].cleared = {}
  BY <1>1, QuietAsk
<1>6. /\ new \in Money!Request /\ new.pc = "write" /\ new.op = "price"
      /\ new.currency = Money!Currency /\ new.amount = sum /\ new.cleared = {}
  BY <1>3, <1>4, <1>5 DEF Money!Request
<1>7. ask' = [ask EXCEPT ![p] = new] /\ UNCHANGED <<loc, price, recorded, sales>>
  BY <1>2, <1>3, Zenon DEF Money!SetPrice
<1>8. Shaped(new) /\ Meant(new, loc, price, recorded)
  BY <1>2, <1>6, CurrencyTyped DEF Shaped, Meant, Change
<1>9. ASSUME ~crossed', NEW q \in Slots
      PROVE  ~Overlap(new, ask[q], loc) /\ ~Overlap(ask[q], new, loc)
  BY <1>1, <1>6, <1>9 DEF Overlap, Change
<1>10. QED
  BY <1>1, <1>6, <1>7, <1>8, <1>9, AskHolds

LEMMA ReadCurrencyMoney ==
    ASSUME Money!MoneyAssumption, MoneyInv, NEW p \in Slots, Money!ReadCurrency(p)
    PROVE  MoneyInv'
<1>1. /\ ask \in [Slots -> Money!Request] /\ ask[p] = Money!Quiet
      /\ calls' \in 0..MoneyCalls /\ crossed' \in BOOLEAN /\ (~crossed' => ~crossed)
      /\ ~crossed' => \A q \in Slots : ask[q].pc # "idle" => ~Change(ask[q], loc)
  BY ReceiveMoney DEF Money!ReadCurrency
<1>3. PICK new : new = [ask[p] EXCEPT !.op = "record", !.currency = Money!Currency, !.pc = "write"]
  OBVIOUS
<1>4. /\ new \in Money!Request /\ new.pc = "write" /\ new.op = "record"
      /\ new.currency = Money!Currency /\ new.amount = None /\ new.cleared = {}
  BY <1>1, <1>3, QuietAsk, CurrencyTyped DEF Money!Request
<1>5. ask' = [ask EXCEPT ![p] = new] /\ UNCHANGED <<loc, price, recorded, sales>>
  BY <1>3, Zenon DEF Money!ReadCurrency
<1>6. Shaped(new) /\ Meant(new, loc, price, recorded)
  BY <1>4, CurrencyTyped DEF Shaped, Meant, Change
<1>7. ASSUME ~crossed', NEW q \in Slots
      PROVE  ~Overlap(new, ask[q], loc) /\ ~Overlap(ask[q], new, loc)
  BY <1>1, <1>4, <1>7 DEF Overlap, Change
<1>8. QED
  BY <1>1, <1>4, <1>5, <1>6, <1>7, AskHolds

LEMMA MarketFound ==
    ASSUME NEW code \in Markets \cup {None, Unknown}, NEW name \in Markets \cup {None, Unknown},
           Money!RequireMarket(code, name) # Unknown
    PROVE  Money!RequireMarket(code, name) \in Markets \cup {None}
BY DEF Money!RequireMarket

LEMMA ZoneFound ==
    ASSUME NEW zone \in Markets \cup {None}, NEW market \in Markets \cup {None},
           NEW current \in Markets, Money!ZoneFor(zone, market, current) # Unknown
    PROVE  /\ Money!ZoneFor(zone, market, current) \in Markets \cup {None}
           /\ Money!ZoneFor(zone, market, current)
                \in IF market = None THEN {None, current} ELSE {market}
BY DEF Money!ZoneFor

LEMMA UpdateMoney ==
    ASSUME Money!MoneyAssumption, MoneyInv, NEW p \in Slots, Money!Update(p)
    PROVE  MoneyInv'
<1>2. PICK code \in Markets \cup {None, Unknown}, name \in Markets \cup {None, Unknown},
           wanted \in Markets \cup {None}, open \in BOOLEAN :
         LET market == Money!RequireMarket(code, name)
             to     == Money!ZoneFor(wanted, market, loc.market)
             change == market \notin {None, loc.market}
         IN  /\ market # Unknown /\ to # Unknown
             /\ Money!Receive(p, change)
             /\ ask' = [ask EXCEPT ![p] = [@ EXCEPT
                    !.op = "update", !.market = market, !.zone = to, !.active = open,
                    !.pc = IF change THEN "count" ELSE "move"]]
  BY DEF Money!Update
<1>3. PICK m : m = Money!RequireMarket(code, name)
  OBVIOUS
<1>4. PICK z : z = Money!ZoneFor(wanted, m, loc.market)
  OBVIOUS
<1>17. PICK change : change = (m \notin {None, loc.market})
  OBVIOUS
<1>5. PICK next : next = IF change THEN "count" ELSE "move"
  OBVIOUS
<1>6. /\ m # Unknown /\ z # Unknown /\ Money!Receive(p, change)
      /\ ask' = [ask EXCEPT ![p] = [@ EXCEPT !.op = "update", !.market = m, !.zone = z,
                                             !.active = open, !.pc = next]]
  BY <1>2, <1>3, <1>4, <1>5, <1>17, Zenon
<1>1. /\ ask \in [Slots -> Money!Request] /\ ask[p] = Money!Quiet
      /\ calls' \in 0..MoneyCalls /\ crossed' \in BOOLEAN /\ (~crossed' => ~crossed)
      /\ ~crossed' => \A q \in Slots : ask[q].pc # "idle" => ~change /\ ~Change(ask[q], loc)
  BY <1>6, <1>17, ReceiveMoney
<1>7. m \in Markets \cup {None} /\ next \in {"count", "move"}
  BY <1>3, <1>5, <1>6, MarketFound
<1>8. z \in IF m = None THEN {None, loc.market} ELSE {m}
  BY <1>4, <1>6, <1>7, ZoneFound, CurrencyTyped
<1>9. z \in Markets \cup {None}
  BY <1>4, <1>6, <1>7, ZoneFound, CurrencyTyped
<1>10. PICK new : new = [ask[p] EXCEPT !.op = "update", !.market = m, !.zone = z,
                                      !.active = open, !.pc = next]
  OBVIOUS
<1>11. ask[p] \in Money!Request /\ ask[p].cleared = {}
  BY <1>1, QuietAsk
<1>12. /\ new \in Money!Request /\ new.pc = next /\ new.op = "update"
       /\ new.market = m /\ new.zone = z /\ new.cleared = {}
  BY <1>7, <1>10, <1>9, <1>11 DEF Money!Request
<1>13. ask' = [ask EXCEPT ![p] = new] /\ UNCHANGED <<loc, price, recorded, sales>>
  BY <1>1, <1>6, <1>10 DEF Money!Update
<1>14. Shaped(new) /\ Meant(new, loc, price, recorded) /\ (Change(new, loc) => change)
  BY <1>5, <1>7, <1>8, <1>12, <1>17 DEF Shaped, Meant, Change
<1>15. ASSUME ~crossed', NEW q \in Slots
       PROVE  ~Overlap(new, ask[q], loc) /\ ~Overlap(ask[q], new, loc)
  BY <1>1, <1>14, <1>15 DEF Overlap
<1>16. QED
  BY <1>1, <1>12, <1>13, <1>14, <1>15, AskHolds

LEMMA DeletePriceMoney ==
    ASSUME Money!MoneyAssumption, MoneyInv, NEW p \in Slots, NEW k \in Money!Kinds,
           Money!DeletePrice(p, k)
    PROVE  MoneyInv'
<1>1. /\ ask \in [Slots -> Money!Request] /\ ask[p] = Money!Quiet
      /\ calls' \in 0..MoneyCalls /\ crossed' \in BOOLEAN /\ (~crossed' => ~crossed)
      /\ ~crossed' => \A q \in Slots : ask[q].pc # "idle" => ~Change(ask[q], loc)
  BY ReceiveMoney DEF Money!DeletePrice
<1>2. /\ price' = [price EXCEPT ![k] = Money!NoSetting] /\ UNCHANGED <<loc, recorded, sales>>
      /\ ask' = [ask EXCEPT ![p] = Money!Quiet]
  BY DEF Money!DeletePrice, Money!Done
<1>3. /\ Money!NoSetting \in Money!Setting /\ Money!NoSetting.amount = None
      /\ ~Money!NoSetting.exists
  BY DEF Money!NoSetting, Money!Setting
<1>4. Money!TypeOK
  BY DEF MoneyInv
<1>5. /\ price' \in [Money!Kinds -> Money!Setting] /\ loc' \in Money!Location
      /\ recorded' \subseteq Money!Currencies /\ sales' \in Takings
      /\ \A c \in Money!Kinds : price'[c] = IF c = k THEN Money!NoSetting ELSE price[c]
  BY <1>2, <1>3, <1>4 DEF Money!TypeOK, Takings
<1>6. ASSUME ~crossed'
      PROVE  /\ \A q \in Slots : Meant(ask[q], loc', price', recorded')
             /\ Sound(loc', price', recorded')
  <2>1. /\ \A q \in Slots : Meant(ask[q], loc, price, recorded)
        /\ Sound(loc, price, recorded)
    BY <1>1, <1>6 DEF MoneyInv
  <2>2. Sound(loc', price', recorded')
    BY <1>2, <1>3, <1>5, <2>1 DEF Sound
  <2>3. ASSUME NEW q \in Slots PROVE Meant(ask[q], loc, price', recorded)
    <3>1. Meant(ask[q], loc, price, recorded)
      BY <2>1
    <3>2. ask[q].pc # "idle" => ~Change(ask[q], loc)
      BY <1>1, <1>6
    <3>3. QED
      BY <3>1, <3>2 DEF Meant
  <2>4. QED
    BY <1>2, <2>2, <2>3
<1>7. QED
  BY <1>1, <1>2, <1>5, <1>6, DoneHolds

(* Those busy beside a request that changes no market change none either.  *)
LEMMA BesideOther ==
    ASSUME MoneyInv, ~crossed, NEW p \in Slots, ask[p].pc = "write", NEW q \in Slots
    PROVE  \A settings, sums : Meant(ask[q], loc, settings, sums)
<1>1. Meant(ask[q], loc, price, recorded)
  BY DEF MoneyInv
<1>2. CASE q = p
  BY <1>1, <1>2 DEF Meant
<1>3. CASE q # p
  <2>1. ask[q].pc = "idle" \/ ~Change(ask[q], loc)
    BY <1>3 DEF MoneyInv, Overlap
  <2>2. QED
    BY <1>1, <2>1 DEF Meant
<1>4. QED
  BY <1>2, <1>3

LEMMA WritePriceMoney ==
    ASSUME Money!MoneyAssumption, MoneyInv, NEW p \in Slots, Money!WritePrice(p)
    PROVE  MoneyInv'
<1>1. ask[p] \in Money!Request /\ Money!TypeOK
  BY DEF MoneyInv, Money!TypeOK, Takings
<1>2. PICK k : k = ask[p].kind
  OBVIOUS
<1>3. k \in Money!Kinds /\ price[k] \in Money!Setting
  BY <1>1, <1>2 DEF Money!Request, Money!TypeOK
<1>4. PICK sum : sum = IF ask[p].amount = None THEN price[k].amount ELSE ask[p].amount
  OBVIOUS
<1>5. PICK fresh : fresh = [exists |-> TRUE, label |-> ask[p].currency, amount |-> sum]
  OBVIOUS
<1>6. fresh \in Money!Setting /\ fresh.amount = sum /\ fresh.exists
  BY <1>1, <1>3, <1>4, <1>5 DEF Money!Setting, Money!Request
<1>7. /\ ask[p].pc = "write" /\ price' = [price EXCEPT ![k] = fresh]
      /\ UNCHANGED <<loc, recorded, sales, crossed, calls>>
      /\ ask' = [ask EXCEPT ![p] = Money!Quiet]
  BY <1>2, <1>4, <1>5, Zenon DEF Money!WritePrice, Money!Done
<1>8. /\ price' \in [Money!Kinds -> Money!Setting] /\ loc' \in Money!Location
      /\ recorded' \subseteq Money!Currencies /\ sales' \in Takings /\ calls' \in 0..MoneyCalls /\ crossed' \in BOOLEAN
      /\ \A c \in Money!Kinds : price'[c] = IF c = k THEN fresh ELSE price[c]
  BY <1>1, <1>6, <1>7 DEF Money!TypeOK, Takings
<1>9. ASSUME ~crossed'
      PROVE  /\ \A q \in Slots : Meant(ask[q], loc', price', recorded')
             /\ Sound(loc', price', recorded')
  <2>1. Meant(ask[p], loc, price, recorded) /\ Sound(loc, price, recorded)
    BY <1>7, <1>9 DEF MoneyInv
  <2>2. sum \in {None, CurrencyOf[loc.market]}
    BY <1>3, <1>4, <1>7, <2>1 DEF Meant, Sound
  <2>3. Sound(loc', price', recorded')
    BY <1>6, <1>7, <1>8, <2>1, <2>2 DEF Sound
  <2>4. QED
    BY <1>7, <1>9, <2>3, BesideOther
<1>10. QED
  BY <1>7, <1>8, <1>9, DoneHolds

LEMMA RecordMoney ==
    ASSUME Money!MoneyAssumption, MoneyInv, NEW p \in Slots, Money!Record(p)
    PROVE  MoneyInv'
<1>1. ask[p] \in Money!Request /\ Money!TypeOK
  BY DEF MoneyInv, Money!TypeOK, Takings
<1>2. /\ ask[p].pc = "write" /\ recorded' = recorded \cup {ask[p].currency}
      /\ UNCHANGED <<loc, price, sales, crossed, calls>> /\ ask' = [ask EXCEPT ![p] = Money!Quiet]
  BY DEF Money!Record, Money!Done
<1>3. ask[p].currency \in Money!Currencies
  BY <1>1, <1>2 DEF Money!Request, MoneyInv, Shaped
<1>4. /\ price' \in [Money!Kinds -> Money!Setting] /\ loc' \in Money!Location
      /\ recorded' \subseteq Money!Currencies /\ sales' \in Takings /\ calls' \in 0..MoneyCalls /\ crossed' \in BOOLEAN
  BY <1>1, <1>2, <1>3 DEF Money!TypeOK, Takings
<1>5. ASSUME ~crossed'
      PROVE  /\ \A q \in Slots : Meant(ask[q], loc', price', recorded')
             /\ Sound(loc', price', recorded')
  <2>1. Meant(ask[p], loc, price, recorded) /\ Sound(loc, price, recorded)
    BY <1>2, <1>5 DEF MoneyInv
  <2>2. Sound(loc', price', recorded')
    BY <1>2, <2>1 DEF Sound, Meant, Change
  <2>3. QED
    BY <1>2, <1>5, <2>2, BesideOther
<1>6. QED
  BY <1>2, <1>4, <1>5, DoneHolds

(* Those busy beside a change of the market: none. *)
LEMMA BesideUpdate ==
    ASSUME MoneyInv, ~crossed, NEW p \in Slots, ask[p].pc # "idle", Change(ask[p], loc),
           NEW q \in Slots \ {p}
    PROVE  ask[q].pc = "idle"
BY DEF MoneyInv, Overlap

LEMMA SellMoney ==
    ASSUME Money!MoneyAssumption, MoneyInv, NEW p \in Slots, NEW given \in BOOLEAN,
           Money!Sell(p, given)
    PROVE  MoneyInv'
<1>1. /\ ask \in [Slots -> Money!Request] /\ ask[p] = Money!Quiet
      /\ calls' \in 0..MoneyCalls /\ crossed' \in BOOLEAN /\ (~crossed' => ~crossed)
      /\ ~crossed' => \A q \in Slots : ask[q].pc # "idle" => ~Change(ask[q], loc)
  BY ReceiveMoney DEF Money!Sell
<1>2. PICK next : next = IF given THEN "write" ELSE "resolve"
  OBVIOUS
<1>3. PICK new : new = [ask[p] EXCEPT !.op = "sale", !.currency = Money!Currency,
                                      !.amount = Money!Currency, !.pc = next]
  OBVIOUS
<1>9. next \in {"write", "resolve"} /\ Money!Currency \in Money!Currencies
  BY <1>2, CurrencyTyped
<1>10. ask[p] \in Money!Request /\ ask[p].cleared = {}
  BY <1>1, QuietAsk
<1>4. /\ new \in Money!Request /\ new.pc = next /\ new.op = "sale"
      /\ new.currency = Money!Currency /\ new.amount = Money!Currency /\ new.cleared = {}
  BY <1>3, <1>9, <1>10 DEF Money!Request
<1>5. ask' = [ask EXCEPT ![p] = new] /\ UNCHANGED <<loc, price, recorded, sales>>
  BY <1>2, <1>3, Zenon DEF Money!Sell
<1>6. Shaped(new) /\ Meant(new, loc, price, recorded)
  BY <1>2, <1>4, CurrencyTyped DEF Shaped, Meant
<1>7. ASSUME ~crossed', NEW q \in Slots
      PROVE  ~Overlap(new, ask[q], loc) /\ ~Overlap(ask[q], new, loc)
  BY <1>1, <1>4, <1>7 DEF Overlap, Change
<1>8. QED
  BY <1>1, <1>4, <1>5, <1>6, <1>7, AskHolds

LEMMA ResolvePriceMoney ==
    ASSUME Money!MoneyAssumption, MoneyInv, NEW p \in Slots, Money!ResolvePrice(p)
    PROVE  MoneyInv'
<1>1. ask[p] \in Money!Request /\ Money!TypeOK /\ Shaped(ask[p])
  BY DEF MoneyInv, Money!TypeOK
<1>2. ask[p].pc = "resolve" /\ UNCHANGED <<loc, price, recorded, sales, crossed, calls>>
  BY DEF Money!ResolvePrice
<1>3. PICK sum : sum = IF price[Vended].amount = None THEN ask[p].amount ELSE price[Vended].amount
  OBVIOUS
<1>4. Vended \in Money!Kinds /\ price[Vended] \in Money!Setting
  BY <1>1 DEF Money!MoneyAssumption, Money!Kinds, Money!TypeOK
<1>5. PICK new : new = [ask[p] EXCEPT !.pc = "write", !.amount = sum]
  OBVIOUS
<1>6. sum \in Money!Currencies \cup {None}
  BY <1>1, <1>3, <1>4 DEF Money!Setting, Money!Request
<1>7. /\ new \in Money!Request /\ new.pc = "write" /\ new.op = ask[p].op
      /\ new.market = ask[p].market /\ new.currency = ask[p].currency
      /\ new.amount = sum /\ new.cleared = ask[p].cleared
  BY <1>1, <1>5, <1>6 DEF Money!Request
<1>8. ask' = [ask EXCEPT ![p] = new]
  BY <1>3, <1>5, Zenon DEF Money!ResolvePrice
<1>9. Shaped(new)
  BY <1>1, <1>2, <1>7 DEF Shaped
<1>10. calls' \in 0..MoneyCalls /\ crossed' \in BOOLEAN
  BY <1>1, <1>2 DEF Money!TypeOK
<1>11. ASSUME ~crossed PROVE Meant(new, loc, price, recorded)
  <2>1. Meant(ask[p], loc, price, recorded) /\ Sound(loc, price, recorded)
    BY <1>11 DEF MoneyInv
  <2>2. sum \in {None, CurrencyOf[loc.market]}
    BY <1>2, <1>3, <1>4, <2>1 DEF Meant, Sound
  <2>3. QED
    BY <1>2, <1>7, <2>1, <2>2 DEF Meant
<1>12. ASSUME ~crossed, NEW q \in Slots \ {p}
       PROVE  ~Overlap(new, ask[q], loc) /\ ~Overlap(ask[q], new, loc)
  BY <1>2, <1>7, <1>12 DEF MoneyInv, Overlap, Change
<1>13. QED
  BY <1>2, <1>7, <1>8, <1>9, <1>10, <1>11, <1>12, AskHolds

LEMMA UpsertSaleMoney ==
    ASSUME Money!MoneyAssumption, MoneyInv, NEW p \in Slots, Money!UpsertSale(p)
    PROVE  MoneyInv'
<1>1. ask[p] \in Money!Request /\ Money!TypeOK
  BY DEF MoneyInv, Money!TypeOK
<1>2. /\ ask[p].pc = "write" /\ ask' = [ask EXCEPT ![p] = Money!Quiet]
      /\ UNCHANGED <<loc, price, recorded, crossed, calls>>
      /\ \E d \in Days : sales' = [sales EXCEPT ![d] = ask[p].amount]
  BY DEF Money!UpsertSale, Money!Done
<1>3. sales' \in Takings
  BY <1>1, <1>2 DEF Money!TypeOK, Money!Request, Takings
<1>4. /\ price' \in [Money!Kinds -> Money!Setting] /\ loc' \in Money!Location
      /\ recorded' \subseteq Money!Currencies /\ calls' \in 0..MoneyCalls /\ crossed' \in BOOLEAN
  BY <1>1, <1>2 DEF Money!TypeOK
<1>5. ~crossed => /\ \A q \in Slots : Meant(ask[q], loc', price', recorded')
                  /\ Sound(loc', price', recorded')
  BY <1>2, Zenon DEF MoneyInv
<1>6. QED
  BY <1>2, <1>3, <1>4, <1>5, DoneHolds

LEMMA CountMoney ==
    ASSUME Money!MoneyAssumption, MoneyInv, NEW p \in Slots, Money!CountActivity(p)
    PROVE  MoneyInv'
<1>1. ask[p] \in Money!Request /\ Money!TypeOK /\ Shaped(ask[p])
  BY DEF MoneyInv, Money!TypeOK, Takings
<1>2. ask[p].pc = "count" /\ UNCHANGED <<loc, price, recorded, sales, crossed, calls>>
  BY DEF Money!CountActivity
<1>3. PICK next : next = [ask[p] EXCEPT !.pc = "clear"]
  OBVIOUS
<1>4. /\ next \in Money!Request /\ next.pc = "clear" /\ next.market = ask[p].market
      /\ next.cleared = ask[p].cleared /\ next.op = ask[p].op /\ next.zone = ask[p].zone
  BY <1>1, <1>3 DEF Money!Request
<1>5. calls' \in 0..MoneyCalls /\ crossed' \in BOOLEAN
  BY <1>1, <1>2 DEF Money!TypeOK, Takings
<1>6. CASE recorded # {}
  <2>1. ask' = [ask EXCEPT ![p] = Money!Quiet]
    BY <1>6 DEF Money!CountActivity, Money!Activity, Money!Done
  <2>2. \A q \in Slots : ~Overlap(Money!Quiet, ask[q], loc) /\ ~Overlap(ask[q], Money!Quiet, loc)
    BY QuietAsk DEF Overlap, Change
  <2>3. Meant(Money!Quiet, loc, price, recorded)
    BY QuietAsk DEF Meant, Change
  <2>4. QED
    BY <1>2, <1>5, <2>1, <2>2, <2>3, QuietAsk, AskHolds
<1>7. CASE recorded = {}
  <2>1. ask' = [ask EXCEPT ![p] = next]
    BY <1>1, <1>3, <1>7 DEF Money!CountActivity, Money!Activity, MoneyInv, Money!TypeOK
  <2>2. Shaped(next)
    BY <1>1, <1>2, <1>4 DEF Shaped
  <2>3. ASSUME ~crossed PROVE Meant(next, loc, price, recorded)
    <3>1. Meant(ask[p], loc, price, recorded)
      BY <2>3 DEF MoneyInv
    <3>2. QED
      BY <1>2, <1>4, <1>7, <3>1 DEF Meant, Change
  <2>4. ASSUME ~crossed, NEW q \in Slots \ {p}
        PROVE  ~Overlap(next, ask[q], loc) /\ ~Overlap(ask[q], next, loc)
    <3>1. Change(ask[p], loc)
      BY <1>2, <2>4 DEF MoneyInv, Meant
    <3>2. QED
      BY <1>2, <2>4, <3>1, BesideUpdate DEF Overlap
  <2>5. QED
    BY <1>2, <1>4, <1>5, <2>1, <2>2, <2>3, <2>4, AskHolds
<1>8. QED
  BY <1>6, <1>7

LEMMA ClearMoney ==
    ASSUME Money!MoneyAssumption, MoneyInv, NEW p \in Slots, Money!ClearPrices(p)
    PROVE  MoneyInv'
<1>1. ask[p] \in Money!Request /\ Money!TypeOK /\ Shaped(ask[p])
  BY DEF MoneyInv, Money!TypeOK, Takings
<1>2. ask[p].pc = "clear" /\ UNCHANGED <<loc, price, recorded, sales, crossed, calls>>
  BY DEF Money!ClearPrices
<1>3. PICK new : new = [ask[p] EXCEPT !.cleared = Money!Cleared, !.pc = "move"]
  OBVIOUS
<1>4. /\ new \in Money!Request /\ new.pc = "move" /\ new.market = ask[p].market
      /\ new.cleared = Money!Cleared /\ new.op = ask[p].op /\ new.zone = ask[p].zone
  BY <1>1, <1>3 DEF Money!Request, Money!Cleared
<1>5. calls' \in 0..MoneyCalls /\ crossed' \in BOOLEAN
  BY <1>1, <1>2 DEF Money!TypeOK, Takings
<1>6. ask' = [ask EXCEPT ![p] = new]
  BY <1>3, Zenon DEF Money!ClearPrices
<1>7. Shaped(new)
  BY <1>1, <1>2, <1>4 DEF Shaped
<1>8. ASSUME ~crossed PROVE Meant(new, loc, price, recorded)
  <2>1. Meant(ask[p], loc, price, recorded)
    BY <1>8 DEF MoneyInv
  <2>2. QED
    BY <1>2, <1>4, <2>1 DEF Meant, Change, Money!Cleared
<1>9. ASSUME ~crossed, NEW q \in Slots \ {p}
      PROVE  ~Overlap(new, ask[q], loc) /\ ~Overlap(ask[q], new, loc)
  <2>1. Change(ask[p], loc)
    BY <1>2, <1>9 DEF MoneyInv, Meant
  <2>2. QED
    BY <1>2, <1>9, <2>1, BesideUpdate DEF Overlap
<1>10. QED
  BY <1>2, <1>4, <1>5, <1>6, <1>7, <1>8, <1>9, AskHolds

LEMMA MoveMoney ==
    ASSUME Money!MoneyAssumption, MoneyInv, NEW p \in Slots, Money!Move(p)
    PROVE  MoneyInv'
<1>1. ask[p] \in Money!Request /\ Money!TypeOK /\ Shaped(ask[p])
  BY DEF MoneyInv, Money!TypeOK, Takings
<1>2. PICK a : a = ask[p]
  OBVIOUS
<1>3. PICK m : m = IF a.market = None THEN loc.market ELSE a.market
  OBVIOUS
<1>4. PICK z : z = IF a.zone = None THEN loc.zone ELSE a.zone
  OBVIOUS
<1>5. /\ a.pc = "move" /\ loc' = [market |-> m, zone |-> z, active |-> a.active]
      /\ price' = [k \in Money!Kinds |-> IF k \in a.cleared
              THEN [exists |-> TRUE, amount |-> None, label |-> CurrencyOf[a.market]]
              ELSE price[k]]
      /\ ask' = [ask EXCEPT ![p] = Money!Quiet]
      /\ UNCHANGED <<recorded, sales, crossed, calls>>
  BY <1>2, <1>3, <1>4, Zenon DEF Money!Move, Money!Done
<1>6. m \in Markets /\ z \in Markets /\ a.active \in BOOLEAN
  BY <1>1, <1>2, <1>3, <1>4 DEF Money!TypeOK, Money!Location, Money!Request
<1>7. loc' \in Money!Location /\ loc'.market = m /\ loc'.zone = z
  BY <1>5, <1>6 DEF Money!Location
<1>8. price' \in [Money!Kinds -> Money!Setting]
  <2>1. a.cleared # {} =>
          [exists |-> TRUE, amount |-> None, label |-> CurrencyOf[a.market]] \in Money!Setting
    BY <1>1, <1>2 DEF Shaped, Money!Setting, Money!Currencies
  <2>2. QED
    BY <1>1, <1>5, <2>1 DEF Money!TypeOK, Takings
<1>9. /\ recorded' \subseteq Money!Currencies /\ sales' \in Takings /\ calls' \in 0..MoneyCalls /\ crossed' \in BOOLEAN
  BY <1>1, <1>5 DEF Money!TypeOK, Takings
<1>10. ASSUME ~crossed'
       PROVE  /\ \A q \in Slots \ {p} : /\ Meant(ask[q], loc', price', recorded')
                                        /\ (ask[q].pc = "idle" \/ loc'.market = loc.market)
              /\ Sound(loc', price', recorded')
  <2>1. Meant(a, loc, price, recorded) /\ Sound(loc, price, recorded)
    BY <1>2, <1>5, <1>10 DEF MoneyInv
  <2>2. z = m
    BY <1>3, <1>4, <1>5, <2>1 DEF Meant, Sound
  <2>3. CASE a.market \in {None, loc.market} /\ a.cleared = {}
    <3>1. m = loc.market
      BY <1>3, <2>3
    <3>2. \A k \in Money!Kinds : price'[k] = price[k]
      BY <1>5, <2>3
    <3>3. Sound(loc', price', recorded')
      BY <1>5, <1>7, <2>1, <2>2, <3>1, <3>2 DEF Sound
    <3>4. ASSUME NEW q \in Slots \ {p} PROVE Meant(ask[q], loc', price', recorded')
      <4>1. Meant(ask[q], loc, price, recorded)
        BY <1>5, <1>10 DEF MoneyInv
      <4>2. QED
        BY <1>5, <1>7, <3>1, <3>2, <4>1 DEF Meant, Change
    <3>5. QED
      BY <1>7, <3>1, <3>3, <3>4
  <2>4. CASE /\ Change(a, loc) /\ recorded = {}
             /\ \A k \in Money!Kinds : price[k].exists => k \in a.cleared
    <3>1. \A q \in Slots \ {p} : ask[q].pc = "idle"
      BY <1>2, <1>5, <1>10, <2>4, BesideUpdate
    <3>2. \A k \in Money!Kinds : ~price[k].exists => price[k].amount = None
      BY <2>1 DEF Sound
    <3>3. \A k \in Money!Kinds : price'[k].amount = None
      BY <1>5, <2>4, <3>2
    <3>4. \A k \in Money!Kinds : ~price'[k].exists => price'[k].amount = None
      BY <3>3
    <3>5. QED
      BY <1>5, <1>7, <2>2, <2>4, <3>1, <3>3, <3>4 DEF Sound, Meant
  <2>5. QED
    BY <1>5, <2>1, <2>3, <2>4 DEF Meant
<1>11. QED
  BY <1>5, <1>7, <1>8, <1>9, <1>10, DoneHolds

LEMMA FailMoney ==
    ASSUME Money!MoneyAssumption, MoneyInv, NEW p \in Slots, Money!Fail(p)
    PROVE  MoneyInv'
<1>1. ask' = [ask EXCEPT ![p] = Money!Quiet] /\ UNCHANGED <<loc, price, recorded, sales, crossed, calls>>
  BY DEF Money!Fail, Money!Done
<1>2. /\ price' \in [Money!Kinds -> Money!Setting] /\ loc' \in Money!Location
      /\ recorded' \subseteq Money!Currencies /\ sales' \in Takings /\ calls' \in 0..MoneyCalls /\ crossed' \in BOOLEAN
  BY <1>1 DEF MoneyInv, Money!TypeOK, Takings
<1>3. ~crossed => /\ \A q \in Slots : Meant(ask[q], loc', price', recorded')
                  /\ Sound(loc', price', recorded')
  BY <1>1, Zenon DEF MoneyInv
<1>4. QED
  BY <1>1, <1>2, <1>3, DoneHolds

LEMMA StepMoney ==
    Money!MoneyAssumption /\ MoneyInv /\ [Money!Next]_Money!vars => MoneyInv'
<1> SUFFICES ASSUME Money!MoneyAssumption, MoneyInv, [Money!Next]_Money!vars PROVE MoneyInv'
  OBVIOUS
<1>1. CASE UNCHANGED Money!vars
  BY <1>1 DEF Money!vars, MoneyInv, Money!TypeOK, Shaped, Meant, Sound, Overlap, Change
<1>2. CASE Money!Next
  <2>1. PICK p \in Slots : Money!Arrivals(p) \/ Money!Step(p) \/ Money!Fail(p)
    BY <1>2 DEF Money!Next
  <2>2. CASE Money!Arrivals(p)
    BY <2>2, DeletePriceMoney, SetPriceMoney, ReadCurrencyMoney, SellMoney, UpdateMoney
       DEF Money!Arrivals
  <2>3. CASE Money!Step(p)
    BY <2>3, WritePriceMoney, RecordMoney, ResolvePriceMoney, UpsertSaleMoney, CountMoney,
       ClearMoney, MoveMoney DEF Money!Step
  <2>4. CASE Money!Fail(p)
    BY <2>4, FailMoney
  <2>5. QED
    BY <2>1, <2>2, <2>3, <2>4
<1>3. QED
  BY <1>1, <1>2

LEMMA InvMoney ==
    MoneyInv => /\ Money!TypeOK /\ Money!PriceInItsCurrency
                /\ Money!RecordedInItsCurrency /\ Money!ZoneOfItsCountry
BY DEF MoneyInv, Sound, Money!PriceInItsCurrency, Money!Usable, Money!Currency,
       Money!RecordedInItsCurrency, Money!ActivityInItsCurrency, Money!ZoneOfItsCountry

-----------------------------------------------------------------------------
(* SETTING UP.  Between the moment a request that makes a location primary *)
(* finds the primary ones and its commit, no location becomes primary that *)
(* it does not know; and what onboarding has checked is still so.          *)
Doing(m)  == m.pc # "idle"
Raises(m) == m.pc = "demote" /\ m.primary = TRUE

Knows(m, places) == Raises(m) =>
    \A l \in Locations : places[l].primary => l \in m.others \cup m.off \cup {m.at}

Checked(m, places, described, profiles, said) ==
    /\ m.pc = "comply" => (m.found <=> profiles > 0)
    /\ m.pc \in {"cafe", "read", "complete"} =>
           /\ described /\ m.at \in Locations
           /\ places[m.at].exists /\ places[m.at].primary /\ places[m.at].active
    /\ m.pc \in {"read", "complete"} => places[m.at].profile
    /\ m.pc = "complete" => m.status = Setup!CompletedStatus(said, profiles > 0)

AtMostOnePrimary(places) ==
    \A l, o \in Locations : places[l].primary /\ places[o].primary => l = o

SetupInv ==
    /\ Setup!TypeOK
    /\ \A p \in Slots : task[p].pc = "idle" => task[p] = Setup!Nothing
    /\ ~promoted => /\ \A p, q \in Slots : Raises(task[p]) /\ Raises(task[q]) => p = q
                    /\ \A p \in Slots : Knows(task[p], location)
                    /\ AtMostOnePrimary(location)
    /\ alone => /\ \A p, q \in Slots : Doing(task[p]) /\ Doing(task[q]) => p = q
                /\ \A p \in Slots :
                       Checked(task[p], location, business, compliance, progress.compliance)
                /\ compliance <= 1

LEMMA NothingDone ==
    /\ Setup!Nothing \in Setup!Task /\ Setup!Nothing.pc = "idle"
    /\ Setup!Nothing.others = {} /\ Setup!Nothing.off = {}
BY DEF Setup!Nothing, Setup!Task, Setup!Status

LEMMA InitSets == Setup!SetupAssumption /\ Setup!Init => SetupInv
<1> SUFFICES ASSUME Setup!SetupAssumption, Setup!Init PROVE SetupInv
  OBVIOUS
<1>1. \A p \in Slots : task[p] = Setup!Nothing
  BY DEF Setup!Init
<1>2. Setup!Nowhere \in Setup!Place /\ ~Setup!Nowhere.primary
  BY DEF Setup!Nowhere, Setup!Place
<1>3. \A l \in Locations : location[l] = Setup!Nowhere
  BY DEF Setup!Init
<1>4. Setup!TypeOK
  <2>1. location \in [Locations -> Setup!Place] /\ locked \in [Locations -> Slots \cup {None}]
    BY <1>2 DEF Setup!Init
  <2>2. business \in BOOLEAN /\ promoted \in BOOLEAN /\ alone \in BOOLEAN
    BY DEF Setup!Init
  <2>3. compliance \in Nat /\ calls \in 0..SetupCalls
    BY DEF Setup!Init, Setup!SetupAssumption
  <2>4. progress \in [compliance : Setup!Status, completed : BOOLEAN]
    BY DEF Setup!Init, Setup!Status
  <2>5. task \in [Slots -> Setup!Task]
    BY NothingDone DEF Setup!Init
  <2>6. QED
    BY <2>1, <2>2, <2>3, <2>4, <2>5 DEF Setup!TypeOK
<1>5. \A p \in Slots : ~Doing(task[p]) /\ ~Raises(task[p])
  BY <1>1, NothingDone DEF Doing, Raises
<1>6. AtMostOnePrimary(location)
  BY <1>2, <1>3 DEF AtMostOnePrimary
<1>7. compliance = 0
  BY DEF Setup!Init
<1>8. QED
  BY <1>1, <1>4, <1>5, <1>6, <1>7 DEF SetupInv, Knows, Checked, Doing

(* A step that leaves the tables as they are. *)
LEMMA TaskHolds ==
    ASSUME SetupInv, NEW p \in Slots, NEW new \in Setup!Task, Doing(new),
           task' = [task EXCEPT ![p] = new],
           UNCHANGED <<location, business, compliance, progress>>,
           locked' \in [Locations -> Slots \cup {None}], calls' \in 0..SetupCalls,
           promoted' \in BOOLEAN, alone' \in BOOLEAN,
           ~promoted' => ~promoted,
           alone' => alone /\ \A q \in Slots \ {p} : ~Doing(task[q]),
           ~promoted' => (Raises(new) => \A q \in Slots \ {p} : ~Raises(task[q])),
           ~promoted' => Knows(new, location),
           alone' => Checked(new, location, business, compliance, progress.compliance)
    PROVE  SetupInv'
<1>1. task \in [Slots -> Setup!Task] /\ Setup!TypeOK
  BY DEF SetupInv, Setup!TypeOK
<1>2. \A q \in Slots : task'[q] = IF q = p THEN new ELSE task[q]
  BY <1>1
<1>3. Setup!TypeOK'
  BY <1>1 DEF Setup!TypeOK
<1>4. \A q \in Slots : task'[q].pc = "idle" => task'[q] = Setup!Nothing
  BY <1>2 DEF SetupInv, Doing
<1>5. ASSUME ~promoted'
      PROVE  /\ \A q1, q2 \in Slots : Raises(task'[q1]) /\ Raises(task'[q2]) => q1 = q2
             /\ \A q \in Slots : Knows(task'[q], location')
             /\ AtMostOnePrimary(location')
  <2>1. /\ \A q1, q2 \in Slots : Raises(task[q1]) /\ Raises(task[q2]) => q1 = q2
        /\ \A q \in Slots : Knows(task[q], location)
        /\ AtMostOnePrimary(location)
    BY <1>5 DEF SetupInv
  <2>2. QED
    BY <1>2, <1>5, <2>1
<1>6. ASSUME alone'
      PROVE  /\ \A q1, q2 \in Slots : Doing(task'[q1]) /\ Doing(task'[q2]) => q1 = q2
             /\ \A q \in Slots :
                    Checked(task'[q], location', business', compliance', progress'.compliance)
             /\ compliance' <= 1
  <2>1. compliance <= 1
    BY <1>6 DEF SetupInv
  <2>2. \A q \in Slots \ {p} :
            Checked(task[q], location, business, compliance, progress.compliance)
    BY <1>6 DEF SetupInv
  <2>3. QED
    BY <1>2, <1>6, <2>1, <2>2
<1>7. QED
  BY <1>3, <1>4, <1>5, <1>6 DEF SetupInv, Raises, Doing, Knows, Checked, AtMostOnePrimary

(* The end of a request. *)
LEMMA TaskEnds ==
    ASSUME SetupInv, NEW p \in Slots, Setup!Finish(p), Setup!TypeOK',
           ~promoted' => ~promoted,
           alone' => alone /\ \A q \in Slots \ {p} : ~Doing(task[q]),
           ~promoted' => /\ AtMostOnePrimary(location')
                         /\ \A q \in Slots \ {p} : Knows(task[q], location'),
           alone' => compliance' <= 1
    PROVE  SetupInv'
<1>1. task \in [Slots -> Setup!Task]
  BY DEF SetupInv, Setup!TypeOK
<1>2. \A q \in Slots : task'[q] = IF q = p THEN Setup!Nothing ELSE task[q]
  BY <1>1 DEF Setup!Finish
<1>3. \A q \in Slots : task'[q].pc = "idle" => task'[q] = Setup!Nothing
  BY <1>2 DEF SetupInv
<1>4. ~Doing(Setup!Nothing) /\ ~Raises(Setup!Nothing)
  BY NothingDone DEF Doing, Raises
<1>5. ASSUME ~promoted'
      PROVE  /\ \A q1, q2 \in Slots : Raises(task'[q1]) /\ Raises(task'[q2]) => q1 = q2
             /\ \A q \in Slots : Knows(task'[q], location')
  <2>1. \A q1, q2 \in Slots : Raises(task[q1]) /\ Raises(task[q2]) => q1 = q2
    BY <1>5 DEF SetupInv
  <2>2. Knows(Setup!Nothing, location')
    BY <1>4 DEF Knows
  <2>3. QED
    BY <1>2, <1>4, <1>5, <2>1, <2>2
<1>6. ASSUME alone'
      PROVE  \A q \in Slots : ~Doing(task'[q])
  BY <1>2, <1>4, <1>6
<1>7. ASSUME alone', NEW q \in Slots
      PROVE  Checked(task'[q], location', business', compliance', progress'.compliance)
  BY <1>6, <1>7 DEF Checked, Doing
<1>8. QED
  BY <1>3, <1>5, <1>6, <1>7 DEF SetupInv, Raises, Doing, Knows, Checked, AtMostOnePrimary

LEMMA ReceiveSetup ==
    ASSUME Setup!SetupAssumption, SetupInv, NEW p \in Slots, Setup!Receive(p)
    PROVE  /\ task \in [Slots -> Setup!Task] /\ task[p] = Setup!Nothing
           /\ calls' \in 0..SetupCalls /\ alone' \in BOOLEAN
           /\ alone' => alone /\ \A q \in Slots : ~Doing(task[q])
<1>1. task \in [Slots -> Setup!Task] /\ task[p] = Setup!Nothing
  BY DEF SetupInv, Setup!TypeOK, Setup!Receive
<1>2. calls' \in 0..SetupCalls
  BY DEF SetupInv, Setup!TypeOK, Setup!Receive, Setup!SetupAssumption
<1>3. alone' \in BOOLEAN /\ (alone' => alone /\ \A q \in Slots : ~Setup!Busy(q))
  BY Zenon DEF Setup!Receive
<1>4. QED
  BY <1>1, <1>2, <1>3 DEF Setup!Busy, Doing

LEMMA PrimariesOf ==
    ASSUME NEW l \in Locations
    PROVE  /\ Setup!Primaries(l) \in SUBSET Locations
           /\ \A o \in Locations : location[o].primary => o \in Setup!Primaries(l) \cup {l}
BY DEF Setup!Primaries

(* A request that may make location l primary. *)
LEMMA RaiseSets ==
    ASSUME Setup!SetupAssumption, SetupInv, NEW p \in Slots, NEW l \in Locations,
           NEW first \in BOOLEAN \cup {None}, NEW open \in BOOLEAN \cup {None},
           Setup!Receive(p), UNCHANGED <<location, business, compliance, progress, locked>>,
           task' = [task EXCEPT ![p] = [@ EXCEPT !.pc = "demote", !.at = l,
                       !.primary = first, !.active = open,
                       !.others = IF first = TRUE THEN Setup!Primaries(l) ELSE {}]],
           promoted' = (promoted \/ (first = TRUE /\ \E q \in Slots : Setup!Promotes(q)))
    PROVE  SetupInv'
<1>1. /\ task \in [Slots -> Setup!Task] /\ task[p] = Setup!Nothing
      /\ calls' \in 0..SetupCalls /\ alone' \in BOOLEAN
      /\ alone' => alone /\ \A q \in Slots : ~Doing(task[q])
  BY ReceiveSetup
<1>2. PICK rest : rest = IF first = TRUE THEN Setup!Primaries(l) ELSE {}
  BY Zenon
<1>3. rest \in SUBSET Locations
  <2>1. CASE first = TRUE
    BY <1>2, <2>1, PrimariesOf, Zenon
  <2>2. CASE first # TRUE
    <3>1. rest = {}
      BY <1>2, <2>2, Zenon
    <3>2. QED
      BY <3>1
  <2>3. QED
    BY <2>1, <2>2
<1>4. first = TRUE => \A o \in Locations : location[o].primary => o \in rest \cup {l}
  <2>1. first = TRUE => rest = Setup!Primaries(l)
    BY <1>2, Zenon
  <2>2. QED
    BY <2>1, PrimariesOf, Zenon
<1>5. PICK new : new = [task[p] EXCEPT !.pc = "demote", !.at = l, !.primary = first,
                                       !.active = open, !.others = rest]
  OBVIOUS
<1>6. task[p] \in Setup!Task
  BY <1>1, NothingDone
<1>7. new \in Setup!Task
  BY <1>3, <1>5, <1>6 DEF Setup!Task
<1>8. /\ new.pc = "demote" /\ new.at = l /\ new.others = rest
      /\ new.primary = first
  BY <1>5, <1>6 DEF Setup!Task
<1>9. task' = [task EXCEPT ![p] = new]
  BY <1>1, <1>2, <1>5
<1>10. promoted' \in BOOLEAN /\ (~promoted' => ~promoted)
       /\ (~promoted' => (first = TRUE => \A q \in Slots : ~Setup!Promotes(q)))
  BY Zenon
<1>11. ~promoted' => (first = TRUE => \A q \in Slots : ~Raises(task[q]))
  BY <1>10, Zenon DEF Setup!Promotes, Setup!Busy, Raises, Doing
<1>12. Knows(new, location)
  <2>1. SUFFICES ASSUME Raises(new), NEW o \in Locations, location[o].primary
                 PROVE  o \in new.others \cup new.off \cup {new.at}
    BY DEF Knows
  <2>2. first = TRUE
    BY <1>8, <2>1, Zenon DEF Raises
  <2>3. o \in rest \cup {l}
    BY <1>4, <2>1, <2>2, Zenon
  <2>4. QED
    BY <1>8, <2>3
<1>13. Checked(new, location, business, compliance, progress.compliance)
  BY <1>8 DEF Checked
<1>14. Raises(new) => first = TRUE
  BY <1>8, Zenon DEF Raises
<1>15. Doing(new) /\ locked' \in [Locations -> Slots \cup {None}]
  BY <1>8 DEF Doing, SetupInv, Setup!TypeOK
<1>16. ~promoted' => (Raises(new) => \A q \in Slots \ {p} : ~Raises(task[q]))
  BY <1>11, <1>14, Zenon
<1>17. QED
  BY <1>1, <1>7, <1>9, <1>10, <1>12, <1>13, <1>15, <1>16, TaskHolds

LEMMA CreateLocationSets ==
    ASSUME Setup!SetupAssumption, SetupInv, NEW p \in Slots, NEW l \in Locations,
           NEW wish \in BOOLEAN \cup {None}, Setup!CreateLocation(p, l, wish)
    PROVE  SetupInv'
<1>1. PICK first : first = IF wish = None THEN Setup!First ELSE wish
  BY Zenon
<1>2. Setup!First \in BOOLEAN
  BY Zenon DEF Setup!First
<1>3. first \in BOOLEAN
  <2>1. CASE wish = None
    BY <1>1, <1>2, <2>1, Zenon
  <2>2. CASE wish # None
    <3>1. first = wish /\ wish \in BOOLEAN
      BY <1>1, <2>2, Zenon
    <3>2. QED
      BY <3>1, Zenon
  <2>3. QED
    BY <2>1, <2>2
<1>4. (IF first THEN Setup!Primaries(l) ELSE {}) = IF first = TRUE THEN Setup!Primaries(l) ELSE {}
  BY <1>3, Zenon
<1>5. (first /\ \E q \in Slots : Setup!Promotes(q)) = (first = TRUE /\ \E q \in Slots : Setup!Promotes(q))
  BY <1>3, Zenon
<1>6. /\ Setup!Receive(p) /\ UNCHANGED <<location, business, compliance, progress, locked>>
      /\ task' = [task EXCEPT ![p] = [@ EXCEPT !.pc = "demote", !.at = l,
                     !.primary = first, !.active = TRUE,
                     !.others = IF first THEN Setup!Primaries(l) ELSE {}]]
      /\ promoted' = (promoted \/ (first /\ \E q \in Slots : Setup!Promotes(q)))
  BY <1>1, Zenon DEF Setup!CreateLocation, Setup!tables
<1>7. /\ task' = [task EXCEPT ![p] = [@ EXCEPT !.pc = "demote", !.at = l,
                     !.primary = first, !.active = TRUE,
                     !.others = IF first = TRUE THEN Setup!Primaries(l) ELSE {}]]
      /\ promoted' = (promoted \/ (first = TRUE /\ \E q \in Slots : Setup!Promotes(q)))
  BY <1>4, <1>5, <1>6, Zenon
<1>8. first \in BOOLEAN \cup {None} /\ TRUE \in BOOLEAN \cup {None}
  BY <1>3, Zenon
<1>9. QED
  BY <1>6, <1>7, <1>8, RaiseSets, Zenon

LEMMA UpdateLocationSets ==
    ASSUME Setup!SetupAssumption, SetupInv, NEW p \in Slots, NEW l \in Locations,
           NEW wish \in BOOLEAN \cup {None}, NEW open \in BOOLEAN \cup {None},
           Setup!UpdateLocation(p, l, wish, open)
    PROVE  SetupInv'
<1>1. /\ Setup!Receive(p) /\ UNCHANGED <<location, business, compliance, progress, locked>>
      /\ task' = [task EXCEPT ![p] = [@ EXCEPT !.pc = "demote", !.at = l,
                     !.primary = wish, !.active = open,
                     !.others = IF wish = TRUE THEN Setup!Primaries(l) ELSE {}]]
      /\ promoted' = (promoted \/ (wish = TRUE /\ \E q \in Slots : Setup!Promotes(q)))
  BY Zenon DEF Setup!UpdateLocation, Setup!tables
<1>2. QED
  BY <1>1, RaiseSets, Zenon

LEMMA DemoteSets ==
    ASSUME Setup!SetupAssumption, SetupInv, NEW p \in Slots, Setup!Demote(p)
    PROVE  SetupInv'
<1>1. task \in [Slots -> Setup!Task] /\ task[p] \in Setup!Task /\ Setup!TypeOK
  BY DEF SetupInv, Setup!TypeOK
<1>2. PICK o \in task[p].others :
          /\ task[p].pc = "demote"
          /\ task' = [task EXCEPT ![p] = [@ EXCEPT !.others = task[p].others \ {o},
                  !.off = IF location[o].primary THEN task[p].off \cup {o} ELSE task[p].off]]
          /\ locked' = IF location[o].primary THEN [locked EXCEPT ![o] = p] ELSE locked
          /\ UNCHANGED <<Setup!tables, Setup!history, calls>>
  BY Zenon DEF Setup!Demote
<1>3. PICK off : off = IF location[o].primary THEN task[p].off \cup {o} ELSE task[p].off
  OBVIOUS
<1>4. PICK new : new = [task[p] EXCEPT !.others = task[p].others \ {o}, !.off = off]
  OBVIOUS
<1>5. task' = [task EXCEPT ![p] = new]
  BY <1>1, <1>2, <1>3, <1>4
<1>6. o \in Locations /\ off \in SUBSET Locations
  BY <1>1, <1>3 DEF Setup!Task
<1>7. /\ new \in Setup!Task /\ new.pc = "demote" /\ new.at = task[p].at
      /\ new.others = task[p].others \ {o} /\ new.off = off
  BY <1>1, <1>2, <1>4, <1>6 DEF Setup!Task
<1>8. new.primary = task[p].primary
  BY <1>1, <1>4 DEF Setup!Task
<1>9. locked' \in [Locations -> Slots \cup {None}]
  BY <1>1, <1>2, <1>6 DEF Setup!TypeOK
<1>10. UNCHANGED <<location, business, compliance, progress, promoted, alone, calls>>
  BY <1>2 DEF Setup!tables, Setup!history
<1>11. Raises(new) => Raises(task[p])
  BY <1>2, <1>8, Zenon DEF Raises, Doing
<1>12. Doing(new) /\ Doing(task[p])
  BY <1>2, <1>7 DEF Doing
<1>13. ~promoted => Knows(new, location)
  <2>1. SUFFICES ASSUME ~promoted, Raises(new), NEW l \in Locations, location[l].primary
                 PROVE  l \in new.others \cup new.off \cup {new.at}
    BY DEF Knows
  <2>2. l \in task[p].others \cup task[p].off \cup {task[p].at}
    BY <1>2, <1>11, <2>1 DEF SetupInv, Knows
  <2>3. o \in off \/ ~location[o].primary
    BY <1>3
  <2>4. l = o => location[o].primary
    BY <2>1
  <2>5. task[p].off \subseteq off
    BY <1>3
  <2>6. QED
    BY <1>7, <2>2, <2>3, <2>4, <2>5
<1>14. Checked(new, location, business, compliance, progress.compliance)
  BY <1>7 DEF Checked
<1>15. ~promoted => (Raises(new) => \A q \in Slots \ {p} : ~Raises(task[q]))
  BY <1>11 DEF SetupInv
<1>16. alone => \A q \in Slots \ {p} : ~Doing(task[q])
  BY <1>12 DEF SetupInv
<1>17. promoted' \in BOOLEAN /\ alone' \in BOOLEAN /\ calls' \in 0..SetupCalls
  BY <1>1, <1>10 DEF Setup!TypeOK
<1>18. QED
  BY <1>5, <1>7, <1>9, <1>10, <1>12, <1>13, <1>14, <1>15, <1>16, <1>17, TaskHolds

LEMMA LocksFreed ==
    ASSUME SetupInv, NEW p \in Slots, Setup!Finish(p)
    PROVE  /\ locked' \in [Locations -> Slots \cup {None}]
           /\ task' \in [Slots -> Setup!Task]
BY NothingDone DEF SetupInv, Setup!TypeOK, Setup!Finish

LEMMA SaveLocationSets ==
    ASSUME Setup!SetupAssumption, SetupInv, NEW p \in Slots, Setup!SaveLocation(p)
    PROVE  SetupInv'
<1>1. task[p] \in Setup!Task /\ Setup!TypeOK /\ location \in [Locations -> Setup!Place]
  BY DEF SetupInv, Setup!TypeOK
<1>2. PICK t : t = task[p]
  OBVIOUS
<1>3. /\ t.pc = "demote" /\ t.others = {} /\ Setup!Finish(p)
      /\ UNCHANGED <<business, compliance, progress, promoted, alone, calls>>
      /\ location' = [l \in Locations |->
           IF l = t.at
           THEN [location[l] EXCEPT !.exists = TRUE,
                     !.primary = IF t.primary = None THEN location[l].primary ELSE t.primary,
                     !.active = IF t.active = None THEN location[l].active ELSE t.active]
           ELSE [location[l] EXCEPT !.primary = location[l].primary /\ l \notin t.off]]
  BY <1>2, Zenon DEF Setup!SaveLocation, Setup!history
<1>4. t.primary \in BOOLEAN \cup {None} /\ t.active \in BOOLEAN \cup {None}
  BY <1>1, <1>2 DEF Setup!Task
<1>5. ASSUME NEW l \in Locations
      PROVE  /\ location'[l] \in Setup!Place
             /\ l # t.at => (location'[l].primary => location[l].primary /\ l \notin t.off)
             /\ t.primary # TRUE => (location'[l].primary => location[l].primary)
  <2>1. location[l] \in Setup!Place /\ location[l].primary \in BOOLEAN /\ location[l].active \in BOOLEAN
    BY <1>1 DEF Setup!Place
  <2>2. PICK first : first = IF t.primary = None THEN location[l].primary ELSE t.primary
    BY Zenon
  <2>3. PICK open : open = IF t.active = None THEN location[l].active ELSE t.active
    BY Zenon
  <2>4. PICK kept : kept = (location[l].primary /\ l \notin t.off)
    BY Zenon
  <2>5. kept \in BOOLEAN /\ (kept => location[l].primary /\ l \notin t.off)
    BY <2>4, Zenon
  <2>6. first \in BOOLEAN /\ (t.primary # TRUE => (first => location[l].primary))
    <3>1. CASE t.primary = None
      BY <2>1, <2>2, <3>1, Zenon
    <3>2. CASE t.primary # None
      <4>1. first = t.primary /\ t.primary \in BOOLEAN
        BY <1>4, <2>2, <3>2, Zenon
      <4>2. QED
        BY <4>1, Zenon
    <3>3. QED
      BY <3>1, <3>2
  <2>7. open \in BOOLEAN
    <3>1. CASE t.active = None
      BY <2>1, <2>3, <3>1, Zenon
    <3>2. CASE t.active # None
      <4>1. open = t.active /\ t.active \in BOOLEAN
        BY <1>4, <2>3, <3>2, Zenon
      <4>2. QED
        BY <4>1, Zenon
    <3>3. QED
      BY <3>1, <3>2
  <2>8. CASE l = t.at
    <3>1. location'[l] = [location[l] EXCEPT !.exists = TRUE, !.primary = first, !.active = open]
      BY <1>3, <2>2, <2>3, <2>8, Zenon
    <3>2. location'[l] \in Setup!Place /\ location'[l].primary = first
      BY <2>1, <2>6, <2>7, <3>1 DEF Setup!Place
    <3>3. QED
      BY <2>6, <2>8, <3>2, Zenon
  <2>9. CASE l # t.at
    <3>1. location'[l] = [location[l] EXCEPT !.primary = kept]
      BY <1>3, <2>4, <2>9, Zenon
    <3>2. location'[l] \in Setup!Place /\ location'[l].primary = kept
      BY <2>1, <2>5, <3>1 DEF Setup!Place
    <3>3. QED
      BY <2>5, <2>9, <3>2, Zenon
  <2>10. QED
    BY <2>8, <2>9
<1>6. Setup!TypeOK'
  <2>1. location' \in [Locations -> Setup!Place]
    <3>1. location' = [l \in Locations |-> location'[l]]
      BY <1>3, Zenon
    <3>2. QED
      BY <1>5, <3>1
  <2>2. QED
    BY <1>1, <1>3, <2>1, LocksFreed DEF Setup!TypeOK
<1>7. Doing(task[p])
  BY <1>2, <1>3 DEF Doing
<1>8. ASSUME ~promoted
      PROVE  /\ AtMostOnePrimary(location')
             /\ \A q \in Slots \ {p} : Knows(task[q], location')
  <2>1. /\ \A q \in Slots : Knows(task[q], location)
        /\ AtMostOnePrimary(location)
        /\ \A q \in Slots \ {p} : ~(Raises(task[p]) /\ Raises(task[q]))
    BY <1>8 DEF SetupInv
  <2>2. CASE t.primary = TRUE
    <3>1. Raises(task[p])
      BY <1>2, <1>3, <2>2, Zenon DEF Raises
    <3>2. \A q \in Slots \ {p} : Knows(task[q], location')
      BY <2>1, <3>1 DEF Knows
    <3>3. \A l \in Locations : location[l].primary => l \in t.off \cup {t.at}
      BY <1>2, <1>3, <2>1, <3>1 DEF Knows
    <3>4. \A l \in Locations : location'[l].primary => l = t.at
      BY <1>5, <3>3
    <3>5. QED
      BY <3>2, <3>4 DEF AtMostOnePrimary
  <2>3. CASE t.primary # TRUE
    <3>1. \A l \in Locations : location'[l].primary => location[l].primary
      BY <1>5, <2>3, Zenon
    <3>2. AtMostOnePrimary(location')
      BY <2>1, <3>1 DEF AtMostOnePrimary
    <3>3. \A q \in Slots : Knows(task[q], location')
      BY <2>1, <3>1 DEF Knows
    <3>4. QED
      BY <3>2, <3>3
  <2>4. QED
    BY <2>2, <2>3
<1>9. alone => \A q \in Slots \ {p} : ~Doing(task[q])
  BY <1>7 DEF SetupInv
<1>10. alone' => compliance' <= 1
  BY <1>3 DEF SetupInv
<1>11. QED
  BY <1>3, <1>6, <1>8, <1>9, <1>10, TaskEnds

LEMMA SaveCafeSets ==
    ASSUME Setup!SetupAssumption, SetupInv, NEW p \in Slots, NEW l \in Locations,
           Setup!SaveCafe(p, l)
    PROVE  SetupInv'
<1>1. /\ Setup!Receive(p) /\ Setup!Finish(p) /\ location' = [location EXCEPT ![l].profile = TRUE]
      /\ UNCHANGED <<business, compliance, progress, promoted>>
  BY DEF Setup!SaveCafe
<1>2. /\ calls' \in 0..SetupCalls /\ alone' \in BOOLEAN
      /\ alone' => alone /\ \A q \in Slots : ~Doing(task[q])
  BY <1>1, ReceiveSetup
<1>3. Setup!TypeOK /\ location \in [Locations -> Setup!Place]
  BY DEF SetupInv, Setup!TypeOK
<1>4. location' \in [Locations -> Setup!Place]
  BY <1>1, <1>3 DEF Setup!Place
<1>5. \A o \in Locations : location'[o].primary <=> location[o].primary
  BY <1>1, <1>3 DEF Setup!Place
<1>6. Setup!TypeOK'
  BY <1>1, <1>2, <1>3, <1>4, LocksFreed DEF Setup!TypeOK
<1>7. ~promoted => AtMostOnePrimary(location') /\ \A q \in Slots : Knows(task[q], location')
  BY <1>5 DEF SetupInv, AtMostOnePrimary, Knows
<1>8. alone' => compliance' <= 1
  BY <1>1, <1>2 DEF SetupInv
<1>9. QED
  BY <1>1, <1>2, <1>6, <1>7, <1>8, TaskEnds

(* An end that leaves the locations as they are. *)
LEMMA OfficeEnds ==
    ASSUME Setup!SetupAssumption, SetupInv, NEW p \in Slots, Setup!Finish(p),
           UNCHANGED <<location, promoted>>,
           business' \in BOOLEAN, compliance' \in Nat,
           progress' \in [compliance : Setup!Status, completed : BOOLEAN],
           calls' \in 0..SetupCalls, alone' \in BOOLEAN,
           alone' => alone /\ \A q \in Slots \ {p} : ~Doing(task[q]),
           alone' => compliance' <= 1
    PROVE  SetupInv'
<1>1. Setup!TypeOK
  BY DEF SetupInv
<1>2. Setup!TypeOK'
  BY <1>1, LocksFreed DEF Setup!TypeOK
<1>3. ~promoted => AtMostOnePrimary(location') /\ \A q \in Slots : Knows(task[q], location')
  BY Zenon DEF SetupInv
<1>4. QED
  BY <1>2, <1>3, TaskEnds

LEMMA SaveBusinessSets ==
    ASSUME Setup!SetupAssumption, SetupInv, NEW p \in Slots, Setup!SaveBusiness(p)
    PROVE  SetupInv'
<1>1. /\ Setup!Receive(p) /\ Setup!Finish(p) /\ business' = TRUE
      /\ UNCHANGED <<location, compliance, progress, promoted>>
  BY DEF Setup!SaveBusiness
<1>2. /\ calls' \in 0..SetupCalls /\ alone' \in BOOLEAN
      /\ alone' => alone /\ \A q \in Slots : ~Doing(task[q])
  BY <1>1, ReceiveSetup
<1>3. /\ business' \in BOOLEAN /\ compliance' \in Nat
      /\ progress' \in [compliance : Setup!Status, completed : BOOLEAN]
      /\ alone' => compliance' <= 1
  BY <1>1, <1>2 DEF SetupInv, Setup!TypeOK
<1>4. QED
  BY <1>1, <1>2, <1>3, OfficeEnds

LEMMA UpdateProgressSets ==
    ASSUME Setup!SetupAssumption, SetupInv, NEW p \in Slots, Setup!UpdateProgress(p)
    PROVE  SetupInv'
<1>1. /\ Setup!Receive(p) /\ Setup!Finish(p)
      /\ UNCHANGED <<location, business, compliance, promoted>>
  BY DEF Setup!UpdateProgress
<1>2. /\ calls' \in 0..SetupCalls /\ alone' \in BOOLEAN
      /\ alone' => alone /\ \A q \in Slots : ~Doing(task[q])
  BY <1>1, ReceiveSetup
<1>3. progress' \in [compliance : Setup!Status, completed : BOOLEAN]
  BY DEF Setup!UpdateProgress
<1>4. /\ business' \in BOOLEAN /\ compliance' \in Nat
      /\ alone' => compliance' <= 1
  BY <1>1, <1>2 DEF SetupInv, Setup!TypeOK
<1>5. QED
  BY <1>1, <1>2, <1>3, <1>4, OfficeEnds

LEMMA FindComplianceSets ==
    ASSUME Setup!SetupAssumption, SetupInv, NEW p \in Slots, NEW given \in BOOLEAN,
           Setup!FindCompliance(p, given)
    PROVE  SetupInv'
<1>1. /\ task \in [Slots -> Setup!Task] /\ task[p] = Setup!Nothing
      /\ calls' \in 0..SetupCalls /\ alone' \in BOOLEAN
      /\ alone' => alone /\ \A q \in Slots : ~Doing(task[q])
  BY ReceiveSetup DEF Setup!FindCompliance
<1>2. PICK some \in BOOLEAN : some <=> compliance > 0
  OBVIOUS
<1>3. (compliance > 0) = some
  BY <1>2
<1>4. PICK new : new = [task[p] EXCEPT !.pc = "comply", !.values = given, !.found = some]
  OBVIOUS
<1>5. task' = [task EXCEPT ![p] = new]
  BY <1>3, <1>4, Zenon DEF Setup!FindCompliance
<1>6. task[p] \in Setup!Task
  BY <1>1, NothingDone
<1>7. new \in Setup!Task /\ new.pc = "comply" /\ new.found = some
  BY <1>2, <1>4, <1>6 DEF Setup!Task
<1>9. UNCHANGED <<location, business, compliance, progress, locked, promoted>>
  BY DEF Setup!FindCompliance, Setup!tables
<1>10. Doing(new) /\ Knows(new, location)
  BY <1>7 DEF Doing, Knows, Raises
<1>11. new.found <=> compliance > 0
  BY <1>2, <1>7, Zenon
<1>12. Checked(new, location, business, compliance, progress.compliance)
  BY <1>7, <1>11 DEF Checked
<1>13. locked' \in [Locations -> Slots \cup {None}] /\ promoted' \in BOOLEAN
  BY <1>9 DEF SetupInv, Setup!TypeOK
<1>14. ~promoted' => (Raises(new) => \A q \in Slots \ {p} : ~Raises(task[q]))
  BY <1>7 DEF Raises
<1>15. QED
  BY <1>1, <1>5, <1>7, <1>9, <1>10, <1>12, <1>13, <1>14, TaskHolds

LEMMA SaveComplianceSets ==
    ASSUME Setup!SetupAssumption, SetupInv, NEW p \in Slots, Setup!SaveCompliance(p)
    PROVE  SetupInv'
<1>1. /\ task[p].pc = "comply" /\ Setup!Finish(p)
      /\ compliance' = compliance + Setup!RowsCreated(task[p].found)
      /\ progress' = [progress EXCEPT !.compliance = IF task[p].values THEN "COMPLETED" ELSE "SKIPPED"]
      /\ UNCHANGED <<location, business, promoted, alone, calls>>
  BY DEF Setup!SaveCompliance, Setup!history
<1>2. Setup!TypeOK
  BY DEF SetupInv
<1>3. progress' \in [compliance : Setup!Status, completed : BOOLEAN]
  <2>1. PICK said : said = IF task[p].values THEN "COMPLETED" ELSE "SKIPPED"
    OBVIOUS
  <2>2. said \in Setup!Status
    BY <2>1 DEF Setup!Status
  <2>3. progress' = [progress EXCEPT !.compliance = said]
    BY <1>1, <2>1
  <2>4. QED
    BY <1>2, <2>2, <2>3 DEF Setup!TypeOK
<1>4. Setup!RowsCreated(task[p].found) \in {0, 1} /\
      (task[p].found => Setup!RowsCreated(task[p].found) = 0)
  BY DEF Setup!RowsCreated
<1>5. compliance' \in Nat
  BY <1>1, <1>2, <1>4 DEF Setup!TypeOK
<1>6. ASSUME alone PROVE compliance' <= 1
  <2>1. (task[p].found <=> compliance > 0) /\ compliance <= 1
    BY <1>1, <1>6 DEF SetupInv, Checked
  <2>2. QED
    BY <1>1, <1>2, <1>4, <2>1 DEF Setup!TypeOK
<1>7. alone => \A q \in Slots \ {p} : ~Doing(task[q])
  BY <1>1 DEF SetupInv, Doing
<1>8. business' \in BOOLEAN /\ calls' \in 0..SetupCalls /\ alone' \in BOOLEAN
  BY <1>1, <1>2 DEF Setup!TypeOK
<1>9. QED
  BY <1>1, <1>3, <1>5, <1>6, <1>7, <1>8, OfficeEnds

LEMMA FindPrimarySets ==
    ASSUME Setup!SetupAssumption, SetupInv, NEW p \in Slots, Setup!FindPrimary(p)
    PROVE  SetupInv'
<1>1. /\ task \in [Slots -> Setup!Task] /\ task[p] = Setup!Nothing
      /\ calls' \in 0..SetupCalls /\ alone' \in BOOLEAN
      /\ alone' => alone /\ \A q \in Slots : ~Doing(task[q])
  BY ReceiveSetup DEF Setup!FindPrimary
<1>2. PICK l \in Locations :
          /\ Setup!CanBePrimary(l)
          /\ task' = [task EXCEPT ![p] = [@ EXCEPT !.pc = "cafe", !.at = l]]
  BY Zenon DEF Setup!FindPrimary
<1>3. PICK new : new = [task[p] EXCEPT !.pc = "cafe", !.at = l]
  OBVIOUS
<1>4. task[p] \in Setup!Task
  BY <1>1, NothingDone
<1>5. new \in Setup!Task /\ new.pc = "cafe" /\ new.at = l
  BY <1>3, <1>4 DEF Setup!Task
<1>6. task' = [task EXCEPT ![p] = new]
  BY <1>2, <1>3, Zenon
<1>7. business /\ UNCHANGED <<location, business, compliance, progress, locked, promoted>>
  BY DEF Setup!FindPrimary, Setup!tables
<1>8. Doing(new) /\ Knows(new, location) /\ ~Raises(new)
  BY <1>5 DEF Doing, Knows, Raises
<1>9. Checked(new, location, business, compliance, progress.compliance)
  BY <1>2, <1>5, <1>7 DEF Checked, Setup!CanBePrimary, Setup!Exists
<1>10. locked' \in [Locations -> Slots \cup {None}] /\ promoted' \in BOOLEAN
  BY <1>7 DEF SetupInv, Setup!TypeOK
<1>11. QED
  BY <1>1, <1>5, <1>6, <1>7, <1>8, <1>9, <1>10, TaskHolds

LEMMA FindCafeSets ==
    ASSUME Setup!SetupAssumption, SetupInv, NEW p \in Slots, Setup!FindCafe(p)
    PROVE  SetupInv'
<1>1. task \in [Slots -> Setup!Task] /\ task[p] \in Setup!Task /\ Setup!TypeOK
  BY DEF SetupInv, Setup!TypeOK
<1>2. PICK new : new = [task[p] EXCEPT !.pc = "read"]
  OBVIOUS
<1>3. new \in Setup!Task /\ new.pc = "read" /\ new.at = task[p].at
  BY <1>1, <1>2 DEF Setup!Task
<1>4. task' = [task EXCEPT ![p] = new]
  BY <1>1, <1>2 DEF Setup!FindCafe
<1>5. /\ task[p].pc = "cafe" /\ location[task[p].at].profile
      /\ UNCHANGED <<location, business, compliance, progress, locked, promoted, alone, calls>>
  BY DEF Setup!FindCafe, Setup!tables, Setup!history
<1>6. Doing(new) /\ Knows(new, location) /\ ~Raises(new)
  BY <1>3 DEF Doing, Knows, Raises
<1>7. alone => Checked(new, location, business, compliance, progress.compliance)
  BY <1>3, <1>5 DEF SetupInv, Checked
<1>8. alone => \A q \in Slots \ {p} : ~Doing(task[q])
  BY <1>5 DEF SetupInv, Doing
<1>9. locked' \in [Locations -> Slots \cup {None}] /\ promoted' \in BOOLEAN /\ alone' \in BOOLEAN
      /\ calls' \in 0..SetupCalls
  BY <1>1, <1>5 DEF Setup!TypeOK
<1>10. QED
  BY <1>3, <1>4, <1>5, <1>6, <1>7, <1>8, <1>9, TaskHolds

LEMMA StatusGiven ==
    ASSUME NEW said \in Setup!Status, NEW some \in BOOLEAN
    PROVE  Setup!CompletedStatus(said, some) \in Setup!Status
BY DEF Setup!CompletedStatus, Setup!Status

LEMMA ReadProgressSets ==
    ASSUME Setup!SetupAssumption, SetupInv, NEW p \in Slots, Setup!ReadProgress(p)
    PROVE  SetupInv'
<1>1. task \in [Slots -> Setup!Task] /\ task[p] \in Setup!Task /\ Setup!TypeOK
  BY DEF SetupInv, Setup!TypeOK
<1>2. PICK said : said = Setup!CompletedStatus(progress.compliance, compliance > 0)
  BY Zenon
<1>3. said \in Setup!Status
  BY <1>1, <1>2 DEF Setup!CompletedStatus, Setup!Status, Setup!TypeOK
<1>4. PICK new : new = [task[p] EXCEPT !.pc = "complete", !.status = said]
  OBVIOUS
<1>5. new \in Setup!Task /\ new.pc = "complete" /\ new.at = task[p].at /\ new.status = said
  BY <1>1, <1>3, <1>4 DEF Setup!Task
<1>6. task' = [task EXCEPT ![p] = new]
  BY <1>2, <1>4, Zenon DEF Setup!ReadProgress
<1>7. /\ task[p].pc = "read"
      /\ UNCHANGED <<location, business, compliance, progress, locked, promoted, alone, calls>>
  BY DEF Setup!ReadProgress, Setup!tables, Setup!history
<1>8. Doing(new) /\ Knows(new, location) /\ ~Raises(new)
  BY <1>5 DEF Doing, Knows, Raises
<1>9. ASSUME alone PROVE Checked(new, location, business, compliance, progress.compliance)
  <2>1. Checked(task[p], location, business, compliance, progress.compliance)
    BY <1>9 DEF SetupInv
  <2>2. new.status = Setup!CompletedStatus(progress.compliance, compliance > 0)
    BY <1>2, <1>5, Zenon
  <2>3. QED
    BY <1>5, <1>7, <2>1, <2>2 DEF Checked
<1>10. alone => \A q \in Slots \ {p} : ~Doing(task[q])
  BY <1>7 DEF SetupInv, Doing
<1>11. locked' \in [Locations -> Slots \cup {None}] /\ promoted' \in BOOLEAN /\ alone' \in BOOLEAN
       /\ calls' \in 0..SetupCalls
  BY <1>1, <1>7 DEF Setup!TypeOK
<1>12. QED
  BY <1>5, <1>6, <1>7, <1>8, <1>9, <1>10, <1>11, TaskHolds

LEMMA CompleteSets ==
    ASSUME Setup!SetupAssumption, SetupInv, NEW p \in Slots, Setup!Complete(p)
    PROVE  SetupInv'
<1>1. task[p] \in Setup!Task /\ Setup!TypeOK
  BY DEF SetupInv, Setup!TypeOK
<1>2. /\ task[p].pc = "complete" /\ Setup!Finish(p)
      /\ progress' = [compliance |-> task[p].status, completed |-> TRUE]
      /\ UNCHANGED <<location, business, compliance, promoted, alone, calls>>
  BY DEF Setup!Complete, Setup!history
<1>3. progress' \in [compliance : Setup!Status, completed : BOOLEAN]
  BY <1>1, <1>2 DEF Setup!Task
<1>4. alone => \A q \in Slots \ {p} : ~Doing(task[q])
  BY <1>2 DEF SetupInv, Doing
<1>5. /\ business' \in BOOLEAN /\ compliance' \in Nat /\ calls' \in 0..SetupCalls
      /\ alone' \in BOOLEAN
  BY <1>1, <1>2 DEF Setup!TypeOK
<1>6. alone' => compliance' <= 1
  BY <1>2 DEF SetupInv
<1>7. QED
  BY <1>2, <1>3, <1>4, <1>5, <1>6, OfficeEnds

LEMMA FailSets ==
    ASSUME Setup!SetupAssumption, SetupInv, NEW p \in Slots, Setup!Fail(p)
    PROVE  SetupInv'
<1>1. /\ Setup!Busy(p) /\ Setup!Finish(p)
      /\ UNCHANGED <<location, business, compliance, progress, promoted, alone, calls>>
  BY DEF Setup!Fail, Setup!tables, Setup!history
<1>2. /\ business' \in BOOLEAN /\ compliance' \in Nat /\ calls' \in 0..SetupCalls
      /\ alone' \in BOOLEAN /\ progress' \in [compliance : Setup!Status, completed : BOOLEAN]
  BY <1>1 DEF SetupInv, Setup!TypeOK
<1>3. alone => \A q \in Slots \ {p} : ~Doing(task[q])
  BY <1>1 DEF SetupInv, Doing, Setup!Busy
<1>4. alone' => compliance' <= 1
  BY <1>1 DEF SetupInv
<1>5. QED
  BY <1>1, <1>2, <1>3, <1>4, OfficeEnds

LEMMA StepSets == Setup!SetupAssumption /\ SetupInv /\ [Setup!Next]_Setup!vars => SetupInv'
<1> SUFFICES ASSUME Setup!SetupAssumption, SetupInv, [Setup!Next]_Setup!vars PROVE SetupInv'
  OBVIOUS
<1>1. CASE UNCHANGED Setup!vars
  <2>1. UNCHANGED <<location, business, compliance, progress, locked, task, calls, promoted, alone>>
    BY <1>1 DEF Setup!vars, Setup!tables, Setup!history
  <2>2. Setup!TypeOK'
    BY <2>1 DEF SetupInv, Setup!TypeOK
  <2>3. QED
    BY <2>1, <2>2, Zenon DEF SetupInv, Knows, Checked, Doing, Raises, AtMostOnePrimary
<1>2. CASE Setup!Next
  <2>1. PICK p \in Slots : Setup!Arrivals(p) \/ Setup!Step(p) \/ Setup!Fail(p)
    BY <1>2, Zenon DEF Setup!Next
  <2>2. CASE Setup!Arrivals(p)
    <3>1. CASE \E l \in Locations : Setup!SaveCafe(p, l)
      BY <3>1, SaveCafeSets
    <3>2. CASE \E l \in Locations, wish \in BOOLEAN \cup {None} : Setup!CreateLocation(p, l, wish)
      BY <3>2, CreateLocationSets, Zenon
    <3>3. CASE \E l \in Locations, wish, open \in BOOLEAN \cup {None} :
                   Setup!UpdateLocation(p, l, wish, open)
      BY <3>3, UpdateLocationSets, Zenon
    <3>4. CASE \E given \in BOOLEAN : Setup!FindCompliance(p, given)
      BY <3>4, FindComplianceSets, Zenon
    <3>5. CASE Setup!SaveBusiness(p) \/ Setup!UpdateProgress(p) \/ Setup!FindPrimary(p)
      BY <3>5, SaveBusinessSets, UpdateProgressSets, FindPrimarySets
    <3>6. QED
      BY <2>2, <3>1, <3>2, <3>3, <3>4, <3>5, Zenon DEF Setup!Arrivals
  <2>3. CASE Setup!Step(p)
    BY <2>3, DemoteSets, SaveLocationSets, SaveComplianceSets, FindCafeSets, ReadProgressSets,
       CompleteSets, Zenon DEF Setup!Step
  <2>4. CASE Setup!Fail(p)
    BY <2>4, FailSets
  <2>5. QED
    BY <2>1, <2>2, <2>3, <2>4
<1>3. QED
  BY <1>1, <1>2

LEMMA InvSets == SetupInv => Setup!TypeOK /\ Setup!OnePrimary /\ Setup!OneComplianceProfile
<1> SUFFICES ASSUME SetupInv PROVE Setup!TypeOK /\ Setup!OnePrimary /\ Setup!OneComplianceProfile
  OBVIOUS
<1>1. Setup!TypeOK /\ Setup!OneComplianceProfile
  BY DEF SetupInv, Setup!OneComplianceProfile
<1>2. ASSUME ~promoted
      PROVE  Setup!Cardinality({l \in Locations : location[l].primary}) <= 1
  <2>1. PICK S : S = {l \in Locations : location[l].primary}
    OBVIOUS
  <2>2. \A l, o \in S : l = o
    BY <1>2, <2>1 DEF SetupInv, AtMostOnePrimary
  <2>3. S = {} \/ \E l : S = {l}
    BY <2>2
  <2>4. Cardinality(S) = 0 \/ Cardinality(S) = 1
    BY <2>3, FS_EmptySet, FS_Singleton
  <2>5. Setup!Cardinality(S) = Cardinality(S)
    BY DEF Cardinality, Setup!Cardinality, IsFiniteSet, Setup!IsFiniteSet
  <2>6. QED
    BY <2>1, <2>4, <2>5
<1>3. QED
  BY <1>1, <1>2 DEF Setup!OnePrimary

LEMMA StepCompletes == SetupInv /\ [Setup!Next]_Setup!vars => Setup!CompletesSetUp
<1> SUFFICES ASSUME SetupInv, NEW p \in Slots, alone, Setup!Complete(p)
             PROVE  /\ Setup!SetUp
                    /\ progress.compliance = "COMPLETED" => progress'.compliance = "COMPLETED"
  BY DEF Setup!CompletesSetUp
<1>1. task[p].pc = "complete" /\ progress' = [compliance |-> task[p].status, completed |-> TRUE]
  BY DEF Setup!Complete
<1>2. Checked(task[p], location, business, compliance, progress.compliance)
  BY DEF SetupInv
<1>3. Setup!SetUp
  BY <1>1, <1>2 DEF Checked, Setup!SetUp
<1>4. task[p].status = Setup!CompletedStatus(progress.compliance, compliance > 0)
  BY <1>1, <1>2, Zenon DEF Checked
<1>5. QED
  BY <1>1, <1>3, <1>4 DEF Setup!CompletedStatus

-----------------------------------------------------------------------------
(* THE TOTALS OF A CLOSING.  The folds of DailyClose are sums of           *)
(* FiniteSums.                                                             *)
Revenues(sheet) == [v \in Variants |-> sheet[v].revenue]
AllCosts(sheet)  == [v \in Variants |-> Day!Cost(v, sheet[v].units)]
Left(sheet, todo) == [v \in Variants |-> IF v \in todo THEN Day!Cost(v, sheet[v].units) ELSE 0]

LEMMA RevenueIsSum ==
    ASSUME IsFiniteSet(Variants), NEW sheet, Revenues(sheet) \in [Variants -> Nat],
           NEW S \in SUBSET Variants, \A v \in Variants \ S : sheet[v].revenue = 0
    PROVE  Day!MapThenSumSet(LAMBDA v : sheet[v].revenue, S) = SumOver(Revenues(sheet), Variants)
<1> DEFINE f == [v \in S |-> sheet[v].revenue]
           P(h) == h = [s \in SUBSET S |->
                          IF s = {} THEN 0
                          ELSE sheet[CHOOSE x \in s : TRUE].revenue + h[s \ {CHOOSE x \in s : TRUE}]]
           total == CHOOSE h : P(h)
<1>1. f \in [S -> Nat] /\ IsFiniteSet(S)
  BY FS_Subset DEF Revenues
<1>2. ASSUME NEW h
      PROVE  P(h) <=> IsSum(f, h, S)
  <2>1. ASSUME NEW s \in SUBSET S
        PROVE  SumStep(f, h, s) = IF s = {} THEN 0
                                  ELSE sheet[CHOOSE x \in s : TRUE].revenue
                                       + h[s \ {CHOOSE x \in s : TRUE}]
    <3>1. CASE s = {}
      BY <3>1 DEF SumStep
    <3>2. CASE s # {}
      <4>1. Any(s) \in s
        BY <3>2, AnyIsIn
      <4>2. f[Any(s)] = sheet[Any(s)].revenue
        BY <4>1
      <4>3. QED
        BY <3>2, <4>2 DEF SumStep, Any
    <3>3. QED
      BY <3>1, <3>2
  <2>2. [s \in SUBSET S |-> SumStep(f, h, s)]
          = [s \in SUBSET S |->
                IF s = {} THEN 0
                ELSE sheet[CHOOSE x \in s : TRUE].revenue + h[s \ {CHOOSE x \in s : TRUE}]]
    BY <2>1
  <2>3. QED
    BY <2>2 DEF IsSum
<1>3. \E h : P(h)
  <2> HIDE DEF P, f
  <2>1. QED
    BY <1>1, <1>2, SumExists
<1>4. P(total)
  <2> HIDE DEF P
  <2>1. QED
    BY <1>3
<1>5. IsSum(f, total, S)
  <2> HIDE DEF P, f, total
  <2>1. QED
    BY <1>2, <1>4
<1>6. Day!MapThenSumSet(LAMBDA v : sheet[v].revenue, S) = total[S]
  BY DEF Day!MapThenSumSet, Day!MapThenFoldSet
<1>7. \A x \in S : f[x] = Revenues(sheet)[x]
  BY DEF Revenues
<1>8. \A x \in Variants \ S : Revenues(sheet)[x] = 0
  BY DEF Revenues
<1>9. total[S] = SumOver(Revenues(sheet), Variants)
  <2> HIDE DEF f, total
  <2>1. QED
    BY <1>5, <1>7, <1>8, SumOverPart
<1>10. QED
  BY <1>6, <1>9

LEMMA CostIsSum ==
    ASSUME IsFiniteSet(Variants), AllCosts(entry) \in [Variants -> Nat]
    PROVE  Day!DayCost = SumOver(AllCosts(entry), Variants)
<1> DEFINE f == [v \in Variants |-> Day!Cost(v, entry[v].units)]
           P(h) == h = [s \in SUBSET Variants |->
                          IF s = {} THEN 0
                          ELSE Day!Cost(CHOOSE x \in s : TRUE, entry[CHOOSE x \in s : TRUE].units)
                               + h[s \ {CHOOSE x \in s : TRUE}]]
           total == CHOOSE h : P(h)
<1>1. f \in [Variants -> Nat] /\ AllCosts(entry) = f
  BY DEF AllCosts
<1>2. ASSUME NEW h
      PROVE  P(h) <=> IsSum(f, h, Variants)
  <2>1. ASSUME NEW s \in SUBSET Variants
        PROVE  SumStep(f, h, s) = IF s = {} THEN 0
                 ELSE Day!Cost(CHOOSE x \in s : TRUE, entry[CHOOSE x \in s : TRUE].units)
                      + h[s \ {CHOOSE x \in s : TRUE}]
    <3>1. CASE s = {}
      BY <3>1 DEF SumStep
    <3>2. CASE s # {}
      <4>1. Any(s) \in s
        BY <3>2, AnyIsIn
      <4>2. f[Any(s)] = Day!Cost(Any(s), entry[Any(s)].units)
        BY <4>1
      <4>3. QED
        BY <3>2, <4>2 DEF SumStep, Any
    <3>3. QED
      BY <3>1, <3>2
  <2>2. [s \in SUBSET Variants |-> SumStep(f, h, s)]
          = [s \in SUBSET Variants |->
                IF s = {} THEN 0
                ELSE Day!Cost(CHOOSE x \in s : TRUE, entry[CHOOSE x \in s : TRUE].units)
                     + h[s \ {CHOOSE x \in s : TRUE}]]
    BY <2>1
  <2>3. QED
    BY <2>2 DEF IsSum
<1>3. \E h : P(h)
  <2> HIDE DEF P, f
  <2>1. QED
    BY <1>1, <1>2, SumExists
<1>4. P(total)
  <2> HIDE DEF P
  <2>1. QED
    BY <1>3
<1>5. IsSum(f, total, Variants)
  <2> HIDE DEF P, f, total
  <2>1. QED
    BY <1>2, <1>4
<1>6. Day!DayCost = total[Variants]
  BY DEF Day!DayCost, Day!MapThenSumSet, Day!MapThenFoldSet
<1>9. total[Variants] = SumOver(f, Variants)
  <2> HIDE DEF f, total
  <2>1. Variants \in SUBSET Variants /\ \A x \in Variants \ Variants : f[x] = 0
    OBVIOUS
  <2>2. QED
    BY <1>1, <1>5, <2>1, SumOverPart
<1>10. QED
  BY <1>1, <1>6, <1>9

LEMMA NothingAddsUp ==
    ASSUME NEW S, IsFiniteSet(S), NEW f \in [S -> Nat], \A x \in S : f[x] = 0
    PROVE  SumOver(f, S) = 0
<1>1. PICK g : IsSum(f, g, S) /\ SumOver(f, S) = g[S]
  BY SumOverIs
<1>2. g[{}] = 0
  BY <1>1 DEF IsSum, SumStep
<1>3. g[S] = g[{}]
  BY <1>1, SumWithoutZeros
<1>4. QED
  BY <1>1, <1>2, <1>3

(* A closing that has read the sales holds the entries of the day, and the *)
(* costs it summed and those it has yet to sum are the costs of the day.   *)
Summed(s) == s.pc = "read" =>
    /\ "sales" \in s.needs => s.todo = {} /\ s.sum.cogs = 0
    /\ "sales" \notin s.needs =>
          /\ s.sheet = entry /\ s.todo \subseteq Day!Sold(entry)
          /\ s.sum.sales = Day!SalesTotal(entry, s.manual)
          /\ s.sum.cogs + SumOver(Left(entry, s.todo), Variants) = SumOver(AllCosts(entry), Variants)

Captured(s) ==
    /\ s.pc = "idle" => s = Day!Free
    /\ s.pc = "sale" => s.variant \in Variants /\ s.price \in Prices
    /\ s.pc = "read" => s.stamp \in Stamps

DayTables ==
    /\ entry \in [Variants -> Day!Entry]
    /\ \A v \in Variants : entry[v].units = 0 => entry[v].revenue = 0
    /\ local \in [Variants -> Prices \cup {None}]
    /\ rate \in [Variants -> Prices \cup {None}]
    /\ waste \in [standing : Nat, voided : Nat]
    /\ day \in [Stamps -> [status : {"none", "DRAFT", "CLOSED"}, totals : Day!Totals]]
    /\ calls \in 0..DayCalls
    /\ closings \in [Stamps -> Nat] /\ seeded \subseteq Stamps /\ alone \in BOOLEAN

DayInv ==
    /\ DayTables
    /\ slot \in [Slots -> Day!Slot]
    /\ \A p \in Slots : Captured(slot[p])
    /\ alone => \A p, q \in Slots : slot[p].pc # "idle" /\ slot[q].pc # "idle" => p = q
    /\ alone => \A p \in Slots : Summed(slot[p])

LEMMA FreeDay ==
    ASSUME Day!DayAssumption
    PROVE  Day!Free \in Day!Slot /\ Day!Free.pc = "idle"
BY DEF Day!Free, Day!Slot, Day!Zero, Day!Totals, Day!NoSale, Day!Entry

LEMMA InitSums ==
    ASSUME Day!DayAssumption, Day!Init
    PROVE  DayInv
<1>1. Day!Zero \in Day!Totals
  BY DEF Day!Zero, Day!Totals
<1>2. day \in [Stamps -> [status : {"none", "DRAFT"}, totals : {Day!Zero}]]
  BY DEF Day!Init
<1>3. day \in [Stamps -> [status : {"none", "DRAFT", "CLOSED"}, totals : Day!Totals]]
  BY <1>1, <1>2
<1>4. waste \in [standing : Nat, voided : Nat]
  BY DEF Day!Init
<1>5. DayTables
  BY <1>3, <1>4 DEF Day!Init, DayTables, Day!NoSale, Day!Entry, Day!DayAssumption
<1>6. QED
  BY <1>5, FreeDay DEF Day!Init, DayInv, Captured, Summed

(* A step of one request: the others, when they do not overlap, are idle.  *)
LEMMA DayEnds ==
    ASSUME DayInv, NEW p \in Slots, NEW new \in Day!Slot, Captured(new), DayTables',
           slot' = [slot EXCEPT ![p] = new],
           alone' => \A q \in Slots \ {p} : slot[q].pc = "idle",
           alone' => Summed(new)'
    PROVE  DayInv'
<1>1. slot' \in [Slots -> Day!Slot] /\ \A q \in Slots : slot'[q] = IF q = p THEN new ELSE slot[q]
  BY DEF DayInv
<1>2. \A q \in Slots : Captured(slot[q])'
  BY <1>1 DEF DayInv, Captured
<1>3. alone' => \A q \in Slots : Summed(slot[q])'
  BY <1>1 DEF Summed
<1>4. alone' => \A q, r \in Slots : slot'[q].pc # "idle" /\ slot'[r].pc # "idle" => q = r
  BY <1>1
<1>5. QED
  BY <1>1, <1>2, <1>3, <1>4 DEF DayInv

LEMMA RevenueTyped ==
    ASSUME IsFiniteSet(Variants), DayTables
    PROVE  /\ Revenues(entry) \in [Variants -> Nat]
           /\ Day!MapThenSumSet(LAMBDA v : entry[v].revenue, Day!Sold(entry))
                = SumOver(Revenues(entry), Variants)
           /\ Day!MapThenSumSet(LAMBDA v : entry[v].revenue, Variants)
                = SumOver(Revenues(entry), Variants)
           /\ SumOver(Revenues(entry), Variants) \in Nat
<1>1. Revenues(entry) \in [Variants -> Nat]
  BY DEF Revenues, DayTables, Day!Entry
<1>2. Day!Sold(entry) \in SUBSET Variants /\ \A v \in Variants \ Day!Sold(entry) : entry[v].revenue = 0
  BY DEF Day!Sold, DayTables
<1>3. Variants \in SUBSET Variants /\ \A v \in Variants \ Variants : entry[v].revenue = 0
  OBVIOUS
<1>4. QED
  BY <1>1, <1>2, <1>3, RevenueIsSum, SumOverNatural

LEMMA CostTyped ==
    ASSUME Day!DayAssumption, DayTables, NEW v \in Variants, NEW units \in Units \cup {0}
    PROVE  Day!Cost(v, units) \in Nat /\ (units = 0 => Day!Cost(v, units) = 0)
<1>1. units \in Nat
  BY DEF Day!DayAssumption
<1>2. CASE rate[v] = None
  BY <1>2 DEF Day!Cost
<1>3. CASE rate[v] # None
  <2>1. rate[v] \in Nat
    BY <1>3 DEF DayTables, Day!DayAssumption
  <2>2. QED
    BY <1>1, <1>3, <2>1 DEF Day!Cost
<1>4. QED
  BY <1>2, <1>3

LEMMA CostsTyped ==
    ASSUME Day!DayAssumption, DayTables
    PROVE  /\ AllCosts(entry) \in [Variants -> Nat]
           /\ \A todo : Left(entry, todo) \in [Variants -> Nat]
           /\ Left(entry, Day!Sold(entry)) = AllCosts(entry)
<1>1. \A v \in Variants : entry[v].units \in Units \cup {0}
  BY DEF DayTables, Day!Entry
<1>2. \A v \in Variants : /\ Day!Cost(v, entry[v].units) \in Nat
                          /\ entry[v].units = 0 => Day!Cost(v, entry[v].units) = 0
  BY <1>1, CostTyped
<1>3. \A v \in Variants :
         Day!Cost(v, entry[v].units)
           = IF v \in Day!Sold(entry) THEN Day!Cost(v, entry[v].units) ELSE 0
  BY <1>2 DEF Day!Sold
<1>4. Left(entry, Day!Sold(entry)) = AllCosts(entry)
  BY <1>3 DEF Left, AllCosts
<1>5. QED
  BY <1>2, <1>4 DEF Left, AllCosts

(* The tables of a step that changes none. *)
LEMMA DayStays ==
    ASSUME DayTables, UNCHANGED <<Day!tables, calls, Day!history>>
    PROVE  DayTables'
BY DEF DayTables, Day!tables, Day!history

LEMMA ReceiveDay ==
    ASSUME Day!DayAssumption, DayInv, NEW p \in Slots, Day!Receive(p)
    PROVE  /\ slot[p] = Day!Free /\ calls' \in 0..DayCalls /\ alone' \in BOOLEAN
           /\ alone' => \A q \in Slots : slot[q].pc = "idle"
<1>1. calls' \in 0..DayCalls
  BY DEF Day!Receive, DayInv, DayTables, Day!DayAssumption
<1>2. (alone /\ \A q \in Slots : slot[q].pc = "idle") \in BOOLEAN
  OBVIOUS
<1>3. QED
  BY <1>1, <1>2, Zenon DEF Day!Receive, DayInv, Captured

LEMMA CaptureSums ==
    ASSUME Day!DayAssumption, DayInv, NEW p \in Slots, NEW v \in Variants, NEW units \in Units,
           NEW wanted \in Prices \cup {None}, Day!CaptureSale(p, v, units, wanted)
    PROVE  DayInv'
<1>1. /\ slot[p] = Day!Free /\ calls' \in 0..DayCalls /\ alone' \in BOOLEAN
      /\ alone' => \A q \in Slots : slot[q].pc = "idle"
  BY ReceiveDay DEF Day!CaptureSale
<1>2. PICK amount : amount = IF wanted = None THEN local[v] ELSE wanted
  OBVIOUS
<1>3. amount \in Prices
  BY <1>2 DEF Day!CaptureSale, DayInv, DayTables
<1>4. PICK new : new = [Day!Free EXCEPT !.pc = "sale", !.variant = v, !.units = units,
                                        !.price = amount]
  OBVIOUS
<1>5. slot' = [slot EXCEPT ![p] = new]
  BY <1>1, <1>2, <1>4 DEF Day!CaptureSale
<1>6. Day!Free \in Day!Slot
  BY FreeDay
<1>7. new \in Day!Slot /\ new.pc = "sale" /\ new.variant = v /\ new.price = amount
  BY <1>3, <1>4, <1>6 DEF Day!Slot
<1>8. Captured(new) /\ Summed(new)'
  BY <1>3, <1>7 DEF Captured, Summed
<1>9. DayTables'
  BY <1>1 DEF DayInv, DayTables, Day!CaptureSale, Day!tables
<1>10. QED
  BY <1>1, <1>5, <1>7, <1>8, <1>9, DayEnds

LEMMA UpsertSums ==
    ASSUME Day!DayAssumption, DayInv, NEW p \in Slots, Day!UpsertEntry(p)
    PROVE  DayInv'
<1>1. /\ slot[p] \in Day!Slot /\ slot[p].variant \in Variants /\ slot[p].price \in Prices
      /\ slot[p].pc = "sale"
  BY DEF DayInv, Captured, Day!UpsertEntry
<1>2. slot[p].units \in Units \cup {0} /\ slot[p].units \in Nat /\ slot[p].price \in Nat
  BY <1>1 DEF Day!Slot, Day!DayAssumption
<1>3. PICK sold : sold = Day!NewEntry(slot[p])
  OBVIOUS
<1>4. sold \in Day!Entry /\ (sold.units = 0 => sold.revenue = 0)
  BY <1>2, <1>3 DEF Day!NewEntry, Day!Entry
<1>5. entry' = [entry EXCEPT ![slot[p].variant] = sold]
  BY <1>3 DEF Day!UpsertEntry
<1>6. /\ entry' \in [Variants -> Day!Entry]
      /\ \A v \in Variants : entry'[v].units = 0 => entry'[v].revenue = 0
  BY <1>1, <1>4, <1>5 DEF DayInv, DayTables
<1>7. DayTables'
  BY <1>6 DEF DayInv, DayTables, Day!UpsertEntry, Day!history
<1>8. slot' = [slot EXCEPT ![p] = Day!Free] /\ alone' = alone
  BY DEF Day!UpsertEntry, Day!Finish, Day!history
<1>9. Captured(Day!Free) /\ Summed(Day!Free)' /\ Day!Free \in Day!Slot
  BY FreeDay DEF Captured, Summed
<1>10. alone' => \A q \in Slots \ {p} : slot[q].pc = "idle"
  BY <1>1, <1>8 DEF DayInv
<1>11. QED
  BY <1>7, <1>8, <1>9, <1>10, DayEnds

LEMMA EnvironmentSums ==
    ASSUME Day!DayAssumption, DayInv, NEW p \in Slots, Day!Environment(p)
    PROVE  DayInv'
<1>1. /\ slot[p] = Day!Free /\ calls' \in 0..DayCalls /\ alone' \in BOOLEAN
      /\ alone' => \A q \in Slots : slot[q].pc = "idle"
  BY ReceiveDay DEF Day!Environment
<1>2. waste' \in [standing : Nat, voided : Nat]
  BY DEF DayInv, DayTables, Day!Environment
<1>3. local' \in [Variants -> Prices \cup {None}] /\ rate' \in [Variants -> Prices \cup {None}]
  BY DEF DayInv, DayTables, Day!Environment
<1>4. DayTables'
  BY <1>1, <1>2, <1>3 DEF DayInv, DayTables, Day!Environment
<1>5. UNCHANGED slot
  BY DEF Day!Environment
<1>6. QED
  BY <1>1, <1>4, <1>5 DEF DayInv, Captured, Summed

LEMMA FindDaySums ==
    ASSUME Day!DayAssumption, DayInv, NEW p \in Slots, NEW stamp \in Stamps,
           NEW manual \in Labour, NEW labour \in Labour, Day!FindDay(p, stamp, manual, labour)
    PROVE  DayInv'
<1>1. /\ slot[p] = Day!Free /\ calls' \in 0..DayCalls /\ alone' \in BOOLEAN
      /\ alone' => \A q \in Slots : slot[q].pc = "idle"
  BY ReceiveDay DEF Day!FindDay
<1>2. PICK new : new = [Day!Free EXCEPT !.pc = "read", !.stamp = stamp,
                   !.found = day[stamp].status, !.manual = manual, !.labour = labour,
                   !.needs = {"sales", "waste"}]
  OBVIOUS
<1>3. slot' = [slot EXCEPT ![p] = new]
  BY <1>1, <1>2 DEF Day!FindDay
<1>4. Day!Free \in Day!Slot /\ manual \in Nat /\ labour \in Nat
      /\ day[stamp].status \in {"none", "DRAFT", "CLOSED"}
  BY FreeDay DEF Day!DayAssumption, DayInv, DayTables
<1>5. new \in Day!Slot /\ new.pc = "read" /\ new.stamp = stamp /\ new.needs = {"sales", "waste"}
      /\ new.todo = Day!Free.todo /\ new.sum = Day!Free.sum
  BY <1>2, <1>4 DEF Day!Slot
<1>6. Captured(new) /\ Summed(new)'
  BY <1>5 DEF Captured, Summed, Day!Free, Day!Zero
<1>7. DayTables'
  BY <1>1 DEF DayInv, DayTables, Day!FindDay, Day!tables
<1>8. QED
  BY <1>1, <1>3, <1>5, <1>6, <1>7, DayEnds

LEMMA FiniteVariants == Day!DayAssumption => IsFiniteSet(Variants)
BY DEF Day!DayAssumption, Day!IsFiniteSet, IsFiniteSet

LEMMA SummedStays ==
    ASSUME NEW s, UNCHANGED <<entry, rate>>
    PROVE  Summed(s)' <=> Summed(s)
<1>1. AllCosts(entry)' = AllCosts(entry)
  BY DEF AllCosts, Day!Cost
<1>2. Left(entry, s.todo)' = Left(entry, s.todo)
  BY DEF Left, Day!Cost
<1>3. SumOver(AllCosts(entry), Variants)' = SumOver(AllCosts(entry), Variants)
      /\ SumOver(Left(entry, s.todo), Variants)' = SumOver(Left(entry, s.todo), Variants)
  BY <1>1, <1>2
<1>4. Day!SalesTotal(entry, s.manual)' = Day!SalesTotal(entry, s.manual)
      /\ Day!Sold(entry)' = Day!Sold(entry)
  OBVIOUS
<1>5. QED
  BY <1>3, <1>4 DEF Summed

(* A closing in progress, and the steps that read for it. *)
LEMMA ReadingDay ==
    ASSUME DayInv, NEW p \in Slots, slot[p].pc = "read",
           UNCHANGED <<Day!tables, calls, Day!history>>,
           NEW new \in Day!Slot, new.pc = "read", new.stamp = slot[p].stamp,
           slot' = [slot EXCEPT ![p] = new], alone => Summed(new)
    PROVE  DayInv'
<1>1. DayTables' /\ alone' = alone /\ entry' = entry /\ rate' = rate
  BY DayStays DEF DayInv, Day!tables, Day!history
<1>2. Captured(new)
  BY DEF DayInv, Captured
<1>3. alone' => \A q \in Slots \ {p} : slot[q].pc = "idle"
  BY <1>1 DEF DayInv
<1>4. Summed(new)' <=> Summed(new)
  BY <1>1, SummedStays
<1>5. QED
  BY <1>1, <1>2, <1>3, <1>4, DayEnds

LEMMA ReadSalesSums ==
    ASSUME Day!DayAssumption, DayInv, NEW p \in Slots, Day!ReadSales(p)
    PROVE  DayInv'
<1>1. slot[p] \in Day!Slot /\ slot[p].pc = "read" /\ "sales" \in slot[p].needs
      /\ UNCHANGED <<Day!tables, calls, Day!history>>
  BY DEF DayInv, Day!ReadSales
<1>2. PICK total : total = Day!SalesTotal(entry, slot[p].manual)
  OBVIOUS
<1>3. total \in Nat
  <2>1. slot[p].manual \in Nat
    BY <1>1 DEF Day!Slot
  <2>2. CASE Day!Sold(entry) = {}
    BY <1>2, <2>1, <2>2 DEF Day!SalesTotal
  <2>3. CASE Day!Sold(entry) # {}
    <3>1. total = Day!MapThenSumSet(LAMBDA v : entry[v].revenue, Day!Sold(entry))
      BY <1>2, <2>3 DEF Day!SalesTotal
    <3>2. QED
      BY <3>1, FiniteVariants, RevenueTyped DEF DayInv
  <2>4. QED
    BY <2>2, <2>3
<1>4. PICK new : new = [slot[p] EXCEPT !.needs = slot[p].needs \ {"sales"},
                   !.sheet = entry, !.todo = Day!Sold(entry),
                   !.sum = [slot[p].sum EXCEPT !.sales = total]]
  OBVIOUS
<1>5. slot' = [slot EXCEPT ![p] = new]
  BY <1>2, <1>4 DEF Day!ReadSales
<1>6. Day!Sold(entry) \in SUBSET Variants /\ entry \in [Variants -> Day!Entry]
      /\ slot[p].needs \in SUBSET {"sales", "waste"} /\ slot[p].sum \in Day!Totals
  BY <1>1 DEF Day!Sold, DayInv, DayTables, Day!Slot
<1>7. /\ new \in Day!Slot /\ new.pc = "read" /\ new.stamp = slot[p].stamp
      /\ new.needs = slot[p].needs \ {"sales"} /\ new.sheet = entry
      /\ new.todo = Day!Sold(entry) /\ new.manual = slot[p].manual
  BY <1>1, <1>4, <1>6, <1>3 DEF Day!Slot, Day!Totals
<1>8. new.sum.sales = total /\ new.sum.cogs = slot[p].sum.cogs
  BY <1>1, <1>4, <1>6 DEF Day!Slot, Day!Totals
<1>9. ASSUME alone PROVE Summed(new)
  <2>1. slot[p].sum.cogs = 0
    BY <1>1, <1>9 DEF DayInv, Summed
  <2>2. Left(entry, new.todo) = AllCosts(entry) /\ AllCosts(entry) \in [Variants -> Nat]
    BY <1>7, CostsTyped DEF DayInv
  <2>3. SumOver(AllCosts(entry), Variants) \in Nat
    BY <2>2, SumOverNatural, FiniteVariants
  <2>4. new.sum.cogs + SumOver(Left(entry, new.todo), Variants) = SumOver(AllCosts(entry), Variants)
    BY <1>8, <2>1, <2>2, <2>3
  <2>5. "sales" \notin new.needs
    BY <1>7
  <2>6. QED
    BY <1>2, <1>7, <1>8, <2>4, <2>5 DEF Summed
<1>10. QED
  BY <1>1, <1>5, <1>7, <1>9, ReadingDay

LEMMA ReadWasteSums ==
    ASSUME Day!DayAssumption, DayInv, NEW p \in Slots, Day!ReadWaste(p)
    PROVE  DayInv'
<1>1. slot[p] \in Day!Slot /\ slot[p].pc = "read"
      /\ UNCHANGED <<Day!tables, calls, Day!history>>
  BY DEF DayInv, Day!ReadWaste
<1>2. PICK total : total = waste.standing + waste.voided
  OBVIOUS
<1>3. total \in Nat
  BY <1>2 DEF DayInv, DayTables
<1>4. PICK new : new = [slot[p] EXCEPT !.needs = slot[p].needs \ {"waste"},
                   !.sum = [slot[p].sum EXCEPT !.waste = total]]
  OBVIOUS
<1>5. slot' = [slot EXCEPT ![p] = new]
  BY <1>2, <1>4 DEF Day!ReadWaste
<1>6. slot[p].needs \in SUBSET {"sales", "waste"} /\ slot[p].sum \in Day!Totals
  BY <1>1 DEF Day!Slot
<1>7. /\ new \in Day!Slot /\ new.pc = "read" /\ new.stamp = slot[p].stamp
      /\ new.needs = slot[p].needs \ {"waste"} /\ new.sheet = slot[p].sheet
      /\ new.todo = slot[p].todo /\ new.manual = slot[p].manual
  BY <1>1, <1>4, <1>6, <1>3 DEF Day!Slot, Day!Totals
<1>8. new.sum.sales = slot[p].sum.sales /\ new.sum.cogs = slot[p].sum.cogs
  BY <1>1, <1>4, <1>6 DEF Day!Slot, Day!Totals
<1>9. alone => Summed(slot[p])
  BY DEF DayInv
<1>10. alone => Summed(new)
  BY <1>1, <1>7, <1>8, <1>9 DEF Summed
<1>11. QED
  BY <1>1, <1>5, <1>7, <1>10, ReadingDay

LEMMA CostSums ==
    ASSUME Day!DayAssumption, DayInv, NEW p \in Slots, NEW v \in Variants, Day!CostVariant(p, v)
    PROVE  DayInv'
<1>1. slot[p] \in Day!Slot /\ slot[p].pc = "read" /\ slot[p].needs = {} /\ v \in slot[p].todo
      /\ UNCHANGED <<Day!tables, calls, Day!history>>
  BY DEF DayInv, Day!CostVariant
<1>2. PICK cost : cost = Day!Cost(v, slot[p].sheet[v].units)
  OBVIOUS
<1>3. slot[p].sheet[v].units \in Units \cup {0}
  BY <1>1 DEF Day!Slot, Day!Entry
<1>4. cost \in Nat
  BY <1>2, <1>3, CostTyped DEF DayInv
<1>5. PICK new : new = [slot[p] EXCEPT !.todo = slot[p].todo \ {v},
                   !.sum = [slot[p].sum EXCEPT !.cogs = slot[p].sum.cogs + cost]]
  OBVIOUS
<1>6. slot' = [slot EXCEPT ![p] = new]
  BY <1>2, <1>5 DEF Day!CostVariant
<1>7. slot[p].todo \in SUBSET Variants /\ slot[p].sum \in Day!Totals /\ slot[p].sum.cogs \in Nat
  BY <1>1 DEF Day!Slot, Day!Totals
<1>8. [slot[p].sum EXCEPT !.cogs = slot[p].sum.cogs + cost] \in Day!Totals
  BY <1>4, <1>7 DEF Day!Totals
<1>9. /\ new \in Day!Slot /\ new.pc = "read" /\ new.stamp = slot[p].stamp
      /\ new.needs = slot[p].needs /\ new.sheet = slot[p].sheet
      /\ new.todo = slot[p].todo \ {v} /\ new.manual = slot[p].manual
  <2>1. slot[p].todo \ {v} \in SUBSET Variants
    BY <1>7
  <2>2. PICK rest, sum : rest = slot[p].todo \ {v}
                         /\ sum = [slot[p].sum EXCEPT !.cogs = slot[p].sum.cogs + cost]
    OBVIOUS
  <2>3. QED
    BY <1>1, <1>5, <1>8, <2>1, <2>2 DEF Day!Slot
<1>10. new.sum.sales = slot[p].sum.sales /\ new.sum.cogs = slot[p].sum.cogs + cost
  BY <1>1, <1>5, <1>7 DEF Day!Slot, Day!Totals
<1>11. ASSUME alone PROVE Summed(new)
  <2>1. /\ slot[p].sheet = entry /\ slot[p].todo \subseteq Day!Sold(entry)
        /\ slot[p].sum.sales = Day!SalesTotal(entry, slot[p].manual)
        /\ slot[p].sum.cogs + SumOver(Left(entry, slot[p].todo), Variants)
             = SumOver(AllCosts(entry), Variants)
    BY <1>1, <1>11 DEF DayInv, Summed
  <2>2. PICK before, after : before = Left(entry, slot[p].todo) /\ after = Left(entry, new.todo)
    OBVIOUS
  <2>3. before \in [Variants -> Nat] /\ after \in [Variants -> Nat]
    BY <2>2, CostsTyped DEF DayInv
  <2>4. before[v] = cost /\ after[v] = 0 /\ \A w \in Variants \ {v} : after[w] = before[w]
    BY <1>1, <1>2, <1>9, <2>1, <2>2 DEF Left
  <2>5. SumOver(after, Variants) + before[v] = SumOver(before, Variants) + after[v]
    BY <2>3, <2>4, SumOverChange, FiniteVariants
  <2>6. SumOver(after, Variants) \in Nat /\ SumOver(before, Variants) \in Nat
    BY <2>3, SumOverNatural, FiniteVariants
  <2>7. SumOver(before, Variants) = SumOver(after, Variants) + cost
    BY <1>4, <2>4, <2>5, <2>6
  <2>8. new.sum.cogs + SumOver(after, Variants) = slot[p].sum.cogs + SumOver(before, Variants)
    BY <1>4, <1>7, <1>10, <2>6, <2>7
  <2>9. new.sum.cogs + SumOver(Left(entry, new.todo), Variants) = SumOver(AllCosts(entry), Variants)
    BY <2>1, <2>2, <2>8
  <2>10. new.todo \subseteq Day!Sold(entry) /\ "sales" \notin new.needs
    BY <1>1, <1>9, <2>1
  <2>11. QED
    BY <1>9, <1>10, <2>1, <2>9, <2>10 DEF Summed
<1>12. QED
  BY <1>1, <1>6, <1>9, <1>11, ReadingDay

LEMMA WriteSums ==
    ASSUME Day!DayAssumption, DayInv, NEW p \in Slots, Day!WriteClose(p)
    PROVE  DayInv'
<1>1. /\ slot[p] \in Day!Slot /\ slot[p].pc = "read" /\ slot[p].stamp \in Stamps
      /\ slot' = [slot EXCEPT ![p] = Day!Free]
      /\ UNCHANGED <<entry, local, rate, waste, calls, seeded, alone>>
  BY DEF DayInv, Captured, Day!WriteClose, Day!Finish
<1>2. PICK closed : closed = [status |-> "CLOSED",
          totals |-> [slot[p].sum EXCEPT !.net = Day!Net(slot[p].sum, slot[p].labour)]]
  OBVIOUS
<1>3. slot[p].sum \in Day!Totals /\ slot[p].labour \in Nat
  BY <1>1 DEF Day!Slot
<1>4. Day!Net(slot[p].sum, slot[p].labour) \in Int
  BY <1>3 DEF Day!Net, Day!Totals
<1>5. closed \in [status : {"none", "DRAFT", "CLOSED"}, totals : Day!Totals]
  BY <1>2, <1>3, <1>4 DEF Day!Totals
<1>6. /\ day' = [day EXCEPT ![slot[p].stamp] = closed] \/ day' = day
      /\ closings' = [closings EXCEPT ![slot[p].stamp] = @ + 1] \/ closings' = closings
  BY <1>2 DEF Day!WriteClose
<1>7. day' \in [Stamps -> [status : {"none", "DRAFT", "CLOSED"}, totals : Day!Totals]]
      /\ closings' \in [Stamps -> Nat]
  BY <1>1, <1>5, <1>6 DEF DayInv, DayTables
<1>8. DayTables'
  BY <1>1, <1>7 DEF DayInv, DayTables
<1>9. Captured(Day!Free) /\ Summed(Day!Free)' /\ Day!Free \in Day!Slot
  BY FreeDay DEF Captured, Summed
<1>10. alone' => \A q \in Slots \ {p} : slot[q].pc = "idle"
  BY <1>1 DEF DayInv
<1>11. QED
  BY <1>1, <1>8, <1>9, <1>10, DayEnds

LEMMA FailSums ==
    ASSUME Day!DayAssumption, DayInv, NEW p \in Slots, Day!Fail(p)
    PROVE  DayInv'
<1>1. /\ slot[p].pc # "idle" /\ slot' = [slot EXCEPT ![p] = Day!Free]
      /\ UNCHANGED <<Day!tables, calls, Day!history>> /\ alone' = alone
  BY DEF Day!Fail, Day!Finish, Day!history
<1>2. DayTables'
  BY <1>1, DayStays DEF DayInv
<1>3. Captured(Day!Free) /\ Summed(Day!Free)' /\ Day!Free \in Day!Slot
  BY FreeDay DEF Captured, Summed
<1>4. alone' => \A q \in Slots \ {p} : slot[q].pc = "idle"
  BY <1>1 DEF DayInv
<1>5. QED
  BY <1>1, <1>2, <1>3, <1>4, DayEnds

LEMMA StepSums ==
    ASSUME Day!DayAssumption, DayInv, [Day!Next]_Day!vars
    PROVE  DayInv'
<1>1. CASE UNCHANGED Day!vars
  <2>1. UNCHANGED <<slot, Day!tables, calls, Day!history>>
    BY <1>1 DEF Day!vars
  <2>2. UNCHANGED <<slot, entry, rate, alone>>
    BY <2>1 DEF Day!tables, Day!history
  <2>3. DayTables'
    BY <2>1, DayStays DEF DayInv
  <2>4. ASSUME NEW s PROVE Summed(s)' <=> Summed(s)
    BY <2>2, SummedStays
  <2>5. alone' => \A p \in Slots : Summed(slot[p])'
    <3>1. ASSUME alone', NEW p \in Slots PROVE Summed(slot[p])'
      <4>1. PICK new : new = slot[p]
        OBVIOUS
      <4>2. Summed(new)
        BY <2>2, <3>1, <4>1 DEF DayInv
      <4>3. Summed(new)'
        BY <2>4, <4>2
      <4>4. new = slot'[p]
        BY <2>2, <4>1
      <4>5. QED
        BY <4>3, <4>4 DEF Summed
    <3>2. QED
      BY <3>1
  <2>6. QED
    BY <2>2, <2>3, <2>5 DEF DayInv, Captured
<1>2. CASE Day!Next
  <2>1. PICK p \in Slots : Day!Arrivals(p) \/ Day!Step(p) \/ Day!Fail(p)
    BY <1>2 DEF Day!Next
  <2>2. CASE Day!Arrivals(p)
    BY <2>2, CaptureSums, EnvironmentSums, FindDaySums DEF Day!Arrivals
  <2>3. CASE Day!Step(p)
    BY <2>3, UpsertSums, ReadSalesSums, ReadWasteSums, CostSums, WriteSums DEF Day!Step
  <2>4. CASE Day!Fail(p)
    BY <2>4, FailSums
  <2>5. QED
    BY <2>1, <2>2, <2>3, <2>4
<1>3. QED
  BY <1>1, <1>2

LEMMA InvSums ==
    ASSUME DayInv
    PROVE  Day!TypeOK
BY DEF DayInv, DayTables, Day!TypeOK

(* The totals written by a closing that nothing overlapped are those of    *)
(* the sales and of their costs at that moment: nothing is left to cost.   *)
LEMMA StepClosesTheSold ==
    ASSUME Day!DayAssumption, DayInv, [Day!Next]_Day!vars
    PROVE  Day!ClosesWhatWasSold
<1> SUFFICES ASSUME NEW p \in Slots, alone, Day!WriteClose(p), day' # day
             PROVE  LET t == day'[slot[p].stamp].totals
                    IN  /\ Day!Sold(entry) # {} =>
                              t.sales = Day!MapThenSumSet(LAMBDA v : entry[v].revenue, Variants)
                        /\ t.cogs = Day!DayCost
                        /\ t.net = t.sales - t.cogs - t.waste - slot[p].labour
  BY DEF Day!ClosesWhatWasSold
<1>1. /\ slot[p] \in Day!Slot /\ slot[p].pc = "read" /\ slot[p].stamp \in Stamps
      /\ slot[p].needs = {} /\ slot[p].todo = {} /\ Summed(slot[p])
  BY DEF DayInv, Captured, Day!WriteClose
<1>2. PICK totals : totals = [slot[p].sum EXCEPT !.net = Day!Net(slot[p].sum, slot[p].labour)]
  OBVIOUS
<1>3. day' = [day EXCEPT ![slot[p].stamp] = [status |-> "CLOSED", totals |-> totals]]
  BY <1>2 DEF Day!WriteClose
<1>4. day'[slot[p].stamp].totals = totals
  BY <1>1, <1>3 DEF DayInv, DayTables
<1>5. slot[p].sum \in Day!Totals
  BY <1>1 DEF Day!Slot
<1>6. /\ totals.sales = slot[p].sum.sales /\ totals.cogs = slot[p].sum.cogs
      /\ totals.waste = slot[p].sum.waste
      /\ totals.net = Day!Net(slot[p].sum, slot[p].labour)
  BY <1>2, <1>5 DEF Day!Totals
<1>7. /\ slot[p].sum.sales = Day!SalesTotal(entry, slot[p].manual)
      /\ slot[p].sum.cogs + SumOver(Left(entry, {}), Variants) = SumOver(AllCosts(entry), Variants)
  BY <1>1 DEF Summed
<1>8. Left(entry, {}) \in [Variants -> Nat] /\ \A v \in Variants : Left(entry, {})[v] = 0
  BY DEF Left
<1>9. SumOver(Left(entry, {}), Variants) = 0
  BY <1>8, NothingAddsUp, FiniteVariants
<1>10. slot[p].sum.cogs \in Nat
  BY <1>5 DEF Day!Totals
<1>11. totals.cogs = SumOver(AllCosts(entry), Variants)
  BY <1>6, <1>7, <1>9, <1>10
<1>12. Day!DayCost = SumOver(AllCosts(entry), Variants)
  BY CostIsSum, CostsTyped, FiniteVariants DEF DayInv
<1>13. Day!Sold(entry) # {} =>
          totals.sales = Day!MapThenSumSet(LAMBDA v : entry[v].revenue, Variants)
  <2>1. Day!MapThenSumSet(LAMBDA v : entry[v].revenue, Day!Sold(entry))
           = Day!MapThenSumSet(LAMBDA v : entry[v].revenue, Variants)
    BY FiniteVariants, RevenueTyped DEF DayInv
  <2>2. QED
    BY <1>6, <1>7, <2>1 DEF Day!SalesTotal
<1>14. totals.net = totals.sales - totals.cogs - totals.waste - slot[p].labour
  BY <1>6 DEF Day!Net
<1>15. QED
  BY <1>4, <1>11, <1>12, <1>13, <1>14

-----------------------------------------------------------------------------
(* PROCUREMENT REQUESTS.  A creation in progress has met every request     *)
(* that opened for one of its items since it looked for duplicates, unless *)
(* that request was opened again by a later answer; and while no calls     *)
(* overlap, the suppliers it chose are still those it would choose.        *)

AskSlot == [pc : {"idle", "choose", "create"}, items : SUBSET Lines,
            preferred : [Lines -> Suppliers \cup {None}],
            chosen : [Lines -> Suppliers \cup {None}], met : SUBSET Asking!Numbers]
LineStates == {"none", "UNASSIGNED", "ASSIGNED", "QUOTED", "ACCEPTED"}
SupplierRow == [active : BOOLEAN, deleted : BOOLEAN, email : BOOLEAN]
RequestRow == [status : Asking!Statuses, lines : [Lines -> LineStates]]
AskedRow   == [status : {"none", "DRAFT", "READY_TO_SEND"}, items : SUBSET Lines]

(* The lines of a request r and the supplier requests a made for them. *)
Asked(r, a) ==
    /\ r.status = "none" => \A i \in Lines : r.lines[i] = "none"
    /\ \A i \in Lines : r.lines[i] \in {"none", "UNASSIGNED"} =>
          \A s \in Suppliers : i \notin a[s].items
    /\ \A i \in Lines : r.lines[i] \notin {"none", "UNASSIGNED"} =>
          \E s \in Suppliers : {t \in Suppliers : i \in a[t].items} = {s}
    /\ \A s \in Suppliers : a[s].status = "none" <=> a[s].items = {}
    /\ r.status \in {"none", "DRAFT"} <=> \A s \in Suppliers : a[s] = Asking!NotAsked

Shares(r, items) ==
    \E i \in items, k \in Lines : ItemOf[k] = ItemOf[i] /\ r.lines[k] # "none"
Met(m) == m.pc # "idle" =>
    \A n \in Asking!Numbers :
        Asking!Open(request[n].status) /\ Shares(request[n], m.items) => n \in m.met \cup reopened
ChosenOnly(m) == m.pc = "create" => \A i \in Lines \ m.items : m.chosen[i] = None
ChosenBest(m) == m.pc = "create" =>
    \A i \in m.items : m.chosen[i] \in Asking!Choice(i, m.preferred[i])

AskTyped ==
    /\ supplier \in [Suppliers -> SupplierRow]
    /\ offer \in [Suppliers -> [Items -> OfferPrices \cup {None}]]
    /\ request \in [Asking!Numbers -> RequestRow]
    /\ asked \in [Asking!Numbers -> [Suppliers -> AskedRow]]
    /\ calls \in 0..AskingCalls
    /\ raced \subseteq SUBSET Asking!Numbers /\ reopened \subseteq Asking!Numbers
    /\ alone \in BOOLEAN

AskInv ==
    /\ AskTyped
    /\ slot \in [Slots -> AskSlot]
    /\ Asking!OneOpenRequest
    /\ \A n \in Asking!Numbers : Asked(request[n], asked[n])
    /\ \A p \in Slots : Met(slot[p]) /\ ChosenOnly(slot[p])
    /\ alone => \A p \in Slots : ChosenBest(slot[p])

LEMMA FreeAsk == Asking!Free \in AskSlot /\ Asking!Free.pc = "idle"
BY DEF Asking!Free, AskSlot

LEMMA NobodyAsked == Asking!NotAsked \in AskedRow
BY DEF Asking!NotAsked, AskedRow

LEMMA InitAsks ==
    ASSUME Asking!RequestAssumption, Asking!Init
    PROVE  AskInv
<1>1. [status |-> "none", lines |-> Asking!NoLines] \in RequestRow
  BY DEF RequestRow, Asking!NoLines, LineStates, Asking!Statuses
<1>2. [active |-> TRUE, deleted |-> FALSE, email |-> TRUE] \in SupplierRow
  BY DEF SupplierRow
<1>3. AskTyped
  BY <1>1, <1>2, NobodyAsked DEF Asking!Init, AskTyped, Asking!RequestAssumption
<1>4. \A n \in Asking!Numbers : Asked(request[n], asked[n])
  BY DEF Asking!Init, Asked, Asking!NoLines, Asking!NotAsked
<1>5. Asking!OneOpenRequest
  BY DEF Asking!Init, Asking!OneOpenRequest, Asking!Open, Asking!Names
<1>6. slot \in [Slots -> AskSlot] /\ \A p \in Slots : slot[p].pc = "idle"
  BY FreeAsk DEF Asking!Init
<1>7. QED
  BY <1>3, <1>4, <1>5, <1>6 DEF AskInv, Met, ChosenOnly, ChosenBest

LEMMA ReceiveAsk ==
    ASSUME Asking!RequestAssumption, AskInv, Asking!Receive
    PROVE  /\ calls' \in 0..AskingCalls /\ alone' \in BOOLEAN
           /\ alone' => alone /\ \A q \in Slots : slot[q].pc = "idle"
<1>1. calls' \in 0..AskingCalls
  BY DEF Asking!Receive, AskInv, AskTyped, Asking!RequestAssumption
<1>2. (alone /\ \A q \in Slots : slot[q].pc = "idle") \in BOOLEAN
  OBVIOUS
<1>3. QED
  BY <1>1, <1>2, Zenon DEF Asking!Receive

LEMMA RequestsStay ==
    ASSUME AskInv, UNCHANGED <<request, asked, raced, reopened>>
    PROVE  /\ Asking!OneOpenRequest'
           /\ \A n \in Asking!Numbers : Asked(request[n], asked[n])'
<1>1. Asking!OneOpenRequest'
  BY DEF AskInv, Asking!OneOpenRequest, Asking!Names
<1>2. \A n \in Asking!Numbers : Asked(request[n], asked[n])'
  BY DEF AskInv
<1>3. QED
  BY <1>1, <1>2

LEMMA ChoicesStay ==
    ASSUME UNCHANGED <<supplier, offer>>, NEW m
    PROVE  ChosenBest(m)' <=> ChosenBest(m)
<1>1. \A i : Asking!Offering(i)' = Asking!Offering(i)
  BY DEF Asking!Offering, Asking!Price
<1>2. \A i : Asking!Cheapest(i)' = Asking!Cheapest(i)
  BY <1>1 DEF Asking!Cheapest, Asking!Price
<1>3. \A i, x : Asking!Choice(i, x)' = Asking!Choice(i, x)
  BY <1>1, <1>2 DEF Asking!Choice
<1>4. QED
  BY <1>3 DEF ChosenBest

(* A step of one creation that writes no row. *)
LEMMA AskEnds ==
    ASSUME AskInv, NEW p \in Slots, NEW new \in AskSlot, slot' = [slot EXCEPT ![p] = new],
           UNCHANGED <<supplier, offer, request, asked, raced, reopened>>,
           calls' \in 0..AskingCalls, alone' \in BOOLEAN, alone' => alone,
           Met(new), ChosenOnly(new), alone' => ChosenBest(new)
    PROVE  AskInv'
<1>1. slot' \in [Slots -> AskSlot] /\ \A q \in Slots : slot'[q] = IF q = p THEN new ELSE slot[q]
  BY DEF AskInv
<1>2. AskTyped'
  BY DEF AskInv, AskTyped
<1>3. \A q \in Slots : Met(slot[q])'
  BY <1>1 DEF AskInv, Met
<1>4. \A q \in Slots : ChosenOnly(slot[q])'
  BY <1>1 DEF AskInv, ChosenOnly
<1>5. alone' => \A q \in Slots : ChosenBest(slot[q])'
  <2>1. ASSUME alone', NEW q \in Slots PROVE ChosenBest(slot[q])'
    <3>1. PICK m : m = slot'[q]
      OBVIOUS
    <3>2. ChosenBest(m)
      BY <1>1, <2>1, <3>1 DEF AskInv
    <3>3. ChosenBest(m)'
      BY <3>2, ChoicesStay
    <3>4. QED
      BY <3>1, <3>3 DEF ChosenBest
  <2>2. QED
    BY <2>1
<1>6. QED
  BY <1>1, <1>2, <1>3, <1>4, <1>5, RequestsStay DEF AskInv

LEMMA CheckAsks ==
    ASSUME Asking!RequestAssumption, AskInv, NEW p \in Slots, NEW items \in SUBSET Lines,
           NEW preferred \in [Lines -> Suppliers \cup {None}], Asking!Check(p, items, preferred)
    PROVE  AskInv'
<1>1. /\ calls' \in 0..AskingCalls /\ alone' \in BOOLEAN
      /\ alone' => alone /\ \A q \in Slots : slot[q].pc = "idle"
  BY ReceiveAsk DEF Asking!Check
<1>2. PICK new : new = [Asking!Free EXCEPT !.pc = "choose", !.items = items,
                                           !.preferred = preferred]
  OBVIOUS
<1>3. slot' = [slot EXCEPT ![p] = new]
  BY <1>2 DEF Asking!Check, AskInv
<1>4. Asking!Free \in AskSlot
  BY FreeAsk
<1>5. new \in AskSlot /\ new.pc = "choose" /\ new.items = items
  BY <1>2, <1>4 DEF AskSlot
<1>6. Met(new)
  BY <1>5 DEF Met, Asking!Check, Asking!Duplicates, Asking!Names, Shares
<1>7. ChosenOnly(new) /\ ChosenBest(new)
  BY <1>5 DEF ChosenOnly, ChosenBest
<1>8. UNCHANGED <<supplier, offer, request, asked, raced, reopened>>
  BY DEF Asking!Check, Asking!tables
<1>9. QED
  BY <1>1, <1>3, <1>5, <1>6, <1>7, <1>8, AskEnds

LEMMA ChooseAsks ==
    ASSUME AskInv, NEW p \in Slots, Asking!Choose(p)
    PROVE  AskInv'
<1>1. slot[p] \in AskSlot /\ slot[p].pc = "choose" /\ Met(slot[p])
      /\ UNCHANGED <<supplier, offer, request, asked, raced, reopened, calls, alone>>
  BY DEF AskInv, Asking!Choose, Asking!tables, Asking!history
<1>2. PICK chosen \in [Lines -> Suppliers \cup {None}] :
          /\ \A i \in slot[p].items : chosen[i] \in Asking!Choice(i, slot[p].preferred[i])
          /\ \A i \in Lines \ slot[p].items : chosen[i] = None
          /\ slot' = [slot EXCEPT ![p] = [@ EXCEPT !.pc = "create", !.chosen = chosen]]
  BY DEF Asking!Choose
<1>3. PICK new : new = [slot[p] EXCEPT !.pc = "create", !.chosen = chosen]
  OBVIOUS
<1>4. slot' = [slot EXCEPT ![p] = new]
  BY <1>2, <1>3
<1>5. new \in AskSlot /\ new.pc = "create" /\ new.items = slot[p].items
      /\ new.chosen = chosen /\ new.preferred = slot[p].preferred /\ new.met = slot[p].met
  BY <1>1, <1>3 DEF AskSlot
<1>6. Met(new)
  BY <1>1, <1>5 DEF Met
<1>7. ChosenOnly(new) /\ ChosenBest(new)
  BY <1>2, <1>5 DEF ChosenOnly, ChosenBest
<1>8. calls \in 0..AskingCalls /\ alone \in BOOLEAN
  BY DEF AskInv, AskTyped
<1>9. QED
  BY <1>1, <1>4, <1>5, <1>6, <1>7, <1>8, AskEnds

LEMMA FailAsks ==
    ASSUME AskInv, NEW p \in Slots, Asking!Fail(p)
    PROVE  AskInv'
<1>1. /\ slot' = [slot EXCEPT ![p] = Asking!Free]
      /\ UNCHANGED <<supplier, offer, request, asked, raced, reopened, calls, alone>>
  BY DEF Asking!Fail, Asking!tables, Asking!history
<1>2. Met(Asking!Free) /\ ChosenOnly(Asking!Free) /\ ChosenBest(Asking!Free)
  BY FreeAsk DEF Met, ChosenOnly, ChosenBest
<1>3. calls \in 0..AskingCalls /\ alone \in BOOLEAN
  BY DEF AskInv, AskTyped
<1>4. QED
  BY <1>1, <1>2, <1>3, FreeAsk, AskEnds

(* A change to the suppliers: no creation goes on that still counts. *)
LEMMA SuppliersChange ==
    ASSUME Asking!RequestAssumption, AskInv, Asking!Receive,
           UNCHANGED <<request, asked, slot, raced, reopened>>,
           supplier' \in [Suppliers -> SupplierRow],
           offer' \in [Suppliers -> [Items -> OfferPrices \cup {None}]]
    PROVE  AskInv'
<1>1. /\ calls' \in 0..AskingCalls /\ alone' \in BOOLEAN
      /\ alone' => alone /\ \A q \in Slots : slot[q].pc = "idle"
  BY ReceiveAsk
<1>2. AskTyped'
  BY <1>1 DEF AskInv, AskTyped
<1>3. \A q \in Slots : Met(slot[q])' /\ ChosenOnly(slot[q])'
  BY DEF AskInv, Met, ChosenOnly
<1>4. alone' => \A q \in Slots : ChosenBest(slot[q])'
  BY <1>1 DEF ChosenBest
<1>5. QED
  BY <1>2, <1>3, <1>4, RequestsStay DEF AskInv

(* The rows of a creation: every line with a supplier is on the supplier   *)
(* request of that one.                                                    *)
LEMMA RowAsked ==
    ASSUME Asking!RequestAssumption, AskTyped, NEW items \in SUBSET Lines,
           NEW chosen \in [Lines -> Suppliers \cup {None}],
           \A i \in Lines \ items : chosen[i] = None,
           NEW r, r = Asking!Row(items, chosen),
           NEW a, a = [s \in Suppliers |-> Asking!Ask(s, chosen)]
    PROVE  /\ r \in RequestRow /\ a \in [Suppliers -> AskedRow] /\ Asked(r, a)
           /\ r.status # "none" /\ \A i \in Lines : r.lines[i] # "none" <=> i \in items
<1>1. \A i \in Lines : r.lines[i] = IF i \notin items THEN "none"
                                    ELSE IF chosen[i] = None THEN "UNASSIGNED" ELSE "ASSIGNED"
  BY DEF Asking!Row
<1>2. r = [status |-> r.status, lines |-> [i \in Lines |-> r.lines[i]]]
  BY DEF Asking!Row
<1>3. r.status = IF \E i \in Lines : chosen[i] # None THEN "SUPPLIER_REQUEST_CREATED" ELSE "DRAFT"
  BY DEF Asking!Row
<1>4. r \in RequestRow
  <2>1. [i \in Lines |-> r.lines[i]] \in [Lines -> LineStates]
    BY <1>1 DEF LineStates
  <2>2. r.status \in Asking!Statuses
    BY <1>3 DEF Asking!Statuses
  <2>3. QED
    BY <1>2, <2>1, <2>2 DEF RequestRow
<1>5. \A s \in Suppliers : s # None
  BY DEF Asking!RequestAssumption
<1>6. ASSUME NEW s \in Suppliers
      PROVE  /\ a[s] \in AskedRow /\ a[s].items = {i \in Lines : chosen[i] = s}
             /\ a[s].status = "none" <=> a[s].items = {}
             /\ a[s] = Asking!NotAsked <=> a[s].items = {}
  <2>1. a[s] = Asking!Ask(s, chosen) /\ Asking!Group(s, chosen) = {i \in Lines : chosen[i] = s}
    BY DEF Asking!Group
  <2>2. CASE Asking!Group(s, chosen) = {}
    BY <2>1, <2>2, NobodyAsked DEF Asking!Ask, Asking!NotAsked
  <2>3. CASE Asking!Group(s, chosen) # {}
    <3>1. PICK state : state = IF supplier[s].email THEN "READY_TO_SEND" ELSE "DRAFT"
      OBVIOUS
    <3>2. state \in {"READY_TO_SEND", "DRAFT"}
      BY <3>1, Zenon
    <3>3. a[s] = [status |-> state, items |-> Asking!Group(s, chosen)]
      BY <2>1, <2>3, <3>1, Zenon DEF Asking!Ask
    <3>4. QED
      BY <2>1, <2>3, <3>2, <3>3 DEF AskedRow, Asking!NotAsked
  <2>4. QED
    BY <2>2, <2>3
<1>7. a \in [Suppliers -> AskedRow]
  BY <1>6
<1>8. \A i \in Lines : \A s \in Suppliers : i \in a[s].items <=> chosen[i] = s
  BY <1>6
<1>9. \A i \in Lines : r.lines[i] \in {"none", "UNASSIGNED"} <=> chosen[i] = None
  BY <1>1
<1>10. \A i \in Lines : r.lines[i] \in {"none", "UNASSIGNED"} =>
          \A s \in Suppliers : i \notin a[s].items
  BY <1>5, <1>8, <1>9
<1>11. ASSUME NEW i \in Lines, r.lines[i] \notin {"none", "UNASSIGNED"}
       PROVE  \E s \in Suppliers : {t \in Suppliers : i \in a[t].items} = {s}
  <2>1. chosen[i] \in Suppliers
    BY <1>9, <1>11
  <2>2. {t \in Suppliers : i \in a[t].items} = {chosen[i]}
    BY <1>8, <2>1
  <2>3. QED
    BY <2>1, <2>2
<1>12. r.status \in {"none", "DRAFT"} <=> \A s \in Suppliers : a[s] = Asking!NotAsked
  <2>1. (\E i \in Lines : chosen[i] # None) <=> \E s \in Suppliers : a[s].items # {}
    BY <1>5, <1>6
  <2>2. QED
    BY <1>3, <1>6, <2>1
<1>13. Asked(r, a)
  BY <1>1, <1>3, <1>6, <1>10, <1>11, <1>12 DEF Asked
<1>14. QED
  BY <1>1, <1>3, <1>4, <1>7, <1>13

LEMMA CreateAsks ==
    ASSUME Asking!RequestAssumption, AskInv, NEW p \in Slots, NEW n \in Asking!Numbers,
           Asking!Create(p, n)
    PROVE  AskInv'
<1>1. /\ slot[p] \in AskSlot /\ slot[p].pc = "create" /\ Met(slot[p]) /\ ChosenOnly(slot[p])
      /\ UNCHANGED <<supplier, offer, calls, reopened, alone>>
      /\ raced' = raced \cup {{m, n} : m \in slot[p].met}
  BY DEF AskInv, Asking!Create
<1>2. PICK r, a : r = Asking!Row(slot[p].items, slot[p].chosen)
                  /\ a = [s \in Suppliers |-> Asking!Ask(s, slot[p].chosen)]
  OBVIOUS
<1>3. /\ slot[p].items \in SUBSET Lines /\ slot[p].chosen \in [Lines -> Suppliers \cup {None}]
      /\ \A i \in Lines \ slot[p].items : slot[p].chosen[i] = None
      /\ slot[p].met \in SUBSET Asking!Numbers
  BY <1>1 DEF AskSlot, ChosenOnly
<1>4. /\ r \in RequestRow /\ a \in [Suppliers -> AskedRow] /\ Asked(r, a)
      /\ \A i \in Lines : r.lines[i] # "none" <=> i \in slot[p].items
  BY <1>2, <1>3, RowAsked DEF AskInv
<1>5. request' = [request EXCEPT ![n] = r] /\ asked' = [asked EXCEPT ![n] = a]
  BY <1>2 DEF Asking!Create
<1>6. AskTyped'
  BY <1>1, <1>3, <1>4, <1>5 DEF AskInv, AskTyped
<1>7. \A k \in Asking!Numbers : /\ request'[k] = IF k = n THEN r ELSE request[k]
                                /\ asked'[k] = IF k = n THEN a ELSE asked[k]
  BY <1>5 DEF AskInv, AskTyped
<1>8. \A k \in Asking!Numbers : Asked(request[k], asked[k])'
  BY <1>4, <1>7 DEF AskInv
<1>9. /\ slot' = [q \in Slots |-> slot'[q]]
      /\ \A q \in Slots : slot'[q] = IF q = p THEN Asking!Free
                                     ELSE IF slot[q].pc # "idle"
                                     THEN [slot[q] EXCEPT !.met = slot[q].met \cup {n}]
                                     ELSE slot[q]
  BY DEF Asking!Create
<1>10. ASSUME NEW q \in Slots
       PROVE  /\ slot'[q] \in AskSlot /\ slot'[q].pc \in {"idle", slot[q].pc}
              /\ slot'[q].pc # "idle" => /\ slot'[q].items = slot[q].items
                                         /\ slot'[q].chosen = slot[q].chosen
                                         /\ slot'[q].preferred = slot[q].preferred
                                         /\ slot'[q].met = slot[q].met \cup {n}
  <2>1. slot[q] \in AskSlot
    BY DEF AskInv
  <2>2. CASE q = p
    BY <1>9, <2>2, FreeAsk
  <2>3. CASE q # p /\ slot[q].pc # "idle"
    <3>1. slot'[q] = [slot[q] EXCEPT !.met = slot[q].met \cup {n}]
      BY <1>9, <2>3
    <3>2. QED
      BY <2>1, <3>1 DEF AskSlot
  <2>4. CASE q # p /\ slot[q].pc = "idle"
    <3>1. slot'[q] = slot[q]
      BY <1>9, <2>4
    <3>2. QED
      BY <2>1, <2>4, <3>1
  <2>5. QED
    BY <2>2, <2>3, <2>4
<1>11. slot' \in [Slots -> AskSlot]
  BY <1>9, <1>10
<1>12. ASSUME NEW q \in Slots PROVE Met(slot[q])'
  <2> SUFFICES ASSUME slot'[q].pc # "idle", NEW k \in Asking!Numbers,
                      Asking!Open(request'[k].status), Shares(request'[k], slot'[q].items)
               PROVE  k \in slot'[q].met \cup reopened'
    BY DEF Met
  <2>1. CASE k = n
    BY <1>10, <2>1
  <2>2. CASE k # n
    <3>1. k \in slot[q].met \cup reopened
      BY <1>7, <1>10, <2>2 DEF AskInv, Met
    <3>2. QED
      BY <1>1, <1>10, <3>1
  <2>3. QED
    BY <2>1, <2>2
<1>13. \A q \in Slots : ChosenOnly(slot[q])'
  BY <1>10 DEF AskInv, ChosenOnly
<1>14. ASSUME alone', NEW q \in Slots PROVE ChosenBest(slot[q])'
  <2>1. PICK m : m = slot'[q]
    OBVIOUS
  <2>2. ChosenBest(m)
    BY <1>1, <1>10, <1>14, <2>1 DEF AskInv, ChosenBest
  <2>3. ChosenBest(m)'
    BY <1>1, <2>2, ChoicesStay
  <2>4. QED
    BY <2>1, <2>3 DEF ChosenBest
<1>15. Asking!OneOpenRequest'
  <2>1. ASSUME NEW k \in Asking!Numbers, k # n, Asking!Open(request'[k].status),
               NEW x, Asking!Names(k, x)', Asking!Names(n, x)'
        PROVE  {k, n} \in raced' \/ k \in reopened'
    <3>1. \E i \in slot[p].items : ItemOf[i] = x
      BY <1>4, <1>7, <2>1 DEF Asking!Names
    <3>2. Asking!Open(request[k].status) /\ Asking!Names(k, x)
      BY <1>7, <2>1 DEF Asking!Names
    <3>3. Shares(request[k], slot[p].items)
      BY <3>1, <3>2 DEF Shares, Asking!Names
    <3>4. k \in slot[p].met \cup reopened
      BY <1>1, <3>2, <3>3 DEF Met
    <3>5. QED
      BY <1>1, <3>4
  <2> SUFFICES ASSUME NEW m \in Asking!Numbers, NEW k \in Asking!Numbers, m # k,
                      Asking!Open(request'[m].status), Asking!Open(request'[k].status),
                      NEW x \in Items, Asking!Names(m, x)', Asking!Names(k, x)'
               PROVE  {m, k} \in raced' \/ {m, k} \cap reopened' # {}
    BY DEF Asking!OneOpenRequest
  <2>2. CASE m = n
    <3>1. {k, n} = {m, k}
      BY <2>2
    <3>2. QED
      BY <2>1, <2>2, <3>1
  <2>3. CASE k = n
    BY <2>1, <2>3
  <2>4. CASE m # n /\ k # n
    <3>1. Asking!Names(m, x) /\ Asking!Names(k, x)
      BY <1>7, <2>4 DEF Asking!Names
    <3>2. {m, k} \in raced \/ {m, k} \cap reopened # {}
      BY <1>7, <2>4, <3>1 DEF AskInv, Asking!OneOpenRequest
    <3>3. QED
      BY <1>1, <3>2
  <2>5. QED
    BY <2>2, <2>3, <2>4
<1>16. QED
  BY <1>6, <1>8, <1>11, <1>12, <1>13, <1>14, <1>15 DEF AskInv

(* An answer for some lines of a supplier request. *)
LEMMA AdvanceAsks ==
    ASSUME Asking!RequestAssumption, AskInv, NEW n \in Asking!Numbers, NEW s \in Suppliers,
           NEW status \in Asking!Progress, NEW some \in SUBSET asked[n][s].items,
           Asking!Advance(n, s, status, some)
    PROVE  AskInv'
<1>1. /\ calls' \in 0..AskingCalls /\ alone' \in BOOLEAN
      /\ alone' => alone /\ \A q \in Slots : slot[q].pc = "idle"
  BY ReceiveAsk DEF Asking!Advance
<1>2. UNCHANGED <<supplier, offer, asked, slot, raced>> /\ some # {}
  BY DEF Asking!Advance
<1>3. PICK r : r = [status |-> status,
                    lines  |-> [i \in Lines |-> IF i \in some
                                                THEN Asking!LineAfter(status, request[n].lines[i])
                                                ELSE request[n].lines[i]]]
  OBVIOUS
<1>4. request' = [request EXCEPT ![n] = r]
  BY <1>3 DEF Asking!Advance
<1>5. /\ request[n] \in RequestRow /\ asked[n] \in [Suppliers -> AskedRow]
      /\ Asked(request[n], asked[n])
  BY DEF AskInv, AskTyped
<1>6. some \subseteq Lines /\ asked[n][s] # Asking!NotAsked
  BY <1>2, <1>5 DEF AskedRow, Asking!NotAsked
<1>7. \A i \in some : request[n].lines[i] \notin {"none", "UNASSIGNED"}
  BY <1>5, <1>6 DEF Asked
<1>8. ASSUME NEW i \in Lines
      PROVE  /\ r.lines[i] \in LineStates
             /\ r.lines[i] = "none" <=> request[n].lines[i] = "none"
             /\ r.lines[i] \in {"none", "UNASSIGNED"}
                   <=> request[n].lines[i] \in {"none", "UNASSIGNED"}
  <2>1. request[n].lines[i] \in LineStates
    BY <1>5 DEF RequestRow
  <2>2. CASE i \in some
    <3>1. r.lines[i] = Asking!LineAfter(status, request[n].lines[i])
      BY <1>3, <2>2
    <3>2. QED
      BY <1>7, <2>1, <2>2, <3>1 DEF Asking!LineAfter, LineStates
  <2>3. CASE i \notin some
    BY <1>3, <2>1, <2>3
  <2>4. QED
    BY <2>2, <2>3
<1>9. r \in RequestRow
  <2>1. r.lines \in [Lines -> LineStates] /\ r = [status |-> status, lines |-> r.lines]
    BY <1>3, <1>8
  <2>2. status \in Asking!Statuses
    BY DEF Asking!Statuses
  <2>3. QED
    BY <2>1, <2>2 DEF RequestRow
<1>10. request[n].status \notin {"none", "DRAFT"} /\ r.status = status
       /\ status \notin {"none", "DRAFT"}
  BY <1>3, <1>5, <1>6 DEF Asked, Asking!Progress
<1>11. Asked(r, asked[n])
  BY <1>5, <1>8, <1>10 DEF Asked
<1>12. \A k \in Asking!Numbers : request'[k] = IF k = n THEN r ELSE request[k]
  BY <1>4 DEF AskInv, AskTyped
<1>13. \A k \in Asking!Numbers : Asked(request[k], asked[k])'
  BY <1>2, <1>11, <1>12 DEF AskInv
<1>14. reopened \subseteq reopened' /\ reopened' \subseteq reopened \cup {n}
  BY DEF Asking!Advance
<1>15. AskTyped'
  BY <1>1, <1>2, <1>4, <1>9, <1>14 DEF AskInv, AskTyped
<1>16. Asking!Open(r.status) => Asking!Open(request[n].status) \/ n \in reopened'
  <2>1. request[n].status \in Asking!Statuses
    BY <1>5 DEF RequestRow
  <2>2. ASSUME Asking!Open(r.status), ~Asking!Open(request[n].status)
        PROVE  n \in reopened'
    <3>1. request[n].status = "FULLY_RECEIVED"
      BY <1>10, <2>1, <2>2 DEF Asking!Open
    <3>2. QED
      BY <1>10, <2>2, <3>1 DEF Asking!Advance
  <2>3. QED
    BY <2>2
<1>17. \A items \in SUBSET Lines : Shares(r, items) => Shares(request[n], items)
  BY <1>8 DEF Shares
<1>18. ASSUME NEW q \in Slots PROVE Met(slot[q])'
  <2> SUFFICES ASSUME slot[q].pc # "idle", NEW k \in Asking!Numbers,
                      Asking!Open(request'[k].status), Shares(request'[k], slot[q].items)
               PROVE  k \in slot[q].met \cup reopened'
    BY <1>2 DEF Met
  <2>1. slot[q].items \in SUBSET Lines /\ Met(slot[q])
    BY DEF AskInv, AskSlot
  <2>2. CASE k = n
    BY <1>12, <1>14, <1>16, <1>17, <2>1, <2>2 DEF Met
  <2>3. CASE k # n
    BY <1>12, <1>14, <2>1, <2>3 DEF Met
  <2>4. QED
    BY <2>2, <2>3
<1>19. \A q \in Slots : ChosenOnly(slot[q])'
  BY <1>2 DEF AskInv, ChosenOnly
<1>20. alone' => \A q \in Slots : ChosenBest(slot[q])'
  BY <1>1, <1>2 DEF ChosenBest
<1>21. Asking!OneOpenRequest'
  <2> SUFFICES ASSUME NEW m \in Asking!Numbers, NEW k \in Asking!Numbers, m # k,
                      Asking!Open(request'[m].status), Asking!Open(request'[k].status),
                      NEW x \in Items, Asking!Names(m, x)', Asking!Names(k, x)'
               PROVE  {m, k} \in raced' \/ {m, k} \cap reopened' # {}
    BY DEF Asking!OneOpenRequest
  <2>1. Asking!Names(m, x) /\ Asking!Names(k, x)
    BY <1>8, <1>12 DEF Asking!Names
  <2>2. CASE n \in {m, k} /\ n \in reopened'
    BY <2>2
  <2>3. CASE ~(n \in {m, k} /\ n \in reopened')
    <3>1. Asking!Open(request[m].status) /\ Asking!Open(request[k].status)
      BY <1>12, <1>16, <2>3
    <3>2. {m, k} \in raced \/ {m, k} \cap reopened # {}
      BY <2>1, <3>1 DEF AskInv, Asking!OneOpenRequest
    <3>3. QED
      BY <1>2, <1>14, <3>2
  <2>4. QED
    BY <2>2, <2>3
<1>22. QED
  BY <1>2, <1>13, <1>15, <1>18, <1>19, <1>20, <1>21 DEF AskInv

LEMMA StepAsks ==
    ASSUME Asking!RequestAssumption, AskInv, [Asking!Next]_Asking!vars
    PROVE  AskInv'
<1>1. CASE UNCHANGED Asking!vars
  <2>1. UNCHANGED <<supplier, offer, request, asked, slot, calls, raced, reopened, alone>>
    BY <1>1 DEF Asking!vars, Asking!tables, Asking!history
  <2>2. AskTyped' /\ \A q \in Slots : Met(slot[q])' /\ ChosenOnly(slot[q])'
    BY <2>1 DEF AskInv, AskTyped, Met, ChosenOnly
  <2>3. ASSUME alone', NEW q \in Slots PROVE ChosenBest(slot[q])'
    <3>1. PICK m : m = slot[q]
      OBVIOUS
    <3>2. ChosenBest(m)'
      BY <2>1, <2>3, <3>1, ChoicesStay DEF AskInv
    <3>3. QED
      BY <2>1, <3>1, <3>2 DEF ChosenBest
  <2>4. QED
    BY <2>1, <2>2, <2>3, RequestsStay DEF AskInv
<1>2. ASSUME NEW p \in Slots, NEW items \in SUBSET Lines \ {{}},
             NEW preferred \in [Lines -> Suppliers \cup {None}],
             Asking!Check(p, items, preferred)
      PROVE  AskInv'
  BY <1>2, CheckAsks
<1>3. ASSUME NEW s \in Suppliers, NEW on \in BOOLEAN, NEW email \in BOOLEAN,
             Asking!UpdateSupplier(s, on, email)
      PROVE  AskInv'
  <2>1. PICK new : new = [supplier[s] EXCEPT !.active = on, !.email = email]
    OBVIOUS
  <2>2. supplier[s] \in SupplierRow /\ new \in SupplierRow
    BY <2>1 DEF AskInv, AskTyped, SupplierRow
  <2>3. supplier' = [supplier EXCEPT ![s] = new] /\ Asking!Receive
        /\ UNCHANGED <<offer, request, asked, slot, raced, reopened>>
    BY <1>3, <2>1 DEF Asking!UpdateSupplier
  <2>4. supplier' \in [Suppliers -> SupplierRow]
    BY <2>2, <2>3 DEF AskInv, AskTyped
  <2>5. offer' \in [Suppliers -> [Items -> OfferPrices \cup {None}]]
    BY <2>3 DEF AskInv, AskTyped
  <2>6. QED
    BY <2>3, <2>4, <2>5, SuppliersChange
<1>4. ASSUME NEW s \in Suppliers, Asking!RemoveSupplier(s)
      PROVE  AskInv'
  <2>1. PICK new : new = [supplier[s] EXCEPT !.active = FALSE, !.deleted = TRUE]
    OBVIOUS
  <2>2. supplier[s] \in SupplierRow /\ new \in SupplierRow
    BY <2>1 DEF AskInv, AskTyped, SupplierRow
  <2>3. supplier' = [supplier EXCEPT ![s] = new] /\ Asking!Receive
        /\ UNCHANGED <<offer, request, asked, slot, raced, reopened>>
    BY <1>4, <2>1 DEF Asking!RemoveSupplier
  <2>4. supplier' \in [Suppliers -> SupplierRow]
    BY <2>2, <2>3 DEF AskInv, AskTyped
  <2>5. offer' \in [Suppliers -> [Items -> OfferPrices \cup {None}]]
    BY <2>3 DEF AskInv, AskTyped
  <2>6. QED
    BY <2>3, <2>4, <2>5, SuppliersChange
<1>5. ASSUME NEW s \in Suppliers, NEW i \in Items, NEW cost \in OfferPrices,
             Asking!CreateSupplierItem(s, i, cost)
      PROVE  AskInv'
  <2>1. PICK new : new = [offer[s] EXCEPT ![i] = cost]
    OBVIOUS
  <2>2. new \in [Items -> OfferPrices \cup {None}]
    BY <2>1 DEF AskInv, AskTyped
  <2>3. offer' = [offer EXCEPT ![s] = new] /\ Asking!Receive
        /\ UNCHANGED <<supplier, request, asked, slot, raced, reopened>>
    BY <1>5, <2>1 DEF Asking!CreateSupplierItem
  <2>4. offer' \in [Suppliers -> [Items -> OfferPrices \cup {None}]]
    BY <2>2, <2>3 DEF AskInv, AskTyped
  <2>5. supplier' \in [Suppliers -> SupplierRow]
    BY <2>3 DEF AskInv, AskTyped
  <2>6. QED
    BY <2>3, <2>4, <2>5, SuppliersChange
<1>6. QED
  BY <1>1, <1>2, <1>3, <1>4, <1>5, ChooseAsks, FailAsks, CreateAsks, AdvanceAsks DEF Asking!Next

LEMMA InvAsks ==
    ASSUME AskInv
    PROVE  Asking!TypeOK /\ Asking!OneOpenRequest /\ Asking!LinesAreAsked
<1>1. Asking!TypeOK
  BY DEF AskInv, AskTyped, AskSlot, SupplierRow, RequestRow, LineStates, AskedRow,
     Asking!TypeOK
<1>2. ASSUME NEW n \in Asking!Numbers, NEW i \in Lines
      PROVE  Asking!Cardinality({s \in Suppliers : i \in asked[n][s].items})
                = IF request[n].lines[i] \in {"none", "UNASSIGNED"} THEN 0 ELSE 1
  <2>1. \A S : Asking!Cardinality(S) = Cardinality(S)
    BY DEF Asking!Cardinality, Cardinality, Asking!IsFiniteSet, IsFiniteSet
  <2>2. Asked(request[n], asked[n])
    BY DEF AskInv
  <2>3. CASE request[n].lines[i] \in {"none", "UNASSIGNED"}
    <3>1. {s \in Suppliers : i \in asked[n][s].items} = {}
      BY <2>2, <2>3 DEF Asked
    <3>2. QED
      BY <2>1, <2>3, <3>1, FS_EmptySet
  <2>4. CASE request[n].lines[i] \notin {"none", "UNASSIGNED"}
    <3>1. PICK s \in Suppliers : {t \in Suppliers : i \in asked[n][t].items} = {s}
      BY <2>2, <2>4 DEF Asked
    <3>2. QED
      BY <2>1, <2>4, <3>1, FS_Singleton
  <2>5. QED
    BY <2>3, <2>4
<1>3. Asking!LinesAreAsked
  BY <1>2 DEF AskInv, Asked, Asking!LinesAreAsked
<1>4. QED
  BY <1>1, <1>3 DEF AskInv

(* While no calls overlap, a creation asks the suppliers it chose, and the *)
(* prices are those it chose by.                                           *)
LEMMA StepAsksCheapest ==
    ASSUME Asking!RequestAssumption, AskInv, [Asking!Next]_Asking!vars
    PROVE  Asking!AsksCheapest
<1> SUFFICES ASSUME NEW p \in Slots, NEW n \in Asking!Numbers, Asking!Create(p, n), alone,
                    NEW s \in Suppliers, NEW i \in asked'[n][s].items
             PROVE  /\ s \in Asking!Offering(i)
                    /\ slot[p].preferred[i] \in Asking!Offering(i) => s = slot[p].preferred[i]
                    /\ slot[p].preferred[i] \notin Asking!Offering(i) =>
                          \A t \in Asking!Offering(i) : Asking!Price(s, i) <= Asking!Price(t, i)
  BY DEF Asking!AsksCheapest
<1>1. /\ slot[p] \in AskSlot /\ slot[p].pc = "create" /\ ChosenOnly(slot[p])
      /\ ChosenBest(slot[p])
  BY DEF AskInv, Asking!Create
<1>2. asked'[n][s] = Asking!Ask(s, slot[p].chosen)
  BY DEF AskInv, AskTyped, Asking!Create
<1>3. i \in Lines /\ slot[p].chosen[i] = s
  BY <1>2 DEF Asking!Ask, Asking!NotAsked, Asking!Group
<1>4. s # None
  BY DEF Asking!RequestAssumption
<1>5. i \in slot[p].items
  BY <1>1, <1>3, <1>4 DEF ChosenOnly
<1>6. s \in Asking!Choice(i, slot[p].preferred[i])
  BY <1>1, <1>3, <1>5 DEF ChosenBest
<1>7. QED
  BY <1>4, <1>6 DEF Asking!Choice, Asking!Cheapest
=============================================================================
