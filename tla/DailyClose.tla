------------------------------- MODULE DailyClose -------------------------------
(***************************************************************************)
(* ONE business day of one location: its sales entries, its waste events   *)
(* and its closing.  A closing finds the row of the day, computes the      *)
(* totals from several statements outside any transaction, and writes the  *)
(* row in a transaction that looks at none of them again.                  *)
(***************************************************************************)
EXTENDS Integers, FiniteSets, FiniteSetsExt

CONSTANTS
    Slots,        \* requests in progress
    Variants,     \* product variants
    Units,        \* units sold
    Prices,       \* unit prices and unit costs, in minor units
    Unset,        \* no price, no cost
    Stamps,       \* date strings that fall on the day: dto.businessDate
    Labour,       \* labourCost and salesTotal of a closing, in minor units
    MaxCalls      \* bound on the number of requests

DayAssumption ==
    /\ Units \cup Prices \cup Labour \subseteq Nat
    /\ Unset \notin Nat
    /\ MaxCalls \in Nat
    /\ IsFiniteSet(Variants)

VARIABLES
    entry,        \* the SalesEntry of each variant
    local,        \* the local selling price, or the default one
    rate,         \* cost per unit of the active recipe
    waste,        \* the day's waste events: how many stand, how many are voided
    day,          \* the DailyClose row, by stamp
    slot,         \* local state of each request in progress
    calls,        \* requests received so far
    closings,     \* how often each row was closed
    seeded,       \* the stamps whose row was there, as DRAFT, from the start
    alone         \* no two requests overlapped so far

tables  == <<entry, local, rate, waste, day>>
history == <<closings, seeded, alone>>
vars    == <<tables, slot, calls, history>>

Entry  == [units : Units \cup {0}, revenue : Nat]
Totals == [sales : Nat, cogs : Nat, waste : Nat, net : Int]
Zero   == [sales |-> 0, cogs |-> 0, waste |-> 0, net |-> 0]
Slot   == [pc : {"idle", "sale", "read"}, variant : Variants \cup {Unset},
           units : Units \cup {0}, price : Prices \cup {Unset}, stamp : Stamps \cup {Unset},
           found : {"none", "DRAFT", "CLOSED"}, manual : Nat, labour : Nat,
           sheet : [Variants -> Entry], todo : SUBSET Variants,
           needs : SUBSET {"sales", "waste"}, sum : Totals]
NoSale == [units |-> 0, revenue |-> 0]
Free   == [pc |-> "idle", variant |-> Unset, units |-> 0, price |-> Unset, stamp |-> Unset,
           found |-> "none", manual |-> 0, labour |-> 0,
           sheet |-> [v \in Variants |-> NoSale], todo |-> {}, needs |-> {}, sum |-> Zero]

(* The seed leaves a DRAFT row; nothing else creates one. *)
Init ==
    /\ entry = [v \in Variants |-> NoSale]
    /\ local \in [Variants -> Prices \cup {Unset}]
    /\ rate \in [Variants -> Prices \cup {Unset}]
    /\ waste = [standing |-> 0, voided |-> 0]
    /\ day \in {d \in [Stamps -> [status : {"none", "DRAFT"}, totals : {Zero}]] :
                   Cardinality({s \in Stamps : d[s].status = "DRAFT"}) <= 1}
    /\ slot = [p \in Slots |-> Free]
    /\ calls = 0
    /\ closings = [s \in Stamps |-> 0]
    /\ seeded = {s \in Stamps : day[s].status = "DRAFT"}
    /\ alone = TRUE

Receive(p) ==
    /\ slot[p].pc = "idle" /\ calls < MaxCalls
    /\ calls' = calls + 1
    /\ alone' = (alone /\ \A q \in Slots : slot[q].pc = "idle")
Finish(p) == slot' = [slot EXCEPT ![p] = Free]

-----------------------------------------------------------------------------
(* upsertEntry resolves the price, then one upsert writes the row.         *)
(* bulkUpsert is a sequence of these, each committed on its own.           *)
CaptureSale(p, v, units, asked) ==
    LET price == IF asked = Unset THEN local[v] ELSE asked
    IN  /\ Receive(p)
        /\ price # Unset
        /\ slot' = [slot EXCEPT ![p] = [@ EXCEPT !.pc = "sale", !.variant = v,
                                                 !.units = units, !.price = price]]
        /\ UNCHANGED <<tables, closings, seeded>>

NewEntry(s) == [units |-> s.units, revenue |-> s.units * s.price]

UpsertEntry(p) ==
    /\ slot[p].pc = "sale"
    /\ entry' = [entry EXCEPT ![slot[p].variant] = NewEntry(slot[p])]
    /\ Finish(p)
    /\ UNCHANGED <<local, rate, waste, day, calls, history>>

(* Waste recorded or voided, a local price or an ingredient cost changed:  *)
(* one commit each, seen from here.                                        *)
Environment(p) ==
    /\ Receive(p)
    /\ \/ waste' = [waste EXCEPT !.standing = @ + 1] /\ UNCHANGED <<local, rate>>
       \/ /\ waste.standing > 0
          /\ waste' = [standing |-> waste.standing - 1, voided |-> waste.voided + 1]
          /\ UNCHANGED <<local, rate>>
       \/ \E v \in Variants, price \in Prices \cup {Unset} :
             \/ local' = [local EXCEPT ![v] = price] /\ UNCHANGED <<rate, waste>>
             \/ rate' = [rate EXCEPT ![v] = price] /\ UNCHANGED <<local, waste>>
    /\ UNCHANGED <<entry, day, slot, closings, seeded>>

-----------------------------------------------------------------------------
(* closeDailyClose looks for a row whose businessDate is the very stamp.   *)
NeverRefused(status) == FALSE                     \* mutant: the check dropped
Refused(status) == status = "CLOSED"

FindDay(p, stamp, manual, labour) ==
    /\ Receive(p)
    /\ ~Refused(day[stamp].status)
    /\ slot' = [slot EXCEPT ![p] = [@ EXCEPT !.pc = "read", !.stamp = stamp,
                   !.found = day[stamp].status, !.manual = manual, !.labour = labour,
                   !.needs = {"sales", "waste"}]]
    /\ UNCHANGED <<tables, closings, seeded>>

(* generateDailyClosePreview: the sales and the waste of the whole day, in *)
(* any order; the captured sales replace the manual total.                 *)
Sold(sheet) == {v \in Variants : sheet[v].units # 0}
ManualToo(sheet, manual) ==                       \* mutant: added to it
    manual + MapThenSumSet(LAMBDA v : sheet[v].revenue, Sold(sheet))
SalesTotal(sheet, manual) ==
    IF Sold(sheet) = {} THEN manual
    ELSE MapThenSumSet(LAMBDA v : sheet[v].revenue, Sold(sheet))

ReadSales(p) ==
    /\ slot[p].pc = "read" /\ "sales" \in slot[p].needs
    /\ slot' = [slot EXCEPT ![p] = [@ EXCEPT !.needs = slot[p].needs \ {"sales"},
                   !.sheet = entry, !.todo = Sold(entry),
                   !.sum = [slot[p].sum EXCEPT !.sales = SalesTotal(entry, slot[p].manual)]]]
    /\ UNCHANGED <<tables, calls, history>>

ReadWaste(p) ==
    /\ slot[p].pc = "read" /\ "waste" \in slot[p].needs
    /\ slot' = [slot EXCEPT ![p] = [@ EXCEPT !.needs = slot[p].needs \ {"waste"},
                   !.sum = [slot[p].sum EXCEPT !.waste = waste.standing + waste.voided]]]
    /\ UNCHANGED <<tables, calls, history>>

(* computeSoldCogs costs one variant after the other; one without an       *)
(* active recipe is left out.                                              *)
Cost(v, units) == IF rate[v] = Unset THEN 0 ELSE rate[v] * units

CostVariant(p, v) ==
    /\ slot[p].pc = "read" /\ slot[p].needs = {}
    /\ v \in slot[p].todo
    /\ slot' = [slot EXCEPT ![p] = [@ EXCEPT !.todo = slot[p].todo \ {v},
                   !.sum = [slot[p].sum EXCEPT
                       !.cogs = slot[p].sum.cogs + Cost(v, slot[p].sheet[v].units)]]]
    /\ UNCHANGED <<tables, calls, history>>

Net(sum, labour) == sum.sales - sum.cogs - sum.waste - labour

(* The row found is updated, whatever its status now; otherwise a new one  *)
(* is inserted, which fails when its (location, businessDate) exists.      *)
NeverTaken(stamp) == FALSE                        \* mutant: no unique key
Duplicate(stamp) == day[stamp].status # "none"

WriteClose(p) == LET s == slot[p] IN
    /\ s.pc = "read" /\ s.needs = {} /\ s.todo = {}
    /\ IF s.found = "none" /\ Duplicate(s.stamp)
       THEN UNCHANGED <<day, closings>>
       ELSE /\ day' = [day EXCEPT ![s.stamp] = [status |-> "CLOSED",
                   totals |-> [s.sum EXCEPT !.net = Net(s.sum, s.labour)]]]
            /\ closings' = [closings EXCEPT ![s.stamp] = @ + 1]
    /\ Finish(p)
    /\ UNCHANGED <<entry, local, rate, waste, calls, seeded, alone>>

Fail(p) == slot[p].pc # "idle" /\ Finish(p) /\ UNCHANGED <<tables, calls, history>>

Arrivals(p) ==
    \/ \E v \in Variants, units \in Units, asked \in Prices \cup {Unset} :
          CaptureSale(p, v, units, asked)
    \/ Environment(p)
    \/ \E stamp \in Stamps, manual, labour \in Labour : FindDay(p, stamp, manual, labour)

Step(p) ==
    \/ UpsertEntry(p) \/ ReadSales(p) \/ ReadWaste(p) \/ WriteClose(p)
    \/ \E v \in Variants : CostVariant(p, v)

Next == \E p \in Slots : Arrivals(p) \/ Step(p) \/ Fail(p)

Spec == Init /\ [][Next]_vars

-----------------------------------------------------------------------------
(* Type invariant. *)
TypeOK ==
    /\ entry \in [Variants -> Entry]
    /\ local \in [Variants -> Prices \cup {Unset}]
    /\ rate \in [Variants -> Prices \cup {Unset}]
    /\ waste \in [standing : Nat, voided : Nat]
    /\ day \in [Stamps -> [status : {"none", "DRAFT", "CLOSED"}, totals : Totals]]
    /\ slot \in [Slots -> Slot]
    /\ calls \in 0..MaxCalls
    /\ closings \in [Stamps -> Nat] /\ seeded \subseteq Stamps /\ alone \in BOOLEAN

(* A row is closed once, however closings overlap, unless it began as the  *)
(* DRAFT row, which two overlapping closings both update.                  *)
RowClosedOnce == \A s \in Stamps \ seeded : closings[s] <= 1

(* The totals written are those of the rows in the table at that moment:   *)
(* every sale counted once, at its last price, and every cost at its own.  *)
DayCost == MapThenSumSet(LAMBDA v : Cost(v, entry[v].units), Variants)
ClosesWhatWasSold ==
    \A p \in Slots : alone /\ WriteClose(p) /\ day' # day =>
        LET t == day'[slot[p].stamp].totals
        IN  /\ Sold(entry) # {} =>
                  t.sales = MapThenSumSet(LAMBDA v : entry[v].revenue, Variants)
            /\ t.cogs = DayCost
            /\ t.net = t.sales - t.cogs - t.waste - slot[p].labour

(* "Daily close cannot be closed twice unless reopened": one closing for   *)
(* the business day, when requests come one at a time and nothing reopens. *)
DayClosedOnce == alone => MapThenSumSet(LAMBDA s : closings[s], Stamps) <= 1
=============================================================================
