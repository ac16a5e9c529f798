-------------------------- MODULE ProcurementRequests --------------------------
(***************************************************************************)
(* The procurement requests of ONE location for ONE required day, and the  *)
(* suppliers they are made out to.  A creation looks for an open request   *)
(* of the same items, reads the active suppliers' offers, and writes the   *)
(* request with a supplier request per chosen supplier in a transaction    *)
(* that looks at neither again.  What becomes of a request afterwards is   *)
(* in SupplierMessaging and Purchasing; here are the statuses it gets.     *)
(***************************************************************************)
EXTENDS Naturals, FiniteSets

CONSTANTS
    Slots,        \* requests in progress
    Items,        \* inventory items
    Lines,        \* the lines a body can have ...
    ItemOf,       \* ... and the item each one asks for: two may ask for one
    Suppliers,
    Nobody,       \* no preferred supplier
    Prices,       \* current prices
    Unset,        \* the supplier does not offer the item
    StartOffers,  \* the offers there are to begin with
    MaxRequests,  \* bound on the rows of ProcurementRequest
    MaxCalls      \* bound on the requests received

RequestAssumption ==
    /\ Prices \subseteq Nat /\ Unset \notin Nat /\ Nobody \notin Suppliers
    /\ StartOffers \subseteq [Suppliers -> [Items -> Prices \cup {Unset}]]
    /\ ItemOf \in [Lines -> Items]
    /\ {MaxRequests, MaxCalls} \subseteq Nat

VARIABLES
    supplier,     \* Supplier rows: status = ACTIVE, deletedAt, an email
    offer,        \* SupplierItem rows: the current price
    request,      \* ProcurementRequest rows and the statuses of their items
    asked,        \* SupplierRequest rows of each request, by supplier
    slot,         \* local state of each creation in progress
    calls,
    raced,        \* pairs of requests whose creations overlapped
    reopened,     \* requests that were fully received once and are not now
    alone         \* no two calls overlapped so far

tables  == <<supplier, offer, request, asked>>
history == <<raced, reopened, alone>>
vars    == <<tables, slot, calls, history>>

Numbers  == 1 .. MaxRequests
Progress == {"SUPPLIER_MESSAGE_SENT", "QUOTATION_RECEIVED", "CONFIRMED",
             "PARTIALLY_RECEIVED", "FULLY_RECEIVED"}
Statuses == {"none", "DRAFT", "SUPPLIER_REQUEST_CREATED"} \cup Progress
NoLines  == [i \in Lines |-> "none"]
NotAsked == [status |-> "none", items |-> {}]
Free     == [pc |-> "idle", items |-> {}, preferred |-> [i \in Lines |-> Nobody],
             chosen |-> [i \in Lines |-> Nobody], met |-> {}]

Init ==
    /\ supplier = [s \in Suppliers |-> [active |-> TRUE, deleted |-> FALSE, email |-> TRUE]]
    /\ offer \in StartOffers
    /\ request = [n \in Numbers |-> [status |-> "none", lines |-> NoLines]]
    /\ asked = [n \in Numbers |-> [s \in Suppliers |-> NotAsked]]
    /\ slot = [p \in Slots |-> Free]
    /\ calls = 0
    /\ raced = {} /\ reopened = {} /\ alone = TRUE

Receive ==
    /\ calls < MaxCalls
    /\ calls' = calls + 1
    /\ alone' = (alone /\ \A q \in Slots : slot[q].pc = "idle")

-----------------------------------------------------------------------------
(* assertNoDuplicateOpenProcurement.  No code gives an item the status     *)
(* REJECTED or RECEIVED, so only the status of the request can free it.    *)
NotConfirmed(status) ==                           \* mutant: two statuses forgotten
    status \in Statuses \ {"none", "FULLY_RECEIVED", "CONFIRMED"}
Open(status) == status \in Statuses \ {"none", "FULLY_RECEIVED"}

Names(n, item) == \E i \in Lines : ItemOf[i] = item /\ request[n].lines[i] # "none"
Duplicates(items) ==
    {n \in Numbers : Open(request[n].status) /\ \E i \in items : Names(n, ItemOf[i])}

Check(p, items, preferred) ==
    /\ Receive
    /\ slot[p].pc = "idle"
    /\ \A i \in Lines \ items : preferred[i] = Nobody
    /\ Duplicates(items) = {}
    /\ slot' = [q \in Slots |->
          IF q = p THEN [Free EXCEPT !.pc = "choose", !.items = items, !.preferred = preferred]
          ELSE slot[q]]
    /\ UNCHANGED <<tables, raced, reopened>>

(* chooseSupplierItem, for each line: the preferred supplier if it is      *)
(* among those that offer the item, else the cheapest of them.             *)
Price(s, i) == offer[s][ItemOf[i]]
Offering(i) == {s \in Suppliers : supplier[s].active /\ ~supplier[s].deleted /\ Price(s, i) # Unset}
Dearest(i)  == {s \in Offering(i) : \A t \in Offering(i) : Price(s, i) >= Price(t, i)}
Cheapest(i) == {s \in Offering(i) : \A t \in Offering(i) : Price(s, i) <= Price(t, i)}
Choice(i, preferred) ==
    IF Offering(i) = {} THEN {Nobody}
    ELSE IF preferred \in Offering(i) THEN {preferred} ELSE Cheapest(i)

Choose(p) ==
    /\ slot[p].pc = "choose"
    /\ \E chosen \in [Lines -> Suppliers \cup {Nobody}] :
          /\ \A i \in slot[p].items : chosen[i] \in Choice(i, slot[p].preferred[i])
          /\ \A i \in Lines \ slot[p].items : chosen[i] = Nobody
          /\ slot' = [slot EXCEPT ![p] = [@ EXCEPT !.pc = "create", !.chosen = chosen]]
    /\ UNCHANGED <<tables, calls, history>>

(* The transaction: the request, its lines, a supplier request with        *)
(* its lines, thread and draft message per chosen supplier, the status.    *)
Group(s, chosen) == {i \in Lines : chosen[i] = s}
Row(items, chosen) ==
    [status |-> IF \E i \in Lines : chosen[i] # Nobody
                THEN "SUPPLIER_REQUEST_CREATED" ELSE "DRAFT",
     lines  |-> [i \in Lines |->
                    CASE i \notin items -> "none"
                      [] i \in items /\ chosen[i] = Nobody -> "UNASSIGNED"
                      [] OTHER -> "ASSIGNED"]]
AskAnyway(s, chosen) ==                           \* mutant: empty groups kept
    [status |-> "READY_TO_SEND", items |-> Group(s, chosen)]
Ask(s, chosen) ==
    IF Group(s, chosen) = {} THEN NotAsked
    ELSE [status |-> IF supplier[s].email THEN "READY_TO_SEND" ELSE "DRAFT",
          items  |-> Group(s, chosen)]

Create(p, n) ==
    /\ slot[p].pc = "create"
    /\ request[n].status = "none"
    /\ \A m \in Numbers : m < n => request[m].status # "none"
    /\ request' = [request EXCEPT ![n] = Row(slot[p].items, slot[p].chosen)]
    /\ asked' = [asked EXCEPT ![n] = [s \in Suppliers |-> Ask(s, slot[p].chosen)]]
    /\ raced' = raced \cup {{m, n} : m \in slot[p].met}
    /\ slot' = [q \in Slots |->
          IF q = p THEN Free
          ELSE IF slot[q].pc # "idle" THEN [slot[q] EXCEPT !.met = slot[q].met \cup {n}]
          ELSE slot[q]]
    /\ UNCHANGED <<supplier, offer, calls, reopened, alone>>

(* The transaction fails (among others: two numbers taken from the clock   *)
(* in the same millisecond), or the process ends.                          *)
Fail(p) == /\ slot[p].pc # "idle"
           /\ slot' = [slot EXCEPT ![p] = Free]
           /\ UNCHANGED <<tables, calls, history>>

-----------------------------------------------------------------------------
(* A message sent, an answer, an acceptance, a receipt for one supplier    *)
(* request: each writes the status of the whole request, whatever it was.  *)
LineAfter(status, line) ==
    IF status = "QUOTATION_RECEIVED" THEN "QUOTED"
    ELSE IF status = "CONFIRMED" THEN "ACCEPTED" ELSE line

Advance(n, s, status, some) ==
    /\ Receive
    /\ some # {}
    /\ request' = [request EXCEPT ![n] =
          [status |-> status,
           lines  |-> [i \in Lines |-> IF i \in some
                                       THEN LineAfter(status, request[n].lines[i])
                                       ELSE request[n].lines[i]]]]
    /\ reopened' = IF request[n].status = "FULLY_RECEIVED" /\ Open(status)
                   THEN reopened \cup {n} ELSE reopened
    /\ UNCHANGED <<supplier, offer, asked, slot, raced>>

(* suppliers.service: each one statement after its own look-up, which only *)
(* asks for a supplier that was not removed.  An update may bring any      *)
(* status with it.                                                         *)
UpdateSupplier(s, active, email) ==
    /\ Receive
    /\ ~supplier[s].deleted
    /\ supplier' = [supplier EXCEPT ![s] = [@ EXCEPT !.active = active, !.email = email]]
    /\ UNCHANGED <<offer, request, asked, slot, raced, reopened>>

RemoveSupplier(s) ==
    /\ Receive
    /\ ~supplier[s].deleted
    /\ supplier' = [supplier EXCEPT ![s] = [@ EXCEPT !.active = FALSE, !.deleted = TRUE]]
    /\ UNCHANGED <<offer, request, asked, slot, raced, reopened>>

CreateSupplierItem(s, item, price) ==
    /\ Receive
    /\ ~supplier[s].deleted /\ offer[s][item] = Unset
    /\ offer' = [offer EXCEPT ![s] = [offer[s] EXCEPT ![item] = price]]
    /\ UNCHANGED <<supplier, request, asked, slot, raced, reopened>>

Next ==
    \/ \E p \in Slots :
          \/ \E items \in SUBSET Lines \ {{}},
                preferred \in [Lines -> Suppliers \cup {Nobody}] : Check(p, items, preferred)
          \/ Choose(p) \/ Fail(p)
          \/ \E n \in Numbers : Create(p, n)
    \/ \E n \in Numbers, s \in Suppliers, status \in Progress :
          \E some \in SUBSET asked[n][s].items : Advance(n, s, status, some)
    \/ \E s \in Suppliers : \/ RemoveSupplier(s)
                            \/ \E active, email \in BOOLEAN : UpdateSupplier(s, active, email)
                            \/ \E item \in Items, price \in Prices : CreateSupplierItem(s, item, price)

Spec == Init /\ [][Next]_vars

-----------------------------------------------------------------------------
(* Type invariant. *)
TypeOK ==
    /\ supplier \in [Suppliers -> [active : BOOLEAN, deleted : BOOLEAN, email : BOOLEAN]]
    /\ offer \in [Suppliers -> [Items -> Prices \cup {Unset}]]
    /\ request \in [Numbers -> [status : Statuses,
          lines : [Lines -> {"none", "UNASSIGNED", "ASSIGNED", "QUOTED", "ACCEPTED"}]]]
    /\ asked \in [Numbers -> [Suppliers ->
          [status : {"none", "DRAFT", "READY_TO_SEND"}, items : SUBSET Lines]]]
    /\ slot \in [Slots -> [pc : {"idle", "choose", "create"}, items : SUBSET Lines,
          preferred : [Lines -> Suppliers \cup {Nobody}],
          chosen : [Lines -> Suppliers \cup {Nobody}], met : SUBSET Numbers]]
    /\ calls \in 0..MaxCalls
    /\ raced \subseteq SUBSET Numbers /\ reopened \subseteq Numbers /\ alone \in BOOLEAN

(* Two open requests of the day share an item only when their creations    *)
(* overlapped, or when one of them was fully received and opened again by  *)
(* a later answer, acceptance or partial receipt.                          *)
OneOpenRequest == \A m, n \in Numbers :
    m # n /\ Open(request[m].status) /\ Open(request[n].status)
          /\ (\E item \in Items : Names(m, item) /\ Names(n, item))
       => {m, n} \in raced \/ {m, n} \cap reopened # {}

(* A line with a supplier is on one supplier request, a line without is on *)
(* none, no supplier request is empty, and a request nobody was asked      *)
(* about stays a draft.                                                    *)
LinesAreAsked == \A n \in Numbers :
    /\ \A i \in Lines :
          Cardinality({s \in Suppliers : i \in asked[n][s].items})
             = IF request[n].lines[i] \in {"none", "UNASSIGNED"} THEN 0 ELSE 1
    /\ \A s \in Suppliers : asked[n][s].status = "none" <=> asked[n][s].items = {}
    /\ request[n].status \in {"none", "DRAFT"}
          <=> \A s \in Suppliers : asked[n][s] = NotAsked

(* When calls do not overlap, a line for which no offering supplier was    *)
(* preferred goes to an active supplier, and none of them offers its item  *)
(* for less.                                                               *)
AsksCheapest ==
    \A p \in Slots, n \in Numbers : Create(p, n) /\ alone =>
        \A s \in Suppliers : \A i \in asked'[n][s].items :
           /\ s \in Offering(i)
           /\ slot[p].preferred[i] \in Offering(i) => s = slot[p].preferred[i]
           /\ slot[p].preferred[i] \notin Offering(i) =>
                 \A t \in Offering(i) : Price(s, i) <= Price(t, i)
=============================================================================
