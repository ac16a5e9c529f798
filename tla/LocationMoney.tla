----------------------------- MODULE LocationMoney -----------------------------
(***************************************************************************)
(* The money of ONE location: its market (country, currency and time zone),*)
(* its local prices, its sales, and what is recorded there in its currency.*)
(* Every request reads the currency in one statement and writes what it    *)
(* labels with it in another; a change of market reads, counts, clears the *)
(* prices and writes the location in one transaction.                      *)
(*                                                                         *)
(* An amount is modelled by the currency it was meant in: the location's   *)
(* currency when the request that brought it was received.                 *)
(***************************************************************************)
EXTENDS Integers, FiniteSets

CONSTANTS
    Requests,
    Priced,       \* kinds of local settings: variant, item, supplier item
    Vended,       \* the one of them a sale takes its price from: variant
    Days,         \* the business dates of SalesEntry rows, of one variant
    Profile,      \* LocationProfile, whose amounts are revenue and rent
    Markets,      \* the registered markets
    CurrencyOf,   \* market.currencyCode
    None,         \* undefined in a dto, null in a column
    Unknown,      \* a country that is not registered
    MaxCalls      \* bound on the number of requests

MoneyAssumption ==
    /\ None # Unknown /\ MaxCalls \in Nat
    /\ Profile \notin Priced /\ Vended \in Priced
    /\ {None, Unknown} \cap (Markets \cup {CurrencyOf[m] : m \in Markets}) = {}

VARIABLES
    loc,          \* the Location row: its market, whose time zone, isActive
    price,        \* the row of local settings of each kind
    recorded,     \* currencies of the rows that count as operational activity
    sales,        \* the revenue of each SalesEntry row, None for no row
    ask,          \* local state of each request in progress
    calls,        \* requests received so far
    crossed       \* history: a change of market overlapped another request

vars == <<loc, price, recorded, sales, ask, calls, crossed>>

Currencies == {CurrencyOf[m] : m \in Markets}
Kinds      == Priced \cup {Profile}
Setting    == [exists : BOOLEAN, amount : Currencies \cup {None}, label : Currencies \cup {None}]
Location   == [market : Markets, zone : Markets, active : BOOLEAN]
Request    == [pc : {"idle", "resolve", "write", "count", "clear", "move"},
               op : {"price", "record", "sale", "update", "none"}, kind : Kinds,
               amount : Currencies \cup {None}, currency : Currencies \cup {None},
               market : Markets \cup {None}, zone : Markets \cup {None},
               active : BOOLEAN, cleared : SUBSET Kinds]

NoSetting == [exists |-> FALSE, amount |-> None, label |-> None]
Quiet == [pc |-> "idle", op |-> "none", kind |-> Profile, amount |-> None,
          currency |-> None, market |-> None, zone |-> None, active |-> TRUE, cleared |-> {}]

Init ==
    /\ loc \in {[market |-> m, zone |-> m, active |-> TRUE] : m \in Markets}
    /\ price = [k \in Kinds |-> NoSetting]
    /\ recorded = {}
    /\ sales = [d \in Days |-> None]
    /\ ask = [p \in Requests |-> Quiet]
    /\ calls = 0
    /\ crossed = FALSE

CountryCode == loc.market              \* mutant: the country for its currency
Currency   == CurrencyOf[loc.market]
Busy(p)    == ask[p].pc # "idle"
Locked(k)  == \E p \in Requests : k \in ask[p].cleared
Done(p)    == ask' = [ask EXCEPT ![p] = Quiet]
Changes(p) == ask[p].op = "update" /\ ask[p].market \notin {None, loc.market}

Receive(p, change) ==
    /\ ask[p].pc = "idle" /\ calls < MaxCalls
    /\ calls' = calls + 1
    /\ crossed' = (crossed \/ \E q \in Requests : Busy(q) /\ (change \/ Changes(q)))

-----------------------------------------------------------------------------
(* upsertProductVariantSetting, upsertInventoryItemSetting,                *)
(* upsertSupplierItemSetting and upsertProfile: the location is read, then *)
(* a transaction writes the row.  An absent amount leaves the stored one,  *)
(* the label is written always.                                            *)
SetPrice(p, k, amount) ==
    /\ Receive(p, FALSE)
    /\ ask' = [ask EXCEPT ![p] = [@ EXCEPT !.op = "price", !.kind = k, !.currency = Currency,
                  !.amount = IF amount THEN Currency ELSE None, !.pc = "write"]]
    /\ UNCHANGED <<loc, price, recorded, sales>>

WritePrice(p) == LET k == ask[p].kind IN
    /\ ask[p].pc = "write" /\ ask[p].op = "price"
    /\ ~Locked(k)
    /\ price' = [price EXCEPT ![k] = [
           exists |-> TRUE, label |-> ask[p].currency,
           amount |-> IF ask[p].amount = None THEN price[k].amount ELSE ask[p].amount]]
    /\ Done(p)
    /\ UNCHANGED <<loc, recorded, sales, crossed, calls>>

(* The three delete...Setting operations; a profile is never deleted. *)
DeletePrice(p, k) ==
    /\ Receive(p, FALSE)
    /\ k \in Priced /\ price[k].exists /\ ~Locked(k)
    /\ price' = [price EXCEPT ![k] = NoSetting]
    /\ Done(p)
    /\ UNCHANGED <<loc, recorded, sales>>

-----------------------------------------------------------------------------
(* requireLocationCurrency, then the row: a stock movement, receipt, waste *)
(* event, production batch or daily close.                                 *)
ReadCurrency(p) ==
    /\ Receive(p, FALSE)
    /\ loc.active
    /\ ask' = [ask EXCEPT ![p] = [@ EXCEPT !.op = "record", !.currency = Currency, !.pc = "write"]]
    /\ UNCHANGED <<loc, price, recorded, sales>>

Record(p) ==
    /\ ask[p].pc = "write" /\ ask[p].op = "record"
    /\ recorded' = recorded \cup {ask[p].currency}
    /\ Done(p)
    /\ UNCHANGED <<loc, price, sales, crossed, calls>>

(* upsertEntry of a sale reads the currency too; a price not in the dto is *)
(* then that of the variant's local setting, whatever its label, or the    *)
(* tenant's default, a number without a currency.                          *)
Sell(p, named) ==
    /\ Receive(p, FALSE)
    /\ loc.active
    /\ ask' = [ask EXCEPT ![p] = [@ EXCEPT !.op = "sale", !.currency = Currency, !.amount = Currency,
                  !.pc = IF named THEN "write" ELSE "resolve"]]
    /\ UNCHANGED <<loc, price, recorded, sales>>

ResolvePrice(p) ==
    /\ ask[p].pc = "resolve"
    /\ ask' = [ask EXCEPT ![p] = [@ EXCEPT !.pc = "write",
                  !.amount = IF price[Vended].amount = None THEN ask[p].amount
                            ELSE price[Vended].amount]]
    /\ UNCHANGED <<loc, price, recorded, sales, crossed, calls>>

(* One row for each business date, overwritten by a later submission.      *)
UpsertSale(p) ==
    /\ ask[p].pc = "write" /\ ask[p].op = "sale"
    /\ \E d \in Days : sales' = [sales EXCEPT ![d] = ask[p].amount]
    /\ Done(p)
    /\ UNCHANGED <<loc, price, recorded, crossed, calls>>

-----------------------------------------------------------------------------
(* requireMarket: None when the dto names no country, Unknown when it is   *)
(* refused.  code and name are what findMarket finds for them.             *)
RequireMarket(code, name) ==
    CASE code = Unknown \/ (code = None /\ name = Unknown)         -> Unknown
      [] code \in Markets /\ name \in Markets /\ code # name       -> Unknown
      [] code \in Markets                                          -> code
      [] OTHER                                                     -> name

(* resolveLocationTimeZone: a requested zone must be one of the market's;  *)
(* without a request, a new market infers one of its own.                  *)
AnyZone(requested, market, current) == requested       \* mutant: zone not validated
ZoneFor(requested, market, current) ==
    LET of == IF market = None THEN current ELSE market
    IN  CASE requested = None -> market
          [] requested = of   -> of
          [] OTHER            -> Unknown

(* LocationsService.update reads the location, resolves the market and the *)
(* time zone against what it read, and opens its transaction.              *)
Update(p) ==
    /\ \E code, name \in Markets \cup {None, Unknown}, zone \in Markets \cup {None},
          active \in BOOLEAN :
          LET market == RequireMarket(code, name)
              to     == ZoneFor(zone, market, loc.market)
              change == market \notin {None, loc.market}
          IN  /\ market # Unknown /\ to # Unknown
              /\ Receive(p, change)
              /\ ask' = [ask EXCEPT ![p] = [@ EXCEPT
                     !.op = "update", !.market = market, !.zone = to, !.active = active,
                     !.pc = IF change THEN "count" ELSE "move"]]
    /\ UNCHANGED <<loc, price, recorded, sales>>

(* getOperationalActivity counts eleven tables; SalesEntry is not one.     *)
NothingCounts == FALSE                                  \* mutant: lock forgotten
Activity == recorded # {}

CountActivity(p) ==
    /\ ask[p].pc = "count"
    /\ IF Activity THEN Done(p) ELSE ask' = [ask EXCEPT ![p].pc = "clear"]
    /\ UNCHANGED <<loc, price, recorded, sales, crossed, calls>>

(* Four updateMany set the amounts to null: the rows that exist now, which *)
(* stay locked, and no row inserted later.                                 *)
PricedOnly == {k \in Priced : price[k].exists}          \* mutant: profile forgotten
Cleared == {k \in Kinds : price[k].exists}

ClearPrices(p) ==
    /\ ask[p].pc = "clear"
    /\ \A k \in Cleared : ~Locked(k)
    /\ ask' = [ask EXCEPT ![p] = [@ EXCEPT !.cleared = Cleared, !.pc = "move"]]
    /\ UNCHANGED <<loc, price, recorded, sales, crossed, calls>>

Move(p) == LET a == ask[p] IN
    /\ a.pc = "move"
    /\ loc' = [market |-> IF a.market = None THEN loc.market ELSE a.market,
               zone   |-> IF a.zone = None THEN loc.zone ELSE a.zone,
               active |-> a.active]
    /\ price' = [k \in Kinds |-> IF k \in a.cleared
           THEN [exists |-> TRUE, amount |-> None, label |-> CurrencyOf[a.market]]
           ELSE price[k]]
    /\ Done(p)
    /\ UNCHANGED <<recorded, sales, crossed, calls>>

Fail(p) == Busy(p) /\ Done(p) /\ UNCHANGED <<loc, price, recorded, sales, crossed, calls>>

Step(p) ==
    \/ WritePrice(p) \/ Record(p) \/ ResolvePrice(p) \/ UpsertSale(p)
    \/ CountActivity(p) \/ ClearPrices(p) \/ Move(p)

Arrivals(p) ==
    \/ \E k \in Kinds : DeletePrice(p, k) \/ \E amount \in BOOLEAN : SetPrice(p, k, amount)
    \/ ReadCurrency(p)
    \/ \E named \in BOOLEAN : Sell(p, named)
    \/ Update(p)

Next == \E p \in Requests : Arrivals(p) \/ Step(p) \/ Fail(p)

Spec == Init /\ [][Next]_vars

-----------------------------------------------------------------------------
(* Type invariant. *)
TypeOK ==
    /\ loc \in Location
    /\ price \in [Kinds -> Setting]
    /\ recorded \subseteq Currencies
    /\ sales \in [Days -> Currencies \cup {None}]
    /\ ask \in [Requests -> Request]
    /\ calls \in 0..MaxCalls
    /\ crossed \in BOOLEAN

(* A price that the readers accept (its label is the currency of the       *)
(* location) was entered in that currency: a change of market never turns  *)
(* an old number into new money, as long as no other request overlaps it.  *)
Usable(k) == price[k].exists /\ price[k].amount # None /\ price[k].label = Currency
PriceInItsCurrency == ~crossed => \A k \in Kinds : Usable(k) => price[k].amount = Currency

(* "Location country and currency cannot change after operational activity *)
(* has been recorded": the rows of the tables that getOperationalActivity  *)
(* counts are in the currency the location has now.  A row may be inserted *)
(* between that count and the change, or labelled before and inserted      *)
(* after it ...                                                            *)
ActivityInItsCurrency == recorded \subseteq {Currency}

(* ... but only by a request that overlaps the change.                     *)
RecordedInItsCurrency == ~crossed => ActivityInItsCurrency

(* The same of sales, whose revenue the daily close adds up in the currency*)
(* of the location: their table is not counted, so one request after the   *)
(* other can sell and then change the market.                              *)
SalesInItsCurrency == \A d \in Days : sales[d] \in {None, Currency}

(* The time zone is one of the location's country, though an update that   *)
(* names only a zone is checked against a location read earlier.           *)
ZoneOfItsCountry == ~crossed => loc.zone = loc.market
=============================================================================
