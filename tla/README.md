# BakeStack backend: a TLA+ verification project

BakeStack-Backend is a NestJS service over PostgreSQL (Prisma) that runs the
back office of bakeries: stock, recipes, production, quality checks, wastage,
procurement from suppliers, sales capture and the daily close.  Every operation
is an HTTP request; requests run concurrently in one or more Node processes and
meet only in the database.  The code uses interactive transactions at
PostgreSQL's default isolation level, READ COMMITTED, takes no explicit row
locks, and often checks a status *before* the transaction that acts on it.
Most of what can go wrong lies there, and that is what this project models.

## 1. Inventory of the system

| Component | State it keeps | Operations | What makes it hard |
|---|---|---|---|
| Inventory ledger (`common/prisma/inventory-ledger.ts`, `inventory/`) | `InventoryBalance`, `InventoryMovement`, `LocationInventoryItemSetting.unitCost` | `applyInventoryDelta` and its callers: opening stock, adjustment, wastage, receipts, production, voids | read, check and absolute write in separate statements; first row of a lot; moving average from three reads |
| Inventory and product imports (`inventory/`, `products/`) | `InventoryImport`/`ProductImport` job rows | a file row by row, one transaction each | partial failure, crash between rows |
| Wastage (`wastage/`) | `WasteEvent`, `IdempotencyKey` | record (idempotent), bulk record, void, reports | retries, duplicate delivery, concurrent voids |
| Production (`production/`) | `ProductionBatch`, consumptions, outputs | create, approve, start, complete, cancel | status read outside the transaction, unconditional status writes |
| Quality control (`qc/`) | `QCCheck`, the batch status | record a check (hold, fail, release) | writes the batch status over whatever production did |
| Procurement (`procurement/procurement.service.ts`) | requests, supplier requests, quotations, purchase orders, goods receipts | create, respond, accept, reject, submit, receive, post | finalisation and posting checks outside the transaction, absolute received quantities |
| Supplier messaging (`procurement/supplier-messaging.service.ts`) | messages, supplier-request status | draft, send, remind, confirm | an external send between two transactions, crash, retry, check-then-act limit |
| Recipes (`recipes/`) | `Recipe.isActive`, status | create, update, activate, archive | one active recipe per variant |
| Sales and reports (`sales/`, `reports/`) | `SalesEntry`, `DailyClose` | capture, preview, close, reconcile | close computed from a stale preview, closing twice |
| Locations (`locations/`) | `Location`, per-location prices, opening hours | create, update, set prices | one primary location, currency lock |
| Identity, roles, tenancy (`auth/`, `common/`, `roles/`, `users/`, `tenants/`) | `Tenant`, `User`, `Role`, assignments | provision at each request, assign | concurrent first requests |
| Onboarding, business profile, compliance (`onboarding/`, `business-profile/`) | `OnboardingProgress`, profiles | upserts, complete | preconditions of completion |
| Suppliers (`suppliers/`) | `Supplier`, `SupplierItem` | create, update, archive, offers | read by procurement outside its transaction |
| Appwrite mirror (`appwrite/`) | copies of rows | best-effort upsert and delete | writes after commit, failing and out of order |
| Audit, integrations, metadata, health | audit log | append, probe | nothing: never read, or without state |

Components interact through shared rows only: production, receipts, imports and
wastage call `applyInventoryDelta` inside their own transactions; QC writes the
batch status; messaging writes the supplier and procurement request status;
the daily close reads sales and waste events; a change of market reads whether
anything was recorded; every request passes through the provisioning of its
identity; products, items, suppliers, locations and their settings send a copy
of each row they write to Appwrite after the commit.

What makes each component correct, in the order in which it matters:

- **Ledger**: no balance below zero; the balance of a lot is the sum of its
  movements; one balance row per lot; the cost of an item is between the prices
  paid or set for it.
- **Wastage**: one event per idempotency key, the same answer to every retry; a
  void restores the goods once; stock missing = waste standing.
- **Production and quality**: ingredients leave the stock only for an approved
  batch, whole recipes, once; output only from consumed ingredients; a batch
  lives along its status checks.
- **Procurement**: a receipt is posted once; lines never count more than was
  delivered; RECEIVED is said only of what was received, on the order, the
  supplier request and the procurement request.
- **Messaging**: no second message where one was taken; at most one reminder in
  24 hours (the code lets a second one through, `supplier_reminded_twice`); no
  message left in SENDING; one target per supplier.
- **Daily close**: a day is closed once, with totals that agree with its rows.
- **Recipes, locations**: one active recipe per variant, one primary location, a
  currency that does not change once money was recorded in it (it does once sales
  were, `money_sold_before`).
- **Imports**: counters that add up to the rows; no row booked twice; one lot per
  batch number.
- **Provisioning**: one tenant, user and assignment per identity.
- **Mirror**: the copy ends up equal to the row.

The hazards behind these, each at its line, are in `PROJECT.json`.

## 2. How the database is modelled

Every module uses the same reading of PostgreSQL at READ COMMITTED, the level
Prisma's `$transaction` runs at when no other is given (none is):

- one action is one statement, or several that nothing can come between;
- a read sees what is committed when it runs, and its own transaction's writes;
- a write takes the row's lock and keeps it to COMMIT or ROLLBACK; another
  write of that row is not enabled until then; an unlocked read never waits;
- an INSERT that meets an uncommitted equal key waits; when the other commits it
  fails with P2002, when the other rolls back it goes on;
- transactions that wait for each other's locks in a circle: one is ended (an
  action, `EndDeadlock` or `Fail`);
- a statement that waited for a row works on the row as it then is; whether the
  code relies on it or wrote a value computed earlier is what the models keep;
- a call of a mail provider or of Appwrite stands between two transactions: it may
  have effect and still end in an error, and nothing undoes it;
- an import runs one transaction per row of its file; the server may end between
  two of them (`Crash`), and no code resumes the job;
- `Fail(p)` ends request `p` at any of its steps: an exception, Prisma's
  transaction timeout, a lost connection, a server that stops.  What its
  transaction wrote is undone.  A crash of the whole server is a `Fail` of every
  request in it, one after the other; only database state survives, and in these
  modules only database state is shared.

So a check made before a transaction is a separate, earlier action, its result
is kept in the request's local state, and what the code does not check again is
not checked again in the model.

## 3. Modules

```
StockBook <-------- StockLedger <-- MCStockLedger, StockLedgerProofs
 (implemented by)
OncePerKey <------- WasteEvents <-- MCWasteEvents, WasteEventsProofs
BatchLifecycle <--- ProductionBatch <-- MCProductionBatch, ProductionBatchProofs
                    Purchasing <-- MCPurchasing, PurchasingProofs
                    SupplierMessaging <-- MCSupplierMessaging, SupplierMessagingProofs
                    DailyClose <-- MCDailyClose
                    LocationMoney <-- MCLocationMoney

RecipeBook  LocationMoney  TenantSetup  DailyClose  ProcurementRequests
ItemImport  Catalogue  Provisioning  MirroredRow  WasteEvents  ProductionBatch
        ^--------- all instantiated by Components, which EXTENDS StockLedger
                   Components <-- MCComponents
                   Components, FiniteSums <-- OfficeProofs
                   OfficeProofs, StockLedgerProofs <-- ComponentsProofs
```

### StockLedger: `applyInventoryDelta` and its inventory callers

One item at one location (all queries filter on both).  `balance` is
InventoryBalance, by row id; `moved[l]` is the sum of the InventoryMovement
quantities of lot `l`; `unitCost` is the cost in LocationInventoryItemSetting;
`rowLock` and `settingLock` are the row locks; `paid` is a history: every cost that
was paid in a committed receipt or set by hand so far; `req` and `costing` are the local
variables of each request in progress.

| Action | Code (`inventory-ledger.ts` unless said) |
|---|---|
| `Begin` | the controllers of opening stock, adjustment and wastage: what a DTO can hold |
| `CheckMoney` | `inventory.service.ts`: the location has its currency |
| `ResolveLot` | the lot a decrease takes when the caller names none: earliest expiry first |
| `ReadBalance`, `ReadOnHands` | `findFirst` of the row with the negative-stock check; the total for the average |
| `UpdateBalance`, `CreateBalance` | the absolute write of the checked value; the first row of a lot |
| `ReadSetting`, `UpsertSetting` | the moving average: old cost read, new cost written |
| `Commit`, `Fail` | movement row and COMMIT; rollback |
| `SetCost`, `ForgetCost` | `locations.service.ts`: the setting written and deleted by hand, one statement that counts, beside any request |

Quantities and costs are integers of 10^-4, the columns' precision.

### WasteEvents: recording, bulk recording, voiding, under retries

An attempt is one HTTP request; a retry is another attempt with the same key.
`keyRow` is the IdempotencyKey row, `waste` the WasteEvent rows (an event is
named by its attempt and its place in the bulk body), `restored` counts the
void movements of an event.  `FindKey`, `InsertKey`, `Reread` are the three uses
of the key in `recordWasteEvent`; `Basis` is `resolveCostBasis`; `ReadEvent` is
the check of `voidWasteEvent`; `ReadStock`/`WriteStock` are the ledger's
read-and-check and write; `Commit` writes the events and the response.  The
answer of a committed attempt may be lost.  Bulk events lock rows in body order,
and `EndDeadlock` ends a circle.  The key's expiry is left out: nothing in the
code deletes expired keys or looks at `expiresAt`.

### ProductionBatch: production and quality control

`ReadStatus` is the check every operation makes on the batch *outside* its
transaction; the writes (`Approve`, `Start`, `Complete`, `Cancel`,
`CheckQuality`) then set the status unconditionally, as the code does.  A start
is `CheckStock` (per ingredient, outside), then for each ingredient
`ReadBalances` (rows with stock, oldest first), `ReadRow`/`WriteRow` for each of
them and `EndItem` (the shortage error, which rolls everything back).  `consumed`
is the sum of the CONSUME movements, `outputs` the number of output rows.  Finished goods
go to a new lot of their own, so only their number matters.

### Purchasing: quotations, orders, receipts

One procurement request.  `procurement`, `supplier`, `quotation`, `order`,
`counted` (receivedQty), `receipt` are the tables; `delivered` and `booked` are
what the PURCHASE_RECEIPT movements say, by order line and by receipt.
`ReadQuotation`/`Accept` and `ReadReceipt`/`UpdateLine`/`DeriveStatus`/`Post` are
the stale check followed by its transaction; `Post` also writes the supplier and
procurement request statuses.  `MessageSent` and `MessageFailed` are what
`SupplierMessaging` writes to those statuses, here as an environment that may act
at any time.  Every order has one line per item; receipts without an order only
move stock (StockLedger) and are left out, as are prices and item statuses.  Ids
are in creation order, which is how "newest order" is found.

### SupplierMessaging: sending, retrying, reminding

One supplier request.  `thread` is its SupplierMessage rows in creation order,
`status` and `channel` the SupplierRequest, `reminder` its `reminderCount` and
`lastReminderAt`, `target` the stored messaging target of each channel.  A call
of the service is `Send`, `Remind` or `Confirm` (what it reads before it writes
anything), then `Draft`/`CreateReminder`, `FindTarget`, `CreateTarget`,
`StoreTarget`, `StartSending`, `Deliver` (the provider takes the message, takes
it and the answer is lost, or refuses it), then one of `RecordSent`,
`RecordReminder`, `RecordConfirmation`, or `RecordFails` followed by
`MarkSendFailure`.  `Die(p)` ends a call at any of its steps; there is no
recovery code, so the message stays as it was until the user sends again.
`taken`, `reminded` and `created` say what the provider saw; they are no code
state, only the measure of what the rows claim.  `reminded` has every reminder the
provider took, whichever operation carried it.  `doubts[m]` counts the times the
service lost track of message `m` (two calls carried it, its answer was lost, its
record failed or its call died before recording it); `contested` names the channels whose
targets two calls set up at a time, or one that died between provider and table.

What the code does and the model keeps: a reminder's row is created SENDING
before a target is created for it, outside the `try`, so an error there leaves it
SENDING; `supplier.update` writes back the other channel's target id from an
earlier read; a later `Send` picks up a FAILED or SENDING reminder row as well;
`lastReminderAt` can move backwards when an older call records last; the
transactions of a sent message and of a reminder lock the two rows in opposite
order.

### RecipeBook: the recipes of one variant

`recipe` holds state, `isActive` and the lists of components (one per request
that wrote one).  `Create` and `Activate` go through `FindOthers`, `Demote` and a
commit; `Update` through `FindLists`, `Unlist`, `CommitUpdate`; `Remove` is
`Archive`.  `Demote` waits for the locks of rows it switches off and does not see rows
that became active after it started.  `loose` notes the two ways the code
guards nothing: an update that sets `isActive`, and overlapping creations.

### LocationMoney: the market of a location and its prices

An amount is modelled by the currency it was meant in; a price row carries the
label the code gave it.  `SetPrice`/`WritePrice` and `ReadCurrency`/`Record` are
the two statements of every request that labels money; `Sell`, `ResolvePrice` and
`UpsertSale` those of a sale, one SalesEntry row for each date in `Days`; `Update` is the
check of the new market, `CountActivity` the `getOperationalActivity` of eleven tables
(SalesEntry is not among them), `ClearPrices` and `Move` the writes.  A default
selling price has no currency in the schema: it is taken for the location's.  `DeletePrice` is the
removal of a local setting.

### TenantSetup: locations, profiles, onboarding of one tenant

`CreateLocation` and `UpdateLocation` with `Demote` and `SaveLocation` keep the
primary location; `SaveCafe`, `SaveBusiness`, `FindCompliance`/`SaveCompliance`
the profiles; `FindPrimary`, `FindCafe`, `ReadProgress`, `Complete` are the
statements of `completeOnboarding`.

### DailyClose: sales entries and the closing of one day

`CaptureSale`/`UpsertEntry` are the entry of one variant with its price (bulk
capture is a sequence of them); `FindDay`, `ReadSales`, `ReadWaste`,
`CostVariant` (one statement per variant) and `WriteClose` are the closing.
`Environment` is what other components write: local prices, cost rates, waste
and its voiding.  A DRAFT row comes only from the seed (`prisma/seed.ts`).
`Stamps` are moments of the one business day: the unique key of the row is the
moment the request names.

### ProcurementRequests: duplicates, suppliers, the split of a request

The requests of one location and one required day.  `Check` is the look for an
open request of the same items, `Choose` the reading of suppliers and offers,
`Create` the transaction that looks at neither again.  `Advance` is what the
later life of a supplier request writes to the statuses (Purchasing and
SupplierMessaging in one step), `UpdateSupplier`, `RemoveSupplier`,
`CreateSupplierItem` the supplier module; an update gives a supplier any status,
and an offer is added to any supplier that is not deleted.  A body is a set of lines,
and two of them may name one item (`ItemOf`) with different preferred suppliers.

### ItemImport and Catalogue: imports row by row

A job is `StartImport`, then for each row of the file its look-ups (`FindItem`,
`FindLot`; `FindProduct`, `FindVariant`) and `CommitRow`, or `RowFails`; then
`FinishImport`, which writes the counts kept in memory.  The answer of a row's
COMMIT may be lost (the row is then counted as an error though it is there).
`Crash` ends every import in progress.  ItemImport also has the removal of an
item (`FindRemoved`, `CommitRemoval`) and the linking of variants; Catalogue has
the products and variants made, moved and removed by hand.  SKUs are unique with
the deleted variants counted in, names of products are not unique at all.  A row
names its product and its variant, which may differ; `ceded` holds the product and
name of every variant that a row took away by its SKU.

### Provisioning: the rows of a signed-in identity

`FindUser`, `SyncUser`, `FindRole`, `Commit` are the statements of the
find-or-create transaction each request runs; a second INSERT of a unique key
fails at `Commit`, an updated user row is locked from `SyncUser` on.
`GoOnWithout` is the middleware's `catch`, `Serve` and `Refuse` the check of the
locations asked for, in header, query and body (`where`): none, or the same active
one everywhere.  A user whom an administrator assigned may hold an assignment that is
not in effect (`NotInEffect`) and be refused; assignments of another role or of one
location are left out.  `CreateUser`, `Assign` and `Deactivate` are the users, roles
and locations modules as far as they meet it.

### MirroredRow: a row and its Appwrite copy

`Begin`, `Write`, then `Mirror` (upsert or delete of the copy) or `Drop` (the
mirror call failed and was logged).  Nothing orders two `Mirror` steps.

### Components: many components side by side

The components above share no rows with each other, so each behaviour runs one:
`which` names it and never changes.  StockLedger is extended, the others are
instantiated with variables of their own name, which two of them share when
they give it to a variable each; a variable that only others use keeps the value it
had at the start.  This is the same as twelve separate
specifications, and each property says of which behaviours it speaks; it lets one
run check them and one module prove them.  The ledger,
wastage and batches run here under their `SerialSpec` next-state relation.
MCComponents gives the constants small values.

### Abstract specifications

- `StockBook`: a stock and a log that always agree, never below zero.
- `OncePerKey`: what an idempotency key promises: one effect, and every answer
  names it.
- `BatchLifecycle`: planned, approved, started, completed, once each; a release
  from quality hold completes a batch without making anything.

The ledger and the batches implement theirs only with one request at a time
(`SerialSpec`: a request arrives only when none is in progress); the concurrent
specification does not, and the violation runs show where.  `OncePerKey` is
implemented under full concurrency.

### Flags that say when a property holds

Much of what this code promises is kept by a look-up before a write, so it holds
for requests that do not overlap and not otherwise.  The modules say which: a
history variable (`calm`, `alone`, `contested`, `crossed`, `raced`, `promoted`,
`loose`, `late`, ...) records that an overlap, a failure or an exceptional
operation happened, no guard reads it, and the property is stated of the
histories without it.  Some need no such flag, or only name an exceptional operation: `OnePrimary`,
`RowClosedOnce`, `OneOwnership`, `LinesAreAsked`, `JobTellsTruth`,
`RecordedIsTaken` hold whatever overlaps.

## 4. Runs

| Run | Question | Instance |
|---|---|---|
| `ledger_concurrent` | what concurrent requests cannot break: `NoNegativeStock`, `OneRowPerLot`, `CostWithinPaid`; that every request ends: `Answered` | 2 requests from a stock of 2 lotless units (`StockedInit`), 3 rows, 1 lot and lotless, quantities {1,2}, costs {1,4} |
| `ledger_overdrawn` | *violation* of `LedgerNeverOverdrawn`: two reductions of one row both pass the check | 3 requests, quantity 1 |
| `ledger_two_rows` | *violation* of `OneRowPerLotId`: two first movements without a lot insert two rows | 2 requests |
| `waste_concurrent` | `OneEventPerKey`, `ConflictIsAnswered`, refinement of `OncePerKey` (`KeepsPromise`), `NoNegativeStock`, `Answered` | 3 attempts, 1 key, bulk of 2, 2 balance rows |
| `production_concurrent` | `MadeFromConsumed`, `ConsumedAfterApproval`, `ConsumesWholeRecipes`, no deadlock | 2 requests at a time, 2 batches, 2 ingredients, 3 balance rows |
| `purchasing_concurrent` | `NeverMoreThanDelivered`, `StatusIsEarned`, `UpstreamIsEarned`, no deadlock | 2 requests, 1 supplier and quotation, 2 orders, 2 receipts, 2 items, 3 deliveries |
| `purchasing_posted_twice` | *violation* of `PostedOnce`: one receipt booked twice | 1 order, 2 receipts |
| `messaging` | what the rows say of the provider (`RecordedIsTaken`), nothing twice unless the service lost track of it (`NothingTwice`), no message left SENDING unless its call died (`SendingIsLeft`) | 3 calls, 2 channels, a clock of two ticks, a day of one |
| `supplier_reminded_twice` | *violation* of `RemindersApart`: a refused reminder is delivered by a send, and another follows at once | 4 calls one after the other, 1 channel |
| `money_sold_before` | *violation* of `SalesInItsCurrency`: a sale does not lock the currency | 1 request at a time, 2 markets |
| `components` | the properties of Components below | one component per behaviour |
| `day_closed_twice` | *violation* of `DayClosedOnce`: a day closed at two of its moments has two closings | 2 moments, one request at a time |

The `components` run:

| Component | Properties | Instance |
|---|---|---|
| ledger, one at a time | `BalanceIsLedger`; `ImplementsBook`: refinement of `StockBook` | 3 requests, 3 rows, 1 lot and lotless |
| wastage, one at a time | `StockIsStandingWaste` through bulk requests, failures and voids | 3 attempts, quantity 2 of stocks of 3 and 2, bulk of 2 |
| batches, one at a time | `LivesByStatus`: refinement of `BatchLifecycle` | 2 requests, 2 batches, 3 rows |
| recipes | `RecipesConsistent`: one active, one list | 3 requests, 2 recipes |
| money | `MoneyInItsCurrency`: prices, counted records and time zone follow the market | 2 requests, 2 markets, 2 prices and the profile, 1 date of sales, `MaxCalls` 3 |
| set-up | `SetupConsistent`: one primary, one compliance profile, completion earned | 2 requests, 2 locations, `MaxCalls` 5 |
| day | `RowClosedOnce`; `ClosedWhatWasSold`: totals are those of the rows | 2 requests, 2 variants, 2 moments, `MaxCalls` 3 |
| asking | `RequestsConsistent`: no two open requests of an item, lines and supplier requests agree, cheapest asked | 2 requests, 2 items, 2 lines of one item, 2 suppliers, `MaxRequests` 2, `MaxCalls` 4 |
| item import | `JobTellsTruth`; `ItemsConsistent`: one lot per batch number, nothing booked for a deleted item | 2 jobs, 3 files of two rows, `MaxRemovals` 1 |
| product import | `ProductsConsistent`: no second product, no orphan, repetition creates nothing but what was ceded | 2 jobs, 2 files of two rows, one of which takes the other row's variant by its SKU, 3 SKUs, `MaxProducts` 2, `MaxByHand` 1 |
| people | `PeopleConsistent`: one ownership, provisioned whole; `ServedAlone`: when a request goes on without its identity | 2 requests, 4 identities, `MaxUsers` 3, `MaxCalls` 4 |
| mirror | `CopiedAtRest` | 3 requests, `MaxVersion` 5 |

**Why the bounds are enough.**  Every hazard here is a pair of requests: one
reads, another commits, the first writes.  Two requests in progress give it; where
a request runs once, three are used if the state must exist first (a balance to
overdraw, a message to remind of), or the run starts where an earlier request
left the tables: `ledger_concurrent` begins with lotless goods on hand at a known cost,
which one opening stock commits, so that its two requests overlap on a row that
exists (two reductions, two receipts, or one of each), race for the first row of the lot,
and find a cost set or removed by hand between their reads and writes.  The theorems
of section 5 are about `Spec`, which begins with empty tables, and any number of requests.  In production,
purchasing and most components a slot is reused, so two slots give histories as
long as `MaxCalls` allows, or of any length.  Two lots plus lotless stock give the
expiry choice; two rows of one ingredient, the older too small for the recipe,
force a start over several rows; a delivery with one item in two lines, one with
refused goods and one with part of the order cover the cases of a posting.  Two
import rows give a repetition within a file and an error after a success, two
jobs the same across files.  Two organisations and two emails of one person, and
one email of two persons, give the conflicts of provisioning.  `MaxCalls`,
`MaxRequests`, `MaxProducts`, `MaxByHand`, `MaxRemovals`, `MaxUsers`, `MaxVersion`
and `MaxTime` bound what would grow without end; they leave room for one call
before the overlap of two and, where it matters, one after it, and at these
bounds each property is broken by a plausible slip in the code it is about.

**Deadlock** is not checked in the ledger, wastage, messaging, day and components
runs because their requests are bounded in number and the system then stops;
`Answered` and `SendingIsLeft` are the stronger checks there.  In production and
purchasing it is checked.

**Symmetry** is used only in runs without liveness: between the requests,
receipts or balance rows of one instance, and in `components` between `p1` and `p2`, which no
component and no property tells apart.

**Fairness.**  `FairSpec` is weak fairness on the steps of each request: the
Node event loop resumes a request whose statement has returned, and PostgreSQL
grants a free lock and, after `deadlock_timeout`, ends one transaction of a
circle; the provider's client answers or fails.  There is no fairness on
arrivals, nor on `Fail` or `Die`: liveness is not bought with crashes.  In the
ledger no circle of locks exists, because a request takes one balance row and
then the setting row.

**What the violations show.**  Three of the six have one shape: a check on an
unlocked read, then a write that does not depend on it (`ledger_overdrawn`,
`ledger_two_rows`, `purchasing_posted_twice`).  Overlap is all they come from: with
one request at a time the three properties are theorems (section 5, named
`Serial...`).  `ledger_overdrawn` is subtle: the *balance* stays non-negative
(proved), because the loser overwrites the winner's value with its own checked
one; the goods gone are seen only by adding up the movements.  The other three
need no overlap and no failure of the service: `day_closed_twice`, since `closeDate`
is stored as the moment it was given, so two closings of a day with different times
are different rows; `money_sold_before`, a sale followed by a change of market;
`supplier_reminded_twice`, four calls in a row whose answers all arrive: the
reminder that the provider refused stays the newest message to send again, and a
plain send delivers it without writing `lastReminderAt`.

**What the models also reach** and is not listed as a violation, since
nothing in the repository says otherwise, or since it is one of the shapes above again:

- the check-then-write of `purchasing_posted_twice` stands also before the void of a
  waste event (`wastage.service.ts:185`), before the start of a batch
  (`production.service.ts:307`) and before the acceptance of a quotation
  (`procurement.service.ts:772`): two voids give the goods back twice and two starts
  consume twice.  `RestoredOnce` and `ConsumedOnce` are theorems for one request at a
  time and are not claimed of overlapping ones;
- a movement, receipt or waste event inserted beside a change of market keeps the
  old currency, as the count of activities locks nothing (`locations.service.ts:653`):
  `ActivityInItsCurrency` holds where nothing crosses a change (`RecordedInItsCurrency`);
- a batch held while PLANNED and then released ends COMPLETED without output
  (`qc.service.ts:104`; it is a step of `BatchLifecycle`);
- a quotation is rejected even after it became an order
  (`procurement.service.ts:944`), and the confirmation sent by an acceptance can
  throw after the acceptance was committed (`procurement.service.ts:918`);
- the closing's waste includes voided events, which the reconciliation excludes;
- a row of an import whose SKU belongs to a deleted variant fails at every
  repetition; one that moves a generated SKU makes the next import generate
  another;
- the readiness report of a location (`isReady`) ignores `isAvailable` and `isStocked`, which the
  checks of money settings look at.

## 5. Proofs

Every invariant and every action property that a passing run checks, and the three
refinements, are theorems: TLC shows them on the instances of section 4,
tlapm for every value of the constants.  What they assume is in the modules'
named assumptions, which the runs have TLC evaluate: which constants differ, which
numbers are natural, and that the sets a sum runs over (`Rows` of the ledger,
`Attempts` of wastage, `Variants` of a day) are finite, since a recursive sum over an
infinite set means nothing.  The theorem of a component in OfficeProofs has its
assumption as a hypothesis; ComponentsProofs discharges them from Components.

The induction over data that a recursive sum needs is made by a smallest
counterexample: a non-empty set of natural numbers has a least element
(`WFMin` with `NatLessThanWellFounded`), so no finite set is the smallest one at
which the sum misbehaves.  **FiniteSums** states this once: the
sum exists, is a natural number, does not depend on the order in which elements are
taken, changes by what one of its terms changes, and keeps bounds.

**StockLedgerProofs.**  `StockNeverNegative`: any number of concurrent requests.
`NoNegativeStock` alone is not inductive, since `UpdateBalance` writes a value
computed earlier.  `SafetyInv` adds that what a request at its write or commit
is going to make of its row was itself checked; since every writer writes an
absolute value, the row is safe whatever was overwritten.
`LotsHaveOneRow`: a lot never gets two balance rows, whichever requests overlap.
`LotInv` counts the committed rows of a lot together with the requests about to
insert one: a request creates only for a lot without a row, at most one does at a
time (the unique key makes the second wait), and when the first commits the
second fails.
`CostStaysWithinPaid`: `CostInv` says that every number a request has read for
its average, at whatever moment, was within what had been paid or set by then, and that
`paid` only grows, so a cost set or removed by hand meanwhile does no harm; a weighted mean of two numbers between two bounds, rounded as
the code rounds it, is between them.  `AllTypesCorrect` adds that the average is a
natural number, so the whole `TypeOK`.
`SerialBalanceIsLedger` and `SerialLedgerIsStockBook`: with one request at a
time, `SerialInv` says that what the active request has read is still so, that
no other has anything open and that each lot has one row; then each commit
is a step of the stock book, and everything else a stutter.
`SerialLedgerIsNotOverdrawn` and `SerialLotsHaveOneRow` follow from the same invariant.

**WasteEventsProofs.**  `OneEventForAKey`, `ConflictsAreAnswered`,
`KeysKeepTheirPromise`.  `KeyInv` ties each committed key row to the attempt
whose events exist (`EventsAreOwned`, `KeyNamesEvent`), says that at most one
open transaction holds an uncommitted key row and only of a key not in the table
(`InsertIsAlone`, `InsertIsNew`), and that a committed row always has its
response (`RowsReply`), which is why the conflict handler finds one.
`StockNeverNegative`: `StockInv` adds to the committed stock the drafts under a
lock and what a writer is about to write.
`StockLacksStandingWaste`, one request at a time: `SerialInv` says of the
attempt under way that its drafts are the committed stock less the lines of its
body up to the present one (`Underway`); the sum over all events then changes at its commit by
exactly those lines, and at the commit of a void by the event it restores.
`SerialVoidsRestoreOnce`: the event a void is about to restore is still recorded.

**ProductionBatchProofs.**  `ApprovalComesFirst` and `GoodsAreMadeOfSomething`.
The status of a batch proves nothing, as any write may overwrite it; what is
stable is that an approval and a consumption are never undone
(`NothingIsUndone`), so what a stale check saw still implies what it implied.
`SafetyInv` carries that through the statuses and the local states of starts
and completions.  `RecipesAreWhole`: what a batch consumed is `n` times its
recipe (`WholeInv`), with the three facts about division that turn this into the
remainders and quotients of `ConsumesWholeRecipes`.
`SerialBatchesLiveByStatus` is the refinement of BatchLifecycle, step by step: with one
request at a time what was checked outside the transaction is still so, and the
status tells what was consumed and made (`StatusTells`); hence
`SerialBatchesConsumeOnce`, since a batch that may start has consumed nothing.

**PurchasingProofs.**  `CountsAreCovered`, `OrdersAreReceived`,
`RequestsAreReceived`.  `Covered`: what a posting has read of a line is covered by deliveries,
and what it writes is covered by those plus what its own movements bring at
commit.  `Earned`: the status it has derived will be true when it commits.
Both hold because deliveries only grow and an order keeps its supplier
request (`Kept`, proved as a lemma about every step).
`SerialReceiptsPostOnce`: with one request at a time a receipt that is being posted is
still a draft (`PostsDraft`), so it is booked once (`BookedOnPosting`).

**SupplierMessagingProofs.**  `TypeCorrect` and `RecordedWasTaken`: any number of
overlapping, dying and repeated calls.  `CallInv` says what a call may carry at
each of its steps: past `Deliver` its message was taken.  `RowsInv`: a message marked SENT was
taken, a confirmation is SENT and so never sent again, and reminders exist only
where the request was taken before.  Both rest on the thread and
what was taken only growing (`Grown`).  `CountInv` adds the calls that have had a
reminder taken and not yet recorded it: the count and those together never
exceed the reminders taken, which is a statement about a cardinality and needs
the theorems on finite sets.  `NothingIsDoneTwice`, in two halves.  `OnceInv` gives a message one taking: the one the
provider made, that of a call that carries it and may still make it, or, while it may be
sent again and nobody carries it, the next one; and one more for each time the service
lost track of it (`doubts`).  It counts the calls that carry it, a cardinality again.
`TargetInv`: a call that sets up a channel nobody contests is the only one to set
up anything, found no target there, and knows the others as the table has them; so a
target was created exactly if it is stored or about to be.

**OfficeProofs**, and the first half of ComponentsProofs (products, and what needs
transactions that do not overlap: `ItemInv`, `AloneInv`, `ProductInv`), have one section
per component: its inductive invariant, an induction step per action, and what follows.

| Section | Invariant | Why the property alone is not inductive |
|---|---|---|
| daily close | `CloseInv`, `DayInv` | the status of the row is stale when the row is written: a closing that found no row inserts only where there is still none, and such a row was never closed. For the totals, a closing alone has added up exactly the rows it has passed and lacks those in its `todo` |
| item import | `ImportInv`, `ItemInv` | `Running` relates the counts in memory to what was committed (`Counted`), and only rows before the present one can have been; without an overlap, what the row found of its item and lot is still so |
| provisioning | `OwnInv`, `AloneInv` | `SlotOK`: a user row a request has found is up to date, and then owned, or locked by this very request; without an overlap, the rows the request saw are the rows |
| mirror | `MirrorInv` | what a write on its way to Appwrite carries is the row, when it is the only one |
| recipes | `BookInv` | an activation waits for locks and passes over rows that became active meanwhile: `Covers` says that whoever is about to make a recipe active has each recipe that another could make active among those it waits for or has switched off |
| money | `MoneyInv` | `Meant`: the label a request holds, a sale's too, is the currency of the location, what a change of market counted is still nothing, and it clears every price that exists, as long as no change of market overlaps another request |
| set-up | `SetupInv` | the others are switched off one lock at a time: `Knows` says that each primary location is the one being raised, is off already or is waited for; `Checked`: what the steps of a completion found is still there |
| requests | `AskInv` | a creation looks for open requests first and never again: `Met` says that every open request sharing an item with its body was created since its look, or reopened; `ChosenBest`: the offers it chose from are still the offers |
| products | `ProductInv` | what a row found is still so without an overlap, and a row done has a product of its name and, unless ceded, a variant of the row's name (`Kept`) |

`BookInv` keeps one active recipe under *every* overlap of activations, `SetupInv` one
primary location, `AskInv` the agreement of lines and supplier requests: those
hold without a proviso on concurrency, and are where a test would see least.

**ComponentsProofs** then shows that a step of `AnySpec` is a step of the component
that runs, so each invariant holds in the composed behaviours, and states every
property of the `components` run as a theorem.  WasteEventsProofs and
ProductionBatchProofs are instantiated: their theorems hold for the instances in Components.

**What the attempts showed about the models.**  Three statements that TLC had passed
on its instance turned out false in general, and were corrected in the model or the property:

- `OneActive` failed when a recipe, even an inactive one, was created beside an
  activation: the activation looks for the other recipes before the new row is visible, a second
  one activates the new row, and neither switches the other's recipe off.  `loose` now
  covers every creation that overlaps an activation;
- `RecreatesNothing` failed when a row gives the SKU of another row's variant: the
  import moves that variant to the row's product (`products.service.ts:695`), or
  renames it, and the next import of the first row makes a new one.  `ceded` names what
  was taken away, and the files of the `components` run now have such a row;
- sums over an infinite set of rows, attempts or variants are unspecified: the
  assumptions say that these sets are finite, as tables are.

**Only model-checked:** liveness (`Answered`, `SendingIsLeft`): fairness and ENABLED
are outside what tlapm proves.

## 6. What is not modelled, and the plan

Nothing to check: metadata, health and integrations (no state), audit (rows
appended in the caller's transaction and never read), the scoped Prisma client
(connection set-up), reports that only read, formatting and validation of DTOs.

Outside the code: login and the rest of authentication are calls to an external
service; only its answer, an identity, is in Provisioning.

Left out of modelled components: opening hours and the readiness report of
locations; inventory items created by hand and updates of single fields of items,
products, suppliers and users (one statement, no condition); the notices to
internal users, whose failures are swallowed; purchase orders made by hand
without a quotation; the seed, but for the draft close it leaves.

Still worth doing, in this order:

1. Purchasing composed with SupplierMessaging on one supplier request, in place
   of `MessageSent` and `MessageFailed`.
2. Items created by hand beside their import, and the opening hours.
