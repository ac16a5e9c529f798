------------------------------ MODULE Components ------------------------------
(***************************************************************************)
(* The components that share no rows with each other side by side, and the *)
(* ledger, wastage and production with one request at a time.  "which"     *)
(* names the one that runs in a behaviour; a variable that only others use *)
(* stays as it was.  Components that give the same name to a variable or a *)
(* constant share it: no behaviour runs two of them.                       *)
(***************************************************************************)
EXTENDS StockLedger, Sequences

CONSTANTS
    Slots,                    \* requests and import jobs; the ledger's are Requests
    None, Unknown, AutoSku,    \* no value, any other value, a generated SKU
    RecipeIds,
    Priced, Vended, Days, Profile, Markets, CurrencyOf, MoneyCalls,
    Locations, SetupCalls,
    Units, Prices, Stamps, Labour, Variants, DayCalls,
    Items, Lines, ItemOf, Suppliers, OfferPrices, StartOffers, MaxRequests, AskingCalls,
    ItemNames, BatchNumbers, ItemFiles, LinkedVariants, MaxRemovals,
    ProductNames, Categories, Skus, BaseSku, RowSku, ProductFiles, MaxProducts, MaxByHand,
    Identities, Branches, MaxUsers, PeopleCalls,
    MaxVersion,
    Keys, NoKeyRow, Shelf, BulkSize,
    BatchIds, Needs, RowItem, Bins

VARIABLES
    which,
    recipe, listLock, loose,
    loc, price, recorded, sales, ask, crossed,
    location, locked, business, compliance, task, promoted,
    entry, local, rate, day, closings, seeded,
    supplier, offer, request, asked, raced, reopened,
    item, lots, booked, link, rem, removals, lost,
    category, product, variant, hand, named, touched, ceded,
    tenant, user, role, owner, lock, active, byHand,
    row, copy,
    keyRow, restored, att,
    batch, consumed, outputs, taken, found,
    held, act, calm, calls, progress, alone, slot, waste, job, run, done, late, stock, draft

all == <<which, vars, recipe, listLock, loose, loc, price, recorded, sales, ask, crossed,
         location, locked, business, compliance, task, promoted,
         entry, local, rate, day, closings, seeded,
         supplier, offer, request, asked, raced, reopened,
         item, lots, booked, link, rem, removals, lost,
         category, product, variant, hand, named, touched, ceded,
         tenant, user, role, owner, lock, active, byHand, row, copy,
         keyRow, restored, att, batch, consumed, outputs, taken, found,
         held, act, calm, calls, progress, alone, slot, waste, job, run, done, late,
         stock, draft>>

-----------------------------------------------------------------------------
Recipes  == INSTANCE RecipeBook
              WITH Nobody <- None, Recipes <- RecipeIds, rowLock <- held, req <- act
Money    == INSTANCE LocationMoney WITH Requests <- Slots, MaxCalls <- MoneyCalls
Setup    == INSTANCE TenantSetup
              WITH Requests <- Slots, Absent <- None, MaxCalls <- SetupCalls
Day      == INSTANCE DailyClose WITH Unset <- None, MaxCalls <- DayCalls
Asking   == INSTANCE ProcurementRequests
              WITH Nobody <- None, Unset <- None, Prices <- OfferPrices, MaxCalls <- AskingCalls
Import   == INSTANCE ItemImport
              WITH Imports <- Slots, Names <- ItemNames, Nothing <- None,
                   Batches <- BatchNumbers, Files <- ItemFiles, Variants <- LinkedVariants
Products == INSTANCE Catalogue
              WITH Imports <- Slots, Names <- ProductNames, Nothing <- None, Files <- ProductFiles,
                   Auto <- AutoSku
People   == INSTANCE Provisioning
              WITH Locations <- Branches, Unlinked <- None, MaxCalls <- PeopleCalls
Mirror   == INSTANCE MirroredRow WITH Slots <- Requests
Waste    == INSTANCE WasteEvents
              WITH Attempts <- Requests, NoAttempt <- None, NoKey <- None, NoRow <- NoKeyRow,
                   InitialStock <- Shelf, rowLock <- held
Production == INSTANCE ProductionBatch
              WITH Requests <- Slots, NoRequest <- None, Batches <- BatchIds, NoBatch <- None,
                   NoItem <- None, InitialStock <- Bins, rowLock <- held, req <- act

ASSUME Assumptions ==
    /\ Recipes!RecipeAssumption /\ Money!MoneyAssumption /\ Setup!SetupAssumption
    /\ Day!DayAssumption /\ Asking!RequestAssumption /\ Import!ImportAssumption
    /\ Products!CatalogueAssumption /\ People!ProvisioningAssumption
    /\ Mirror!MirrorAssumption /\ Waste!WasteAssumption /\ Production!ProductionAssumption

-----------------------------------------------------------------------------
(* The variables of the components that do not run. *)
OthersStart ==
    /\ IF which = "recipes" THEN TRUE
       ELSE recipe = 0 /\ listLock = 0 /\ loose = 0
    /\ IF which = "money" THEN TRUE
       ELSE loc = 0 /\ price = 0 /\ recorded = 0 /\ sales = 0 /\ ask = 0 /\ crossed = 0
    /\ IF which = "setup" THEN TRUE
       ELSE location = 0 /\ locked = 0 /\ business = 0 /\ compliance = 0 /\ task = 0 /\ promoted = 0
    /\ IF which = "day" THEN TRUE
       ELSE entry = 0 /\ local = 0 /\ rate = 0 /\ day = 0 /\ closings = 0 /\ seeded = 0
    /\ IF which = "asking" THEN TRUE
       ELSE supplier = 0 /\ offer = 0 /\ request = 0 /\ asked = 0 /\ raced = 0 /\ reopened = 0
    /\ IF which = "import" THEN TRUE
       ELSE item = 0 /\ lots = 0 /\ booked = 0 /\ link = 0 /\ rem = 0 /\ removals = 0 /\ lost = 0
    /\ IF which = "products" THEN TRUE
       ELSE category = 0 /\ product = 0 /\ variant = 0 /\ hand = 0 /\ named = 0 /\ touched = 0 /\ ceded = 0
    /\ IF which = "people" THEN TRUE
       ELSE tenant = 0 /\ user = 0 /\ role = 0 /\ owner = 0 /\ lock = 0 /\ active = 0 /\ byHand = 0
    /\ IF which = "mirror" THEN TRUE
       ELSE row = 0 /\ copy = 0
    /\ IF which = "waste" THEN TRUE
       ELSE keyRow = 0 /\ restored = 0 /\ att = 0
    /\ IF which = "batches" THEN TRUE
       ELSE batch = 0 /\ consumed = 0 /\ outputs = 0 /\ taken = 0 /\ found = 0
    /\ IF which \in {"recipes", "waste", "batches"} THEN TRUE
       ELSE held = 0
    /\ IF which \in {"recipes", "batches"} THEN TRUE
       ELSE act = 0
    /\ IF which \in {"recipes", "import", "products", "mirror"} THEN TRUE
       ELSE calm = 0
    /\ IF which \in {"money", "setup", "day", "asking", "products", "people"} THEN TRUE
       ELSE calls = 0
    /\ IF which \in {"setup", "people"} THEN TRUE
       ELSE progress = 0
    /\ IF which \in {"setup", "day", "asking", "people"} THEN TRUE
       ELSE alone = 0
    /\ IF which \in {"day", "asking", "people", "mirror"} THEN TRUE
       ELSE slot = 0
    /\ IF which \in {"day", "waste"} THEN TRUE
       ELSE waste = 0
    /\ IF which \in {"import", "products"} THEN TRUE
       ELSE job = 0 /\ run = 0 /\ done = 0 /\ late = 0
    /\ IF which \in {"waste", "batches"} THEN TRUE
       ELSE stock = 0 /\ draft = 0

OthersStay ==
    /\ IF which = "ledger" THEN TRUE ELSE UNCHANGED vars
    /\ IF which = "recipes" THEN TRUE
       ELSE UNCHANGED <<recipe, listLock, loose>>
    /\ IF which = "money" THEN TRUE
       ELSE UNCHANGED <<loc, price, recorded, sales, ask, crossed>>
    /\ IF which = "setup" THEN TRUE
       ELSE UNCHANGED <<location, locked, business, compliance, task, promoted>>
    /\ IF which = "day" THEN TRUE
       ELSE UNCHANGED <<entry, local, rate, day, closings, seeded>>
    /\ IF which = "asking" THEN TRUE
       ELSE UNCHANGED <<supplier, offer, request, asked, raced, reopened>>
    /\ IF which = "import" THEN TRUE
       ELSE UNCHANGED <<item, lots, booked, link, rem, removals, lost>>
    /\ IF which = "products" THEN TRUE
       ELSE UNCHANGED <<category, product, variant, hand, named, touched, ceded>>
    /\ IF which = "people" THEN TRUE
       ELSE UNCHANGED <<tenant, user, role, owner, lock, active, byHand>>
    /\ IF which = "mirror" THEN TRUE
       ELSE UNCHANGED <<row, copy>>
    /\ IF which = "waste" THEN TRUE
       ELSE UNCHANGED <<keyRow, restored, att>>
    /\ IF which = "batches" THEN TRUE
       ELSE UNCHANGED <<batch, consumed, outputs, taken, found>>
    /\ IF which \in {"recipes", "waste", "batches"} THEN TRUE
       ELSE UNCHANGED <<held>>
    /\ IF which \in {"recipes", "batches"} THEN TRUE
       ELSE UNCHANGED <<act>>
    /\ IF which \in {"recipes", "import", "products", "mirror"} THEN TRUE
       ELSE UNCHANGED <<calm>>
    /\ IF which \in {"money", "setup", "day", "asking", "products", "people"} THEN TRUE
       ELSE UNCHANGED <<calls>>
    /\ IF which \in {"setup", "people"} THEN TRUE
       ELSE UNCHANGED <<progress>>
    /\ IF which \in {"setup", "day", "asking", "people"} THEN TRUE
       ELSE UNCHANGED <<alone>>
    /\ IF which \in {"day", "asking", "people", "mirror"} THEN TRUE
       ELSE UNCHANGED <<slot>>
    /\ IF which \in {"day", "waste"} THEN TRUE
       ELSE UNCHANGED <<waste>>
    /\ IF which \in {"import", "products"} THEN TRUE
       ELSE UNCHANGED <<job, run, done, late>>
    /\ IF which \in {"waste", "batches"} THEN TRUE
       ELSE UNCHANGED <<stock, draft>>

AnyInit ==
    /\ Init
    /\ \/ which = "ledger"
       \/ which = "recipes"  /\ Recipes!Init
       \/ which = "money"    /\ Money!Init
       \/ which = "setup"    /\ Setup!Init
       \/ which = "day"      /\ Day!Init
       \/ which = "asking"   /\ Asking!Init
       \/ which = "import"   /\ Import!Init
       \/ which = "products" /\ Products!Init
       \/ which = "people"   /\ People!Init
       \/ which = "mirror"   /\ Mirror!Init
       \/ which = "waste"    /\ Waste!Init
       \/ which = "batches"  /\ Production!Init
    /\ OthersStart

AnyNext ==
    /\ UNCHANGED which
    /\ OthersStay
    /\ \/ which = "ledger"   /\ SerialNext
       \/ which = "recipes"  /\ Recipes!Next
       \/ which = "money"    /\ Money!Next
       \/ which = "setup"    /\ Setup!Next
       \/ which = "day"      /\ Day!Next
       \/ which = "asking"   /\ Asking!Next
       \/ which = "import"   /\ Import!Next
       \/ which = "products" /\ Products!Next
       \/ which = "people"   /\ People!Next
       \/ which = "mirror"   /\ Mirror!Next
       \/ which = "waste"    /\ Waste!SerialNext
       \/ which = "batches"  /\ Production!SerialNext

AnySpec == AnyInit /\ [][AnyNext]_all

-----------------------------------------------------------------------------
(* Type invariant. *)
AnyTypeOK ==
    /\ which = "ledger"   => TypeOK
    /\ which = "recipes"  => Recipes!TypeOK
    /\ which = "money"    => Money!TypeOK
    /\ which = "setup"    => Setup!TypeOK
    /\ which = "day"      => Day!TypeOK
    /\ which = "asking"   => Asking!TypeOK
    /\ which = "import"   => Import!TypeOK
    /\ which = "products" => Products!TypeOK
    /\ which = "people"   => People!TypeOK
    /\ which = "mirror"   => Mirror!TypeOK
    /\ which = "waste"    => Waste!TypeOK
    /\ which = "batches"  => Production!TypeOK

(* The properties of the components, stated in full in their modules.      *)
(* Here each is asked of the behaviours of its component.                  *)

(* A variant has one active recipe, whichever activations overlap, and a   *)
(* recipe one list of components, but for overlapping updates.             *)
RecipesConsistent == which = "recipes" => Recipes!OneActive /\ Recipes!ListedOnce

(* Unless a request overlaps a change of the market of a location, no      *)
(* local price entered in one currency is used in another, no row of the   *)
(* tables that lock the currency is in another one, and the time zone      *)
(* follows.  Sales do not lock it: see SalesInItsCurrency.                 *)
MoneyInItsCurrency == which = "money" =>
    Money!PriceInItsCurrency /\ Money!RecordedInItsCurrency /\ Money!ZoneOfItsCountry

(* A tenant has one primary location, one compliance profile, and an       *)
(* onboarding completed only when the steps it needs are.                  *)
SetupConsistent ==
    /\ [](which = "setup" => Setup!OnePrimary /\ Setup!OneComplianceProfile)
    /\ [][which = "setup" => Setup!CompletesSetUp]_all

(* A row of DailyClose is closed once, but for the seeded draft.           *)
RowClosedOnce == which = "day" => Day!RowClosedOnce

(* A closing writes the totals of the rows of the day.                     *)
ClosedWhatWasSold == [][which = "day" => Day!ClosesWhatWasSold]_all

(* An item is in one open procurement request of the day; a line with a    *)
(* supplier is on one supplier request, that of the cheapest.              *)
RequestsConsistent ==
    /\ [](which = "asking" => Asking!OneOpenRequest /\ Asking!LinesAreAsked)
    /\ [][which = "asking" => Asking!AsksCheapest]_all

(* A finished import reports what was committed in its name.               *)
JobTellsTruth == which = "import" => Import!JobTellsTruth

(* When transactions do not overlap, a batch number has one lot, and a     *)
(* removed item no linked variant and no stock booked by an import.        *)
ItemsConsistent ==
    /\ [](which = "import" => Import!OneLotPerBatch /\ Import!NoLinkToDeleted)
    /\ [][which = "import" => Import!BooksForLive]_all

(* When they do not overlap, imports leave one product of a name, create   *)
(* nothing twice, and a removed product leaves no live variant.            *)
ProductsConsistent ==
    /\ [](which = "products" => Products!OneImportedProduct /\ Products!NoOrphan)
    /\ [][which = "products" => Products!RecreatesNothing]_all

(* A user is made the Owner once, however first requests overlap, and the  *)
(* rows of a user who can log in are there together.                       *)
PeopleConsistent == which = "people" => People!OneOwnership /\ People!ProvisionedWhole

(* A request goes on without its identity only if that is in doubt.        *)
ServedAlone == [][which = "people" => People!ServesAlone]_all

(* The mirrored copy at rest is the row, when nothing fails or overlaps.   *)
CopiedAtRest == which = "mirror" => Mirror!CopiedAtRest

(* One request at a time, stock lacks exactly the waste that stands.       *)
StockIsStandingWaste == which = "waste" => Waste!StockIsStandingWaste

(* One request at a time, batches live as their status checks describe.    *)
LivesByStatus ==
    /\ which = "batches" => Production!Life!Init
    /\ [][which = "batches" => Production!Life!Next \/ UNCHANGED Production!Life!vars]_all
=============================================================================
