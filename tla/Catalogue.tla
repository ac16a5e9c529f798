------------------------------- MODULE Catalogue -------------------------------
(***************************************************************************)
(* Categories, products and variants: kept by hand, and imported from      *)
(* files, a row in a transaction of its own.  A row finds its product by   *)
(* name, which nothing keeps unique, and its variant by SKU, which is      *)
(* unique with the deleted variants counted in, or by name within its      *)
(* product, in which case a SKU is generated.                              *)
(***************************************************************************)
EXTENDS Naturals, Sequences, FiniteSets

CONSTANTS
    Imports,      \* import jobs
    Names,        \* names of products and of variants
    Categories,
    Skus,
    Nothing,      \* no category, no variant, no product
    Auto,         \* a row with a variant but without a SKU
    BaseSku,      \* the SKU generated from the names of a product and a variant
    RowSku,       \* the one generated when that is taken, by SKU and row
    Files,        \* sequences of Row: the files there are to import
    MaxProducts,  \* bound on the rows of Product
    MaxByHand     \* bound on the calls that are not imports

Row == [category : Categories \cup {Nothing}, name : Names, called : Names,
        sku : Skus \cup {Auto, Nothing}, readable : BOOLEAN]
Products == 1 .. MaxProducts

CatalogueAssumption ==
    /\ Nothing \notin Skus \cup Categories \cup Products /\ Auto \notin Skus
    /\ BaseSku \in [Names \X Names -> Skus]
    /\ \A file \in Files, k \in Skus : \A r \in DOMAIN file : RowSku[k][r] \in Skus
    /\ Files \subseteq Seq(Row) \ {<<>>}
    /\ MaxByHand \in Nat

VARIABLES
    category,     \* ProductCategory rows: their names
    product,      \* Product rows
    variant,      \* ProductVariant rows, by SKU
    job,          \* ProductImport rows
    run,          \* importFile in memory
    hand,         \* the other call in progress, if any
    calls,        \* calls that are not imports
    done,         \* rows of files imported: the row and its number
    named,        \* products created or renamed by hand
    late,         \* variants moved to a product already deleted
    touched,      \* something was changed by hand
    ceded,        \* products and names of variants that a row took away by their SKU
    calm          \* no two transactions overlapped so far

tables  == <<category, product, variant, job>>
local   == <<run, hand, calls>>
history == <<done, named, late, touched, ceded, calm>>
vars    == <<tables, local, history>>

NoProduct == [status |-> "none", name |-> Nothing]
NoVariant == [status |-> "none", of |-> Nothing, name |-> Nothing]
NoCounts  == [processed |-> 0, products |-> 0, variants |-> 0, errors |-> 0]
NoRun     == [pc |-> "idle", file |-> <<>>, row |-> 1, goOn |-> TRUE, product |-> Nothing,
              found |-> FALSE, sku |-> Nothing, counts |-> NoCounts]
NoCall    == [pc |-> "idle", product |-> Nothing, sku |-> Nothing, variants |-> {}]

Init ==
    /\ category = {}
    /\ product = [i \in Products |-> NoProduct]
    /\ variant = [k \in Skus |-> NoVariant]
    /\ job = [j \in Imports |-> [status |-> "none", total |-> 0, counts |-> NoCounts]]
    /\ run = [j \in Imports |-> NoRun]
    /\ hand = NoCall /\ calls = 0
    /\ done = {} /\ named = {} /\ late = {}
    /\ touched = FALSE /\ ceded = {} /\ calm = TRUE

Busy == hand.pc # "idle" \/ \E j \in Imports : run[j].pc \in {"variant", "commit"}
Live(i) == product[i].status = "live"
Vacant(i) == product[i].status = "none" /\ \A h \in Products : h < i => product[h].status # "none"

-----------------------------------------------------------------------------
StartImport(j, file, goOn) ==
    /\ job[j].status = "none"
    /\ job' = [job EXCEPT ![j] = [status |-> "PROCESSING", total |-> Len(file),
                                  counts |-> NoCounts]]
    /\ run' = [run EXCEPT ![j] = [NoRun EXCEPT !.pc = "row", !.file = file, !.goOn = goOn]]
    /\ UNCHANGED <<category, product, variant, hand, calls, history>>

RowOf(j) == run[j].file[run[j].row]
Passed(j, counts) ==
    [run[j] EXCEPT !.pc = "row", !.product = Nothing, !.found = FALSE, !.sku = Nothing,
                   !.counts = counts,
                   !.row = IF counts.errors > run[j].counts.errors /\ ~run[j].goOn
                           THEN Len(run[j].file) + 1 ELSE run[j].row + 1]
Erred(j) == [run[j].counts EXCEPT !.errors = run[j].counts.errors + 1]

(* upsertProductFromImport: the first product of that name not deleted.    *)
AnyNamed(name) == {}                              \* mutant: the look-up dropped
LiveNamed(name) == {i \in Products : Live(i) /\ product[i].name = name}

FindProduct(j) == LET row == RowOf(j) IN
    /\ run[j].pc = "row" /\ run[j].row <= Len(run[j].file)
    /\ \/ /\ ~row.readable
          /\ run' = [run EXCEPT ![j] = Passed(j, Erred(j))]
       \/ /\ row.readable
          /\ \E i \in IF LiveNamed(row.name) = {} THEN {Nothing} ELSE LiveNamed(row.name) :
                run' = [run EXCEPT ![j] = [run[j] EXCEPT !.pc = "variant", !.product = i]]
    /\ calm' = (calm /\ ~Busy)
    /\ UNCHANGED <<tables, hand, calls, done, named, late, touched, ceded>>

(* upsertVariantFromImport: by SKU among the variants not deleted, or by   *)
(* name within the product; generateVariantSku looks at all of them, once. *)
NoneSame(i, name) == {}                           \* mutant: the look-up dropped
SameNamed(i, name) ==
    {k \in Skus : variant[k].status = "live" /\ variant[k].of = i /\ variant[k].name = name}
Generated(row, r) == LET base == BaseSku[<<row.name, row.called>>] IN
    IF variant[base].status = "none" THEN base ELSE RowSku[base][r]

FindVariant(j) == LET row == RowOf(j) IN
    /\ run[j].pc = "variant"
    /\ \/ /\ row.sku # Auto
          /\ run' = [run EXCEPT ![j] = [run[j] EXCEPT !.pc = "commit", !.sku = row.sku,
                        !.found = row.sku # Nothing /\ variant[row.sku].status = "live"]]
       \/ /\ row.sku = Auto
          /\ LET same == SameNamed(run[j].product, row.called) IN
             \E k \in IF same = {} THEN {Generated(row, run[j].row)} ELSE same :
                run' = [run EXCEPT ![j] = [run[j] EXCEPT !.pc = "commit", !.sku = k,
                                                         !.found = same # {}]]
    /\ UNCHANGED <<tables, hand, calls, history>>

One(b) == IF b THEN 1 ELSE 0
NewProduct(j) == run[j].product = Nothing
NewVariant(j) == run[j].sku # Nothing /\ ~run[j].found
Imported(j) == LET c == run[j].counts
    IN  [processed |-> c.processed + 1, products |-> c.products + One(NewProduct(j)),
         variants |-> c.variants + One(NewVariant(j)), errors |-> c.errors]

(* A SKU that exists, deleted or not, cannot be inserted again.            *)
Duplicate(j) == NewVariant(j) /\ variant[run[j].sku].status # "none"

Taken(k) == <<variant[k].of, variant[k].name>>

CommitRow(j, i, answered) == LET row == RowOf(j) IN
    /\ run[j].pc = "commit"
    /\ ~Duplicate(j)
    /\ IF NewProduct(j) THEN Vacant(i) ELSE i = run[j].product
    /\ category' = category \cup ({row.category} \ {Nothing})
    /\ product' = IF NewProduct(j)
                  THEN [product EXCEPT ![i] = [status |-> "live", name |-> row.name]]
                  ELSE product
    /\ variant' = IF run[j].sku = Nothing THEN variant
                  ELSE [variant EXCEPT ![run[j].sku] =
                           [status |-> IF run[j].found THEN variant[run[j].sku].status ELSE "live",
                            of |-> i, name |-> row.called]]
    /\ done' = done \cup {<<row, run[j].row>>}
    /\ ceded' = IF run[j].found
                THEN ceded \cup ({Taken(run[j].sku)} \ {<<i, row.called>>}) ELSE ceded
    /\ run' = [run EXCEPT ![j] = Passed(j, IF answered THEN Imported(j) ELSE Erred(j))]
    /\ UNCHANGED <<job, hand, calls, named, late, touched, calm>>

RowFails(j) ==
    /\ run[j].pc \in {"variant", "commit"}
    /\ run' = [run EXCEPT ![j] = Passed(j, Erred(j))]
    /\ UNCHANGED <<tables, hand, calls, history>>

Outcome(c) == IF c.processed = 0 THEN "FAILED"
              ELSE IF c.errors > 0 THEN "COMPLETED_WITH_ERRORS" ELSE "COMPLETED"

FinishImport(j) ==
    /\ run[j].pc = "row" /\ run[j].row > Len(run[j].file)
    /\ job' = [job EXCEPT ![j] = [status |-> Outcome(run[j].counts), total |-> job[j].total,
                                  counts |-> run[j].counts]]
    /\ run' = [run EXCEPT ![j] = NoRun]
    /\ UNCHANGED <<category, product, variant, hand, calls, history>>

Crash ==
    /\ \E j \in Imports : run[j].pc # "idle"
    /\ run' = [j \in Imports |-> NoRun]
    /\ hand' = NoCall
    /\ UNCHANGED <<tables, calls, history>>

-----------------------------------------------------------------------------
ByHand ==
    /\ hand.pc = "idle" /\ calls < MaxByHand
    /\ calls' = calls + 1
    /\ calm' = (calm /\ ~Busy)
    /\ touched' = TRUE

(* create and update: a name is given to a new product or to a live one.   *)
CreateProduct(i, name) ==
    /\ ByHand /\ Vacant(i)
    /\ product' = [product EXCEPT ![i] = [status |-> "live", name |-> name]]
    /\ named' = named \cup {i}
    /\ UNCHANGED <<category, variant, job, run, hand, done, late, ceded>>

UpdateProduct(i, name) ==
    /\ ByHand /\ Live(i)
    /\ product' = [product EXCEPT ![i] = [status |-> "live", name |-> name]]
    /\ named' = named \cup {i}
    /\ UNCHANGED <<category, variant, job, run, hand, done, late, ceded>>

(* updateVariant writes the product it is given.                           *)
MoveVariant(k, i) ==
    /\ ByHand
    /\ variant[k].status = "live" /\ product[i].status # "none"
    /\ variant' = [variant EXCEPT ![k] = [status |-> "live", of |-> i, name |-> variant[k].name]]
    /\ late' = IF Live(i) THEN late \ {k} ELSE late \cup {k}
    /\ UNCHANGED <<category, product, job, run, hand, done, named, ceded>>

(* createVariant finds the product, then inserts the variant.              *)
FindParent(k, i) ==
    /\ ByHand /\ Live(i)
    /\ hand' = [NoCall EXCEPT !.pc = "add", !.product = i, !.sku = k]
    /\ UNCHANGED <<tables, run, done, named, late, ceded>>

CreateVariant(name) ==
    /\ hand.pc = "add"
    /\ variant' = IF variant[hand.sku].status # "none" THEN variant
                  ELSE [variant EXCEPT ![hand.sku] = [status |-> "live", of |-> hand.product,
                                                      name |-> name]]
    /\ hand' = NoCall
    /\ UNCHANGED <<category, product, job, run, calls, history>>

(* remove finds the product with its variants, then deletes those it found.*)
NoneOf(i) == {}                                   \* mutant: the variants forgotten
VariantsOf(i) == {k \in Skus : variant[k].status = "live" /\ variant[k].of = i}

FindRemoved(i) ==
    /\ ByHand /\ Live(i)
    /\ hand' = [NoCall EXCEPT !.pc = "remove", !.product = i, !.variants = VariantsOf(i)]
    /\ UNCHANGED <<tables, run, done, named, late, ceded>>

Remove ==
    /\ hand.pc = "remove"
    /\ product' = [product EXCEPT ![hand.product] =
                      [status |-> "deleted", name |-> product[hand.product].name]]
    /\ variant' = [k \in Skus |-> IF k \in hand.variants
                                  THEN [variant[k] EXCEPT !.status = "deleted"] ELSE variant[k]]
    /\ hand' = NoCall
    /\ UNCHANGED <<category, job, run, calls, history>>

Next ==
    \/ \E j \in Imports :
          \/ \E file \in Files, goOn \in BOOLEAN : StartImport(j, file, goOn)
          \/ FindProduct(j) \/ FindVariant(j) \/ RowFails(j) \/ FinishImport(j)
          \/ \E i \in Products, answered \in BOOLEAN : CommitRow(j, i, answered)
    \/ Crash \/ Remove \/ \E name \in Names : CreateVariant(name)
    \/ \E i \in Products :
          \/ FindRemoved(i)
          \/ \E name \in Names : CreateProduct(i, name) \/ UpdateProduct(i, name)
          \/ \E k \in Skus : MoveVariant(k, i) \/ FindParent(k, i)

Spec == Init /\ [][Next]_vars

-----------------------------------------------------------------------------
Counts == [processed : Nat, products : Nat, variants : Nat, errors : Nat]

(* Type invariant. *)
TypeOK ==
    /\ category \subseteq Categories
    /\ product \in [Products -> [status : {"none", "live", "deleted"}, name : Names \cup {Nothing}]]
    /\ variant \in [Skus -> [status : {"none", "live", "deleted"},
                             of : Products \cup {Nothing}, name : Names \cup {Nothing}]]
    /\ job \in [Imports -> [total : Nat, counts : Counts, status :
          {"none", "PROCESSING", "FAILED", "COMPLETED_WITH_ERRORS", "COMPLETED"}]]
    /\ run \in [Imports -> [pc : {"idle", "row", "variant", "commit"}, file : Files \cup {<<>>},
          row : Nat \ {0}, goOn : BOOLEAN, product : Products \cup {Nothing}, found : BOOLEAN,
          sku : Skus \cup {Nothing}, counts : Counts]]
    /\ hand \in [pc : {"idle", "add", "remove"}, product : Products \cup {Nothing},
                 sku : Skus \cup {Nothing}, variants : SUBSET Skus]
    /\ calls \in 0..MaxByHand /\ done \subseteq Row \X Nat
    /\ named \subseteq Products /\ late \subseteq Skus
    /\ ceded \subseteq (Products \cup {Nothing}) \X (Names \cup {Nothing})
    /\ touched \in BOOLEAN /\ calm \in BOOLEAN

(* When transactions do not overlap, imports never leave two products of   *)
(* one name: the look-up is all that keeps it so.                          *)
OneImportedProduct == calm => \A i, m \in Products \ named :
    Live(i) /\ Live(m) /\ product[i].name = product[m].name => i = m

(* When they do not overlap, a live variant belongs to a live product,     *)
(* unless it was moved to one already deleted.                             *)
NoOrphan == calm => \A k \in Skus \ late : variant[k].status = "live" =>
    Live(variant[k].of)

(* Importing a row again under the same number, with no change by hand and *)
(* no overlap since the beginning, creates no second product, and a second *)
(* variant only of a product and a name whose variant a row took away.     *)
RecreatesNothing ==
    \A j \in Imports, i \in Products : \A answered \in BOOLEAN :
        CommitRow(j, i, answered) /\ calm /\ ~touched
              /\ <<RowOf(j), run[j].row>> \in done
           => ~NewProduct(j) /\ (NewVariant(j) => <<i, RowOf(j).called>> \in ceded)
=============================================================================
