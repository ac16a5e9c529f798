-------------------------- MODULE ComponentsProofs --------------------------
(***************************************************************************)
(* What the components promise, each in the behaviours in which it runs,   *)
(* for any values of the constants: a step of a behaviour is a step of its *)
(* component, so the invariants of OfficeProofs are invariants here, and   *)
(* the theorems of the ledger, wastage and production apply.  Before that, *)
(* the invariants of products, identities and items while no two           *)
(* transactions overlap.                                                   *)
(***************************************************************************)
EXTENDS OfficeProofs, StockLedgerProofs

-----------------------------------------------------------------------------
(***************************************************************************)
(* Products.  While no two transactions overlap, what the one in progress  *)
(* has read is still so when it commits; that keeps names unique and       *)
(* variants under live products.  While nothing was changed by hand, a row *)
(* imported still has its product, and its variant unless its name ceded   *)
(* it.                                                                     *)
(***************************************************************************)
SoldRow == [status : {"none", "live", "deleted"}, name : ProductNames \cup {None}]
KindRow == [status : {"none", "live", "deleted"},
            of : Products!Products \cup {None}, name : ProductNames \cup {None}]
FileRun == [pc : {"idle", "row", "variant", "commit"}, file : ProductFiles \cup {<<>>},
            row : Nat \ {0}, goOn : BOOLEAN, product : Products!Products \cup {None},
            found : BOOLEAN, sku : Skus \cup {None}, counts : Products!Counts]
HandCall == [pc : {"idle", "add", "remove"}, product : Products!Products \cup {None},
             sku : Skus \cup {None}, variants : SUBSET Skus]

InRow(r) == r.pc \in {"variant", "commit"}
Reading(r) == r.pc # "idle" => /\ r.file \in ProductFiles
                               /\ InRow(r) => r.row <= Len(r.file)
                               /\ r.found => r.sku # None
Handed(h) == /\ h.pc # "idle" => h.product \in Products!Products
             /\ h.pc = "add" => h.sku \in Skus

(* What a transaction read is so. *)
Picked(r) == LET name == r.file[r.row].name IN
    InRow(r) => IF r.product = None THEN Products!LiveNamed(name) = {}
                ELSE r.product \in Products!LiveNamed(name)
Matched(r) == LET read == r.file[r.row] IN
    r.pc = "commit" =>
       /\ read.sku # AutoSku => /\ r.sku = read.sku
                                /\ r.found <=> r.sku # None /\ variant[r.sku].status = "live"
       /\ read.sku = AutoSku => /\ r.sku \in Skus
                                /\ r.found => r.sku \in Products!SameNamed(r.product, read.called)
                                /\ ~r.found => Products!SameNamed(r.product, read.called) = {}
HandKnows == /\ hand.pc = "add" => Products!Live(hand.product)
             /\ hand.pc = "remove" => hand.variants = Products!VariantsOf(hand.product)

OneOpen ==
    /\ hand.pc # "idle" => \A j \in Slots : ~InRow(run[j])
    /\ \A j, q \in Slots : InRow(run[j]) /\ InRow(run[q]) => j = q
    /\ \A j \in Slots : Picked(run[j]) /\ Matched(run[j])
    /\ HandKnows

(* What is left of a row imported. *)
Kept(d) ==
    /\ Products!LiveNamed(d[1].name) # {}
    /\ d[1].sku \in Skus => variant[d[1].sku].status = "live"
    /\ d[1].sku = AutoSku =>
          \E i \in Products!LiveNamed(d[1].name) :
             <<i, d[1].called>> \in ceded \/ Products!SameNamed(i, d[1].called) # {}

SoldTyped ==
    /\ category \subseteq Categories
    /\ product \in [Products!Products -> SoldRow]
    /\ variant \in [Skus -> KindRow]
    /\ \A k \in Skus : variant[k].status = "live" => variant[k].of \in Products!Products
    /\ done \subseteq Products!Row \X Nat
    /\ named \subseteq Products!Products /\ late \subseteq Skus
    /\ ceded \subseteq (Products!Products \cup {None}) \X (ProductNames \cup {None})
FileJobs == [Slots -> [total : Nat, counts : Products!Counts, status :
          {"none", "PROCESSING", "FAILED", "COMPLETED_WITH_ERRORS", "COMPLETED"}]]
RunsTyped ==
    /\ job \in FileJobs
    /\ run \in [Slots -> FileRun]
    /\ \A j \in Slots : Reading(run[j])
    /\ hand \in HandCall /\ Handed(hand)
    /\ calls \in 0..MaxByHand
    /\ touched \in BOOLEAN /\ calm \in BOOLEAN
    /\ ~touched => named = {} /\ hand.pc = "idle"

ProductInv ==
    /\ SoldTyped /\ RunsTyped
    /\ calm => OneOpen
    /\ Products!OneImportedProduct /\ Products!NoOrphan
    /\ calm /\ ~touched => \A d \in done : Kept(d)

LEMMA InitSells ==
    ASSUME Products!CatalogueAssumption, Products!Init
    PROVE  ProductInv
<1>1. product \in [Products!Products -> SoldRow] /\ variant \in [Skus -> KindRow]
  BY DEF Products!Init, Products!NoProduct, Products!NoVariant, SoldRow, KindRow
<1>2. \A k \in Skus : variant[k].status = "none"
  BY DEF Products!Init, Products!NoVariant
<1>3. SoldTyped
  BY <1>1, <1>2 DEF SoldTyped, Products!Init
<1>4. Products!NoCounts \in Products!Counts
  BY DEF Products!NoCounts, Products!Counts
<1>5. run \in [Slots -> FileRun] /\ \A j \in Slots : run[j].pc = "idle"
  BY <1>4 DEF Products!Init, Products!NoRun, FileRun
<1>6. hand \in HandCall /\ hand.pc = "idle" /\ job \in FileJobs
  BY <1>4 DEF Products!Init, Products!NoCall, HandCall, FileJobs
<1>7. RunsTyped
  <2>1. (\A j \in Slots : Reading(run[j])) /\ Handed(hand)
    BY <1>5, <1>6 DEF Reading, Handed
  <2>2. calls \in 0..MaxByHand /\ named = {}
    BY DEF Products!Init, Products!CatalogueAssumption
  <2>3. touched \in BOOLEAN /\ calm \in BOOLEAN
    BY DEF Products!Init
  <2>4. QED
    BY <1>5, <1>6, <2>1, <2>2, <2>3 DEF RunsTyped
<1>8. OneOpen
  BY <1>5, <1>6 DEF OneOpen, HandKnows, InRow, Picked, Matched
<1>9. Products!OneImportedProduct /\ Products!NoOrphan /\ \A d \in done : Kept(d)
  BY <1>2 DEF Products!OneImportedProduct, Products!NoOrphan, Products!Init, Products!Live,
     Products!NoProduct
<1>10. QED
  BY <1>3, <1>7, <1>8, <1>9 DEF ProductInv

(* A row being imported is a row of a file. *)
LEMMA RowIsRead ==
    ASSUME Products!CatalogueAssumption, ProductInv, NEW j \in Slots, run[j].pc # "idle",
           run[j].row <= Len(run[j].file)
    PROVE  /\ Products!RowOf(j) \in Products!Row
           /\ run[j].row \in DOMAIN run[j].file /\ run[j].file \in ProductFiles
           /\ Products!RowOf(j) = run[j].file[run[j].row]
<1>1. run[j] \in FileRun /\ run[j].file \in ProductFiles
  BY DEF ProductInv, RunsTyped, Reading
<1>2. run[j].file \in Seq(Products!Row)
  BY <1>1 DEF Products!CatalogueAssumption
<1>3. run[j].row \in DOMAIN run[j].file
  BY <1>1, <1>2 DEF FileRun
<1>4. QED
  BY <1>1, <1>2, <1>3 DEF Products!RowOf

(* Past a row. *)
LEMMA PassedOn ==
    ASSUME Products!CatalogueAssumption, ProductInv, NEW j \in Slots, run[j].pc # "idle",
           NEW c \in Products!Counts
    PROVE  /\ Products!Passed(j, c) \in FileRun
           /\ Products!Passed(j, c).pc = "row" /\ Reading(Products!Passed(j, c))
<1>1. run[j] \in FileRun /\ run[j].file \in ProductFiles
  BY DEF ProductInv, RunsTyped, Reading
<1>2. Len(run[j].file) \in Nat /\ run[j].row \in Nat
  BY <1>1 DEF Products!CatalogueAssumption, FileRun
<1>3. PICK next : next = IF c.errors > run[j].counts.errors /\ ~run[j].goOn
                         THEN Len(run[j].file) + 1 ELSE run[j].row + 1
  BY Zenon
<1>4. next = Len(run[j].file) + 1 \/ next = run[j].row + 1
  BY <1>3, Zenon
<1>5. next \in Nat \ {0}
  BY <1>2, <1>4
<1>6. Products!Passed(j, c) = [run[j] EXCEPT !.pc = "row", !.product = None, !.found = FALSE,
                                  !.sku = None, !.counts = c, !.row = next]
  BY <1>3, Zenon DEF Products!Passed
<1>7. Products!Passed(j, c) \in FileRun
  BY <1>1, <1>5, <1>6 DEF FileRun
<1>8. Products!Passed(j, c).pc = "row" /\ Products!Passed(j, c).file = run[j].file
      /\ Products!Passed(j, c).found = FALSE
  BY <1>1, <1>6 DEF FileRun
<1>9. QED
  BY <1>1, <1>7, <1>8 DEF Reading, InRow

LEMMA CountedRows ==
    ASSUME ProductInv, NEW j \in Slots
    PROVE  Products!Erred(j) \in Products!Counts /\ Products!Imported(j) \in Products!Counts
<1>1. run[j].counts \in Products!Counts
  BY DEF ProductInv, RunsTyped, FileRun
<1>2. \A b : Products!One(b) \in Nat
  BY DEF Products!One
<1>3. Products!One(Products!NewProduct(j)) \in Nat /\ Products!One(Products!NewVariant(j)) \in Nat
  BY <1>2
<1>4. Products!Erred(j) \in Products!Counts
  BY <1>1 DEF Products!Erred, Products!Counts
<1>5. Products!Imported(j) \in Products!Counts
  BY <1>1, <1>3 DEF Products!Imported, Products!Counts
<1>6. QED
  BY <1>4, <1>5

(* What was read stays so while the rows do.                               *)
LEMMA SightsStay ==
    ASSUME UNCHANGED <<product, variant>>, NEW r
    PROVE  (Picked(r)' <=> Picked(r)) /\ (Matched(r)' <=> Matched(r))
BY DEF Picked, Matched, Products!LiveNamed, Products!Live, Products!SameNamed

(* Nothing in progress: nothing to be stale.                               *)
LEMMA NoneOpen ==
    ASSUME hand'.pc = "idle", \A j \in Slots : ~InRow(run'[j])
    PROVE  OneOpen'
BY DEF OneOpen, HandKnows, Picked, Matched, InRow

(* A step that changes what one import has in memory, and no row.          *)
LEMMA RunMoves ==
    ASSUME Products!CatalogueAssumption, ProductInv, NEW j \in Slots, NEW new \in FileRun,
           Reading(new), run' = [run EXCEPT ![j] = new],
           UNCHANGED <<category, product, variant, hand, calls, done, named, late, touched, ceded>>,
           job' \in FileJobs, calm' \in BOOLEAN, calm' => calm,
           calm' /\ InRow(new) => /\ hand.pc = "idle" /\ \A q \in Slots \ {j} : ~InRow(run[q])
                                  /\ Picked(new) /\ Matched(new)
    PROVE  ProductInv'
<1>1. \A q \in Slots : run'[q] = IF q = j THEN new ELSE run[q]
  BY DEF ProductInv, RunsTyped
<1>2. SoldTyped'
  BY DEF ProductInv, SoldTyped
<1>3. RunsTyped'
  <2>1. run' \in [Slots -> FileRun] /\ \A q \in Slots : Reading(run'[q])
    BY <1>1 DEF ProductInv, RunsTyped
  <2>2. QED
    BY <2>1 DEF ProductInv, RunsTyped, Reading
<1>4. Products!OneImportedProduct' /\ Products!NoOrphan'
  BY DEF ProductInv, Products!OneImportedProduct, Products!NoOrphan, Products!Live
<1>5. ASSUME calm', touched' = FALSE PROVE \A d \in done' : Kept(d)'
  BY <1>5 DEF ProductInv, Kept, Products!LiveNamed, Products!Live,
   Products!SameNamed
<1>6. ASSUME calm' PROVE OneOpen'
  <2>1. OneOpen
    BY <1>6 DEF ProductInv
  <2>2. ASSUME NEW q \in Slots PROVE Picked(run'[q]) /\ Matched(run'[q])
    <3>1. CASE q # j
      BY <1>1, <2>1, <3>1 DEF OneOpen
    <3>2. CASE q = j /\ InRow(new)
      BY <1>1, <1>6, <3>2
    <3>3. CASE q = j /\ ~InRow(new)
      BY <1>1, <3>3 DEF Picked, Matched, InRow
    <3>4. QED
      BY <3>1, <3>2, <3>3
  <2>3. ASSUME NEW q \in Slots PROVE Picked(run[q])' /\ Matched(run[q])'
    <3>1. PICK m : m = run'[q]
      OBVIOUS
    <3>2. Picked(m) /\ Matched(m)
      BY <2>2, <3>1
    <3>3. Picked(m)' /\ Matched(m)'
      BY <3>2, SightsStay
    <3>4. QED
      BY <3>1, <3>3 DEF Picked, Matched, InRow
  <2>4. HandKnows'
    BY <2>1 DEF OneOpen, HandKnows, Products!Live, Products!VariantsOf
  <2>5. hand'.pc # "idle" => \A q \in Slots : ~InRow(run'[q])
    BY <1>1, <1>6, <2>1 DEF OneOpen
  <2>6. \A p, q \in Slots : InRow(run'[p]) /\ InRow(run'[q]) => p = q
    BY <1>1, <1>6, <2>1 DEF OneOpen
  <2>7. QED
    BY <2>3, <2>4, <2>5, <2>6 DEF OneOpen
<1>7. (~touched)' => touched' = FALSE
  BY <1>3 DEF RunsTyped
<1>8. QED
  BY <1>2, <1>3, <1>4, <1>5, <1>6, <1>7 DEF ProductInv

LEMMA StartSells ==
    ASSUME Products!CatalogueAssumption, ProductInv, NEW j \in Slots, NEW file \in ProductFiles,
           NEW goOn \in BOOLEAN, Products!StartImport(j, file, goOn)
    PROVE  ProductInv'
<1>1. PICK new : new = [Products!NoRun EXCEPT !.pc = "row", !.file = file, !.goOn = goOn]
  OBVIOUS
<1>2. Products!NoCounts \in Products!Counts
  BY DEF Products!NoCounts, Products!Counts
<1>3. new = [pc |-> "row", file |-> file, row |-> 1, goOn |-> goOn, product |-> None,
             found |-> FALSE, sku |-> None, counts |-> Products!NoCounts]
  BY <1>1 DEF Products!NoRun
<1>4. new \in FileRun
  BY <1>2, <1>3 DEF FileRun
<1>5. ~InRow(new) /\ Reading(new)
  BY <1>3 DEF InRow, Reading
<1>6. run' = [run EXCEPT ![j] = new]
  BY <1>1 DEF Products!StartImport
<1>7. UNCHANGED <<category, product, variant, hand, calls, done, named, late, touched, ceded, calm>>
  BY DEF Products!StartImport, Products!history
<1>8. Len(file) \in Nat
  BY DEF Products!CatalogueAssumption
<1>9. job' \in FileJobs
  BY <1>2, <1>8 DEF ProductInv, RunsTyped, FileJobs, Products!StartImport
<1>10. calm' \in BOOLEAN
  BY <1>7 DEF ProductInv, RunsTyped
<1>11. QED
  BY <1>4, <1>5, <1>6, <1>7, <1>9, <1>10, RunMoves

LEMMA FinishSells ==
    ASSUME Products!CatalogueAssumption, ProductInv, NEW j \in Slots, Products!FinishImport(j)
    PROVE  ProductInv'
<1>1. Products!NoCounts \in Products!Counts /\ run[j].counts \in Products!Counts
      /\ job[j].total \in Nat
  BY DEF Products!NoCounts, Products!Counts, ProductInv, RunsTyped, FileRun, FileJobs
<1>2. Products!NoRun \in FileRun /\ Products!NoRun.pc = "idle"
  BY <1>1 DEF Products!NoRun, FileRun
<1>3. ~InRow(Products!NoRun) /\ Reading(Products!NoRun)
  BY <1>2 DEF InRow, Reading
<1>4. run' = [run EXCEPT ![j] = Products!NoRun]
      /\ UNCHANGED <<category, product, variant, hand, calls, done, named, late, touched, ceded, calm>>
  BY DEF Products!FinishImport, Products!history
<1>5. Products!Outcome(run[j].counts) \in {"FAILED", "COMPLETED_WITH_ERRORS", "COMPLETED"}
  BY DEF Products!Outcome
<1>6. job' \in FileJobs
  BY <1>1, <1>5 DEF ProductInv, RunsTyped, FileJobs, Products!FinishImport
<1>7. calm' \in BOOLEAN
  BY <1>4 DEF ProductInv, RunsTyped
<1>8. QED
  BY <1>2, <1>3, <1>4, <1>6, <1>7, RunMoves

LEMMA RowFailsSells ==
    ASSUME Products!CatalogueAssumption, ProductInv, NEW j \in Slots, Products!RowFails(j)
    PROVE  ProductInv'
<1>1. PICK new : new = Products!Passed(j, Products!Erred(j))
  OBVIOUS
<1>2. run[j].pc # "idle" /\ run' = [run EXCEPT ![j] = new]
      /\ UNCHANGED <<category, product, variant, job, hand, calls, done, named, late, touched, ceded, calm>>
  BY <1>1 DEF Products!RowFails, Products!history, Products!tables
<1>3. new \in FileRun /\ Reading(new) /\ new.pc = "row"
  BY <1>1, <1>2, CountedRows, PassedOn
<1>4. ~InRow(new)
  BY <1>3 DEF InRow
<1>5. job' \in FileJobs /\ calm' \in BOOLEAN
  BY <1>2 DEF ProductInv, RunsTyped
<1>6. QED
  BY <1>2, <1>3, <1>4, <1>5, RunMoves

LEMMA FindProductSells ==
    ASSUME Products!CatalogueAssumption, ProductInv, NEW j \in Slots, Products!FindProduct(j)
    PROVE  ProductInv'
<1>1. run[j].pc = "row" /\ run[j].row <= Len(run[j].file)
      /\ UNCHANGED <<category, product, variant, job, hand, calls, done, named, late, touched, ceded>>
  BY DEF Products!FindProduct, Products!tables
<1>2. job' \in FileJobs
  BY <1>1 DEF ProductInv, RunsTyped
<1>3. calm' \in BOOLEAN /\ (calm' => calm /\ ~Products!Busy)
  BY Zenon DEF Products!FindProduct
<1>4. CASE run' = [run EXCEPT ![j] = Products!Passed(j, Products!Erred(j))]
  <2>1. PICK new : new = Products!Passed(j, Products!Erred(j))
    OBVIOUS
  <2>2. new \in FileRun /\ Reading(new) /\ new.pc = "row"
    BY <1>1, <2>1, CountedRows, PassedOn
  <2>3. ~InRow(new)
    BY <2>2 DEF InRow
  <2>4. QED
    BY <1>1, <1>2, <1>3, <1>4, <2>1, <2>2, <2>3, RunMoves
<1>5. ASSUME NEW i \in IF Products!LiveNamed(Products!RowOf(j).name) = {} THEN {None}
                       ELSE Products!LiveNamed(Products!RowOf(j).name),
             run' = [run EXCEPT ![j] = [run[j] EXCEPT !.pc = "variant", !.product = i]]
      PROVE  ProductInv'
  <2>1. PICK new : new = [run[j] EXCEPT !.pc = "variant", !.product = i]
    OBVIOUS
  <2>2. run[j] \in FileRun /\ run[j].file \in ProductFiles /\ (run[j].found => run[j].sku # None)
    BY <1>1 DEF ProductInv, RunsTyped, Reading
  <2>3. i = None \/ i \in Products!Products
    BY <1>5 DEF Products!LiveNamed
  <2>4. new \in FileRun /\ new.pc = "variant" /\ new.product = i /\ new.file = run[j].file
        /\ new.row = run[j].row /\ new.found = run[j].found /\ new.sku = run[j].sku
    BY <2>1, <2>2, <2>3 DEF FileRun
  <2>5. Reading(new)
    BY <1>1, <2>2, <2>4 DEF Reading
  <2>6. None \notin Products!Products
    BY DEF Products!CatalogueAssumption
  <2>7. Picked(new)
    BY <1>1, <1>5, <2>4, <2>6, RowIsRead DEF Picked, Products!LiveNamed
  <2>8. Matched(new)
    BY <2>4 DEF Matched
  <2>9. ~Products!Busy => hand.pc = "idle" /\ \A q \in Slots \ {j} : ~InRow(run[q])
    BY DEF Products!Busy, InRow
  <2>10. QED
    BY <1>1, <1>2, <1>3, <1>5, <2>1, <2>4, <2>5, <2>7, <2>8, <2>9, RunMoves
<1>6. QED
  BY <1>4, <1>5 DEF Products!FindProduct

LEMMA FindVariantSells ==
    ASSUME Products!CatalogueAssumption, ProductInv, NEW j \in Slots, Products!FindVariant(j)
    PROVE  ProductInv'
<1>1. run[j].pc = "variant"
      /\ UNCHANGED <<category, product, variant, job, hand, calls, done, named, late, touched, ceded, calm>>
  BY DEF Products!FindVariant, Products!tables, Products!history
<1>2. job' \in FileJobs /\ calm' \in BOOLEAN
  BY <1>1 DEF ProductInv, RunsTyped
<1>3. run[j] \in FileRun /\ run[j].file \in ProductFiles /\ run[j].row <= Len(run[j].file)
  BY <1>1 DEF ProductInv, RunsTyped, Reading, InRow
<1>4. /\ Products!RowOf(j) \in Products!Row /\ run[j].row \in DOMAIN run[j].file
      /\ Products!RowOf(j) = run[j].file[run[j].row]
  BY <1>1, <1>3, RowIsRead
<1>5. ASSUME NEW k, NEW hit \in BOOLEAN,
             run' = [run EXCEPT ![j] = [run[j] EXCEPT !.pc = "commit", !.sku = k, !.found = hit]],
             k \in Skus \cup {None},
             hit => k # None,
             Products!RowOf(j).sku # AutoSku =>
                k = Products!RowOf(j).sku /\ (hit <=> k # None /\ variant[k].status = "live"),
             Products!RowOf(j).sku = AutoSku =>
                /\ k \in Skus
                /\ hit => k \in Products!SameNamed(run[j].product, Products!RowOf(j).called)
                /\ ~hit => Products!SameNamed(run[j].product, Products!RowOf(j).called) = {}
      PROVE  ProductInv'
  <2>1. PICK new : new = [run[j] EXCEPT !.pc = "commit", !.sku = k, !.found = hit]
    OBVIOUS
  <2>2. new \in FileRun
    BY <1>3, <1>5, <2>1 DEF FileRun
  <2>3. new.pc = "commit" /\ new.sku = k /\ new.file = run[j].file /\ new.row = run[j].row
        /\ new.product = run[j].product
    BY <1>3, <2>1 DEF FileRun
  <2>4. new.found = hit
    BY <1>3, <2>1 DEF FileRun
  <2>5. Reading(new)
    BY <1>3, <1>5, <2>3, <2>4 DEF Reading
  <2>6. Matched(new)
    BY <1>4, <1>5, <2>3, <2>4 DEF Matched
  <2>7. ASSUME calm
        PROVE  Picked(new) /\ hand.pc = "idle" /\ \A q \in Slots \ {j} : ~InRow(run[q])
    <3>1. OneOpen /\ InRow(run[j])
      BY <1>1, <2>7 DEF ProductInv, InRow
    <3>2. hand.pc = "idle" /\ (\A q \in Slots \ {j} : ~InRow(run[q])) /\ Picked(run[j])
      BY <3>1 DEF OneOpen
    <3>3. Picked(new)
      BY <2>3, <3>1, <3>2 DEF Picked
    <3>4. QED
      BY <3>2, <3>3
  <2>8. QED
    BY <1>1, <1>2, <1>5, <2>1, <2>2, <2>5, <2>6, <2>7, RunMoves
<1>6. ASSUME Products!RowOf(j).sku # AutoSku,
             run' = [run EXCEPT ![j] = [run[j] EXCEPT !.pc = "commit", !.sku = Products!RowOf(j).sku,
                        !.found = /\ Products!RowOf(j).sku # None
                                  /\ variant[Products!RowOf(j).sku].status = "live"]]
      PROVE  ProductInv'
  <2>1. PICK f \in BOOLEAN : f = (/\ Products!RowOf(j).sku # None
                                  /\ variant[Products!RowOf(j).sku].status = "live")
    BY Zenon
  <2>2. PICK k : k = Products!RowOf(j).sku
    OBVIOUS
  <2>3. k \in Skus \cup {None}
    BY <1>4, <1>6, <2>2 DEF Products!Row
  <2>4. f <=> k # None /\ variant[k].status = "live"
    BY <2>1, <2>2, Zenon
  <2>5. run' = [run EXCEPT ![j] = [run[j] EXCEPT !.pc = "commit", !.sku = k, !.found = f]]
    BY <1>6, <2>1, <2>2, Zenon
  <2>6. QED
    BY <1>5, <1>6, <2>2, <2>3, <2>4, <2>5
<1>7. ASSUME Products!RowOf(j).sku = AutoSku,
             NEW k \in IF Products!SameNamed(run[j].product, Products!RowOf(j).called) = {}
                       THEN {Products!Generated(Products!RowOf(j), run[j].row)}
                       ELSE Products!SameNamed(run[j].product, Products!RowOf(j).called),
             run' = [run EXCEPT ![j] = [run[j] EXCEPT !.pc = "commit", !.sku = k,
                        !.found = Products!SameNamed(run[j].product, Products!RowOf(j).called) # {}]]
      PROVE  ProductInv'
  <2>1. PICK f \in BOOLEAN :
           f = (Products!SameNamed(run[j].product, Products!RowOf(j).called) # {})
    BY Zenon
  <2>2. run' = [run EXCEPT ![j] = [run[j] EXCEPT !.pc = "commit", !.sku = k, !.found = f]]
    BY <1>7, <2>1, Zenon
  <2>3. f <=> Products!SameNamed(run[j].product, Products!RowOf(j).called) # {}
    BY <2>1, Zenon
  <2>4. PICK base : base = BaseSku[<<Products!RowOf(j).name, Products!RowOf(j).called>>]
    OBVIOUS
  <2>5. Products!Generated(Products!RowOf(j), run[j].row) \in Skus
    <3>1. <<Products!RowOf(j).name, Products!RowOf(j).called>> \in ProductNames \X ProductNames
      BY <1>4 DEF Products!Row
    <3>2. base \in Skus /\ RowSku[base][run[j].row] \in Skus
      BY <1>3, <1>4, <2>4, <3>1 DEF Products!CatalogueAssumption
    <3>3. Products!Generated(Products!RowOf(j), run[j].row) \in {base, RowSku[base][run[j].row]}
      BY <2>4 DEF Products!Generated
    <3>4. QED
      BY <3>2, <3>3
  <2>6. Products!SameNamed(run[j].product, Products!RowOf(j).called) \subseteq Skus
    BY DEF Products!SameNamed
  <2>7. /\ k \in Skus
        /\ f => k \in Products!SameNamed(run[j].product, Products!RowOf(j).called)
        /\ ~f => Products!SameNamed(run[j].product, Products!RowOf(j).called) = {}
    BY <1>7, <2>3, <2>5, <2>6
  <2>8. None \notin Skus
    BY DEF Products!CatalogueAssumption
  <2>9. QED
    BY <1>5, <1>7, <2>2, <2>7, <2>8
<1>8. QED
  BY <1>6, <1>7 DEF Products!FindVariant

LEMMA CrashSells ==
    ASSUME Products!CatalogueAssumption, ProductInv, Products!Crash
    PROVE  ProductInv'
<1>1. /\ run' = [j \in Slots |-> Products!NoRun] /\ hand' = Products!NoCall
      /\ UNCHANGED <<category, product, variant, job, calls, done, named, late, touched, ceded, calm>>
  BY DEF Products!Crash, Products!tables, Products!history
<1>2. Products!NoRun \in FileRun /\ Products!NoRun.pc = "idle"
  BY DEF Products!NoRun, FileRun, Products!NoCounts, Products!Counts
<1>3. Products!NoCall \in HandCall /\ Products!NoCall.pc = "idle"
  BY DEF Products!NoCall, HandCall
<1>4. hand'.pc = "idle" /\ \A j \in Slots : ~InRow(run'[j])
  BY <1>1, <1>2, <1>3 DEF InRow
<1>5. RunsTyped'
  <2>1. run' \in [Slots -> FileRun] /\ (\A j \in Slots : Reading(run'[j]))
    BY <1>1, <1>2 DEF Reading
  <2>2. hand' \in HandCall /\ Handed(hand')
    BY <1>1, <1>3 DEF Handed
  <2>3. QED
    BY <1>1, <1>4, <2>1, <2>2 DEF ProductInv, RunsTyped, Reading, Handed
<1>6. SoldTyped'
  BY <1>1 DEF ProductInv, SoldTyped
<1>7. Products!OneImportedProduct' /\ Products!NoOrphan'
  BY <1>1 DEF ProductInv, Products!OneImportedProduct, Products!NoOrphan, Products!Live
<1>8. calm' /\ ~touched' => \A d \in done' : Kept(d)'
  BY <1>1 DEF ProductInv, Kept, Products!LiveNamed, Products!Live,
   Products!SameNamed
<1>9. QED
  BY <1>4, <1>5, <1>6, <1>7, <1>8, NoneOpen DEF ProductInv

(* A call by hand begins.                                                  *)
LEMMA HandBegins ==
    ASSUME Products!CatalogueAssumption, ProductInv, Products!ByHand
    PROVE  /\ calls' \in 0..MaxByHand /\ calm' \in BOOLEAN /\ touched' = TRUE
           /\ hand.pc = "idle"
           /\ calm' => calm /\ \A j \in Slots : ~InRow(run[j])
<1>1. calls' \in 0..MaxByHand
  BY DEF Products!ByHand, ProductInv, RunsTyped, Products!CatalogueAssumption
<1>2. calm' \in BOOLEAN /\ (calm' => calm /\ ~Products!Busy)
  BY Zenon DEF Products!ByHand
<1>3. ~Products!Busy => \A j \in Slots : ~InRow(run[j])
  BY DEF Products!Busy, InRow
<1>4. QED
  BY <1>1, <1>2, <1>3 DEF Products!ByHand

(* ... and is answered at once.                                            *)
LEMMA HandWrites ==
    ASSUME Products!CatalogueAssumption, ProductInv, Products!ByHand,
           UNCHANGED <<job, run, hand>>, SoldTyped',
           Products!OneImportedProduct', Products!NoOrphan'
    PROVE  ProductInv'
<1>1. RunsTyped'
  <2>1. calls' \in 0..MaxByHand /\ calm' \in BOOLEAN /\ touched' = TRUE
    BY HandBegins
  <2>2. touched' \in BOOLEAN /\ ~(touched' = FALSE)
    BY <2>1
  <2>3. job' \in FileJobs /\ run' \in [Slots -> FileRun] /\ (\A j \in Slots : Reading(run[j])')
        /\ hand' \in HandCall /\ Handed(hand)'
    BY DEF ProductInv, RunsTyped, Reading, Handed
  <2>4. QED
    BY <2>1, <2>3 DEF RunsTyped
<1>2. calm' => OneOpen'
  BY HandBegins, NoneOpen
<1>3. ~(~touched)'
  BY HandBegins
<1>4. QED
  BY <1>1, <1>2, <1>3 DEF ProductInv

LEMMA NamingSells ==
    ASSUME Products!CatalogueAssumption, ProductInv, Products!ByHand,
           NEW i \in Products!Products, NEW name \in ProductNames,
           product' = [product EXCEPT ![i] = [status |-> "live", name |-> name]],
           named' = named \cup {i},
           UNCHANGED <<category, variant, job, run, hand, done, late, ceded>>
    PROVE  ProductInv'
<1>1. [status |-> "live", name |-> name] \in SoldRow
  BY DEF SoldRow
<1>2. SoldTyped'
  BY <1>1 DEF ProductInv, SoldTyped
<1>3. \A m \in Products!Products : m # i => product'[m] = product[m]
  BY DEF ProductInv, SoldTyped
<1>4. product'[i].status = "live"
  BY DEF ProductInv, SoldTyped
<1>5. calm' => calm
  BY HandBegins
<1>6. Products!OneImportedProduct'
  BY <1>3, <1>5 DEF ProductInv, Products!OneImportedProduct, Products!Live
<1>7. Products!NoOrphan'
  BY <1>3, <1>4, <1>5 DEF ProductInv, SoldTyped, Products!NoOrphan, Products!Live
<1>8. QED
  BY <1>2, <1>6, <1>7, HandWrites

LEMMA MoveVariantSells ==
    ASSUME Products!CatalogueAssumption, ProductInv, NEW k \in Skus, NEW i \in Products!Products,
           Products!MoveVariant(k, i)
    PROVE  ProductInv'
<1>1. /\ Products!ByHand /\ variant[k].status = "live"
      /\ variant' = [variant EXCEPT ![k] =
                        [status |-> "live", of |-> i, name |-> variant[k].name]]
      /\ late' = IF Products!Live(i) THEN late \ {k} ELSE late \cup {k}
      /\ UNCHANGED <<category, product, job, run, hand, done, named, ceded>>
  BY DEF Products!MoveVariant
<1>2. [status |-> "live", of |-> i, name |-> variant[k].name] \in KindRow
  BY DEF ProductInv, SoldTyped, KindRow
<1>3. late' \subseteq Skus
  BY <1>1 DEF ProductInv, SoldTyped
<1>4. \A m \in Skus : variant'[m] = IF m = k THEN [status |-> "live", of |-> i, name |-> variant[k].name]
                                    ELSE variant[m]
  BY <1>1 DEF ProductInv, SoldTyped
<1>5. variant' \in [Skus -> KindRow] /\ \A m \in Skus : variant'[m].status = "live" => variant'[m].of \in Products!Products
  BY <1>1, <1>2, <1>4 DEF ProductInv, SoldTyped
<1>6. SoldTyped'
  BY <1>1, <1>3, <1>5 DEF ProductInv, SoldTyped
<1>7. calm' => calm
  BY <1>1, HandBegins
<1>8. Products!OneImportedProduct'
  BY <1>1, <1>7 DEF ProductInv, Products!OneImportedProduct, Products!Live
<1>9. Products!NoOrphan'
  <2> SUFFICES ASSUME calm, NEW m \in Skus \ late', variant'[m].status = "live"
               PROVE  Products!Live(variant'[m].of)
    BY <1>1, <1>7 DEF Products!NoOrphan, Products!Live
  <2>1. CASE m = k
    BY <1>1, <1>4, <2>1
  <2>2. CASE m # k
    BY <1>1, <1>4, <2>2 DEF ProductInv, Products!NoOrphan
  <2>3. QED
    BY <2>1, <2>2
<1>10. QED
  BY <1>1, <1>6, <1>8, <1>9, HandWrites

(* A call by hand that reads, and will write.                              *)
LEMMA HandReads ==
    ASSUME Products!CatalogueAssumption, ProductInv, Products!ByHand,
           UNCHANGED <<category, product, variant, job, run, done, named, late, ceded>>,
           hand' \in HandCall, Handed(hand'),
           hand'.pc = "add" => Products!Live(hand'.product),
           hand'.pc = "remove" => hand'.variants = Products!VariantsOf(hand'.product)
    PROVE  ProductInv'
<1>1. SoldTyped'
  BY DEF ProductInv, SoldTyped
<1>2. RunsTyped'
  <2>1. calls' \in 0..MaxByHand /\ calm' \in BOOLEAN /\ touched' = TRUE
    BY HandBegins
  <2>2. job' \in FileJobs /\ run' \in [Slots -> FileRun] /\ (\A j \in Slots : Reading(run[j])')
    BY DEF ProductInv, RunsTyped, Reading
  <2>3. Handed(hand)'
    BY DEF Handed
  <2>4. QED
    BY <2>1, <2>2, <2>3 DEF RunsTyped
<1>3. calm' => calm
  BY HandBegins
<1>4. Products!OneImportedProduct' /\ Products!NoOrphan'
  BY <1>3 DEF ProductInv, Products!OneImportedProduct, Products!NoOrphan, Products!Live
<1>5. ASSUME calm' PROVE OneOpen'
  <2>1. \A j \in Slots : ~InRow(run'[j])
    BY <1>5, HandBegins
  <2>2. HandKnows'
    BY DEF HandKnows, Products!Live, Products!VariantsOf
  <2>3. \A j \in Slots : Picked(run[j])' /\ Matched(run[j])'
    BY <2>1 DEF Picked, Matched, InRow
  <2>4. QED
    BY <2>1, <2>2, <2>3 DEF OneOpen
<1>6. ~(~touched)'
  BY HandBegins
<1>7. QED
  BY <1>1, <1>2, <1>4, <1>5, <1>6 DEF ProductInv

LEMMA FindParentSells ==
    ASSUME Products!CatalogueAssumption, ProductInv, NEW k \in Skus, NEW i \in Products!Products,
           Products!FindParent(k, i)
    PROVE  ProductInv'
<1>1. /\ Products!ByHand /\ Products!Live(i)
      /\ hand' = [Products!NoCall EXCEPT !.pc = "add", !.product = i, !.sku = k]
      /\ UNCHANGED <<category, product, variant, job, run, done, named, late, ceded>>
  BY DEF Products!FindParent, Products!tables
<1>2. hand' = [pc |-> "add", product |-> i, sku |-> k, variants |-> {}]
  BY <1>1 DEF Products!NoCall
<1>3. hand' \in HandCall /\ Handed(hand')
  BY <1>2 DEF HandCall, Handed
<1>4. QED
  BY <1>1, <1>2, <1>3, HandReads

LEMMA FindRemovedSells ==
    ASSUME Products!CatalogueAssumption, ProductInv, NEW i \in Products!Products,
           Products!FindRemoved(i)
    PROVE  ProductInv'
<1>1. /\ Products!ByHand /\ Products!Live(i)
      /\ hand' = [Products!NoCall EXCEPT !.pc = "remove", !.product = i,
                                         !.variants = Products!VariantsOf(i)]
      /\ UNCHANGED <<category, product, variant, job, run, done, named, late, ceded>>
  BY DEF Products!FindRemoved, Products!tables
<1>2. hand' = [pc |-> "remove", product |-> i, sku |-> None, variants |-> Products!VariantsOf(i)]
  BY <1>1 DEF Products!NoCall
<1>3. Products!VariantsOf(i) \in SUBSET Skus
  BY DEF Products!VariantsOf
<1>4. hand' \in HandCall /\ Handed(hand')
  BY <1>2, <1>3 DEF HandCall, Handed
<1>5. QED
  BY <1>1, <1>2, <1>4, HandReads

(* The call by hand in progress writes and ends.                           *)
LEMMA HandEnds ==
    ASSUME Products!CatalogueAssumption, ProductInv, hand.pc # "idle", hand' = Products!NoCall,
           UNCHANGED <<job, run, calls, touched, calm>>, SoldTyped',
           Products!OneImportedProduct', Products!NoOrphan'
    PROVE  ProductInv'
<1>1. touched
  BY DEF ProductInv, RunsTyped
<1>2. hand' \in HandCall /\ hand'.pc = "idle" /\ Handed(hand')
  BY DEF Products!NoCall, HandCall, Handed
<1>3. RunsTyped'
  BY <1>1, <1>2 DEF ProductInv, RunsTyped, Reading, Handed
<1>4. ASSUME calm' PROVE OneOpen'
  BY <1>2, <1>4, NoneOpen DEF ProductInv, OneOpen
<1>5. ~(~touched)'
  BY <1>1
<1>6. QED
  BY <1>3, <1>4, <1>5 DEF ProductInv

LEMMA CreateVariantSells ==
    ASSUME Products!CatalogueAssumption, ProductInv,
           NEW name \in ProductNames, Products!CreateVariant(name)
    PROVE  ProductInv'
<1>1. /\ hand.pc = "add" /\ hand' = Products!NoCall
      /\ UNCHANGED <<category, product, job, run, calls, done, named, late, touched, ceded, calm>>
  BY DEF Products!CreateVariant, Products!history
<1>2. hand.product \in Products!Products /\ hand.sku \in Skus
  BY <1>1 DEF ProductInv, RunsTyped, Handed
<1>3. PICK new : new = [status |-> "live", of |-> hand.product, name |-> name]
  OBVIOUS
<1>4. new \in KindRow
  BY <1>2, <1>3 DEF ProductInv, SoldTyped, SoldRow, KindRow
<1>5. \A m \in Skus : variant'[m] = variant[m] \/ (m = hand.sku /\ variant'[m] = new)
  BY <1>2, <1>3 DEF ProductInv, SoldTyped, Products!CreateVariant
<1>6. variant' \in [Skus -> KindRow]
  BY <1>2, <1>3, <1>4 DEF ProductInv, SoldTyped, Products!CreateVariant
<1>7. SoldTyped'
  BY <1>1, <1>2, <1>3, <1>5, <1>6 DEF ProductInv, SoldTyped
<1>8. Products!OneImportedProduct'
  BY <1>1 DEF ProductInv, Products!OneImportedProduct, Products!Live
<1>9. Products!NoOrphan'
  <2> SUFFICES ASSUME calm, NEW m \in Skus \ late, variant'[m].status = "live"
               PROVE  Products!Live(variant'[m].of)
    BY <1>1 DEF Products!NoOrphan, Products!Live
  <2>1. Products!Live(hand.product)
    BY <1>1 DEF ProductInv, OneOpen, HandKnows
  <2>2. CASE variant'[m] = new
    BY <1>3, <2>1, <2>2
  <2>3. CASE variant'[m] = variant[m]
    BY <2>3 DEF ProductInv, Products!NoOrphan
  <2>4. QED
    BY <1>5, <2>2, <2>3
<1>10. QED
  BY <1>1, <1>7, <1>8, <1>9, HandEnds

LEMMA RemoveSells ==
    ASSUME Products!CatalogueAssumption, ProductInv, Products!Remove
    PROVE  ProductInv'
<1>1. /\ hand.pc = "remove" /\ hand' = Products!NoCall
      /\ UNCHANGED <<category, job, run, calls, done, named, late, touched, ceded, calm>>
      /\ product' = [product EXCEPT ![hand.product] =
                        [status |-> "deleted", name |-> product[hand.product].name]]
      /\ variant' = [k \in Skus |-> IF k \in hand.variants
                                    THEN [variant[k] EXCEPT !.status = "deleted"] ELSE variant[k]]
  BY DEF Products!Remove, Products!history
<1>2. hand.product \in Products!Products
  BY <1>1 DEF ProductInv, RunsTyped, Handed
<1>3. \A m \in Products!Products : product'[m] = IF m = hand.product
         THEN [status |-> "deleted", name |-> product[hand.product].name] ELSE product[m]
  BY <1>1 DEF ProductInv, SoldTyped
<1>4. product' \in [Products!Products -> SoldRow]
  <2>1. [status |-> "deleted", name |-> product[hand.product].name] \in SoldRow
    BY <1>2 DEF ProductInv, SoldTyped, SoldRow
  <2>2. QED
    BY <1>1, <2>1 DEF ProductInv, SoldTyped
<1>5. ASSUME NEW m \in Skus
      PROVE  /\ variant'[m] \in KindRow
             /\ variant'[m].status = "live" => m \notin hand.variants /\ variant'[m] = variant[m]
  <2>1. variant[m] \in KindRow
    BY DEF ProductInv, SoldTyped
  <2>2. CASE m \in hand.variants
    <3>1. variant'[m] = [variant[m] EXCEPT !.status = "deleted"]
      BY <1>1, <2>2
    <3>2. QED
      BY <2>1, <3>1 DEF KindRow
  <2>3. CASE m \notin hand.variants
    BY <1>1, <2>1, <2>3
  <2>4. QED
    BY <2>2, <2>3
<1>6. variant' \in [Skus -> KindRow]
  BY <1>1, <1>5
<1>7. SoldTyped'
  BY <1>1, <1>4, <1>5, <1>6 DEF ProductInv, SoldTyped
<1>8. Products!OneImportedProduct'
  BY <1>1, <1>3 DEF ProductInv, Products!OneImportedProduct, Products!Live
<1>9. Products!NoOrphan'
  <2> SUFFICES ASSUME calm, NEW m \in Skus \ late, variant'[m].status = "live"
               PROVE  product'[variant'[m].of].status = "live"
    BY <1>1 DEF Products!NoOrphan, Products!Live
  <2>1. m \notin hand.variants /\ variant'[m] = variant[m] /\ variant[m].status = "live"
    BY <1>5
  <2>2. variant[m].of \in Products!Products /\ Products!Live(variant[m].of)
    BY <2>1 DEF ProductInv, SoldTyped, Products!NoOrphan
  <2>3. hand.variants = Products!VariantsOf(hand.product)
    BY <1>1 DEF ProductInv, OneOpen, HandKnows
  <2>4. variant[m].of # hand.product
    BY <2>1, <2>3 DEF Products!VariantsOf
  <2>5. QED
    BY <1>3, <2>1, <2>2, <2>4 DEF Products!Live
<1>10. QED
  BY <1>1, <1>7, <1>8, <1>9, HandEnds

(* A row commits: its product, its variant, or both, new or as they were   *)
(* found.                                                                  *)
LEMMA CommitSells ==
    ASSUME Products!CatalogueAssumption, ProductInv, NEW j \in Slots, NEW i \in Products!Products,
           NEW answered \in BOOLEAN, Products!CommitRow(j, i, answered)
    PROVE  ProductInv'
<1> DEFINE read == Products!RowOf(j)
           k == run[j].sku
<1>1. run[j].pc = "commit" /\ ~Products!Duplicate(j)
      /\ UNCHANGED <<job, hand, calls, named, late, touched, calm>>
      /\ category' = category \cup ({read.category} \ {None})
      /\ done' = done \cup {<<read, run[j].row>>}
  BY DEF Products!CommitRow
<1>2. /\ run[j] \in FileRun /\ run[j].row <= Len(run[j].file) /\ InRow(run[j])
      /\ run[j].file \in ProductFiles
  BY <1>1 DEF ProductInv, RunsTyped, Reading, InRow
<1>3. read \in Products!Row /\ run[j].row \in DOMAIN run[j].file /\ read = run[j].file[run[j].row]
  BY <1>1, <1>2, RowIsRead
<1>4. read.name \in ProductNames /\ read.called \in ProductNames /\ read.category \in Categories \cup {None}
      /\ read.sku \in Skus \cup {AutoSku, None} /\ run[j].row \in Nat
  BY <1>2, <1>3 DEF Products!Row, FileRun
<1>5. k \in Skus \cup {None}
  BY <1>2 DEF FileRun
<1>6. PICK new : new = Products!Passed(j, IF answered THEN Products!Imported(j) ELSE Products!Erred(j))
  OBVIOUS
<1>7. run' = [run EXCEPT ![j] = new]
  BY <1>6 DEF Products!CommitRow
<1>8. new \in FileRun /\ Reading(new) /\ ~InRow(new)
  <2>1. (IF answered THEN Products!Imported(j) ELSE Products!Erred(j)) \in Products!Counts
    BY CountedRows
  <2>2. new \in FileRun /\ Reading(new) /\ new.pc = "row"
    BY <1>1, <1>6, <2>1, PassedOn
  <2>3. QED
    BY <2>2 DEF InRow
<1>9. RunsTyped'
  <2>1. \A q \in Slots : run'[q] = IF q = j THEN new ELSE run[q]
    BY <1>7 DEF ProductInv, RunsTyped
  <2>2. run' \in [Slots -> FileRun] /\ \A q \in Slots : Reading(run'[q])
    BY <1>7, <1>8, <2>1 DEF ProductInv, RunsTyped
  <2>3. QED
    BY <1>1, <2>2 DEF ProductInv, RunsTyped, Reading, Handed
<1>10. ASSUME calm' PROVE OneOpen'
  <2>1. OneOpen
    BY <1>1, <1>10 DEF ProductInv
  <2>2. hand'.pc = "idle" /\ \A q \in Slots : q # j => ~InRow(run[q])
    BY <1>1, <1>2, <2>1 DEF OneOpen
  <2>3. \A q \in Slots : ~InRow(run'[q])
    BY <1>7, <1>8, <2>2 DEF ProductInv, RunsTyped
  <2>4. QED
    BY <2>2, <2>3, NoneOpen
<1>11. IF run[j].product = None
       THEN /\ product[i].status = "none"
            /\ product' = [product EXCEPT ![i] = [status |-> "live", name |-> read.name]]
       ELSE i = run[j].product /\ product' = product
  BY DEF Products!CommitRow, Products!NewProduct, Products!Vacant
<1>12. [status |-> "live", name |-> read.name] \in SoldRow
  BY <1>4 DEF SoldRow
<1>13. product' \in [Products!Products -> SoldRow]
  BY <1>11, <1>12 DEF ProductInv, SoldTyped
<1>14. \A m \in Products!Products : product[m].status = "live" => product'[m] = product[m]
  BY <1>11 DEF ProductInv, SoldTyped
<1>15. k = None => variant' = variant
  BY DEF Products!CommitRow
<1>16. PICK s : s = IF run[j].found THEN variant[k].status ELSE "live"
  BY Zenon
<1>17. k # None => variant' = [variant EXCEPT ![k] = [status |-> s, of |-> i, name |-> read.called]]
  BY <1>16, Zenon DEF Products!CommitRow
<1>18. k # None => /\ k \in Skus /\ s \in {"none", "live", "deleted"}
                   /\ [status |-> s, of |-> i, name |-> read.called] \in KindRow
                   /\ \A m \in Skus : variant'[m] = IF m = k
                         THEN [status |-> s, of |-> i, name |-> read.called] ELSE variant[m]
  <2> SUFFICES ASSUME k # None
               PROVE  /\ k \in Skus /\ s \in {"none", "live", "deleted"}
                      /\ [status |-> s, of |-> i, name |-> read.called] \in KindRow
                      /\ \A m \in Skus : variant'[m] = IF m = k
                         THEN [status |-> s, of |-> i, name |-> read.called] ELSE variant[m]
    OBVIOUS
  <2>1. k \in Skus
    BY <1>5
  <2>2. variant[k].status \in {"none", "live", "deleted"}
    BY <2>1 DEF ProductInv, SoldTyped, KindRow
  <2>3. s = variant[k].status \/ s = "live"
    BY <1>16, Zenon
  <2>4. [status |-> s, of |-> i, name |-> read.called] \in KindRow
    BY <1>4, <2>2, <2>3 DEF KindRow
  <2>5. QED
    BY <1>17, <2>1, <2>2, <2>3, <2>4 DEF ProductInv, SoldTyped
<1>19. variant' \in [Skus -> KindRow]
       /\ \A m \in Skus : variant'[m].status = "live" => variant'[m].of \in Products!Products
  BY <1>15, <1>17, <1>18 DEF ProductInv, SoldTyped
<1>20. PICK more : more = IF run[j].found THEN {Products!Taken(k)} \ {<<i, read.called>>} ELSE {}
  BY Zenon
<1>21. ceded' = ceded \cup more
  <2>1. CASE run[j].found
    <3>1. more = {Products!Taken(k)} \ {<<i, read.called>>}
      BY <1>20, <2>1, Zenon
    <3>2. ceded' = ceded \cup ({Products!Taken(k)} \ {<<i, read.called>>})
      BY <2>1, Zenon DEF Products!CommitRow
    <3>3. QED
      BY <3>1, <3>2, Zenon
  <2>2. CASE ~run[j].found
    <3>1. more = {}
      BY <1>20, <2>2, Zenon
    <3>2. ceded' = ceded
      BY <2>2, Zenon DEF Products!CommitRow
    <3>3. QED
      BY <3>1, <3>2
  <2>3. QED
    BY <2>1, <2>2, Zenon
<1>22. more \subseteq (Products!Products \cup {None}) \X (ProductNames \cup {None})
  <2>1. CASE run[j].found
    <3>1. k \in Skus
      BY <1>2, <1>5, <2>1 DEF ProductInv, RunsTyped, Reading, InRow
    <3>2. Products!Taken(k) \in (Products!Products \cup {None}) \X (ProductNames \cup {None})
      BY <3>1 DEF ProductInv, SoldTyped, KindRow, Products!Taken
    <3>3. more = {Products!Taken(k)} \ {<<i, read.called>>}
      BY <1>20, <2>1, Zenon
    <3>4. QED
      BY <3>2, <3>3
  <2>2. CASE ~run[j].found
    BY <1>20, <2>2, Zenon
  <2>3. QED
    BY <2>1, <2>2
<1>23. SoldTyped'
  <2>1. category' \subseteq Categories /\ done' \subseteq Products!Row \X Nat
    BY <1>1, <1>3, <1>4 DEF ProductInv, SoldTyped
  <2>2. named' \subseteq Products!Products /\ late' \subseteq Skus
        /\ ceded' \subseteq (Products!Products \cup {None}) \X (ProductNames \cup {None})
    BY <1>1, <1>21, <1>22 DEF ProductInv, SoldTyped
  <2>3. QED
    BY <1>13, <1>19, <2>1, <2>2 DEF SoldTyped
<1>24. ASSUME calm
       PROVE  /\ Picked(run[j]) /\ Matched(run[j])
              /\ product'[i] = [status |-> "live", name |-> read.name]
  <2>1. Picked(run[j]) /\ Matched(run[j])
    BY <1>24 DEF ProductInv, OneOpen
  <2>2. CASE run[j].product = None
    BY <1>11, <2>1, <2>2 DEF ProductInv, SoldTyped
  <2>3. CASE run[j].product # None
    <3>1. product[i].status = "live" /\ product[i].name = read.name /\ product'[i] = product[i]
      BY <1>2, <1>3, <1>11, <2>1, <2>3 DEF Picked, Products!LiveNamed, Products!Live
    <3>2. product[i] \in SoldRow
      BY DEF ProductInv, SoldTyped
    <3>3. QED
      BY <2>1, <3>1, <3>2 DEF SoldRow
  <2>4. QED
    BY <2>1, <2>2, <2>3
<1>25. \A m \in Products!Products : m # i => product'[m] = product[m]
  BY <1>11 DEF ProductInv, SoldTyped
<1>26. Products!OneImportedProduct'
  <2>1. ASSUME calm, NEW m \in Products!Products \ named, m # i, product[m].status = "live",
               product[m].name = read.name, i \notin named
        PROVE  FALSE
    <3>1. CASE run[j].product = None
      BY <1>2, <1>3, <1>24, <2>1, <3>1 DEF Picked, Products!LiveNamed, Products!Live
    <3>2. CASE run[j].product # None
      <4>1. product[i].status = "live" /\ product[i].name = read.name
        BY <1>11, <1>24, <2>1, <3>2
      <4>2. QED
        BY <2>1, <4>1 DEF ProductInv, Products!OneImportedProduct, Products!Live
    <3>3. QED
      BY <3>1, <3>2
  <2> SUFFICES ASSUME calm, NEW m \in Products!Products \ named, NEW n \in Products!Products \ named,
                      product'[m].status = "live", product'[n].status = "live",
                      product'[m].name = product'[n].name, m # n
               PROVE  FALSE
    BY <1>1 DEF Products!OneImportedProduct, Products!Live
  <2>2. CASE m = i
    BY <1>24, <1>25, <2>1, <2>2
  <2>3. CASE n = i
    BY <1>24, <1>25, <2>1, <2>3
  <2>4. CASE m # i /\ n # i
    BY <1>25, <2>4 DEF ProductInv, Products!OneImportedProduct, Products!Live
  <2>5. QED
    BY <2>2, <2>3, <2>4
<1>27. Products!NoOrphan'
  <2> SUFFICES ASSUME calm, NEW m \in Skus \ late, variant'[m].status = "live"
               PROVE  product'[variant'[m].of].status = "live"
    BY <1>1 DEF Products!NoOrphan, Products!Live
  <2>1. CASE k # None /\ m = k
    BY <1>18, <1>24, <2>1
  <2>2. CASE k = None \/ m # k
    <3>1. variant'[m] = variant[m]
      BY <1>15, <1>18, <2>2
    <3>2. variant[m].of \in Products!Products /\ product[variant[m].of].status = "live"
      BY <3>1 DEF ProductInv, SoldTyped, Products!NoOrphan, Products!Live
    <3>3. QED
      BY <1>14, <3>1, <3>2
  <2>3. QED
    BY <2>1, <2>2
<1>28. ASSUME calm, k # None PROVE s = "live"
  <2>1. CASE ~run[j].found
    BY <1>16, <2>1, Zenon
  <2>2. CASE run[j].found
    <3>1. variant[k].status = "live"
      BY <1>1, <1>2, <1>3, <1>24, <1>28, <2>2 DEF Matched, Products!SameNamed
    <3>2. QED
      BY <1>16, <2>2, <3>1, Zenon
  <2>3. QED
    BY <2>1, <2>2
<1>29. ASSUME calm, ~touched, NEW d \in done' PROVE Kept(d)'
  <2>1. \A name : Products!LiveNamed(name) \subseteq Products!LiveNamed(name)'
    BY <1>14 DEF Products!LiveNamed, Products!Live
  <2>2. PICK name : name = read.name
    OBVIOUS
  <2>3. i \in Products!LiveNamed(name)'
    BY <1>24, <1>29, <2>2 DEF Products!LiveNamed, Products!Live
  <2>4. \A m \in Skus : variant[m].status = "live" => variant'[m].status = "live"
    BY <1>15, <1>18, <1>28, <1>29
  <2>5. CASE d \in done
    <3>1. Kept(d)
      BY <1>29, <2>5 DEF ProductInv
    <3>2. Products!LiveNamed(d[1].name)' # {}
          /\ (d[1].sku \in Skus => variant'[d[1].sku].status = "live")
      BY <2>1, <2>4, <3>1 DEF Kept
    <3>3. ASSUME d[1].sku = AutoSku
          PROVE  \E l \in Products!LiveNamed(d[1].name)' :
                    <<l, d[1].called>> \in ceded' \/ Products!SameNamed(l, d[1].called)' # {}
      <4>0. PICK c : c = d[1].called
        OBVIOUS
      <4>1. PICK l \in Products!LiveNamed(d[1].name) :
               <<l, c>> \in ceded \/ Products!SameNamed(l, c) # {}
        BY <3>1, <3>3, <4>0 DEF Kept
      <4>2. ASSUME NEW m \in Skus, variant[m].status = "live", variant[m].of = l,
                   variant[m].name = c
            PROVE  <<l, c>> \in ceded' \/ m \in Products!SameNamed(l, c)'
        <5>1. CASE k = None \/ m # k
          <6>1. variant'[m] = variant[m]
            BY <1>15, <1>18, <5>1
          <6>2. QED
            BY <4>2, <6>1 DEF Products!SameNamed
        <5>2. CASE k # None /\ m = k
          <6>1. run[j].found
            BY <1>1, <4>2, <5>2 DEF Products!Duplicate, Products!NewVariant
          <6>2. more = {Products!Taken(k)} \ {<<i, read.called>>} /\ Products!Taken(k) = <<l, c>>
            BY <1>20, <4>2, <5>2, <6>1 DEF Products!Taken
          <6>3. CASE <<l, c>> # <<i, read.called>>
            BY <1>21, <6>2, <6>3
          <6>4. CASE <<l, c>> = <<i, read.called>>
            <7>1. l = i /\ c = read.called
              BY <6>4
            <7>2. variant'[k] = [status |-> "live", of |-> i, name |-> read.called]
              BY <1>18, <1>28, <1>29, <5>2
            <7>3. QED
              BY <5>2, <7>1, <7>2 DEF Products!SameNamed
          <6>5. QED
            BY <6>3, <6>4
        <5>3. QED
          BY <5>1, <5>2
      <4>3. CASE <<l, c>> \in ceded
        BY <1>21, <2>1, <4>0, <4>3
      <4>4. CASE Products!SameNamed(l, c) # {}
        <5>1. PICK m \in Skus : variant[m].status = "live" /\ variant[m].of = l /\ variant[m].name = c
          BY <4>4 DEF Products!SameNamed
        <5>2. <<l, c>> \in ceded' \/ Products!SameNamed(l, c)' # {}
          BY <4>2, <5>1
        <5>3. QED
          BY <2>1, <4>0, <5>2
      <4>5. QED
        BY <4>1, <4>3, <4>4
    <3>4. QED
      BY <3>2, <3>3 DEF Kept
  <2>6. CASE d = <<read, run[j].row>>
    <3>1. d[1] = read
      BY <2>6
    <3>2. ASSUME read.sku \in Skus \cup {AutoSku}
          PROVE  /\ k \in Skus
                 /\ variant'[k] = [status |-> "live", of |-> i, name |-> read.called]
                 /\ read.sku # AutoSku => k = read.sku
      <4>1. None \notin Skus
        BY DEF Products!CatalogueAssumption
      <4>2. k \in Skus /\ (read.sku # AutoSku => k = read.sku)
        BY <1>1, <1>2, <1>3, <1>24, <1>29, <3>2 DEF Matched
      <4>3. QED
        BY <1>18, <1>28, <1>29, <4>1, <4>2
    <3>3. Products!LiveNamed(name)' # {}
      BY <2>3
    <3>4. read.sku \in Skus => variant'[read.sku].status = "live"
      <4>1. AutoSku \notin Skus
        BY DEF Products!CatalogueAssumption
      <4>2. QED
        BY <3>2, <4>1
    <3>5. PICK c : c = read.called
      OBVIOUS
    <3>6. ASSUME read.sku = AutoSku
          PROVE  \E l \in Products!LiveNamed(name)' :
                    <<l, c>> \in ceded' \/ Products!SameNamed(l, c)' # {}
      <4>1. k \in Products!SameNamed(i, c)'
        BY <3>2, <3>5, <3>6 DEF Products!SameNamed
      <4>2. QED
        BY <2>3, <4>1
    <3>7. d[1].sku = read.sku /\ d[1].called = c /\ d[1].name = name
      BY <2>2, <3>1, <3>5
    <3>8. QED
      BY <3>3, <3>4, <3>6, <3>7 DEF Kept
  <2>7. QED
    BY <1>1, <2>5, <2>6
<1>30. QED
  BY <1>1, <1>9, <1>10, <1>23, <1>26, <1>27, <1>29 DEF ProductInv

LEMMA StepSells ==
    ASSUME Products!CatalogueAssumption, ProductInv, [Products!Next]_Products!vars
    PROVE  ProductInv'
<1>1. CASE UNCHANGED Products!vars
  <2>1. UNCHANGED <<category, product, variant, job, run, hand, calls, done, named, late, touched,
                    ceded, calm>>
    BY <1>1 DEF Products!vars, Products!tables, Products!local, Products!history
  <2>2. SoldTyped' /\ Products!OneImportedProduct' /\ Products!NoOrphan'
    BY <2>1 DEF ProductInv, SoldTyped, Products!OneImportedProduct, Products!NoOrphan, Products!Live
  <2>3. RunsTyped'
    BY <2>1 DEF ProductInv, RunsTyped, Reading, Handed
  <2>4. calm' /\ ~touched' => \A d \in done' : Kept(d)'
    BY <2>1 DEF ProductInv, Kept, Products!LiveNamed, Products!Live,
   Products!SameNamed
  <2>5. ASSUME calm' PROVE OneOpen'
    BY <2>1, <2>5 DEF ProductInv, OneOpen, HandKnows, Picked, Matched, Products!LiveNamed,
       Products!Live, Products!SameNamed, Products!VariantsOf
  <2>6. QED
    BY <2>2, <2>3, <2>4, <2>5 DEF ProductInv
<1>2. ASSUME NEW i \in Products!Products, NEW name \in ProductNames,
             Products!CreateProduct(i, name) \/ Products!UpdateProduct(i, name)
      PROVE  ProductInv'
  <2>1. /\ Products!ByHand
        /\ product' = [product EXCEPT ![i] = [status |-> "live", name |-> name]]
        /\ named' = named \cup {i}
        /\ UNCHANGED <<category, variant, job, run, hand, done, late, ceded>>
    BY <1>2 DEF Products!CreateProduct, Products!UpdateProduct
  <2>2. QED
    BY <2>1, NamingSells
<1>3. QED
  BY <1>1, <1>2, StartSells, FindProductSells, FindVariantSells, RowFailsSells, FinishSells,
     CommitSells, CrashSells, CreateVariantSells, RemoveSells, FindRemovedSells,
     MoveVariantSells, FindParentSells DEF Products!Next

LEMMA InvSells ==
    ASSUME ProductInv
    PROVE  Products!TypeOK /\ Products!OneImportedProduct /\ Products!NoOrphan
BY DEF ProductInv, SoldTyped, RunsTyped, SoldRow, KindRow, FileRun, HandCall, FileJobs,
   Products!TypeOK

(* products.service.ts: a row imported again finds its product, and the    *)
(* variant made for it unless a row took that away by its SKU.             *)
LEMMA StepRecreates ==
    ASSUME Products!CatalogueAssumption, ProductInv, [Products!Next]_Products!vars
    PROVE  Products!RecreatesNothing
<1> SUFFICES ASSUME NEW j \in Slots, NEW i \in Products!Products, NEW answered \in BOOLEAN,
                    Products!CommitRow(j, i, answered), calm, ~touched,
                    <<Products!RowOf(j), run[j].row>> \in done
             PROVE  ~Products!NewProduct(j)
                    /\ (Products!NewVariant(j) => <<i, Products!RowOf(j).called>> \in ceded)
  BY DEF Products!RecreatesNothing
<1> DEFINE read == Products!RowOf(j)
           k == run[j].sku
<1>1. run[j].pc = "commit" /\ run[j].row <= Len(run[j].file) /\ InRow(run[j])
  BY DEF Products!CommitRow, ProductInv, RunsTyped, Reading, InRow
<1>2. read \in Products!Row /\ read = run[j].file[run[j].row]
  BY <1>1, RowIsRead
<1>3. Picked(run[j]) /\ Matched(run[j]) /\ named = {}
  BY DEF ProductInv, OneOpen, RunsTyped
<1>4. /\ Products!LiveNamed(read.name) # {}
      /\ read.sku \in Skus => variant[read.sku].status = "live"
      /\ read.sku = AutoSku =>
          \E l \in Products!LiveNamed(read.name) :
             <<l, read.called>> \in ceded \/ Products!SameNamed(l, read.called) # {}
  <2>1. Kept(<<read, run[j].row>>)
    BY DEF ProductInv
  <2>2. QED
    BY <2>1 DEF Kept
<1>5. run[j].product # None /\ run[j].product \in Products!LiveNamed(read.name)
      /\ i = run[j].product
  <2>1. run[j].product # None /\ run[j].product \in Products!LiveNamed(read.name)
    BY <1>1, <1>2, <1>3, <1>4 DEF Picked
  <2>2. QED
    BY <2>1 DEF Products!CommitRow, Products!NewProduct
<1>6. ASSUME k # None, ~run[j].found, <<i, read.called>> \notin ceded PROVE FALSE
  <2>1. CASE read.sku # AutoSku
    <3>1. k = read.sku /\ variant[k].status # "live"
      BY <1>1, <1>2, <1>3, <1>6, <2>1 DEF Matched
    <3>2. read.sku \in Skus
      BY <1>2, <1>6, <2>1, <3>1 DEF Products!Row
    <3>3. QED
      BY <1>4, <3>1, <3>2
  <2>2. CASE read.sku = AutoSku
    <3>1. Products!SameNamed(i, read.called) = {}
      BY <1>1, <1>2, <1>3, <1>5, <1>6, <2>2 DEF Matched
    <3>2. PICK l \in Products!LiveNamed(read.name) :
             <<l, read.called>> \in ceded \/ Products!SameNamed(l, read.called) # {}
      BY <1>4, <2>2
    <3>3. l = i
      BY <1>3, <1>5, <3>2 DEF ProductInv, Products!OneImportedProduct, Products!LiveNamed
    <3>4. QED
      BY <1>6, <3>1, <3>2, <3>3
  <2>3. QED
    BY <2>1, <2>2
<1>7. CASE <<i, read.called>> \in ceded
  BY <1>5, <1>7 DEF Products!NewProduct
<1>8. CASE <<i, read.called>> \notin ceded
  BY <1>5, <1>6, <1>8 DEF Products!NewProduct, Products!NewVariant
<1>9. QED
  BY <1>7, <1>8

-----------------------------------------------------------------------------
(***************************************************************************)
(* Requests that go on without an identity.  While requests do not         *)
(* overlap, the rows a request found are those it commits against: a       *)
(* unique key it breaks is that of a row its look-ups could not show.      *)
(***************************************************************************)
Found(s) == s.pc \in {"sync", "role", "commit"} =>
    /\ s.newTenant <=> s.who.org \notin tenant
    /\ s.user = People!NoUser => s.who.org \notin tenant \/ People!Found(s.who) = {}
    /\ s.user # People!NoUser => s.user \in People!Found(s.who)
    /\ s.pc = "commit" /\ s.newRole => s.newTenant \/ s.who.org \notin role

(* The unique keys of the rows, and the rows that go with them.            *)
KeysHold ==
    /\ role \subseteq tenant
    /\ \A u \in People!Users : /\ user[u].status = "none" => user[u].person = None
                               /\ user[u].status # "none" => user[u].org \in tenant
    /\ \A u, v \in People!Users : user[u].person # None /\ user[u].person = user[v].person => u = v
    /\ \A u, v \in People!Users :
          user[u].status # "none" /\ user[v].status # "none" /\ user[u].org = user[v].org
             /\ user[u].email = user[v].email => u = v

Apart == alone => /\ \A p, q \in Slots : slot[p].pc # "idle" /\ slot[q].pc # "idle" => p = q
                  /\ \A p \in Slots : Found(slot[p])

AloneInv == KeysHold /\ Apart

LEMMA InitApart ==
    ASSUME People!ProvisioningAssumption, People!Init
    PROVE  AloneInv
<1>1. KeysHold
  BY DEF KeysHold, People!Init, People!Vacant
<1>2. \A p \in Slots : slot[p].pc = "idle"
  BY DEF People!Init, People!Free
<1>3. Apart
  BY <1>2 DEF Apart, Found
<1>4. QED
  BY <1>1, <1>3 DEF AloneInv

LEMMA FoundStays ==
    ASSUME UNCHANGED <<tenant, user, role>>, NEW s
    PROVE  Found(s)' <=> Found(s)
BY DEF Found, People!Found, People!Matches

(* A step of one request that leaves the rows as they are.                 *)
LEMMA SlotApart ==
    ASSUME People!ProvisioningAssumption, OwnInv, AloneInv, NEW p \in Slots, NEW new,
           slot' = [slot EXCEPT ![p] = new], UNCHANGED <<tenant, user, role>>, alone' => alone,
           alone' /\ new.pc # "idle" => Found(new) /\ \A q \in Slots \ {p} : slot[q].pc = "idle"
    PROVE  AloneInv'
<1>1. \A q \in Slots : slot'[q] = IF q = p THEN new ELSE slot[q]
  BY DEF OwnInv, People!TypeOK
<1>2. KeysHold'
  BY DEF AloneInv, KeysHold
<1>3. ASSUME alone', NEW q \in Slots PROVE Found(slot[q])'
  <2>1. PICK m : m = slot'[q]
    OBVIOUS
  <2>2. Found(m)
    <3>1. CASE q # p
      BY <1>1, <1>3, <2>1, <3>1 DEF AloneInv, Apart
    <3>2. CASE q = p /\ new.pc # "idle"
      BY <1>1, <1>3, <2>1, <3>2
    <3>3. CASE q = p /\ new.pc = "idle"
      BY <1>1, <2>1, <3>3 DEF Found
    <3>4. QED
      BY <3>1, <3>2, <3>3
  <2>3. Found(m)'
    BY <2>2, FoundStays
  <2>4. QED
    BY <2>1, <2>3 DEF Found
<1>4. ASSUME alone', NEW q \in Slots, NEW r \in Slots, slot'[q].pc # "idle", slot'[r].pc # "idle"
      PROVE  q = r
  BY <1>1, <1>4 DEF AloneInv, Apart
<1>5. QED
  BY <1>2, <1>3, <1>4 DEF AloneInv, Apart

(* A call that is answered at once.                                        *)
LEMMA CallApart ==
    ASSUME People!Receive, UNCHANGED slot, KeysHold'
    PROVE  AloneInv'
<1>1. alone' => \A q \in Slots : slot'[q].pc = "idle"
  BY DEF People!Receive
<1>2. Apart'
  BY <1>1 DEF Apart, Found
<1>3. QED
  BY <1>2 DEF AloneInv

LEMMA FindUserApart ==
    ASSUME People!ProvisioningAssumption, OwnInv, AloneInv, NEW p \in Slots, NEW who \in Identities,
           NEW where \in SUBSET Branches, People!FindUser(p, who, where)
    PROVE  AloneInv'
<1>1. PICK u \in People!Users \cup {People!NoUser}, new \in BOOLEAN, synced \in BOOLEAN,
           pc \in {"role", "sync"} :
         /\ u # People!NoUser => u \in People!Found(who)
         /\ u = People!NoUser => who.org \notin tenant \/ People!Found(who) = {}
         /\ new <=> who.org \notin tenant
         /\ synced <=> (u = People!NoUser \/ People!Synced(u, who))
         /\ pc = "role" <=> synced
         /\ slot' = [slot EXCEPT ![p] = Looked(who, where, u, new, synced, pc)]
  BY FoundSlot, Zenon
<1>2. UNCHANGED <<tenant, user, role>> /\ (alone' => alone /\ \A q \in Slots : slot[q].pc = "idle")
  BY DEF People!FindUser, People!Receive, People!tables
<1>3. PICK s : s = Looked(who, where, u, new, synced, pc)
  OBVIOUS
<1>4. Found(s)
  BY <1>1, <1>3 DEF Looked, Found
<1>5. QED
  BY <1>1, <1>2, <1>3, <1>4, SlotApart

LEMMA SyncUserApart ==
    ASSUME People!ProvisioningAssumption, OwnInv, AloneInv, NEW p \in Slots, People!SyncUser(p)
    PROVE  AloneInv'
<1>1. slot[p] \in SlotRow /\ slot[p].pc = "sync"
  BY DEF OwnInv, People!TypeOK, SlotRow, People!SyncUser
<1>2. PICK new : new = [slot[p] EXCEPT !.pc = "role"]
  OBVIOUS
<1>3. slot' = [slot EXCEPT ![p] = new] /\ UNCHANGED <<tenant, user, role, alone>>
  BY <1>2 DEF People!SyncUser, People!history
<1>4. new.pc = "role" /\ new.who = slot[p].who /\ new.user = slot[p].user
      /\ new.newTenant = slot[p].newTenant
  BY <1>1, <1>2 DEF SlotRow
<1>5. ASSUME alone PROVE Found(new) /\ \A q \in Slots \ {p} : slot[q].pc = "idle"
  BY <1>1, <1>4, <1>5 DEF AloneInv, Apart, Found
<1>6. QED
  BY <1>3, <1>5, SlotApart

LEMMA FindRoleApart ==
    ASSUME People!ProvisioningAssumption, OwnInv, AloneInv, NEW p \in Slots, People!FindRole(p)
    PROVE  AloneInv'
<1>1. slot[p] \in SlotRow /\ slot[p].pc = "role"
  BY DEF OwnInv, People!TypeOK, SlotRow, People!FindRole
<1>2. PICK newRole \in BOOLEAN, assign \in BOOLEAN :
         newRole = (slot[p].newTenant \/ slot[p].who.org \notin role) /\ assign = People!Unowned(p)
  BY Zenon DEF People!Unowned
<1>3. PICK new : new = [slot[p] EXCEPT !.pc = "commit", !.newRole = newRole, !.assign = assign]
  OBVIOUS
<1>4. slot' = [slot EXCEPT ![p] = new] /\ UNCHANGED <<tenant, user, role, alone>>
  BY <1>2, <1>3, Zenon DEF People!FindRole, People!history, People!tables
<1>5. new.pc = "commit" /\ new.who = slot[p].who /\ new.user = slot[p].user
      /\ new.newTenant = slot[p].newTenant /\ new.newRole = newRole
  BY <1>1, <1>3 DEF SlotRow
<1>6. newRole => slot[p].newTenant \/ slot[p].who.org \notin role
  BY <1>2, Zenon
<1>7. ASSUME alone PROVE Found(new) /\ \A q \in Slots \ {p} : slot[q].pc = "idle"
  BY <1>1, <1>5, <1>6, <1>7 DEF AloneInv, Apart, Found
<1>8. QED
  BY <1>4, <1>7, SlotApart

LEMMA FinishApart ==
    ASSUME People!ProvisioningAssumption, OwnInv, AloneInv, NEW p \in Slots, People!Finish(p),
           UNCHANGED <<tenant, user, role, People!history>>
    PROVE  AloneInv'
BY FreeSlot, SlotApart DEF People!Finish, People!history

LEMMA CommitApart ==
    ASSUME People!ProvisioningAssumption, OwnInv, AloneInv, NEW p \in Slots, NEW u \in People!Users,
           People!Commit(p, u)
    PROVE  AloneInv'
<1> DEFINE s == slot[p]
           made == [status |-> "ACTIVE", org |-> s.who.org, person |-> s.who.person,
                    email |-> s.who.email]
<1>1. s \in SlotRow /\ s.pc = "commit" /\ s.who \in Identities /\ People!Keeps(p, u)
  BY DEF OwnInv, People!TypeOK, SlotRow, People!Commit, SlotOK
<1>2. s.who.person # None
  BY <1>1 DEF People!People, People!ProvisioningAssumption
<1>3. /\ tenant' = tenant \cup {s.who.org} /\ role' = role \cup {s.who.org}
      /\ user' = IF s.synced /\ s.user # People!NoUser THEN user ELSE [user EXCEPT ![u] = made]
      /\ slot' = [slot EXCEPT ![p] = [s EXCEPT !.pc = "scope", !.user = u]]
      /\ UNCHANGED alone
  BY DEF People!Commit, People!history
<1>4. KeysHold'
  <2>1. CASE s.synced /\ s.user # People!NoUser
    <3>1. user' = user
      BY <1>3, <2>1
    <3>2. QED
      BY <1>3, <3>1 DEF AloneInv, KeysHold
  <2>2. CASE ~(s.synced /\ s.user # People!NoUser)
    <3>1. \A v \in People!Users : user'[v] = IF v = u THEN made ELSE user[v]
      <4>1. user' = [user EXCEPT ![u] = made]
        BY <1>3, <2>2
      <4>2. QED
        BY <4>1 DEF OwnInv, People!TypeOK
    <3>2. \A v \in People!Users \ {u} : user[v].status = "none" \/
             (user[v].person # s.who.person
                /\ (user[v].org # s.who.org \/ user[v].email # s.who.email))
      BY <1>1, <2>2 DEF People!Keeps
    <3>3. role' \subseteq tenant'
      BY <1>3 DEF AloneInv, KeysHold
    <3>4. ASSUME NEW v \in People!Users
          PROVE  /\ user'[v].status = "none" => user'[v].person = None
                 /\ user'[v].status # "none" => user'[v].org \in tenant'
      BY <1>3, <3>1 DEF AloneInv, KeysHold
    <3>5. ASSUME NEW v \in People!Users \ {u} PROVE user'[v].person # made.person
      BY <1>2, <3>1, <3>2 DEF AloneInv, KeysHold
    <3>6. ASSUME NEW v \in People!Users, NEW w \in People!Users, user'[v].person # None,
                 user'[v].person = user'[w].person
          PROVE  v = w
      BY <3>1, <3>5, <3>6 DEF AloneInv, KeysHold
    <3>7. ASSUME NEW v \in People!Users, NEW w \in People!Users, user'[v].status # "none",
                 user'[w].status # "none", user'[v].org = user'[w].org,
                 user'[v].email = user'[w].email
          PROVE  v = w
      BY <3>1, <3>2, <3>7 DEF AloneInv, KeysHold
    <3>8. QED
      BY <3>3, <3>4, <3>6, <3>7 DEF KeysHold
  <2>3. QED
    BY <2>1, <2>2
<1>5. ASSUME alone PROVE Apart'
  <2>1. PICK new : new = [s EXCEPT !.pc = "scope", !.user = u]
    OBVIOUS
  <2>2. new.pc = "scope"
    BY <1>1, <2>1 DEF SlotRow
  <2>3. \A q \in Slots : slot'[q] = IF q = p THEN new ELSE slot[q]
    BY <1>3, <2>1 DEF OwnInv, People!TypeOK
  <2>4. \A q \in Slots \ {p} : slot'[q].pc = "idle"
    BY <1>1, <1>5, <2>3 DEF AloneInv, Apart
  <2>5. \A q \in Slots : slot'[q].pc \notin {"sync", "role", "commit"}
    BY <2>2, <2>3, <2>4
  <2>6. QED
    BY <2>4, <2>5 DEF Apart, Found
<1>6. QED
  BY <1>3, <1>4, <1>5 DEF AloneInv, Apart

LEMMA CreateUserApart ==
    ASSUME People!ProvisioningAssumption, OwnInv, AloneInv, NEW u \in People!Users,
           NEW org \in People!Orgs, NEW email \in People!Emails,
           NEW status \in {"INVITED", "ACTIVE"}, People!CreateUser(u, org, email, status)
    PROVE  AloneInv'
<1> DEFINE made == [status |-> status, org |-> org, person |-> None, email |-> email]
<1>1. /\ People!Receive /\ org \in tenant
      /\ \A v \in People!Users : user[v].org # org \/ user[v].email # email
      /\ user' = [user EXCEPT ![u] = made]
      /\ UNCHANGED <<tenant, role, slot>>
  BY DEF People!CreateUser
<1>2. \A v \in People!Users : user'[v] = IF v = u THEN made ELSE user[v]
  BY <1>1 DEF OwnInv, People!TypeOK
<1>3. KeysHold'
  <2>1. ASSUME NEW v \in People!Users
        PROVE  /\ user'[v].status = "none" => user'[v].person = None
               /\ user'[v].status # "none" => user'[v].org \in tenant'
    BY <1>1, <1>2 DEF AloneInv, KeysHold
  <2>2. ASSUME NEW v \in People!Users, NEW w \in People!Users, user'[v].person # None,
               user'[v].person = user'[w].person
        PROVE  v = w
    BY <1>2, <2>2 DEF AloneInv, KeysHold
  <2>3. ASSUME NEW v \in People!Users, NEW w \in People!Users, user'[v].status # "none",
               user'[w].status # "none", user'[v].org = user'[w].org,
               user'[v].email = user'[w].email
        PROVE  v = w
    BY <1>1, <1>2, <2>3 DEF AloneInv, KeysHold
  <2>4. role' \subseteq tenant'
    BY <1>1 DEF AloneInv, KeysHold
  <2>5. QED
    BY <2>1, <2>2, <2>3, <2>4 DEF KeysHold
<1>4. QED
  BY <1>1, <1>3, CallApart

LEMMA StepApart ==
    ASSUME People!ProvisioningAssumption, OwnInv, AloneInv, [People!Next]_People!vars
    PROVE  AloneInv'
<1>1. CASE UNCHANGED People!vars
  <2>1. UNCHANGED <<tenant, user, role, slot, alone>>
    BY <1>1 DEF People!vars, People!tables, People!history
  <2>2. QED
    BY <2>1 DEF AloneInv, KeysHold, Apart, Found, People!Found, People!Matches
<1>2. ASSUME NEW p \in Slots,
             People!GoOnWithout(p) \/ People!Fail(p) \/ People!Serve(p) \/ People!Refuse(p)
      PROVE  AloneInv'
  <2>1. People!Finish(p) /\ UNCHANGED <<tenant, user, role, People!history>>
    BY <1>2 DEF People!GoOnWithout, People!Fail, People!Serve, People!Refuse, People!tables
  <2>2. QED
    BY <2>1, FinishApart
<1>3. ASSUME NEW u \in People!Users, People!Assign(u) PROVE AloneInv'
  <2>1. People!Receive /\ UNCHANGED <<tenant, user, role, slot>>
    BY <1>3 DEF People!Assign
  <2>2. KeysHold'
    BY <2>1 DEF AloneInv, KeysHold
  <2>3. QED
    BY <2>1, <2>2, CallApart
<1>4. ASSUME NEW l \in Branches, People!Deactivate(l) PROVE AloneInv'
  <2>1. People!Receive /\ UNCHANGED <<tenant, user, role, slot>>
    BY <1>4 DEF People!Deactivate
  <2>2. KeysHold'
    BY <2>1 DEF AloneInv, KeysHold
  <2>3. QED
    BY <2>1, <2>2, CallApart
<1>5. QED
  BY <1>1, <1>2, <1>3, <1>4, FindUserApart, SyncUserApart, FindRoleApart, CommitApart,
     CreateUserApart DEF People!Next

(* provisioning: a request that no other overlaps goes on without its      *)
(* identity only when the person has a row in another tenant, or when the  *)
(* securityUserId and the email are in two rows of its own.                *)
LEMMA StepServesAlone ==
    ASSUME People!ProvisioningAssumption, OwnInv, AloneInv, [People!Next]_People!vars
    PROVE  People!ServesAlone
<1> SUFFICES ASSUME NEW p \in Slots, alone, People!GoOnWithout(p)
             PROVE  \/ \E u \in People!Users : user[u].person = slot[p].who.person
                                               /\ user[u].org # slot[p].who.org
                    \/ \E u, v \in People!Users : u # v /\ user[u].person = slot[p].who.person
                               /\ user[v].org = slot[p].who.org /\ user[v].email = slot[p].who.email
  BY DEF People!ServesAlone
<1> DEFINE s == slot[p]
           who == slot[p].who
<1>1. s \in SlotRow /\ s.pc = "commit" /\ who \in Identities /\ Found(s)
  BY DEF OwnInv, People!TypeOK, SlotRow, People!GoOnWithout, SlotOK, AloneInv, Apart
<1>2. who.person # None
  BY <1>1 DEF People!People, People!ProvisioningAssumption
<1>3. PICK u \in People!Users : People!Row(p, u) /\ ~People!Keeps(p, u)
  BY DEF People!GoOnWithout
<1>4. s.newTenant => who.org \notin tenant
  BY <1>1 DEF Found
<1>5. s.newRole => who.org \notin role
  BY <1>1, <1>4 DEF Found, AloneInv, KeysHold
<1>6. PICK v \in People!Users \ {u} :
         /\ user[v].status # "none"
         /\ \/ user[v].person = who.person
            \/ user[v].org = who.org /\ user[v].email = who.email
  BY <1>3, <1>4, <1>5 DEF People!Keeps
<1>7. CASE user[v].org # who.org
  BY <1>6, <1>7
<1>8. CASE user[v].org = who.org
  <2>1. who.org \in tenant /\ v \in People!Found(who)
    BY <1>6, <1>8 DEF AloneInv, KeysHold, People!Found, People!Matches
  <2>2. s.user # People!NoUser /\ s.user \in People!Found(who)
    BY <1>1, <2>1 DEF Found
  <2>3. s.user = u
    BY <1>3, <2>2 DEF People!Row
  <2>4. user[u].status # "none" /\ user[u].org = who.org
        /\ (user[u].person = who.person \/ user[u].email = who.email)
    BY <2>2, <2>3 DEF People!Found, People!Matches
  <2>5. CASE user[v].person = who.person
    <3>1. user[u].person # who.person
      BY <1>2, <1>6, <2>5 DEF AloneInv, KeysHold
    <3>2. QED
      BY <1>6, <2>4, <2>5, <3>1
  <2>6. CASE user[v].person # who.person
    <3>1. user[v].email = who.email
      BY <1>6, <2>6
    <3>2. user[u].email # who.email
      BY <1>6, <1>8, <2>4, <3>1 DEF AloneInv, KeysHold
    <3>3. QED
      BY <1>6, <1>8, <2>4, <3>1, <3>2
  <2>7. QED
    BY <2>5, <2>6
<1>9. QED
  BY <1>7, <1>8

-----------------------------------------------------------------------------
(***************************************************************************)
(* Items while no two transactions overlap: the item and the lot that an   *)
(* import found, and the links that a removal found, are so when it        *)
(* commits.                                                                *)
(***************************************************************************)
Looking(r) == r.pc \in {"lot", "commit"}
Sure(r) == LET read == r.file[r.row] IN
    /\ Looking(r) /\ r.seen # Import!Absent => item[read.name].status = "live"
    /\ r.pc = "commit" => (r.lot <=> Import!HasLot(read))
LinksKnown == rem.pc = "remove" => rem.links = {v \in LinkedVariants : link[v] = rem.name}

OneAtOnce ==
    /\ rem.pc # "idle" => \A j \in Slots : ~Looking(run[j])
    /\ \A j, q \in Slots : Looking(run[j]) /\ Looking(run[q]) => j = q
    /\ \A j \in Slots : Sure(run[j])
    /\ LinksKnown

ItemInv == /\ calm => OneAtOnce
           /\ Import!OneLotPerBatch
           /\ Import!NoLinkToDeleted

LEMMA InitStocks ==
    ASSUME Import!ImportAssumption, Import!Init
    PROVE  ItemInv
<1>1. rem.pc = "idle" /\ \A j \in Slots : run[j].pc = "idle"
  BY DEF Import!Init, Import!NoRem, Import!NoRun
<1>2. OneAtOnce
  BY <1>1 DEF OneAtOnce, Sure, Looking, LinksKnown
<1>3. Import!OneLotPerBatch /\ Import!NoLinkToDeleted
  BY DEF Import!OneLotPerBatch, Import!NoLinkToDeleted, Import!Init
<1>4. QED
  BY <1>2, <1>3 DEF ItemInv

LEMMA SureStays ==
    ASSUME UNCHANGED <<item, lots>>, NEW r
    PROVE  Sure(r)' <=> Sure(r)
BY DEF Sure, Import!HasLot

LEMMA NoneLooks ==
    ASSUME rem'.pc = "idle", \A j \in Slots : ~Looking(run'[j])
    PROVE  OneAtOnce'
BY DEF OneAtOnce, Sure, Looking, LinksKnown

(* A step that changes what one import has in memory, and no row.          *)
LEMMA RunStocks ==
    ASSUME Import!ImportAssumption, ImportInv, ItemInv, NEW j \in Slots, NEW new,
           run' = [run EXCEPT ![j] = new], UNCHANGED <<item, lots, link, rem, late>>,
           calm' => calm,
           calm' /\ Looking(new) => /\ rem.pc = "idle" /\ \A q \in Slots \ {j} : ~Looking(run[q])
                                    /\ Sure(new)
    PROVE  ItemInv'
<1>1. \A q \in Slots : run'[q] = IF q = j THEN new ELSE run[q]
  BY DEF ImportInv, Import!TypeOK
<1>2. Import!OneLotPerBatch' /\ Import!NoLinkToDeleted'
  BY DEF ItemInv, Import!OneLotPerBatch, Import!NoLinkToDeleted
<1>3. ASSUME calm' PROVE OneAtOnce'
  <2>1. OneAtOnce
    BY <1>3 DEF ItemInv
  <2>2. ASSUME NEW q \in Slots PROVE Sure(run[q])'
    <3>1. PICK m : m = run'[q]
      OBVIOUS
    <3>2. Sure(m)
      <4>1. CASE q # j
        BY <1>1, <2>1, <3>1, <4>1 DEF OneAtOnce
      <4>2. CASE q = j /\ Looking(new)
        BY <1>1, <1>3, <3>1, <4>2
      <4>3. CASE q = j /\ ~Looking(new)
        BY <1>1, <3>1, <4>3 DEF Sure, Looking
      <4>4. QED
        BY <4>1, <4>2, <4>3
    <3>3. Sure(m)'
      BY <3>2, SureStays
    <3>4. QED
      BY <3>1, <3>3 DEF Sure, Looking
  <2>3. LinksKnown'
    BY <2>1 DEF OneAtOnce, LinksKnown
  <2>4. rem'.pc # "idle" => \A q \in Slots : ~Looking(run'[q])
    BY <1>1, <1>3, <2>1 DEF OneAtOnce
  <2>5. \A p, q \in Slots : Looking(run'[p]) /\ Looking(run'[q]) => p = q
    BY <1>1, <1>3, <2>1 DEF OneAtOnce
  <2>6. QED
    BY <2>2, <2>3, <2>4, <2>5 DEF OneAtOnce
<1>4. QED
  BY <1>2, <1>3 DEF ItemInv

(* An import that starts, ends or passes a row looks at nothing.           *)
LEMMA PassesStock ==
    ASSUME Import!ImportAssumption, ImportInv, ItemInv, NEW j \in Slots,
           \/ \E file \in ItemFiles, goOn \in BOOLEAN : Import!StartImport(j, file, goOn)
           \/ Import!RowFails(j) \/ Import!FinishImport(j)
    PROVE  ItemInv'
<1>1. UNCHANGED <<item, lots, link, rem, late, calm>>
  BY DEF Import!StartImport, Import!RowFails, Import!FinishImport, Import!tables, Import!history
<1>2. ASSUME NEW file \in ItemFiles, NEW goOn \in BOOLEAN, Import!StartImport(j, file, goOn)
      PROVE  ItemInv'
  <2>1. PICK new : new = [Import!NoRun EXCEPT !.pc = "row", !.file = file, !.goOn = goOn]
    OBVIOUS
  <2>2. new.pc = "row"
    BY <2>1 DEF Import!NoRun
  <2>3. run' = [run EXCEPT ![j] = new] /\ ~Looking(new)
    BY <1>2, <2>1, <2>2 DEF Import!StartImport, Looking
  <2>4. QED
    BY <1>1, <2>3, RunStocks
<1>3. CASE Import!RowFails(j)
  <2>1. PICK new : new = Import!Passed(j, Import!Erred(j))
    OBVIOUS
  <2>2. run[j].pc # "idle" /\ run[j] \in RunRow
    BY <1>3, RunTyped DEF Import!RowFails
  <2>3. new.pc = "row"
    BY <2>1, <2>2, ErredIs, PassedTyped
  <2>4. run' = [run EXCEPT ![j] = new] /\ ~Looking(new)
    BY <1>3, <2>1, <2>3 DEF Import!RowFails, Looking
  <2>5. QED
    BY <1>1, <2>4, RunStocks
<1>4. CASE Import!FinishImport(j)
  <2>1. Import!NoRun.pc = "idle"
    BY DEF Import!NoRun
  <2>2. run' = [run EXCEPT ![j] = Import!NoRun] /\ ~Looking(Import!NoRun)
    BY <1>4, <2>1 DEF Import!FinishImport, Looking
  <2>3. QED
    BY <1>1, <2>2, RunStocks
<1>5. QED
  BY <1>2, <1>3, <1>4

LEMMA FindItemStocks ==
    ASSUME Import!ImportAssumption, ImportInv, ItemInv, NEW j \in Slots, Import!FindItem(j)
    PROVE  ItemInv'
<1>1. run[j].pc = "row" /\ run[j] \in RunRow /\ Import!RowOf(j) \in Import!Row
      /\ UNCHANGED <<item, lots, link, rem, late>>
  BY RunTyped DEF Import!FindItem, Import!tables
<1>2. calm' => calm /\ ~Import!Busy
  BY Zenon DEF Import!FindItem
<1>3. CASE Import!Refused(Import!RowOf(j))
  <2>1. PICK new : new = Import!Passed(j, Import!Erred(j))
    OBVIOUS
  <2>2. new.pc = "row"
    BY <1>1, <2>1, ErredIs, PassedTyped
  <2>3. run' = [run EXCEPT ![j] = new] /\ ~Looking(new)
    BY <1>3, <2>1, <2>2 DEF Import!FindItem, Looking
  <2>4. QED
    BY <1>1, <1>2, <2>3, RunStocks
<1>4. CASE ~Import!Refused(Import!RowOf(j))
  <2>1. PICK new : new = [run[j] EXCEPT !.pc = "lot", !.seen = Import!Seen(Import!RowOf(j))]
    OBVIOUS
  <2>2. new.pc = "lot" /\ new.file = run[j].file /\ new.row = run[j].row
        /\ new.seen = Import!Seen(Import!RowOf(j))
    BY <1>1, <2>1 DEF RunRow
  <2>3. run' = [run EXCEPT ![j] = new]
    BY <1>4, <2>1 DEF Import!FindItem
  <2>4. Sure(new)
    BY <2>2 DEF Sure, Import!Seen, Import!RowOf
  <2>5. ~Import!Busy => rem.pc = "idle" /\ \A q \in Slots \ {j} : ~Looking(run[q])
    BY DEF Import!Busy, Looking
  <2>6. QED
    BY <1>1, <1>2, <2>3, <2>4, <2>5, RunStocks
<1>5. QED
  BY <1>3, <1>4

LEMMA FindLotStocks ==
    ASSUME Import!ImportAssumption, ImportInv, ItemInv, NEW j \in Slots, Import!FindLot(j)
    PROVE  ItemInv'
<1>1. run[j].pc = "lot" /\ run[j] \in RunRow /\ UNCHANGED <<item, lots, link, rem, late, calm>>
  BY RunTyped DEF Import!FindLot, Import!tables, Import!history
<1>2. PICK b \in BOOLEAN : b = Import!HasLot(Import!RowOf(j))
  BY Zenon DEF Import!HasLot
<1>3. PICK new : new = [run[j] EXCEPT !.pc = "commit", !.lot = b]
  OBVIOUS
<1>4. new.pc = "commit" /\ new.file = run[j].file /\ new.row = run[j].row
      /\ new.seen = run[j].seen /\ new.lot = b
  BY <1>1, <1>3 DEF RunRow
<1>5. run' = [run EXCEPT ![j] = new]
  BY <1>2, <1>3, Zenon DEF Import!FindLot
<1>6. b <=> Import!HasLot(run[j].file[run[j].row])
  BY <1>2, Zenon DEF Import!RowOf
<1>7. ASSUME calm
      PROVE  Sure(new) /\ rem.pc = "idle" /\ \A q \in Slots \ {j} : ~Looking(run[q])
  <2>1. Looking(run[j]) /\ OneAtOnce
    BY <1>1, <1>7 DEF Looking, ItemInv
  <2>2. rem.pc = "idle" /\ (\A q \in Slots \ {j} : ~Looking(run[q])) /\ Sure(run[j])
    BY <2>1 DEF OneAtOnce
  <2>3. Sure(new)
    BY <1>4, <1>6, <2>1, <2>2 DEF Sure
  <2>4. QED
    BY <2>2, <2>3
<1>8. QED
  BY <1>1, <1>5, <1>7, RunStocks

LEMMA CommitStocks ==
    ASSUME Import!ImportAssumption, ImportInv, ItemInv, NEW j \in Slots, NEW answered \in BOOLEAN,
           Import!CommitRow(j, answered)
    PROVE  /\ ItemInv'
           /\ calm => item'[Import!RowOf(j).name].status = "live"
<1>1. /\ run[j].pc = "commit" /\ run[j] \in RunRow /\ Import!RowOf(j) \in Import!Row
      /\ UNCHANGED <<link, rem, late, calm>>
  BY RunTyped DEF Import!CommitRow, ImportInv, JobOK, Running
<1>2. PICK read : read = Import!RowOf(j)
  OBVIOUS
<1>3. read.name \in ItemNames /\ read.batch \in BatchNumbers \cup {None} /\ read = run[j].file[run[j].row]
  BY <1>1, <1>2 DEF Import!Row, Import!RowOf
<1>4. PICK new : new = Import!Passed(j, IF answered THEN Import!Imported(j) ELSE Import!Erred(j))
  OBVIOUS
<1>5. run' = [run EXCEPT ![j] = new]
  BY <1>4 DEF Import!CommitRow
<1>6. ~Looking(new)
  <2>1. (IF answered THEN Import!Imported(j) ELSE Import!Erred(j)) \in Import!Counts
    BY <1>1, ImportedIs, ErredIs
  <2>2. new.pc = "row"
    BY <1>1, <1>4, <2>1, PassedTyped
  <2>3. QED
    BY <2>2 DEF Looking
<1>7. ASSUME calm PROVE OneAtOnce'
  <2>1. OneAtOnce /\ Looking(run[j])
    BY <1>1, <1>7 DEF ItemInv, Looking
  <2>2. rem'.pc = "idle" /\ \A q \in Slots \ {j} : ~Looking(run[q])
    BY <1>1, <2>1 DEF OneAtOnce
  <2>3. \A q \in Slots : ~Looking(run'[q])
    BY <1>5, <1>6, <2>2 DEF ImportInv, Import!TypeOK
  <2>4. QED
    BY <2>2, <2>3, NoneLooks
<1>8. PICK s, t : item' = [item EXCEPT ![read.name] = [status |-> s, terms |-> t]]
                  /\ s = IF run[j].seen = Import!Absent THEN "live" ELSE item[read.name].status
  BY <1>2 DEF Import!CommitRow
<1>9. /\ item'[read.name].status = s
      /\ \A n \in ItemNames : n # read.name => item'[n] = item[n]
  BY <1>3, <1>8 DEF ImportInv, Import!TypeOK
<1>10. ASSUME calm PROVE s = "live" /\ Sure(run[j])
  <2>1. Sure(run[j]) /\ Looking(run[j])
    BY <1>1, <1>10 DEF ItemInv, OneAtOnce, Looking
  <2>2. QED
    BY <1>3, <1>8, <2>1 DEF Sure
<1>11. ASSUME calm, NEW n \in ItemNames, NEW b \in BatchNumbers PROVE lots'[n][b] <= 1
  <2>1. lots[n][b] \in Nat /\ lots[n][b] <= 1
    BY <1>11 DEF ItemInv, Import!OneLotPerBatch, ImportInv, Import!TypeOK
  <2>2. CASE read.qty > 0 /\ read.batch # None /\ ~run[j].lot
    <3>1. lots' = [lots EXCEPT ![read.name] =
                     [lots[read.name] EXCEPT ![read.batch] = lots[read.name][read.batch] + 1]]
      BY <1>2, <2>2 DEF Import!CommitRow
    <3>2. read.batch \in BatchNumbers /\ lots[read.name][read.batch] \in Nat
      BY <1>3, <2>2 DEF ImportInv, Import!TypeOK
    <3>3. ~(lots[read.name][read.batch] > 0)
      BY <1>1, <1>3, <1>10, <1>11, <2>2 DEF Sure, Import!HasLot
    <3>4. lots[read.name][read.batch] = 0
      BY <3>2, <3>3
    <3>5. lots'[n][b] = IF n = read.name /\ b = read.batch THEN lots[n][b] + 1 ELSE lots[n][b]
      BY <1>3, <3>1, <3>2 DEF ImportInv, Import!TypeOK
    <3>6. QED
      BY <2>1, <3>4, <3>5
  <2>3. CASE ~(read.qty > 0 /\ read.batch # None /\ ~run[j].lot)
    <3>1. lots' = lots
      BY <1>2, <2>3 DEF Import!CommitRow
    <3>2. QED
      BY <2>1, <3>1
  <2>4. QED
    BY <2>2, <2>3
<1>12. ASSUME calm, NEW v \in LinkedVariants \ late, link[v] # None
       PROVE  item'[link[v]].status = "live"
  <2>1. link[v] \in ItemNames /\ item[link[v]].status = "live"
    BY <1>12 DEF ItemInv, Import!NoLinkToDeleted, ImportInv, Import!TypeOK
  <2>2. QED
    BY <1>9, <1>10, <1>12, <2>1
<1>13. Import!OneLotPerBatch' /\ Import!NoLinkToDeleted'
  BY <1>1, <1>11, <1>12 DEF Import!OneLotPerBatch, Import!NoLinkToDeleted
<1>14. calm => item'[Import!RowOf(j).name].status = "live"
  BY <1>2, <1>9, <1>10
<1>15. QED
  BY <1>1, <1>7, <1>13, <1>14 DEF ItemInv

LEMMA CrashStocks ==
    ASSUME Import!ImportAssumption, ImportInv, ItemInv, Import!Crash
    PROVE  ItemInv'
<1>1. /\ run' = [q \in Slots |-> Import!NoRun] /\ rem' = Import!NoRem
      /\ UNCHANGED <<item, lots, link, late, calm>>
  BY DEF Import!Crash, Import!tables, Import!history
<1>2. rem'.pc = "idle" /\ \A q \in Slots : ~Looking(run'[q])
  BY <1>1 DEF Import!NoRun, Import!NoRem, Looking
<1>3. Import!OneLotPerBatch' /\ Import!NoLinkToDeleted'
  BY <1>1 DEF ItemInv, Import!OneLotPerBatch, Import!NoLinkToDeleted
<1>4. QED
  BY <1>2, <1>3, NoneLooks DEF ItemInv

LEMMA LinkStocks ==
    ASSUME Import!ImportAssumption, ImportInv, ItemInv, NEW v \in LinkedVariants,
           NEW n \in ItemNames, Import!Link(v, n)
    PROVE  ItemInv'
<1>1. /\ item[n].status # "none" /\ link' = [link EXCEPT ![v] = n]
      /\ late' = IF item[n].status = "deleted" THEN late \cup {v} ELSE late
      /\ UNCHANGED <<item, lots, run, rem>>
  BY DEF Import!Link, Import!local
<1>2. calm' => calm /\ ~Import!Busy
  BY Zenon DEF Import!Link
<1>3. ASSUME calm' PROVE OneAtOnce'
  <2>1. rem'.pc = "idle" /\ \A q \in Slots : ~Looking(run'[q])
    BY <1>1, <1>2, <1>3 DEF Import!Busy, Looking
  <2>2. QED
    BY <2>1, NoneLooks
<1>4. item[n].status = "deleted" \/ item[n].status = "live"
  BY <1>1 DEF ImportInv, Import!TypeOK, Import!ItemRow
<1>5. ASSUME calm', NEW w \in LinkedVariants \ late', link'[w] # None
      PROVE  item[link'[w]].status = "live"
  <2>1. link'[w] = IF w = v THEN n ELSE link[w]
    BY <1>1 DEF ImportInv, Import!TypeOK
  <2>2. late \subseteq late' /\ (item[n].status = "deleted" => v \in late')
    BY <1>1
  <2>3. CASE w = v
    BY <1>4, <1>5, <2>1, <2>2, <2>3
  <2>4. CASE w # v
    BY <1>2, <1>5, <2>1, <2>2, <2>4 DEF ItemInv, Import!NoLinkToDeleted
  <2>5. QED
    BY <2>3, <2>4
<1>6. Import!OneLotPerBatch' /\ Import!NoLinkToDeleted'
  BY <1>1, <1>2, <1>5 DEF ItemInv, Import!OneLotPerBatch, Import!NoLinkToDeleted
<1>7. QED
  BY <1>3, <1>6 DEF ItemInv

LEMMA FindRemovedStocks ==
    ASSUME Import!ImportAssumption, ImportInv, ItemInv, NEW n \in ItemNames, Import!FindRemoved(n)
    PROVE  ItemInv'
<1>1. /\ rem' = [pc |-> "remove", name |-> n, links |-> {v \in LinkedVariants : link[v] = n}]
      /\ UNCHANGED <<item, lots, link, run, late>>
  BY DEF Import!FindRemoved, Import!tables
<1>2. calm' => calm /\ ~Import!Busy
  BY Zenon DEF Import!FindRemoved
<1>3. ASSUME calm' PROVE OneAtOnce'
  <2>1. \A q \in Slots : ~Looking(run'[q])
    BY <1>1, <1>2, <1>3 DEF Import!Busy, Looking
  <2>2. \A q \in Slots : Sure(run[q])'
    BY <2>1 DEF Sure, Looking
  <2>3. LinksKnown'
    BY <1>1 DEF LinksKnown
  <2>4. QED
    BY <2>1, <2>2, <2>3 DEF OneAtOnce
<1>4. Import!OneLotPerBatch' /\ Import!NoLinkToDeleted'
  BY <1>1, <1>2 DEF ItemInv, Import!OneLotPerBatch, Import!NoLinkToDeleted
<1>5. QED
  BY <1>3, <1>4 DEF ItemInv

LEMMA RemovalStocks ==
    ASSUME Import!ImportAssumption, ImportInv, ItemInv, Import!CommitRemoval
    PROVE  ItemInv'
<1>1. /\ rem.pc = "remove" /\ rem' = Import!NoRem
      /\ item' = [item EXCEPT ![rem.name] = [item[rem.name] EXCEPT !.status = "deleted"]]
      /\ link' = [v \in LinkedVariants |-> Import!Unlinked(v)]
      /\ UNCHANGED <<lots, run, late, calm>>
  BY DEF Import!CommitRemoval, Import!history
<1>2. ASSUME calm PROVE OneAtOnce'
  <2>1. rem'.pc = "idle"
    BY <1>1 DEF Import!NoRem
  <2>2. \A q \in Slots : ~Looking(run'[q])
    BY <1>1, <1>2 DEF ItemInv, OneAtOnce
  <2>3. QED
    BY <2>1, <2>2, NoneLooks
<1>3. ASSUME calm, NEW v \in LinkedVariants \ late, link'[v] # None
      PROVE  item'[link'[v]].status = "live"
  <2>1. v \notin rem.links /\ link'[v] = link[v]
    BY <1>1, <1>3 DEF Import!Unlinked
  <2>2. LinksKnown /\ Import!NoLinkToDeleted
    BY <1>3 DEF ItemInv, OneAtOnce
  <2>3. link[v] # rem.name
    BY <1>1, <2>1, <2>2 DEF LinksKnown
  <2>4. link[v] \in ItemNames /\ item[link[v]].status = "live"
    BY <1>3, <2>1, <2>2 DEF Import!NoLinkToDeleted, ImportInv, Import!TypeOK
  <2>5. item'[link[v]] = item[link[v]]
    BY <1>1, <2>3, <2>4 DEF ImportInv, Import!TypeOK
  <2>6. QED
    BY <2>1, <2>4, <2>5
<1>4. Import!OneLotPerBatch' /\ Import!NoLinkToDeleted'
  BY <1>1, <1>3 DEF ItemInv, Import!OneLotPerBatch, Import!NoLinkToDeleted
<1>5. QED
  BY <1>1, <1>2, <1>4 DEF ItemInv

(* inventory-imports.service.ts: with no overlap, a row commits into an    *)
(* item that is live.                                                      *)
LEMMA StepStocks ==
    ASSUME Import!ImportAssumption, ImportInv, ItemInv, [Import!Next]_Import!vars
    PROVE  ItemInv' /\ Import!BooksForLive
<1>1. Import!BooksForLive
  BY CommitStocks DEF Import!BooksForLive
<1>2. ASSUME UNCHANGED Import!vars PROVE ItemInv'
  <2>1. UNCHANGED <<item, lots, link, run, rem, late, calm>>
    BY <1>2 DEF Import!vars, Import!tables, Import!local, Import!history
  <2>2. QED
    BY <2>1 DEF ItemInv, OneAtOnce, Sure, LinksKnown, Looking, Import!HasLot,
       Import!OneLotPerBatch, Import!NoLinkToDeleted
<1>3. ASSUME NEW j \in Slots,
             \/ \E file \in ItemFiles, goOn \in BOOLEAN : Import!StartImport(j, file, goOn)
             \/ Import!FindItem(j) \/ Import!FindLot(j) \/ Import!RowFails(j)
             \/ Import!FinishImport(j)
             \/ \E answered \in BOOLEAN : Import!CommitRow(j, answered)
      PROVE  ItemInv'
  BY <1>3, PassesStock, FindItemStocks, FindLotStocks, CommitStocks
<1>4. ASSUME Import!Next PROVE ItemInv'
  BY <1>3, <1>4, CrashStocks, LinkStocks, FindRemovedStocks, RemovalStocks DEF Import!Next
<1>5. QED
  BY <1>1, <1>2, <1>4

-----------------------------------------------------------------------------
(* Each component in the behaviours in which it runs.                     *)
WP == INSTANCE WasteEventsProofs
              WITH Attempts <- Requests, NoAttempt <- None, NoKey <- None, NoRow <- NoKeyRow,
                   InitialStock <- Shelf, rowLock <- held
BP == INSTANCE ProductionBatchProofs
              WITH Requests <- Slots, NoRequest <- None, Batches <- BatchIds, NoBatch <- None,
                   NoItem <- None, InitialStock <- Bins, rowLock <- held, req <- act

-----------------------------------------------------------------------------
(* A step of a behaviour is a step of the component that runs in it.       *)
LEMMA SameComponent == [AnyNext]_all => which' = which
BY DEF AnyNext, all

LEMMA LedgerRuns == [AnyNext]_all => [SerialNext]_vars
BY DEF AnyNext, OthersStay, all

LEMMA RecipesRun == [AnyNext]_all /\ which = "recipes" => [Recipes!Next]_Recipes!vars
BY DEF AnyNext, all, Recipes!vars

LEMMA MoneyRuns == [AnyNext]_all /\ which = "money" => [Money!Next]_Money!vars
BY DEF AnyNext, all, Money!vars

LEMMA SetupRuns == [AnyNext]_all /\ which = "setup" => [Setup!Next]_Setup!vars
BY DEF AnyNext, all, Setup!vars, Setup!tables, Setup!history

LEMMA DayRuns == [AnyNext]_all /\ which = "day" => [Day!Next]_Day!vars
BY DEF AnyNext, all, Day!vars, Day!tables, Day!history

LEMMA AskingRuns == [AnyNext]_all /\ which = "asking" => [Asking!Next]_Asking!vars
BY DEF AnyNext, all, Asking!vars, Asking!tables, Asking!history

LEMMA ImportRuns == [AnyNext]_all /\ which = "import" => [Import!Next]_Import!vars
BY DEF AnyNext, all, Import!vars, Import!tables, Import!local, Import!history

LEMMA ProductsRun == [AnyNext]_all /\ which = "products" => [Products!Next]_Products!vars
BY DEF AnyNext, all, Products!vars, Products!tables, Products!local, Products!history

LEMMA PeopleRun == [AnyNext]_all /\ which = "people" => [People!Next]_People!vars
BY DEF AnyNext, all, People!vars, People!tables, People!history

LEMMA MirrorRuns == [AnyNext]_all /\ which = "mirror" => [Mirror!Next]_Mirror!vars
BY DEF AnyNext, all, Mirror!vars

LEMMA WasteRuns == [AnyNext]_all /\ which = "waste" => [Waste!SerialNext]_Waste!vars
BY DEF AnyNext, all, Waste!vars, Waste!ledger, Waste!events

LEMMA BatchesRun == [AnyNext]_all /\ which = "batches" => [Production!SerialNext]_Production!vars
BY DEF AnyNext, all, Production!vars, Production!tables, Production!ledger, Production!local

LEMMA Starts ==
    AnyInit => /\ Init
               /\ which = "recipes"  => Recipes!Init
               /\ which = "money"    => Money!Init
               /\ which = "setup"    => Setup!Init
               /\ which = "day"      => Day!Init
               /\ which = "asking"   => Asking!Init
               /\ which = "import"   => Import!Init
               /\ which = "products" => Products!Init
               /\ which = "people"   => People!Init
               /\ which = "mirror"   => Mirror!Init
               /\ which = "waste"    => Waste!Init
               /\ which = "batches"  => Production!Init
BY DEF AnyInit

-----------------------------------------------------------------------------
(* Recipes: one active recipe of a variant, one list of a recipe.          *)
LEMMA RecipesHold == AnySpec => [](which = "recipes" => BookInv)
<1>1. AnyInit => (which = "recipes" => BookInv)
  BY Starts, Assumptions, InitBooks
<1>2. (which = "recipes" => BookInv) /\ [AnyNext]_all => (which = "recipes" => BookInv)'
  BY SameComponent, RecipesRun, Assumptions, StepBooks
<1>3. QED
  BY <1>1, <1>2, PTL DEF AnySpec

(* recipes.service.ts: the updateMany of an activation leaves a variant    *)
(* with one active recipe, and a recipe with one list of components,       *)
(* unless an update or a creation overlaps it.                             *)
THEOREM RecipesAreConsistent == AnySpec => []RecipesConsistent
<1>1. (which = "recipes" => BookInv) => RecipesConsistent
  BY InvBooks DEF RecipesConsistent
<1>2. QED
  BY <1>1, RecipesHold, PTL

LEMMA MoneyHolds == AnySpec => [](which = "money" => MoneyInv)
<1>1. AnyInit => (which = "money" => MoneyInv)
  BY Starts, Assumptions, InitMoney
<1>2. (which = "money" => MoneyInv) /\ [AnyNext]_all => (which = "money" => MoneyInv)'
  BY SameComponent, MoneyRuns, Assumptions, StepMoney
<1>3. QED
  BY <1>1, <1>2, PTL DEF AnySpec

(* locations.service.ts: no price entered, and no amount recorded, in one  *)
(* currency counts in another after a change of market.                    *)
THEOREM MoneyStaysInItsCurrency == AnySpec => []MoneyInItsCurrency
<1>1. (which = "money" => MoneyInv) => MoneyInItsCurrency
  BY InvMoney DEF MoneyInItsCurrency
<1>2. QED
  BY <1>1, MoneyHolds, PTL

LEMMA SetupHolds == AnySpec => [](which = "setup" => SetupInv)
<1>1. AnyInit => (which = "setup" => SetupInv)
  BY Starts, Assumptions, InitSets
<1>2. (which = "setup" => SetupInv) /\ [AnyNext]_all => (which = "setup" => SetupInv)'
  BY SameComponent, SetupRuns, Assumptions, StepSets
<1>3. QED
  BY <1>1, <1>2, PTL DEF AnySpec

(* onboarding.service.ts: one primary location, one compliance profile,    *)
(* and a step that completes the onboarding finds what it needs.           *)
THEOREM SetUpIsConsistent == AnySpec => SetupConsistent
<1>1. (which = "setup" => SetupInv) =>
         (which = "setup" => Setup!OnePrimary /\ Setup!OneComplianceProfile)
  BY InvSets
<1>2. (which = "setup" => SetupInv) /\ [AnyNext]_all =>
         [which = "setup" => Setup!CompletesSetUp]_all
  BY SetupRuns, StepCompletes
<1>3. QED
  BY <1>1, <1>2, SetupHolds, PTL DEF AnySpec, SetupConsistent

LEMMA DayHolds == AnySpec => [](which = "day" => CloseInv /\ DayInv)
<1>1. AnyInit => (which = "day" => CloseInv /\ DayInv)
  BY Starts, Assumptions, InitCloses, InitSums
<1>2. (which = "day" => CloseInv /\ DayInv) /\ [AnyNext]_all
        => (which = "day" => CloseInv /\ DayInv)'
  BY SameComponent, DayRuns, Assumptions, StepCloses, StepSums
<1>3. QED
  BY <1>1, <1>2, PTL DEF AnySpec

(* daily-close.service.ts: a row is closed once, unless it was the seeded  *)
(* draft, which two overlapping closings both update.                      *)
THEOREM RowsClosedOnce == AnySpec => []RowClosedOnce
<1>1. (which = "day" => CloseInv /\ DayInv) => RowClosedOnce
  BY DEF RowClosedOnce, CloseInv, Day!RowClosedOnce
<1>2. QED
  BY <1>1, DayHolds, PTL

(* ... and a closing that nothing overlapped writes the sum of the sales   *)
(* of the day and of their costs.                                          *)
THEOREM ClosingsTellTheSales == AnySpec => ClosedWhatWasSold
<1>1. (which = "day" => CloseInv /\ DayInv) /\ [AnyNext]_all
        => [which = "day" => Day!ClosesWhatWasSold]_all
  BY DayRuns, Assumptions, StepClosesTheSold
<1>2. QED
  BY <1>1, DayHolds, PTL DEF AnySpec, ClosedWhatWasSold

LEMMA ImportHolds == AnySpec => [](which = "import" => ImportInv)
<1>1. AnyInit => (which = "import" => ImportInv)
  BY Starts, Assumptions, InitTells
<1>2. (which = "import" => ImportInv) /\ [AnyNext]_all => (which = "import" => ImportInv)'
  BY SameComponent, ImportRuns, Assumptions, StepTells
<1>3. QED
  BY <1>1, <1>2, PTL DEF AnySpec

(* inventory-imports.service.ts: a finished import reports what was        *)
(* committed in its name.                                                  *)
THEOREM JobsTellTheTruth == AnySpec => []JobTellsTruth
<1>1. (which = "import" => ImportInv) => JobTellsTruth
  BY InvTells DEF JobTellsTruth
<1>2. QED
  BY <1>1, ImportHolds, PTL

LEMMA PeopleHold == AnySpec => [](which = "people" => OwnInv)
<1>1. AnyInit => (which = "people" => OwnInv)
  BY Starts, Assumptions, InitOwns
<1>2. (which = "people" => OwnInv) /\ [AnyNext]_all => (which = "people" => OwnInv)'
  BY SameComponent, PeopleRun, Assumptions, StepOwns
<1>3. QED
  BY <1>1, <1>2, PTL DEF AnySpec

(* provisioning: the Owner role is given once, and the rows of a user who  *)
(* can log in are there together, however first requests overlap.          *)
THEOREM PeopleAreConsistent == AnySpec => []PeopleConsistent
<1>1. (which = "people" => OwnInv) => PeopleConsistent
  BY DEF PeopleConsistent, OwnInv
<1>2. QED
  BY <1>1, PeopleHold, PTL

LEMMA MirrorHolds == AnySpec => [](which = "mirror" => MirrorInv)
<1>1. AnyInit => (which = "mirror" => MirrorInv)
  BY Starts, Assumptions, InitMirrors
<1>2. (which = "mirror" => MirrorInv) /\ [AnyNext]_all => (which = "mirror" => MirrorInv)'
  BY SameComponent, MirrorRuns, Assumptions, StepMirrors
<1>3. QED
  BY <1>1, <1>2, PTL DEF AnySpec

(* The mirrored copy at rest is the row, when no write failed or           *)
(* overlapped another.                                                     *)
THEOREM CopiesAreTheRows == AnySpec => []CopiedAtRest
<1>1. (which = "mirror" => MirrorInv) => CopiedAtRest
  BY InvMirrors DEF CopiedAtRest
<1>2. QED
  BY <1>1, MirrorHolds, PTL

-----------------------------------------------------------------------------
(* Wastage and production have proofs of their own, of modules that        *)
(* Components instantiates in the same way.                                *)
LEMMA WasteAssumed == WP!WasteAssumption
<1>1. Waste!IsFiniteSet(Requests) => WP!IsFiniteSet(Requests)
  BY DEF Waste!IsFiniteSet, WP!IsFiniteSet
<1>2. QED
  BY <1>1, Assumptions DEF Waste!WasteAssumption, WP!WasteAssumption, Waste!Events, WP!Events,
     Waste!LotIds, WP!LotIds

LEMMA SameWasteInit == Waste!Init <=> WP!Init
BY DEF Waste!Init, WP!Init, Waste!LotIds, WP!LotIds, Waste!Events,
     WP!Events, Waste!NoEvent, WP!NoEvent, Waste!NewAttempt, WP!NewAttempt

LEMMA SameWasteStep == [Waste!SerialNext]_Waste!vars <=> [WP!SerialNext]_WP!vars
BY DEF Waste!SerialNext, WP!SerialNext, Waste!Arrive, WP!Arrive,
     Waste!Active, WP!Active, Waste!Step, WP!Step, Waste!Fail, WP!Fail,
     Waste!FindKey, WP!FindKey, Waste!InsertKey, WP!InsertKey, Waste!Reread,
     WP!Reread, Waste!Basis, WP!Basis, Waste!ReadEvent, WP!ReadEvent,
     Waste!ReadStock, WP!ReadStock, Waste!WriteStock, WP!WriteStock,
     Waste!Commit, WP!Commit, Waste!EndDeadlock, WP!EndDeadlock, Waste!Goto,
     WP!Goto, Waste!Reply, WP!Reply, Waste!Release, WP!Release,
     Waste!Rollback, WP!Rollback, Waste!Reject, WP!Reject, Waste!Recorded,
     WP!Recorded, Waste!HasKey, WP!HasKey, Waste!Replies, WP!Replies,
     Waste!InsertPending, WP!InsertPending, Waste!InTransaction,
     WP!InTransaction, Waste!Visible, WP!Visible, Waste!Events, WP!Events,
     Waste!LotIds, WP!LotIds, Waste!ledger, WP!ledger, Waste!events,
     WP!events, Waste!vars, WP!vars, Waste!Duplicate, WP!Duplicate,
     Waste!TotalVisible, WP!TotalVisible, Waste!Enough, WP!Enough,
     Waste!Fullest, WP!Fullest, Waste!LedgerLot, WP!LedgerLot,
     Waste!NotYetVoided, WP!NotYetVoided, Waste!Overdraws, WP!Overdraws,
     Waste!Line, WP!Line, Waste!ResponseHash, WP!ResponseHash, Waste!Blocker,
     WP!Blocker, Waste!Deadlocked, WP!Deadlocked

LEMMA SameWasteTypes == Waste!TypeOK <=> WP!TypeOK
BY DEF Waste!TypeOK, WP!TypeOK, Waste!LotIds, WP!LotIds, Waste!Events,
     WP!Events, Waste!Event, WP!Event, Waste!Attempt, WP!Attempt,
     Waste!Response, WP!Response, Waste!Kinds, WP!Kinds, Waste!Steps,
     WP!Steps

LEMMA SameStanding == Waste!StockIsStandingWaste <=> WP!StockIsStandingWaste
BY DEF Waste!StockIsStandingWaste, WP!StockIsStandingWaste, Waste!Standing,
     WP!Standing, Waste!LotIds, WP!LotIds, Waste!Events, WP!Events

LEMMA WasteBehaves == AnySpec => [](which # "waste") \/ ([](which = "waste") /\ WP!SerialSpec)
<1>1. AnyInit /\ which = "waste" => WP!Init
  BY Starts, SameWasteInit
<1>2. [AnyNext]_all /\ which = "waste" => [WP!SerialNext]_WP!vars
  BY WasteRuns, SameWasteStep
<1>3. [AnyNext]_all => ((which = "waste")' <=> which = "waste")
  BY SameComponent
<1>4. which # "waste" <=> ~(which = "waste")
  OBVIOUS
<1>5. QED
  BY <1>1, <1>2, <1>3, <1>4, PTL DEF AnySpec, WP!SerialSpec

(* wastage.service.ts, one request at a time: the stock that is missing is *)
(* the waste recorded and not voided since.                                *)
THEOREM StockLacksTheWaste == AnySpec => []StockIsStandingWaste
<1>1. WP!SerialSpec => []WP!StockIsStandingWaste
  BY WasteAssumed, WP!StockLacksStandingWaste
<1>2. WP!StockIsStandingWaste => StockIsStandingWaste
  BY SameStanding DEF StockIsStandingWaste
<1>3. which # "waste" => StockIsStandingWaste
  BY DEF StockIsStandingWaste
<1>4. QED
  BY <1>1, <1>2, <1>3, WasteBehaves, PTL

LEMMA BatchesAssumed == BP!ProductionAssumption
BY Assumptions DEF Production!ProductionAssumption, BP!ProductionAssumption,
   Production!BinRows, BP!BinRows

LEMMA SameBatchInit == Production!Init <=> BP!Init
BY DEF Production!Init, BP!Init, Production!BinRows, BP!BinRows,
     Production!NoneTaken, BP!NoneTaken, Production!NoneFound, BP!NoneFound,
     Production!Idle, BP!Idle, Production!Operations, BP!Operations

LEMMA SameBatchStep == [Production!SerialNext]_Production!vars <=> [BP!SerialNext]_BP!vars
BY DEF Production!SerialNext, BP!SerialNext, Production!Arrive, BP!Arrive,
     Production!Create, BP!Create, Production!Active, BP!Active,
     Production!Need, BP!Need, Production!Visible, BP!Visible,
     Production!Goto, BP!Goto, Production!Release, BP!Release,
     Production!Finish, BP!Finish, Production!Reject, BP!Reject,
     Production!Startable, BP!Startable, Production!Completable,
     BP!Completable, Production!Cancellable, BP!Cancellable,
     Production!Allowed, BP!Allowed, Production!ReadStatus, BP!ReadStatus,
     Production!RowsOf, BP!RowsOf, Production!BinRows, BP!BinRows,
     Production!Available, BP!Available, Production!CheckStock,
     BP!CheckStock, Production!ReadBalances, BP!ReadBalances,
     Production!Listed, BP!Listed, Production!Oldest, BP!Oldest,
     Production!ToConsume, BP!ToConsume, Production!ReadRow, BP!ReadRow,
     Production!WriteRow, BP!WriteRow, Production!Short, BP!Short,
     Production!EndItem, BP!EndItem, Production!Ready, BP!Ready,
     Production!SetStatus, BP!SetStatus, Production!Approve, BP!Approve,
     Production!Start, BP!Start, Production!Complete, BP!Complete,
     Production!Cancel, BP!Cancel, Production!CheckQuality, BP!CheckQuality,
     Production!Fail, BP!Fail, Production!Blocker, BP!Blocker,
     Production!EndDeadlock, BP!EndDeadlock, Production!Step, BP!Step,
     Production!tables, BP!tables, Production!ledger, BP!ledger,
     Production!local, BP!local, Production!vars, BP!vars,
     Production!NoneTaken, BP!NoneTaken, Production!NoneFound, BP!NoneFound,
     Production!Idle, BP!Idle, Production!Operations, BP!Operations

LEMMA SameBatchTypes == Production!TypeOK <=> BP!TypeOK
BY DEF Production!TypeOK, BP!TypeOK, Production!Batch, BP!Batch,
     Production!Request, BP!Request, Production!Statuses, BP!Statuses,
     Production!Steps, BP!Steps, Production!Operations, BP!Operations,
     Production!BinRows, BP!BinRows

LEMMA BatchesBehave ==
    AnySpec => [](which # "batches") \/ ([](which = "batches") /\ BP!SerialSpec)
<1>1. AnyInit /\ which = "batches" => BP!Init
  BY Starts, SameBatchInit
<1>2. [AnyNext]_all /\ which = "batches" => [BP!SerialNext]_BP!vars
  BY BatchesRun, SameBatchStep
<1>3. [AnyNext]_all => ((which = "batches")' <=> which = "batches")
  BY SameComponent
<1>4. which # "batches" <=> ~(which = "batches")
  OBVIOUS
<1>5. QED
  BY <1>1, <1>2, <1>3, <1>4, PTL DEF AnySpec, BP!SerialSpec

(* production.service.ts, one request at a time: a batch is planned,       *)
(* approved, started and completed once each.                              *)
THEOREM BatchesLiveByStatus == AnySpec => LivesByStatus
<1>1. BP!SerialSpec => BP!LivesByStatus
  BY BatchesAssumed, BP!SerialBatchesLiveByStatus
<1>2. BP!Life!Init => (which = "batches" => Production!Life!Init)
  BY DEF BP!Life!Init, Production!Life!Init
<1>3. [BP!Life!Next]_(BP!Life!vars)
        => [which = "batches" => Production!Life!Next \/ UNCHANGED Production!Life!vars]_all
  BY DEF BP!Life!Next, Production!Life!Next, BP!Life!vars, Production!Life!vars,
     BP!Life!Create, Production!Life!Create, BP!Life!Approve, Production!Life!Approve,
     BP!Life!Start, Production!Life!Start, BP!Life!Complete, Production!Life!Complete,
     BP!Life!Cancel, Production!Life!Cancel, BP!Life!Hold, Production!Life!Hold,
     BP!Life!Release, Production!Life!Release, BP!Life!Move, Production!Life!Move
<1>4. which # "batches"
        => /\ which = "batches" => Production!Life!Init
           /\ [which = "batches" => Production!Life!Next \/ UNCHANGED Production!Life!vars]_all
  OBVIOUS
<1>5. QED
  BY <1>1, <1>2, <1>3, <1>4, BatchesBehave, PTL DEF LivesByStatus, BP!LivesByStatus, BP!Life!Spec

LEMMA AskingHolds == AnySpec => [](which = "asking" => AskInv)
<1>1. AnyInit => (which = "asking" => AskInv)
  BY Starts, Assumptions, InitAsks
<1>2. (which = "asking" => AskInv) /\ [AnyNext]_all => (which = "asking" => AskInv)'
  BY SameComponent, AskingRuns, Assumptions, StepAsks
<1>3. QED
  BY <1>1, <1>2, PTL DEF AnySpec

(* procurement.service.ts: an item is in one open request of the day       *)
(* unless creations overlap or a request is reopened; a line with a        *)
(* supplier is on one supplier request, that of the cheapest.              *)
THEOREM RequestsAreConsistent == AnySpec => RequestsConsistent
<1>1. (which = "asking" => AskInv) =>
         (which = "asking" => Asking!OneOpenRequest /\ Asking!LinesAreAsked)
  BY InvAsks
<1>2. (which = "asking" => AskInv) /\ [AnyNext]_all =>
         [which = "asking" => Asking!AsksCheapest]_all
  BY AskingRuns, Assumptions, StepAsksCheapest
<1>3. QED
  BY <1>1, <1>2, AskingHolds, PTL DEF AnySpec, RequestsConsistent

LEMMA ProductsHold == AnySpec => [](which = "products" => ProductInv)
<1>1. AnyInit => (which = "products" => ProductInv)
  BY Starts, Assumptions, InitSells
<1>2. (which = "products" => ProductInv) /\ [AnyNext]_all => (which = "products" => ProductInv)'
  BY SameComponent, ProductsRun, Assumptions, StepSells
<1>3. QED
  BY <1>1, <1>2, PTL DEF AnySpec

(* products.service.ts, transactions apart: imports keep names unique, a   *)
(* live variant has a live product, and a row imported again makes nothing *)
(* new but for a variant that another row took by its SKU.                 *)
THEOREM ProductsAreConsistent == AnySpec => ProductsConsistent
<1>1. (which = "products" => ProductInv) =>
         (which = "products" => Products!OneImportedProduct /\ Products!NoOrphan)
  BY InvSells
<1>2. (which = "products" => ProductInv) /\ [AnyNext]_all =>
         [which = "products" => Products!RecreatesNothing]_all
  BY ProductsRun, Assumptions, StepRecreates
<1>3. QED
  BY <1>1, <1>2, ProductsHold, PTL DEF AnySpec, ProductsConsistent

-----------------------------------------------------------------------------
(* The ledger, whatever runs beside it.                                    *)
LEMMA LedgerBehaves == AnySpec => SerialSpec
BY LedgerRuns, Starts, PTL DEF AnySpec, SerialSpec

(* inventory-movements.service.ts, one request at a time: what is on hand  *)
(* is the sum of the movements recorded.                                   *)
THEOREM BalancesAreTheLedger == AnySpec => []BalanceIsLedger
BY LedgerBehaves, SerialBalanceIsLedger, PTL

(* ... and each request moves stock as the book does, at once or not.      *)
THEOREM LedgerIsTheBook == AnySpec => ImplementsBook
BY LedgerBehaves, SerialLedgerIsStockBook, PTL

LEMMA LedgerTyped == AnySpec => []TypeOK
<1>1. [SerialNext]_vars => [Next]_vars
  BY SerialStepIsStep
<1>2. SerialSpec => Spec
  BY <1>1, PTL DEF SerialSpec, Spec
<1>3. QED
  BY <1>2, LedgerBehaves, AllTypesCorrect, PTL

LEMMA WasteTyped == AnySpec => [](which = "waste" => Waste!TypeOK)
<1>1. [WP!SerialNext]_WP!vars => [WP!Next]_WP!vars
  BY DEF WP!SerialNext, WP!Next
<1>2. WP!SerialSpec => WP!Spec
  BY <1>1, PTL DEF WP!SerialSpec, WP!Spec
<1>3. WP!Spec => []WP!TypeOK
  BY WasteAssumed, WP!TypeCorrect
<1>4. WP!TypeOK => (which = "waste" => Waste!TypeOK)
  BY SameWasteTypes
<1>5. which # "waste" => (which = "waste" => Waste!TypeOK)
  OBVIOUS
<1>6. QED
  BY <1>2, <1>3, <1>4, <1>5, WasteBehaves, PTL

LEMMA BatchesTyped == AnySpec => [](which = "batches" => Production!TypeOK)
<1>1. [BP!SerialNext]_BP!vars => [BP!Next]_BP!vars
  BY DEF BP!SerialNext, BP!Next
<1>2. BP!SerialSpec => BP!Spec
  BY <1>1, PTL DEF BP!SerialSpec, BP!Spec
<1>3. BP!Spec => []BP!TypeOK
  BY BatchesAssumed, BP!TypeCorrect
<1>4. BP!TypeOK => (which = "batches" => Production!TypeOK)
  BY SameBatchTypes
<1>5. which # "batches" => (which = "batches" => Production!TypeOK)
  OBVIOUS
<1>6. QED
  BY <1>2, <1>3, <1>4, <1>5, BatchesBehave, PTL

(* In every behaviour, the tables of the component that runs, and what its *)
(* requests have in memory, are of their types.                            *)
THEOREM EverythingIsTyped == AnySpec => []AnyTypeOK
<1>1. (which = "recipes" => BookInv) => (which = "recipes" => Recipes!TypeOK)
  BY InvBooks
<1>2. (which = "money" => MoneyInv) => (which = "money" => Money!TypeOK)
  BY InvMoney
<1>3. (which = "setup" => SetupInv) => (which = "setup" => Setup!TypeOK)
  BY InvSets
<1>4. (which = "day" => CloseInv /\ DayInv) => (which = "day" => Day!TypeOK)
  BY InvSums
<1>5. (which = "asking" => AskInv) => (which = "asking" => Asking!TypeOK)
  BY InvAsks
<1>6. (which = "import" => ImportInv) => (which = "import" => Import!TypeOK)
  BY DEF ImportInv
<1>7. (which = "products" => ProductInv) => (which = "products" => Products!TypeOK)
  BY InvSells
<1>8. (which = "people" => OwnInv) => (which = "people" => People!TypeOK)
  BY DEF OwnInv
<1>9. (which = "mirror" => MirrorInv) => (which = "mirror" => Mirror!TypeOK)
  BY InvMirrors
<1>10. /\ TypeOK
       /\ which = "recipes"  => Recipes!TypeOK
       /\ which = "money"    => Money!TypeOK
       /\ which = "setup"    => Setup!TypeOK
       /\ which = "day"      => Day!TypeOK
       /\ which = "asking"   => Asking!TypeOK
       /\ which = "import"   => Import!TypeOK
       /\ which = "products" => Products!TypeOK
       /\ which = "people"   => People!TypeOK
       /\ which = "mirror"   => Mirror!TypeOK
       /\ which = "waste"    => Waste!TypeOK
       /\ which = "batches"  => Production!TypeOK
       => AnyTypeOK
  BY DEF AnyTypeOK
<1>11. QED
  BY <1>1, <1>2, <1>3, <1>4, <1>5, <1>6, <1>7, <1>8, <1>9, <1>10, LedgerTyped, RecipesHold,
     MoneyHolds, SetupHolds, DayHolds, AskingHolds, ImportHolds, ProductsHold, PeopleHold,
     MirrorHolds, WasteTyped, BatchesTyped, PTL

-----------------------------------------------------------------------------
(* What holds while transactions, or requests, do not overlap.             *)
LEMMA ItemsHold == AnySpec => [](which = "import" => ImportInv /\ ItemInv)
<1>1. AnyInit => (which = "import" => ImportInv /\ ItemInv)
  BY Starts, Assumptions, InitTells, InitStocks
<1>2. (which = "import" => ImportInv /\ ItemInv) /\ [AnyNext]_all
        => (which = "import" => ImportInv /\ ItemInv)'
  BY SameComponent, ImportRuns, Assumptions, StepTells, StepStocks
<1>3. QED
  BY <1>1, <1>2, PTL DEF AnySpec

(* inventory-imports.service.ts and inventory-items.service.ts: a batch    *)
(* number has one lot, a removed item no linked variant, and a row commits *)
(* into a live item.                                                       *)
THEOREM ItemsAreConsistent == AnySpec => ItemsConsistent
<1>1. (which = "import" => ImportInv /\ ItemInv) =>
         (which = "import" => Import!OneLotPerBatch /\ Import!NoLinkToDeleted)
  BY DEF ItemInv
<1>2. (which = "import" => ImportInv /\ ItemInv) /\ [AnyNext]_all =>
         [which = "import" => Import!BooksForLive]_all
  BY ImportRuns, Assumptions, StepStocks
<1>3. QED
  BY <1>1, <1>2, ItemsHold, PTL DEF AnySpec, ItemsConsistent

LEMMA AloneHolds == AnySpec => [](which = "people" => OwnInv /\ AloneInv)
<1>1. AnyInit => (which = "people" => OwnInv /\ AloneInv)
  BY Starts, Assumptions, InitOwns, InitApart
<1>2. (which = "people" => OwnInv /\ AloneInv) /\ [AnyNext]_all
        => (which = "people" => OwnInv /\ AloneInv)'
  BY SameComponent, PeopleRun, Assumptions, StepOwns, StepApart
<1>3. QED
  BY <1>1, <1>2, PTL DEF AnySpec

(* provisioning: a request that nothing overlaps goes on without its       *)
(* identity only when the rows of its own tenant and another contradict    *)
(* it.                                                                     *)
THEOREM RequestsAreServed == AnySpec => ServedAlone
<1>1. (which = "people" => OwnInv /\ AloneInv) /\ [AnyNext]_all =>
         [which = "people" => People!ServesAlone]_all
  BY PeopleRun, Assumptions, StepServesAlone
<1>2. QED
  BY <1>1, AloneHolds, PTL DEF AnySpec, ServedAlone
=============================================================================
