-------------------------- MODULE MCProductionBatch --------------------------
(* Small instances of ProductionBatch for TLC. *)
EXTENDS ProductionBatch, TLC

CONSTANTS p1, p2, b1, b2, flour, sugar

TwoRequests == {p1, p2}
TwoBatches == {b1, b2}
Recipe     == [b \in Batches |-> (flour :> 2) @@ (sugar :> 1)]
(* Two rows of flour, the older one short of a recipe, and one of sugar. *)
RowItems  == <<flour, flour, sugar>>
Shelves   == <<1, 3, 2>>
Symmetry  == Permutations(Requests)
=============================================================================
