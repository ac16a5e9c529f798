---------------------------- MODULE MCWasteEvents ----------------------------
(* Small instances of WasteEvents for TLC. *)
EXTENDS WasteEvents, TLC

CONSTANTS p1, p2, p3, a

ThreeAttempts == {p1, p2, p3}
Few    == (a :> 2) @@ (NoLot :> 1)
Single == (a :> 1) @@ (NoLot :> 1)
=============================================================================
