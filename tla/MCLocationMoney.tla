--------------------------- MODULE MCLocationMoney ---------------------------
(* A small instance of LocationMoney for TLC. *)
EXTENDS LocationMoney

CONSTANTS p1, p2, variant, profile, friday, india, usa

MCCurrencyOf == [m \in {india, usa} |-> IF m = india THEN "INR" ELSE "USD"]
=============================================================================
