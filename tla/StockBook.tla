------------------------------ MODULE StockBook ------------------------------
(***************************************************************************)
(* What an inventory ledger promises: a stock per lot and a log of         *)
(* movements that always agree, and no lot ever taken below zero.          *)
(***************************************************************************)
EXTENDS Integers

CONSTANTS LotIds, Quantities

VARIABLES
    stock,    \* the quantity on hand of each lot
    ledger    \* the sum of the quantities of its movements

vars == <<stock, ledger>>

Init ==
    /\ stock = [l \in LotIds |-> 0]
    /\ ledger = [l \in LotIds |-> 0]

(* One movement: q units of lot l come in (q > 0) or go out (q < 0). *)
Post(l, q) ==
    /\ ledger' = [ledger EXCEPT ![l] = @ + q]
    /\ stock[l] + q >= 0
    /\ stock' = [stock EXCEPT ![l] = @ + q]

Next == \E l \in LotIds, q \in Quantities : Post(l, q) \/ Post(l, -q)

Spec == Init /\ [][Next]_vars
=============================================================================
