---------------------------- MODULE MCPurchasing ----------------------------
(* Small instances of Purchasing for TLC. *)
EXTENDS Purchasing, TLC

CONSTANTS p1, p2, s1, q1, r1, r2, flour, butter

TwoRequests   == {p1, p2}
TwoReceipts   == {r1, r2}
OneSupplier   == {s1}
OneQuotation  == {q1}
Answers       == [q \in Quotations |-> s1]
Wanted        == (flour :> 2) @@ (butter :> 1)

Of(item, received, accepted) ==
    [item |-> item, receivedQty |-> received, acceptedQty |-> accepted]
(* The whole order and a bag refused; the flour in two lines; butter only. *)
Loads == { << Of(flour, 3, 2), Of(butter, 1, 1) >>,
           << Of(flour, 2, 1), Of(flour, 1, 1) >>,
           << Of(butter, 1, 1) >> }
Symmetry == Permutations(Requests) \cup Permutations(Receipts)
=============================================================================
