---------------------------- MODULE MCStockLedger ----------------------------
(* Instances of StockLedger for TLC. *)
EXTENDS StockLedger, TLC

CONSTANTS r1, r2, r3, b1, b2, b3, lotA, lotB

MCExpiry == [l \in LotIds |-> IF l = NoLot THEN 9 ELSE IF l = lotA THEN 1 ELSE 2]

(* Stock without a lot was received and is on hand: what a first request   *)
(* leaves that has committed.                                              *)
StockedInit ==
    /\ balance = [r \in Rows |-> IF r = b1
                     THEN [NewRow EXCEPT !.lot = NoLot, !.onHand = 2, !.available = 2]
                     ELSE NewRow]
    /\ moved = [l \in LotIds |-> IF l = NoLot THEN 2 ELSE 0]
    /\ unitCost \in Costs /\ paid = {unitCost}
    /\ rowLock = [r \in Rows |-> NoRequest] /\ settingLock = NoRequest
    /\ req = [p \in Requests |-> IdleRequest]
    /\ costing = [p \in Requests |-> NoCosting]

FairStockedSpec ==
    /\ StockedInit /\ [][Next]_vars
    /\ \A p \in Requests : WF_vars(Step(p))

Symmetry == Permutations(Requests) \cup Permutations(Rows)
=============================================================================
