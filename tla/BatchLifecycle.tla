---------------------------- MODULE BatchLifecycle ----------------------------
(***************************************************************************)
(* The life of production batches as the status checks of the service      *)
(* describe it: a batch is planned, approved, started and completed, once  *)
(* each; its ingredients leave the stock at the start and its goods exist  *)
(* from the completion.  Quality control may hold any batch, and its       *)
(* release completes the batch without making anything.                    *)
(***************************************************************************)
EXTENDS Naturals

CONSTANT Batches

VARIABLES
    status,   \* of each batch; "none" before it is created
    used,     \* how many times the ingredients of a batch were consumed
    made      \* how many outputs the batch has

vars == <<status, used, made>>

Init ==
    /\ status = [b \in Batches |-> "none"]
    /\ used = [b \in Batches |-> 0]
    /\ made = [b \in Batches |-> 0]

Move(b, from, to) ==
    /\ status[b] \in from
    /\ status' = [status EXCEPT ![b] = to]

Create(b)  == Move(b, {"none"}, "PLANNED") /\ UNCHANGED <<used, made>>
Approve(b) == Move(b, {"PLANNED"}, "APPROVED") /\ UNCHANGED <<used, made>>
Cancel(b)  == Move(b, {"PLANNED", "APPROVED"}, "CANCELLED") /\ UNCHANGED <<used, made>>
Release(b) == Move(b, {"QC_HOLD"}, "COMPLETED") /\ UNCHANGED <<used, made>>

Hold(b) ==
    /\ status[b] # "none"
    /\ status' = [status EXCEPT ![b] = "QC_HOLD"]
    /\ UNCHANGED <<used, made>>

Start(b) ==
    /\ Move(b, {"APPROVED"}, "IN_PROGRESS")
    /\ used[b] = 0
    /\ used' = [used EXCEPT ![b] = 1]
    /\ UNCHANGED made

Complete(b) ==
    /\ Move(b, {"IN_PROGRESS"}, "COMPLETED")
    /\ used[b] = 1 /\ made[b] = 0
    /\ made' = [made EXCEPT ![b] = 1]
    /\ UNCHANGED used

Next == \E b \in Batches :
    Create(b) \/ Approve(b) \/ Start(b) \/ Complete(b) \/ Cancel(b) \/ Hold(b) \/ Release(b)

Spec == Init /\ [][Next]_vars
=============================================================================
