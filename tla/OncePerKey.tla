------------------------------ MODULE OncePerKey ------------------------------
(***************************************************************************)
(* What an idempotency key promises the client that sends it: however often *)
(* a request is sent again under its key, at most one of the attempts takes *)
(* effect, and every attempt that is answered is answered with that effect. *)
(***************************************************************************)
CONSTANTS Attempts, Keys, Nothing

VARIABLES
    asked,     \* the key an attempt was sent with
    outcome,   \* the attempt that took effect for a key
    answer     \* the attempt whose effect an attempt was answered with

vars == <<asked, outcome, answer>>

Init ==
    /\ asked = [p \in Attempts |-> Nothing]
    /\ outcome = [k \in Keys |-> Nothing]
    /\ answer = [p \in Attempts |-> Nothing]

Ask(p) ==
    /\ asked[p] = Nothing
    /\ \E k \in Keys : asked' = [asked EXCEPT ![p] = k]
    /\ UNCHANGED <<outcome, answer>>

(* An attempt takes effect; its answer may be lost on the way back. *)
Perform(p) ==
    /\ asked[p] \in Keys
    /\ answer[p] = Nothing
    /\ outcome[asked[p]] = Nothing
    /\ outcome' = [outcome EXCEPT ![asked[p]] = p]
    /\ \E a \in {p, Nothing} : answer' = [answer EXCEPT ![p] = a]
    /\ UNCHANGED asked

Replay(p) ==
    /\ asked[p] \in Keys
    /\ answer[p] = Nothing
    /\ outcome[asked[p]] # Nothing
    /\ answer' = [answer EXCEPT ![p] = outcome[asked[p]]]
    /\ UNCHANGED <<asked, outcome>>

Next == \E p \in Attempts : Ask(p) \/ Perform(p) \/ Replay(p)

Spec == Init /\ [][Next]_vars
=============================================================================
