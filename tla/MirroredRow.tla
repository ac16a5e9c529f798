------------------------------ MODULE MirroredRow ------------------------------
(***************************************************************************)
(* ONE row of a mirrored table and its copy in Appwrite.  A service finds  *)
(* the row, writes it, and then sends what it wrote to the copy: no        *)
(* transaction spans the two, copies arrive in any order, and one that     *)
(* fails is logged and forgotten.  Written for the suppliers and their     *)
(* items; products, variants, inventory items, locations and settings are  *)
(* mirrored by the same two calls.                                         *)
(***************************************************************************)
EXTENDS Naturals

CONSTANTS
    Slots,        \* requests in progress
    MaxVersion    \* bound on the writes of the row

MirrorAssumption == MaxVersion \in Nat

VARIABLES
    row,          \* the row: how often it was written, whether it is deleted
    copy,         \* the version the copy holds, Gone when there is none
    slot,         \* local state of each request
    calm          \* no two requests overlapped and no call failed so far

vars == <<row, copy, slot, calm>>

Gone    == 0
Version == 0 .. MaxVersion
Free    == [pc |-> "idle", kind |-> "update", sent |-> Gone]

Init ==
    /\ row = [version |-> 0, deleted |-> FALSE]
    /\ copy = Gone
    /\ slot = [p \in Slots |-> Free]
    /\ calm = TRUE

AtRest == \A p \in Slots : slot[p].pc = "idle"
Live   == row.version > 0 /\ ~row.deleted

(* create inserts without a look-up; update and remove find the row first, *)
(* among those not deleted.                                                *)
Begin(p, kind) ==
    /\ slot[p].pc = "idle"
    /\ IF kind = "create" THEN row.version = 0 /\ \A q \in Slots : slot[q].kind # "create"
       ELSE Live
    /\ slot' = [slot EXCEPT ![p] = [pc |-> "write", kind |-> kind, sent |-> Gone]]
    /\ calm' = (calm /\ AtRest)
    /\ UNCHANGED <<row, copy>>

(* The write is by id: it finds the row even when it is deleted meanwhile. *)
Gains(kind) == IF kind = "remove" THEN TRUE ELSE row.deleted

Write(p) ==
    /\ slot[p].pc = "write"
    /\ row.version < MaxVersion
    /\ row' = [version |-> row.version + 1, deleted |-> Gains(slot[p].kind)]
    /\ slot' = [slot EXCEPT ![p] = [slot[p] EXCEPT !.pc = "mirror", !.sent = row.version + 1]]
    /\ UNCHANGED <<copy, calm>>

(* upsertOperationalRow and deleteOperationalRow.                          *)
Keep(p) == slot[p].sent                           \* mutant: removal mirrored as an update
Sent(p) == IF slot[p].kind = "remove" THEN Gone ELSE slot[p].sent

Mirror(p) ==
    /\ slot[p].pc = "mirror"
    /\ copy' = Sent(p)
    /\ slot' = [slot EXCEPT ![p] = Free]
    /\ UNCHANGED <<row, calm>>

(* The write fails, or the process ends before the copy is sent, or        *)
(* Appwrite refuses it.                                                    *)
Drop(p) ==
    /\ slot[p].pc # "idle"
    /\ slot' = [slot EXCEPT ![p] = Free]
    /\ calm' = (calm /\ slot[p].pc = "write")
    /\ UNCHANGED <<row, copy>>

Next == \E p \in Slots :
    \/ \E kind \in {"create", "update", "remove"} : Begin(p, kind)
    \/ Write(p) \/ Mirror(p) \/ Drop(p)

Spec == Init /\ [][Next]_vars

-----------------------------------------------------------------------------
(* Type invariant. *)
TypeOK ==
    /\ row \in [version : Version, deleted : BOOLEAN]
    /\ copy \in Version
    /\ slot \in [Slots -> [pc : {"idle", "write", "mirror"}, sent : Version,
                           kind : {"create", "update", "remove"}]]
    /\ calm \in BOOLEAN

(* When requests do not overlap and none fails, the copy at rest is the    *)
(* row: its last version, or nothing once it is deleted.                   *)
CopiedAtRest == calm /\ AtRest => copy = IF Live THEN row.version ELSE Gone
=============================================================================
