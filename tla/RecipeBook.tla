------------------------------ MODULE RecipeBook ------------------------------
(***************************************************************************)
(* The recipes of ONE product variant: created, updated, activated and     *)
(* archived by concurrent requests.  Each request checks that its recipe   *)
(* exists BEFORE its transaction; the transaction locks the rows it writes *)
(* until it ends, and writes only what its statements saw.                 *)
(*                                                                         *)
(* A version is the whole list of components one request wrote.  Names,    *)
(* yields and version numbers are left out; the mirrored copy is module   *)
(* MirroredRow.                                                            *)
(***************************************************************************)
EXTENDS Integers, FiniteSets

CONSTANTS
    Requests,
    Nobody,       \* no request
    Recipes       \* ids a recipe of the variant can be given

RecipeAssumption == Nobody \notin Requests /\ Recipes # {}

VARIABLES
    recipe,       \* Recipe rows: state, isActive, the versions of the components
    rowLock,      \* who has written a recipe row and not committed
    listLock,     \* who has deleted the components of a recipe
    req,          \* local state of each request
    calm,         \* no two requests overlapped so far
    loose         \* a recipe became active in a way that guards nothing

vars == <<recipe, rowLock, listLock, req, calm, loose>>

Original == "original"
Row  == [state : {"none", "live", "deleted"}, active : BOOLEAN,
         lists : SUBSET (Requests \cup {Original})]
Change == {"yes", "no", "keep"}                      \* dto.isActive of an update
Request ==
    [pc : {"idle", "others", "demote", "lists", "unlist", "edit", "archive", "done"},
     op : {"create", "activate", "update", "remove"}, recipe : Recipes,
     others : SUBSET Recipes, off : SUBSET Recipes,
     lists : SUBSET (Requests \cup {Original}), relist : BOOLEAN,
     active : Change, archived : BOOLEAN]

Idle(r) == [pc |-> "idle", op |-> "create", recipe |-> r, others |-> {}, off |-> {},
            lists |-> {}, relist |-> FALSE, active |-> "keep", archived |-> FALSE]
AnyRecipe == CHOOSE r \in Recipes : TRUE

Init ==
    /\ recipe = [r \in Recipes |-> [state |-> "none", active |-> FALSE, lists |-> {}]]
    /\ rowLock = [r \in Recipes |-> Nobody]
    /\ listLock = [r \in Recipes |-> Nobody]
    /\ req = [p \in Requests |-> Idle(AnyRecipe)]
    /\ calm = TRUE
    /\ loose = FALSE

Active(p) == req[p].pc \notin {"idle", "done"}
Promotes(q) ==
    /\ Active(q)
    /\ \/ req[q].op = "activate"
       \/ req[q].op = "create" /\ req[q].active = "yes"
Free(p, r) == rowLock[r] \in {Nobody, p}
Lock(p, r) == rowLock' = [rowLock EXCEPT ![r] = p]
Release(p, lock) == [r \in Recipes |-> IF lock[r] = p THEN Nobody ELSE lock[r]]
Finish(p) ==
    /\ req' = [req EXCEPT ![p] = [Idle(AnyRecipe) EXCEPT !.pc = "done"]]
    /\ rowLock' = Release(p, rowLock)
    /\ listLock' = Release(p, listLock)

Arrive(p) ==
    /\ req[p].pc = "idle"
    /\ calm' = (calm /\ \A q \in Requests : ~Active(q))

(* The rows a statement of this moment sees, but for its own recipe. *)
Others(r) == {s \in Recipes \ {r} : recipe[s].state # "none"}
Live(r)   == recipe[r].state = "live"

-----------------------------------------------------------------------------
(* create: the row is inserted, unseen by others until the commit, also by *)
(* an activation that has already looked for the others.                   *)
Create(p, r, active) ==
    /\ Arrive(p)
    /\ recipe[r].state = "none" /\ rowLock[r] = Nobody
    /\ Lock(p, r)
    /\ req' = [req EXCEPT ![p] = [@ EXCEPT !.op = "create", !.recipe = r,
                  !.active = IF active THEN "yes" ELSE "no",
                  !.others = IF active THEN Others(r) ELSE {},
                  !.pc = "demote"]]
    /\ loose' = (loose \/ \E q \in Requests : Promotes(q))
    /\ UNCHANGED <<recipe, listLock>>

(* activate: updateMany reads the other recipes of the variant when it     *)
(* starts, and sets each of them inactive, in any order, as it gets the    *)
(* lock of its row; then the recipe itself is updated.                     *)
Activate(p, r) ==
    /\ Arrive(p)
    /\ Live(r)
    /\ req' = [req EXCEPT ![p] = [@ EXCEPT !.op = "activate", !.recipe = r, !.pc = "others"]]
    /\ UNCHANGED <<recipe, rowLock, listLock, loose>>

NoOthers(r) == {}                                       \* mutant: others left active
Demoted(r) == Others(r)

FindOthers(p) ==
    /\ req[p].pc = "others"
    /\ req' = [req EXCEPT ![p] = [@ EXCEPT !.others = Demoted(req[p].recipe), !.pc = "demote"]]
    /\ loose' = (loose \/ \E q \in Requests : Active(q) /\ req[q].op = "create")
    /\ UNCHANGED <<recipe, rowLock, listLock, calm>>

Demote(p) == \E s \in req[p].others :
    /\ req[p].pc = "demote"
    /\ Free(p, s)
    /\ Lock(p, s)
    /\ req' = [req EXCEPT ![p].others = @ \ {s}, ![p].off = @ \cup {s}]
    /\ UNCHANGED <<recipe, listLock, calm, loose>>

Off(p, s) == IF s \in req[p].off THEN [recipe[s] EXCEPT !.active = FALSE] ELSE recipe[s]

CommitCreate(p) == LET r == req[p].recipe IN
    /\ req[p].pc = "demote" /\ req[p].op = "create" /\ req[p].others = {}
    /\ recipe' = [s \in Recipes |->
           IF s = r THEN [state |-> "live", active |-> req[p].active = "yes", lists |-> {p}]
           ELSE Off(p, s)]
    /\ Finish(p)
    /\ UNCHANGED <<calm, loose>>

CommitActivate(p) == LET r == req[p].recipe IN
    /\ req[p].pc = "demote" /\ req[p].op = "activate" /\ req[p].others = {}
    /\ Free(p, r)
    /\ recipe' = [s \in Recipes |->
           IF s = r THEN [recipe[s] EXCEPT !.active = TRUE] ELSE Off(p, s)]
    /\ Finish(p)
    /\ UNCHANGED <<calm, loose>>

-----------------------------------------------------------------------------
(* update: deleteMany removes the components it sees, waiting for another  *)
(* delete of the same rows; what the other wrote instead it never saw.     *)
Update(p, r, relist, active, archived) ==
    /\ Arrive(p)
    /\ Live(r)
    /\ req' = [req EXCEPT ![p] = [@ EXCEPT !.op = "update", !.recipe = r,
                  !.relist = relist, !.active = active, !.archived = archived,
                  !.pc = IF relist THEN "lists" ELSE "edit"]]
    /\ UNCHANGED <<recipe, rowLock, listLock, loose>>

FindLists(p) ==
    /\ req[p].pc = "lists"
    /\ req' = [req EXCEPT ![p] = [@ EXCEPT !.lists = recipe[req[p].recipe].lists,
                                           !.pc = "unlist"]]
    /\ UNCHANGED <<recipe, rowLock, listLock, calm, loose>>

Unlist(p) ==
    /\ req[p].pc = "unlist"
    /\ listLock[req[p].recipe] = Nobody
    /\ listLock' = [listLock EXCEPT ![req[p].recipe] = p]
    /\ req' = [req EXCEPT ![p].pc = "edit"]
    /\ UNCHANGED <<recipe, rowLock, calm, loose>>

KeptLists(p) == recipe[req[p].recipe].lists \cup {p}    \* mutant: nothing deleted
NewLists(p) ==
    LET old == recipe[req[p].recipe].lists
    IN  IF req[p].relist THEN (old \ req[p].lists) \cup {p} ELSE old

CommitUpdate(p) == LET r == req[p].recipe IN
    /\ req[p].pc = "edit"
    /\ Free(p, r)
    /\ recipe' = [recipe EXCEPT ![r] = [
           state  |-> IF req[p].archived THEN "deleted" ELSE recipe[r].state,
           active |-> IF req[p].active = "keep" THEN recipe[r].active ELSE req[p].active = "yes",
           lists  |-> NewLists(p)]]
    /\ loose' = (loose \/ req[p].active = "yes")
    /\ Finish(p)
    /\ UNCHANGED calm

Remove(p, r) ==
    /\ Arrive(p)
    /\ Live(r)
    /\ req' = [req EXCEPT ![p] = [@ EXCEPT !.op = "remove", !.recipe = r, !.pc = "archive"]]
    /\ UNCHANGED <<recipe, rowLock, listLock, loose>>

Archive(p) == LET r == req[p].recipe IN
    /\ req[p].pc = "archive"
    /\ Free(p, r)
    /\ recipe' = [recipe EXCEPT ![r] = [@ EXCEPT !.state = "deleted", !.active = FALSE]]
    /\ Finish(p)
    /\ UNCHANGED <<calm, loose>>

-----------------------------------------------------------------------------
(* A lost connection, a timeout, or the victim PostgreSQL picks when        *)
(* transactions wait for each other: everything is rolled back.            *)
Fail(p) == Active(p) /\ Finish(p) /\ UNCHANGED <<recipe, calm, loose>>

Step(p) ==
    \/ FindOthers(p) \/ Demote(p) \/ CommitCreate(p) \/ CommitActivate(p)
    \/ FindLists(p) \/ Unlist(p) \/ CommitUpdate(p) \/ Archive(p)

Arrivals(p) == \E r \in Recipes :
    \/ \E active \in BOOLEAN : Create(p, r, active)
    \/ Activate(p, r)
    \/ \E relist, archived \in BOOLEAN, active \in Change :
          Update(p, r, relist, active, archived)
    \/ Remove(p, r)

Next == \E p \in Requests : Arrivals(p) \/ Step(p) \/ Fail(p)

Spec == Init /\ [][Next]_vars

-----------------------------------------------------------------------------
(* Type invariant. *)
TypeOK ==
    /\ recipe \in [Recipes -> Row]
    /\ rowLock \in [Recipes -> Requests \cup {Nobody}]
    /\ listLock \in [Recipes -> Requests \cup {Nobody}]
    /\ req \in [Requests -> Request]
    /\ calm \in BOOLEAN /\ loose \in BOOLEAN

(* A variant has one active recipe, whose cost the reports take: requests  *)
(* that activate recipes at the same time leave one of them active, unless *)
(* an update set isActive or a recipe of the variant was created while     *)
(* another one was being made active.                                      *)
OneActive ==
    ~loose => \A r, s \in Recipes :
        (Live(r) /\ Live(s) /\ recipe[r].active /\ recipe[s].active) => r = s

(* A recipe that exists has components, whatever overlapping updates have  *)
(* deleted; and one list of them as long as requests come one at a time.   *)
ListedOnce ==
    \A r \in Recipes : recipe[r].state # "none" =>
        /\ recipe[r].lists # {}
        /\ calm => Cardinality(recipe[r].lists) = 1
=============================================================================
