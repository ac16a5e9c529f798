------------------------------ MODULE Provisioning ------------------------------
(***************************************************************************)
(* The local rows of a signed-in person, made or brought up to date by     *)
(* every request: the tenant of the organisation, the user, the Owner role *)
(* and its assignment, the onboarding progress, in one transaction per     *)
(* request.  Inserted rows are checked against the unique keys when the    *)
(* transaction commits (a second insert of a key waits for the first and   *)
(* then fails); an updated user row stays locked until then.               *)
(***************************************************************************)
EXTENDS Naturals, FiniteSets

CONSTANTS
    Slots,        \* requests in progress
    Identities,   \* records person, org, email: what the auth service answers
    Locations,    \* locations a request can name: in a header, its query, its body
    Unlinked,     \* a user row without a securityUserId
    MaxUsers,     \* bound on the rows of User
    MaxCalls      \* bound on the requests received

People == {i.person : i \in Identities}
Orgs   == {i.org : i \in Identities}
Emails == {i.email : i \in Identities}
Users  == 1 .. MaxUsers

ProvisioningAssumption ==
    /\ Identities \subseteq [person : People, org : Orgs, email : Emails]
    /\ Unlinked \notin People \cup Slots
    /\ {MaxUsers, MaxCalls} \subseteq Nat

VARIABLES
    tenant,       \* organisations that have a Tenant row
    user,         \* User rows
    role,         \* tenants that have their Owner role
    owner,        \* UserRoleAssignment rows: Owner, everywhere, of each user
    progress,     \* users that have an OnboardingProgress row
    lock,         \* the request whose transaction has updated a user row
    active,       \* locations that are active, in the tenant that asks for them
    slot,         \* local state of each request
    calls,
    byHand,       \* users to whom an administrator gave the Owner role
    alone         \* no two requests overlapped so far

tables  == <<tenant, user, role, owner, progress, lock, active>>
history == <<byHand, alone>>
vars    == <<tables, slot, calls, history>>

NoUser == 0
Vacant == [status |-> "none", org |-> Unlinked, person |-> Unlinked, email |-> Unlinked]
Free   == [pc |-> "idle", who |-> Unlinked, where |-> {}, user |-> NoUser,
           newTenant |-> FALSE, synced |-> FALSE, newRole |-> FALSE, assign |-> FALSE]

Init ==
    /\ tenant = {} /\ role = {} /\ progress = {}
    /\ user = [u \in Users |-> Vacant]
    /\ owner = [u \in Users |-> 0]
    /\ lock = [u \in Users |-> Unlinked]
    /\ active = Locations
    /\ slot = [p \in Slots |-> Free]
    /\ calls = 0 /\ byHand = {} /\ alone = TRUE

Receive ==
    /\ calls < MaxCalls
    /\ calls' = calls + 1
    /\ alone' = (alone /\ \A q \in Slots : slot[q].pc = "idle")

Release(p) == lock' = [u \in Users |-> IF lock[u] = p THEN Unlinked ELSE lock[u]]
Finish(p)  == slot' = [slot EXCEPT ![p] = Free]

-----------------------------------------------------------------------------
(* The user of the tenant with that securityUserId or that email.          *)
Linked(u, who)  == user[u].person = who.person                   \* mutant
Matches(u, who) == user[u].person = who.person \/ user[u].email = who.email
Found(who) == {u \in Users : user[u].status # "none" /\ user[u].org = who.org /\ Matches(u, who)}

AlwaysSynced(u, who) == TRUE                      \* mutant: the row left as it is
Synced(u, who) ==
    user[u].status = "ACTIVE" /\ user[u].person = who.person /\ user[u].email = who.email

(* ensureProvisionedIdentity: the look-ups of the tenant and of the user.  *)
FindUser(p, who, where) ==
    /\ Receive
    /\ slot[p].pc = "idle"
    /\ \E u \in IF who.org \in tenant /\ Found(who) # {} THEN Found(who) ELSE {NoUser} :
          slot' = [slot EXCEPT ![p] = [Free EXCEPT !.who = who, !.where = where, !.user = u,
                      !.newTenant = who.org \notin tenant, !.synced = u = NoUser \/ Synced(u, who),
                      !.pc = IF u = NoUser \/ Synced(u, who) THEN "role" ELSE "sync"]]
    /\ UNCHANGED <<tables, byHand>>

(* The update of the row waits for the transaction that has updated it.    *)
SyncUser(p) ==
    /\ slot[p].pc = "sync"
    /\ lock[slot[p].user] = Unlinked
    /\ lock' = [lock EXCEPT ![slot[p].user] = p]
    /\ slot' = [slot EXCEPT ![p] = [slot[p] EXCEPT !.pc = "role"]]
    /\ UNCHANGED <<tenant, user, role, owner, progress, active, calls, history>>

NewOnly(p) == slot[p].user = NoUser               \* mutant: invited users forgotten
Unowned(p) == slot[p].user = NoUser \/ owner[slot[p].user] = 0

FindRole(p) ==
    /\ slot[p].pc = "role"
    /\ slot' = [slot EXCEPT ![p] = [slot[p] EXCEPT !.pc = "commit",
                   !.newRole = slot[p].newTenant \/ slot[p].who.org \notin role,
                   !.assign = Unowned(p)]]
    /\ UNCHANGED <<tables, calls, history>>

(* The rows inserted or updated break no unique key: the organisation of a *)
(* tenant, the securityUserId of a user anywhere, the email of a user in   *)
(* the tenant, the name of a role in the tenant.                           *)
Row(p, u) == IF slot[p].user # NoUser THEN u = slot[p].user
             ELSE user[u].status = "none" /\ \A v \in Users : v < u => user[v].status # "none"
Keeps(p, u) == LET who == slot[p].who IN
    /\ Row(p, u)
    /\ slot[p].newTenant => who.org \notin tenant
    /\ slot[p].newRole => who.org \notin role
    /\ ~slot[p].synced \/ slot[p].user = NoUser =>
          \A v \in Users \ {u} : user[v].status = "none" \/
             (user[v].person # who.person /\ (user[v].org # who.org \/ user[v].email # who.email))

Commit(p, u) == LET who == slot[p].who IN
    /\ slot[p].pc = "commit"
    /\ Keeps(p, u)
    /\ tenant' = tenant \cup {who.org}
    /\ role' = role \cup {who.org}
    /\ user' = IF slot[p].synced /\ slot[p].user # NoUser THEN user
               ELSE [user EXCEPT ![u] = [status |-> "ACTIVE", org |-> who.org,
                                         person |-> who.person, email |-> who.email]]
    /\ owner' = IF slot[p].assign THEN [owner EXCEPT ![u] = owner[u] + 1] ELSE owner
    /\ progress' = progress \cup {u}
    /\ Release(p)
    /\ slot' = [slot EXCEPT ![p] = [slot[p] EXCEPT !.pc = "scope", !.user = u]]
    /\ UNCHANGED <<active, calls, history>>

(* A unique key broken, or a failure of the database: the middleware logs  *)
(* it and lets the request go on without a provisioned identity.           *)
GoOnWithout(p) ==
    /\ slot[p].pc = "commit"
    /\ \E u \in Users : Row(p, u) /\ ~Keeps(p, u)
    /\ Release(p) /\ Finish(p)
    /\ UNCHANGED <<tenant, user, role, owner, progress, active, calls, history>>

Fail(p) ==
    /\ slot[p].pc # "idle"
    /\ Release(p) /\ Finish(p)
    /\ UNCHANGED <<tenant, user, role, owner, progress, active, calls, history>>

(* assertLocationScope: the request names at most one location, which is   *)
(* active, and the user has an assignment in effect for it or for every    *)
(* location.  The assignment made here is in effect for all of them from   *)
(* now on; a user whom an administrator gave one may have it for a time    *)
(* that is not now.                                                        *)
InScope(p) == slot[p].where = {} \/
    \E l \in active : slot[p].where = {l} /\ owner[slot[p].user] > 0
NotInEffect(p) == slot[p].where # {} /\ slot[p].user \in byHand

Serve(p) ==
    /\ slot[p].pc = "scope" /\ InScope(p)
    /\ Finish(p)
    /\ UNCHANGED <<tables, calls, history>>

Refuse(p) ==
    /\ slot[p].pc = "scope" /\ (~InScope(p) \/ NotInEffect(p))
    /\ Finish(p)
    /\ UNCHANGED <<tables, calls, history>>

-----------------------------------------------------------------------------
(* users.service, roles.service, locations.service: one statement each.    *)
CreateUser(u, org, email, status) ==
    /\ Receive
    /\ org \in tenant
    /\ user[u].status = "none" /\ \A v \in Users : v < u => user[v].status # "none"
    /\ \A v \in Users : user[v].org # org \/ user[v].email # email
    /\ user' = [user EXCEPT ![u] = [status |-> status, org |-> org, person |-> Unlinked,
                                    email |-> email]]
    /\ UNCHANGED <<tenant, role, owner, progress, lock, active, slot, byHand>>

(* An Owner assignment for every location, whatever its period.  Those of  *)
(* another role or for one location are left out: provisioning does not    *)
(* look at them, and every user it serves has one for every location.      *)
Assign(u) ==
    /\ Receive
    /\ user[u].status # "none"
    /\ owner' = [owner EXCEPT ![u] = owner[u] + 1]
    /\ byHand' = byHand \cup {u}
    /\ UNCHANGED <<tenant, user, role, progress, lock, active, slot>>

Deactivate(l) ==
    /\ Receive
    /\ l \in active
    /\ active' = active \ {l}
    /\ UNCHANGED <<tenant, user, role, owner, progress, lock, slot, byHand>>

Next ==
    \/ \E p \in Slots :
          \/ \E who \in Identities, where \in SUBSET Locations : FindUser(p, who, where)
          \/ SyncUser(p) \/ FindRole(p) \/ GoOnWithout(p) \/ Fail(p) \/ Serve(p) \/ Refuse(p)
          \/ \E u \in Users : Commit(p, u)
    \/ \E u \in Users :
          \/ Assign(u)
          \/ \E org \in Orgs, email \in Emails, status \in {"INVITED", "ACTIVE"} :
                CreateUser(u, org, email, status)
    \/ \E l \in Locations : Deactivate(l)

Spec == Init /\ [][Next]_vars

-----------------------------------------------------------------------------
(* Type invariant. *)
TypeOK ==
    /\ tenant \subseteq Orgs /\ role \subseteq Orgs /\ progress \subseteq Users
    /\ user \in [Users -> [status : {"none", "INVITED", "ACTIVE"}, org : Orgs \cup {Unlinked},
                           person : People \cup {Unlinked}, email : Emails \cup {Unlinked}]]
    /\ owner \in [Users -> Nat]
    /\ lock \in [Users -> Slots \cup {Unlinked}]
    /\ active \subseteq Locations
    /\ slot \in [Slots -> [pc : {"idle", "sync", "role", "commit", "scope"},
          who : Identities \cup {Unlinked}, where : SUBSET Locations,
          user : Users \cup {NoUser}, newTenant : BOOLEAN, synced : BOOLEAN, newRole : BOOLEAN, assign : BOOLEAN]]
    /\ calls \in 0..MaxCalls /\ byHand \subseteq Users /\ alone \in BOOLEAN

(* However the first requests of a person overlap, requests leave a user   *)
(* with one Owner assignment: nothing makes it unique, but whoever finds   *)
(* the user without one has to update the user row first, and waits there. *)
OneOwnership == \A u \in Users \ byHand : owner[u] <= 1

(* The rows of a tenant come together: an active person of a tenant has    *)
(* the Owner role, its assignment and a progress row to be asked about.    *)
ProvisionedWhole == \A u \in Users : user[u].person # Unlinked =>
    /\ user[u].org \in tenant /\ user[u].org \in role
    /\ u \in progress /\ owner[u] >= 1

(* When requests do not overlap, one goes on without a provisioned         *)
(* identity only if the person has a row in another tenant, or if the      *)
(* securityUserId and the email of the identity are in two different rows. *)
ServesAlone ==
    \A p \in Slots : alone /\ GoOnWithout(p) =>
        LET who == slot[p].who IN
        \/ \E u \in Users : user[u].person = who.person /\ user[u].org # who.org
        \/ \E u, v \in Users : u # v /\ user[u].person = who.person
                               /\ user[v].org = who.org /\ user[v].email = who.email
=============================================================================
