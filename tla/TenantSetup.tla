------------------------------ MODULE TenantSetup ------------------------------
(***************************************************************************)
(* Setting up ONE tenant: its locations and which is primary, their        *)
(* operating profiles, the business and compliance profiles, and the       *)
(* onboarding progress of one user.  Every operation is one transaction of *)
(* several statements at READ COMMITTED.                                   *)
(***************************************************************************)
EXTENDS Integers, FiniteSets

CONSTANTS
    Requests,
    Locations,    \* ids a Location can be given
    Absent,       \* undefined in a dto; no location
    MaxCalls      \* bound on the number of requests

SetupAssumption == Absent \notin Locations /\ MaxCalls \in Nat

VARIABLES
    location,     \* Location rows, with whether they have a LocationProfile
    locked,       \* who has demoted a location and not committed
    business,     \* the BusinessProfile exists
    compliance,   \* ComplianceProfile rows of the tenant (locationId null)
    progress,     \* OnboardingProgress: complianceStatus and isCompleted
    task,         \* local state of each request in progress
    calls,        \* requests received so far
    promoted,     \* two requests that make a location primary overlapped
    alone         \* no two requests overlapped so far

tables  == <<location, business, compliance, progress>>
history == <<promoted, alone>>
vars    == <<tables, locked, task, calls, history>>

Status == {"NOT_STARTED", "COMPLETED", "SKIPPED"}
Place  == [exists : BOOLEAN, primary : BOOLEAN, active : BOOLEAN, profile : BOOLEAN]
Nowhere == [exists |-> FALSE, primary |-> FALSE, active |-> FALSE, profile |-> FALSE]
Task   == [pc : {"idle", "demote", "save", "comply", "cafe", "read", "complete"},
           at : Locations \cup {Absent}, primary : BOOLEAN \cup {Absent},
           active : BOOLEAN \cup {Absent}, others : SUBSET Locations,
           off : SUBSET Locations, found : BOOLEAN, values : BOOLEAN, status : Status]
Nothing == [pc |-> "idle", at |-> Absent, primary |-> Absent, active |-> Absent,
            others |-> {}, off |-> {}, found |-> FALSE, values |-> FALSE,
            status |-> "NOT_STARTED"]

Init ==
    /\ location = [l \in Locations |-> Nowhere]
    /\ locked = [l \in Locations |-> Absent]
    /\ business = FALSE
    /\ compliance = 0
    /\ progress = [compliance |-> "NOT_STARTED", completed |-> FALSE]
    /\ task = [p \in Requests |-> Nothing]
    /\ calls = 0
    /\ promoted = FALSE
    /\ alone = TRUE

Busy(p)     == task[p].pc # "idle"
Promotes(p) == Busy(p) /\ task[p].primary = TRUE
Exists(l)   == location[l].exists
Free(p, l)  == locked[l] \in {Absent, p}
Receive(p)  == /\ task[p].pc = "idle" /\ calls < MaxCalls
               /\ calls' = calls + 1
               /\ alone' = (alone /\ \A q \in Requests : ~Busy(q))
Finish(p)   == /\ task' = [task EXCEPT ![p] = Nothing]
               /\ locked' = [l \in Locations |-> IF locked[l] = p THEN Absent ELSE locked[l]]

-----------------------------------------------------------------------------
(* LocationsService.create counts the tenant's locations: the first one is *)
(* primary when the dto does not say; updateMany finds the primary ones.   *)
First == \A l \in Locations : ~Exists(l)

NoneDemoted(l) == {}                              \* mutant: others stay primary
Primaries(l) == {o \in Locations \ {l} : location[o].primary}

CreateLocation(p, l, asked) ==
    LET primary == IF asked = Absent THEN First ELSE asked
    IN  /\ Receive(p)
        /\ ~Exists(l) /\ \A q \in Requests : Busy(q) => task[q].at # l
        /\ task' = [task EXCEPT ![p] = [@ EXCEPT !.pc = "demote", !.at = l,
                       !.primary = primary, !.active = TRUE,
                       !.others = IF primary THEN Primaries(l) ELSE {}]]
        /\ promoted' = (promoted \/ (primary /\ \E q \in Requests : Promotes(q)))
        /\ UNCHANGED <<tables, locked>>

(* LocationsService.update, as far as these tables go. *)
UpdateLocation(p, l, primary, active) ==
    /\ Receive(p)
    /\ Exists(l)
    /\ task' = [task EXCEPT ![p] = [@ EXCEPT !.pc = "demote", !.at = l,
                   !.primary = primary, !.active = active,
                   !.others = IF primary = TRUE THEN Primaries(l) ELSE {}]]
    /\ promoted' = (promoted \/ (primary = TRUE /\ \E q \in Requests : Promotes(q)))
    /\ UNCHANGED <<tables, locked>>

(* One row of the updateMany: locked when it is free, and left alone when  *)
(* another request has meanwhile made it not primary.                      *)
Demote(p) == \E o \in task[p].others :
    /\ task[p].pc = "demote"
    /\ Free(p, o)
    /\ task' = [task EXCEPT ![p] = [@ EXCEPT !.others = task[p].others \ {o},
                   !.off = IF location[o].primary THEN task[p].off \cup {o} ELSE task[p].off]]
    /\ locked' = IF location[o].primary THEN [locked EXCEPT ![o] = p] ELSE locked
    /\ UNCHANGED <<tables, history, calls>>

SaveLocation(p) == LET t == task[p] IN
    /\ t.pc = "demote" /\ t.others = {}
    /\ Free(p, t.at)
    /\ location' = [l \in Locations |->
           IF l = t.at
           THEN [location[l] EXCEPT !.exists = TRUE,
                     !.primary = IF t.primary = Absent THEN location[l].primary ELSE t.primary,
                     !.active = IF t.active = Absent THEN location[l].active ELSE t.active]
           ELSE [location[l] EXCEPT !.primary = location[l].primary /\ l \notin t.off]]
    /\ Finish(p)
    /\ UNCHANGED <<business, compliance, progress, history, calls>>

(* upsertProfile, BusinessProfileService.upsert and updateProgress: one    *)
(* decisive write each.  updateProgress stores what the client sends.      *)
SaveCafe(p, l) ==
    /\ Receive(p)
    /\ Exists(l) /\ Free(p, l)
    /\ location' = [location EXCEPT ![l].profile = TRUE]
    /\ Finish(p)
    /\ UNCHANGED <<business, compliance, progress, promoted>>

SaveBusiness(p) ==
    /\ Receive(p)
    /\ business' = TRUE
    /\ Finish(p)
    /\ UNCHANGED <<location, compliance, progress, promoted>>

UpdateProgress(p) ==
    /\ Receive(p)
    /\ \E status \in Status, completed \in BOOLEAN :
          progress' = [compliance |-> status, completed |-> completed]
    /\ Finish(p)
    /\ UNCHANGED <<location, business, compliance, promoted>>

(* upsertComplianceProfile: a row is found or not, and then updated or     *)
(* created; no key makes it unique.                                        *)
FindCompliance(p, values) ==
    /\ Receive(p)
    /\ task' = [task EXCEPT ![p] = [@ EXCEPT !.pc = "comply", !.values = values,
                                             !.found = compliance > 0]]
    /\ UNCHANGED <<tables, locked, promoted>>

RowsAdded(found) == 1                             \* mutant: always created
RowsCreated(found) == IF found THEN 0 ELSE 1

SaveCompliance(p) ==
    /\ task[p].pc = "comply"
    /\ compliance' = compliance + RowsCreated(task[p].found)
    /\ progress' = [progress EXCEPT !.compliance = IF task[p].values THEN "COMPLETED" ELSE "SKIPPED"]
    /\ Finish(p)
    /\ UNCHANGED <<location, business, history, calls>>

-----------------------------------------------------------------------------
(* completeOnboarding reads the profile and the primary location, then its *)
(* operating profile, then the progress and compliance, then writes.       *)
AnyLocation(l) == Exists(l)                       \* mutant: inactive ones count
CanBePrimary(l) == Exists(l) /\ location[l].primary /\ location[l].active

FindPrimary(p) ==
    /\ Receive(p)
    /\ business
    /\ \E l \in Locations :
          /\ CanBePrimary(l)
          /\ task' = [task EXCEPT ![p] = [@ EXCEPT !.pc = "cafe", !.at = l]]
    /\ UNCHANGED <<tables, locked, promoted>>

FindCafe(p) ==
    /\ task[p].pc = "cafe"
    /\ location[task[p].at].profile
    /\ task' = [task EXCEPT ![p].pc = "read"]
    /\ UNCHANGED <<tables, locked, history, calls>>

CompletedStatus(old, exists) ==
    CASE exists /\ old = "NOT_STARTED" -> "COMPLETED"
      [] exists \/ old = "COMPLETED"   -> old
      [] OTHER                         -> "SKIPPED"

ReadProgress(p) ==
    /\ task[p].pc = "read"
    /\ task' = [task EXCEPT ![p] = [@ EXCEPT !.pc = "complete",
                   !.status = CompletedStatus(progress.compliance, compliance > 0)]]
    /\ UNCHANGED <<tables, locked, history, calls>>

Complete(p) ==
    /\ task[p].pc = "complete"
    /\ progress' = [compliance |-> task[p].status, completed |-> TRUE]
    /\ Finish(p)
    /\ UNCHANGED <<location, business, compliance, history, calls>>

Fail(p) == Busy(p) /\ Finish(p) /\ UNCHANGED <<tables, history, calls>>

Arrivals(p) ==
    \/ \E l \in Locations :
          \/ SaveCafe(p, l)
          \/ \E primary \in BOOLEAN \cup {Absent} :
                \/ CreateLocation(p, l, primary)
                \/ \E active \in BOOLEAN \cup {Absent} : UpdateLocation(p, l, primary, active)
    \/ \E values \in BOOLEAN : FindCompliance(p, values)
    \/ SaveBusiness(p) \/ UpdateProgress(p) \/ FindPrimary(p)

Step(p) ==
    \/ Demote(p) \/ SaveLocation(p) \/ SaveCompliance(p)
    \/ FindCafe(p) \/ ReadProgress(p) \/ Complete(p)

Next == \E p \in Requests : Arrivals(p) \/ Step(p) \/ Fail(p)

Spec == Init /\ [][Next]_vars

-----------------------------------------------------------------------------
(* Type invariant. *)
TypeOK ==
    /\ location \in [Locations -> Place]
    /\ locked \in [Locations -> Requests \cup {Absent}]
    /\ business \in BOOLEAN /\ compliance \in Nat
    /\ progress \in [compliance : Status, completed : BOOLEAN]
    /\ task \in [Requests -> Task]
    /\ calls \in 0..MaxCalls
    /\ promoted \in BOOLEAN /\ alone \in BOOLEAN

(* A tenant has one primary location at most, whichever requests overlap,  *)
(* but for two that each make a location primary: updateMany passes over a *)
(* location that became primary after it started.                          *)
OnePrimary == ~promoted => Cardinality({l \in Locations : location[l].primary}) <= 1

(* The tenant's compliance profile is one row. *)
OneComplianceProfile == alone => compliance <= 1

(* Onboarding is completed by completeOnboarding only when the business is *)
(* described and an active primary location has its operating profile, and *)
(* what the user said of compliance is kept.                               *)
SetUp == business /\ \E l \in Locations :
    location[l].exists /\ location[l].primary /\ location[l].active /\ location[l].profile
CompletesSetUp == \A p \in Requests : alone /\ Complete(p) =>
    SetUp /\ (progress.compliance = "COMPLETED" => progress'.compliance = "COMPLETED")
=============================================================================
