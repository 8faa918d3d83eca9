--------------------------- MODULE PlanVersioning ---------------------------
(***************************************************************************)
(* The formal plan of one planning run and the patches that change it: the *)
(* requests with which its user writes and decides patches and opens the   *)
(* trip (api/ai_planner.py, api/companion.py), the replans a trip event or *)
(* the user starts (services/dynamic_replanning.py, services/replanning.py)*)
(* and the commit boundary (services/plan_versioning.py).  One action is   *)
(* one database transaction, or the part of one up to a read that a write  *)
(* of another transaction can make stale.                                  *)
(*                                                                         *)
(* Rows are locked as in PostgreSQL: SELECT ... FOR UPDATE of a patch keeps *)
(* the row until the transaction ends.  The lock on the newest version row *)
(* is left out: a transaction that waited for it still sees the old row as *)
(* the newest one, and the unique constraint decides, as it does here.  It *)
(* decides at the query of the trips, which flushes the new version first. *)
(* A transaction reads what was committed before each of its queries (READ *)
(* COMMITTED), so a trip may be inserted between that query and the commit. *)
(* Replans overlap: the trip-mutate lock has a TTL nobody renews, and it is *)
(* not the lock Workers use.  The runs for one event do not, their commits *)
(* are fenced (TripEventWorker).                                           *)
(*                                                                         *)
(* Abstracted: snapshots and operations other than the risk a review finds *)
(* in them, trip.state, audit rows, artifacts and workflow checkpoints.    *)
(***************************************************************************)
EXTENDS Naturals, FiniteSets

CONSTANTS
  Patches,          \* plan_patches rows
  Users,            \* requests of the user of the plan
  Events,           \* trip events whose run proposes a replan
  Manual,           \* replans requested through the API
  Risks,            \* what reviews may find in a patch, see Risk
  NoEvent,          \* the source of a patch no event asked for
  NoPatch,
  MaxReplans,       \* max_replans_per_trip
  MaxRedeliveries   \* bound: crashes or retries of the runs of events

Runs == Events \cup Manual

\* What review_dynamic_patch finds in the operations and in the impact.
Risk == [operations : {"low", "confirm", "blocked"}, impact : {"low", "confirm", "blocked"}]

ASSUME ReplanAssumption == MaxReplans \in Nat /\ MaxRedeliveries \in Nat
ASSUME RiskAssumption == Risks \subseteq Risk /\ Risks # {}
ASSUME NoneAssumption == NoEvent \notin Events /\ NoPatch \notin Patches
ASSUME RunsAssumption == Events \cap Manual = {}

VARIABLES
  latest,           \* the newest plan_versions row
  madeBy,           \* the version a patch has made, 0 if none
  base,             \* PlanPatch.base_version, 0 before the row exists
  status,           \* PlanPatch.status
  source,           \* impact.source_event_id
  risk,             \* what a review of the whole patch finds
  automatic,        \* history: patches applied without a decision of the user
  selected,         \* patches whose application found the trip on their base version
  trip,             \* TripSession.current_plan_version, 0 before the trip exists
  optIn,            \* auto_apply_low_risk_patches
  count,            \* replan_count in the context of the trip
  openedLate,       \* history: the trip was inserted on a version already replaced,
                    \* or whose replacement had already looked for trips
  \* ---- requests of the user
  userPc,           \* where each request is
  userPatch,        \* the patch it writes or decides
  userBase,         \* the version it read as the newest
  \* ---- replans
  runPc,            \* where each replan is
  runTrip,          \* version of the trip in its session
  runCount,         \* replan_count in its session
  runPatch,         \* the patch it created or found
  found,            \* it found the patch: the result carries no operations
  copy,             \* status of the patch in its session
  redeliveries

planVars  == <<latest, madeBy, automatic, selected>>
patchVars == <<base, status, source, risk>>
tripVars  == <<trip, optIn, count, openedLate>>
userVars  == <<userPc, userPatch, userBase>>
runVars   == <<runPc, runTrip, runCount, runPatch, found, copy, redeliveries>>
vars == <<planVars, patchVars, tripVars, userVars, runVars>>

Status == {"absent", "pending", "accepted", "rejected", "blocked"}
Unseen == [operations |-> "confirm", impact |-> "confirm"]

TypeOK ==
  /\ latest \in Nat /\ madeBy \in [Patches -> Nat] /\ automatic \subseteq Patches
  /\ selected \subseteq Patches /\ openedLate \in BOOLEAN
  /\ base \in [Patches -> Nat] /\ status \in [Patches -> Status]
  /\ source \in [Patches -> Events \cup {NoEvent}] /\ risk \in [Patches -> Risk]
  /\ trip \in Nat /\ optIn \in BOOLEAN /\ count \in 0..MaxReplans
  /\ userPc \in [Users -> {"idle", "write", "open", "validate", "commit", "done"}]
  /\ userPatch \in [Users -> Patches \cup {NoPatch}] /\ userBase \in [Users -> Nat]
  /\ runPc \in [Runs -> {"idle", "propose", "solve", "review", "reviewed", "apply",
                         "validate", "commit", "done"}]
  /\ runTrip \in [Runs -> Nat] /\ runCount \in [Runs -> 0..MaxReplans]
  /\ runPatch \in [Runs -> Patches \cup {NoPatch}] /\ found \in [Runs -> BOOLEAN]
  /\ copy \in [Runs -> Status] /\ redeliveries \in 0..MaxRedeliveries

Init ==
  /\ latest = 1 /\ madeBy = [p \in Patches |-> 0] /\ automatic = {}
  /\ selected = {} /\ openedLate = FALSE
  /\ base = [p \in Patches |-> 0] /\ status = [p \in Patches |-> "absent"]
  /\ source = [p \in Patches |-> NoEvent] /\ risk = [p \in Patches |-> Unseen]
  /\ trip = 0 /\ optIn \in BOOLEAN /\ count = 0
  /\ userPc = [u \in Users |-> "idle"]
  /\ userPatch = [u \in Users |-> NoPatch] /\ userBase = [u \in Users |-> 0]
  /\ runPc = [r \in Runs |-> "idle"]
  /\ runTrip = [r \in Runs |-> 0] /\ runCount = [r \in Runs |-> 0]
  /\ runPatch = [r \in Runs |-> NoPatch] /\ found = [r \in Runs |-> FALSE]
  /\ copy = [r \in Runs |-> "absent"] /\ redeliveries = 0

-----------------------------------------------------------------------------
(* Helpers *)

\* Request u, or replan r, goes on.
UserGoto(u, from, to) == userPc[u] = from /\ userPc' = [userPc EXCEPT ![u] = to]
RunGoto(r, from, to)  == runPc[r] = from /\ runPc' = [runPc EXCEPT ![r] = to]

\* A transaction that has come to one of these places works on patch p.
At(p, places) ==
  \/ \E u \in Users : userPc[u] \in places /\ userPatch[u] = p
  \/ \E r \in Runs : runPc[r] \in places /\ runPatch[r] = p

\* A transaction holds the row of patch p FOR UPDATE.
Locked(p) == At(p, {"validate", "commit"})

\* It has inserted the version patch p makes and is to commit.
InFlight(p) == At(p, {"commit"})

\* An insert of a version that exists or is being inserted is not refused.
VersionFree_NoConstraint(v) == v > 1

\* The unique constraint on (planning_run_id, version) lets version v in: nobody
\* has made it, and nobody who may still roll back has inserted it.
VersionFree(v) ==
  v > 1 /\ \A p \in Patches : madeBy[p] # v /\ (InFlight(p) => base[p] + 1 # v)

\* A new row of plan_patches.
Insert(p, version, event, r) ==
  /\ base[p] = 0
  /\ base' = [base EXCEPT ![p] = version]
  /\ status' = [status EXCEPT ![p] = "pending"]
  /\ source' = [source EXCEPT ![p] = event]
  /\ risk' = [risk EXCEPT ![p] = r]

\* A commit of an application that leaves the trips where they are.
Advance_NoTrips(p) ==
  /\ latest' = base[p] + 1
  /\ madeBy' = [madeBy EXCEPT ![p] = base[p] + 1]
  /\ status' = [status EXCEPT ![p] = "accepted"]
  /\ UNCHANGED trip

\* The commit of an application: the next version, the status of the patch, and
\* the trip if the application had found it.
Advance(p) ==
  /\ latest' = base[p] + 1
  /\ madeBy' = [madeBy EXCEPT ![p] = base[p] + 1]
  /\ status' = [status EXCEPT ![p] = "accepted"]
  /\ trip' = IF p \in selected THEN base[p] + 1 ELSE trip

\* The end of an application: the commit, or a rollback (the fence of the Worker,
\* the connection).
Apply(p) ==
  \/ Advance(p)
  \/ UNCHANGED <<latest, madeBy, status, trip>>

\* The route is recalculated: the version goes in, and the trips on the version
\* before it are read.
SelectTrips(p) ==
  /\ VersionFree(base[p] + 1)
  /\ selected' = IF trip = base[p] THEN selected \cup {p} ELSE selected \ {p}
  /\ UNCHANGED status

\* A refused insert after which the status is committed all the same.
Refuse_NoRollback(p) ==
  /\ status' = [status EXCEPT ![p] = IF VersionFree(base[p] + 1) THEN "blocked" ELSE "accepted"]
  /\ UNCHANGED selected

\* The application ends before: the patch is blocked as infeasible, or everything
\* is rolled back (the version is taken, or the map provider raised).
Refuse(p) ==
  /\ status' \in {status, [status EXCEPT ![p] = "blocked"]}
  /\ UNCHANGED selected

-----------------------------------------------------------------------------
(* Requests of the user *)

\* create_plan_patch: the client names a base version, which is compared with
\* the newest one before the insert.
WriteRead(u) ==
  /\ UserGoto(u, "idle", "write")
  /\ userBase' = [userBase EXCEPT ![u] = latest]
  /\ UNCHANGED <<planVars, patchVars, tripVars, userPatch, runVars>>

WriteInsert(u, p) ==
  /\ UserGoto(u, "write", "done")
  /\ Insert(p, userBase[u], NoEvent, Unseen)
  /\ UNCHANGED <<planVars, tripVars, userPatch, userBase, runVars>>

\* decide_plan_patch, not accepted.
Reject(u, p) ==
  /\ status[p] = "pending" /\ ~Locked(p)
  /\ UserGoto(u, "idle", "done")
  /\ status' = [status EXCEPT ![p] = "rejected"]
  /\ UNCHANGED <<planVars, base, source, risk, tripVars, userPatch, userBase, runVars>>

\* An acceptance that does not look at the status under the lock.
AcceptRead_AnyStatus(u, p) ==
  /\ base[p] # 0 /\ ~Locked(p)
  /\ UserGoto(u, "idle", IF latest = base[p] THEN "validate" ELSE "done")
  /\ userPatch' = [userPatch EXCEPT ![u] = p]
  /\ UNCHANGED <<planVars, patchVars, tripVars, userBase, runVars>>

\* decide_plan_patch, accepted: the checks under the row lock.
AcceptRead(u, p) ==
  /\ status[p] = "pending" /\ ~Locked(p)
  /\ UserGoto(u, "idle", IF latest = base[p] THEN "validate" ELSE "done")
  /\ userPatch' = [userPatch EXCEPT ![u] = p]
  /\ UNCHANGED <<planVars, patchVars, tripVars, userBase, runVars>>

AcceptSelect(u) ==
  LET p == userPatch[u]
  IN  /\ \/ UserGoto(u, "validate", "commit") /\ SelectTrips(p)
         \/ UserGoto(u, "validate", "done") /\ Refuse(p)
      /\ UNCHANGED <<latest, madeBy, automatic, base, source, risk, tripVars, userPatch,
                     userBase, runVars>>

AcceptCommit(u) ==
  /\ UserGoto(u, "commit", "done")
  /\ Apply(userPatch[u])
  /\ UNCHANGED <<automatic, selected, base, source, risk, optIn, count, openedLate,
                 userPatch, userBase, runVars>>

\* create_trip_session: the newest version is read, the trip is inserted with it.
OpenRead(u) ==
  /\ trip = 0
  /\ UserGoto(u, "idle", "open")
  /\ userBase' = [userBase EXCEPT ![u] = latest]
  /\ UNCHANGED <<planVars, patchVars, tripVars, userPatch, runVars>>

OpenInsert(u) ==
  /\ trip = 0       \* bound: one trip of the plan
  /\ UserGoto(u, "open", "done")
  /\ trip' = userBase[u]
  /\ openedLate' = (\/ userBase[u] # latest
                    \/ \E p \in Patches : InFlight(p) /\ base[p] = userBase[u])
  /\ UNCHANGED <<planVars, patchVars, optIn, count, userPatch, userBase, runVars>>

-----------------------------------------------------------------------------
(* Replans *)

\* The trip is loaded into the session; its copy is not refreshed later.
Load(r) ==
  /\ trip # 0
  /\ RunGoto(r, "idle", "propose")
  /\ runTrip' = [runTrip EXCEPT ![r] = trip]
  /\ runCount' = [runCount EXCEPT ![r] = count]
  /\ UNCHANGED <<planVars, patchVars, tripVars, userVars, runPatch, found, copy,
                 redeliveries>>

\* Pending patches the same event has left against the version of the session.
Earlier(r) ==
  {p \in Patches : /\ r \in Events /\ source[p] = r
                   /\ base[p] = runTrip[r] /\ status[p] = "pending"}

\* A replan that does not look for an earlier patch of its event.
Propose_NoDedupe(r) ==
  /\ RunGoto(r, "propose", IF runCount[r] >= MaxReplans THEN "done" ELSE "solve")
  /\ UNCHANGED <<planVars, patchVars, tripVars, userVars, runTrip, runCount, runPatch,
                 found, copy, redeliveries>>

\* A replan without the early return for a spent budget.
Propose_NoBudget(r) ==
  /\ \/ /\ Earlier(r) = {}
        /\ RunGoto(r, "propose", "solve")
        /\ UNCHANGED <<runPatch, found>>
     \/ /\ RunGoto(r, "propose", "review")
        /\ \E p \in Earlier(r) : runPatch' = [runPatch EXCEPT ![r] = p]
        /\ found' = [found EXCEPT ![r] = TRUE]
  /\ UNCHANGED <<planVars, patchVars, tripVars, userVars, runTrip, runCount, copy,
                 redeliveries>>

\* create_pending_replan up to the calls of the provider: the budget, then the
\* search for a patch this event has already left.
Propose(r) ==
  /\ \/ /\ runCount[r] >= MaxReplans \/ Earlier(r) = {}
        /\ RunGoto(r, "propose", IF runCount[r] >= MaxReplans THEN "done" ELSE "solve")
        /\ UNCHANGED <<runPatch, found>>
     \/ /\ runCount[r] < MaxReplans
        /\ RunGoto(r, "propose", "review")
        /\ \E p \in Earlier(r) : runPatch' = [runPatch EXCEPT ![r] = p]
        /\ found' = [found EXCEPT ![r] = TRUE]
  /\ UNCHANGED <<planVars, patchVars, tripVars, userVars, runTrip, runCount, copy,
                 redeliveries>>

\* Nothing feasible, or nothing to change.
SolveNothing(r) ==
  /\ RunGoto(r, "solve", "done")
  /\ UNCHANGED <<planVars, patchVars, tripVars, userVars, runTrip, runCount, runPatch,
                 found, copy, redeliveries>>

\* The patch and the context of the trip, written from the copy of the session.
SolvePatch(r, p) ==
  /\ RunGoto(r, "solve", "review")
  /\ \E k \in Risks : Insert(p, runTrip[r], IF r \in Events THEN r ELSE NoEvent, k)
  /\ count' = runCount[r] + 1
  /\ runCount' = [runCount EXCEPT ![r] = @ + 1]
  /\ runPatch' = [runPatch EXCEPT ![r] = p]
  /\ found' = [found EXCEPT ![r] = FALSE]
  /\ UNCHANGED <<planVars, trip, optIn, openedLate, userVars, runTrip, copy, redeliveries>>

\* The session loads the patch for the review and keeps this copy of it.
ReviewLoad(r) ==
  /\ RunGoto(r, "review", "reviewed")
  /\ copy' = [copy EXCEPT ![r] = status[runPatch[r]]]
  /\ UNCHANGED <<planVars, patchVars, tripVars, userVars, runTrip, runCount, runPatch,
                 found, redeliveries>>

\* What review_dynamic_patch sees: a found patch comes without its operations.
Findings(r) ==
  {risk[runPatch[r]].impact} \cup (IF found[r] THEN {} ELSE {risk[runPatch[r]].operations})

\* The verdict is committed: a blocking one over any status, any other leaves the
\* status alone.  Low risk goes on to the automatic application.
ReviewCommit(r) ==
  LET p == runPatch[r]
  IN  /\ ~Locked(p)
      /\ RunGoto(r, "reviewed", IF Findings(r) = {"low"} /\ optIn THEN "apply" ELSE "done")
      /\ IF "blocked" \in Findings(r)
         THEN /\ status' = [status EXCEPT ![p] = "blocked"]
              /\ copy' = [copy EXCEPT ![r] = "blocked"]
         ELSE UNCHANGED <<status, copy>>
      /\ UNCHANGED <<planVars, base, source, risk, tripVars, userVars, runTrip, runCount,
                     runPatch, found, redeliveries>>

\* apply_plan_patch_cas: the row is locked, but the status compared is the one of
\* the object the session already holds.
ApplyRead(r) ==
  LET p == runPatch[r]
  IN  /\ ~Locked(p)
      /\ RunGoto(r, "apply",
                 IF copy[r] = "pending" /\ latest = base[p] THEN "validate" ELSE "done")
      /\ UNCHANGED <<planVars, patchVars, tripVars, userVars, runTrip, runCount, runPatch,
                     found, copy, redeliveries>>

ApplySelect(r) ==
  LET p == runPatch[r]
  IN  /\ \/ RunGoto(r, "validate", "commit") /\ SelectTrips(p)
         \/ RunGoto(r, "validate", "done") /\ Refuse(p)
      /\ UNCHANGED <<latest, madeBy, automatic, base, source, risk, tripVars, userVars,
                     runTrip, runCount, runPatch, found, copy, redeliveries>>

ApplyCommit(r) ==
  LET p == runPatch[r]
  IN  /\ RunGoto(r, "commit", "done")
      /\ Apply(p)
      /\ automatic' = IF madeBy' = madeBy THEN automatic ELSE automatic \cup {p}
      /\ UNCHANGED <<selected, base, source, risk, optIn, count, openedLate, userVars,
                     runTrip, runCount, runPatch, found, copy, redeliveries>>

\* The Worker dies, or the run fails after its replan, and the event comes again.
Redeliver(r) ==
  /\ r \in Events
  /\ redeliveries < MaxRedeliveries
  /\ redeliveries' = redeliveries + 1
  /\ runPc[r] # "idle"
  /\ runPc' = [runPc EXCEPT ![r] = "idle"]
  /\ runTrip' = [runTrip EXCEPT ![r] = 0]
  /\ runCount' = [runCount EXCEPT ![r] = 0]
  /\ runPatch' = [runPatch EXCEPT ![r] = NoPatch]
  /\ found' = [found EXCEPT ![r] = FALSE]
  /\ copy' = [copy EXCEPT ![r] = "absent"]
  /\ UNCHANGED <<planVars, patchVars, tripVars, userVars>>

-----------------------------------------------------------------------------
UserStep(u) ==
  \/ WriteRead(u) \/ AcceptSelect(u) \/ AcceptCommit(u) \/ OpenRead(u) \/ OpenInsert(u)
  \/ \E p \in Patches : WriteInsert(u, p) \/ Reject(u, p) \/ AcceptRead(u, p)

RunStep(r) ==
  \/ Load(r) \/ Propose(r) \/ SolveNothing(r) \/ ReviewLoad(r) \/ ReviewCommit(r)
  \/ ApplyRead(r) \/ ApplySelect(r) \/ ApplyCommit(r) \/ Redeliver(r)
  \/ \E p \in Patches : SolvePatch(r, p)

Next == (\E u \in Users : UserStep(u)) \/ (\E r \in Runs : RunStep(r))

Spec == Init /\ [][Next]_vars

-----------------------------------------------------------------------------
(* Properties *)

\* Every version but the first was made by a patch written against the one before.
VersionsMade ==
  /\ latest >= 1
  /\ \A v \in 2..latest : \E p \in Patches : madeBy[p] = v
  /\ \A p \in Patches :
       /\ base[p] <= latest /\ madeBy[p] <= latest
       /\ madeBy[p] # 0 => base[p] # 0 /\ madeBy[p] = base[p] + 1

\* What a request or a replan has read as the newest version exists.
ReadsExist ==
  /\ trip <= latest
  /\ \A u \in Users : userPc[u] \in {"write", "open"} => userBase[u] \in 1..latest
  /\ \A r \in Runs : runPc[r] \in {"propose", "solve"} => runTrip[r] \in 1..latest

\* What it decides, reviews or applies is a row.
PatchesExist ==
  /\ \A u \in Users :
       userPc[u] \in {"validate", "commit"} =>
         userPatch[u] \in Patches /\ base[userPatch[u]] # 0
  /\ \A r \in Runs :
       runPc[r] \in {"review", "reviewed", "apply", "validate", "commit"}
         => runPatch[r] \in Patches /\ base[runPatch[r]] # 0

\* A replan that solves has budget left.
BudgetLeft == \A r \in Runs : runPc[r] = "solve" => runCount[r] < MaxReplans

\* At most one transaction has inserted a version it has not committed, and that
\* version follows the newest.
InsertAlone ==
  /\ \A u, v \in Users : userPc[u] = "commit" /\ userPc[v] = "commit" => u = v
  /\ \A r, s \in Runs : runPc[r] = "commit" /\ runPc[s] = "commit" => r = s
  /\ \A u \in Users, r \in Runs : ~(userPc[u] = "commit" /\ runPc[r] = "commit")
  /\ \A p \in Patches : InFlight(p) => base[p] = latest

\* The invariant the argument for the chain rests on.
ChainInv == VersionsMade /\ ReadsExist /\ PatchesExist /\ BudgetLeft /\ InsertAlone

\* Plan versions form one immutable chain: no race of acceptances, automatic
\* applications and stale proposals makes a version twice, skips one or makes
\* one from a patch written against another (docs/adr/0017, "the unique
\* constraint is the final fencing gate").
Chain == INSTANCE PlanChain
ImplementsChain == Chain!ChainSpec

\* A patch is accepted exactly if it has made a version; only a late review may
\* still mark it as blocked (plan_versioning.py, the rollback on IntegrityError).
StatusMatchesVersions ==
  \A p \in Patches :
    /\ madeBy[p] # 0 => status[p] \in {"accepted", "blocked"}
    /\ status[p] = "accepted" => madeBy[p] = base[p] + 1

\* On a trip that has not opted in, the decision of the user stands: a decided
\* patch is not decided again, though a blocking review may mark it.
DecisionStands ==
  [][\A p \in Patches :
       ~optIn /\ status[p] \in {"accepted", "rejected"} => status'[p] \in {status[p], "blocked"}
     ]_status

\* However often an event is delivered, it leaves at most one patch waiting
\* against each version (docs/adr/0017, "source event patch deduplication").
OnePendingPerEvent ==
  \A p, q \in Patches :
    /\ source[p] # NoEvent /\ source[p] = source[q] /\ base[p] = base[q]
    /\ status[p] = "pending" /\ status[q] = "pending"
    => p = q

\* The application that makes the next version takes the trip along although it
\* looks for trips before it commits.  A trip is left behind only if it was opened
\* from a version that had been replaced when it was inserted, or after the
\* replacement had looked for trips; and it is never ahead of the versions.
TripMovesWithPlan ==
  /\ trip <= latest
  /\ trip \notin {0, latest} => openedLate

\* docs/adr/0017: transport changes, replacements, material cost increases and
\* conflicts are never silently applied.
HighRiskNeedsConfirmation ==
  \A p \in automatic : risk[p].operations = "low" /\ risk[p].impact = "low"

=============================================================================
