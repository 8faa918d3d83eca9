-------------------------- MODULE AgentSharedState --------------------------
(***************************************************************************)
(* The Shared State of one trip (key agent-shared-state:v1:trip-<id>-state, *)
(* services/agent_shared_state.py) and the Companion runs that use it      *)
(* (AgentController.run_once in services/agent_controller.py), with the    *)
(* compare-and-set of infrastructure/runtime_store.py.  One action is one  *)
(* call of the runtime store.  Runs overlap when a Worker has lost its     *)
(* lease or when the event came twice; the privacy purge and the TTL erase *)
(* the key at any time.                                                    *)
(*                                                                         *)
(* Abstracted: the business fields other than route_plan, for which the    *)
(* number of its PlanVersion stands, hashes (the content is compared       *)
(* itself), the byte limit.                                                *)
(***************************************************************************)
EXTENDS Integers, SequencesExt, SharedStatePhases

CONSTANTS
  Runs,           \* Companion runs, each for one delivered event
  MaxVersion,     \* bound: formal PlanVersions of the trip
  MaxErasures,    \* bound: times the key disappears
  MaxHistory      \* agent_shared_state_max_history

ASSUME VersionAssumption == MaxVersion \in Nat \ {0}
ASSUME ErasureAssumption == MaxErasures \in Nat
ASSUME HistoryAssumption == MaxHistory \in Nat \ {0}

VARIABLES
  value,        \* the JSON under the key, or NoValue
  formal,       \* current_plan_version of the trip, in the database
  tripDone,     \* TripSession.state = "completed"
  erasures,     \* how often the key has disappeared
  pc,           \* where each run is
  plan,         \* route_plan the run loaded from the database
  done,         \* trip.state the run loaded
  expected,     \* shared_state_revision of the run
  view,         \* what read_for_agent showed the run
  action,       \* the action it is going to record
  seen,         \* the state the update or the refresh is built from
  since         \* history: erasures when the run began

runVars == <<pc, plan, done, expected, view, action, seen, since>>
vars == <<value, formal, tripDone, erasures, runVars>>

\* Entries of execution_history; a refresh and the initialization are the
\* Supervisor's, everything else is a Companion action of some run.
Entry == [revision : Nat, by : Runs, action : Actions \cup {"state_initialized",
                                                          "formal_plan_refreshed"}]
State == [revision : Nat, phase : Phases, version : 1..MaxVersion, created : 0..MaxErasures,
          history : Seq(Entry)]
NoValue == [revision |-> -1]

RunPc == {"idle", "get", "create", "reread", "sync_read", "sync_write", "view", "decide",
          "read", "write", "audit", "delete", "done"}

TypeOK ==
  /\ value \in State \cup {NoValue}
  /\ formal \in 1..MaxVersion /\ tripDone \in BOOLEAN /\ erasures \in 0..MaxErasures
  /\ pc \in [Runs -> RunPc]
  /\ plan \in [Runs -> 1..MaxVersion] /\ done \in [Runs -> BOOLEAN]
  /\ expected \in [Runs -> Nat]
  /\ view \in [Runs -> State \cup {NoValue}] /\ seen \in [Runs -> State \cup {NoValue}]
  /\ action \in [Runs -> Actions]
  /\ since \in [Runs -> 0..MaxErasures]

Init ==
  /\ value = NoValue
  /\ formal = 1 /\ tripDone = FALSE /\ erasures = 0
  /\ pc = [r \in Runs |-> "idle"]
  /\ plan = [r \in Runs |-> 1] /\ done = [r \in Runs |-> FALSE]
  /\ expected = [r \in Runs |-> 0]
  /\ view = [r \in Runs |-> NoValue] /\ seen = [r \in Runs |-> NoValue]
  /\ action = [r \in Runs |-> "trip_started"]
  /\ since = [r \in Runs |-> 0]

-----------------------------------------------------------------------------
(* Helpers *)

Present == value # NoValue

Goto(r, from, to) == pc[r] = from /\ pc' = [pc EXCEPT ![r] = to]

\* The run ends: its result is returned or an exception leaves run_once.
Ends(r, from) == Goto(r, from, "done")

\* A slice that keeps the oldest entries.
Appended_KeepsOldest(history, entry) ==
  LET all == Append(history, entry)
  IN  SubSeq(all, 1, IF Len(all) > MaxHistory THEN MaxHistory ELSE Len(all))

\* [*history, event][-max_history:]
Appended(history, entry) ==
  LET all == Append(history, entry)
  IN  SubSeq(all, IF Len(all) > MaxHistory THEN Len(all) - MaxHistory + 1 ELSE 1, Len(all))

\* A fresh state, as initialize seeds it from a formal plan.
Fresh(r) ==
  [revision |-> 0, phase |-> "plan_ready", version |-> plan[r], created |-> erasures,
   history |-> << [revision |-> 0, by |-> r, action |-> "state_initialized"] >>]

\* The next revision of state s.
NextRevision(s, r, what) ==
  [s EXCEPT !.revision = @ + 1,
            !.history = Appended(@, [revision |-> s.revision + 1, by |-> r, action |-> what])]

\* A plain set in the place of the compare-and-set.
Matches_PlainSet(revision) == Present

\* A compare_set_json that takes a missing key for a match.
Matches_MissingKey(revision) == ~Present \/ value.revision = revision

\* compare_set_json, one script in Redis: a present state matches its revision,
\* a missing one only -1.
Matches(revision) == value.revision = revision

-----------------------------------------------------------------------------
(* The rest of the system *)

\* A patch is accepted: the trip moves on to the next plan version.
PublishPlan ==
  /\ formal < MaxVersion
  /\ formal' = formal + 1
  /\ UNCHANGED <<value, tripDone, erasures, runVars>>

CompleteTrip ==
  /\ ~tripDone
  /\ tripDone' = TRUE
  /\ UNCHANGED <<value, formal, erasures, runVars>>

\* The privacy purge deletes the key, or its TTL runs out.
Erase ==
  /\ Present /\ erasures < MaxErasures
  /\ value' = NoValue
  /\ erasures' = erasures + 1
  /\ UNCHANGED <<formal, tripDone, runVars>>

-----------------------------------------------------------------------------
(* initialize and sync_formal_route_plan *)

Begin(r) ==
  /\ Goto(r, "idle", "get")
  /\ plan' = [plan EXCEPT ![r] = formal]
  /\ done' = [done EXCEPT ![r] = tripDone]
  /\ since' = [since EXCEPT ![r] = erasures]
  /\ UNCHANGED <<value, formal, tripDone, erasures, expected, view, action, seen>>

\* The first get of initialize: absent, the plan of another version, or as wanted.
InitializeGet(r) ==
  /\ \/ ~Present /\ Goto(r, "get", "create") /\ UNCHANGED expected
     \/ /\ Present /\ expected' = [expected EXCEPT ![r] = value.revision]
        /\ Goto(r, "get", IF value.version = plan[r] THEN "view" ELSE "sync_read")
  /\ UNCHANGED <<value, formal, tripDone, erasures, plan, done, view, action, seen, since>>

\* compare_set_json with -1.
InitializeCreate(r) ==
  /\ \/ /\ ~Present /\ Goto(r, "create", "view")
        /\ value' = Fresh(r)
        /\ expected' = [expected EXCEPT ![r] = 0]
     \/ Present /\ Goto(r, "create", "reread") /\ UNCHANGED <<value, expected>>
  /\ UNCHANGED <<formal, tripDone, erasures, plan, done, view, action, seen, since>>

\* A reread that trusts the state to be there.
InitializeReread_Unchecked(r) ==
  /\ Goto(r, "reread", "view")
  /\ expected' = [expected EXCEPT ![r] = value.revision]
  /\ UNCHANGED <<value, formal, tripDone, erasures, plan, done, view, action, seen, since>>

\* Somebody else created it: take that one, whatever plan it holds.
InitializeReread(r) ==
  /\ \/ ~Present /\ Ends(r, "reread") /\ UNCHANGED expected
     \/ /\ Present /\ Goto(r, "reread", "view")
        /\ expected' = [expected EXCEPT ![r] = value.revision]
  /\ UNCHANGED <<value, formal, tripDone, erasures, plan, done, view, action, seen, since>>

\* The plan_version a snapshot carries.  The planning request writes 1 into the
\* first one and a patch copies the field with the rest of its base, so that all
\* snapshots of a trip carry the same number.
Stamp(version) == 1

\* The checks of sync_formal_route_plan: same revision, no older plan_version.
RefreshAllowed(r) ==
  Present /\ value.revision = expected[r] /\ Stamp(value.version) <= Stamp(plan[r])

SyncRead(r) ==
  /\ \/ ~RefreshAllowed(r) /\ Ends(r, "sync_read") /\ UNCHANGED seen
     \/ /\ RefreshAllowed(r)
        /\ Goto(r, "sync_read", IF value.version = plan[r] THEN "view" ELSE "sync_write")
        /\ seen' = [seen EXCEPT ![r] = value]
  /\ UNCHANGED <<value, formal, tripDone, erasures, plan, done, expected, view, action, since>>

SyncWrite(r) ==
  /\ \/ ~Matches(expected[r]) /\ Ends(r, "sync_write") /\ UNCHANGED <<value, expected>>
     \/ /\ Matches(expected[r]) /\ Goto(r, "sync_write", "view")
        /\ value' = [NextRevision(seen[r], r, "formal_plan_refreshed")
                       EXCEPT !.version = plan[r]]
        /\ expected' = [expected EXCEPT ![r] = @ + 1]
  /\ UNCHANGED <<formal, tripDone, erasures, plan, done, view, action, seen, since>>

-----------------------------------------------------------------------------
(* The run and its update *)

\* read_for_agent: what the decisions of the run are based on.
ReadView(r) ==
  /\ \/ ~Present /\ Ends(r, "view") /\ UNCHANGED view
     \/ /\ Present /\ Goto(r, "view", "decide")
        /\ view' = [view EXCEPT ![r] = value]
  /\ UNCHANGED <<value, formal, tripDone, erasures, plan, done, expected, action, seen, since>>

\* An updater that passes on the revision it has just read.
DecideAction_FreshRevision(r) ==
  /\ \/ ~Present /\ Ends(r, "decide") /\ UNCHANGED <<action, expected>>
     \/ /\ Present /\ Goto(r, "decide", "read")
        /\ expected' = [expected EXCEPT ![r] = value.revision]
        /\ action' = [action EXCEPT ![r] =
             IF done[r] THEN "trip_completed"
             ELSE IF value.phase \in {"plan_ready", "finalized"} THEN "trip_started"
             ELSE "trip_event_processed"]
  /\ UNCHANGED <<value, formal, tripDone, erasures, plan, done, view, seen, since>>

\* shared_state_updater, after the run: the action depends on the present phase,
\* the expected revision is still the one initialize returned.
DecideAction(r) ==
  /\ \/ ~Present /\ Ends(r, "decide") /\ UNCHANGED action
     \/ /\ Present /\ Goto(r, "decide", "read")
        /\ action' = [action EXCEPT ![r] =
             IF done[r] THEN "trip_completed"
             ELSE IF value.phase \in {"plan_ready", "finalized"} THEN "trip_started"
             ELSE "trip_event_processed"]
  /\ UNCHANGED <<value, formal, tripDone, erasures, plan, done, expected, view, seen, since>>

\* The checks of update: the revision, then the transition.
UpdateAllowed(r) ==
  Present /\ value.revision = expected[r] /\ MayPerform(action[r], value.phase)

UpdateRead(r) ==
  /\ \/ ~UpdateAllowed(r) /\ Ends(r, "read") /\ UNCHANGED seen
     \/ UpdateAllowed(r) /\ Goto(r, "read", "write") /\ seen' = [seen EXCEPT ![r] = value]
  /\ UNCHANGED <<value, formal, tripDone, erasures, plan, done, expected, view, action, since>>

UpdateWrite(r) ==
  /\ \/ ~Matches(expected[r]) /\ Ends(r, "write") /\ UNCHANGED <<value, expected>>
     \/ /\ Matches(expected[r]) /\ Goto(r, "write", "audit")
        /\ value' = [NextRevision(seen[r], r, action[r])
                       EXCEPT !.phase = ActionPhase[action[r]]]
        /\ expected' = [expected EXCEPT ![r] = @ + 1]
  /\ UNCHANGED <<formal, tripDone, erasures, plan, done, view, action, seen, since>>

\* audit for the snapshot, the database commit, and the deletion that follows it
\* when the trip is over.
Audit(r) ==
  /\ Goto(r, "audit", IF Present /\ done[r] THEN "delete" ELSE "done")
  /\ UNCHANGED <<value, formal, tripDone, erasures, plan, done, expected, view, action,
                 seen, since>>

Delete(r) ==
  /\ erasures < MaxErasures
  /\ Ends(r, "delete")
  /\ value' = NoValue
  /\ erasures' = erasures + (IF Present THEN 1 ELSE 0)
  /\ UNCHANGED <<formal, tripDone, plan, done, expected, view, action, seen, since>>

RunStep(r) ==
  \/ Begin(r) \/ InitializeGet(r) \/ InitializeCreate(r) \/ InitializeReread(r)
  \/ SyncRead(r) \/ SyncWrite(r) \/ ReadView(r) \/ DecideAction(r)
  \/ UpdateRead(r) \/ UpdateWrite(r) \/ Audit(r) \/ Delete(r)

Next == PublishPlan \/ CompleteTrip \/ Erase \/ \E r \in Runs : RunStep(r)

Spec == Init /\ [][Next]_vars

-----------------------------------------------------------------------------
(* Properties *)

\* The history of state s is the unbroken tail of its revisions.
Contiguous(s) ==
  LET n == Len(s.history)
  IN  /\ n > 0
      /\ n <= MaxHistory /\ n <= s.revision + 1
      /\ n < MaxHistory => n = s.revision + 1
      /\ \A i \in 1..n : s.history[i].revision + (n - i) = s.revision

\* The history a state carries is the unbroken tail of its own revisions, however
\* initializations, refreshes, updates and erasures interleave
\* (docs/ARCHITECTURE.md:80, execution_history is append-only).
HistoryContiguous == Present => Contiguous(value)

\* A run that writes replaces exactly the state it has read: no update is
\* overwritten unseen, unless the key was erased during the run.
WritesOver(r) ==
  pc[r] \in {"sync_write", "write"} /\ pc'[r] # pc[r] /\ value' # value
NoLostUpdate ==
  [][\A r \in Runs : WritesOver(r) /\ since[r] = erasures => value = seen[r]]_vars

\* The update of a run is stored only if nobody has updated the state since the
\* run was shown its view: what it decided was decided on the present state
\* (again unless the key was erased meanwhile).
DecidedOnPresentState ==
  [][\A r \in Runs :
       pc[r] = "write" /\ pc'[r] = "audit" /\ since[r] = erasures => value = view[r]]_vars

\* A purged or expired state comes back only as a fresh one.
NoResurrection ==
  [][~Present /\ value' # NoValue => value'.revision = 0 /\ value'.created = erasures]_value

\* docs/ARCHITECTURE.md:100: a formal plan that would move the state back to an
\* older version is rejected (by the comparison in sync_formal_route_plan).
PlanNeverBackwards ==
  [][Present /\ value' # NoValue => value'.version >= value.version]_value

=============================================================================
