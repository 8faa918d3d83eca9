----------------------------- MODULE TripSession -----------------------------
(***************************************************************************)
(* One trip while its user, the Workers' companion Agent and a browser     *)
(* work on it at once (api/companion.py, services/agent_controller.py,     *)
(* services/agent_runtime.py, services/trip_stream.py).                    *)
(*                                                                         *)
(* A request reads what it decides on in one step and commits in another;  *)
(* a commit writes the columns the request changed and no other, so        *)
(* requests that overlap can overwrite each other.  An event that is       *)
(* committed goes to the Workers, then to the trip's stream, in two Redis  *)
(* calls; a Worker's run publishes in the same way.  docker-compose.yml    *)
(* starts one Worker; with more, runs for different events of the trip can *)
(* overlap, since the trip's lock is a lease and a commit is fenced by its *)
(* own event.                                                              *)
(*                                                                         *)
(* Abstracted: payloads, audit rows and metrics; started_at, which only    *)
(* the summary reads; the clock (a cooldown, a consent, a position or the  *)
(* stream's snapshot may lapse at any step); the queue's delivery, retries *)
(* and locks (TripEventWorker), the Shared State (AgentSharedState) and    *)
(* what a replan writes besides the trip's state (PlanVersioning).         *)
(***************************************************************************)
EXTENDS TripRules, FiniteSets, Sequences

CONSTANTS
  Requests,         \* requests the API serves at once
  Workers,          \* Worker processes                 (one in docker-compose.yml)
  EventIds,         \* identifiers the client gives its events
  EventInputs,      \* events the client reports
  Tools,            \* tools a user or a model may name
  Mixes,            \* bound: what happens together in one behaviour
  SustainSamples,   \* samples that make a deviation sustained     (4 in the code)
  MaxSteps,         \* steps of one Agent run                      (4 in the code)
  MaxRunCalls,      \* max_agent_tool_calls_per_run                (4 in the code)
  MaxTripCalls,     \* max_agent_tool_calls_per_trip              (40 in the code)
  MaxConsents,      \* bound: consent rows of the trip
  MaxFailedRuns,    \* bound: Agent runs that raise and are delivered again
  MaxReconnects     \* bound: page loads, which forget the last event seen

ASSUME InputsAssumption == EventInputs \subseteq Event /\ Tools \subseteq DOMAIN Capabilities
ASSUME LimitsAssumption ==
  {SustainSamples, MaxSteps, MaxRunCalls, MaxTripCalls} \subseteq Nat \ {0}
ASSUME ProcessesAssumption == IsFiniteSet(Requests) /\ IsFiniteSet(Workers)

VARIABLES
  mix,              \* the kinds of request this behaviour makes
  row,              \* the trip_sessions row
  consents,         \* user_consents rows for precise_location, oldest first
  located,          \* an unexpired position of the trip is stored
  events,           \* trip_events rows, by event id
  jobs,             \* grave events that no Worker has marked worker_processed
  calls,            \* agent_tool_calls rows of the trip
  req,              \* what each request holds
  run,              \* the Agent run of each Worker
  seq, snap,        \* trip-sequence counter, and the number of the stored snapshot
  cursor,           \* Last-Event-ID of the browser
  wish,             \* history: the user's last decision on positions that still stands
  effects,          \* history: commits that applied an event
  failedRuns, reconnects

sessionVars == <<row, consents, located, events, jobs, calls>>
streamVars  == <<seq, snap>>
boundVars   == <<failedRuns, reconnects>>
vars == <<mix, sessionVars, req, run, streamVars, cursor, wish, effects, boundVars>>

\* Ids of rows: the client's, and the one update_location derives from it.
RowIds == {"client", "auto"} \X EventIds

Idle == [pc |-> "idle"]

\* create_trip_session; a snapshot number of 0 stands for no snapshot.
Init ==
  /\ mix \in Mixes
  /\ row = [state |-> "PLAN_READY", tracking |-> FALSE, ended |-> FALSE, cooling |-> FALSE,
            off |-> 0]
  /\ consents = <<>> /\ located = FALSE /\ wish = FALSE
  /\ events = {} /\ jobs = {} /\ calls = 0
  /\ req = [r \in Requests |-> Idle] /\ run = [w \in Workers |-> Idle]
  /\ seq = 0 /\ snap = 0 /\ cursor = 0
  /\ effects = [i \in RowIds |-> 0]
  /\ failedRuns = 0 /\ reconnects = 0

-----------------------------------------------------------------------------
\* The unit of work writes the columns that differ from what was read.
Flush(read, written) ==
  row' = [c \in DOMAIN row |-> IF written[c] # read[c] THEN written[c] ELSE row[c]]

\* The trip after transition_trip or an event has put it in state s.
Entered(trip, s) ==
  IF s \in Terminal THEN [trip EXCEPT !.state = s, !.ended = TRUE, !.tracking = FALSE]
  ELSE [trip EXCEPT !.state = s]

Notified(trip, ev) ==
  [trip EXCEPT !.cooling = @ \/ ShouldNotify(ev, trip.cooling)]

\* transition_trip.
Transition(r, target) ==
  /\ req[r] = Idle
  /\ "transition" \in mix \/ ("start" \in mix /\ target = "ACTIVE_TRIP")
  /\ target \in AllowedTransitions(row.state)
  /\ req' = [req EXCEPT ![r] = [pc |-> "loaded", kind |-> "transition", read |-> row,
                                written |-> Entered(row, target)]]
  /\ UNCHANGED <<mix, sessionVars, run, streamVars, cursor, wish, effects, boundVars>>

CommitTransition(r) ==
  /\ req[r].pc = "loaded" /\ req[r].kind = "transition"
  /\ Flush(req[r].read, req[r].written)
  /\ req' = [req EXCEPT ![r] = Idle]
  /\ UNCHANGED <<mix, consents, located, events, jobs, calls, run, streamVars, cursor, wish,
                 effects, boundVars>>

-----------------------------------------------------------------------------
\* set_consent for a scope that covers positions: precise_location adds a row
\* _has_consent reads; background_location only moves tracking_enabled.
SetConsent(scope, granted) ==
  /\ "consent" \in mix
  /\ Len(consents) < MaxConsents
  /\ consents' = IF scope = "precise_location"
                 THEN Append(consents, [granted |-> granted, live |-> TRUE]) ELSE consents
  /\ wish' = IF scope = "precise_location" THEN granted ELSE wish
  /\ row' = [row EXCEPT !.tracking = granted]
  /\ UNCHANGED <<mix, located, events, jobs, calls, req, run, streamVars, cursor, effects,
                 boundVars>>

\* expires_at passes.
ConsentExpires(k) ==
  /\ "clock" \in mix /\ k \in 1..Len(consents) /\ consents[k].granted /\ consents[k].live
  /\ consents' = [consents EXCEPT ![k].live = FALSE]
  /\ wish' = (wish /\ k # Len(consents))
  /\ UNCHANGED <<mix, row, located, events, jobs, calls, req, run, streamVars, cursor, effects,
                 boundVars>>

\* As if a revocation revoked the rows before it, and any other row counted.
HasConsent_AnyRow ==
  \E k \in 1..Len(consents) : consents[k].granted /\ consents[k].live

\* _has_consent: the latest row decides.
HasConsent ==
  /\ consents # <<>>
  /\ consents[Len(consents)].granted /\ consents[Len(consents)].live

\* The check of the Worker and of execute_agent_tool: any row that grants.
AnyGrant == \E k \in 1..Len(consents) : consents[k].granted /\ consents[k].live

\* delete_trip_locations, and purge_private_data which also removes the consents.
DeleteLocations ==
  /\ "erase" \in mix /\ located
  /\ located' = FALSE /\ row' = [row EXCEPT !.tracking = FALSE]
  /\ UNCHANGED <<mix, consents, events, jobs, calls, req, run, streamVars, cursor, wish, effects,
                 boundVars>>

Purge ==
  /\ "erase" \in mix /\ (located \/ consents # <<>>)
  /\ located' = FALSE /\ consents' = <<>> /\ wish' = FALSE
  /\ UNCHANGED <<mix, row, events, jobs, calls, req, run, streamVars, cursor, effects, boundVars>>

\* The position expires; cleanup_expired_locations removes what nobody reads.
LocationExpires ==
  /\ "clock" \in mix /\ located /\ located' = FALSE
  /\ UNCHANGED <<mix, row, consents, events, jobs, calls, req, run, streamVars, cursor, wish,
                 effects, boundVars>>

-----------------------------------------------------------------------------
OffRouteEvent == [type |-> "UserOffRoute", amount |-> 0]

\* update_location up to the commit: the position, its LocationUpdated row and,
\* when a deviation has lasted, an OffRoute event of its own.
UpdateLocation(r, e, outside) ==
  LET off   == Sustained(row.off, outside, SustainSamples)
      alarm == off = SustainSamples /\ row.state # "OFF_ROUTE"
      seen  == [row EXCEPT !.off = off]
  IN
  /\ req[r] = Idle /\ "location" \in mix
  /\ row.state \in Travelling /\ HasConsent
  /\ <<"client", e>> \notin events
  /\ req' = [req EXCEPT ![r] =
       [pc |-> "loaded", kind |-> "location", id |-> <<"client", e>>, read |-> row,
        alarm |-> alarm,
        written |-> IF alarm
                    THEN Notified([seen EXCEPT !.state = NextState(row.state, OffRouteEvent)],
                                  OffRouteEvent)
                    ELSE seen]]
  /\ UNCHANGED <<mix, sessionVars, run, streamVars, cursor, wish, effects, boundVars>>

CommitLocation(r) ==
  LET auto == <<"auto", req[r].id[2]>> IN
  /\ req[r].pc = "loaded" /\ req[r].kind = "location"
  /\ IF req[r].id \in events
     THEN /\ req' = [req EXCEPT ![r] = Idle]
          /\ UNCHANGED <<row, located, events, effects>>
     ELSE /\ Flush(req[r].read, req[r].written)
          /\ located' = TRUE
          /\ events' = events \cup {req[r].id} \cup (IF req[r].alarm THEN {auto} ELSE {})
          /\ effects' = [effects EXCEPT ![req[r].id] = @ + 1,
                                        ![auto] = IF req[r].alarm THEN @ + 1 ELSE @]
          /\ req' = [req EXCEPT ![r] =
               IF req[r].alarm THEN [pc |-> "enqueue", id |-> auto, ev |-> OffRouteEvent]
               ELSE Idle]
  /\ UNCHANGED <<mix, consents, jobs, calls, run, streamVars, cursor, wish, boundVars>>

\* ingest_event: the next state is assigned whatever state the trip is in.
IngestEvent(r, e, ev) ==
  /\ req[r] = Idle
  /\ "event" \in mix \/ ("risk" \in mix /\ Grave(ev))
  /\ <<"client", e>> \notin events
  /\ req' = [req EXCEPT ![r] =
       [pc |-> "loaded", kind |-> "event", id |-> <<"client", e>>, ev |-> ev, read |-> row,
        written |-> Notified(Entered(row, NextState(row.state, ev)), ev)]]
  /\ UNCHANGED <<mix, sessionVars, run, streamVars, cursor, wish, effects, boundVars>>

\* As if (trip_session_id, event_id) were not unique.
CommitEvent_NotUnique(r) ==
  /\ req[r].pc = "loaded" /\ req[r].kind = "event"
  /\ Flush(req[r].read, req[r].written)
  /\ events' = events \cup {req[r].id}
  /\ effects' = [effects EXCEPT ![req[r].id] = @ + 1]
  /\ req' = [req EXCEPT ![r] = [pc |-> "enqueue", id |-> req[r].id, ev |-> req[r].ev]]
  /\ UNCHANGED <<mix, consents, located, jobs, calls, run, streamVars, cursor, wish, boundVars>>

\* The row of an event that another request has stored meanwhile is refused by
\* the unique constraint, and the whole request with it.
CommitEvent(r) ==
  /\ req[r].pc = "loaded" /\ req[r].kind = "event"
  /\ IF req[r].id \in events
     THEN req' = [req EXCEPT ![r] = Idle] /\ UNCHANGED <<row, events, effects>>
     ELSE /\ Flush(req[r].read, req[r].written)
          /\ events' = events \cup {req[r].id}
          /\ effects' = [effects EXCEPT ![req[r].id] = @ + 1]
          /\ req' = [req EXCEPT ![r] = [pc |-> "enqueue", id |-> req[r].id, ev |-> req[r].ev]]
  /\ UNCHANGED <<mix, consents, located, jobs, calls, run, streamVars, cursor, wish, boundVars>>

\* The Worker starts an Agent for grave events only.
Enqueue(r) ==
  /\ req[r].pc = "enqueue"
  /\ jobs' = jobs \cup (IF Grave(req[r].ev) THEN {<<req[r].id, req[r].ev>>} ELSE {})
  /\ req' = [req EXCEPT ![r] = [pc |-> "publish"]]
  /\ UNCHANGED <<mix, row, consents, located, events, calls, run, streamVars, cursor, wish,
                 effects, boundVars>>

-----------------------------------------------------------------------------
\* call_count against max_agent_tool_calls_per_trip.
CallsLeft == calls < MaxTripCalls

\* execute_agent_tool up to the call of the tool.  The count is read here and
\* the call is recorded after the tool has answered.
ExecuteTool(r, tool) ==
  /\ req[r] = Idle /\ "tool" \in mix
  /\ ToolAllowed(tool, row.state, AnyGrant)
  /\ CallsLeft
  /\ req' = [req EXCEPT ![r] = [pc |-> "loaded", kind |-> "tool"]]
  /\ UNCHANGED <<mix, sessionVars, run, streamVars, cursor, wish, effects, boundVars>>

\* The call is recorded whether the tool succeeded or failed.
RecordTool(r) ==
  /\ req[r].pc = "loaded" /\ req[r].kind = "tool"
  /\ calls' = calls + 1
  /\ req' = [req EXCEPT ![r] = Idle]
  /\ UNCHANGED <<mix, row, consents, located, events, jobs, run, streamVars, cursor, wish,
                 effects, boundVars>>

-----------------------------------------------------------------------------
\* Nobody works on the event: a Worker whose event has been claimed again can
\* commit nothing more (_install_worker_fence_guard), so its run has raised.
Unclaimed(job) == \A w \in Workers : run[w] # Idle => run[w].job # job

\* process_trip_event and run_once up to the loop: the trip, the consents and
\* the number of calls are read once and used by every step of the run.  The
\* trip's lock is a lease, and the guard of a commit is the event's: a Worker
\* that stalls goes on beside its successor, which handles another event.
StartRun(w, job) ==
  /\ run[w] = Idle /\ "agent" \in mix /\ job \in jobs
  /\ Unclaimed(job)
  /\ "stall" \notin mix => \A v \in Workers : run[v] = Idle
  /\ run' = [run EXCEPT ![w] =
              [pc |-> "loop", job |-> job, state |-> row.state, now |-> row.state,
               consent |-> AnyGrant, base |-> calls, steps |-> 0, used |-> {}, ruled |-> TRUE,
               status |-> "running"]]
  /\ UNCHANGED <<mix, sessionVars, req, streamVars, cursor, wish, effects, boundVars>>

\* As if the first step counted twice.
StepLimit_OneShort == MaxSteps - 1

\* min of the settings' limit and the companion's own.
StepLimit == MaxSteps

\* _tool_budget_exceeded: every step taken so far was a tool call.
RunBudgetExceeded(w) ==
  \/ run[w].steps >= MaxRunCalls
  \/ run[w].base + run[w].steps >= MaxTripCalls

\* The rule-based decider stands in for a model that is absent or fails.  The
\* plan's origin stands in for a position, so has_precise_location holds.
Ruled(w) == RuleDecision(run[w].job[2].type, TRUE, run[w].used)

\* One more step in the history; the loop ends when the limit is reached.
StepTaken(w, tool, ruled) ==
  LET n == run[w].steps + 1 IN
  [run[w] EXCEPT !.steps = n, !.used = @ \cup {tool}, !.ruled = @ /\ ruled,
                 !.pc = IF n = StepLimit THEN "ended" ELSE "loop",
                 !.status = IF n = StepLimit THEN "step_limit_reached" ELSE "running"]

RunEnds(w, status, ruled) ==
  [run[w] EXCEPT !.pc = "ended", !.status = status, !.ruled = @ /\ ruled]

\* What propose_replan leaves the trip in: an alarm, the route as it was, or a
\* patch that waits for the user; or the replan is not available.
ReplanStates == {"AT_RISK", "ACTIVE_TRIP", "REPLANNING"}

\* The Worker's run becomes x.
RunIs(w, x) == run' = [run EXCEPT ![w] = x]

\* A step that asks for a tool: the budget, the policy, the arguments, the call.
CallTool(w, tool, ruled) ==
  \/ /\ RunBudgetExceeded(w)
     /\ RunIs(w, RunEnds(w, "budget_exceeded", ruled)) /\ UNCHANGED row
  \/ /\ ~RunBudgetExceeded(w) /\ (~ToolAllowed(tool, run[w].state, run[w].consent) \/ ~ruled)
     /\ RunIs(w, StepTaken(w, tool, ruled)) /\ UNCHANGED row    \* denied, or bad arguments
  \/ /\ ~RunBudgetExceeded(w) /\ ToolAllowed(tool, run[w].state, run[w].consent)
     /\ \/ RunIs(w, StepTaken(w, tool, ruled)) /\ UNCHANGED row
        \/ /\ tool = "propose_replan"
           /\ \E s \in ReplanStates :
                /\ row' = IF s # run[w].now THEN [row EXCEPT !.state = s] ELSE row
                /\ RunIs(w, [StepTaken(w, tool, ruled) EXCEPT !.now = s])
        \/ /\ tool \in {"get_weather", "propose_replan"}
           /\ RunIs(w, [RunEnds(w, "tool_failed", ruled) EXCEPT !.steps = @ + 1])
           /\ UNCHANGED row

\* A model answers: any tool it was offered, or the end; its answer may also
\* exhaust the token or cost budget.
ModelTurn(w) ==
  /\ "model" \in mix
  /\ \/ \E tool \in Tools : CallTool(w, tool, FALSE)
     \/ \E status \in {"succeeded", "budget_exceeded"} :
          RunIs(w, RunEnds(w, status, FALSE)) /\ UNCHANGED row

\* One turn of the loop in AgentRuntime.execute.
RunStep(w) ==
  /\ run[w].pc = "loop"
  /\ \/ /\ Ruled(w) # "finish" /\ CallTool(w, Ruled(w), TRUE)
     \/ /\ Ruled(w) = "finish" /\ RunIs(w, RunEnds(w, "succeeded", TRUE)) /\ UNCHANGED row
     \/ ModelTurn(w)
  /\ UNCHANGED <<mix, consents, located, events, jobs, calls, req, streamVars, cursor, wish,
                 effects, boundVars>>

\* As if a commit whose reply is lost were repeated: the rows have ids of their own,
\* and the calls of the run are recorded again.
CommitRun_Repeated(w) ==
  /\ run[w].pc = "ended"
  /\ calls' = calls + run[w].steps
  /\ \/ UNCHANGED run
     \/ RunIs(w, [pc |-> "publish", job |-> run[w].job])
  /\ UNCHANGED <<mix, row, consents, located, events, jobs, req, streamVars, cursor, wish,
                 effects, boundVars>>

\* run_once after the loop: one agent_tool_calls row for each tool step, in one
\* commit with the run.
CommitRun(w) ==
  /\ run[w].pc = "ended"
  /\ calls' = calls + run[w].steps
  /\ RunIs(w, [pc |-> "publish", job |-> run[w].job])
  /\ UNCHANGED <<mix, row, consents, located, events, jobs, req, streamVars, cursor, wish,
                 effects, boundVars>>

\* The Shared State refuses the update, a commit is fenced, the run raises or
\* the Worker stops: what is not committed is lost, and the event is delivered
\* again until it is marked worker_processed.  Which of two overlapping runs
\* the Shared State refuses is left open; it may refuse neither, as one may
\* begin when the other has updated it and waits for its commit.
RunRaises(w) ==
  /\ run[w] # Idle /\ failedRuns < MaxFailedRuns
  /\ failedRuns' = failedRuns + 1 /\ RunIs(w, Idle)
  /\ UNCHANGED <<mix, sessionVars, req, streamVars, cursor, wish, effects, reconnects>>

-----------------------------------------------------------------------------
\* publish_trip_stream, by a request or by the Worker: a number, then the
\* snapshot that carries it.
PublishNumber ==
  /\ seq' = seq + 1
  /\ \/ \E r \in Requests :
          /\ req[r].pc = "publish"
          /\ req' = [req EXCEPT ![r] = [pc |-> "store", n |-> seq + 1]] /\ UNCHANGED run
     \/ \E w \in Workers :
          /\ run[w].pc = "publish"
          /\ RunIs(w, [pc |-> "store", n |-> seq + 1, job |-> run[w].job]) /\ UNCHANGED req
  /\ UNCHANGED <<mix, sessionVars, snap, cursor, wish, effects, boundVars>>

PublishSnapshot ==
  /\ \/ \E r \in Requests :
          /\ req[r].pc = "store"
          /\ snap' = req[r].n
          /\ req' = [req EXCEPT ![r] = Idle] /\ UNCHANGED <<run, jobs>>
     \/ \E w \in Workers :
          /\ run[w].pc = "store"
          /\ snap' = run[w].n /\ jobs' = jobs \ {run[w].job}     \* worker_processed
          /\ RunIs(w, Idle) /\ UNCHANGED req
  /\ UNCHANGED <<mix, row, consents, located, events, calls, seq, cursor, wish, effects,
                 boundVars>>

\* As if the counter had the lifetime of the snapshot.
SnapshotExpires_WithCounter ==
  /\ "stream" \in mix /\ snap # 0 /\ snap' = 0 /\ seq' = 0
  /\ UNCHANGED <<mix, sessionVars, req, run, cursor, wish, effects, boundVars>>

\* A day without an event: TRIP_STREAM_TTL_SECONDS.  The counter stays.
SnapshotExpires ==
  /\ "stream" \in mix /\ snap # 0 /\ snap' = 0
  /\ UNCHANGED <<mix, sessionVars, req, run, seq, cursor, wish, effects, boundVars>>

\* stream_trip_events: a turn of generate(), which resumes from Last-Event-ID
\* when the browser connects again.
Poll ==
  /\ "stream" \in mix /\ snap > cursor /\ cursor' = snap
  /\ UNCHANGED <<mix, sessionVars, req, run, streamVars, wish, effects, boundVars>>

\* The page is loaded anew: Last-Event-ID is 0.
Reload ==
  /\ cursor # 0 /\ reconnects < MaxReconnects
  /\ cursor' = 0 /\ reconnects' = reconnects + 1
  /\ UNCHANGED <<mix, sessionVars, req, run, streamVars, wish, effects, failedRuns>>

CooldownPasses ==
  /\ "clock" \in mix /\ row.cooling /\ row' = [row EXCEPT !.cooling = FALSE]
  /\ UNCHANGED <<mix, consents, located, events, jobs, calls, req, run, streamVars, cursor, wish,
                 effects, boundVars>>

Next ==
  \/ \E r \in Requests :
       \/ \E s \in TripStates : Transition(r, s)
       \/ CommitTransition(r)
       \/ \E e \in EventIds, outside \in BOOLEAN : UpdateLocation(r, e, outside)
       \/ CommitLocation(r)
       \/ \E e \in EventIds, ev \in EventInputs : IngestEvent(r, e, ev)
       \/ CommitEvent(r)
       \/ Enqueue(r)
       \/ \E tool \in Tools : ExecuteTool(r, tool)
       \/ RecordTool(r)
  \/ \E scope \in {"precise_location", "background_location"}, granted \in BOOLEAN :
       SetConsent(scope, granted)
  \/ \E k \in 1..MaxConsents : ConsentExpires(k)
  \/ DeleteLocations \/ Purge \/ LocationExpires
  \/ \E w \in Workers :
       \/ \E job \in jobs : StartRun(w, job)
       \/ RunStep(w) \/ CommitRun(w) \/ RunRaises(w)
  \/ PublishNumber \/ PublishSnapshot \/ SnapshotExpires \/ Poll \/ Reload
  \/ CooldownPasses

Spec == Init /\ [][Next]_vars

-----------------------------------------------------------------------------
(* Properties *)

\* However requests with one event id overlap or are repeated, the event moves
\* the trip and reaches the Worker at most once (ingest_event and
\* update_location search for the id first, the unique constraint decides).
OneEffectPerEvent ==
  /\ \A i \in RowIds : effects[i] <= 1
  /\ \A i \in events : effects[i] = 1

\* update_location lets a position in only while the user's last decision, if
\* it still stands, is a grant: an earlier grant never outlives a revocation,
\* an expiry or a purge.
LocationFollowsLatestConsent ==
  [][\A r \in Requests :
       (req[r] = Idle /\ req'[r].pc = "loaded" /\ req'[r].kind = "location") => wish]_vars

\* The limit on the trip's tool calls is checked before a call and the call is
\* recorded after it, so the limit can be passed, but never by more than the
\* calls of one run of each Worker, also of Workers that have lost the trip's
\* lock, and of the requests that were under way.
ToolBudgetBounded ==
  calls <= MaxTripCalls + Cardinality(Workers) * MaxRunCalls + Cardinality(Requests) - 1

\* When no model answers, a risk event's run asks for a replan before it stops,
\* unless a tool failed or a budget ended it: the step limit is just enough
\* for the longest chain the rules ask for.
RiskIsProposed ==
  \A w \in Workers :
    (/\ run[w].pc = "ended" /\ run[w].ruled
     /\ run[w].status \notin {"tool_failed", "budget_exceeded"})
      => "propose_replan" \in run[w].used

\* A browser never holds a Last-Event-ID beyond the counter: every later event
\* has a number it will accept, also after the snapshot lapsed.
ClientNotAhead == cursor <= seq /\ snap <= seq

=============================================================================
