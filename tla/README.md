# A TLA+ model of MapGo AI Planner

MapGo plans one-day trips and accompanies them. This directory models the parts
of its FastAPI backend (`src/backend/app`) in which several processes, requests
or Agents share state: the pipeline that carries trip events from the API to the
Workers, the Shared State the Companion agent keeps in Redis, the versions of
the formal plan, the life of a trip session, the planning workflow with its
Agents, the message transport between them, and the planning API with its
idempotency records. The models are checked with TLC on small instances, and the
safety properties of the passing runs are proved with TLAPS for all values of the
constants, two of them with fewer Workers (section 4).

Paths below are relative to `src/backend/app` unless they start with `docs/`.

## 1. Inventory of the system

| Component | State it keeps | Operations | How it meets the others |
|---|---|---|---|
| Trip-event API (`api/companion.py`) | `trip_events`, `trip_sessions` rows | `ingest_event`, `update_location` | commits a row, then pushes a job to Redis |
| Runtime store (`infrastructure/runtime_store.py`) | Redis lists, retry set, locks with fence counters, JSON values with a revision | `reserve`, `acknowledge`, `recover_processing`, `enqueue_retry`, `promote_retries`, `acquire_lock`, `renew_lock`, `release_lock`, `compare_set_json` | shared by API and Workers |
| Worker (`worker.py`) | the reserved message, lock token, lease flag | `run_worker`, `process_trip_event`, `_claim_worker_fence`, the `before_commit` guard, the lease renewer | consumes jobs, runs the Companion agent, proposes replans, queues notices |
| Notifications (`services/notifications.py`) | dedupe keys, the notification queue | `enqueue`, `mark_delivered`, `mark_failed` | called by the Worker |
| Shared State (`services/agent_shared_state.py`) | one JSON value for each task: revision, phase, plan, history | `initialize`, `sync_formal_route_plan`, `read_for_agent`, `update`, `audit`, `delete` | written by Companion runs and by the planning workflow, erased by the privacy purge and by TTL |
| Agent controller (`services/agent_controller.py`) | `agent_runs`, artifacts, tool calls | `run_once` | one run for each delivered event |
| Plan versions (`services/plan_versioning.py`, `api/ai_planner.py`, `services/replanning.py`, `services/dynamic_replanning.py`) | `plan_versions`, `plan_patches`, `trip_sessions.current_plan_version`, the replan budget | write, accept, reject and auto-apply patches; replan; open a trip | requests of the user race with replans of the Workers |
| Trip session and consents (`api/companion.py`, `services/agent_state.py`, `services/trip_events.py`, `services/agent_policy.py`) | trip state, consent rows | transitions, consents, tool policy | events, replans and locations all write the trip state |
| Agent message transport (`services/agent_transport.py`, `agent_role_worker.py`) | Redis streams, consumer groups, dedupe keys, dead letters | publish, receive, acknowledge, retry, reclaim | planner and critic can run in processes of their own |
| Planning orchestrator (`services/agent_orchestrator.py`, `services/agents/`) | task graph, trace, the Shared State of the task | stages of a planning request, retries, recovery | writes the Shared State, publishes to role workers |
| Durable workflow (`services/agent_workflow_state.py`) | workflow and task rows | start, resume, checkpoint, fail | used by replans and planning requests |
| Agent runtime (`services/agent_runtime.py`) | budgets of one run | decide, authorize, execute tool, finish | called by the controller and the orchestrator |
| Conversations and idempotency (`api/ai_planner.py`) | conversation revision, idempotency records | start, continue | single requests, no lock |
| Route optimizer (`services/route_optimizer.py`) | none | order stops under time windows | pure |

The rest (accounts, social features, data API, provider clients, prompt and
tool plumbing, configuration, migrations, the browser front end) is listed in
`PROJECT.json` with the reason it is not modelled.

**What is hard here.** A Worker may crash or stall at any await; its lock may
expire while it goes on; Redis delivers again what was not acknowledged; state
is read, a provider is called, and the state is written; the same trip is
changed by requests of the user under no lock, by replans under a lock with a
fixed TTL, and by Workers under another lock. `PROJECT.json` "hazards" names
each of these at its line.

**What makes each component correct.** No event is lost, none is worked on
twice at the same time, completed work is not repeated. No update of the Shared
State is overwritten unseen, and an erased state does not return. Plan versions
form one chain in which nothing is silently replaced, and the user's decision
stands. An event changes a trip once, and positions are taken only under the
latest consent. A task for an Agent role is answered or dead-lettered, after a
bounded number of executions. A planning request ends, its hand-offs fit
together, a plan that must be reviewed is reviewed, and its durable row can be
read after a crash. A replayed reply belongs to the request that is repeated,
and what the user said stays in the conversation.

## 2. Modules

```
FencedLedger  <--implements--  TripEventWorker  --  MCTripEventWorker
                                     |
                               TripEventWorkerProofs
SharedStatePhases  <--extends--  AgentSharedState  --  MCAgentSharedState
                                     |
                               AgentSharedStateProofs
PlanChain  <--implements--  PlanVersioning  --  MCPlanVersioning
                                     |
                               PlanVersioningProofs
RequestChannel  <--implements--  AgentTransport  --  MCAgentTransport
                                     |
                               AgentTransportProofs
SharedStatePhases, AgentRoutes  <--extends--  PlanningWorkflow  --  MCPlanningWorkflow
                                     |
                               PlanningWorkflowProofs
TripRules  <--extends--  TripSession  --  MCTripSession
                                     |
                               TripSessionProofs
PlanningRequests  --  MCPlanningRequests
       |
PlanningRequestsProofs
```

The modules meet where the code does. `TripSession` hands grave events to the
Worker as jobs; how such a job is delivered is `TripEventWorker`, and what its
run does to the Shared State is `AgentSharedState`. `PlanningRequests` plans in
one step, which is all of `PlanningWorkflow`; `PlanningWorkflow` runs the Planner
and the Critic in one step each, and `AgentTransport` is how that step is carried
out when the role runs in a process of its own.

### TripEventWorker

| Variables | Code |
|---|---|
| `status`, `fence` | `TripEvent.status`, `TripEvent.worker_fencing_token` |
| `main`, `processing`, `retry`, `due`, `dlq` | `mapgo:trip-events` and its `:processing`, `:retry`, `:dlq`; `due` are the members of `retry` whose score has passed |
| `lock`, `lockFence` | `lock:agent-run:trip:<id>` and `lock-fence:agent-run:trip:<id>` |
| `dedupeKey`, `notices` | `notify:dedupe:<fingerprint>`, jobs in the notification queue |
| `pc`, `msg`, `token`, `leaseLost`, `quota` | the state of one Worker process |
| `commits`, `tripCommit` | history variables: the tokens under which work was committed |

An action is one step between two awaits that touches state another process
can see. `Recover`, `PromoteRetries`, `Reserve`, `AcquireLock` and `Acknowledge`
are single Redis commands or scripts. `ClaimFence` is the conditional UPDATE of
`_claim_worker_fence`; `AgentCommit` and `MarkProcessed` are commits that pass
the `before_commit` guard (`CommitAllowed`); `HandleFailure` is the `except`
block, `ReleaseLock` the `finally` block. `LeaseExpires`, `RenewFails`,
`RenewErrors`, `RunRaises`, `HandlerRaises` and `Crash` are what may befall a
Worker.

Abstractions. The clock: a TTL may run out at any step, a delay is an
unspecified wait; the lease of a live owner runs out only within `MaxStalls`,
since the renewer keeps it. `RenewErrors` shares that bound. What a run commits:
any number of commits, at least one before an event that needs the agent is
completed. Jobs without an event id are left out, as no caller in the
repository queues one. `promote_retries` moves at most 50 members; the
instances have at most a few. The notice fingerprint ignores the event id, so two events of
a trip with one type and impact share a notice; the model gives every event a
fingerprint of its own.

`FencedLedger` is the promise seen from the database: a row is accepted,
claimed under growing tokens, worked on under its latest claim, and completed
once. `ImplementsLedger` maps `status`, `fence` and `commits` to themselves.

### AgentSharedState and SharedStatePhases

`value` is the JSON under the key of one trip (revision, phase, the version of
its plan, history), `formal` and `tripDone` are the database's side, and every
run has a `pc` with one action per call of the runtime store: `InitializeGet`,
`InitializeCreate`, `InitializeReread`, `SyncRead`, `SyncWrite`, `ReadView`,
`DecideAction`, `UpdateRead`, `UpdateWrite`, `Audit`, `Delete`. The writes are
the Lua compare-and-set (`Matches`). `SharedStatePhases` holds the tables of
actions and transitions. `created`, `since` and `erasures` are history: how
often the key had disappeared.

Abstractions. Hashes and the byte limit; fields other than the plan; formal
plans that are not successful (no trip is opened on one). A run that meets a
conflict ends, as the code raises. Every run is a new delivery.

### PlanVersioning and PlanChain

One plan with its patches, one trip, the requests of the user, and replans
(`Runs`), which are trip events or requests through the API.

| Variables | Code |
|---|---|
| `latest`, `madeBy` | `plan_versions`: newest version and the patch each was made by |
| `base`, `status`, `source`, `risk` | a `plan_patches` row: base version, status, `impact.source_event_id`, what a review would find |
| `selected` | the patches whose application found the trip on their base version |
| `trip`, `optIn`, `count` | `current_plan_version`, `auto_apply_low_risk_patches`, `replan_count` |
| `automatic`, `openedLate` | history: patches applied without the user, a trip opened beside a new version |
| `userPc`, `userPatch`, `userBase` | a request between its reads and its commit |
| `runPc`, `runTrip`, `runCount`, `runPatch`, `found`, `copy` | a replan with the copies its database session holds |

`WriteRead`/`WriteInsert` are `create_plan_patch`; `Reject`, `AcceptRead`,
`AcceptSelect` and `AcceptCommit` are `decide_plan_patch`; `OpenRead`/`OpenInsert`
are `create_trip_session`; `Load` to `ApplyRead`, `ApplySelect` and `ApplyCommit`
are a replan from the trip it loads to the automatic application in
`apply_plan_patch_cas`. Both applications share their last two steps. In
`SelectTrips` the new version goes in (the SELECT of the trips flushes it first, so
the unique constraint decides here, and a second insert of that version waits for
the first) and the trips on the old version are read; otherwise `Refuse` blocks the
patch as infeasible or rolls back. `Apply` is the commit, in which `Advance` moves
the trips that were found, or a rollback. Other transactions run between the two: a
trip that `create_trip_session` commits there on the old version is not found.
`Redeliver` gives an event to a Worker again.

The lock on the newest `plan_versions` row is left out on purpose: under READ
COMMITTED a transaction that waited for it gets the row it had selected, not
the one inserted meanwhile, so it is the unique constraint (`VersionFree`) that
decides. The row lock on the patch is there (`Locked`). A session keeps the
objects it has loaded (`expire_on_commit=False`, `db/session.py:26`); hence
`copy`, which `ApplyRead` compares in the place of the row's status.

Abstractions. Snapshots and operations are reduced to the review's result;
`trip.state`, audit rows, artifacts and workflow checkpoints are left out. Runs
for one event do not overlap, since their commits are fenced.

`PlanChain` is the promise: versions are consecutive, each made by one patch
written against the version before it.

### AgentTransport and RequestChannel

One role of `agent_transport.py`: its stream, the processes of the role, and the
workflows that send it a task and wait.

| Variables | Code |
|---|---|
| `transport` | `RedisStreamAgentMessageTransport` or `InMemoryAgentMessageTransport` |
| `log`, `read`, `pel`, `dead` | the stream, what the group has read, its pending entries with delivery count and idle flag, the `:dlq` stream |
| `keys`, `inbox`, `inboxDead` | deduplication keys of replies, the reply inbox of each request, its dead letters |
| `caller`, `answer` | `_run_remote_agent` and `_run_distributed_replanner`: where the caller is and what it got |
| `pc`, `held`, `made` | `AgentTaskWorker.run_once` in each process |
| `runs`, `crashes`, `stalls`, `ackErrors` | history and bounds |

`Reclaim` (XAUTOCLAIM) and `ReadDeliveryCount` (XPENDING) are two steps, as in
the code; `PublishReply` is the script that sets the key and adds the entry;
`Retry` is the transaction that acknowledges and adds, or dead-letters. The two
transports differ where the code does: in how deliveries are counted, and in
`Retry` for a claim that is gone, which Redis ignores and the memory transport
refuses.

Abstractions: fields and validation of the envelope (a message that fails it is
a handler that raises), stream length limits, TTLs of a day, the clock.

`RequestChannel` is the promise to a caller: a task stays open until it is
answered or dead-lettered, it may be answered more than once, and an outcome is
one of the task's own answers and final. `ImplementsChannel` maps the entries
that are unread or pending to `open` (`OpenTasks`), inboxes to `answers`
(`Answers`), and callers that have left the state "new", or have stopped
waiting, to `sent` and `ended` (`SentTasks`, `EndedCalls`).

### PlanningWorkflow and AgentRoutes

One call of `PlanningService.plan`. `pc` is the method of the orchestrator that
runs next; `job` holds the coroutines of the running `asyncio.gather`, whose
steps interleave.

| Variables | Code |
|---|---|
| `mode`, `limit` | `plan_critic_mode`, `max_agent_handoffs` |
| `graph`, `steps` | the execution plan: which optional steps it has, the status of each |
| `pending` | `_pending`, the messages for each endpoint |
| `st`, `rev` | the Shared State and the orchestrator's `state_revision` |
| `recall`, `cache` | the Search Agent's run and the POI recovery cache that all requests share |
| `handoffs`, `cost`, `retries`, `solves`, `status` | the trace |
| `result`, `review` | the plan (the number of its solve) and the Critic's report |
| `row` | `agent_workflow_runs` and its tasks |
| `outcome`, `why`, `faults` | how the call ended, the exception that is raised, the bound |
| `broken` | a transaction of the database session has failed, and nobody rolls it back |

`Start`, `Understand`, `PlanNext`, `Solve`, `Wave`, `SearchBegin` to
`RunPlanner`, `Gather`, `ReviewBegin`, `Critic`, `SoftRetry`, `Finalize`,
`FinalAnswer`, `Finish`, `ClearMemory` and `Fail` are its methods or their parts
between two checkpoints. Every hand-off checks the route (`AgentRoutes`, the
table of `agent_protocol.py`), consumes a message of the expected type and
revision, performs an action its phase allows (`SharedStatePhases`) and
dispatches the next message; where the code would raise, `why` becomes
"protocol". `Raise`, `JobRaises`, `GatherRaises`, `EndRaises` and `FailRaises` are
awaits that raise in a method, in a coroutine, in the checkpoint after a wave, after
the last checkpoint and in `fail` itself. Each leaves what the call has done so far:
an update of the Shared State may have been taken although its reply is lost
(`ReplyLost`: the state is then ahead of `rev`), and a failed transaction leaves the
session `broken`. `Expire` and `Die` are the TTL of the Shared State and the end of
the process. `Fail` updates the Shared State and then the row; it writes nothing when
the update is refused (`StateRefuses`), and no row when the session is broken.

Abstractions: what an Agent computes is its outcome; hashes are the revision
they are sent with; traces, metrics and audit rows are left out. The route
optimizer, the intent parser and the model behind the Critic are choices.

### TripSession and TripRules

`TripRules` holds the tables and pure decisions: allowed transitions, what an
event does to a trip, which tool is allowed in which state and with which
consent, what the rule-based decider asks for, when a deviation is sustained.

| Variables | Code |
|---|---|
| `row` | `trip_sessions`: state, tracking, whether an end is recorded, the notification cooldown, the off-route count in `context_json` |
| `consents`, `located` | `user_consents` of the trip, whether an unexpired position is stored |
| `events`, `jobs`, `calls` | `trip_events`, grave events no Worker has marked `worker_processed`, `agent_tool_calls` |
| `req`, `run` | requests under way with the row each has read; the Agent run of each Worker |
| `seq`, `snap`, `cursor` | `trip-sequence`, the number in `trip-stream`, the browser's Last-Event-ID |
| `wish`, `effects` | history: the user's standing decision, how often an event was applied |

A request is a read (`Transition`, `UpdateLocation`, `IngestEvent`,
`ExecuteTool`) and a commit; `Flush` writes only the columns the request
changed, as SQLAlchemy does, so overlapping requests overwrite each other.
`RunStep` is one turn of `AgentRuntime.execute`: budget, decision, policy, tool.
A model may answer with any tool or end; the rule-based decider stands in for a
model that fails.

The trip's lock is a lease, and the guard of a commit belongs to the event
(`worker.py:72`; the run `tripfence` shows what follows). So `StartRun` asks only that
no other Worker has the event (`Unclaimed`): a Worker that stalls goes on beside the
run its successor makes for another event, and both commit. The Shared State may
refuse the update of one of them, which is a case of `RunRaises`; no bound relies on
it, since one run can begin after the other has updated it and before it commits. In
mixes without "stall" one run is under way at a time.

Abstractions: payloads, audit rows, `started_at`, geometry, the clock. The queue,
the Shared State and the patches of a replan are in their own modules. A
behaviour makes only the requests of its `mix`; the mixes bring together each
pair of handlers that read what the other writes.

### PlanningRequests

The planning API of one user (`api/ai_planner.py`): `POST /plans`,
`POST /conversations`, `PATCH /conversations/{id}`. `records`, `runs` and `convs`
are the tables, `prefs` the long-term preference, `plans` and `tokens` the daily
counters in Redis, and `h` the handlers, each cut at its commits and Redis calls:
`Begin`, `MarkExpired`, `DropExpired`, `Insert`, `EnforceAIBudget`, `Open`,
`Planned` or `PlanRaises`, then `CommitPlan`, or `CommitConversation` and
`RecordConversation`. `SaveRaises`, `FailRecord` and `Stop` are the error paths
and a process that ends. The order of budget and record differs between the two
POST handlers, as in the code. `admitted`, `strays` and the fields `said`,
`overlap` and `first` are history.

Abstractions: a body says a value or nothing for each field, and whether memory
may be used; texts, coercion and fingerprints (equality of bodies) are left out;
there is one UTC day.

## 3. Runs

| Run | Question | Result |
|---|---|---|
| `single` | Does one Worker, with crashes, restarts, stale locks and failing runs, lose or duplicate anything, and does everything end? | passes, 236,798 states |
| `fenced` | Can two Workers commit for one event, and is the ledger implemented? | passes, 253,506 states |
| `tripfence` | Do commits for one trip come in lock order, as docs/CHANGELOG.md:270 says? | violated |
| `lostack` | Does a reserved entry stay until its own ACK, as docs/WORKER_FAULT_RECOVERY.md:9 says, with two Workers? | violated |
| `shared_state` | Do overlapping runs lose updates, act on stale state or revive an erased state? | passes, 986,752 states |
| `shared_state_backwards` | Is an older plan rejected, as docs/ARCHITECTURE.md:100 says? | violated |
| `plan_versioning` | Do versions, statuses, decisions and the trip stay consistent, also when a trip is opened beside a change? | passes, 1,433,900 states |
| `plan_silent` | Are high-risk changes never silently applied, as docs/adr/0017 says? | violated |
| `transport` | Can a task get lost, run without end, or a caller get a wrong or late answer, and does the stream drain? | passes, 199,291 states |
| `planning` | Do the hand-offs of a request fit, is it reviewed, recorded and ended, whatever fails? | passes, 1,309,750 states |
| `trip_session` | Does an event act once, do positions follow the consent, do budgets, with overlapping runs of two Workers, and the stream hold? | passes, 1,812,962 states |
| `conversation` | Do replays, records, answers and quotas stay true when handlers overlap or stop? | passes, 2,397,550 states |

The properties of four of the runs, in words. `transport`: `RunsBounded`,
`OneCopyInFlight`, `ImplementsChannel`, `EventuallyDrained`. `planning`:
`HandoffsMatch` (no method finds an empty queue, a wrong message, a stale
revision or a phase that refuses it, except the review after a second solve that
asks the user), `DurableOrder` (in every committed row a step runs only after its
dependencies), `EnforceReviews` (which plans mode `enforce` lets through),
`EveryTaskPlaced`, `EndIsRecorded`, `EventuallyEnds`. `trip_session`:
`OneEffectPerEvent`, `LocationFollowsLatestConsent`, `ToolBudgetBounded` (the limit
can be passed by the calls of one run of each Worker and of the requests under way), `RiskIsProposed` (the rules reach their proposal
within the step limit), `ClientNotAhead`. `conversation`: `RepliesMatch`,
`OneExecutionPerKey`, `RecordTellsOutcome`, `AnswersKept`, `QuotaHeld`. Some of
them name exceptions. Each exception is a case the code does not handle and the
model reaches:

- `HandoffsMatch`: a second solve that asks the user sends its plan to the
  Supervisor; the review that follows finds nothing to review and the request
  fails.
- `EnforceReviews`: a second plan keeps the report of the first when its own
  review was skipped or dropped for a limit; and the rule-based Critic's rating
  comparison replaces the verdict of a blocking finding.
- `EndIsRecorded`: `fail` updates the Shared State first and the row after it, with
  the session of the request. The row stays running when the Shared State raises
  (Redis), when it has expired or been cleared, is finalized, or is ahead of the
  orchestrator because the reply to an update was lost; and when a failed
  checkpoint has left the session without a rollback.
- `TripMovesWithPlan`: a trip that is inserted on version N after the application
  that makes N+1 has looked for trips, or whose version was replaced between its
  read and its insert, stays on N; no later application looks for it.
- `OneCopyInFlight`, `RunsBounded`: a live worker that is overtaken adds a second
  copy of its task with Redis.
- `AnswersKept`: two overlapping PATCH requests read one revision; the later
  commit replaces the request of the earlier.
- `LocationFollowsLatestConsent` speaks of the check; a position is committed
  later and may follow a revocation that came in between.

### Bounds

- `single`: two events of one trip, one of them with a notice and an agent run,
  two failures and two contentions, one crash. Contention with one Worker
  comes from the lock it leaves behind when it crashes. One crash at every
  possible step, followed by recovery and all retries, covers what a further
  crash would repeat.
- `fenced`: one event, since the guard is per event; two Workers and one stall
  give a stale owner and its successor. Redis errors leave the first delivery
  in the processing list, from which the other Worker's start-up requeues it.
- `shared_state`: three runs, so that one can interfere with two that race;
  two plan versions; one erasure; a history of two entries, so that it is cut.
- `plan_versioning`: three patches reach version 4; three requests of the user
  (two acceptances and the opening of a trip, or a writer) against one event,
  delivered twice, and one replan through the API; the review outcomes that
  differ in their consequence; a budget of two replans.

- `transport`: one task and two role workers, three attempts, three faults in
  all, so that a task is reclaimed twice and overtaken once; both transports.
- `planning`: one keyword (recalls of several keywords fail and recover one
  after the other, each on its own), every Critic mode, hand-off limits that
  fall before, at and after the review, costs on both sides of the budget, one
  soft retry, two faults.
- `trip_session`: two requests and two event ids, two consent rows, so that a
  revocation follows a grant; a limit of four calls, which a run can use up; a
  step limit of four, as in the code. Six mixes of requests: overlapping runs of two
  Workers are in the mix with "stall", where the rules decide; a model's answers
  are in a mix of their own. Two runs that begin below the limit, with requests that
  have passed the check, reach the bound of `ToolBudgetBounded` exactly.
- `conversation`: two handlers, three requests, one key for both POST
  endpoints, used again after it expired; the daily limit is reached by three
  requests and one earlier plan; one fault. Requests without a key take the
  same paths without the record and are left out.

The real limits (5 failures, 8 contentions, 10 replans, 100 recovered entries)
only lengthen the same paths; the proofs hold for every value of them.

Deadlock is checked in the runs of the pipeline, which never stops. The runs of
`AgentSharedState`, `PlanVersioning`, `AgentTransport`, `TripSession` and
`PlanningRequests` end when all requests have ended, so their cfg files say
`CHECK_DEADLOCK FALSE`. In `planning` deadlock is checked: a request that is not
over always has a next step.

### Fairness

`single`, `transport` and `planning` state liveness properties. `single` assumes weak fairness of the steps
of a live Worker (an event loop that goes on), of its restart (`restart:
unless-stopped` in docker-compose.yml) and of time passing (`BecomeDue`). It
does not assume that locks expire: with one Worker a stale lock only uses up
attempts, and the event ends in the dead-letter list. Nothing is assumed of
crashes, failing runs or renewals.

`transport` assumes weak fairness of a role worker's loop (`run_agent_role_worker` loops
until it is stopped), of its restart (`restart: unless-stopped`), of the idle time
of claims nobody works on, and of the caller, whose deadline passes. `planning`
assumes weak fairness of the request as a whole: the event loop runs a coroutine
that is ready. Which of two concurrent coroutines runs first is left open.

### What the violated runs show

- `tripfence`: the fence is compared with the row of the Worker's own event,
  the lock belongs to the trip. After the lease of a trip has run out and
  another Worker has taken the trip for another event, the first one still
  commits for the trip until its renewer notices.
- `lostack`: start-up recovery takes entries of other live Workers, and
  acknowledgement removes an equal payload. One Worker's ACK can remove the
  entry that protects the other's delivery. It takes two Worker processes;
  docker-compose.yml starts one.
- `shared_state_backwards`: all snapshots carry `plan_version` 1
  (`api/ai_planner.py:614`, copied by every patch), so the comparison in
  `sync_formal_route_plan` never rejects.
- `plan_silent`: the result for a patch found by deduplication has no
  `operations`; the review of an empty list is low risk, and an opted-in trip
  gets the high-risk patch without confirmation.

## 4. Proofs

Seven modules of proofs, one for each detailed module, are checked by tlapm for any
number of processes, requests, events, rows and faults. Besides the assumptions
named in the modules (bounds are naturals, `TripOf` maps events to trips, values
that stand for nothing are not members of their sets) they use what each paragraph
below names. In each the shape is the same: an inductive invariant, a lemma for each
action or group of actions, and the theorems as its consequences. The paragraphs say
what a property alone is missing to be inductive.

**TripEventWorker.** `TypeCorrect` is inductive by itself. `OneCommitter` is not:
that two Workers both pass the guard is excluded only because tokens are distinct,
which holds because the counter outlives the lock and every holder's token lies
below it. Hence `FenceInv`: `TokensIssued` (locks, rows and runs carry only tokens
the trip's counter has issued), `TokensDistinct` (no two holders on one trip share a
token), `ClaimIntact` (a run whose token is still on the row finds the row in
processing) and `NewEventsAbsent`. `FencingCorrect` proves it for each action in
turn; `OneCommitter` follows from it, and `LedgerImplemented` uses `ClaimIntact` to
show that each guarded commit is a step of the ledger. Two theorems speak of fewer
Workers, since the code does not keep their properties with more (run `lostack`
shows it of `NoEventLost`).
`OneNotice` assumes one Worker, which is what docker-compose.yml starts, or Workers
that never stall: then runs on one trip do not overlap (`Exclusive`, because a run
that is never overtaken owns its lock, `OwnerInv`), and between the read of the
dedupe key and the push of the notice nobody else is there. `NothingLost` assumes
one Worker. `LossInv` says that what is in hand is in the processing list
(`Reserved`), that a claim not yet tried will succeed unless the event is completed,
and that what is about to be acknowledged is completed or queued again (`Disposed`);
`Recoverable` is then stronger than `NoEventLost`, since it needs no live Worker.

**PlanVersioning.** The inductive invariant is `TypeOK /\ ChainInv`. Its core is
`VersionsMade`: every version from 2 to the newest has been made by some patch. From
this `FreeFollowsNewest` shows that a version that is free and follows an existing
one follows the newest: the unique constraint is enough, whatever the writer had
read and however stale its session is. `ReadsExist`, `PatchesExist` and `BudgetLeft`
say what survives between the read and the commit of a request, and `InsertAlone`
that at most one transaction has a version inserted and not committed, which follows
the newest. `ChainImplemented` and `StatusCorrect` rest on it. `TripFollowsPlan` adds
`TripInv`: unless it was opened late, the trip is on the newest version, and an
application that has inserted a version has found it. `EventsDeduplicated` adds
`Solving`: from its search for an earlier patch to its insert, no patch of the run's
event starts to wait, as nobody else writes for the event. `DecisionsFinal` adds
`Undecided`: without an opt-in a patch being accepted is still pending and in the
hands of one request, and no replan applies anything.

**AgentSharedState.** `TypeOK`, `HistoryContiguous` and, for each run, `RunInv`: as
long as nothing has been erased since the run began, what it has read is the present
state or an older revision of it (`StillThere`), and the revision it expects is not
ahead of it. Between two erasures the revision only grows, so a compare-and-set that
matches the revision matches the state: `LostUpdateFree` and `DecisionsCurrent`. A
revision expected of a state is never that of a missing key: `ErasedStaysErased`.
The length of the history, the number of runs and erasures are free.

**AgentTransport.** `HeldInv`: a delivery in hand was handed out by the group, and
the reply that is to be acknowledged is in the inbox. `ClaimInv`: until a live
worker is overtaken, a delivery in hand is claimed, by its holder alone, and is not
idle. `CopyInv` strengthens `OneCopyInFlight` to the entries themselves, which a
retry needs: it may add a copy only because it has just removed the one there was.
`RunsInv` counts: each delivery of the latest entry adds at most one run. Without
`ClaimInv` neither is inductive, for any worker could settle an entry it has lost.
`ChannelImplemented` needs `HeldInv`, `KeysInv` and `SentInv` only, and so holds
with any number of takeovers. `MaxAttempts` is between 1 and 5; `retry` raises on
any other value.

**TripSession.** One invariant for each property, on top of the shape of requests
and run. `EffectOnce`: an event has been applied exactly if its row is there, and a
derived event's row only comes with the position it was derived from (`EffectInv`).
`LocationConsented`: the latest consent row grants only what the user still wants
(`ConsentInv`). `BudgetHolds` counts recorded and pending calls
together and reserves all calls of a run for each Worker whose run began below the
limit (`Spending`): a call or a run is let in below the limit only, so what is
recorded, pending and reserved passes it by the requests and the runs of all Workers
at most (`BudgetInv`). `Requests` and `Workers` are finite, as the bound is a count;
nothing is assumed of the trip's lock, so any number of Workers may have lost it.
`RuledRunProposes`: the steps a run decided by the rules
has taken are at most those of the tools it has used (`ChainInv`); it assumes
`MaxSteps >= 4`: the code grants four, and the rules may need as many.
`CursorWithinCounter`: neither the browser nor the snapshot holds a number above the
counter (`StreamInv`).

**PlanningRequests.** The argument is `OwnInv`: a handler that has inserted a record
is the only one that finishes it, although a row may be deleted and its key used
again meanwhile. `KeyInv` says which row a key stands for. The `Rid`, `Work` and
`Told` parts, one of each for `runs` and `convs`, say that each stored run or
conversation came from the record it names, that a handler that plans has the one it
opened to itself, and what the record tells of a finished one. With these
`RepliesBelong`, `KeyPlansOnce` and `RecordsTell` follow. `AnswersStay` needs that a
conversation no two handlers have overlapped on has at most one handler, which holds
what the row says. `QuotaStands` counts the handlers between check and charge;
`Slots` is finite, a planning uses 0 or 1 units, and the day starts with counters
within their limits.

**PlanningWorkflow.** `HandInv` is the baton: outside a running recall and the end
of a review exactly one message waits, for the endpoint whose method runs next, and
it carries the revision the orchestrator holds; `FollowTable`, `PhaseTable` and
`RouteTable` evaluate the tables it is passed along. `StepsInv` says how far the
steps of the graph and the coroutines of a wave are at each method, and that the
row's steps are in the order of their dependencies. `ReviewInv` says which solve the
report belongs to, `RecallInv` what a finished search has found, `OutcomeInv` which
status goes with which end, `WhyInv` which exceptions `HandoffsMatch` allows. While
nothing has raised, the Shared State is at the orchestrator's revision; after that
only `LivePhase` is left of it, which says that nobody has marked it failed yet. So
`EndRecorded` can name every case in which `fail` does not reach the row.
`HandoffsFit` is not inductive without all of `StepsInv`: a second search begins
only if the graph has one, and a wave has a step to start only if the statuses are
consistent. Keywords, costs, limits and faults are free.

**Only model-checked.** `EventuallySettled`, `EventuallyDrained` and
`EventuallyEnds`: liveness under fairness is outside this prover. The disagreements
of the four violated runs are counterexamples of TLC. That each mutant breaks its
property is shown on the small instances only.

## 5. Not modelled, and the plan

Left, in the order of importance:

1. `resume_or_start` of the durable workflow, which only dynamic replans use: a
   redelivery may resume the workflow of another event.
2. `apply_patch_structure` as an operator on sequences of stops.
3. The consumer of the notification queue.

Not modelled, and why:

- `route_optimizer.py`, `uncertainty.py`, the geometry of `offroute.py`: search and
  comparison over floating-point times, scores and distances. An integer model
  would decide other comparisons than the code does.
- Parsing of model output, prompts, tool-argument validation: text, which TLC
  cannot enumerate meaningfully. Their results are choices in the models.
- Provider clients (maps, weather, knowledge): HTTP calls that return or raise.
- Accounts, social features, data and system API: handlers of one transaction
  that share no state across awaits.
- Readiness and evaluation reports, configuration, encryption, telemetry,
  migrations, the browser front end.
