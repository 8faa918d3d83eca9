-------------------------- MODULE PlanningWorkflow --------------------------
(***************************************************************************)
(* One planning request: PlanningService.plan, the orchestrator that hands *)
(* the work from Agent to Agent (services/agent_orchestrator.py), the      *)
(* Shared State that every hand-off refers to, and the durable workflow    *)
(* row that DurableWorkflowCheckpointStore commits on the way.             *)
(*                                                                         *)
(* An action is a method of the orchestrator, cut where the code awaits    *)
(* something that another step can overtake: search and weather run        *)
(* concurrently (asyncio.gather), other requests share the POI cache, the  *)
(* Shared State expires, any await may raise and the process may die.      *)
(*                                                                         *)
(* Abstracted: what an Agent writes is reduced to what the control depends *)
(* on (are there questions, which keywords have candidates, the status of  *)
(* a plan, the verdict on it, its cost).  A plan is the number of the      *)
(* solve that made it.  Content hashes are the revision they are sent      *)
(* with.  Traces, metrics and audit rows are left out.                     *)
(***************************************************************************)
EXTENDS Integers, FiniteSets, Sequences, SharedStatePhases, AgentRoutes

CONSTANTS
  Modes,              \* plan_critic_mode: subset of {"off", "shadow", "enforce"}
  Keywords,           \* the tasks of the request, each one POI recall
  Costs,              \* what a model call may cost
  MaxCost,            \* max_agent_workflow_cost_usd
  HandoffLimits,      \* values of max_agent_handoffs             (12 in the code)
  MaxCriticRetries,   \* max_critic_retries                        (1 in the code)
  MaxSearchAttempts,  \* agent_search_max_attempts                 (2 in the code)
  MaxFaults           \* bound: awaits that raise, expiry of the Shared State

ASSUME ModesAssumption == Modes \subseteq {"off", "shadow", "enforce"}
ASSUME LimitsAssumption ==
  /\ Costs \subseteq Nat /\ MaxCost \in Nat /\ HandoffLimits \subseteq Nat
  /\ MaxCriticRetries \in Nat /\ MaxSearchAttempts \in 1..10 /\ MaxFaults \in Nat

VARIABLES
  mode, limit,        \* settings
  pc,                 \* the method that runs next
  graph,              \* optional steps of the execution plan
  pending,            \* _pending: messages for each endpoint
  st, rev,            \* Shared State, and the orchestrator's state_revision
  steps,              \* status of each step of execution_plan
  job,                \* coroutines of the running asyncio.gather
  recall,             \* the Search Agent's run
  cache,              \* keywords in the shared POI recovery cache
  handoffs, cost, retries, solves, status,      \* trace
  result, review,     \* the plan, and the Critic's report
  row,                \* the durable AgentWorkflowRun and its tasks
  outcome,            \* of PlanningService.plan
  why,                \* the exception that is raised
  faults,
  broken              \* a transaction has failed and nobody rolls the session back

settings == <<mode, limit>>
trace    == <<handoffs, cost, retries, solves, status>>
vars == <<settings, pc, graph, pending, st, rev, steps, job, recall, cache, trace,
          result, review, row, outcome, why, faults, broken>>

StepIds   == {"intent", "search", "weather", "safety_check", "planner", "critic", "final_answer"}
Subgraph  == {"search", "weather", "safety_check", "planner"}
Endpoints == {"supervisor", "intent", "search", "safety", "planner", "critic", "final_answer"}
StepStatus == {"absent", "pending", "running", "retrying", "succeeded", "failed", "blocked", "skipped"}
Verdicts  == {"approved", "approved_with_warnings", "needs_clarification",
              "retry_with_soft_adjustments"}
PlanStatus == {"success", "infeasible", "need_clarification"}

\* TERMINAL_WORKFLOW_STATUSES
Terminal == {"succeeded", "success", "failed", "blocked", "infeasible",
             "need_clarification", "needs_clarification"}

NoState  == [phase |-> "none", rev |-> -1, plan |-> 0]
NoReview == [verdict |-> "none", plan |-> 0, hard |-> FALSE]
NoRecall == [todo |-> {}, attempt |-> 1, action |-> "none", found |-> {}, asks |-> FALSE]
NoSteps  == [s \in StepIds |-> "absent"]

\* AgentWorkflowRun as DurableWorkflowCheckpointStore.start commits it.
NewRow == [status |-> "running", completed |-> FALSE, steps |-> NoSteps]

Init ==
  /\ mode \in Modes /\ limit \in HandoffLimits
  /\ pc = "start" /\ graph = [weather |-> FALSE, safety |-> FALSE]
  /\ pending = [e \in Endpoints |-> <<>>]
  /\ st = NoState /\ rev = -1
  /\ steps = NoSteps /\ job = [s \in Subgraph |-> "idle"] /\ recall = NoRecall
  /\ cache \in SUBSET Keywords
  /\ handoffs = 0 /\ cost = 0 /\ retries = 0 /\ solves = 0 /\ status = "running"
  /\ result = [status |-> "none", plan |-> 0, early |-> FALSE] /\ review = NoReview
  /\ row = NewRow /\ outcome = "running" /\ why = "none" /\ faults = 0
  /\ broken = FALSE

(***************************************************************************)
(* The parts that the methods share.                                       *)
(***************************************************************************)
\* _build_execution_plan: what each step waits for.
DependsOn == [s \in StepIds |->
  CASE s = "intent"       -> {}
    [] s = "search"       -> {"intent"}
    [] s = "weather"      -> {"intent"}
    [] s = "safety_check" -> {"intent", "search"} \cup (IF graph.weather THEN {"weather"} ELSE {})
    [] s = "planner"      -> {"search"} \cup
                             (IF graph.safety THEN {"safety_check"}
                              ELSE IF graph.weather THEN {"weather"} ELSE {})
    [] s = "critic"       -> {"planner"}
    [] s = "final_answer" -> IF mode = "off" THEN {"planner"} ELSE {"critic"}]

Planned(s, g) == /\ s = "weather" => g.weather
                 /\ s = "safety_check" => g.safety
                 /\ s = "critic" => mode # "off"

\* _set_plan_status: a step that is not in the plan is left alone.
SetStep(f, s, new) == IF f[s] = "absent" THEN f ELSE [f EXCEPT ![s] = new]

\* checkpoint: the row takes the trace and every step in one commit.
Checkpoint(newSteps, newStatus) ==
  row' = [status |-> newStatus, completed |-> newStatus \in Terminal, steps |-> newSteps]

\* The context of an Agent is built only from a message that speaks of the Shared
\* State as it is now: its revision and, for the same revision, its hashes.
Fresh(message) == message.rev \in {st.rev, -1}

\* _consume, and the check of what is consumed.
Consumable(e, types) ==
  /\ pending[e] # <<>>
  /\ Head(pending[e]).type \in types
  /\ Fresh(Head(pending[e]))
Taken(queues, e) == [queues EXCEPT ![e] = Tail(@)]

\* _dispatch, after an update: the message carries the new revision.
Sent(queues, to, type) ==
  [queues EXCEPT ![to] = Append(@, [type |-> type, rev |-> rev'])]

\* update: what it asks for, and what Redis holds when it has taken it.
Allowed(action) == MayPerform(action, st.phase) /\ st.rev = rev
UpdateTaken(action, plan) ==
  st' = [phase |-> ActionPhase[action], rev |-> st.rev + 1, plan |-> plan]

\* An update that Redis has taken and whose reply is lost: update raises, and the
\* orchestrator keeps its old state_revision.
Perform_ReplyLost(action, plan) ==
  UpdateTaken(action, plan) /\ UNCHANGED rev

\* update of the Shared State, and state_revision after it.
Perform(action, plan) ==
  UpdateTaken(action, plan) /\ rev' = st.rev + 1

\* An exception leaves _plan; plan catches it and calls fail.
Throw(reason) ==
  /\ pc' = "failing" /\ why' = reason
  /\ UNCHANGED <<settings, graph, pending, st, rev, steps, job, recall, cache, trace, result,
                 review, row, outcome, faults, broken>>

\* may_run_critic
MayRunCritic == mode # "off" /\ handoffs < limit /\ cost < MaxCost

\* retry_allowed
RetryAllowed == mode = "enforce" /\ retries < MaxCriticRetries /\ handoffs < limit

(***************************************************************************)
(* From the request to the execution plan.                                 *)
(***************************************************************************)
\* start: initialize; user -> supervisor -> intent; the first checkpoint.
Start ==
  /\ pc = "start" /\ pc' = "understand"
  /\ st' = [phase |-> "initialized", rev |-> 0, plan |-> 0] /\ rev' = 0
  /\ pending' = [pending EXCEPT !["intent"] = Append(@, [type |-> "planning_request", rev |-> -1])]
  /\ handoffs' = handoffs + 1
  /\ Checkpoint(steps, status)
  /\ UNCHANGED <<settings, graph, steps, job, recall, cache, cost, retries, solves, status,
                 result, review, outcome, why, faults, broken>>

\* understand: the Intent Agent; with required questions the request ends here.
Understand ==
  /\ pc = "understand" /\ st # NoState
  /\ IF ~(/\ Consumable("intent", {"planning_request"}) /\ Allowed("intent_analyzed")
          /\ Authorized("intent", "supervisor", "artifact", "intent_artifact"))
     THEN Throw("protocol")
     ELSE /\ Perform("intent_analyzed", 0)
          /\ pending' = Sent(Taken(pending, "intent"), "supervisor", "intent_artifact")
          /\ \E c \in Costs : cost' = cost + c
          /\ \/ pc' = "plan_next" /\ UNCHANGED result
             \/ /\ pc' = "finalize"
                /\ result' = [status |-> "need_clarification", plan |-> 0, early |-> TRUE]
          /\ handoffs' = handoffs + 1
          /\ Checkpoint(steps, status)
          /\ UNCHANGED <<settings, graph, steps, job, recall, cache, retries, solves, status,
                         review, outcome, why, faults, broken>>

\* plan_next: the Supervisor builds the execution plan and commands the search.
PlanNext ==
  /\ pc = "plan_next" /\ st # NoState
  /\ IF ~(Consumable("supervisor", {"intent_artifact"})
          /\ Authorized("supervisor", "search", "command", "intent_artifact"))
     THEN Throw("protocol")
     ELSE \E g \in [weather : BOOLEAN, safety : BOOLEAN] :
            LET planned == [s \in StepIds |-> CASE ~Planned(s, g) -> "absent"
                                                [] s = "intent"   -> "succeeded"
                                                [] OTHER          -> "pending"]
            IN  /\ graph' = g /\ steps' = planned
                /\ UNCHANGED <<st, rev>>
                /\ pending' = Sent(Taken(pending, "supervisor"), "search", "intent_artifact")
                /\ pc' = "solve" /\ handoffs' = handoffs + 1
                /\ Checkpoint(planned, status)
                /\ UNCHANGED <<settings, job, recall, cache, cost, retries, solves, status,
                               result, review, outcome, why, faults, broken>>

(***************************************************************************)
(* execute_planning_stages: the subgraph in topological order.             *)
(***************************************************************************)
InPlan == {s \in Subgraph : steps[s] # "absent"}

Solve ==
  /\ pc = "solve" /\ st # NoState
  /\ steps' = [s \in StepIds |-> IF s \notin InPlan THEN steps[s]
                                 ELSE IF solves = 0 THEN "pending" ELSE "retrying"]
  /\ solves' = solves + 1 /\ pc' = "wave"
  /\ Checkpoint(steps', status)
  /\ UNCHANGED <<settings, graph, pending, st, rev, job, recall, cache, handoffs, cost, retries,
                 status, result, review, outcome, why, faults, broken>>

Waiting == {s \in InPlan : steps[s] \in {"pending", "retrying"}}

\* A wave that does not look at the dependencies.
WaveReady_All == Waiting

\* The steps whose dependencies have completed in this solve.
WaveReady == {s \in Waiting : \A d \in DependsOn[s] : steps[d] = "succeeded"}

Wave ==
  /\ pc = "wave" /\ st # NoState /\ Waiting # {}
  /\ IF WaveReady = {} THEN Throw("blocked")
     ELSE /\ steps' = [s \in StepIds |-> IF s \in WaveReady THEN "running" ELSE steps[s]]
          /\ job' = [s \in Subgraph |-> IF s \in WaveReady THEN "begin" ELSE "idle"]
          /\ pc' = "gather"
          /\ Checkpoint(steps', status)
          /\ UNCHANGED <<settings, graph, pending, st, rev, recall, cache, trace, result, review,
                         outcome, why, faults, broken>>

\* A coroutine of the wave ends, with a value or an exception.
EndJob(s, how) == job' = [job EXCEPT ![s] = how]

\* A search that leaves its message in the queue.
SearchBegin_Peeks ==
  /\ pc = "gather" /\ job["search"] = "begin" /\ st # NoState
  /\ \E failed \in SUBSET Keywords : \E hits \in SUBSET (Keywords \ failed) :
       /\ recall' = [NoRecall EXCEPT !.todo = failed, !.found = hits]
       /\ cache' = cache \cup hits
  /\ EndJob("search", "recall")
  /\ UNCHANGED <<settings, pc, graph, pending, st, rev, steps, trace, result, review, row,
                 outcome, why, faults, broken>>

\* run_search: the recalls of all keywords, side by side; those that find a
\* place are cached.
SearchBegin ==
  /\ pc = "gather" /\ job["search"] = "begin" /\ st # NoState
  /\ IF ~Consumable("search", {"intent_artifact", "retry_directive"})
     THEN /\ EndJob("search", "raised") /\ why' = "protocol"
          /\ UNCHANGED <<pending, recall, cache>>
     ELSE /\ pending' = Taken(pending, "search")
          /\ \E failed \in SUBSET Keywords : \E hits \in SUBSET (Keywords \ failed) :
               /\ recall' = [NoRecall EXCEPT !.todo = failed, !.found = hits]
               /\ cache' = cache \cup hits
          /\ EndJob("search", "recall")
          /\ UNCHANGED why
  /\ UNCHANGED <<settings, pc, graph, st, rev, steps, trace, result, review, row,
                 outcome, faults, broken>>

\* The keyword whose failure is being recovered.
Current == CHOOSE k \in recall.todo : TRUE

\* SupervisorAgent.recover for the stage poi_search.
RecoveryAction(attempt, cached) ==
  IF attempt < MaxSearchAttempts THEN "retry"
  ELSE IF cached THEN "fallback_cached" ELSE "fallback_unavailable"

\* recover, called by the Search Agent: system -> supervisor, decision, update
\* and checkpoint.  The cache is asked before.
Recover ==
  /\ pc = "gather" /\ job["search"] = "recall" /\ recall.todo # {} /\ recall.action = "none"
  /\ st # NoState
  /\ IF ~(/\ pending["supervisor"] = <<>>
          /\ Allowed("recovery_applied")
          /\ Authorized("system", "supervisor", "error", "recovery_event"))
     THEN /\ EndJob("search", "raised") /\ why' = "protocol"
          /\ UNCHANGED <<recall, st, rev, handoffs, row>>
     ELSE /\ recall' = [recall EXCEPT !.action = RecoveryAction(recall.attempt, Current \in cache)]
          /\ Perform("recovery_applied", st.plan)
          /\ handoffs' = handoffs + 1
          /\ Checkpoint(steps, status)
          /\ UNCHANGED <<job, why>>
  /\ UNCHANGED <<settings, pc, graph, pending, steps, cache, cost, retries, solves, status,
                 result, review, outcome, faults, broken>>

\* The Search Agent follows the decision: the recall again, or the cache as it is
\* by now, or nothing.
NextKeyword(hits) ==
  recall' = [recall EXCEPT !.todo = @ \ {Current}, !.attempt = 1, !.action = "none",
                           !.found = @ \cup hits]

FollowDecision ==
  /\ pc = "gather" /\ job["search"] = "recall" /\ recall.action # "none"
  /\ \/ /\ recall.action = "retry"
        /\ \/ \E hits \in SUBSET {Current} : NextKeyword(hits) /\ cache' = cache \cup hits
           \/ /\ recall' = [recall EXCEPT !.attempt = @ + 1, !.action = "none"]
              /\ UNCHANGED cache
     \/ /\ recall.action = "fallback_cached"
        /\ NextKeyword({Current} \cap cache) /\ UNCHANGED cache
     \/ /\ recall.action = "fallback_unavailable"
        /\ NextKeyword({}) /\ UNCHANGED cache
  /\ UNCHANGED <<settings, pc, graph, pending, st, rev, steps, job, trace, result, review, row,
                 outcome, why, faults, broken>>

\* Questions that forget the keywords without a candidate.
SearchAsks_Ambiguous(groups, ambiguous) == ambiguous

\* _apply_user_choices_and_build_questions: a keyword without candidates is
\* asked for; so are a choice that is gone and places of the same name.
SearchAsks(groups, ambiguous) == groups # Keywords \/ ambiguous

\* What SearchAgent.run returns: the groups that are left after filtering, and
\* whether there are questions.
SearchArtifact(groups, ambiguous) ==
  [recall EXCEPT !.found = groups, !.asks = SearchAsks(groups, ambiguous)]

\* The end of run_search: update, hand-off to the Safety Agent or the Planner.
SearchEnd ==
  LET to == IF steps["safety_check"] # "absent" THEN "safety" ELSE "planner"
  IN  /\ pc = "gather" /\ job["search"] = "recall" /\ recall.todo = {} /\ st # NoState
      /\ IF ~(Allowed("search_completed") /\ Authorized("search", to, "artifact", "search_artifact"))
         THEN /\ EndJob("search", "raised") /\ why' = "protocol"
              /\ UNCHANGED <<recall, st, rev, pending, handoffs>>
         ELSE /\ \E groups \in SUBSET recall.found, ambiguous \in BOOLEAN :
                   recall' = SearchArtifact(groups, ambiguous)
              /\ Perform("search_completed", st.plan)
              /\ pending' = Sent(pending, to, "search_artifact")
              /\ handoffs' = handoffs + 1
              /\ EndJob("search", "done") /\ UNCHANGED why
      /\ UNCHANGED <<settings, pc, graph, steps, cache, cost, retries, solves, status, result,
                     review, row, outcome, faults, broken>>

\* run_weather: a deterministic stage without messages; the provider may fail.
RunWeather ==
  /\ pc = "gather" /\ job["weather"] = "begin"
  /\ \/ EndJob("weather", "done") /\ UNCHANGED why
     \/ EndJob("weather", "raised") /\ why' = "agent"
  /\ UNCHANGED <<settings, pc, graph, pending, st, rev, steps, recall, cache, trace, result,
                 review, row, outcome, faults, broken>>

\* check_safety
CheckSafety ==
  /\ pc = "gather" /\ job["safety_check"] = "begin" /\ st # NoState
  /\ IF ~(/\ Consumable("safety", {"search_artifact"}) /\ Allowed("safety_checked")
          /\ Authorized("safety", "planner", "artifact", "safety_report"))
     THEN /\ EndJob("safety_check", "raised") /\ why' = "protocol"
          /\ UNCHANGED <<st, rev, pending, handoffs>>
     ELSE /\ Perform("safety_checked", st.plan)
          /\ pending' = Sent(Taken(pending, "safety"), "planner", "safety_report")
          /\ handoffs' = handoffs + 1
          /\ EndJob("safety_check", "done") /\ UNCHANGED why
  /\ UNCHANGED <<settings, pc, graph, steps, recall, cache, cost, retries, solves, status, result,
                 review, row, outcome, faults, broken>>

\* The route, refined and evaluated again for public transport.
Evaluated(feasible) == IF feasible THEN "success" ELSE "infeasible"

\* PlannerAgent.run: questions of the search or a tool without an answer are
\* passed on as a clarification; otherwise the optimizer decides.
PlannerStatus(asks, matrixOk, optimizerOk, feasible) ==
  IF asks \/ ~matrixOk \/ ~optimizerOk THEN "need_clarification" ELSE Evaluated(feasible)

\* run_planner: locally or by a role worker; the candidate goes to the Critic if
\* it may run, counted before this hand-off.
RunPlanner ==
  /\ pc = "gather" /\ job["planner"] = "begin" /\ st # NoState
  /\ IF ~(Consumable("planner", {"search_artifact", "safety_report"}) /\ Allowed("plan_completed"))
     THEN /\ EndJob("planner", "raised") /\ why' = "protocol"
          /\ UNCHANGED <<st, rev, pending, handoffs, result>>
     ELSE \/ /\ EndJob("planner", "raised") /\ why' = "agent"
             /\ pending' = Taken(pending, "planner")
             /\ UNCHANGED <<st, rev, handoffs, result>>
          \/ \E matrixOk, optimizerOk, feasible \in BOOLEAN :
               LET ps     == PlannerStatus(recall.asks, matrixOk, optimizerOk, feasible)
                   critic == ps # "need_clarification" /\ MayRunCritic
               IN  /\ result' = [status |-> ps, plan |-> solves, early |-> FALSE]
                   /\ Perform("plan_completed", solves)
                   /\ pending' = Sent(Taken(pending, "planner"),
                                      IF critic THEN "critic" ELSE "supervisor", "plan_candidate")
                   /\ handoffs' = handoffs + 1
                   /\ EndJob("planner", "done") /\ UNCHANGED why
  /\ UNCHANGED <<settings, pc, graph, steps, recall, cache, cost, retries, solves, status, review,
                 row, outcome, faults, broken>>

Running == {s \in Subgraph : steps[s] = "running"}

\* A gather that simply tries a weather stage that failed again.
Gather_RetriesWeather ==
  /\ pc = "gather" /\ st # NoState /\ ~broken
  /\ \A s \in Running : job[s] \in {"done", "raised"}
  /\ LET failed == {s \in Running : job[s] = "raised"}
         ended  == [s \in StepIds |->
                      IF s \in Running
                      THEN (IF s \notin failed THEN "succeeded"
                            ELSE IF failed = {"weather"} THEN "retrying" ELSE "failed")
                      ELSE steps[s]]
     IN  /\ steps' = ended
         /\ pc' = IF failed \ {"weather"} # {} THEN "failing"
                  ELSE IF Waiting \cup failed # {} THEN "wave" ELSE "solved"
         /\ Checkpoint(ended, status)
  /\ job' = [s \in Subgraph |-> "idle"]
  /\ UNCHANGED <<settings, graph, pending, st, rev, recall, cache, trace, result, review, outcome,
                 why, faults, broken>>

\* The statuses after asyncio.gather: what ran, and what a failure blocks.
WaveEnded == pc = "gather" /\ \A s \in Running : job[s] \in {"done", "raised"}
WaveResult ==
  LET failed == {s \in Running : job[s] = "raised"}
  IN  [s \in StepIds |-> IF s \in Running THEN (IF s \in failed THEN "failed" ELSE "succeeded")
                         ELSE IF failed # {} /\ s \in Waiting THEN "blocked" ELSE steps[s]]

\* asyncio.gather returns; statuses, checkpoint, and the first exception.
Gather ==
  /\ WaveEnded /\ st # NoState /\ ~broken
  /\ steps' = WaveResult /\ job' = [s \in Subgraph |-> "idle"]
  /\ pc' = IF \E s \in Running : job[s] = "raised" THEN "failing"
           ELSE IF Waiting # {} THEN "wave" ELSE "solved"
  /\ Checkpoint(steps', status)
  /\ UNCHANGED <<settings, graph, pending, st, rev, recall, cache, trace, result, review, outcome,
                 why, faults, broken>>

\* The checkpoint after the wave finds a session that a recovery has broken.
GatherRefused ==
  /\ WaveEnded /\ st # NoState /\ broken
  /\ steps' = WaveResult /\ job' = [s \in Subgraph |-> "idle"]
  /\ pc' = "failing" /\ why' = "fault"
  /\ UNCHANGED <<settings, graph, pending, st, rev, recall, cache, trace, result, review, row,
                 outcome, faults, broken>>

\* _plan after a solve: only the first one is asked whether it needs the user.
Solved ==
  /\ pc = "solved"
  /\ LET early == solves = 1 /\ result.status = "need_clarification"
     IN  /\ pc' = IF early THEN "finalize" ELSE "review"
         /\ result' = [result EXCEPT !.early = early]
  /\ UNCHANGED <<settings, graph, pending, st, rev, steps, job, recall, cache, trace, review, row,
                 outcome, why, faults, broken>>

(***************************************************************************)
(* Review, soft retry and the answer.                                      *)
(***************************************************************************)
\* RuleBasedCriticAgent: the mismatch of ratings comes last and has the last word.
RuleVerdict(hard, warned, mismatch) ==
  IF mismatch THEN "retry_with_soft_adjustments"
  ELSE IF hard THEN "needs_clarification"
  ELSE IF warned THEN "approved_with_warnings" ELSE "approved"

\* OpenAICompatibleCriticAgent: a hard failure overrides what the model said.
ModelVerdict(hard, warned, said) ==
  IF hard THEN "needs_clarification"
  ELSE IF warned /\ said = "approved" THEN "approved_with_warnings" ELSE said

\* RoutedCriticAgent takes one of the two.  Ratings are only compared in a plan
\* that succeeded.
CriticVerdicts(hard, warned) ==
  {RuleVerdict(hard, warned, m) : m \in {FALSE, result.status = "success"}}
    \cup {ModelVerdict(hard, warned, said) : said \in Verdicts}

\* build_critic_context: the Shared State holds the plan that is to be reviewed.
PlanUnderReview == st.plan = result.plan

\* review, up to its first checkpoint.
ReviewBegin ==
  /\ pc = "review" /\ st # NoState
  /\ steps' = SetStep(steps, "critic", IF MayRunCritic THEN "running" ELSE "skipped")
  /\ pc' = IF MayRunCritic THEN "critic" ELSE "decide"
  /\ Checkpoint(steps', status)
  /\ UNCHANGED <<settings, graph, pending, st, rev, job, recall, cache, trace, result, review,
                 outcome, why, faults, broken>>

\* The Critic runs (locally or by a role worker) and raises.
CriticRaises ==
  /\ pc = "critic" /\ st # NoState /\ Consumable("critic", {"plan_candidate"})
  /\ pc' = "failing" /\ why' = "agent"
  /\ pending' = Taken(pending, "critic")
  /\ steps' = SetStep(steps, "critic", "failed")
  /\ Checkpoint(steps', status)
  /\ UNCHANGED <<settings, graph, st, rev, job, recall, cache, trace, result, review, outcome, faults, broken>>

\* A review that takes the workflow over its cost limit is dropped.
OverBudget(c) == cost + c > MaxCost

CriticDropped ==
  /\ pc = "critic" /\ st # NoState /\ Consumable("critic", {"plan_candidate"})
  /\ \E c \in Costs : OverBudget(c)
  /\ pc' = "decide" /\ status' = "budget_exceeded"
  /\ pending' = Taken(pending, "critic")
  /\ steps' = SetStep(steps, "critic", "failed")
  /\ Checkpoint(steps', status')
  /\ UNCHANGED <<settings, graph, st, rev, job, recall, cache, handoffs, cost, retries, solves,
                 result, review, outcome, why, faults, broken>>

\* The report, its update and its hand-off.  The route evaluation is only looked
\* at in a plan that succeeded.
Critic ==
  /\ pc = "critic" /\ st # NoState
  /\ IF ~(/\ Consumable("critic", {"plan_candidate"}) /\ PlanUnderReview
          /\ Allowed("critic_reviewed")
          /\ Authorized("critic", "supervisor", "result", "review_report"))
     THEN Throw("protocol")
     ELSE \E c \in Costs, hard, warned \in BOOLEAN : \E v \in CriticVerdicts(hard, warned) :
            /\ ~OverBudget(c) /\ cost' = cost + c
            /\ hard => result.status = "success"
            /\ review' = [verdict |-> v, plan |-> result.plan, hard |-> hard]
            /\ Perform("critic_reviewed", st.plan)
            /\ pending' = Sent(Taken(pending, "critic"), "supervisor", "review_report")
            /\ handoffs' = handoffs + 1
            /\ steps' = SetStep(steps, "critic", "succeeded")
            /\ Checkpoint(steps', status)
            /\ pc' = "decide"
            /\ UNCHANGED <<settings, graph, job, recall, cache, retries, solves, status, result,
                           outcome, why, faults, broken>>

\* An enforcement that only adds warnings.
Enforced_WarnsOnly(verdict, ps) == ps

\* _enforce_review
Enforced(verdict, ps) == IF verdict = "needs_clarification" THEN "need_clarification" ELSE ps

\* select_human_confirmation_questions: a long walk or a high price is confirmed.
NeedsConfirmation(ps, impact) == ps = "success" /\ impact

\* _plan after the review.  A report of the first solve stays in force when the
\* second review gives none.
Decide ==
  /\ pc = "decide"
  /\ IF /\ review.verdict = "retry_with_soft_adjustments" /\ solves = 1 /\ RetryAllowed
     THEN pc' = "soft_retry" /\ UNCHANGED result
     ELSE \E impact \in BOOLEAN :
          LET judged == IF mode # "enforce" THEN result.status
                        ELSE IF review = NoReview THEN "need_clarification"
                        ELSE Enforced(review.verdict, result.status)
          IN  /\ result' = [result EXCEPT !.status =
                              IF NeedsConfirmation(judged, impact) THEN "need_clarification" ELSE judged]
              /\ pc' = "finalize"
  /\ UNCHANGED <<settings, graph, pending, st, rev, steps, job, recall, cache, trace, review, row,
                 outcome, why, faults, broken>>

\* apply_soft_adjustments: what has succeeded is to be done again.
SoftRetry ==
  /\ pc = "soft_retry" /\ st # NoState
  /\ IF ~(/\ Consumable("supervisor", {"review_report"}) /\ Allowed("soft_retry_scheduled")
          /\ Authorized("supervisor", "search", "command", "retry_directive"))
     THEN Throw("protocol")
     ELSE /\ retries' = retries + 1
          /\ steps' = [s \in StepIds |-> IF s \in Subgraph \cup {"critic"} /\ steps[s] = "succeeded"
                                         THEN "retrying" ELSE steps[s]]
          /\ Perform("soft_retry_scheduled", st.plan)
          /\ pending' = Sent(Taken(pending, "supervisor"), "search", "retry_directive")
          /\ pc' = "solve"
          /\ Checkpoint(steps', status)
          /\ UNCHANGED <<settings, graph, job, recall, cache, handoffs, cost, solves, status, result,
                         review, outcome, why, faults, broken>>

\* finalize, up to its first checkpoint.
Finalize ==
  /\ pc = "finalize" /\ st # NoState
  /\ steps' = SetStep(steps, "final_answer", "running") /\ pc' = "answer"
  /\ Checkpoint(steps', status)
  /\ UNCHANGED <<settings, graph, pending, st, rev, job, recall, cache, trace, result, review,
                 outcome, why, faults, broken>>

\* The rest of finalize; it takes whatever waits for the Supervisor, if anything.
FinalAnswer ==
  /\ pc = "answer" /\ st # NoState
  /\ IF ~(/\ Allowed("workflow_finalized")
          /\ Authorized("supervisor", "final_answer", "result", "final_answer"))
     THEN Throw("protocol")
     ELSE /\ Perform("workflow_finalized", st.plan)
          /\ pending' = Sent(IF pending["supervisor"] = <<>> THEN pending
                             ELSE Taken(pending, "supervisor"), "final_answer", "final_answer")
          /\ handoffs' = handoffs + 1
          /\ steps' = SetStep(steps, "final_answer", "succeeded") /\ pc' = "finish"
          /\ Checkpoint(steps', status)
          /\ UNCHANGED <<settings, graph, job, recall, cache, cost, retries, solves, status, result,
                         review, outcome, why, faults, broken>>

\* finish, which keeps a status that is set; then the last checkpoint of plan.
Finish ==
  /\ pc = "finish" /\ st # NoState
  /\ status' = IF status # "running" THEN status
               ELSE IF result.early THEN "needs_clarification" ELSE result.status
  /\ Checkpoint(steps, status') /\ pc' = "clear"
  /\ UNCHANGED <<settings, graph, pending, st, rev, steps, job, recall, cache, handoffs, cost, retries,
                 solves, result, review, outcome, why, faults, broken>>

\* clear_short_term_memory
ClearMemory ==
  /\ pc = "clear" /\ pc' = "persist"
  /\ st' = NoState /\ outcome' = "returned"
  /\ UNCHANGED <<settings, graph, pending, rev, steps, job, recall, cache, trace, result, review, row,
                 why, faults, broken>>

\* persist_agent_workflow, called by the API with the result.
PersistWorkflow ==
  /\ pc = "persist" /\ pc' = "end"
  /\ row' = [status |-> status, completed |-> TRUE, steps |-> steps]
  /\ UNCHANGED <<settings, graph, pending, st, rev, steps, job, recall, cache, trace, result, review,
                 outcome, why, faults, broken>>

(***************************************************************************)
(* Failures.                                                               *)
(***************************************************************************)
\* A failure that leaves the steps that wait as they are.
FailedSteps_KeepsPending(f) == [s \in StepIds |-> IF f[s] = "running" THEN "failed" ELSE f[s]]

\* DurableWorkflowCheckpointStore.fail
FailedSteps(f) == [s \in StepIds |-> CASE f[s] \in {"running", "retrying"} -> "failed"
                                      [] f[s] = "pending" -> "blocked"
                                      [] OTHER -> f[s]]

\* update raises in fail: no Shared State, a phase that takes no failure, or a
\* revision that the orchestrator has not heard of.
StateRefuses == rev >= 0 /\ ~(st # NoState /\ Allowed("workflow_failed"))

\* fail: the Shared State first, then the row; if the one raises, the other is not
\* written, and a session that needs a rollback writes nothing.
Fail ==
  /\ pc = "failing" /\ pc' = "end" /\ outcome' = "raised"
  /\ IF StateRefuses
     THEN UNCHANGED <<st, rev, steps, status, row>>
     ELSE /\ IF rev >= 0 THEN Perform("workflow_failed", st.plan) ELSE UNCHANGED <<st, rev>>
          /\ steps' = FailedSteps(steps) /\ status' = "failed"
          /\ IF broken THEN UNCHANGED row ELSE Checkpoint(steps', status')
  /\ UNCHANGED <<settings, graph, pending, job, recall, cache, handoffs, cost, retries, solves, result,
                 review, why, faults, broken>>

\* fail meets a fault of its own: the Shared State raises (Redis, before or after it
\* takes the update, or max_bytes), or the transaction of the row fails.
FailRaises ==
  /\ pc = "failing" /\ faults < MaxFaults /\ faults' = faults + 1
  /\ \/ /\ rev >= 0 /\ pc' = "end" /\ outcome' = "raised" /\ why' = "shared_state"
        /\ \/ UNCHANGED st
           \/ ~StateRefuses /\ UpdateTaken("workflow_failed", st.plan)
        /\ UNCHANGED broken
     \/ ~broken /\ broken' = TRUE /\ UNCHANGED <<pc, outcome, why, st>>
  /\ UNCHANGED <<settings, graph, pending, rev, steps, job, recall, cache, trace, result, review, row>>

Busy == {"start", "understand", "plan_next", "solve", "wave", "review", "critic", "soft_retry",
         "finalize", "answer", "finish"}

\* The Shared State is gone: the next method that reads it raises.
StateGone ==
  /\ st = NoState /\ pc # "start"
  /\ \/ pc \in Busy
     \/ pc = "gather" /\ \A s \in Running : job[s] \in {"done", "raised"}
  /\ Throw("expired")

JobStateGone(s) ==
  /\ pc = "gather" /\ st = NoState /\ s # "weather"
  /\ job[s] = "begin" \/ (job[s] = "recall" /\ recall.action = "none")
  /\ EndJob(s, "raised") /\ why' = "expired"
  /\ UNCHANGED <<settings, pc, graph, pending, st, rev, steps, recall, cache, trace, result, review,
                 row, outcome, faults, broken>>

\* The update of each method, and of each coroutine of a wave.
MethodUpdate == [understand |-> "intent_analyzed", critic |-> "critic_reviewed",
                 soft_retry |-> "soft_retry_scheduled", answer |-> "workflow_finalized"]
JobUpdate(s) == CASE s = "search"       -> IF recall.todo = {} THEN "search_completed"
                                           ELSE "recovery_applied"
                  [] s = "safety_check" -> "safety_checked"
                  [] OTHER              -> "plan_completed"

\* The update is taken, but its reply is lost.
ReplyLost(action, plan) ==
  st # NoState /\ Allowed(action) /\ Perform_ReplyLost(action, plan)

\* An await raises: an Agent, Redis or the database; the failed transaction of a
\* checkpoint may leave the session broken, and an update, or the
\* initialization, may have been taken.
Raise ==
  /\ pc \in Busy /\ faults < MaxFaults /\ faults' = faults + 1
  /\ pc' = "failing" /\ why' = "fault"
  /\ \/ broken' \in BOOLEAN /\ UNCHANGED <<st, rev>>
     \/ /\ pc \in DOMAIN MethodUpdate /\ ReplyLost(MethodUpdate[pc], st.plan)
        /\ UNCHANGED broken
     \/ /\ pc = "start" /\ st' = [phase |-> "initialized", rev |-> 0, plan |-> 0]
        /\ UNCHANGED <<rev, broken>>
  /\ UNCHANGED <<settings, graph, pending, steps, job, recall, cache, trace, result, review, row,
                 outcome>>

\* In a coroutine; only a recovery has a checkpoint.
JobRaises(s) ==
  /\ pc = "gather" /\ job[s] \in {"begin", "recall"}
  /\ faults < MaxFaults /\ faults' = faults + 1
  /\ EndJob(s, "raised") /\ why' = "fault"
  /\ \/ UNCHANGED <<st, rev, broken>>
     \/ /\ s # "weather" /\ (s = "search" => job[s] = "recall" /\ recall.action = "none")
        /\ ReplyLost(JobUpdate(s), IF s = "planner" THEN solves ELSE st.plan)
        /\ UNCHANGED broken
     \/ /\ s = "search" /\ job[s] = "recall" /\ recall.todo # {} /\ recall.action = "none"
        /\ broken' = TRUE /\ UNCHANGED <<st, rev>>
  /\ UNCHANGED <<settings, pc, graph, pending, steps, recall, cache, trace, result, review, row,
                 outcome>>

\* In the checkpoint after a wave.
GatherRaises ==
  /\ WaveEnded /\ faults < MaxFaults /\ faults' = faults + 1
  /\ steps' = WaveResult /\ job' = [s \in Subgraph |-> "idle"]
  /\ pc' = "failing" /\ why' = "fault" /\ broken' \in {broken, TRUE}
  /\ UNCHANGED <<settings, graph, pending, st, rev, recall, cache, trace, result, review, row,
                 outcome>>

\* After the last checkpoint: the reply to its commit is lost, or
\* clear_short_term_memory raises, after which nobody calls fail.
EndRaises ==
  /\ pc = "clear" /\ faults < MaxFaults /\ faults' = faults + 1 /\ why' = "fault"
  /\ \/ pc' = "failing" /\ broken' = TRUE /\ UNCHANGED <<st, outcome>>
     \/ pc' = "end" /\ outcome' = "raised" /\ st' \in {st, NoState} /\ UNCHANGED broken
  /\ UNCHANGED <<settings, graph, pending, rev, steps, job, recall, cache, trace, result, review, row>>

\* The TTL of the Shared State passes while the request waits.
Expire ==
  /\ outcome = "running" /\ st # NoState /\ st' = NoState
  /\ faults < MaxFaults /\ faults' = faults + 1
  /\ UNCHANGED <<settings, pc, graph, pending, rev, steps, job, recall, cache, trace, result, review,
                 row, outcome, why, broken>>

\* The process dies, or the request is cancelled: CancelledError is no Exception,
\* so fail is not called.
Die ==
  /\ outcome = "running" /\ faults < MaxFaults /\ faults' = faults + 1
  /\ outcome' = "crashed" /\ pc' = "end"
  /\ UNCHANGED <<settings, graph, pending, st, rev, steps, job, recall, cache, trace, result, review,
                 row, why, broken>>

\* Other requests fill the shared cache and evict from it while a recovery waits.
OtherRequests ==
  /\ pc = "gather" /\ job["search"] = "recall" /\ recall.action # "none"
  /\ cache' \in SUBSET Keywords
  /\ UNCHANGED <<settings, pc, graph, pending, st, rev, steps, job, recall, trace, result, review,
                 row, outcome, why, faults, broken>>

Ended == pc = "end" /\ UNCHANGED vars

Step ==
  \/ Start \/ Understand \/ PlanNext \/ Solve \/ Wave \/ SearchBegin \/ Recover \/ FollowDecision
  \/ SearchEnd \/ RunWeather \/ CheckSafety \/ RunPlanner \/ Gather \/ GatherRefused
  \/ Solved \/ ReviewBegin \/ CriticRaises \/ CriticDropped \/ Critic \/ Decide \/ SoftRetry
  \/ Finalize \/ FinalAnswer \/ Finish \/ ClearMemory \/ PersistWorkflow
  \/ Fail \/ StateGone \/ \E s \in Subgraph : JobStateGone(s)

Next ==
  \/ Step
  \/ Raise \/ GatherRaises \/ EndRaises \/ FailRaises \/ Expire \/ Die
  \/ \E s \in Subgraph : JobRaises(s)
  \/ OtherRequests \/ Ended

Spec == Init /\ [][Next]_vars
\* The event loop runs every coroutine that is ready.
FairSpec == Spec /\ WF_vars(Step)

(***************************************************************************)
(* Properties.                                                             *)
(***************************************************************************)
TypeOK ==
  /\ mode \in Modes /\ limit \in HandoffLimits
  /\ graph \in [weather : BOOLEAN, safety : BOOLEAN]
  /\ \A e \in Endpoints : Len(pending[e]) <= 1
  /\ st.phase \in Phases \cup {"none"} /\ rev >= -1
  /\ steps \in [StepIds -> StepStatus] /\ row.steps \in [StepIds -> StepStatus]
  /\ recall.found \subseteq Keywords /\ recall.attempt \in 1..MaxSearchAttempts
  /\ cache \subseteq Keywords
  /\ result.status \in PlanStatus \cup {"none"} /\ review.verdict \in Verdicts \cup {"none"}
  /\ outcome \in {"running", "returned", "raised", "crashed"}
  /\ faults \in 0..MaxFaults /\ broken \in BOOLEAN

\* The hand-offs fit together: no method finds its queue empty, a message of
\* another kind, a stale revision or a phase that refuses its update, whatever
\* recoveries, limits and retries come before.  There is one exception, the
\* review that _plan runs after a second solve whose candidate asks the user
\* and therefore went to the Supervisor.
HandoffsMatch ==
  why \in {"protocol", "blocked"} => solves = 2 /\ result.status = "need_clarification"

\* In every durable state a step of the plan is running or done only after what
\* it depends on is done in the same solve, so a workflow that a crash leaves
\* behind can be read step by step.
DurableOrder ==
  \A s \in Subgraph \cup {"critic"} :
    row.steps[s] \in {"running", "succeeded"} =>
      \A d \in DependsOn[s] : row.steps[d] = "succeeded"

\* Mode enforce lets no plan through that the Critic has not seen, except the
\* second solve when its own review was skipped or dropped for the limits, and
\* none with a hard failure, except where the mismatch of ratings has taken the
\* verdict of the rule-based Critic.
EnforceReviews ==
  mode = "enforce" /\ pc \in {"finalize", "answer", "finish", "clear", "persist"}
      /\ result.status = "success" =>
    /\ review # NoReview
    /\ review.plan = result.plan \/ (solves = 2 /\ steps["critic"] \in {"skipped", "failed"})
    /\ review.hard => review.verdict = "retry_with_soft_adjustments"

\* A plan that succeeds has a candidate for every task, although the cache that
\* a recovery counted on may be evicted before it is read.
EveryTaskPlaced ==
  outcome = "returned" /\ result.status = "success" => recall.found = Keywords

\* A request that returns leaves a closed row and no Shared State; one that
\* raises leaves a failed row in which nothing runs or waits, unless fail could not
\* reach the row: its session is broken, the Shared State raises in fail itself, or
\* the Shared State that the request has made (rev >= 0) has expired or been
\* cleared, is finalized, or has taken an update whose reply was lost.
EndIsRecorded ==
  /\ outcome = "returned" => st = NoState /\ row.status # "running"
  /\ outcome = "raised" =>
       \/ /\ row.status = "failed"
          /\ \A s \in StepIds : row.steps[s] \notin {"running", "retrying", "pending"}
       \/ /\ row.status # "failed"
          /\ \/ broken \/ why = "shared_state"
             \/ rev >= 0 /\ (st = NoState \/ st.phase = "finalized" \/ st.rev # rev)

\* Every request ends: recoveries, waves and retries are bounded.
EventuallyEnds == <>(outcome # "running")

=============================================================================
