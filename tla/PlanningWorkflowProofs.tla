----------------------- MODULE PlanningWorkflowProofs -----------------------
(***************************************************************************)
(* Proofs about PlanningWorkflow for any keywords, costs, limits and       *)
(* faults.  The hand-offs are a baton: outside a running recall and the    *)
(* end of a review exactly one message waits, at the endpoint whose method *)
(* runs next, and it speaks of the revision the orchestrator holds.  What  *)
(* else the properties need is how far the solve has come, which the       *)
(* statuses of the steps and the coroutines of the wave say together.      *)
(***************************************************************************)
EXTENDS PlanningWorkflow, TLAPS

-----------------------------------------------------------------------------
(* Types *)

PCs == {"start", "understand", "plan_next", "solve", "wave", "gather", "solved", "review",
        "critic", "decide", "soft_retry", "finalize", "answer", "finish", "clear", "persist",
        "failing", "end"}

JobStates == {"idle", "begin", "recall", "done", "raised"}
RecoveryActions == {"none", "retry", "fallback_cached", "fallback_unavailable"}
Statuses == PlanStatus \cup {"none", "running", "failed", "budget_exceeded", "needs_clarification"}
Reasons == {"none", "protocol", "blocked", "expired", "fault", "agent", "shared_state"}

Message ==
  [type : {"planning_request", "intent_artifact", "retry_directive", "search_artifact",
           "safety_report", "plan_candidate", "review_report", "final_answer"},
   rev : Int]

State == [phase : Phases \cup {"none"}, rev : Int, plan : Nat]

Recall == [todo : SUBSET Keywords, attempt : 1..MaxSearchAttempts, action : RecoveryActions,
           found : SUBSET Keywords, asks : BOOLEAN]

Result == [status : PlanStatus \cup {"none"}, plan : Nat, early : BOOLEAN]
Review == [verdict : Verdicts \cup {"none"}, plan : Nat, hard : BOOLEAN]
Row == [status : Statuses, completed : BOOLEAN, steps : [StepIds -> StepStatus]]
Queues == [Endpoints -> Seq(Message)]

TypeInv ==
  /\ mode \in Modes /\ limit \in HandoffLimits
  /\ pc \in PCs /\ graph \in [weather : BOOLEAN, safety : BOOLEAN]
  /\ pending \in Queues
  /\ st \in State /\ st.rev >= -1 /\ rev \in Int /\ rev >= -1
  /\ steps \in [StepIds -> StepStatus] /\ job \in [Subgraph -> JobStates]
  /\ recall \in Recall /\ cache \in SUBSET Keywords
  /\ recall.action # "none" => recall.todo # {}
  /\ recall.action = "retry" => recall.attempt < MaxSearchAttempts
  /\ handoffs \in Nat /\ cost \in Nat /\ retries \in Nat /\ solves \in Nat
  /\ status \in Statuses /\ result \in Result /\ review \in Review /\ row \in Row
  /\ outcome \in {"running", "returned", "raised", "crashed"} /\ why \in Reasons
  /\ faults \in 0..MaxFaults /\ broken \in BOOLEAN

-----------------------------------------------------------------------------
(* Tables, queues and the Shared State *)

\* Where the actions of the workflow lead, and from where they are allowed.
LEMMA PhaseTable ==
  /\ ActionPhase["intent_analyzed"] = "intent_ready"
  /\ ActionPhase["search_completed"] = "search_ready"
  /\ ActionPhase["safety_checked"] = "safety_ready"
  /\ ActionPhase["plan_completed"] = "plan_ready"
  /\ ActionPhase["critic_reviewed"] = "reviewed"
  /\ ActionPhase["soft_retry_scheduled"] = "retrying"
  /\ ActionPhase["recovery_applied"] = "retrying"
  /\ ActionPhase["workflow_finalized"] = "finalized"
  /\ ActionPhase["workflow_failed"] = "failed"
  BY DEF ActionPhase, Actions

LEMMA FollowTable ==
  /\ "intent_ready" \in FollowedBy["initialized"]
  /\ \A p \in {"intent_ready", "retrying"} :
       "retrying" \in FollowedBy[p] /\ "search_ready" \in FollowedBy[p]
  /\ "safety_ready" \in FollowedBy["search_ready"]
  /\ \A p \in {"search_ready", "safety_ready"} : "plan_ready" \in FollowedBy[p]
  /\ "reviewed" \in FollowedBy["plan_ready"]
  /\ "retrying" \in FollowedBy["reviewed"]
  /\ \A p \in {"intent_ready", "plan_ready", "reviewed"} : "finalized" \in FollowedBy[p]
  /\ \A p \in {"initialized", "intent_ready", "search_ready", "safety_ready", "plan_ready",
               "reviewed", "retrying"} : "failed" \in FollowedBy[p]
<1>1. /\ FollowedBy["initialized"] = {"intent_ready", "plan_ready", "retrying", "failed"}
      /\ FollowedBy["intent_ready"] = {"search_ready", "retrying", "finalized", "failed"}
      /\ FollowedBy["search_ready"] = {"safety_ready", "plan_ready", "retrying", "failed"}
      /\ FollowedBy["safety_ready"] = {"plan_ready", "retrying", "failed"}
  BY DEF FollowedBy, Phases
<1>2. /\ FollowedBy["plan_ready"] = {"reviewed", "retrying", "finalized", "in_trip", "failed"}
      /\ FollowedBy["reviewed"] = {"retrying", "finalized", "failed"}
      /\ FollowedBy["retrying"] = {"retrying", "search_ready", "plan_ready", "failed"}
  BY DEF FollowedBy, Phases
<1>3. \A p \in {"intent_ready", "retrying"} :
        "retrying" \in FollowedBy[p] /\ "search_ready" \in FollowedBy[p]
  BY <1>1, <1>2
<1>4. \A p \in {"search_ready", "safety_ready"} : "plan_ready" \in FollowedBy[p]
  BY <1>1
<1>5. \A p \in {"intent_ready", "plan_ready", "reviewed"} : "finalized" \in FollowedBy[p]
  BY <1>1, <1>2
<1>6. "failed" \in FollowedBy["initialized"] /\ "failed" \in FollowedBy["intent_ready"]
      /\ "failed" \in FollowedBy["search_ready"] /\ "failed" \in FollowedBy["safety_ready"]
      /\ "failed" \in FollowedBy["plan_ready"] /\ "failed" \in FollowedBy["reviewed"]
      /\ "failed" \in FollowedBy["retrying"]
  BY <1>1, <1>2
<1>7. "intent_ready" \in FollowedBy["initialized"] /\ "safety_ready" \in FollowedBy["search_ready"]
      /\ "reviewed" \in FollowedBy["plan_ready"] /\ "retrying" \in FollowedBy["reviewed"]
  BY <1>1, <1>2
<1>8. \A p \in {"initialized", "intent_ready", "search_ready", "safety_ready", "plan_ready",
                 "reviewed", "retrying"} : "failed" \in FollowedBy[p]
  BY <1>6
<1> QED  BY <1>3, <1>4, <1>5, <1>7, <1>8

\* The hand-offs of the workflow are on the allow-list.
LEMMA RouteTable ==
  /\ Authorized("intent", "supervisor", "artifact", "intent_artifact")
  /\ Authorized("supervisor", "search", "command", "intent_artifact")
  /\ Authorized("supervisor", "search", "command", "retry_directive")
  /\ Authorized("search", "planner", "artifact", "search_artifact")
  /\ Authorized("search", "safety", "artifact", "search_artifact")
  /\ Authorized("safety", "planner", "artifact", "safety_report")
  /\ Authorized("critic", "supervisor", "result", "review_report")
  /\ Authorized("system", "supervisor", "error", "recovery_event")
  /\ Authorized("supervisor", "final_answer", "result", "final_answer")
  BY DEF Authorized, Routes

\* An update that is taken makes a new state with the new revision.
LEMMA TakenUpdate ==
  ASSUME TypeInv, NEW a \in Actions, NEW p \in Nat, UpdateTaken(a, p), ActionPhase[a] \in Phases
  PROVE  /\ st' \in State /\ st' # NoState /\ st'.rev = st.rev + 1 /\ st'.rev >= 0 /\ st'.rev >= -1
         /\ st'.phase = ActionPhase[a] /\ st'.plan = p
<1>1. st.rev \in Int /\ st.rev >= -1
  BY DEF TypeInv, State
<1>2. st' = [phase |-> ActionPhase[a], rev |-> st.rev + 1, plan |-> p]
  BY DEF UpdateTaken
<1> QED  BY <1>1, <1>2 DEF State, NoState, Phases

\* After one whose reply arrives the orchestrator holds that revision.
LEMMA Performed ==
  ASSUME TypeInv, NEW a \in Actions, NEW p \in Nat, Perform(a, p), ActionPhase[a] \in Phases
  PROVE  /\ st' \in State /\ rev' \in Int /\ rev' >= -1
         /\ st' # NoState /\ st'.rev = rev' /\ rev' >= 0 /\ st'.rev >= -1 /\ st'.phase = ActionPhase[a] /\ st'.plan = p
<1>1. UpdateTaken(a, p) /\ rev' = st.rev + 1
  BY DEF Perform
<1>2. st.rev \in Int /\ st.rev >= -1
  BY DEF TypeInv, State
<1> QED  BY <1>1, <1>2, TakenUpdate

\* A lost reply leaves the orchestrator behind the Shared State.
LEMMA LostReply ==
  ASSUME TypeInv, NEW a \in Actions, NEW p \in Nat, ReplyLost(a, p), ActionPhase[a] \in Phases
  PROVE  st' \in State /\ st'.rev >= -1 /\ UNCHANGED rev /\ st'.phase = ActionPhase[a]
<1>1. UpdateTaken(a, p) /\ UNCHANGED rev
  BY DEF ReplyLost, Perform_ReplyLost
<1> QED  BY <1>1, TakenUpdate

\* Which updates they are.
LEMMA LostUpdates ==
  /\ \A m \in DOMAIN MethodUpdate : MethodUpdate[m] \in Actions /\ ActionPhase[MethodUpdate[m]] \in Phases
  /\ \A s \in Subgraph : JobUpdate(s) \in Actions /\ ActionPhase[JobUpdate(s)] \in Phases
<1>1. /\ DOMAIN MethodUpdate = {"understand", "critic", "soft_retry", "answer"}
      /\ MethodUpdate["understand"] = "intent_analyzed" /\ MethodUpdate["critic"] = "critic_reviewed"
      /\ MethodUpdate["soft_retry"] = "soft_retry_scheduled"
      /\ MethodUpdate["answer"] = "workflow_finalized"
  BY DEF MethodUpdate
<1>2. \A s \in Subgraph : JobUpdate(s) \in {"search_completed", "recovery_applied", "safety_checked",
                                          "plan_completed"}
  BY DEF JobUpdate
<1>3. \A a \in {"intent_analyzed", "critic_reviewed", "soft_retry_scheduled", "workflow_finalized",
                "search_completed", "recovery_applied", "safety_checked", "plan_completed"} :
        a \in Actions /\ ActionPhase[a] \in Phases
  BY PhaseTable DEF Actions, Phases
<1> QED  BY <1>1, <1>2, <1>3

\* Consuming, sending and setting a status keep the types.
LEMMA TakenType ==
  ASSUME NEW q \in Queues, NEW e \in Endpoints, q[e] # <<>>
  PROVE  Taken(q, e) \in Queues
<1>1. q[e] \in Seq(Message)
  BY DEF Queues
<1>2. Tail(q[e]) \in Seq(Message)
  BY <1>1
<1> QED  BY <1>2 DEF Taken, Queues

LEMMA SentType ==
  ASSUME NEW q \in Queues, NEW to \in Endpoints, rev' \in Int,
         NEW type \in {"planning_request", "intent_artifact", "retry_directive",
                       "search_artifact", "safety_report", "plan_candidate", "review_report",
                       "final_answer"}
  PROVE  Sent(q, to, type) \in Queues
<1> DEFINE m == [type |-> type, rev |-> rev']
<1>1. m \in Message
  BY DEF Message
<1>2. q[to] \in Seq(Message)
  BY DEF Queues
<1>3. Append(q[to], m) \in Seq(Message)
  BY <1>1, <1>2
<1> QED  BY <1>3 DEF Sent, Queues

LEMMA SetStepType ==
  ASSUME NEW f \in [StepIds -> StepStatus], NEW s \in StepIds, NEW new \in StepStatus
  PROVE  SetStep(f, s, new) \in [StepIds -> StepStatus]
  BY DEF SetStep

LEMMA InitTypes == Init => TypeInv
<1> SUFFICES ASSUME Init PROVE TypeInv
  OBVIOUS
<1> USE LimitsAssumption
<1>1. pending \in Queues
  <2>1. <<>> \in Seq(Message)
    OBVIOUS
  <2> QED  BY <2>1 DEF Init, Queues
<1>2. st \in State /\ st.rev >= -1 /\ rev \in Int /\ rev >= -1
  BY DEF Init, State, NoState
<1>3. steps \in [StepIds -> StepStatus] /\ row \in Row /\ job \in [Subgraph -> JobStates]
  <2>1. NoSteps \in [StepIds -> StepStatus]
    BY DEF NoSteps, StepStatus
  <2>2. job \in [Subgraph -> JobStates]
    BY DEF Init, JobStates
  <2>3. row \in Row
    BY <2>1 DEF Init, NewRow, Row, Statuses
  <2> QED  BY <2>1, <2>2, <2>3 DEF Init
<1>4. /\ recall \in Recall /\ (recall.action # "none" => recall.todo # {})
      /\ recall.action = "retry" => recall.attempt < MaxSearchAttempts
  BY DEF Init, NoRecall, Recall, RecoveryActions
<1>5. result \in Result /\ review \in Review
  BY DEF Init, NoReview, Result, Review
<1>6. pc \in PCs /\ graph \in [weather : BOOLEAN, safety : BOOLEAN] /\ status \in Statuses
      /\ why \in Reasons /\ outcome \in {"running", "returned", "raised", "crashed"}
  BY DEF Init, PCs, Statuses, Reasons
<1>7. mode \in Modes /\ limit \in HandoffLimits /\ cache \in SUBSET Keywords
      /\ handoffs \in Nat /\ cost \in Nat /\ retries \in Nat /\ solves \in Nat
      /\ faults \in 0..MaxFaults
  BY DEF Init
<1>8. broken \in BOOLEAN
  BY DEF Init
<1> QED  BY <1>1, <1>2, <1>3, <1>4, <1>5, <1>6, <1>7, <1>8 DEF TypeInv

\* The row takes the trace and the steps.
LEMMA CheckpointType ==
  ASSUME NEW f \in [StepIds -> StepStatus], NEW new \in Statuses, Checkpoint(f, new)
  PROVE  row' \in Row /\ row'.steps = f /\ row'.status = new
  BY DEF Checkpoint, Row

LEMMA ThrowTypes ==
  ASSUME TypeInv, NEW reason \in Reasons, Throw(reason)
  PROVE  TypeInv'
  BY DEF Throw, TypeInv, settings, trace, PCs

\* A fault is one of a bounded number.
LEMMA FaultCounted ==
  ASSUME TypeInv, faults < MaxFaults, faults' = faults + 1
  PROVE  faults' \in 0..MaxFaults
  BY LimitsAssumption DEF TypeInv

LEMMA WaveResultType ==
  ASSUME TypeInv
  PROVE  WaveResult \in [StepIds -> StepStatus]
  BY DEF WaveResult, TypeInv, StepStatus

LEMMA TypeStep == TypeInv /\ [Next]_vars => TypeInv'
<1> SUFFICES ASSUME TypeInv, [Next]_vars PROVE TypeInv'
  OBVIOUS
<1> USE LimitsAssumption
<1>0. \A c \in Costs : c \in Nat
  OBVIOUS
<1>1. CASE Start
  <2>1. pending' \in Queues
    <3>1. [type |-> "planning_request", rev |-> -1] \in Message
      BY DEF Message
    <3>2. pending["intent"] \in Seq(Message)
      BY DEF TypeInv, Queues, Endpoints
    <3>3. Append(pending["intent"], [type |-> "planning_request", rev |-> -1]) \in Seq(Message)
      BY <3>1, <3>2
    <3>4. pending \in Queues
      BY DEF TypeInv
    <3> QED  BY <1>1, <3>3, <3>4 DEF Start, Queues, Endpoints
  <2>2. st' \in State /\ st'.rev >= -1 /\ rev' \in Int /\ rev' >= -1
    BY <1>1 DEF Start, State, Phases
  <2>3. row' \in Row
    BY <1>1, CheckpointType DEF Start, TypeInv
  <2>4. handoffs' \in Nat
    BY <1>1 DEF Start, TypeInv
  <2>5. pc' \in PCs
    BY <1>1 DEF Start, PCs
  <2> QED  BY <1>1, <2>1, <2>2, <2>3, <2>4, <2>5 DEF Start, TypeInv, settings
<1>2. CASE Understand
  <2>1. CASE Throw("protocol")
    BY <2>1, ThrowTypes DEF Reasons
  <2>2. CASE ~Throw("protocol")
    <3>1. Perform("intent_analyzed", 0) /\ pending["intent"] # <<>>
          /\ pending' = Sent(Taken(pending, "intent"), "supervisor", "intent_artifact")
      BY <1>2, <2>2 DEF Understand, Consumable
    <3>2. st' \in State /\ rev' \in Int /\ rev' >= -1 /\ st'.rev >= -1
      BY <3>1, Performed, PhaseTable DEF Actions, Phases
    <3>3. Taken(pending, "intent") \in Queues
      BY <3>1, TakenType DEF TypeInv, Endpoints
    <3>4. pending' \in Queues
      BY <3>1, <3>2, <3>3, SentType DEF Endpoints
    <3>5. row' \in Row
      BY <1>2, <2>2, CheckpointType DEF Understand, TypeInv
    <3>6. handoffs' \in Nat /\ cost' \in Nat
      BY <1>0, <1>2, <2>2 DEF Understand, TypeInv
    <3>7. pc' \in PCs
      BY <1>2, <2>2 DEF Understand, PCs
    <3>8. result' = result \/ result' = [status |-> "need_clarification", plan |-> 0, early |-> TRUE]
      BY <1>2, <2>2 DEF Understand
    <3>9. result' \in Result
      <4>1. [status |-> "need_clarification", plan |-> 0, early |-> TRUE] \in Result
        BY DEF Result, PlanStatus
      <4>2. result \in Result
        BY DEF TypeInv
      <4> QED  BY <3>8, <4>1, <4>2
    <3> QED  BY <1>2, <2>2, <3>2, <3>4, <3>5, <3>6, <3>7, <3>9 DEF Understand, TypeInv, settings
  <2> QED  BY <2>1, <2>2
<1>3. CASE PlanNext
  <2>1. CASE Throw("protocol")
    BY <2>1, ThrowTypes DEF Reasons
  <2>2. CASE ~Throw("protocol")
    <3>1. pending["supervisor"] # <<>> /\ UNCHANGED <<st, rev>>
          /\ pending' = Sent(Taken(pending, "supervisor"), "search", "intent_artifact")
      BY <1>3, <2>2 DEF PlanNext, Consumable
    <3>2. rev' \in Int
      BY <3>1 DEF TypeInv
    <3>3. Taken(pending, "supervisor") \in Queues
      BY <3>1, TakenType DEF TypeInv, Endpoints
    <3>4. pending' \in Queues
      BY <3>1, <3>2, <3>3, SentType DEF Endpoints
    <3>5. PICK g \in [weather : BOOLEAN, safety : BOOLEAN] :
            /\ graph' = g
            /\ steps' = [s \in StepIds |-> CASE ~Planned(s, g) -> "absent"
                                             [] s = "intent"   -> "succeeded"
                                             [] OTHER          -> "pending"]
            /\ Checkpoint(steps', status)
            /\ handoffs' = handoffs + 1
      BY <1>3, <2>2 DEF PlanNext
    <3>6. steps' \in [StepIds -> StepStatus]
      BY <3>5 DEF StepStatus
    <3>7. row' \in Row
      BY <3>5, <3>6, CheckpointType DEF TypeInv
    <3>8. handoffs' \in Nat
      BY <3>5 DEF TypeInv
    <3>9. pc' \in PCs
      BY <1>3, <2>2 DEF PlanNext, PCs
    <3> QED  BY <1>3, <2>2, <3>4, <3>5, <3>6, <3>7, <3>8, <3>9 DEF PlanNext, TypeInv, settings
  <2> QED  BY <2>1, <2>2
<1>4. CASE Solve
  <2>1. steps' \in [StepIds -> StepStatus]
    BY <1>4 DEF Solve, TypeInv, StepStatus
  <2>2. row' \in Row
    BY <1>4, <2>1, CheckpointType DEF Solve, TypeInv
  <2>3. solves' \in Nat /\ pc' \in PCs
    BY <1>4 DEF Solve, TypeInv, PCs
  <2> QED  BY <1>4, <2>1, <2>2, <2>3 DEF Solve, TypeInv, settings
<1>5. CASE Wave
  <2>1. CASE Throw("blocked")
    BY <2>1, ThrowTypes DEF Reasons
  <2>2. CASE ~Throw("blocked")
    <3>1. steps' \in [StepIds -> StepStatus]
      BY <1>5, <2>2 DEF Wave, TypeInv, StepStatus
    <3>2. row' \in Row
      BY <1>5, <2>2, <3>1, CheckpointType DEF Wave, TypeInv
    <3>3. job' \in [Subgraph -> JobStates]
      BY <1>5, <2>2 DEF Wave, JobStates
    <3>4. pc' \in PCs
      BY <1>5, <2>2 DEF Wave, PCs
    <3> QED  BY <1>5, <2>2, <3>1, <3>2, <3>3, <3>4 DEF Wave, TypeInv, settings, trace
  <2> QED  BY <2>1, <2>2
<1>6. CASE SearchBegin
  <2>1. CASE why' = "protocol" /\ job' = [job EXCEPT !["search"] = "raised"]
             /\ UNCHANGED <<pending, recall, cache>>
    <3>1. job' \in [Subgraph -> JobStates]
      BY <2>1 DEF TypeInv, JobStates
    <3> QED  BY <1>6, <2>1, <3>1 DEF SearchBegin, TypeInv, Reasons, settings, trace
  <2>2. CASE ~(why' = "protocol" /\ job' = [job EXCEPT !["search"] = "raised"]
               /\ UNCHANGED <<pending, recall, cache>>)
    <3>1. pending["search"] # <<>> /\ pending' = Taken(pending, "search")
          /\ job' = [job EXCEPT !["search"] = "recall"] /\ why' = why
      BY <1>6, <2>2 DEF SearchBegin, Consumable, EndJob
    <3>2. pending' \in Queues
      BY <3>1, TakenType DEF TypeInv, Endpoints
    <3>3. job' \in [Subgraph -> JobStates]
      BY <3>1 DEF TypeInv, JobStates
    <3>4. PICK failed \in SUBSET Keywords : \E hits \in SUBSET (Keywords \ failed) :
            /\ recall' = [NoRecall EXCEPT !.todo = failed, !.found = hits]
            /\ cache' = cache \cup hits
      BY <1>6, <2>2 DEF SearchBegin, EndJob
    <3>5. PICK hits \in SUBSET (Keywords \ failed) :
            /\ recall' = [NoRecall EXCEPT !.todo = failed, !.found = hits]
            /\ cache' = cache \cup hits
      BY <3>4
    <3>6. cache' \in SUBSET Keywords
      BY <3>5 DEF TypeInv
    <3>7. recall' = [todo |-> failed, attempt |-> 1, action |-> "none", found |-> hits,
                     asks |-> FALSE]
      BY <3>5 DEF NoRecall
    <3>8. recall' \in Recall /\ recall'.action = "none"
      BY <3>7 DEF Recall, RecoveryActions
    <3> QED  BY <1>6, <3>1, <3>2, <3>3, <3>6, <3>8 DEF SearchBegin, TypeInv, settings, trace
  <2> QED  BY <2>1, <2>2
<1>7. CASE Recover
  <2>1. CASE why' = "protocol" /\ job' = [job EXCEPT !["search"] = "raised"]
             /\ UNCHANGED <<recall, st, rev, handoffs, row>>
    <3>1. job' \in [Subgraph -> JobStates]
      BY <2>1 DEF TypeInv, JobStates
    <3> QED  BY <1>7, <2>1, <3>1 DEF Recover, TypeInv, Reasons, settings
  <2>2. CASE ~(why' = "protocol" /\ job' = [job EXCEPT !["search"] = "raised"]
               /\ UNCHANGED <<recall, st, rev, handoffs, row>>)
    <3>1. /\ recall' = [recall EXCEPT !.action = RecoveryAction(recall.attempt, Current \in cache)]
          /\ Perform("recovery_applied", st.plan)
          /\ handoffs' = handoffs + 1 /\ Checkpoint(steps, status) /\ UNCHANGED <<job, why>>
      BY <1>7, <2>2 DEF Recover, EndJob
    <3>2. st.plan \in Nat
      BY DEF TypeInv, State
    <3>3. st' \in State /\ rev' \in Int /\ rev' >= -1 /\ st'.rev >= -1
      BY <3>1, <3>2, Performed, PhaseTable DEF Actions, Phases
    <3>4. row' \in Row
      BY <3>1, CheckpointType DEF TypeInv
    <3>5. /\ recall' \in Recall /\ recall'.todo = recall.todo /\ recall'.attempt = recall.attempt
          /\ recall'.action = "retry" => recall.attempt < MaxSearchAttempts
      BY <3>1 DEF TypeInv, Recall, RecoveryActions, RecoveryAction
    <3>6. recall.todo # {}
      BY <1>7 DEF Recover
    <3> QED  BY <1>7, <3>1, <3>3, <3>4, <3>5, <3>6 DEF Recover, TypeInv, settings
  <2> QED  BY <2>1, <2>2
<1>8. CASE FollowDecision
  <2>1. recall.todo # {} /\ recall.todo \in SUBSET Keywords /\ Current \in recall.todo
        /\ Current \in Keywords
    BY <1>8 DEF FollowDecision, TypeInv, Recall, Current
  <2>2. ASSUME NEW hits \in SUBSET Keywords, NextKeyword(hits)
        PROVE  recall' \in Recall /\ recall'.action = "none"
    <3>1. /\ recall.found \in SUBSET Keywords /\ recall.asks \in BOOLEAN
          /\ recall' = [todo |-> recall.todo \ {Current}, attempt |-> 1, action |-> "none",
                        found |-> recall.found \cup hits, asks |-> recall.asks]
      BY <2>2 DEF NextKeyword, TypeInv, Recall
    <3>2. recall.todo \ {Current} \in SUBSET Keywords /\ recall.found \cup hits \in SUBSET Keywords
      BY <2>1, <3>1
    <3> QED  BY <3>1, <3>2 DEF Recall, RecoveryActions
  <2>3. /\ recall' \in Recall /\ (recall'.action # "none" => recall'.todo # {})
        /\ recall'.action = "retry" => recall'.attempt < MaxSearchAttempts
        /\ cache' \in SUBSET Keywords
    <3>1. CASE \E hits \in SUBSET {Current} : NextKeyword(hits) /\ cache' = cache \cup hits
      BY <2>1, <2>2, <3>1 DEF TypeInv
    <3>2. CASE recall.action = "retry" /\ UNCHANGED cache
               /\ recall' = [recall EXCEPT !.attempt = @ + 1, !.action = "none"]
      <4>1. /\ recall.todo \in SUBSET Keywords /\ recall.found \in SUBSET Keywords
            /\ recall.asks \in BOOLEAN /\ recall.attempt \in 1..MaxSearchAttempts
            /\ recall.attempt < MaxSearchAttempts
            /\ recall' = [todo |-> recall.todo, attempt |-> recall.attempt + 1, action |-> "none",
                          found |-> recall.found, asks |-> recall.asks]
        BY <3>2 DEF TypeInv, Recall
      <4>2. recall.attempt + 1 \in 1..MaxSearchAttempts
        BY <4>1
      <4> QED  BY <3>2, <4>1, <4>2 DEF TypeInv, Recall, RecoveryActions
    <3>3. CASE NextKeyword({Current} \cap cache) /\ UNCHANGED cache
      BY <2>1, <2>2, <3>3 DEF TypeInv
    <3>4. CASE NextKeyword({}) /\ UNCHANGED cache
      BY <2>2, <3>4 DEF TypeInv
    <3> QED  BY <1>8, <3>1, <3>2, <3>3, <3>4 DEF FollowDecision
  <2> QED  BY <1>8, <2>3 DEF FollowDecision, TypeInv, settings, trace
<1>9. CASE SearchEnd
  <2>1. CASE why' = "protocol" /\ job' = [job EXCEPT !["search"] = "raised"]
             /\ UNCHANGED <<recall, st, rev, pending, handoffs>>
    <3>1. job' \in [Subgraph -> JobStates]
      BY <2>1 DEF TypeInv, JobStates
    <3> QED  BY <1>9, <2>1, <3>1 DEF SearchEnd, TypeInv, Reasons, settings
  <2>2. CASE ~(why' = "protocol" /\ job' = [job EXCEPT !["search"] = "raised"]
               /\ UNCHANGED <<recall, st, rev, pending, handoffs>>)
    <3>1. PICK to \in {"safety", "planner"} :
            /\ pending' = Sent(pending, to, "search_artifact")
            /\ \E groups \in SUBSET recall.found, ambiguous \in BOOLEAN :
                 recall' = SearchArtifact(groups, ambiguous)
            /\ Perform("search_completed", st.plan)
            /\ handoffs' = handoffs + 1 /\ job' = [job EXCEPT !["search"] = "done"]
            /\ UNCHANGED why
      BY <1>9, <2>2 DEF SearchEnd, EndJob
    <3>2. st.plan \in Nat
      BY DEF TypeInv, State
    <3>3. st' \in State /\ rev' \in Int /\ rev' >= -1 /\ st'.rev >= -1
      BY <3>1, <3>2, Performed, PhaseTable DEF Actions, Phases
    <3>4. pending' \in Queues
      BY <3>1, <3>3, SentType DEF TypeInv, Endpoints
    <3>5. PICK groups \in SUBSET recall.found, ambiguous \in BOOLEAN :
            recall' = [recall EXCEPT !.found = groups, !.asks = SearchAsks(groups, ambiguous)]
      BY <3>1 DEF SearchArtifact
    <3>6. /\ recall.todo \in SUBSET Keywords /\ recall.found \in SUBSET Keywords
          /\ recall.attempt \in 1..MaxSearchAttempts /\ recall.action \in RecoveryActions
          /\ recall' = [todo |-> recall.todo, attempt |-> recall.attempt, action |-> recall.action,
                        found |-> groups, asks |-> SearchAsks(groups, ambiguous)]
      BY <3>5 DEF TypeInv, Recall
    <3>7. SearchAsks(groups, ambiguous) \in BOOLEAN
      BY Zenon DEF SearchAsks
    <3>8. recall' \in Recall /\ recall'.todo = recall.todo /\ recall'.attempt = recall.attempt
          /\ recall'.action = recall.action
      BY <3>6, <3>7 DEF Recall
    <3>9. job' \in [Subgraph -> JobStates]
      BY <3>1 DEF TypeInv, JobStates
    <3> QED  BY <1>9, <3>1, <3>3, <3>4, <3>8, <3>9 DEF SearchEnd, TypeInv, settings
  <2> QED  BY <2>1, <2>2
<1>10. CASE RunWeather
  <2>1. job' \in [Subgraph -> JobStates] /\ why' \in Reasons
    BY <1>10 DEF RunWeather, EndJob, TypeInv, JobStates, Reasons
  <2> QED  BY <1>10, <2>1 DEF RunWeather, TypeInv, settings, trace
<1>11. CASE CheckSafety
  <2>1. CASE why' = "protocol" /\ job' = [job EXCEPT !["safety_check"] = "raised"]
             /\ UNCHANGED <<st, rev, pending, handoffs>>
    <3>1. job' \in [Subgraph -> JobStates]
      BY <2>1 DEF TypeInv, JobStates
    <3> QED  BY <1>11, <2>1, <3>1 DEF CheckSafety, TypeInv, Reasons, settings
  <2>2. CASE ~(why' = "protocol" /\ job' = [job EXCEPT !["safety_check"] = "raised"]
               /\ UNCHANGED <<st, rev, pending, handoffs>>)
    <3>1. /\ Perform("safety_checked", st.plan) /\ pending["safety"] # <<>>
          /\ pending' = Sent(Taken(pending, "safety"), "planner", "safety_report")
          /\ handoffs' = handoffs + 1 /\ job' = [job EXCEPT !["safety_check"] = "done"]
          /\ UNCHANGED why
      BY <1>11, <2>2 DEF CheckSafety, EndJob, Consumable
    <3>2. st.plan \in Nat
      BY DEF TypeInv, State
    <3>3. st' \in State /\ rev' \in Int /\ rev' >= -1 /\ st'.rev >= -1
      BY <3>1, <3>2, Performed, PhaseTable DEF Actions, Phases
    <3>4. Taken(pending, "safety") \in Queues
      BY <3>1, TakenType DEF TypeInv, Endpoints
    <3>5. pending' \in Queues
      BY <3>1, <3>3, <3>4, SentType DEF Endpoints
    <3>6. job' \in [Subgraph -> JobStates]
      BY <3>1 DEF TypeInv, JobStates
    <3> QED  BY <1>11, <3>1, <3>3, <3>5, <3>6 DEF CheckSafety, TypeInv, settings
  <2> QED  BY <2>1, <2>2
<1>12. CASE RunPlanner
  <2>1. CASE why' = "protocol" /\ job' = [job EXCEPT !["planner"] = "raised"]
             /\ UNCHANGED <<st, rev, pending, handoffs, result>>
    <3>1. job' \in [Subgraph -> JobStates]
      BY <2>1 DEF TypeInv, JobStates
    <3> QED  BY <1>12, <2>1, <3>1 DEF RunPlanner, TypeInv, Reasons, settings
  <2>2. CASE /\ job' = [job EXCEPT !["planner"] = "raised"] /\ why' = "agent"
             /\ pending["planner"] # <<>> /\ pending' = Taken(pending, "planner")
             /\ UNCHANGED <<st, rev, handoffs, result>>
    <3>1. job' \in [Subgraph -> JobStates]
      BY <2>2 DEF TypeInv, JobStates
    <3>2. pending' \in Queues
      BY <2>2, TakenType DEF TypeInv, Endpoints
    <3> QED  BY <1>12, <2>2, <3>1, <3>2 DEF RunPlanner, TypeInv, Reasons, settings
  <2>3. CASE \E matrixOk, optimizerOk, feasible \in BOOLEAN, to \in {"critic", "supervisor"} :
               /\ result' = [status |-> PlannerStatus(recall.asks, matrixOk, optimizerOk, feasible),
                             plan |-> solves, early |-> FALSE]
               /\ Perform("plan_completed", solves) /\ pending["planner"] # <<>>
               /\ pending' = Sent(Taken(pending, "planner"), to, "plan_candidate")
               /\ handoffs' = handoffs + 1
               /\ job' = [job EXCEPT !["planner"] = "done"] /\ UNCHANGED why
    <3>1. PICK matrixOk, optimizerOk, feasible \in BOOLEAN, to \in {"critic", "supervisor"} :
               /\ result' = [status |-> PlannerStatus(recall.asks, matrixOk, optimizerOk, feasible),
                             plan |-> solves, early |-> FALSE]
               /\ Perform("plan_completed", solves) /\ pending["planner"] # <<>>
               /\ pending' = Sent(Taken(pending, "planner"), to, "plan_candidate")
               /\ handoffs' = handoffs + 1
               /\ job' = [job EXCEPT !["planner"] = "done"] /\ UNCHANGED why
      BY <2>3
    <3>2. solves \in Nat
      BY DEF TypeInv
    <3>3. st' \in State /\ rev' \in Int /\ rev' >= -1 /\ st'.rev >= -1
      BY <3>1, <3>2, Performed, PhaseTable DEF Actions, Phases
    <3>4. Taken(pending, "planner") \in Queues
      BY <3>1, TakenType DEF TypeInv, Endpoints
    <3>5. pending' \in Queues
      BY <3>1, <3>3, <3>4, SentType DEF Endpoints
    <3>6. job' \in [Subgraph -> JobStates]
      BY <3>1 DEF TypeInv, JobStates
    <3>7. PlannerStatus(recall.asks, matrixOk, optimizerOk, feasible) \in PlanStatus
      BY DEF PlannerStatus, Evaluated, PlanStatus
    <3>8. result' \in Result
      BY <3>1, <3>2, <3>7 DEF Result
    <3> QED  BY <1>12, <3>1, <3>3, <3>5, <3>6, <3>8 DEF RunPlanner, TypeInv, settings
  <2>4. QED
    <3>1. CASE ~(Consumable("planner", {"search_artifact", "safety_report"})
                 /\ Allowed("plan_completed"))
      BY <1>12, <2>1, <3>1 DEF RunPlanner, EndJob
    <3>2. CASE Consumable("planner", {"search_artifact", "safety_report"})
               /\ Allowed("plan_completed")
      <4>1. pending["planner"] # <<>>
        BY <3>2 DEF Consumable
      <4> QED  BY <1>12, <2>2, <2>3, <3>2, <4>1 DEF RunPlanner, EndJob
    <3> QED  BY <3>1, <3>2
<1>13. CASE Gather
  <2>1. steps' \in [StepIds -> StepStatus]
    BY <1>13, WaveResultType DEF Gather
  <2>2. row' \in Row
    BY <1>13, <2>1, CheckpointType DEF Gather, TypeInv
  <2>3. pc' \in PCs /\ job' \in [Subgraph -> JobStates]
    BY <1>13 DEF Gather, PCs, JobStates
  <2> QED  BY <1>13, <2>1, <2>2, <2>3 DEF Gather, TypeInv, settings, trace
<1>14. CASE Solved
  <2>1. result' \in Result /\ pc' \in PCs
    BY <1>14 DEF Solved, TypeInv, Result, PCs
  <2> QED  BY <1>14, <2>1 DEF Solved, TypeInv, settings, trace
<1>15. CASE ReviewBegin
  <2>1. steps' \in [StepIds -> StepStatus]
    BY <1>15, SetStepType DEF ReviewBegin, TypeInv, StepIds, StepStatus
  <2>2. row' \in Row /\ pc' \in PCs
    BY <1>15, <2>1, CheckpointType DEF ReviewBegin, TypeInv, PCs
  <2> QED  BY <1>15, <2>1, <2>2 DEF ReviewBegin, TypeInv, settings, trace
<1>16. CASE CriticRaises
  <2>1. steps' \in [StepIds -> StepStatus]
    BY <1>16, SetStepType DEF CriticRaises, TypeInv, StepIds, StepStatus
  <2>2. row' \in Row
    BY <1>16, <2>1, CheckpointType DEF CriticRaises, TypeInv
  <2>3. pending' \in Queues
    BY <1>16, TakenType DEF CriticRaises, Consumable, TypeInv, Endpoints
  <2> QED  BY <1>16, <2>1, <2>2, <2>3 DEF CriticRaises, TypeInv, PCs, Reasons, settings, trace
<1>17. CASE CriticDropped
  <2>1. steps' \in [StepIds -> StepStatus]
    BY <1>17, SetStepType DEF CriticDropped, TypeInv, StepIds, StepStatus
  <2>2. status' \in Statuses
    BY <1>17 DEF CriticDropped, Statuses
  <2>3. row' \in Row
    BY <1>17, <2>1, <2>2, CheckpointType DEF CriticDropped
  <2>4. pending' \in Queues
    BY <1>17, TakenType DEF CriticDropped, Consumable, TypeInv, Endpoints
  <2> QED  BY <1>17, <2>1, <2>2, <2>3, <2>4 DEF CriticDropped, TypeInv, PCs, settings
<1>18. CASE Critic
  <2>1. CASE Throw("protocol")
    BY <2>1, ThrowTypes DEF Reasons
  <2>2. CASE ~Throw("protocol")
    <3>1. pending["critic"] # <<>>
      BY <1>18, <2>2 DEF Critic, Consumable
    <3>2. PICK c \in Costs, hard \in BOOLEAN, warned \in BOOLEAN :
            \E v \in CriticVerdicts(hard, warned) :
              /\ cost' = cost + c
              /\ review' = [verdict |-> v, plan |-> result.plan, hard |-> hard]
              /\ Perform("critic_reviewed", st.plan)
              /\ pending' = Sent(Taken(pending, "critic"), "supervisor", "review_report")
              /\ handoffs' = handoffs + 1
              /\ steps' = SetStep(steps, "critic", "succeeded")
              /\ Checkpoint(steps', status)
              /\ pc' = "decide"
      BY <1>18, <2>2 DEF Critic
    <3>3. \A v \in CriticVerdicts(hard, warned) : v \in Verdicts
      BY DEF CriticVerdicts, RuleVerdict, ModelVerdict, Verdicts
    <3>4. st.plan \in Nat
      BY DEF TypeInv, State
    <3>5. st' \in State /\ rev' \in Int /\ rev' >= -1 /\ st'.rev >= -1
      BY <3>2, <3>4, Performed, PhaseTable DEF Actions, Phases
    <3>6. Taken(pending, "critic") \in Queues
      BY <3>1, TakenType DEF TypeInv, Endpoints
    <3>7. pending' \in Queues
      BY <3>2, <3>5, <3>6, SentType DEF Endpoints
    <3>8. steps' \in [StepIds -> StepStatus]
      BY <3>2, SetStepType DEF TypeInv, StepIds, StepStatus
    <3>9. row' \in Row
      BY <3>2, <3>8, CheckpointType DEF TypeInv
    <3>10. review' \in Review
      BY <3>2, <3>3 DEF TypeInv, Result, Review
    <3>11. cost' \in Nat /\ handoffs' \in Nat
      BY <1>0, <3>2 DEF TypeInv
    <3> QED  BY <1>18, <2>2, <3>2, <3>5, <3>7, <3>8, <3>9, <3>10, <3>11
             DEF Critic, TypeInv, PCs, settings
  <2> QED  BY <2>1, <2>2
<1>19. CASE Decide
  <2>1. result' = result \/ \E impact \in BOOLEAN, judged \in PlanStatus \cup {"none"} :
          result' = [result EXCEPT !.status =
                       IF NeedsConfirmation(judged, impact) THEN "need_clarification" ELSE judged]
    <3>1. \A ps \in PlanStatus \cup {"none"} :
            Enforced(review.verdict, ps) \in PlanStatus \cup {"none"}
      BY DEF Enforced, PlanStatus
    <3>2. result.status \in PlanStatus \cup {"none"}
      BY DEF TypeInv, Result
    <3>3. (IF mode # "enforce" THEN result.status
           ELSE IF review = NoReview THEN "need_clarification"
           ELSE Enforced(review.verdict, result.status)) \in PlanStatus \cup {"none"}
      BY <3>1, <3>2 DEF PlanStatus
    <3> QED  BY <1>19, <3>3 DEF Decide
  <2>2. result' \in Result
    BY <2>1 DEF TypeInv, Result, PlanStatus
  <2>3. pc' \in PCs
    BY <1>19 DEF Decide, PCs
  <2> QED  BY <1>19, <2>2, <2>3 DEF Decide, TypeInv, settings, trace
<1>20. CASE SoftRetry
  <2>1. CASE Throw("protocol")
    BY <2>1, ThrowTypes DEF Reasons
  <2>2. CASE ~Throw("protocol")
    <3>1. /\ pending["supervisor"] # <<>> /\ Perform("soft_retry_scheduled", st.plan)
          /\ pending' = Sent(Taken(pending, "supervisor"), "search", "retry_directive")
      BY <1>20, <2>2 DEF SoftRetry, Consumable
    <3>2. st.plan \in Nat
      BY DEF TypeInv, State
    <3>3. st' \in State /\ rev' \in Int /\ rev' >= -1 /\ st'.rev >= -1
      BY <3>1, <3>2, Performed, PhaseTable DEF Actions, Phases
    <3>4. Taken(pending, "supervisor") \in Queues
      BY <3>1, TakenType DEF TypeInv, Endpoints
    <3>5. pending' \in Queues
      BY <3>1, <3>3, <3>4, SentType DEF Endpoints
    <3>6. steps' \in [StepIds -> StepStatus]
      BY <1>20, <2>2 DEF SoftRetry, TypeInv, StepStatus
    <3>7. row' \in Row
      BY <1>20, <2>2, <3>6, CheckpointType DEF SoftRetry, TypeInv
    <3>8. retries' \in Nat
      BY <1>20, <2>2 DEF SoftRetry, TypeInv
    <3>9. pc' \in PCs
      BY <1>20, <2>2 DEF SoftRetry, PCs
    <3> QED  BY <1>20, <2>2, <3>3, <3>5, <3>6, <3>7, <3>8, <3>9 DEF SoftRetry, TypeInv, settings
  <2> QED  BY <2>1, <2>2
<1>21. CASE Finalize
  <2>1. steps' \in [StepIds -> StepStatus]
    BY <1>21, SetStepType DEF Finalize, TypeInv, StepIds, StepStatus
  <2>2. row' \in Row /\ pc' \in PCs
    BY <1>21, <2>1, CheckpointType DEF Finalize, TypeInv, PCs
  <2> QED  BY <1>21, <2>1, <2>2 DEF Finalize, TypeInv, settings, trace
<1>22. CASE FinalAnswer
  <2>1. CASE Throw("protocol")
    BY <2>1, ThrowTypes DEF Reasons
  <2>2. CASE ~Throw("protocol")
    <3>1. /\ Perform("workflow_finalized", st.plan)
          /\ pending' = Sent(IF pending["supervisor"] = <<>> THEN pending
                             ELSE Taken(pending, "supervisor"), "final_answer", "final_answer")
      BY <1>22, <2>2 DEF FinalAnswer
    <3>2. st.plan \in Nat
      BY DEF TypeInv, State
    <3>3. st' \in State /\ rev' \in Int /\ rev' >= -1 /\ st'.rev >= -1
      BY <3>1, <3>2, Performed, PhaseTable DEF Actions, Phases
    <3>4. (IF pending["supervisor"] = <<>> THEN pending
           ELSE Taken(pending, "supervisor")) \in Queues
      BY TakenType DEF TypeInv, Endpoints
    <3>5. pending' \in Queues
      BY <3>1, <3>3, <3>4, SentType DEF Endpoints
    <3>6. steps' \in [StepIds -> StepStatus]
      BY <1>22, <2>2, SetStepType DEF FinalAnswer, TypeInv, StepIds, StepStatus
    <3>7. row' \in Row
      BY <1>22, <2>2, <3>6, CheckpointType DEF FinalAnswer, TypeInv
    <3>8. handoffs' \in Nat
      BY <1>22, <2>2 DEF FinalAnswer, TypeInv
    <3>9. pc' \in PCs
      BY <1>22, <2>2 DEF FinalAnswer, PCs
    <3> QED  BY <1>22, <2>2, <3>3, <3>5, <3>6, <3>7, <3>8, <3>9 DEF FinalAnswer, TypeInv, settings
  <2> QED  BY <2>1, <2>2
<1>23. CASE Finish
  <2>1. status' \in Statuses
    BY <1>23 DEF Finish, TypeInv, Result, Statuses
  <2>2. row' \in Row
    BY <1>23, <2>1, CheckpointType DEF Finish, TypeInv
  <2> QED  BY <1>23, <2>1, <2>2 DEF Finish, TypeInv, PCs, settings
<1>24. CASE ClearMemory
  <2>1. NoState \in State /\ NoState.rev >= -1
    BY DEF NoState, State
  <2> QED  BY <1>24, <2>1 DEF ClearMemory, TypeInv, PCs, settings, trace
<1>25. CASE PersistWorkflow
  <2>1. row' \in Row
    BY <1>25 DEF PersistWorkflow, TypeInv, Row
  <2> QED  BY <1>25, <2>1 DEF PersistWorkflow, TypeInv, PCs, settings, trace
<1>26. CASE Fail
  <2>1. CASE UNCHANGED <<st, rev, steps, status, row>>
    BY <1>26, <2>1 DEF Fail, TypeInv, PCs, settings
  <2>2. CASE /\ Perform("workflow_failed", st.plan) \/ UNCHANGED <<st, rev>>
             /\ steps' = FailedSteps(steps) /\ status' = "failed"
             /\ row' = row \/ Checkpoint(steps', status')
    <3>1. st.plan \in Nat
      BY DEF TypeInv, State
    <3>2. st' \in State /\ rev' \in Int /\ rev' >= -1 /\ st'.rev >= -1
      <4>1. CASE Perform("workflow_failed", st.plan)
        BY <3>1, <4>1, Performed, PhaseTable DEF Actions, Phases
      <4>2. CASE UNCHANGED <<st, rev>>
        BY <4>2 DEF TypeInv
      <4> QED  BY <2>2, <4>1, <4>2
    <3>3. steps' \in [StepIds -> StepStatus]
      BY <2>2 DEF FailedSteps, TypeInv, StepStatus
    <3>4. status' \in Statuses
      BY <2>2 DEF Statuses
    <3>5. row' \in Row
      BY <2>2, <3>3, <3>4, CheckpointType DEF TypeInv
    <3> QED  BY <1>26, <3>2, <3>3, <3>4, <3>5 DEF Fail, TypeInv, PCs, settings
  <2> QED  BY <1>26, <2>1, <2>2 DEF Fail
<1>27. CASE StateGone
  BY <1>27, ThrowTypes DEF StateGone, Reasons
<1>28. ASSUME NEW s \in Subgraph, JobStateGone(s) PROVE TypeInv'
  <2>1. job' \in [Subgraph -> JobStates]
    BY <1>28 DEF JobStateGone, EndJob, TypeInv, JobStates
  <2> QED  BY <1>28, <2>1 DEF JobStateGone, TypeInv, Reasons, settings, trace
<1>29. CASE Raise
  <2>1. st' \in State /\ st'.rev >= -1 /\ UNCHANGED rev
    <3>1. CASE pc \in DOMAIN MethodUpdate /\ ReplyLost(MethodUpdate[pc], st.plan)
      <4>1. st.plan \in Nat
        BY DEF TypeInv, State
      <4> QED  BY <3>1, <4>1, LostReply, LostUpdates
    <3>2. CASE st' = [phase |-> "initialized", rev |-> 0, plan |-> 0] /\ UNCHANGED rev
      BY <3>2 DEF State, Phases
    <3>3. CASE UNCHANGED <<st, rev>>
      BY <3>3 DEF TypeInv
    <3> QED  BY <1>29, <3>1, <3>2, <3>3 DEF Raise
  <2>2. broken' \in BOOLEAN /\ pc' \in PCs /\ why' \in Reasons /\ faults' \in 0..MaxFaults
    BY <1>29 DEF Raise, TypeInv, PCs, Reasons
  <2> QED  BY <1>29, <2>1, <2>2 DEF Raise, TypeInv, settings, trace
<1>30. CASE Expire
  <2>1. NoState \in State /\ NoState.rev >= -1
    BY DEF NoState, State
  <2> QED  BY <1>30, <2>1 DEF Expire, TypeInv, settings, trace
<1>31. CASE Die
  BY <1>31 DEF Die, TypeInv, PCs, settings, trace
<1>32. ASSUME NEW s \in Subgraph, JobRaises(s) PROVE TypeInv'
  <2>1. job' \in [Subgraph -> JobStates]
    BY <1>32 DEF JobRaises, EndJob, TypeInv, JobStates
  <2>2. st' \in State /\ st'.rev >= -1 /\ UNCHANGED rev
    <3>1. CASE ReplyLost(JobUpdate(s), IF s = "planner" THEN solves ELSE st.plan)
      <4>1. (IF s = "planner" THEN solves ELSE st.plan) \in Nat
        BY DEF TypeInv, State
      <4> QED  BY <1>32, <3>1, <4>1, LostReply, LostUpdates
    <3>2. CASE UNCHANGED <<st, rev>>
      BY <3>2 DEF TypeInv
    <3> QED  BY <1>32, <3>1, <3>2 DEF JobRaises
  <2>3. faults' \in 0..MaxFaults
    BY <1>32, FaultCounted DEF JobRaises
  <2>4. broken' \in BOOLEAN
    BY <1>32 DEF JobRaises, TypeInv
  <2>5. why' \in Reasons
    BY <1>32 DEF JobRaises, Reasons
  <2> QED  BY <1>32, <2>1, <2>2, <2>3, <2>4, <2>5 DEF JobRaises, TypeInv, settings, trace
<1>35. CASE GatherRefused \/ GatherRaises
  <2>1. steps' \in [StepIds -> StepStatus] /\ job' \in [Subgraph -> JobStates]
    BY <1>35, WaveResultType DEF GatherRefused, GatherRaises, JobStates
  <2>2. broken' \in BOOLEAN
    BY <1>35 DEF GatherRefused, GatherRaises, TypeInv
  <2>3. faults' \in 0..MaxFaults
    <3>1. CASE faults' = faults
      BY <3>1 DEF TypeInv
    <3>2. CASE faults < MaxFaults /\ faults' = faults + 1
      BY <3>2, FaultCounted
    <3> QED  BY <1>35, <3>1, <3>2 DEF GatherRefused, GatherRaises
  <2>4. /\ pc' \in PCs /\ why' \in Reasons
        /\ UNCHANGED <<settings, graph, pending, st, rev, recall, cache, trace, result, review, row,
                       outcome>>
    BY <1>35 DEF GatherRefused, GatherRaises, PCs, Reasons
  <2> QED  BY <2>1, <2>2, <2>3, <2>4 DEF TypeInv, settings, trace
<1>36. CASE EndRaises
  <2>1. NoState \in State /\ NoState.rev >= -1
    BY DEF NoState, State
  <2>2. st' \in State /\ st'.rev >= -1 /\ UNCHANGED rev
    BY <1>36, <2>1 DEF EndRaises, TypeInv
  <2>3. faults' \in 0..MaxFaults
    BY <1>36, FaultCounted DEF EndRaises
  <2>4. broken' \in BOOLEAN
    BY <1>36 DEF EndRaises, TypeInv
  <2>5. pc' \in PCs /\ why' \in Reasons /\ outcome' \in {"running", "returned", "raised", "crashed"}
    BY <1>36 DEF EndRaises, PCs, Reasons, TypeInv
  <2> QED  BY <1>36, <2>2, <2>3, <2>4, <2>5 DEF EndRaises, TypeInv, settings, trace
<1>37. CASE FailRaises
  <2>1. st' \in State /\ st'.rev >= -1 /\ UNCHANGED rev
    <3>1. CASE UpdateTaken("workflow_failed", st.plan)
      <4>1. st.plan \in Nat
        BY DEF TypeInv, State
      <4>2. "workflow_failed" \in Actions /\ ActionPhase["workflow_failed"] \in Phases
        BY PhaseTable DEF Actions, Phases
      <4>3. UNCHANGED rev
        BY <1>37 DEF FailRaises
      <4>4. st' \in State /\ st'.rev >= -1
        BY <3>1, <4>1, <4>2, TakenUpdate
      <4> QED  BY <4>3, <4>4
    <3>2. CASE UNCHANGED st
      BY <1>37, <3>2 DEF FailRaises, TypeInv
    <3> QED  BY <1>37, <3>1, <3>2 DEF FailRaises
  <2>2. faults' \in 0..MaxFaults
    BY <1>37, FaultCounted DEF FailRaises
  <2>3. broken' \in BOOLEAN
    BY <1>37 DEF FailRaises, TypeInv
  <2>4. pc' \in PCs /\ why' \in Reasons /\ outcome' \in {"running", "returned", "raised", "crashed"}
    BY <1>37 DEF FailRaises, PCs, Reasons, TypeInv
  <2> QED  BY <1>37, <2>1, <2>2, <2>3, <2>4 DEF FailRaises, TypeInv, settings, trace
<1>33. CASE OtherRequests
  BY <1>33 DEF OtherRequests, TypeInv, settings, trace
<1>34. CASE UNCHANGED vars
  BY <1>34 DEF TypeInv, vars, settings, trace
<1> QED
  BY <1>1, <1>2, <1>3, <1>4, <1>5, <1>6, <1>7, <1>8, <1>9, <1>10, <1>11, <1>12, <1>13, <1>14,
     <1>15, <1>16, <1>17, <1>18, <1>19, <1>20, <1>21, <1>22, <1>23, <1>24, <1>25, <1>26, <1>27,
     <1>28, <1>29, <1>30, <1>31, <1>32, <1>33, <1>34, <1>35, <1>36, <1>37 DEF Next, Step, Ended

-----------------------------------------------------------------------------
(* How far the steps are *)

OnItsWay == {"running", "succeeded"}

\* The dependencies of _build_execution_plan, one step after the other.
InOrder(f) ==
  /\ f["search"] \in OnItsWay => f["intent"] = "succeeded"
  /\ f["weather"] \in OnItsWay => f["intent"] = "succeeded"
  /\ f["safety_check"] \in OnItsWay =>
       /\ f["intent"] = "succeeded" /\ f["search"] = "succeeded"
       /\ graph.weather => f["weather"] = "succeeded"
  /\ f["planner"] \in OnItsWay =>
       /\ f["search"] = "succeeded"
       /\ graph.safety => f["safety_check"] = "succeeded"
       /\ graph.weather /\ ~graph.safety => f["weather"] = "succeeded"
  /\ f["critic"] \in OnItsWay => f["planner"] = "succeeded"

LEMMA OrderOfDependencies ==
  ASSUME NEW f
  PROVE  InOrder(f) <=> \A s \in Subgraph \cup {"critic"} :
                          f[s] \in {"running", "succeeded"} =>
                            \A d \in DependsOn[s] : f[d] = "succeeded"
<1>1. /\ DependsOn["search"] = {"intent"} /\ DependsOn["weather"] = {"intent"}
      /\ DependsOn["critic"] = {"planner"}
  BY DEF DependsOn, StepIds
<1>2. DependsOn["safety_check"] = {"intent", "search"} \cup (IF graph.weather THEN {"weather"} ELSE {})
  BY DEF DependsOn, StepIds
<1>3. DependsOn["planner"] = {"search"} \cup (IF graph.safety THEN {"safety_check"}
                                             ELSE IF graph.weather THEN {"weather"} ELSE {})
  BY DEF DependsOn, StepIds
<1>4. Subgraph \cup {"critic"} = {"search", "weather", "safety_check", "planner", "critic"}
  BY DEF Subgraph
<1>5. (\A d \in DependsOn["safety_check"] : f[d] = "succeeded") <=>
        /\ f["intent"] = "succeeded" /\ f["search"] = "succeeded"
        /\ graph.weather => f["weather"] = "succeeded"
  BY <1>2
<1>6. (\A d \in DependsOn["planner"] : f[d] = "succeeded") <=>
        /\ f["search"] = "succeeded"
        /\ graph.safety => f["safety_check"] = "succeeded"
        /\ graph.weather /\ ~graph.safety => f["weather"] = "succeeded"
  BY <1>3
<1> QED  BY <1>1, <1>4, <1>5, <1>6 DEF InOrder, OnItsWay

\* What can be started: a step of the wave is in the plan, waits, and is in order.
LEMMA WaveSteps ==
  /\ WaveReady \subseteq Waiting
  /\ \A s \in WaveReady : \A d \in DependsOn[s] : steps[d] = "succeeded"
  /\ \A s \in Waiting : s \in Subgraph /\ steps[s] \in {"pending", "retrying"}
  BY DEF WaveReady, Waiting, InPlan

InWork == {"solve", "wave", "gather", "solved", "review", "critic", "decide", "soft_retry"}

\* The steps that the execution plan has, while it is worked on.
PlanShape ==
  /\ steps["intent"] = "succeeded" /\ steps["search"] # "absent" /\ steps["planner"] # "absent"
  /\ steps["weather"] = "absent" <=> ~graph.weather
  /\ steps["safety_check"] = "absent" <=> ~graph.safety
  /\ steps["critic"] = "absent" <=> mode = "off"

StepsInv ==
  /\ InOrder(steps) /\ InOrder(row.steps)
  /\ pc \notin {"failing", "end"} => row.steps = steps
  /\ pc \in {"start", "understand", "plan_next"} => steps = NoSteps
  /\ pc \in InWork => PlanShape
  /\ pc = "wave" =>
       \A s \in Subgraph : steps[s] \in {"absent", "pending", "retrying", "succeeded"}
  /\ pc = "gather" =>
       \A s \in Subgraph :
         /\ steps[s] \in {"absent", "pending", "retrying", "running", "succeeded"}
         /\ job[s] = "idle" <=> steps[s] # "running"
  /\ pc \notin {"gather", "failing", "end"} => \A s \in Subgraph : job[s] = "idle"
  /\ \A s \in Subgraph : job[s] = "recall" => s = "search"
  /\ pc \in {"solved", "review", "critic", "decide", "soft_retry"} =>
       \A s \in Subgraph : steps[s] \in {"absent", "succeeded"}
  /\ pc \in {"solve", "wave", "gather", "solved", "review"} => steps["critic"] \notin OnItsWay
  /\ pc \in {"decide", "soft_retry"} => steps["critic"] # "running"

\* A step of the code that leaves the steps, the coroutines and the plan alone.
LEMMA StepsKept ==
  ASSUME StepsInv, UNCHANGED <<mode, graph, steps, job>>, row'.steps = row.steps,
         \/ pc' = pc \/ pc' \in {"failing", "end"}
         \/ /\ pc \notin {"failing", "end"} /\ pc' \in {"clear", "persist"}
            /\ \A s \in Subgraph : job[s] = "idle"
  PROVE  StepsInv'
  BY DEF StepsInv, InOrder, PlanShape, InWork, OnItsWay

LEMMA StepsInit == Init => StepsInv
<1>1. \A s \in StepIds : NoSteps[s] = "absent"
  BY DEF NoSteps
<1>2. InOrder(NoSteps)
  BY <1>1 DEF InOrder, OnItsWay, StepIds
<1> QED  BY <1>1, <1>2 DEF Init, StepsInv, NewRow, InWork, OnItsWay, Subgraph

LEMMA StepsStep == TypeInv /\ StepsInv /\ [Next]_vars => StepsInv'
<1> SUFFICES ASSUME TypeInv, StepsInv, [Next]_vars PROVE StepsInv'
  OBVIOUS
<1>1. ASSUME NEW reason, Throw(reason) PROVE StepsInv'
  BY <1>1, StepsKept DEF Throw, settings
<1>2. CASE Start
  <2>1. row'.steps = steps
    BY <1>2 DEF Start, Checkpoint
  <2> QED  BY <1>2, <2>1 DEF Start, StepsInv, InOrder, InWork, OnItsWay, settings
<1>3. CASE Understand
  <2>1. CASE ~Throw("protocol")
    <3>1. row'.steps = steps
      BY <1>3, <2>1 DEF Understand, Checkpoint
    <3> QED  BY <1>3, <2>1, <3>1 DEF Understand, StepsInv, InOrder, InWork, OnItsWay, settings
  <2> QED  BY <1>1, <2>1
<1>4. CASE PlanNext
  <2>1. CASE ~Throw("protocol")
    <3>1. PICK g \in [weather : BOOLEAN, safety : BOOLEAN] :
            /\ graph' = g
            /\ steps' = [s \in StepIds |-> CASE ~Planned(s, g) -> "absent"
                                             [] s = "intent"   -> "succeeded"
                                             [] OTHER          -> "pending"]
            /\ Checkpoint(steps', status)
            /\ pc' = "solve" /\ job' = job /\ mode' = mode
      BY <1>4, <2>1 DEF PlanNext, settings
    <3>2. row'.steps = steps'
      BY <3>1 DEF Checkpoint
    <3>3. steps'["intent"] = "succeeded" /\ steps'["search"] = "pending" /\ steps'["planner"] = "pending"
      BY <3>1 DEF Planned, StepIds
    <3>4. /\ steps'["weather"] = IF g.weather THEN "pending" ELSE "absent"
          /\ steps'["safety_check"] = IF g.safety THEN "pending" ELSE "absent"
      BY <3>1 DEF Planned, StepIds
    <3>5. steps'["critic"] = IF mode # "off" THEN "pending" ELSE "absent"
      BY <3>1 DEF Planned, StepIds
    <3>6. InOrder(steps)'
      BY <3>3, <3>4, <3>5 DEF InOrder, OnItsWay
    <3>7. PlanShape'
      BY <3>1, <3>3, <3>4, <3>5 DEF PlanShape
    <3>8. \A s \in Subgraph : job[s] = "idle"
      BY <1>4 DEF PlanNext, StepsInv
    <3> QED  BY <3>1, <3>2, <3>5, <3>6, <3>7, <3>8 DEF StepsInv, OnItsWay
  <2> QED  BY <1>1, <2>1
<1>5. CASE Solve
  <2>1. /\ \A s \in Subgraph : steps'[s] \in {"absent", "pending", "retrying"}
        /\ \A s \in Subgraph : steps'[s] = "absent" <=> steps[s] = "absent"
        /\ \A s \in StepIds \ Subgraph : steps'[s] = steps[s]
    BY <1>5 DEF Solve, InPlan, Subgraph, StepIds
  <2>2. row'.steps = steps'
    BY <1>5 DEF Solve, Checkpoint
  <2>3. /\ pc = "solve" /\ pc' = "wave" /\ UNCHANGED <<mode, graph, job>>
    BY <1>5 DEF Solve, settings
  <2>4. steps["critic"] \notin OnItsWay /\ PlanShape /\ \A s \in Subgraph : job[s] = "idle"
    BY <2>3 DEF StepsInv, InWork
  <2>5. InOrder(steps)' /\ PlanShape' /\ steps'["critic"] \notin OnItsWay
    BY <2>1, <2>3, <2>4 DEF InOrder, OnItsWay, PlanShape, Subgraph, StepIds
  <2> QED  BY <2>1, <2>2, <2>3, <2>4, <2>5 DEF StepsInv
<1>6. CASE Wave
  <2>1. CASE ~Throw("blocked")
    <3>1. /\ steps' = [s \in StepIds |-> IF s \in WaveReady THEN "running" ELSE steps[s]]
          /\ job' = [s \in Subgraph |-> IF s \in WaveReady THEN "begin" ELSE "idle"]
          /\ pc = "wave" /\ pc' = "gather" /\ UNCHANGED <<mode, graph>>
      BY <1>6, <2>1 DEF Wave, settings
    <3>2. row'.steps = steps'
      BY <1>6, <2>1 DEF Wave, Checkpoint
    <3>3. WaveReady \subseteq Subgraph /\ \A s \in WaveReady : steps[s] \in {"pending", "retrying"}
      BY WaveSteps
    <3>4. /\ PlanShape /\ steps["critic"] \notin OnItsWay
          /\ \A s \in Subgraph : steps[s] \in {"absent", "pending", "retrying", "succeeded"}
      BY <3>1 DEF StepsInv, InWork
    <3>5. \A s \in Subgraph :
            steps'[s] \in {"absent", "pending", "retrying", "running", "succeeded"}
            /\ (job'[s] = "idle" <=> steps'[s] # "running") /\ job'[s] # "recall"
      BY <3>1, <3>3, <3>4 DEF Subgraph, StepIds
    <3>6. PlanShape' /\ steps'["critic"] \notin OnItsWay
      BY <3>1, <3>3, <3>4 DEF PlanShape, Subgraph, StepIds
    <3>7. \A s \in StepIds : steps[s] = "succeeded" => steps'[s] = "succeeded"
      BY <3>1, <3>3
    <3>8. \A s \in Subgraph : steps'[s] \in {"running", "succeeded"} =>
            \A d \in DependsOn[s] : steps[d] = "succeeded"
      <4>1. \A s \in Subgraph : steps[s] \in {"running", "succeeded"} =>
              \A d \in DependsOn[s] : steps[d] = "succeeded"
        BY OrderOfDependencies DEF StepsInv
      <4> QED  BY <3>1, <4>1, WaveSteps DEF Subgraph, StepIds
    <3>9. InOrder(steps)'
      <4>1. \A s \in Subgraph : DependsOn[s] \subseteq StepIds
        BY DEF DependsOn, Subgraph, StepIds
      <4>2. \A s \in Subgraph : steps'[s] \in {"running", "succeeded"} =>
              \A d \in DependsOn[s] : steps'[d] = "succeeded"
        BY <3>7, <3>8, <4>1
      <4>3. \A s \in Subgraph \cup {"critic"} : steps'[s] \in {"running", "succeeded"} =>
              \A d \in DependsOn[s] : steps'[d] = "succeeded"
        BY <3>6, <4>2 DEF OnItsWay
      <4>4. InOrder(steps')
        BY <4>3, OrderOfDependencies
      <4> QED  BY <3>1, <4>4 DEF InOrder
    <3> QED  BY <3>1, <3>2, <3>5, <3>6, <3>9 DEF StepsInv
  <2> QED  BY <1>1, <2>1
<1>7. ASSUME UNCHANGED <<mode, graph, steps, pc>>, row'.steps = row.steps, pc = "gather",
             NEW s \in Subgraph, NEW how \in {"recall", "done", "raised"},
             job' = [job EXCEPT ![s] = how], job[s] # "idle", how = "recall" => s = "search"
      PROVE  StepsInv'
  <2>1. \A z \in Subgraph : job'[z] = IF z = s THEN how ELSE job[z]
    BY <1>7 DEF TypeInv
  <2> QED  BY <1>7, <2>1 DEF StepsInv, InOrder, PlanShape, OnItsWay
<1>8. CASE SearchBegin
  <2>1. PICK how \in {"recall", "raised"} : job' = [job EXCEPT !["search"] = how]
    BY <1>8 DEF SearchBegin, EndJob
  <2> QED  BY <1>7, <1>8, <2>1 DEF SearchBegin, Subgraph, settings
<1>9. CASE Recover
  <2>1. row'.steps = row.steps
    BY <1>9 DEF Recover, Checkpoint, StepsInv
  <2>2. CASE job' = job
    BY <1>9, <2>1, <2>2, StepsKept DEF Recover, settings
  <2>3. CASE job' = [job EXCEPT !["search"] = "raised"]
    BY <1>7, <1>9, <2>1, <2>3 DEF Recover, Subgraph, settings
  <2> QED  BY <1>9, <2>2, <2>3 DEF Recover, EndJob
<1>10. CASE FollowDecision
  BY <1>10, StepsKept DEF FollowDecision, settings
<1>11. CASE SearchEnd
  <2>1. PICK how \in {"done", "raised"} : job' = [job EXCEPT !["search"] = how]
    BY <1>11 DEF SearchEnd, EndJob
  <2> QED  BY <1>7, <1>11, <2>1 DEF SearchEnd, Subgraph, settings
<1>12. CASE RunWeather
  <2>1. PICK how \in {"done", "raised"} : job' = [job EXCEPT !["weather"] = how]
    BY <1>12 DEF RunWeather, EndJob
  <2> QED  BY <1>7, <1>12, <2>1 DEF RunWeather, Subgraph, settings
<1>13. CASE CheckSafety
  <2>1. PICK how \in {"done", "raised"} : job' = [job EXCEPT !["safety_check"] = how]
    BY <1>13 DEF CheckSafety, EndJob
  <2> QED  BY <1>7, <1>13, <2>1 DEF CheckSafety, Subgraph, settings
<1>14. CASE RunPlanner
  <2>1. PICK how \in {"done", "raised"} : job' = [job EXCEPT !["planner"] = how]
    BY <1>14 DEF RunPlanner, EndJob
  <2> QED  BY <1>7, <1>14, <2>1 DEF RunPlanner, Subgraph, settings
<1>15. ASSUME WaveEnded, steps' = WaveResult, job' = [s \in Subgraph |-> "idle"],
              UNCHANGED <<mode, graph>>,
              \/ pc' = "failing" /\ row'.steps \in {row.steps, steps'}
              \/ /\ row'.steps = steps' /\ ~\E s \in Running : job[s] = "raised"
                 /\ pc' = IF Waiting # {} THEN "wave" ELSE "solved"
       PROVE  StepsInv'
  <2> DEFINE failed == {s \in Running : job[s] = "raised"}
  <2>1. /\ steps' = [s \in StepIds |->
                      IF s \in Running THEN (IF s \in failed THEN "failed" ELSE "succeeded")
                      ELSE IF failed # {} /\ s \in Waiting THEN "blocked" ELSE steps[s]]
        /\ pc = "gather" /\ job' = [s \in Subgraph |-> "idle"] /\ UNCHANGED <<mode, graph>>
    BY <1>15 DEF WaveEnded, WaveResult
  <2>2. \/ pc' = "failing" /\ row'.steps \in {row.steps, steps'}
        \/ /\ row'.steps = steps' /\ failed = {}
           /\ pc' = IF Waiting # {} THEN "wave" ELSE "solved"
    BY <1>15
  <2>3. /\ Running \subseteq Subgraph /\ \A s \in Running : steps[s] = "running"
        /\ \A s \in Waiting : steps[s] \in {"pending", "retrying"}
        /\ \A s \in Waiting : s \in Subgraph
    BY WaveSteps DEF Running
  <2>4. /\ \A s \in StepIds : steps[s] = "succeeded" => steps'[s] = "succeeded"
        /\ \A s \in Subgraph : steps'[s] \in OnItsWay => steps[s] \in OnItsWay
        /\ \A s \in StepIds \ Subgraph : steps'[s] = steps[s]
        /\ \A s \in Subgraph : steps'[s] = "absent" <=> steps[s] = "absent"
    <3> HIDE DEF failed
    <3> QED  BY <2>1, <2>3 DEF OnItsWay, Subgraph, StepIds, Running
  <2>5. PlanShape /\ steps["critic"] \notin OnItsWay /\ InOrder(steps)
        /\ \A s \in Subgraph : steps[s] \in {"absent", "pending", "retrying", "running", "succeeded"}
    BY <2>1 DEF StepsInv, InWork
  <2>6. InOrder(steps)' /\ PlanShape' /\ steps'["critic"] \notin OnItsWay
    <3>1. UNCHANGED <<mode, graph>>
      BY <2>1
    <3>2. PlanShape' /\ steps'["critic"] \notin OnItsWay
      BY <2>4, <2>5, <3>1 DEF PlanShape, OnItsWay, Subgraph, StepIds
    <3>3. InOrder(steps)'
      BY <2>4, <2>5, <3>1 DEF InOrder, OnItsWay, Subgraph, StepIds
    <3> QED  BY <3>2, <3>3
  <2>7. failed = {} => \A s \in Subgraph : steps'[s] \in {"absent", "pending", "retrying", "succeeded"}
    <3> HIDE DEF failed
    <3> QED  BY <2>1, <2>3, <2>5 DEF Subgraph, StepIds, Running
  <2>8. failed = {} /\ Waiting = {} => \A s \in Subgraph : steps'[s] \in {"absent", "succeeded"}
    <3> HIDE DEF failed
    <3>1. \A s \in Subgraph : s \in Waiting \/ steps[s] \in {"absent", "running", "succeeded"}
      BY <2>5 DEF Waiting, InPlan
    <3> QED  BY <2>1, <2>3, <3>1 DEF Subgraph, StepIds, Running
  <2>9. InOrder(row.steps)'
    <3>1. CASE row'.steps = steps'
      BY <2>6, <3>1 DEF InOrder
    <3>2. CASE row'.steps = row.steps
      BY <2>1, <3>2 DEF StepsInv, InOrder
    <3> QED  BY <2>2, <3>1, <3>2
  <2> HIDE DEF failed
  <2>10. CASE pc' = "failing"
    BY <2>1, <2>6, <2>9, <2>10 DEF StepsInv, InWork
  <2>11. CASE pc' # "failing"
    BY <2>1, <2>2, <2>5, <2>6, <2>7, <2>8, <2>9, <2>11 DEF StepsInv
  <2> QED  BY <2>10, <2>11
<1>39. CASE Gather
  <2>1. row'.steps = steps' /\ WaveEnded /\ steps' = WaveResult /\ job' = [s \in Subgraph |-> "idle"]
        /\ UNCHANGED <<mode, graph>>
    BY <1>39 DEF Gather, Checkpoint, settings
  <2>2. CASE \E s \in Running : job[s] = "raised"
    <3>1. pc' = "failing"
      BY <1>39, <2>2 DEF Gather
    <3> QED  BY <1>15, <2>1, <3>1
  <2>3. CASE ~\E s \in Running : job[s] = "raised"
    <3>1. pc' = IF Waiting # {} THEN "wave" ELSE "solved"
      BY <1>39, <2>3 DEF Gather
    <3> QED  BY <1>15, <2>1, <2>3, <3>1
  <2> QED  BY <2>2, <2>3
<1>40. CASE GatherRefused \/ GatherRaises
  <2>1. WaveEnded /\ steps' = WaveResult /\ job' = [s \in Subgraph |-> "idle"]
        /\ UNCHANGED <<mode, graph, row>> /\ pc' = "failing"
    BY <1>40 DEF GatherRefused, GatherRaises, settings
  <2> QED  BY <1>15, <2>1
<1>41. CASE EndRaises
  BY <1>41, StepsKept DEF EndRaises, settings
<1>42. CASE FailRaises
  BY <1>42, StepsKept DEF FailRaises, settings
<1>16. CASE Solved
  BY <1>16 DEF Solved, StepsInv, InOrder, PlanShape, InWork, OnItsWay, settings
<1>17. ASSUME NEW new \in {"running", "skipped", "failed", "succeeded"},
              steps' = SetStep(steps, "critic", new), row'.steps = steps',
              UNCHANGED <<mode, graph, job>>, pc \in {"review", "critic"},
              pc' \in {"critic", "decide", "failing"}, pc' = "decide" => new # "running"
       PROVE  StepsInv'
  <2>1. /\ \A s \in StepIds \ {"critic"} : steps'[s] = steps[s]
        /\ steps'["critic"] = IF steps["critic"] = "absent" THEN "absent" ELSE new
    BY <1>17 DEF SetStep, TypeInv, StepIds
  <2>2. /\ PlanShape /\ \A s \in Subgraph : job[s] = "idle" /\ steps[s] \in {"absent", "succeeded"}
    BY <1>17 DEF StepsInv, InWork
  <2>3. InOrder(steps)' /\ PlanShape' /\ \A s \in Subgraph : steps'[s] \in {"absent", "succeeded"}
    BY <1>17, <2>1, <2>2 DEF StepsInv, InOrder, PlanShape, OnItsWay, Subgraph, StepIds
  <2> QED  BY <1>17, <2>1, <2>2, <2>3 DEF StepsInv, OnItsWay
<1>18. CASE ReviewBegin
  <2>1. row'.steps = steps'
    BY <1>18 DEF ReviewBegin, Checkpoint
  <2> QED  BY <1>17, <1>18, <2>1 DEF ReviewBegin, settings
<1>19. CASE CriticRaises
  <2>1. row'.steps = steps'
    BY <1>19 DEF CriticRaises, Checkpoint
  <2> QED  BY <1>17, <1>19, <2>1 DEF CriticRaises, settings
<1>20. CASE CriticDropped
  <2>1. row'.steps = steps'
    BY <1>20 DEF CriticDropped, Checkpoint
  <2> QED  BY <1>17, <1>20, <2>1 DEF CriticDropped, settings
<1>21. CASE Critic
  <2>1. CASE ~Throw("protocol")
    <3>1. row'.steps = steps' /\ steps' = SetStep(steps, "critic", "succeeded") /\ pc' = "decide"
          /\ UNCHANGED <<mode, graph, job>>
      BY <1>21, <2>1 DEF Critic, Checkpoint, settings
    <3> QED  BY <1>17, <1>21, <3>1 DEF Critic
  <2> QED  BY <1>1, <2>1
<1>22. CASE Decide
  <2>1. pc = "decide" /\ pc' \in {"soft_retry", "finalize"} /\ UNCHANGED <<mode, graph, steps, job, row>>
    BY <1>22 DEF Decide, settings
  <2> QED  BY <2>1 DEF StepsInv, InOrder, PlanShape, InWork, OnItsWay
<1>23. CASE SoftRetry
  <2>1. CASE ~Throw("protocol")
    <3>1. /\ steps' = [s \in StepIds |-> IF s \in Subgraph \cup {"critic"} /\ steps[s] = "succeeded"
                                         THEN "retrying" ELSE steps[s]]
          /\ pc = "soft_retry" /\ pc' = "solve" /\ UNCHANGED <<mode, graph, job>>
      BY <1>23, <2>1 DEF SoftRetry, settings
    <3>2. row'.steps = steps'
      BY <1>23, <2>1 DEF SoftRetry, Checkpoint
    <3>3. /\ PlanShape /\ steps["critic"] # "running"
          /\ \A s \in Subgraph : job[s] = "idle" /\ steps[s] \in {"absent", "succeeded"}
      BY <3>1 DEF StepsInv, InWork
    <3>4. \A s \in Subgraph \cup {"critic"} :
            steps'[s] \notin OnItsWay /\ (steps'[s] = "absent" <=> steps[s] = "absent")
      BY <3>1, <3>3 DEF Subgraph, StepIds, OnItsWay
    <3>5. steps'["intent"] = steps["intent"]
      BY <3>1 DEF Subgraph, StepIds
    <3>6. InOrder(steps)' /\ PlanShape'
      BY <3>1, <3>3, <3>4, <3>5 DEF InOrder, PlanShape, OnItsWay, Subgraph
    <3> QED  BY <3>1, <3>2, <3>3, <3>4, <3>6 DEF StepsInv
  <2> QED  BY <1>1, <2>1
<1>24. ASSUME NEW new, steps' = SetStep(steps, "final_answer", new), row'.steps = steps',
              UNCHANGED <<mode, graph, job>>, pc \in {"finalize", "answer"},
              pc' \in {"answer", "finish"}
       PROVE  StepsInv'
  <2>1. \A s \in StepIds \ {"final_answer"} : steps'[s] = steps[s]
    BY <1>24 DEF SetStep, TypeInv
  <2>2. InOrder(steps)'
    BY <1>24, <2>1 DEF StepsInv, InOrder, StepIds
  <2> QED  BY <1>24, <2>2 DEF StepsInv, InWork
<1>25. CASE Finalize
  <2>1. row'.steps = steps'
    BY <1>25 DEF Finalize, Checkpoint
  <2> QED  BY <1>24, <1>25, <2>1 DEF Finalize, settings
<1>26. CASE FinalAnswer
  <2>1. CASE ~Throw("protocol")
    <3>1. row'.steps = steps' /\ steps' = SetStep(steps, "final_answer", "succeeded") /\ pc' = "finish"
          /\ UNCHANGED <<mode, graph, job>>
      BY <1>26, <2>1 DEF FinalAnswer, Checkpoint, settings
    <3> QED  BY <1>24, <1>26, <3>1 DEF FinalAnswer
  <2> QED  BY <1>1, <2>1
<1>27. CASE Finish
  <2>1. row'.steps = row.steps
    BY <1>27 DEF Finish, Checkpoint, StepsInv
  <2>2. \A s \in Subgraph : job[s] = "idle"
    BY <1>27 DEF Finish, StepsInv
  <2> QED  BY <1>27, <2>1, <2>2, StepsKept DEF Finish, settings
<1>28. CASE ClearMemory
  <2>1. \A s \in Subgraph : job[s] = "idle"
    BY <1>28 DEF ClearMemory, StepsInv
  <2> QED  BY <1>28, <2>1, StepsKept DEF ClearMemory, settings
<1>29. CASE PersistWorkflow
  <2>1. row'.steps = row.steps
    BY <1>29 DEF PersistWorkflow, StepsInv
  <2> QED  BY <1>29, <2>1, StepsKept DEF PersistWorkflow, settings
<1>30. CASE Fail
  <2>1. CASE UNCHANGED <<st, rev, steps, status, row>>
    BY <1>30, <2>1, StepsKept DEF Fail, settings
  <2>2. CASE steps' = FailedSteps(steps) /\ (UNCHANGED row \/ Checkpoint(steps', status'))
    <3>1. row'.steps \in {row.steps, steps'}
      BY <2>2 DEF Checkpoint
    <3>2. \A s \in StepIds : (steps'[s] \in OnItsWay => steps[s] = "succeeded")
                             /\ (steps[s] = "succeeded" => steps'[s] = "succeeded")
      BY <2>2 DEF FailedSteps, OnItsWay
    <3>3. InOrder(steps)'
      BY <1>30, <3>2 DEF Fail, StepsInv, InOrder, OnItsWay, StepIds, Subgraph
    <3>4. InOrder(row.steps)'
      <4>1. CASE row'.steps = steps'
        BY <3>3, <4>1 DEF InOrder
      <4>2. CASE row'.steps = row.steps
        BY <1>30, <4>2 DEF Fail, StepsInv, InOrder
      <4> QED  BY <3>1, <4>1, <4>2
    <3> QED  BY <1>30, <3>3, <3>4 DEF Fail, StepsInv, InWork
  <2> QED  BY <1>30, <2>1, <2>2 DEF Fail
<1>31. CASE StateGone
  BY <1>1, <1>31 DEF StateGone
<1>32. ASSUME NEW s \in Subgraph, JobStateGone(s) PROVE StepsInv'
  BY <1>7, <1>32 DEF JobStateGone, EndJob, settings
<1>33. CASE Raise
  BY <1>33, StepsKept DEF Raise, settings
<1>34. CASE Expire
  BY <1>34, StepsKept DEF Expire, settings
<1>35. CASE Die
  BY <1>35, StepsKept DEF Die, settings
<1>36. ASSUME NEW s \in Subgraph, JobRaises(s) PROVE StepsInv'
  BY <1>7, <1>36 DEF JobRaises, EndJob, settings
<1>37. CASE OtherRequests
  BY <1>37, StepsKept DEF OtherRequests, settings
<1>38. CASE UNCHANGED vars
  BY <1>38, StepsKept DEF vars, settings
<1> QED
  BY <1>2, <1>3, <1>4, <1>5, <1>6, <1>8, <1>9, <1>10, <1>11, <1>12, <1>13, <1>14, <1>16,
     <1>18, <1>19, <1>20, <1>21, <1>22, <1>23, <1>25, <1>26, <1>27, <1>28, <1>29, <1>30, <1>31,
     <1>32, <1>33, <1>34, <1>35, <1>36, <1>37, <1>38, <1>39, <1>40, <1>41, <1>42 DEF Next, Step, Ended

-----------------------------------------------------------------------------
(* Which solve it is, and whose report is in force *)

Answering == {"finalize", "answer", "finish", "clear", "persist"}

\* The report is of the plan, or the second review gave none.
Covered == review.plan = result.plan \/ (solves = 2 /\ steps["critic"] \in {"skipped", "failed"})

ReviewInv ==
  /\ pc \in {"start", "understand", "plan_next"} => solves = 0 /\ review = NoReview
  /\ pc = "solve" => (solves = 0 /\ review = NoReview) \/ solves = 1
  /\ pc \in {"wave", "gather", "solved", "review", "critic"} =>
       (solves = 1 /\ review = NoReview) \/ solves = 2
  /\ pc = "decide" => /\ solves \in {1, 2}
                      /\ mode = "enforce" /\ review # NoReview => Covered
  /\ pc = "soft_retry" => solves = 1 /\ review # NoReview
  /\ review.hard => review.verdict \in {"needs_clarification", "retry_with_soft_adjustments"}
  /\ EnforceReviews

\* A step of the code that leaves the plan, its report and the count of solves alone.
LEMMA ReviewKept ==
  ASSUME ReviewInv, UNCHANGED <<mode, solves, review, result>>,
         \/ steps'["critic"] = steps["critic"] \/ pc \notin {"decide"} \cup Answering,
         \/ pc' = pc \/ pc' \in {"failing", "end"}
         \/ pc \in {"start", "understand"} /\ pc' \in {"understand", "plan_next"}
         \/ pc = "plan_next" /\ pc' = "solve"
         \/ pc \in {"wave", "gather"} /\ pc' \in {"wave", "gather", "solved"}
         \/ pc \in Answering /\ pc' \in Answering
  PROVE  ReviewInv'
<1>1. EnforceReviews'
  BY DEF ReviewInv, EnforceReviews, Answering
<1>2. pc = "decide" => (Covered' <=> Covered)
  BY DEF Covered
<1> QED  BY <1>1, <1>2 DEF ReviewInv, Answering

LEMMA ReviewInit == Init => ReviewInv
  BY DEF Init, ReviewInv, EnforceReviews, NoReview

LEMMA ReviewStep == TypeInv /\ StepsInv /\ ReviewInv /\ [Next]_vars => ReviewInv'
<1> SUFFICES ASSUME TypeInv, StepsInv, ReviewInv, [Next]_vars PROVE ReviewInv'
  OBVIOUS
<1>1. ASSUME NEW reason, Throw(reason) PROVE ReviewInv'
  BY <1>1, ReviewKept DEF Throw, settings, trace
<1>2. CASE Start
  BY <1>2, ReviewKept DEF Start, settings
<1>3. CASE Understand
  <2>1. CASE ~Throw("protocol")
    <3>1. /\ pc = "understand" /\ UNCHANGED <<mode, solves, review, steps>>
          /\ \/ pc' = "plan_next" /\ result' = result
             \/ pc' = "finalize"
                /\ result' = [status |-> "need_clarification", plan |-> 0, early |-> TRUE]
      BY <1>3, <2>1 DEF Understand, settings
    <3> QED  BY <3>1 DEF ReviewInv, EnforceReviews, Covered
  <2> QED  BY <1>1, <2>1
<1>4. CASE PlanNext
  <2>1. CASE ~Throw("protocol")
    <3>1. pc = "plan_next" /\ pc' = "solve" /\ UNCHANGED <<mode, solves, review, result>>
      BY <1>4, <2>1 DEF PlanNext, settings
    <3> QED  BY <3>1, ReviewKept DEF Answering
  <2> QED  BY <1>1, <2>1
<1>5. CASE Solve
  <2>1. pc = "solve" /\ pc' = "wave" /\ solves' = solves + 1 /\ UNCHANGED <<mode, review, result>>
    BY <1>5 DEF Solve, settings
  <2> QED  BY <2>1 DEF ReviewInv, EnforceReviews
<1>6. CASE Wave
  <2>1. CASE ~Throw("blocked")
    <3>1. pc = "wave" /\ pc' = "gather" /\ UNCHANGED <<mode, solves, review, result>>
      BY <1>6, <2>1 DEF Wave, settings, trace
    <3> QED  BY <3>1, ReviewKept DEF Answering
  <2> QED  BY <1>1, <2>1
<1>7. CASE SearchBegin
  BY <1>7, ReviewKept DEF SearchBegin, settings, trace
<1>8. CASE Recover
  BY <1>8, ReviewKept DEF Recover, settings
<1>9. CASE FollowDecision
  BY <1>9, ReviewKept DEF FollowDecision, settings, trace
<1>10. CASE SearchEnd
  BY <1>10, ReviewKept DEF SearchEnd, settings
<1>11. CASE RunWeather
  BY <1>11, ReviewKept DEF RunWeather, settings, trace
<1>12. CASE CheckSafety
  BY <1>12, ReviewKept DEF CheckSafety, settings
<1>13. CASE RunPlanner
  <2>1. pc = "gather" /\ pc' = "gather" /\ UNCHANGED <<mode, solves, review>>
    BY <1>13 DEF RunPlanner, settings
  <2> QED  BY <2>1 DEF ReviewInv, EnforceReviews
<1>14. CASE Gather \/ GatherRefused \/ GatherRaises
  <2>1. pc = "gather" /\ pc' \in {"failing", "wave", "solved"} /\ UNCHANGED <<mode, solves, review, result>>
    BY <1>14 DEF Gather, GatherRefused, GatherRaises, WaveEnded, settings, trace
  <2> QED  BY <2>1, ReviewKept DEF Answering
<1>15. CASE Solved
  <2>1. /\ pc = "solved" /\ UNCHANGED <<mode, solves, review>>
        /\ \/ pc' = "review"
           \/ pc' = "finalize" /\ result.status = "need_clarification"
        /\ result' = [result EXCEPT !.early = (pc' = "finalize")]
    BY <1>15 DEF Solved, settings, trace
  <2>2. result'.status = result.status
    BY <2>1 DEF TypeInv, Result
  <2> QED  BY <2>1, <2>2 DEF ReviewInv, EnforceReviews
<1>16. ASSUME mode = "enforce", pc \in {"review", "critic"}, solves = 2,
              NEW new \in {"skipped", "failed"}, steps' = SetStep(steps, "critic", new)
       PROVE  steps'["critic"] \in {"skipped", "failed"}
  <2>1. steps["critic"] # "absent"
    BY <1>16 DEF StepsInv, PlanShape, InWork
  <2> QED  BY <1>16, <2>1 DEF SetStep, TypeInv, StepIds
<1>17. ASSUME pc \in {"review", "critic"}, pc' = "decide", UNCHANGED <<mode, solves, review, result>>,
              NEW new \in {"skipped", "failed"}, steps' = SetStep(steps, "critic", new)
       PROVE  ReviewInv'
  <2>1. mode = "enforce" /\ review # NoReview => steps'["critic"] \in {"skipped", "failed"} /\ solves = 2
    BY <1>16, <1>17 DEF ReviewInv
  <2> QED  BY <1>17, <2>1 DEF ReviewInv, EnforceReviews, Covered
<1>18. CASE ReviewBegin
  <2>1. CASE MayRunCritic
    BY <1>18, <2>1 DEF ReviewBegin, ReviewInv, EnforceReviews, settings, trace
  <2>2. CASE ~MayRunCritic
    BY <1>17, <1>18, <2>2 DEF ReviewBegin, settings, trace
  <2> QED  BY <2>1, <2>2
<1>19. CASE CriticRaises
  <2>1. pc' = "failing" /\ UNCHANGED <<mode, solves, review, result>> /\ pc = "critic"
    BY <1>19 DEF CriticRaises, settings, trace
  <2> QED  BY <2>1, ReviewKept DEF Answering
<1>20. CASE CriticDropped
  BY <1>17, <1>20 DEF CriticDropped, settings
<1>21. CASE Critic
  <2>1. CASE ~Throw("protocol")
    <3>1. PICK hard \in BOOLEAN, warned \in BOOLEAN : \E v \in CriticVerdicts(hard, warned) :
            review' = [verdict |-> v, plan |-> result.plan, hard |-> hard]
      BY <1>21, <2>1 DEF Critic
    <3>2. PICK v \in CriticVerdicts(hard, warned) :
            review' = [verdict |-> v, plan |-> result.plan, hard |-> hard]
      BY <3>1
    <3>3. hard => v \in {"needs_clarification", "retry_with_soft_adjustments"}
      BY <3>2 DEF CriticVerdicts, RuleVerdict, ModelVerdict
    <3>4. pc = "critic" /\ pc' = "decide" /\ UNCHANGED <<mode, solves, result>>
      BY <1>21, <2>1 DEF Critic, settings
    <3> QED  BY <3>2, <3>3, <3>4 DEF ReviewInv, EnforceReviews, Covered
  <2> QED  BY <1>1, <2>1
<1>22. CASE Decide
  <2>1. pc = "decide" /\ UNCHANGED <<mode, solves, review, steps>>
    BY <1>22 DEF Decide, settings, trace
  <2>2. CASE pc' = "soft_retry"
    <3>1. solves = 1 /\ review.verdict = "retry_with_soft_adjustments"
      BY <1>22, <2>2 DEF Decide
    <3>2. review # NoReview
      BY <3>1 DEF NoReview
    <3> QED  BY <2>1, <2>2, <3>1, <3>2 DEF ReviewInv, EnforceReviews
  <2>3. CASE pc' = "finalize"
    <3>1. PICK impact \in BOOLEAN :
            LET judged == IF mode # "enforce" THEN result.status
                          ELSE IF review = NoReview THEN "need_clarification"
                          ELSE Enforced(review.verdict, result.status)
            IN  result' = [result EXCEPT !.status = IF NeedsConfirmation(judged, impact)
                                                    THEN "need_clarification" ELSE judged]
      BY <1>22, <2>3 DEF Decide
    <3>2. result'.plan = result.plan
      BY <3>1 DEF TypeInv, Result
    <3>3. mode = "enforce" /\ result'.status = "success" =>
            review # NoReview /\ review.verdict # "needs_clarification"
      BY <3>1 DEF TypeInv, Result, Enforced, NeedsConfirmation
    <3>4. mode = "enforce" /\ review # NoReview => Covered
      BY <2>1 DEF ReviewInv
    <3>5. review.hard => review.verdict \in {"needs_clarification", "retry_with_soft_adjustments"}
      BY DEF ReviewInv
    <3>6. EnforceReviews'
      BY <2>1, <3>2, <3>3, <3>4, <3>5 DEF EnforceReviews, Covered
    <3> QED  BY <2>1, <2>3, <3>5, <3>6 DEF ReviewInv
  <2> QED  BY <1>22, <2>2, <2>3 DEF Decide
<1>23. CASE SoftRetry
  <2>1. CASE ~Throw("protocol")
    <3>1. pc = "soft_retry" /\ pc' = "solve" /\ UNCHANGED <<mode, solves, review, result>>
      BY <1>23, <2>1 DEF SoftRetry, settings
    <3> QED  BY <3>1 DEF ReviewInv, EnforceReviews
  <2> QED  BY <1>1, <2>1
<1>24. ASSUME NEW new, steps' = SetStep(steps, "final_answer", new) PROVE steps'["critic"] = steps["critic"]
  BY <1>24 DEF SetStep, TypeInv, StepIds
<1>25. CASE Finalize
  BY <1>24, <1>25, ReviewKept DEF Finalize, Answering, settings, trace
<1>26. CASE FinalAnswer
  <2>1. CASE ~Throw("protocol")
    <3>1. pc = "answer" /\ pc' = "finish" /\ UNCHANGED <<mode, solves, review, result>>
          /\ steps' = SetStep(steps, "final_answer", "succeeded")
      BY <1>26, <2>1 DEF FinalAnswer, settings
    <3> QED  BY <1>24, <3>1, ReviewKept DEF Answering
  <2> QED  BY <1>1, <2>1
<1>27. CASE Finish
  BY <1>27, ReviewKept DEF Finish, Answering, settings
<1>28. CASE ClearMemory
  BY <1>28, ReviewKept DEF ClearMemory, Answering, settings, trace
<1>29. CASE PersistWorkflow
  BY <1>29, ReviewKept DEF PersistWorkflow, settings, trace
<1>30. CASE Fail
  <2>1. pc = "failing" /\ pc' = "end" /\ UNCHANGED <<mode, solves, review, result>>
    BY <1>30 DEF Fail, settings
  <2> QED  BY <2>1, ReviewKept DEF Answering
<1>31. CASE StateGone
  BY <1>1, <1>31 DEF StateGone
<1>32. ASSUME NEW s \in Subgraph, JobStateGone(s) PROVE ReviewInv'
  BY <1>32, ReviewKept DEF JobStateGone, settings, trace
<1>33. CASE Raise
  BY <1>33, ReviewKept DEF Raise, settings, trace
<1>34. CASE Expire
  BY <1>34, ReviewKept DEF Expire, settings, trace
<1>35. CASE Die
  BY <1>35, ReviewKept DEF Die, settings, trace
<1>36. ASSUME NEW s \in Subgraph, JobRaises(s) PROVE ReviewInv'
  BY <1>36, ReviewKept DEF JobRaises, settings, trace
<1>37. CASE OtherRequests
  BY <1>37, ReviewKept DEF OtherRequests, settings, trace
<1>38. CASE UNCHANGED vars
  BY <1>38, ReviewKept DEF vars, settings, trace
<1>39. CASE EndRaises
  <2>1. pc' \in {"failing", "end"} /\ UNCHANGED <<mode, solves, review, result, steps>>
    BY <1>39 DEF EndRaises, settings, trace
  <2> QED  BY <2>1, ReviewKept
<1>40. CASE FailRaises
  <2>1. (pc' = pc \/ pc' = "end") /\ UNCHANGED <<mode, solves, review, result, steps>>
    BY <1>40 DEF FailRaises, settings, trace
  <2> QED  BY <2>1, ReviewKept
<1> QED
  BY <1>2, <1>3, <1>4, <1>5, <1>6, <1>7, <1>8, <1>9, <1>10, <1>11, <1>12, <1>13, <1>14, <1>15,
     <1>18, <1>19, <1>20, <1>21, <1>22, <1>23, <1>25, <1>26, <1>27, <1>28, <1>29, <1>30, <1>31,
     <1>32, <1>33, <1>34, <1>35, <1>36, <1>37, <1>38, <1>39, <1>40 DEF Next, Step, Ended

-----------------------------------------------------------------------------
(* How the request ends, as far as it does not depend on the hand-offs *)

OutcomeInv ==
  /\ outcome # "raised" => row.status = status
  /\ pc \notin {"persist", "end"} => outcome = "running"
  /\ pc = "persist" => outcome = "returned"
  /\ pc = "end" => outcome # "running"
  /\ pc \in {"clear", "persist"} => status # "running"
  /\ outcome # "raised" => status # "failed"
  /\ outcome = "returned" => st = NoState /\ status # "running"

\* A step of the code that neither ends the request nor changes its status.
LEMMA OutcomeKept ==
  ASSUME OutcomeInv, pc \notin {"persist", "end"}, pc' \notin {"clear", "persist", "end"},
         UNCHANGED <<outcome, status>>, row'.status = status
  PROVE  OutcomeInv'
  BY DEF OutcomeInv

LEMMA OutcomeInit == Init => OutcomeInv
  BY DEF Init, OutcomeInv, NewRow

LEMMA OutcomeStep == TypeInv /\ OutcomeInv /\ [Next]_vars => OutcomeInv'
<1> SUFFICES ASSUME TypeInv, OutcomeInv, [Next]_vars PROVE OutcomeInv'
  OBVIOUS
<1>0. pc # "end" => row.status = status
  BY DEF OutcomeInv
<1>1. ASSUME NEW reason, Throw(reason), pc \notin {"persist", "end"} PROVE OutcomeInv'
  BY <1>0, <1>1, OutcomeKept DEF Throw, trace
<1>2. CASE Start
  BY <1>2, OutcomeKept DEF Start, Checkpoint
<1>3. CASE Understand
  <2>1. CASE ~Throw("protocol")
    <3>1. pc = "understand" /\ pc' \in {"plan_next", "finalize"} /\ UNCHANGED <<outcome, status>>
          /\ row'.status = status
      BY <1>3, <2>1 DEF Understand, Checkpoint
    <3> QED  BY <3>1, OutcomeKept
  <2> QED  BY <1>1, <1>3, <2>1 DEF Understand
<1>4. CASE PlanNext
  <2>1. CASE ~Throw("protocol")
    <3>1. pc = "plan_next" /\ pc' = "solve" /\ UNCHANGED <<outcome, status>> /\ row'.status = status
      BY <1>4, <2>1 DEF PlanNext, Checkpoint
    <3> QED  BY <3>1, OutcomeKept
  <2> QED  BY <1>1, <1>4, <2>1 DEF PlanNext
<1>5. CASE Solve
  BY <1>5, OutcomeKept DEF Solve, Checkpoint
<1>6. CASE Wave
  <2>1. CASE ~Throw("blocked")
    <3>1. pc = "wave" /\ pc' = "gather" /\ UNCHANGED <<outcome, status>> /\ row'.status = status
      BY <1>6, <2>1 DEF Wave, Checkpoint, trace
    <3> QED  BY <3>1, OutcomeKept
  <2> QED  BY <1>1, <1>6, <2>1 DEF Wave
<1>7. CASE SearchBegin
  BY <1>0, <1>7, OutcomeKept DEF SearchBegin, trace
<1>8. CASE Recover
  <2>1. row'.status = status
    BY <1>0, <1>8 DEF Recover, Checkpoint
  <2> QED  BY <1>8, <2>1, OutcomeKept DEF Recover
<1>9. CASE FollowDecision
  BY <1>0, <1>9, OutcomeKept DEF FollowDecision, trace
<1>10. CASE SearchEnd
  BY <1>0, <1>10, OutcomeKept DEF SearchEnd
<1>11. CASE RunWeather
  BY <1>0, <1>11, OutcomeKept DEF RunWeather, trace
<1>12. CASE CheckSafety
  BY <1>0, <1>12, OutcomeKept DEF CheckSafety
<1>13. CASE RunPlanner
  BY <1>0, <1>13, OutcomeKept DEF RunPlanner
<1>14. CASE Gather \/ GatherRefused \/ GatherRaises
  <2>1. pc = "gather" /\ pc' \in {"failing", "wave", "solved"} /\ UNCHANGED <<outcome, status>>
    BY <1>14 DEF Gather, GatherRefused, GatherRaises, WaveEnded, trace
  <2>2. row'.status = status
    <3>1. CASE Gather
      BY <3>1 DEF Gather, Checkpoint
    <3>2. CASE GatherRefused \/ GatherRaises
      BY <1>0, <2>1, <3>2 DEF GatherRefused, GatherRaises
    <3> QED  BY <1>14, <3>1, <3>2
  <2> QED  BY <2>1, <2>2, OutcomeKept
<1>15. CASE Solved
  BY <1>0, <1>15, OutcomeKept DEF Solved, trace
<1>16. CASE ReviewBegin
  BY <1>16, OutcomeKept DEF ReviewBegin, Checkpoint, trace
<1>17. CASE CriticRaises
  BY <1>17, OutcomeKept DEF CriticRaises, Checkpoint, trace
<1>18. CASE CriticDropped
  BY <1>18 DEF CriticDropped, Checkpoint, OutcomeInv
<1>19. CASE Critic
  <2>1. CASE ~Throw("protocol")
    <3>1. pc = "critic" /\ pc' = "decide" /\ UNCHANGED <<outcome, status>> /\ row'.status = status
      BY <1>19, <2>1 DEF Critic, Checkpoint
    <3> QED  BY <3>1, OutcomeKept
  <2> QED  BY <1>1, <1>19, <2>1 DEF Critic
<1>20. CASE Decide
  BY <1>0, <1>20, OutcomeKept DEF Decide, trace
<1>21. CASE SoftRetry
  <2>1. CASE ~Throw("protocol")
    <3>1. pc = "soft_retry" /\ pc' = "solve" /\ UNCHANGED <<outcome, status>> /\ row'.status = status
      BY <1>21, <2>1 DEF SoftRetry, Checkpoint
    <3> QED  BY <3>1, OutcomeKept
  <2> QED  BY <1>1, <1>21, <2>1 DEF SoftRetry
<1>22. CASE Finalize
  BY <1>22, OutcomeKept DEF Finalize, Checkpoint, trace
<1>23. CASE FinalAnswer
  <2>1. CASE ~Throw("protocol")
    <3>1. pc = "answer" /\ pc' = "finish" /\ UNCHANGED <<outcome, status>> /\ row'.status = status
      BY <1>23, <2>1 DEF FinalAnswer, Checkpoint
    <3> QED  BY <3>1, OutcomeKept
  <2> QED  BY <1>1, <1>23, <2>1 DEF FinalAnswer
<1>24. CASE Finish
  <2>1. status' \notin {"running", "failed"}
    <3>1. result.status \in PlanStatus \cup {"none"}
      BY DEF TypeInv, Result
    <3> QED  BY <1>24, <3>1 DEF Finish, OutcomeInv, PlanStatus
  <2> QED  BY <1>24, <2>1 DEF Finish, Checkpoint, OutcomeInv
<1>25. CASE ClearMemory
  BY <1>25 DEF ClearMemory, OutcomeInv, trace
<1>26. CASE PersistWorkflow
  BY <1>26 DEF PersistWorkflow, OutcomeInv, trace
<1>27. CASE Fail
  <2>1. CASE UNCHANGED <<st, rev, steps, status, row>>
    BY <1>27, <2>1 DEF Fail, OutcomeInv
  <2>2. CASE status' = "failed"
    BY <1>27, <2>2 DEF Fail, OutcomeInv
  <2> QED  BY <1>27, <2>1, <2>2 DEF Fail
<1>28. CASE StateGone
  BY <1>1, <1>28 DEF StateGone, Busy
<1>29. ASSUME NEW s \in Subgraph, JobStateGone(s) PROVE OutcomeInv'
  BY <1>0, <1>29, OutcomeKept DEF JobStateGone, trace
<1>30. CASE Raise
  BY <1>0, <1>30, OutcomeKept DEF Raise, Busy, trace
<1>31. CASE Expire
  BY <1>31 DEF Expire, OutcomeInv, trace
<1>32. CASE Die
  BY <1>32 DEF Die, OutcomeInv, trace
<1>33. ASSUME NEW s \in Subgraph, JobRaises(s) PROVE OutcomeInv'
  BY <1>0, <1>33, OutcomeKept DEF JobRaises, trace
<1>34. CASE OtherRequests
  BY <1>0, <1>34, OutcomeKept DEF OtherRequests, trace
<1>35. CASE UNCHANGED vars
  BY <1>35 DEF OutcomeInv, vars, trace
<1>36. CASE EndRaises
  BY <1>36 DEF EndRaises, OutcomeInv, trace
<1>37. CASE FailRaises
  BY <1>37 DEF FailRaises, OutcomeInv, trace
<1> QED
  BY <1>2, <1>3, <1>4, <1>5, <1>6, <1>7, <1>8, <1>9, <1>10, <1>11, <1>12, <1>13, <1>14, <1>15,
     <1>16, <1>17, <1>18, <1>19, <1>20, <1>21, <1>22, <1>23, <1>24, <1>25, <1>26, <1>27, <1>28,
     <1>29, <1>30, <1>31, <1>32, <1>33, <1>34, <1>35, <1>36, <1>37 DEF Next, Step, Ended

-----------------------------------------------------------------------------
(* What the search has found *)

\* A step of this solve is done, and the row may not yet say so.
Done(s) == steps[s] = "succeeded" \/ job[s] = "done"

RecallInv ==
  /\ Done("search") /\ ~recall.asks => recall.found = Keywords
  /\ Done("planner") /\ result.status = "success" => recall.found = Keywords
  /\ pc \in Answering \/ outcome = "returned" =>
       (result.status = "success" => steps["planner"] = "succeeded")

\* A step of the code that leaves alone what is found and planned.
LEMMA RecallKept ==
  ASSUME RecallInv, UNCHANGED <<recall, result>>,
         \A s \in {"search", "planner"} : Done(s)' => Done(s),
         pc' \in Answering \/ outcome' = "returned" =>
           /\ pc \in Answering \/ outcome = "returned"
           /\ steps'["planner"] = steps["planner"]
  PROVE  RecallInv'
  BY DEF RecallInv

\* While the search runs nothing after it is done; a planner that runs has it done.
LEMMA SearchFirst ==
  ASSUME TypeInv, StepsInv, pc = "gather"
  PROVE  /\ job["search"] \in {"begin", "recall"} => ~Done("search") /\ ~Done("planner")
                                                     /\ ~Done("safety_check")
         /\ job["planner"] # "idle" => steps["search"] = "succeeded"
         /\ job["safety_check"] # "idle" => steps["search"] = "succeeded"
<1>1. \A s \in Subgraph : job[s] = "idle" <=> steps[s] # "running"
  BY DEF StepsInv
<1>2. "search" \in Subgraph /\ "planner" \in Subgraph /\ "safety_check" \in Subgraph
  BY DEF Subgraph
<1>3. InOrder(steps)
  BY DEF StepsInv
<1> QED  BY <1>1, <1>2, <1>3 DEF InOrder, OnItsWay, Done

LEMMA RecallInit == Init => RecallInv
  BY DEF Init, RecallInv, Done, NoSteps, Answering, StepIds, Subgraph

LEMMA RecallStep == TypeInv /\ StepsInv /\ OutcomeInv /\ RecallInv /\ [Next]_vars => RecallInv'
<1> SUFFICES ASSUME TypeInv, StepsInv, OutcomeInv, RecallInv, [Next]_vars PROVE RecallInv'
  OBVIOUS
<1>0. pc \notin {"persist", "end"} => outcome = "running"
  BY DEF OutcomeInv
<1>1. ASSUME NEW reason, Throw(reason), pc \notin {"persist", "end"} PROVE RecallInv'
  <2>1. UNCHANGED <<steps, job, recall, result, outcome>> /\ pc' = "failing"
    BY <1>1 DEF Throw, trace
  <2> QED  BY <1>0, <1>1, <2>1, RecallKept DEF Done, Answering
<1>2. ASSUME UNCHANGED <<recall, result, outcome>>, pc \notin {"persist", "end"} \cup Answering,
             pc' \notin Answering, \A s \in {"search", "planner"} : Done(s)' => Done(s)
      PROVE  RecallInv'
  BY <1>0, <1>2, RecallKept
<1>3. CASE Start
  BY <1>2, <1>3 DEF Start, Answering, Done
<1>4. CASE Understand
  <2>1. CASE ~Throw("protocol")
    <3>1. /\ pc = "understand" /\ UNCHANGED <<steps, job, recall, outcome>>
          /\ \/ pc' = "plan_next" /\ result' = result
             \/ pc' = "finalize"
                /\ result' = [status |-> "need_clarification", plan |-> 0, early |-> TRUE]
      BY <1>4, <2>1 DEF Understand
    <3> QED  BY <1>0, <3>1 DEF RecallInv, Done, Answering
  <2> QED  BY <1>1, <1>4, <2>1 DEF Understand
<1>5. CASE PlanNext
  <2>1. CASE ~Throw("protocol")
    <3>1. /\ pc = "plan_next" /\ pc' = "solve" /\ UNCHANGED <<job, recall, result, outcome>>
          /\ \E g : steps' = [s \in StepIds |-> CASE ~Planned(s, g) -> "absent"
                                                  [] s = "intent"   -> "succeeded"
                                                  [] OTHER          -> "pending"]
      BY <1>5, <2>1 DEF PlanNext
    <3>2. steps'["search"] = "pending" /\ steps'["planner"] = "pending"
      BY <3>1 DEF Planned, StepIds
    <3> QED  BY <1>2, <3>1, <3>2 DEF Done, Answering
  <2> QED  BY <1>1, <1>5, <2>1 DEF PlanNext
<1>6. CASE Solve
  <2>1. /\ pc = "solve" /\ pc' = "wave" /\ UNCHANGED <<job, recall, result, outcome>>
        /\ \A s \in {"search", "planner"} : steps'[s] = "succeeded" => steps[s] = "succeeded"
    BY <1>6 DEF Solve, StepIds, InPlan
  <2> QED  BY <1>2, <2>1 DEF Done, Answering
<1>7. CASE Wave
  <2>1. CASE ~Throw("blocked")
    <3>1. /\ pc = "wave" /\ pc' = "gather" /\ UNCHANGED <<recall, result, outcome>>
          /\ \A s \in {"search", "planner"} :
               (steps'[s] = "succeeded" => steps[s] = "succeeded") /\ job'[s] # "done"
      BY <1>7, <2>1 DEF Wave, StepIds, Subgraph
    <3> QED  BY <1>2, <3>1 DEF Done, Answering
  <2> QED  BY <1>1, <1>7, <2>1 DEF Wave
<1>8. ASSUME UNCHANGED <<pc, steps, recall, result, outcome>>, pc = "gather",
             NEW s \in Subgraph, NEW how \in {"recall", "raised"}, job' = [job EXCEPT ![s] = how]
      PROVE  RecallInv'
  <2>1. \A z \in Subgraph : job'[z] = IF z = s THEN how ELSE job[z]
    BY <1>8 DEF TypeInv
  <2> QED  BY <1>2, <1>8, <2>1 DEF Done, Answering, Subgraph
\* What is found changes only before the search and the planner are done.
<1>9. ASSUME UNCHANGED <<pc, steps, result, outcome>>, pc = "gather",
             job["search"] \in {"begin", "recall"}, job'["search"] # "done",
             job'["planner"] = job["planner"]
      PROVE  RecallInv'
  BY <1>0, <1>9, SearchFirst DEF RecallInv, Done, Answering
<1>10. CASE SearchBegin
  <2>1. PICK how \in {"recall", "raised"} : job' = [job EXCEPT !["search"] = how]
    BY <1>10 DEF SearchBegin, EndJob
  <2>2. job'["search"] = how /\ job'["planner"] = job["planner"]
    BY <2>1 DEF TypeInv, Subgraph
  <2> QED  BY <1>9, <1>10, <2>2 DEF SearchBegin
<1>11. CASE Recover
  <2>1. job' = job \/ job' = [job EXCEPT !["search"] = "raised"]
    BY <1>11 DEF Recover, EndJob
  <2>2. job'["search"] \in {job["search"], "raised"} /\ job'["planner"] = job["planner"]
    BY <2>1 DEF TypeInv, Subgraph
  <2> QED  BY <1>9, <1>11, <2>2 DEF Recover
<1>12. CASE FollowDecision
  BY <1>9, <1>12 DEF FollowDecision
<1>13. CASE SearchEnd
  <2>1. CASE job' = [job EXCEPT !["search"] = "raised"] /\ recall' = recall
    BY <1>8, <1>13, <2>1 DEF SearchEnd, Subgraph
  <2>2. CASE job' = [job EXCEPT !["search"] = "done"]
             /\ \E groups \in SUBSET recall.found, ambiguous \in BOOLEAN :
                  recall' = SearchArtifact(groups, ambiguous)
    <3>1. recall'.asks \/ recall'.found = Keywords
      <4>1. PICK groups \in SUBSET recall.found, ambiguous \in BOOLEAN :
              recall' = [recall EXCEPT !.found = groups, !.asks = SearchAsks(groups, ambiguous)]
        BY <2>2 DEF SearchArtifact
      <4>2. recall'.found = groups /\ recall'.asks = SearchAsks(groups, ambiguous)
        BY <4>1 DEF TypeInv, Recall
      <4>3. SearchAsks(groups, ambiguous) \/ groups = Keywords
        BY DEF SearchAsks
      <4> QED  BY <4>2, <4>3
    <3>2. pc = "gather" /\ job["search"] = "recall" /\ UNCHANGED <<pc, steps, result, outcome>>
      BY <1>13 DEF SearchEnd
    <3>3. ~Done("planner")' /\ outcome = "running"
      <4>1. ~Done("planner")
        BY <3>2, SearchFirst
      <4>2. job'["planner"] = job["planner"]
        BY <2>2 DEF TypeInv, Subgraph
      <4> QED  BY <1>0, <3>2, <4>1, <4>2 DEF Done
    <3> QED  BY <3>1, <3>2, <3>3 DEF RecallInv, Answering
  <2> QED  BY <1>13, <2>1, <2>2 DEF SearchEnd, EndJob
<1>14. ASSUME UNCHANGED <<pc, steps, recall, result, outcome>>, pc = "gather",
              NEW s \in Subgraph \ {"search", "planner"}, NEW how, job' = [job EXCEPT ![s] = how]
       PROVE  RecallInv'
  <2>1. job'["search"] = job["search"] /\ job'["planner"] = job["planner"]
    BY <1>14 DEF TypeInv, Subgraph
  <2> QED  BY <1>2, <1>14, <2>1 DEF Done, Answering
<1>15. CASE RunWeather
  BY <1>14, <1>15 DEF RunWeather, EndJob, Subgraph
<1>16. CASE CheckSafety
  BY <1>14, <1>16 DEF CheckSafety, EndJob, Subgraph
<1>17. CASE RunPlanner
  <2>1. CASE job' = [job EXCEPT !["planner"] = "raised"] /\ result' = result
    BY <1>8, <1>17, <2>1 DEF RunPlanner, Subgraph
  <2>2. CASE job' = [job EXCEPT !["planner"] = "done"]
             /\ (result'.status = "success" => ~recall.asks)
    <3>1. pc = "gather" /\ job["planner"] # "idle" /\ UNCHANGED <<pc, steps, recall, outcome>>
      BY <1>17 DEF RunPlanner
    <3>2. Done("search") /\ (Done("search")' => Done("search"))
      BY <3>1, SearchFirst DEF Done
    <3>3. pc' \notin Answering /\ outcome' = "running"
      BY <1>0, <3>1 DEF Answering
    <3> QED  BY <2>2, <3>1, <3>2, <3>3 DEF RecallInv
  <2>3. \A matrixOk, optimizerOk, feasible \in BOOLEAN :
          PlannerStatus(recall.asks, matrixOk, optimizerOk, feasible) = "success" => ~recall.asks
    BY DEF PlannerStatus
  <2> QED
    <3>1. CASE ~(Consumable("planner", {"search_artifact", "safety_report"})
                 /\ Allowed("plan_completed"))
      BY <1>17, <2>1, <3>1 DEF RunPlanner, EndJob
    <3>2. CASE Consumable("planner", {"search_artifact", "safety_report"})
               /\ Allowed("plan_completed")
      <4>1. CASE job' = [job EXCEPT !["planner"] = "raised"] /\ result' = result
        BY <2>1, <4>1
      <4>2. CASE job' = [job EXCEPT !["planner"] = "done"]
                 /\ \E matrixOk, optimizerOk, feasible \in BOOLEAN :
                      result' = [status |-> PlannerStatus(recall.asks, matrixOk, optimizerOk, feasible),
                                 plan |-> solves, early |-> FALSE]
        BY <2>2, <2>3, <4>2
      <4> QED  BY <1>17, <3>2, <4>1, <4>2 DEF RunPlanner, EndJob
    <3> QED  BY <3>1, <3>2
<1>18. CASE Gather \/ GatherRefused \/ GatherRaises
  <2>1. pc = "gather" /\ pc' \in {"failing", "wave", "solved"} /\ UNCHANGED <<recall, result, outcome>>
    BY <1>18 DEF Gather, GatherRefused, GatherRaises, WaveEnded, trace
  <2>2. \A s \in Subgraph : steps'[s] = "succeeded" => Done(s)
    <3>1. \A s \in Running : job[s] \in {"done", "raised"}
      BY <1>18 DEF Gather, GatherRefused, GatherRaises, WaveEnded
    <3>2. \A s \in Subgraph : steps'[s] = "succeeded" =>
            (s \in Running /\ job[s] # "raised") \/ steps[s] = "succeeded"
      <4>1. steps' = WaveResult
        BY <1>18 DEF Gather, GatherRefused, GatherRaises
      <4> QED  BY <4>1 DEF WaveResult, Subgraph, StepIds
    <3> QED  BY <3>1, <3>2 DEF Done
  <2>3. \A s \in Subgraph : job'[s] = "idle"
    BY <1>18 DEF Gather, GatherRefused, GatherRaises
  <2> QED  BY <1>2, <2>1, <2>2, <2>3 DEF Done, Answering, Subgraph
<1>19. CASE Solved
  <2>1. /\ pc = "solved" /\ UNCHANGED <<steps, job, recall, outcome>>
        /\ \/ pc' = "review"
           \/ pc' = "finalize" /\ result.status = "need_clarification"
        /\ result' = [result EXCEPT !.early = (pc' = "finalize")]
    BY <1>19 DEF Solved
  <2>2. result'.status = result.status
    BY <2>1 DEF TypeInv, Result
  <2> QED  BY <1>0, <2>1, <2>2 DEF RecallInv, Done, Answering
<1>20. ASSUME NEW s \in StepIds \ Subgraph, NEW new, steps' = SetStep(steps, s, new), job' = job
       PROVE  /\ \A z \in {"search", "planner"} : Done(z)' => Done(z)
              /\ steps'["planner"] = steps["planner"]
  BY <1>20 DEF Done, SetStep, TypeInv, StepIds, Subgraph
<1>21. "critic" \in StepIds \ Subgraph /\ "final_answer" \in StepIds \ Subgraph
  BY DEF StepIds, Subgraph
<1>22. CASE ReviewBegin
  <2>1. /\ pc = "review" /\ pc' \in {"critic", "decide"} /\ UNCHANGED <<recall, result, outcome, job>>
        /\ steps' = SetStep(steps, "critic", IF MayRunCritic THEN "running" ELSE "skipped")
    BY <1>22 DEF ReviewBegin
  <2> QED  BY <1>2, <1>20, <1>21, <2>1 DEF Answering
<1>23. CASE CriticRaises
  BY <1>2, <1>20, <1>21, <1>23 DEF CriticRaises, Answering
<1>24. CASE CriticDropped
  BY <1>2, <1>20, <1>21, <1>24 DEF CriticDropped, Answering
<1>25. CASE Critic
  <2>1. CASE ~Throw("protocol")
    <3>1. /\ pc = "critic" /\ pc' = "decide" /\ UNCHANGED <<recall, result, outcome, job>>
          /\ steps' = SetStep(steps, "critic", "succeeded")
      BY <1>25, <2>1 DEF Critic
    <3> QED  BY <1>2, <1>20, <1>21, <3>1 DEF Answering
  <2> QED  BY <1>1, <1>25, <2>1 DEF Critic
<1>26. CASE Decide
  <2>1. pc = "decide" /\ UNCHANGED <<steps, job, recall, outcome>> /\ pc' \in {"soft_retry", "finalize"}
    BY <1>26 DEF Decide
  <2>2. steps["planner"] = "succeeded"
    <3>1. steps["planner"] # "absent" /\ steps["planner"] \in {"absent", "succeeded"}
      BY <2>1 DEF StepsInv, PlanShape, InWork, Subgraph
    <3> QED  BY <3>1
  <2>3. result'.status = "success" => result.status = "success"
    BY <1>26 DEF Decide, Enforced, NeedsConfirmation, TypeInv, Result
  <2> QED  BY <1>0, <2>1, <2>2, <2>3 DEF RecallInv, Done, Answering
<1>27. CASE SoftRetry
  <2>1. CASE ~Throw("protocol")
    <3>1. /\ pc = "soft_retry" /\ pc' = "solve" /\ UNCHANGED <<recall, result, outcome, job>>
          /\ \A s \in {"search", "planner"} : steps'[s] = "succeeded" => steps[s] = "succeeded"
      BY <1>27, <2>1 DEF SoftRetry, StepIds
    <3> QED  BY <1>2, <3>1 DEF Done, Answering
  <2> QED  BY <1>1, <1>27, <2>1 DEF SoftRetry
<1>28. CASE Finalize
  BY <1>20, <1>21, <1>28, RecallKept DEF Finalize, Answering
<1>29. CASE FinalAnswer
  <2>1. CASE ~Throw("protocol")
    <3>1. /\ pc = "answer" /\ pc' = "finish" /\ UNCHANGED <<recall, result, outcome, job>>
          /\ steps' = SetStep(steps, "final_answer", "succeeded")
      BY <1>29, <2>1 DEF FinalAnswer
    <3> QED  BY <1>20, <1>21, <3>1, RecallKept DEF Answering
  <2> QED  BY <1>1, <1>29, <2>1 DEF FinalAnswer
<1>30. CASE Finish
  BY <1>30, RecallKept DEF Finish, Answering, Done
<1>31. CASE ClearMemory
  BY <1>31, RecallKept DEF ClearMemory, Answering, Done
<1>32. CASE PersistWorkflow
  BY <1>32, RecallKept DEF PersistWorkflow, Answering, Done
<1>33. CASE Fail
  <2>1. pc = "failing" /\ pc' = "end" /\ outcome' = "raised" /\ UNCHANGED <<recall, result, job>>
    BY <1>33 DEF Fail
  <2>2. \A s \in {"search", "planner"} : steps'[s] = "succeeded" => steps[s] = "succeeded"
    BY <1>33 DEF Fail, FailedSteps, StepIds
  <2> QED  BY <2>1, <2>2, RecallKept DEF Done, Answering
<1>34. CASE StateGone
  BY <1>1, <1>34 DEF StateGone, Busy
<1>35. ASSUME NEW s \in Subgraph, JobStateGone(s) PROVE RecallInv'
  BY <1>8, <1>35 DEF JobStateGone, EndJob
<1>36. CASE Raise
  BY <1>0, <1>36, RecallKept DEF Raise, Busy, Done, Answering
<1>37. CASE Expire
  BY <1>37, RecallKept DEF Expire, Done
<1>38. CASE Die
  BY <1>38, RecallKept DEF Die, Done, Answering
<1>39. ASSUME NEW s \in Subgraph, JobRaises(s) PROVE RecallInv'
  BY <1>8, <1>39 DEF JobRaises, EndJob
<1>40. CASE OtherRequests
  BY <1>40, RecallKept DEF OtherRequests, Done
<1>41. CASE UNCHANGED vars
  BY <1>41, RecallKept DEF vars, Done
<1>42. CASE EndRaises
  <2>1. pc' \in {"failing", "end"} /\ outcome' \in {outcome, "raised"} /\ pc = "clear"
        /\ UNCHANGED <<steps, job, recall, result>>
    BY <1>42 DEF EndRaises
  <2> QED  BY <1>0, <2>1, RecallKept DEF Done, Answering
<1>43. CASE FailRaises
  <2>1. pc' \in {"failing", "end"} /\ outcome' \in {outcome, "raised"} /\ pc = "failing"
        /\ UNCHANGED <<steps, job, recall, result>>
    BY <1>43 DEF FailRaises
  <2> QED  BY <1>0, <2>1, RecallKept DEF Done, Answering
<1> QED
  BY <1>3, <1>4, <1>5, <1>6, <1>7, <1>10, <1>11, <1>12, <1>13, <1>15, <1>16, <1>17, <1>18, <1>19,
     <1>22, <1>23, <1>24, <1>25, <1>26, <1>27, <1>28, <1>29, <1>30, <1>31, <1>32, <1>33, <1>34,
     <1>35, <1>36, <1>37, <1>38, <1>39, <1>40, <1>41, <1>42, <1>43 DEF Next, Step, Ended

-----------------------------------------------------------------------------
(* The hand-offs *)

NoMessages == [f \in Endpoints |-> <<>>]

\* The one message that waits: for e, of one of the types, and of this revision
\* (or from before the Shared State).
Baton(e, types) ==
  \E m \in Message : /\ m.type \in types /\ m.rev \in {rev, -1}
                     /\ pending = [NoMessages EXCEPT ![e] = <<m>>]
NoBaton == pending = NoMessages

InPhase(phases) == st = NoState \/ (st.rev = rev /\ st.phase \in phases)

Open == {"initialized", "intent_ready", "search_ready", "safety_ready", "plan_ready", "reviewed",
         "retrying"}
Commands == {"intent_artifact", "retry_directive"}

\* Until fail has taken it the Shared State is not failed, whether or not the
\* orchestrator has heard of its last update.
LivePhase == st = NoState \/ st.phase \in Open \cup {"finalized"}

\* A solve has ended with a candidate, which waits for the Critic or the Supervisor.
Candidate ==
  /\ InPhase({"plan_ready"})
  /\ st # NoState => st.plan = result.plan
  /\ \/ Baton("critic", {"plan_candidate"}) /\ result.status # "need_clarification"
     \/ /\ Baton("supervisor", {"plan_candidate"})
        /\ result.status = "need_clarification" \/ ~MayRunCritic

\* Where the baton is while the subgraph runs.
SolveHands ==
  /\ ~Done("search") =>
       /\ job["search"] # "raised" => InPhase({"intent_ready", "retrying"})
       /\ job["search"] = "recall" => NoBaton
       /\ job["search"] \in {"idle", "begin"} => Baton("search", Commands)
  /\ Done("search") /\ steps["safety_check"] # "absent" /\ ~Done("safety_check")
       /\ job["safety_check"] # "raised" =>
         InPhase({"search_ready"}) /\ Baton("safety", {"search_artifact"})
  /\ Done("search") /\ (steps["safety_check"] = "absent" \/ Done("safety_check"))
       /\ ~Done("planner") /\ job["planner"] # "raised" =>
         /\ InPhase({"search_ready", "safety_ready"})
         /\ Baton("planner", {"search_artifact", "safety_report"})
  /\ Done("planner") => Candidate

HandInv ==
  /\ \A e \in Endpoints : Len(pending[e]) <= 1
  /\ pc # "end" => LivePhase
  /\ pc = "start" => NoBaton /\ st = NoState
  /\ pc = "understand" => Baton("intent", {"planning_request"}) /\ InPhase({"initialized"})
  /\ pc = "plan_next" => Baton("supervisor", {"intent_artifact"}) /\ InPhase({"intent_ready"})
  /\ pc = "solve" => Baton("search", Commands) /\ InPhase({"intent_ready", "retrying"})
  /\ pc \in {"wave", "gather"} => SolveHands
  /\ pc \in {"solved", "review", "critic"} => Candidate
  /\ pc \in {"review", "critic"} => solves = 2 \/ result.status # "need_clarification"
  /\ pc = "critic" => MayRunCritic
  /\ pc \in {"decide", "soft_retry"} =>
       /\ InPhase({"plan_ready", "reviewed"}) /\ pending["final_answer"] = <<>>
       /\ solves = 1 /\ review # NoReview =>
            Baton("supervisor", {"review_report"}) /\ InPhase({"reviewed"})
  /\ pc \in {"finalize", "answer"} =>
       InPhase({"intent_ready", "plan_ready", "reviewed"}) /\ pending["final_answer"] = <<>>
  /\ pc \in {"finish", "clear"} => rev >= 0 /\ (st = NoState \/ st.phase = "finalized")

\* The exceptions of HandoffsMatch, and where they lead.
WhyInv ==
  why \in {"protocol", "blocked"} =>
    pc \in {"failing", "end"} /\ solves = 2 /\ result.status = "need_clarification"

\* What holds the baton is alone.
LEMMA BatonAlone ==
  ASSUME NEW e \in Endpoints, NEW types, Baton(e, types)
  PROVE  /\ \A f \in Endpoints : Len(pending[f]) <= 1
         /\ \A f \in Endpoints \ {e} : pending[f] = <<>>
<1>1. PICK m \in Message : pending = [NoMessages EXCEPT ![e] = <<m>>]
  BY DEF Baton
<1>2. \A f \in Endpoints : pending[f] = IF f = e THEN <<m>> ELSE <<>>
  BY <1>1 DEF NoMessages
<1>3. Len(<<m>>) = 1 /\ Len(<<>>) = 0
  OBVIOUS
<1>4. ASSUME NEW f \in Endpoints PROVE Len(pending[f]) <= 1
  <2>1. CASE f = e
    <3>1. pending[f] = <<m>>
      BY <1>2, <2>1
    <3>2. Len(pending[f]) = 1
      BY <1>3, <3>1, Zenon
    <3> QED  BY <3>2
  <2>2. CASE f # e
    BY <1>2, <1>3, <2>2
  <2> QED  BY <2>1, <2>2
<1>5. \A f \in Endpoints \ {e} : pending[f] = <<>>
  BY <1>2
<1> QED  BY <1>4, <1>5

LEMMA NoneWaits ==
  ASSUME NoBaton
  PROVE  \A f \in Endpoints : pending[f] = <<>> /\ Len(pending[f]) <= 1
<1>1. \A f \in Endpoints : pending[f] = <<>>
  BY DEF NoBaton, NoMessages
<1>2. Len(<<>>) = 0
  OBVIOUS
<1> QED  BY <1>1, <1>2

\* The method that the baton is for can consume it, and nothing is left.
LEMMA TakeBaton ==
  ASSUME NEW e \in Endpoints, NEW types, Baton(e, types), NEW phases, InPhase(phases),
         st # NoState
  PROVE  Consumable(e, types) /\ Taken(pending, e) = NoMessages
<1>1. PICK m \in Message : /\ m.type \in types /\ m.rev \in {rev, -1}
                           /\ pending = [NoMessages EXCEPT ![e] = <<m>>]
  BY DEF Baton
<1>2. pending[e] = <<m>>
  BY <1>1 DEF NoMessages
<1>3. Head(<<m>>) = m /\ Tail(<<m>>) = <<>> /\ <<m>> # <<>>
  OBVIOUS
<1>4. Consumable(e, types)
  BY <1>1, <1>2, <1>3 DEF Consumable, Fresh, InPhase
<1>5. Taken(pending, e) = NoMessages
  <2>1. Taken(pending, e) = [pending EXCEPT ![e] = <<>>]
    BY <1>2, <1>3 DEF Taken
  <2>2. [pending EXCEPT ![e] = <<>>] = NoMessages
    BY <1>1 DEF NoMessages
  <2> QED  BY <2>1, <2>2
<1> QED  BY <1>4, <1>5

\* A message to an endpoint, when none waits, is the baton.
LEMMA PassBaton ==
  ASSUME NEW to \in Endpoints, rev' \in Int, NEW types,
         NEW type \in {"planning_request", "intent_artifact", "retry_directive",
                       "search_artifact", "safety_report", "plan_candidate", "review_report",
                       "final_answer"},
         type \in types, pending' = Sent(NoMessages, to, type)
  PROVE  Baton(to, types)'
<1>1. PICK m : m = [type |-> type, rev |-> rev']
  OBVIOUS
<1>2. m \in Message /\ m.type = type /\ m.rev = rev'
  BY <1>1 DEF Message
<1>3. NoMessages[to] = <<>> /\ Append(<<>>, m) = <<m>>
  BY DEF NoMessages
<1>4. pending' = [NoMessages EXCEPT ![to] = <<m>>]
  BY <1>1, <1>3 DEF Sent
<1>5. NoMessages' = NoMessages
  BY DEF NoMessages
<1> QED  BY <1>2, <1>4, <1>5 DEF Baton

\* In one of the phases an update that all of them allow is accepted.
LEMMA Accepted ==
  ASSUME NEW phases, InPhase(phases), st # NoState, NEW a,
         \A p \in phases : ActionPhase[a] \in FollowedBy[p]
  PROVE  Allowed(a)
  BY DEF InPhase, Allowed, MayPerform

\* What an update leaves.
LEMMA NowInPhase ==
  ASSUME TypeInv, NEW a \in Actions, NEW p \in Nat, Perform(a, p), ActionPhase[a] \in Phases
  PROVE  /\ \A phases : ActionPhase[a] \in phases => InPhase(phases)'
         /\ ActionPhase[a] \in Open \cup {"finalized"} => LivePhase'
         /\ st' # NoState /\ st'.plan = p /\ rev' \in Int
  BY Performed DEF InPhase, LivePhase, NoState

\* What the hand-offs keep when nothing is sent.
LEMMA BatonKept ==
  ASSUME UNCHANGED <<pending, rev>>
  PROVE  /\ \A e, types : Baton(e, types)' <=> Baton(e, types)
         /\ NoBaton' <=> NoBaton
  BY DEF Baton, NoBaton

LEMMA PhaseKept ==
  ASSUME UNCHANGED rev, st' = st \/ st' = NoState
  PROVE  \A phases : InPhase(phases) => InPhase(phases)'
  BY DEF InPhase

LEMMA CandidateKept ==
  ASSUME UNCHANGED <<pending, rev, mode, limit, handoffs, cost>>, st' = st \/ st' = NoState,
         result'.status = result.status, result'.plan = result.plan
  PROVE  Candidate => Candidate'
<1>1. MayRunCritic' <=> MayRunCritic
  BY DEF MayRunCritic
<1> QED  BY <1>1, BatonKept, PhaseKept DEF Candidate

LEMMA HandsKept ==
  ASSUME UNCHANGED <<pending, rev, mode, limit, handoffs, cost, result>>,
         st' = st \/ st' = NoState, SolveHands,
         \A s \in Subgraph : Done(s)' <=> Done(s),
         steps'["safety_check"] = "absent" <=> steps["safety_check"] = "absent",
         job'["search"] = "recall" => job["search"] = "recall",
         job'["search"] \in {"idle", "begin"} => job["search"] \in {"idle", "begin"},
         \A s \in {"search", "safety_check", "planner"} : job'[s] # "raised" => job[s] # "raised"
  PROVE  SolveHands'
<1>1. "search" \in Subgraph /\ "safety_check" \in Subgraph /\ "planner" \in Subgraph
  BY DEF Subgraph
<1>2. ~Done("search")' =>
       /\ job'["search"] # "raised" => InPhase({"intent_ready", "retrying"})'
       /\ job'["search"] = "recall" => NoBaton'
       /\ job'["search"] \in {"idle", "begin"} => Baton("search", Commands)'
  BY <1>1, BatonKept, PhaseKept DEF SolveHands
<1>3. (Done("search") /\ steps["safety_check"] # "absent" /\ ~Done("safety_check")
         /\ job["safety_check"] # "raised")' =>
         InPhase({"search_ready"})' /\ Baton("safety", {"search_artifact"})'
  BY <1>1, BatonKept, PhaseKept DEF SolveHands
<1>4. (Done("search") /\ (steps["safety_check"] = "absent" \/ Done("safety_check"))
         /\ ~Done("planner") /\ job["planner"] # "raised")' =>
         /\ InPhase({"search_ready", "safety_ready"})'
         /\ Baton("planner", {"search_artifact", "safety_report"})'
  BY <1>1, BatonKept, PhaseKept DEF SolveHands
<1>5. Done("planner")' => Candidate'
  BY <1>1, CandidateKept DEF SolveHands
<1> QED  BY <1>2, <1>3, <1>4, <1>5 DEF SolveHands, Commands

\* A step of the code that leaves every hand-off as it is.
LEMMA HandKept ==
  ASSUME HandInv,
         UNCHANGED <<pending, rev, mode, limit, handoffs, cost, solves, review, result, steps, job>>,
         st' = st \/ st' = NoState, pc' = pc \/ (pc # "end" /\ pc' \in {"failing", "end"})
  PROVE  HandInv'
<1>1. MayRunCritic' <=> MayRunCritic
  BY DEF MayRunCritic
<1>2. SolveHands => SolveHands'
  <2>1. \A s \in Subgraph : Done(s)' <=> Done(s)
    BY DEF Done
  <2> QED  BY <2>1, HandsKept
<1>3. Candidate => Candidate'
  BY CandidateKept
<1>4. CASE pc' = pc
  <2>1. (\A e \in Endpoints : Len(pending[e]) <= 1)' /\ (pc # "end" => LivePhase)'
        /\ (pc \in {"finish", "clear"} => rev >= 0 /\ (st = NoState \/ st.phase = "finalized"))'
    BY <1>4 DEF HandInv, LivePhase, Open
  <2>2. (pc = "start" => NoBaton /\ st = NoState)'
    BY <1>4, BatonKept DEF HandInv
  <2>3. (pc = "understand" => Baton("intent", {"planning_request"}) /\ InPhase({"initialized"}))'
    BY <1>4, BatonKept, PhaseKept DEF HandInv
  <2>4. (pc = "plan_next" => Baton("supervisor", {"intent_artifact"}) /\ InPhase({"intent_ready"}))'
    BY <1>4, BatonKept, PhaseKept DEF HandInv
  <2>5. (pc = "solve" => Baton("search", Commands) /\ InPhase({"intent_ready", "retrying"}))'
    BY <1>4, BatonKept, PhaseKept DEF HandInv, Commands
  <2>6. (pc \in {"wave", "gather"} => SolveHands)' /\ (pc \in {"solved", "review", "critic"} => Candidate)'
    BY <1>2, <1>3, <1>4 DEF HandInv
  <2>7. /\ (pc \in {"review", "critic"} => solves = 2 \/ result.status # "need_clarification")'
        /\ (pc = "critic" => MayRunCritic)'
    BY <1>1, <1>4 DEF HandInv
  <2>8. (pc \in {"decide", "soft_retry"} =>
           /\ InPhase({"plan_ready", "reviewed"}) /\ pending["final_answer"] = <<>>
           /\ solves = 1 /\ review # NoReview =>
                Baton("supervisor", {"review_report"}) /\ InPhase({"reviewed"}))'
    BY <1>4, BatonKept, PhaseKept DEF HandInv
  <2>9. (pc \in {"finalize", "answer"} =>
           InPhase({"intent_ready", "plan_ready", "reviewed"}) /\ pending["final_answer"] = <<>>)'
    BY <1>4, PhaseKept DEF HandInv
  <2> QED  BY <2>1, <2>2, <2>3, <2>4, <2>5, <2>6, <2>7, <2>8, <2>9 DEF HandInv
<1>5. CASE pc' # pc
  <2>1. (\A e \in Endpoints : Len(pending[e]) <= 1)'
    BY DEF HandInv
  <2>2. (pc # "end" => LivePhase)'
    <3>1. pc # "end"
      BY <1>5
    <3> QED  BY <3>1 DEF HandInv, LivePhase, Open
  <2> QED  BY <1>5, <2>1, <2>2 DEF HandInv
<1> QED  BY <1>4, <1>5

LEMMA WhyKept ==
  ASSUME WhyInv, why' \in {why, "expired", "fault", "agent", "shared_state"},
         pc \in {"failing", "end"} => pc' \in {"failing", "end"} /\ UNCHANGED <<solves, result>>
  PROVE  WhyInv'
  BY DEF WhyInv

LEMMA HandInit == Init => HandInv /\ WhyInv
<1> SUFFICES ASSUME Init PROVE HandInv /\ WhyInv
  OBVIOUS
<1>1. NoBaton
  BY DEF Init, NoBaton, NoMessages
<1>2. \A e \in Endpoints : Len(pending[e]) <= 1
  BY <1>1, NoneWaits
<1> QED  BY <1>1, <1>2 DEF Init, HandInv, WhyInv, InPhase, LivePhase

\* One message sent into empty queues, at the end of the method.
LEMMA HandedOver ==
  ASSUME HandInv, NEW to \in Endpoints, NEW types, Baton(to, types)'
  PROVE  /\ \A e \in Endpoints : Len(pending'[e]) <= 1
         /\ \A f \in Endpoints \ {to} : pending'[f] = <<>>
<1>1. PICK m : pending' = [NoMessages EXCEPT ![to] = <<m>>]
  BY DEF Baton, NoMessages
<1>2. \A f \in Endpoints : pending'[f] = IF f = to THEN <<m>> ELSE <<>>
  BY <1>1 DEF NoMessages
<1>3. Len(<<m>>) = 1 /\ Len(<<>>) = 0
  OBVIOUS
<1>4. ASSUME NEW f \in Endpoints PROVE Len(pending'[f]) <= 1
  <2>1. CASE f = to
    <3>1. pending'[f] = <<m>>
      BY <1>2, <2>1
    <3>2. Len(pending'[f]) = 1
      BY <1>3, <3>1, Zenon
    <3> QED  BY <3>2
  <2>2. CASE f # to
    BY <1>2, <1>3, <2>2
  <2> QED  BY <2>1, <2>2
<1> QED  BY <1>2, <1>4

\* From the request to the first wave, and what no method of the workflow touches.
LEMMA HandBefore ==
  ASSUME TypeInv, StepsInv, ReviewInv, HandInv, WhyInv,
         Start \/ Understand \/ PlanNext \/ Solve \/ Wave
  PROVE  HandInv' /\ WhyInv'
<1>1. CASE Start
  <2>1. NoBaton /\ pc = "start"
    BY <1>1 DEF Start, HandInv
  <2>2. pending' = [pending EXCEPT !["intent"] = Append(@, [type |-> "planning_request", rev |-> -1])]
    BY <1>1 DEF Start
  <2>3. [type |-> "planning_request", rev |-> -1] \in Message
    BY DEF Message
  <2>4. PICK m \in Message : m.type = "planning_request" /\ m.rev = -1
                             /\ pending' = [pending EXCEPT !["intent"] = Append(@, m)]
    BY <2>2, <2>3
  <2>5. pending' = [NoMessages EXCEPT !["intent"] = <<m>>]
    BY <2>1, <2>4 DEF NoBaton, NoMessages, Endpoints
  <2>6. Baton("intent", {"planning_request"})'
    BY <2>4, <2>5 DEF Baton
  <2>7. InPhase({"initialized"})' /\ LivePhase'
    BY <1>1 DEF Start, InPhase, LivePhase, Open
  <2>8. \A e \in Endpoints : Len(pending'[e]) <= 1
    BY <2>6, HandedOver DEF Endpoints
  <2>9. pc' = "understand" /\ why' = why
    BY <1>1 DEF Start
  <2> QED  BY <2>1, <2>6, <2>7, <2>8, <2>9, WhyKept DEF HandInv
<1>2. CASE Understand
  <2>1. pc = "understand" /\ st # NoState
    BY <1>2 DEF Understand
  <2>2. Baton("intent", {"planning_request"}) /\ InPhase({"initialized"})
    BY <2>1 DEF HandInv
  <2>3. Consumable("intent", {"planning_request"}) /\ Taken(pending, "intent") = NoMessages
    BY <2>1, <2>2, TakeBaton DEF Endpoints
  <2>4. Allowed("intent_analyzed")
    BY <2>1, <2>2, Accepted, PhaseTable, FollowTable
  <2>5. /\ Perform("intent_analyzed", 0)
        /\ pending' = Sent(Taken(pending, "intent"), "supervisor", "intent_artifact")
        /\ pc' \in {"plan_next", "finalize"} /\ why' = why
    BY <1>2, <2>3, <2>4, RouteTable DEF Understand
  <2>6. InPhase({"intent_ready"})' /\ LivePhase' /\ rev' \in Int
        /\ InPhase({"intent_ready", "plan_ready", "reviewed"})'
    <3>1. ActionPhase["intent_analyzed"] = "intent_ready" /\ "intent_analyzed" \in Actions
      BY PhaseTable DEF Actions
    <3> QED  BY <2>5, <3>1, NowInPhase DEF Phases, LivePhase, Open
  <2>7. Baton("supervisor", {"intent_artifact"})'
    BY <2>3, <2>5, <2>6, PassBaton DEF Endpoints
  <2>8. (\A e \in Endpoints : Len(pending'[e]) <= 1) /\ pending'["final_answer"] = <<>>
    BY <2>7, HandedOver DEF Endpoints
  <2> QED  BY <2>1, <2>5, <2>6, <2>7, <2>8, WhyKept DEF HandInv
<1>3. CASE PlanNext
  <2>1. pc = "plan_next" /\ st # NoState
    BY <1>3 DEF PlanNext
  <2>2. Baton("supervisor", {"intent_artifact"}) /\ InPhase({"intent_ready"})
    BY <2>1 DEF HandInv
  <2>3. Consumable("supervisor", {"intent_artifact"}) /\ Taken(pending, "supervisor") = NoMessages
    BY <2>1, <2>2, TakeBaton DEF Endpoints
  <2>4. /\ pending' = Sent(Taken(pending, "supervisor"), "search", "intent_artifact")
        /\ pc' = "solve" /\ UNCHANGED <<st, rev, why>>
    BY <1>3, <2>3, RouteTable DEF PlanNext
  <2>5. Baton("search", Commands)'
    <3>1. Baton("search", {"intent_artifact", "retry_directive"})'
      BY <2>3, <2>4, PassBaton DEF Endpoints, TypeInv
    <3> QED  BY <3>1 DEF Commands
  <2>6. InPhase({"intent_ready", "retrying"})' /\ LivePhase'
    BY <2>2, <2>4 DEF InPhase, LivePhase, Open
  <2>7. \A e \in Endpoints : Len(pending'[e]) <= 1
    <3>1. Baton("search", {"intent_artifact", "retry_directive"})'
      BY <2>5 DEF Commands
    <3> QED  BY <3>1, HandedOver DEF Endpoints
  <2> QED  BY <2>1, <2>4, <2>5, <2>6, <2>7, WhyKept DEF HandInv
<1>4. CASE Solve
  <2>1. /\ pc = "solve" /\ pc' = "wave"
        /\ UNCHANGED <<pending, st, rev, mode, limit, handoffs, cost, result, job, why>>
    BY <1>4 DEF Solve, settings
  <2>2. Baton("search", Commands) /\ InPhase({"intent_ready", "retrying"})
    BY <2>1 DEF HandInv
  <2>3. Baton("search", Commands)' /\ InPhase({"intent_ready", "retrying"})'
        /\ LivePhase'
    BY <2>1, <2>2 DEF Baton, InPhase, LivePhase, Open, Commands
  <2>4. ~Done("search")' /\ ~Done("planner")' /\ job'["search"] = "idle"
    <3>1. job["search"] = "idle" /\ job["planner"] = "idle"
          /\ steps["search"] # "absent" /\ steps["planner"] # "absent"
      BY <2>1 DEF StepsInv, PlanShape, InWork, Subgraph
    <3>2. steps'["search"] \in {"pending", "retrying"} /\ steps'["planner"] \in {"pending", "retrying"}
      BY <1>4, <3>1 DEF Solve, InPlan, Subgraph, StepIds
    <3> QED  BY <2>1, <3>1, <3>2 DEF Done
  <2>5. SolveHands'
    BY <2>3, <2>4 DEF SolveHands, Commands
  <2>6. \A e \in Endpoints : Len(pending'[e]) <= 1
    BY <2>1 DEF HandInv
  <2> QED  BY <2>1, <2>3, <2>5, <2>6, WhyKept DEF HandInv
<1>5. CASE Wave
  <2>1. WaveReady # {}
    <3>1. pc = "wave" /\ Waiting # {}
      BY <1>5 DEF Wave
    <3>2. /\ PlanShape
          /\ \A s \in Subgraph : steps[s] \in {"absent", "pending", "retrying", "succeeded"}
      BY <3>1 DEF StepsInv, InWork
    <3>3. \A s \in Subgraph : s \in Waiting <=> steps[s] \in {"pending", "retrying"}
      BY DEF Waiting, InPlan
    <3>4. "intent" \in StepIds /\ "search" \in StepIds /\ "weather" \in StepIds
          /\ "safety_check" \in StepIds /\ "planner" \in StepIds
      BY DEF StepIds
    <3>5. CASE "search" \in Waiting
      <4>1. DependsOn["search"] = {"intent"}
        BY <3>4 DEF DependsOn
      <4>2. "search" \in WaveReady
        BY <3>2, <3>5, <4>1 DEF WaveReady, PlanShape
      <4> QED  BY <4>2
    <3>6. CASE "search" \notin Waiting /\ "weather" \in Waiting
      <4>1. DependsOn["weather"] = {"intent"}
        BY <3>4 DEF DependsOn
      <4>2. "weather" \in WaveReady
        BY <3>2, <3>6, <4>1 DEF WaveReady, PlanShape
      <4> QED  BY <4>2
    <3>7. CASE "search" \notin Waiting /\ "weather" \notin Waiting /\ "safety_check" \in Waiting
      <4>1. DependsOn["safety_check"] =
              {"intent", "search"} \cup (IF graph.weather THEN {"weather"} ELSE {})
        BY <3>4 DEF DependsOn
      <4>2. steps["search"] = "succeeded" /\ (graph.weather => steps["weather"] = "succeeded")
        BY <3>2, <3>3, <3>7 DEF PlanShape, Subgraph
      <4>3. \A d \in DependsOn["safety_check"] : steps[d] = "succeeded"
        BY <3>2, <4>1, <4>2 DEF PlanShape
      <4>4. "safety_check" \in WaveReady
        BY <3>7, <4>3 DEF WaveReady
      <4> QED  BY <4>4
    <3>8. CASE "search" \notin Waiting /\ "weather" \notin Waiting /\ "safety_check" \notin Waiting
      <4>1. DependsOn["planner"] = {"search"} \cup (IF graph.safety THEN {"safety_check"}
                                                   ELSE IF graph.weather THEN {"weather"} ELSE {})
        BY <3>4 DEF DependsOn
      <4>2. /\ steps["search"] = "succeeded" /\ (graph.weather => steps["weather"] = "succeeded")
            /\ graph.safety => steps["safety_check"] = "succeeded"
        BY <3>2, <3>3, <3>8 DEF PlanShape, Subgraph
      <4>3. \A d \in DependsOn["planner"] : steps[d] = "succeeded"
        BY <4>1, <4>2
      <4>4. "planner" \in Waiting
        BY <3>1, <3>8, WaveSteps DEF Subgraph
      <4>5. "planner" \in WaveReady
        BY <4>3, <4>4 DEF WaveReady
      <4> QED  BY <4>5
    <3> QED  BY <3>5, <3>6, <3>7, <3>8
  <2>2. /\ pc = "wave" /\ pc' = "gather"
        /\ steps' = [s \in StepIds |-> IF s \in WaveReady THEN "running" ELSE steps[s]]
        /\ job' = [s \in Subgraph |-> IF s \in WaveReady THEN "begin" ELSE "idle"]
        /\ UNCHANGED <<pending, st, rev, mode, limit, handoffs, cost, result, why>>
    BY <1>5, <2>1 DEF Wave, settings, trace
  <2>3. \A s \in Subgraph : job[s] = "idle"
    BY <2>2 DEF StepsInv
  <2>4. \A s \in Subgraph : Done(s)' <=> Done(s)
    BY <2>2, <2>3, WaveSteps DEF Done, Subgraph, StepIds
  <2>5. steps'["safety_check"] = "absent" <=> steps["safety_check"] = "absent"
    BY <2>2, WaveSteps DEF StepIds
  <2>6. job'["search"] \in {"idle", "begin"} /\ job["search"] = "idle"
        /\ job["safety_check"] # "raised" /\ job["planner"] # "raised"
    BY <2>2, <2>3 DEF Subgraph
  <2>7. SolveHands
    BY <2>2 DEF HandInv
  <2>8. SolveHands'
    BY <2>2, <2>4, <2>5, <2>6, <2>7, HandsKept
  <2>9. LivePhase' /\ \A e \in Endpoints : Len(pending'[e]) <= 1
    BY <2>2 DEF HandInv, InPhase, LivePhase, Open
  <2> QED  BY <2>2, <2>8, <2>9, WhyKept DEF HandInv
<1> QED  BY <1>1, <1>2, <1>3, <1>4, <1>5

\* A step of the gather leaves HandInv if it leaves the hands of the solve.
LEMMA InGather ==
  ASSUME HandInv, pc = "gather", pc' = "gather", SolveHands',
         LivePhase', \A e \in Endpoints : Len(pending'[e]) <= 1
  PROVE  HandInv'
  BY DEF HandInv

LEMMA HandInvShort == HandInv => \A e \in Endpoints : Len(pending[e]) <= 1
  BY DEF HandInv

\* A coroutine that ends without a hand-off.
LEMMA JobEnds ==
  ASSUME TypeInv, StepsInv, HandInv, pc = "gather", pc' = "gather",
         UNCHANGED <<pending, rev, st, mode, limit, handoffs, cost, result, steps>>,
         NEW s \in Subgraph, NEW how \in {"raised", "done"}, job' = [job EXCEPT ![s] = how],
         job[s] \in {"begin", "recall"}, how = "done" => s = "weather"
  PROVE  HandInv'
<1>1. \A z \in Subgraph : job'[z] = IF z = s THEN how ELSE job[z]
  BY DEF TypeInv
<1>2. "search" \in Subgraph /\ "safety_check" \in Subgraph /\ "planner" \in Subgraph
  BY DEF Subgraph
<1>3. \A z \in {"search", "safety_check", "planner"} : Done(z)' <=> Done(z)
  BY <1>1, <1>2 DEF Done
<1>4. Candidate => Candidate'
  BY CandidateKept
<1>5. SolveHands
  BY DEF HandInv
<1>6. UNCHANGED <<pending, rev>> /\ st' = st /\ steps' = steps
  OBVIOUS
<1>7. ~Done("search")' =>
       /\ job'["search"] # "raised" => InPhase({"intent_ready", "retrying"})'
       /\ job'["search"] = "recall" => NoBaton'
       /\ job'["search"] \in {"idle", "begin"} => Baton("search", Commands)'
  BY <1>1, <1>2, <1>3, <1>5, <1>6, BatonKept, PhaseKept DEF SolveHands
<1>8. (Done("search") /\ steps["safety_check"] # "absent" /\ ~Done("safety_check")
         /\ job["safety_check"] # "raised")' =>
         InPhase({"search_ready"})' /\ Baton("safety", {"search_artifact"})'
  BY <1>1, <1>2, <1>3, <1>5, <1>6, BatonKept, PhaseKept DEF SolveHands
<1>9. (Done("search") /\ (steps["safety_check"] = "absent" \/ Done("safety_check"))
         /\ ~Done("planner") /\ job["planner"] # "raised")' =>
         /\ InPhase({"search_ready", "safety_ready"})'
         /\ Baton("planner", {"search_artifact", "safety_report"})'
  BY <1>1, <1>2, <1>3, <1>5, <1>6, BatonKept, PhaseKept DEF SolveHands
<1>10. SolveHands'
  BY <1>3, <1>4, <1>5, <1>7, <1>8, <1>9 DEF SolveHands, Commands
<1>11. LivePhase' /\ \A e \in Endpoints : Len(pending'[e]) <= 1
  BY <1>6 DEF HandInv, InPhase, LivePhase, Open
<1> QED  BY <1>10, <1>11, InGather

\* What a running step finds done.
LEMMA StepBefore ==
  ASSUME TypeInv, StepsInv, pc = "gather"
  PROVE  /\ job["safety_check"] = "begin" =>
              /\ Done("search") /\ steps["safety_check"] # "absent"
              /\ ~Done("safety_check") /\ ~Done("planner")
         /\ job["planner"] = "begin" =>
              /\ Done("search") /\ ~Done("planner")
              /\ steps["safety_check"] \in {"absent", "succeeded"}
<1>1. \A s \in Subgraph : job[s] = "idle" <=> steps[s] # "running"
  BY DEF StepsInv
<1>2. "search" \in Subgraph /\ "planner" \in Subgraph /\ "safety_check" \in Subgraph
  BY DEF Subgraph
<1>3. InOrder(steps) /\ PlanShape
  BY DEF StepsInv, InWork
<1>4. graph.safety \in BOOLEAN
  BY DEF TypeInv
<1> QED  BY <1>1, <1>2, <1>3, <1>4 DEF InOrder, OnItsWay, Done, PlanShape

\* A coroutine whose update is taken and whose reply is lost.
LEMMA JobLost ==
  ASSUME TypeInv, StepsInv, HandInv, pc = "gather", pc' = "gather", LivePhase',
         UNCHANGED <<pending, steps>>, NEW s \in Subgraph \ {"weather"},
         job' = [job EXCEPT ![s] = "raised"], job[s] \in {"begin", "recall"}
  PROVE  HandInv'
<1>1. \A z \in Subgraph : job'[z] = IF z = s THEN "raised" ELSE job[z]
  BY DEF TypeInv
<1>2. "search" \in Subgraph /\ "safety_check" \in Subgraph /\ "planner" \in Subgraph
  BY DEF Subgraph
<1>3. CASE s = "search"
  <2>1. ~Done("search")' /\ ~Done("planner")'
    BY <1>1, <1>2, <1>3, SearchFirst DEF Done
  <2> QED  BY <1>1, <1>2, <1>3, <2>1, InGather, HandInvShort DEF SolveHands
<1>4. ASSUME s # "search" PROVE job[s] = "begin"
  BY <1>4 DEF StepsInv
<1>5. CASE s = "safety_check"
  <2>1. Done("search")' /\ ~Done("safety_check")' /\ ~Done("planner")'
        /\ steps'["safety_check"] # "absent"
    BY <1>1, <1>2, <1>4, <1>5, StepBefore DEF Done
  <2> QED  BY <1>1, <1>2, <1>5, <2>1, InGather, HandInvShort DEF SolveHands
<1>6. CASE s = "planner"
  <2>1. Done("search")' /\ ~Done("planner")'
        /\ (steps'["safety_check"] = "absent" \/ Done("safety_check")')
    BY <1>1, <1>2, <1>4, <1>6, StepBefore DEF Done
  <2> QED  BY <1>1, <1>2, <1>6, <2>1, InGather, HandInvShort DEF SolveHands
<1> QED  BY <1>3, <1>5, <1>6 DEF Subgraph

LEMMA HandSolve ==
  ASSUME TypeInv, StepsInv, ReviewInv, HandInv, WhyInv,
         \/ SearchBegin \/ Recover \/ FollowDecision \/ SearchEnd \/ RunWeather \/ CheckSafety
         \/ RunPlanner \/ Gather
  PROVE  HandInv' /\ WhyInv'
<1>0. "search" \in Subgraph /\ "safety_check" \in Subgraph /\ "planner" \in Subgraph
  BY DEF Subgraph
<1>1. CASE SearchBegin
  <2>1. /\ pc = "gather" /\ job["search"] = "begin" /\ st # NoState
        /\ UNCHANGED <<pc, st, rev, steps>>
    BY <1>1 DEF SearchBegin
  <2>2. SolveHands /\ ~Done("search") /\ ~Done("planner")
    BY <2>1, SearchFirst DEF HandInv
  <2>3. Baton("search", Commands) /\ InPhase({"intent_ready", "retrying"})
    BY <2>1, <2>2 DEF SolveHands
  <2>4. Consumable("search", Commands) /\ Taken(pending, "search") = NoMessages
    BY <2>1, <2>3, TakeBaton DEF Endpoints
  <2>5. pending' = NoMessages /\ job' = [job EXCEPT !["search"] = "recall"] /\ why' = why
    BY <1>1, <2>4 DEF SearchBegin, EndJob, Commands
  <2>6. job'["search"] = "recall" /\ job'["planner"] = job["planner"]
    BY <1>0, <2>5 DEF TypeInv
  <2>7. ~Done("search")' /\ ~Done("planner")'
    BY <2>1, <2>2, <2>6 DEF Done
  <2>8. InPhase({"intent_ready", "retrying"})' /\ LivePhase'
    BY <2>1, <2>3 DEF InPhase, LivePhase, Open
  <2>9. NoBaton' /\ \A e \in Endpoints : Len(pending'[e]) <= 1
    <3>1. NoBaton'
      BY <2>5 DEF NoBaton, NoMessages
    <3>2. \A e \in Endpoints : pending'[e] = <<>>
      BY <2>5 DEF NoMessages
    <3>3. Len(<<>>) = 0
      OBVIOUS
    <3> QED  BY <3>1, <3>2, <3>3
  <2>10. SolveHands'
    BY <2>6, <2>7, <2>8, <2>9 DEF SolveHands
  <2> QED  BY <2>1, <2>5, <2>8, <2>9, <2>10, InGather, WhyKept
<1>2. CASE Recover
  <2>1. /\ pc = "gather" /\ job["search"] = "recall" /\ st # NoState
        /\ UNCHANGED <<pc, pending, steps>>
    BY <1>2 DEF Recover
  <2>2. SolveHands /\ ~Done("search") /\ ~Done("planner")
    BY <2>1, SearchFirst DEF HandInv
  <2>3. NoBaton /\ InPhase({"intent_ready", "retrying"})
    BY <2>1, <2>2 DEF SolveHands
  <2>4. pending["supervisor"] = <<>> /\ \A e \in Endpoints : Len(pending[e]) <= 1
    BY <2>3, NoneWaits DEF Endpoints
  <2>5. Allowed("recovery_applied")
    BY <2>1, <2>3, Accepted, PhaseTable, FollowTable
  <2>6. Perform("recovery_applied", st.plan) /\ UNCHANGED <<job, why>>
    BY <1>2, <2>4, <2>5, RouteTable DEF Recover
  <2>7. InPhase({"intent_ready", "retrying"})' /\ LivePhase'
    <3>1. ActionPhase["recovery_applied"] = "retrying" /\ "recovery_applied" \in Actions
          /\ st.plan \in Nat
      BY PhaseTable DEF Actions, TypeInv, State
    <3> QED  BY <2>6, <3>1, NowInPhase DEF Phases, LivePhase, Open
  <2>8. ~Done("search")' /\ ~Done("planner")' /\ NoBaton'
    BY <2>1, <2>2, <2>3, <2>6 DEF Done, NoBaton
  <2>9. SolveHands'
    BY <2>1, <2>6, <2>7, <2>8 DEF SolveHands
  <2> QED  BY <2>1, <2>4, <2>6, <2>7, <2>9, InGather, WhyKept
<1>3. CASE FollowDecision
  <2>1. /\ UNCHANGED <<pending, rev, mode, limit, handoffs, cost, solves, review, result, steps, job>>
        /\ st' = st /\ pc' = pc /\ why' = why
    BY <1>3 DEF FollowDecision, settings, trace
  <2> QED  BY <2>1, HandKept, WhyKept
<1>4. CASE SearchEnd
  <2>1. /\ pc = "gather" /\ job["search"] = "recall" /\ st # NoState
        /\ UNCHANGED <<pc, steps>>
    BY <1>4 DEF SearchEnd
  <2>2. SolveHands /\ ~Done("search") /\ ~Done("planner") /\ ~Done("safety_check")
    BY <2>1, SearchFirst DEF HandInv
  <2>3. NoBaton /\ InPhase({"intent_ready", "retrying"})
    BY <2>1, <2>2 DEF SolveHands
  <2>4. Allowed("search_completed")
    BY <2>1, <2>3, Accepted, PhaseTable, FollowTable
  <2>5. PICK to : to = IF steps["safety_check"] # "absent" THEN "safety" ELSE "planner"
    OBVIOUS
  <2>6. Authorized("search", to, "artifact", "search_artifact") /\ to \in Endpoints
    BY <2>5, RouteTable DEF Endpoints
  <2>7. /\ Perform("search_completed", st.plan) /\ pending' = Sent(pending, to, "search_artifact")
        /\ job' = [job EXCEPT !["search"] = "done"] /\ why' = why
    BY <1>4, <2>4, <2>5, <2>6 DEF SearchEnd, EndJob
  <2>8. InPhase({"search_ready"})' /\ InPhase({"search_ready", "safety_ready"})'
        /\ LivePhase' /\ rev' \in Int
    <3>1. ActionPhase["search_completed"] = "search_ready" /\ "search_completed" \in Actions
          /\ st.plan \in Nat
      BY PhaseTable DEF Actions, TypeInv, State
    <3> QED  BY <2>7, <3>1, NowInPhase DEF Phases, LivePhase, Open
  <2>9. Baton(to, {"search_artifact"})' /\ Baton(to, {"search_artifact", "safety_report"})'
    BY <2>3, <2>6, <2>7, <2>8, PassBaton DEF NoBaton
  <2>10. \A e \in Endpoints : Len(pending'[e]) <= 1
    BY <2>6, <2>9, HandedOver
  <2>11. Done("search")' /\ ~Done("planner")' /\ ~Done("safety_check")'
    <3>1. job'["search"] = "done" /\ job'["planner"] = job["planner"]
          /\ job'["safety_check"] = job["safety_check"]
      BY <1>0, <2>7 DEF TypeInv
    <3> QED  BY <2>1, <2>2, <3>1 DEF Done
  <2>12. SolveHands'
    BY <2>1, <2>5, <2>8, <2>9, <2>11 DEF SolveHands
  <2> QED  BY <2>1, <2>7, <2>8, <2>10, <2>12, InGather, WhyKept
<1>5. CASE RunWeather
  <2>1. /\ pc = "gather" /\ pc' = "gather" /\ job["weather"] = "begin" /\ why' \in {why, "agent"}
        /\ UNCHANGED <<pending, rev, st, mode, limit, handoffs, cost, result, steps>>
    BY <1>5 DEF RunWeather, settings, trace
  <2>2. PICK how \in {"raised", "done"} : job' = [job EXCEPT !["weather"] = how]
    BY <1>5 DEF RunWeather, EndJob
  <2> QED  BY <2>1, <2>2, JobEnds, WhyKept DEF Subgraph
<1>6. CASE CheckSafety
  <2>1. /\ pc = "gather" /\ job["safety_check"] = "begin" /\ st # NoState
        /\ UNCHANGED <<pc, steps>>
    BY <1>6 DEF CheckSafety
  <2>2. SolveHands /\ Done("search") /\ steps["safety_check"] # "absent"
        /\ ~Done("safety_check") /\ ~Done("planner")
    BY <2>1, StepBefore DEF HandInv
  <2>3. Baton("safety", {"search_artifact"}) /\ InPhase({"search_ready"})
    BY <2>1, <2>2 DEF SolveHands
  <2>4. Consumable("safety", {"search_artifact"}) /\ Taken(pending, "safety") = NoMessages
    BY <2>1, <2>3, TakeBaton DEF Endpoints
  <2>5. Allowed("safety_checked")
    BY <2>1, <2>3, Accepted, PhaseTable, FollowTable
  <2>6. /\ Perform("safety_checked", st.plan)
        /\ pending' = Sent(NoMessages, "planner", "safety_report")
        /\ job' = [job EXCEPT !["safety_check"] = "done"] /\ why' = why
    BY <1>6, <2>4, <2>5, RouteTable DEF CheckSafety, EndJob
  <2>7. InPhase({"search_ready", "safety_ready"})' /\ LivePhase'
        /\ rev' \in Int
    <3>1. ActionPhase["safety_checked"] = "safety_ready" /\ "safety_checked" \in Actions
          /\ st.plan \in Nat
      BY PhaseTable DEF Actions, TypeInv, State
    <3> QED  BY <2>6, <3>1, NowInPhase DEF Phases, LivePhase, Open
  <2>8. Baton("planner", {"search_artifact", "safety_report"})'
    BY <2>6, <2>7, PassBaton DEF Endpoints
  <2>9. \A e \in Endpoints : Len(pending'[e]) <= 1
    BY <2>8, HandedOver DEF Endpoints
  <2>10. Done("search")' /\ Done("safety_check")' /\ ~Done("planner")'
    <3>1. job'["safety_check"] = "done" /\ job'["planner"] = job["planner"]
          /\ job'["search"] = job["search"]
      BY <1>0, <2>6 DEF TypeInv
    <3> QED  BY <2>1, <2>2, <3>1 DEF Done
  <2>11. SolveHands'
    BY <2>7, <2>8, <2>10 DEF SolveHands
  <2> QED  BY <2>1, <2>6, <2>7, <2>9, <2>11, InGather, WhyKept
<1>7. CASE RunPlanner
  <2>1. /\ pc = "gather" /\ job["planner"] = "begin" /\ st # NoState
        /\ UNCHANGED <<pc, steps, mode, limit, cost>>
    BY <1>7 DEF RunPlanner, settings
  <2>2. SolveHands /\ Done("search") /\ ~Done("planner")
        /\ (steps["safety_check"] = "absent" \/ Done("safety_check"))
    BY <2>1, StepBefore DEF HandInv, Done
  <2>3. Baton("planner", {"search_artifact", "safety_report"})
        /\ InPhase({"search_ready", "safety_ready"})
    BY <2>1, <2>2 DEF SolveHands
  <2>4. Consumable("planner", {"search_artifact", "safety_report"})
        /\ Taken(pending, "planner") = NoMessages
    BY <2>1, <2>3, TakeBaton DEF Endpoints
  <2>5. Allowed("plan_completed")
    BY <2>1, <2>3, Accepted, PhaseTable, FollowTable
  <2>6. ASSUME NEW how \in {"raised", "done"}, job' = [job EXCEPT !["planner"] = how]
        PROVE  /\ Done("search")' /\ (steps'["safety_check"] = "absent" \/ Done("safety_check")')
               /\ job'["planner"] = how /\ (Done("planner")' <=> how = "done")
    <3>1. job'["planner"] = how /\ job'["search"] = job["search"]
          /\ job'["safety_check"] = job["safety_check"]
      BY <1>0, <2>6 DEF TypeInv
    <3> QED  BY <2>1, <2>2, <3>1 DEF Done
  <2>7. CASE job' = [job EXCEPT !["planner"] = "raised"] /\ why' = "agent"
             /\ pending' = Taken(pending, "planner") /\ UNCHANGED <<st, rev>>
    <3>1. InPhase({"search_ready", "safety_ready"})' /\ LivePhase'
      BY <2>3, <2>7 DEF InPhase, LivePhase, Open
    <3>2. SolveHands'
      BY <2>6, <2>7, <3>1 DEF SolveHands
    <3>3. \A e \in Endpoints : Len(pending'[e]) <= 1
      <4>1. \A e \in Endpoints : pending'[e] = <<>>
        BY <2>4, <2>7 DEF NoMessages
      <4>2. Len(<<>>) = 0
        OBVIOUS
      <4> QED  BY <4>1, <4>2
    <3> QED  BY <2>1, <2>7, <3>1, <3>2, <3>3, InGather, WhyKept
  <2>8. CASE \E ps :
               LET critic == ps # "need_clarification" /\ MayRunCritic
               IN  /\ result' = [status |-> ps, plan |-> solves, early |-> FALSE]
                   /\ Perform("plan_completed", solves)
                   /\ pending' = Sent(Taken(pending, "planner"),
                                      IF critic THEN "critic" ELSE "supervisor", "plan_candidate")
                   /\ handoffs' = handoffs + 1
                   /\ job' = [job EXCEPT !["planner"] = "done"] /\ UNCHANGED why
    <3>1. PICK ps : /\ result' = [status |-> ps, plan |-> solves, early |-> FALSE]
                    /\ Perform("plan_completed", solves)
                    /\ pending' = Sent(NoMessages, IF ps # "need_clarification" /\ MayRunCritic
                                                   THEN "critic" ELSE "supervisor", "plan_candidate")
                    /\ handoffs' = handoffs + 1
                    /\ job' = [job EXCEPT !["planner"] = "done"] /\ UNCHANGED why
      BY <2>4, <2>8
    <3>2. /\ InPhase({"plan_ready"})' /\ LivePhase' /\ rev' \in Int
          /\ st'.plan = solves
      <4>1. ActionPhase["plan_completed"] = "plan_ready" /\ "plan_completed" \in Actions
            /\ solves \in Nat
        BY PhaseTable DEF Actions, TypeInv
      <4> QED  BY <3>1, <4>1, NowInPhase DEF Phases, LivePhase, Open
    <3>3. PICK to : to = IF ps # "need_clarification" /\ MayRunCritic THEN "critic" ELSE "supervisor"
      OBVIOUS
    <3>4. to \in Endpoints /\ pending' = Sent(NoMessages, to, "plan_candidate")
      BY <3>1, <3>3 DEF Endpoints
    <3>5. Baton(to, {"plan_candidate"})'
      BY <3>2, <3>4, PassBaton
    <3>6. \A e \in Endpoints : Len(pending'[e]) <= 1
      BY <3>4, <3>5, HandedOver
    <3>7. ~MayRunCritic => ~MayRunCritic'
      BY <2>1, <3>1, LimitsAssumption DEF MayRunCritic, TypeInv
    <3>8. result'.status = ps /\ result'.plan = solves
      BY <3>1
    <3>9. Candidate'
      BY <3>2, <3>3, <3>5, <3>7, <3>8 DEF Candidate
    <3>10. SolveHands'
      BY <2>6, <3>1, <3>9 DEF SolveHands
    <3> QED  BY <2>1, <3>1, <3>2, <3>6, <3>10, InGather, WhyKept
  <2>9. \/ job' = [job EXCEPT !["planner"] = "raised"] /\ why' = "agent"
            /\ pending' = Taken(pending, "planner") /\ UNCHANGED <<st, rev>>
        \/ \E matrixOk, optimizerOk, feasible \in BOOLEAN :
             LET ps     == PlannerStatus(recall.asks, matrixOk, optimizerOk, feasible)
                 critic == ps # "need_clarification" /\ MayRunCritic
             IN  /\ result' = [status |-> ps, plan |-> solves, early |-> FALSE]
                 /\ Perform("plan_completed", solves)
                 /\ pending' = Sent(Taken(pending, "planner"),
                                    IF critic THEN "critic" ELSE "supervisor", "plan_candidate")
                 /\ handoffs' = handoffs + 1
                 /\ job' = [job EXCEPT !["planner"] = "done"] /\ UNCHANGED why
    BY <1>7, <2>4, <2>5 DEF RunPlanner, EndJob
  <2> QED  BY <2>7, <2>8, <2>9
<1>8. CASE Gather
  <2> DEFINE failed == {s \in Running : job[s] = "raised"}
  <2>1. /\ steps' = [s \in StepIds |->
                      IF s \in Running THEN (IF s \in failed THEN "failed" ELSE "succeeded")
                      ELSE IF failed # {} /\ s \in Waiting THEN "blocked" ELSE steps[s]]
        /\ pc = "gather"
        /\ pc' = IF failed # {} THEN "failing" ELSE IF Waiting # {} THEN "wave" ELSE "solved"
        /\ job' = [s \in Subgraph |-> "idle"]
        /\ UNCHANGED <<pending, st, rev, mode, limit, handoffs, cost, result, why>>
        /\ \A s \in Running : job[s] \in {"done", "raised"}
    BY <1>8 DEF Gather, WaveEnded, WaveResult, settings, trace
  <2>2. LivePhase' /\ \A e \in Endpoints : Len(pending'[e]) <= 1
    BY <2>1 DEF HandInv, InPhase, LivePhase, Open
  <2>3. CASE failed # {}
    BY <2>1, <2>2, <2>3, WhyKept DEF HandInv
  <2>4. CASE failed = {}
    <3>1. /\ steps' = [s \in StepIds |-> IF s \in Running THEN "succeeded" ELSE steps[s]]
          /\ pc' = IF Waiting # {} THEN "wave" ELSE "solved"
      BY <2>1, <2>4
    <3>2. \A s \in Running : job[s] = "done"
      BY <2>1, <2>4
    <3>3. \A s \in Subgraph : s \in Running <=> job[s] # "idle"
      BY <2>1 DEF StepsInv, Running
    <3>4. \A s \in Subgraph : steps'[s] = "succeeded" <=> Done(s)
      BY <3>1, <3>2, <3>3 DEF Done, Subgraph, StepIds
    <3>5. \A s \in Subgraph : Done(s)' <=> Done(s)
      BY <2>1, <3>4 DEF Done
    <3>6. \A s \in Subgraph : ~Done(s) => job[s] = "idle"
      BY <3>2, <3>3 DEF Done
    <3>7. SolveHands
      BY <2>1 DEF HandInv
    <3>8. CASE Waiting # {}
      <4>1. job'["search"] = "idle"
        BY <1>0, <2>1
      <4>2. UNCHANGED <<pending, rev>> /\ st' = st
        BY <2>1
      <4>3. steps'["safety_check"] = "absent" <=> steps["safety_check"] = "absent"
        BY <3>1 DEF Running, StepIds
      <4>4. Candidate => Candidate'
        BY <2>1, CandidateKept
      <4>5. ~Done("search")' => InPhase({"intent_ready", "retrying"})' /\ Baton("search", Commands)'
        BY <1>0, <3>5, <3>6, <3>7, <4>2, BatonKept, PhaseKept DEF SolveHands
      <4>6. (Done("search") /\ steps["safety_check"] # "absent" /\ ~Done("safety_check"))' =>
              InPhase({"search_ready"})' /\ Baton("safety", {"search_artifact"})'
        BY <1>0, <3>5, <3>6, <3>7, <4>2, <4>3, BatonKept, PhaseKept DEF SolveHands
      <4>7. (Done("search") /\ (steps["safety_check"] = "absent" \/ Done("safety_check"))
               /\ ~Done("planner"))' =>
              InPhase({"search_ready", "safety_ready"})'
              /\ Baton("planner", {"search_artifact", "safety_report"})'
        BY <1>0, <3>5, <3>6, <3>7, <4>2, <4>3, BatonKept, PhaseKept DEF SolveHands
      <4>8. SolveHands'
        BY <1>0, <3>5, <3>7, <4>1, <4>4, <4>5, <4>6, <4>7 DEF SolveHands, Commands
      <4> QED  BY <2>1, <2>2, <3>1, <3>8, <4>8, WhyKept DEF HandInv
    <3>9. CASE Waiting = {}
      <4>1. steps["planner"] # "absent" /\ steps["planner"] \in
              {"absent", "pending", "retrying", "running", "succeeded"}
        BY <1>0, <2>1 DEF StepsInv, PlanShape, InWork
      <4>2. steps["planner"] \notin {"pending", "retrying"}
        BY <1>0, <3>9, <4>1 DEF Waiting, InPlan
      <4>3. Done("planner")
        BY <1>0, <3>2, <4>1, <4>2 DEF Done, Running
      <4>4. Candidate'
        BY <2>1, <3>7, <4>3, CandidateKept DEF SolveHands
      <4> QED  BY <2>1, <2>2, <3>1, <3>9, <4>4, WhyKept DEF HandInv
    <3> QED  BY <3>8, <3>9
  <2> QED  BY <2>3, <2>4
<1> QED  BY <1>1, <1>2, <1>3, <1>4, <1>5, <1>6, <1>7, <1>8

\* Queues that hold at most one message still do when one is taken.
LEMMA TakenShort ==
  ASSUME TypeInv, HandInv, NEW e \in Endpoints, pending[e] # <<>>
  PROVE  /\ \A f \in Endpoints : Len(Taken(pending, e)[f]) <= 1
         /\ \A f \in Endpoints \ {e} : Taken(pending, e)[f] = pending[f]
<1>1. pending \in Queues /\ \A f \in Endpoints : Len(pending[f]) <= 1
  BY DEF TypeInv, HandInv
<1>2. pending[e] \in Seq(Message) /\ Len(pending[e]) <= 1
  BY <1>1 DEF Queues
<1>3. Len(Tail(pending[e])) = Len(pending[e]) - 1 /\ Len(pending[e]) \in Nat
  BY <1>2
<1>4. Taken(pending, e)[e] = Tail(pending[e])
  BY <1>1 DEF Taken, Queues
<1>5. \A f \in Endpoints \ {e} : Taken(pending, e)[f] = pending[f]
  BY <1>1 DEF Taken, Queues
<1>6. Len(Taken(pending, e)[e]) <= 1
  BY <1>2, <1>3, <1>4
<1> QED  BY <1>1, <1>5, <1>6

LEMMA HandAfter ==
  ASSUME TypeInv, StepsInv, ReviewInv, HandInv, WhyInv,
         \/ Solved \/ ReviewBegin \/ CriticRaises \/ CriticDropped \/ Critic \/ Decide \/ SoftRetry
         \/ Finalize \/ FinalAnswer \/ Finish \/ ClearMemory \/ PersistWorkflow
  PROVE  HandInv' /\ WhyInv'
<1>0. LivePhase \/ pc = "end"
  BY DEF HandInv
<1>1. CASE Solved
  <2>1. /\ pc = "solved" /\ UNCHANGED <<pending, st, rev, mode, limit, handoffs, cost, solves, why>>
        /\ pc' = IF solves = 1 /\ result.status = "need_clarification" THEN "finalize" ELSE "review"
        /\ result' = [result EXCEPT !.early = solves = 1 /\ result.status = "need_clarification"]
    BY <1>1 DEF Solved, settings, trace
  <2>2. result'.status = result.status /\ result'.plan = result.plan
    BY <2>1 DEF TypeInv, Result
  <2>3. Candidate
    BY <2>1 DEF HandInv
  <2>4. Candidate' /\ solves \in {1, 2}
    BY <2>1, <2>2, <2>3, CandidateKept DEF ReviewInv
  <2>5. pending["final_answer"] = <<>>
    BY <2>3, BatonAlone DEF Candidate, Endpoints
  <2>6. InPhase({"intent_ready", "plan_ready", "reviewed"})' /\ LivePhase'
    BY <2>4 DEF Candidate, InPhase, LivePhase, Open
  <2>7. \A e \in Endpoints : Len(pending'[e]) <= 1
    BY <2>1 DEF HandInv
  <2>8. WhyInv'
    BY <2>1, WhyKept
  <2> QED  BY <2>1, <2>2, <2>4, <2>5, <2>6, <2>7, <2>8 DEF HandInv
<1>2. CASE ReviewBegin
  <2>1. /\ pc = "review" /\ pc' = IF MayRunCritic THEN "critic" ELSE "decide"
        /\ UNCHANGED <<pending, st, rev, mode, limit, handoffs, cost, solves, review, result, why>>
    BY <1>2 DEF ReviewBegin, settings, trace
  <2>2. Candidate /\ (solves = 2 \/ result.status # "need_clarification")
    BY <2>1 DEF HandInv
  <2>3. Candidate' /\ (MayRunCritic' <=> MayRunCritic)
    BY <2>1, <2>2, CandidateKept DEF MayRunCritic
  <2>4. pending["final_answer"] = <<>>
    BY <2>2, BatonAlone DEF Candidate, Endpoints
  <2>5. InPhase({"plan_ready", "reviewed"})' /\ LivePhase'
    BY <2>3 DEF Candidate, InPhase, LivePhase, Open
  <2>6. ~(solves = 1 /\ review # NoReview)
    BY <2>1 DEF ReviewInv
  <2>7. \A e \in Endpoints : Len(pending'[e]) <= 1
    BY <2>1 DEF HandInv
  <2>8. WhyInv'
    BY <2>1, WhyKept
  <2> QED  BY <2>1, <2>2, <2>3, <2>4, <2>5, <2>6, <2>7, <2>8 DEF HandInv
<1>3. CASE CriticRaises
  <2>1. /\ pc = "critic" /\ pc' = "failing" /\ pending["critic"] # <<>>
        /\ pending' = Taken(pending, "critic") /\ UNCHANGED <<st, rev>> /\ why' = "agent"
    BY <1>3 DEF CriticRaises, Consumable
  <2>2. \A e \in Endpoints : Len(pending'[e]) <= 1
    BY <2>1, TakenShort DEF Endpoints
  <2>3. LivePhase'
    BY <1>0, <2>1 DEF InPhase, LivePhase, Open
  <2> QED  BY <2>1, <2>2, <2>3, WhyKept DEF HandInv
<1>4. CASE CriticDropped
  <2>1. /\ pc = "critic" /\ pc' = "decide" /\ pending["critic"] # <<>>
        /\ pending' = Taken(pending, "critic")
        /\ UNCHANGED <<st, rev, solves, review, result, why>>
    BY <1>4 DEF CriticDropped, Consumable
  <2>2. Candidate
    BY <2>1 DEF HandInv
  <2>3. pending["final_answer"] = <<>>
    BY <2>2, BatonAlone DEF Candidate, Endpoints
  <2>4. (\A e \in Endpoints : Len(pending'[e]) <= 1) /\ pending'["final_answer"] = <<>>
    BY <2>1, <2>3, TakenShort DEF Endpoints
  <2>5. InPhase({"plan_ready", "reviewed"})' /\ LivePhase'
    BY <2>1, <2>2 DEF Candidate, InPhase, LivePhase, Open
  <2>6. ~(solves = 1 /\ review # NoReview)
    BY <2>1 DEF ReviewInv
  <2> QED  BY <2>1, <2>4, <2>5, <2>6, WhyKept DEF HandInv
<1>5. CASE Critic
  <2>1. pc = "critic" /\ st # NoState
    BY <1>5 DEF Critic
  <2>2. /\ Candidate /\ MayRunCritic
        /\ solves = 2 \/ result.status # "need_clarification"
    BY <2>1 DEF HandInv
  <2>3. CASE Baton("critic", {"plan_candidate"})
    <3>1. Consumable("critic", {"plan_candidate"}) /\ Taken(pending, "critic") = NoMessages
      BY <2>1, <2>2, <2>3, TakeBaton DEF Candidate, Endpoints
    <3>2. PlanUnderReview
      BY <2>1, <2>2 DEF Candidate, PlanUnderReview
    <3>3. Allowed("critic_reviewed")
      <4>1. InPhase({"plan_ready"})
        BY <2>2 DEF Candidate
      <4> QED  BY <2>1, <4>1, Accepted, PhaseTable, FollowTable
    <3>4. /\ Perform("critic_reviewed", st.plan) /\ pc' = "decide" /\ why' = why
          /\ pending' = Sent(NoMessages, "supervisor", "review_report")
      BY <1>5, <3>1, <3>2, <3>3, RouteTable DEF Critic
    <3>5. InPhase({"reviewed"})' /\ InPhase({"plan_ready", "reviewed"})'
          /\ LivePhase' /\ rev' \in Int
      <4>1. ActionPhase["critic_reviewed"] = "reviewed" /\ "critic_reviewed" \in Actions
            /\ st.plan \in Nat
        BY PhaseTable DEF Actions, TypeInv, State
      <4> QED  BY <3>4, <4>1, NowInPhase DEF Phases, LivePhase, Open
    <3>6. Baton("supervisor", {"review_report"})'
      BY <3>4, <3>5, PassBaton DEF Endpoints
    <3>7. (\A e \in Endpoints : Len(pending'[e]) <= 1) /\ pending'["final_answer"] = <<>>
      BY <3>6, HandedOver DEF Endpoints
    <3> QED  BY <2>1, <3>4, <3>5, <3>6, <3>7, WhyKept DEF HandInv
  \* The candidate of a second solve that asks the user is with the Supervisor.
  <2>4. CASE ~Baton("critic", {"plan_candidate"})
    <3>1. Baton("supervisor", {"plan_candidate"}) /\ result.status = "need_clarification" /\ solves = 2
      BY <2>2, <2>4 DEF Candidate
    <3>2. ~Consumable("critic", {"plan_candidate"})
      BY <3>1, BatonAlone DEF Consumable, Endpoints
    <3>3. Throw("protocol")
      BY <1>5, <3>2 DEF Critic
    <3>4. /\ pc' = "failing" /\ why' = "protocol"
          /\ UNCHANGED <<pending, rev, mode, limit, handoffs, cost, solves, review, result, steps,
                         job, st>>
      BY <3>3 DEF Throw, settings, trace
    <3>5. HandInv'
      BY <2>1, <3>4, HandKept
    <3> QED  BY <3>1, <3>4, <3>5 DEF WhyInv
  <2> QED  BY <2>3, <2>4
<1>6. CASE Decide
  <2>1. /\ pc = "decide" /\ UNCHANGED <<pending, st, rev, solves, review, why>>
        /\ pc' = "finalize" \/ (pc' = "soft_retry" /\ result' = result)
    BY <1>6 DEF Decide, trace
  <2>2. /\ InPhase({"plan_ready", "reviewed"}) /\ pending["final_answer"] = <<>>
        /\ solves = 1 /\ review # NoReview =>
             Baton("supervisor", {"review_report"}) /\ InPhase({"reviewed"})
    BY <2>1 DEF HandInv
  <2>3. /\ InPhase({"plan_ready", "reviewed"})' /\ LivePhase'
        /\ InPhase({"intent_ready", "plan_ready", "reviewed"})'
    BY <2>1, <2>2 DEF InPhase, LivePhase, Open
  <2>4. (solves = 1 /\ review # NoReview)' =>
             Baton("supervisor", {"review_report"})' /\ InPhase({"reviewed"})'
    BY <2>1, <2>2, BatonKept, PhaseKept
  <2>5. \A e \in Endpoints : Len(pending'[e]) <= 1
    BY <2>1 DEF HandInv
  <2> QED  BY <2>1, <2>2, <2>3, <2>4, <2>5, WhyKept DEF HandInv
<1>7. CASE SoftRetry
  <2>1. pc = "soft_retry" /\ st # NoState
    BY <1>7 DEF SoftRetry
  <2>2. solves = 1 /\ review # NoReview
    BY <2>1 DEF ReviewInv
  <2>3. Baton("supervisor", {"review_report"}) /\ InPhase({"reviewed"})
    BY <2>1, <2>2 DEF HandInv
  <2>4. Consumable("supervisor", {"review_report"}) /\ Taken(pending, "supervisor") = NoMessages
    BY <2>1, <2>3, TakeBaton DEF Endpoints
  <2>5. Allowed("soft_retry_scheduled")
    BY <2>1, <2>3, Accepted, PhaseTable, FollowTable
  <2>6. /\ Perform("soft_retry_scheduled", st.plan) /\ pc' = "solve" /\ why' = why
        /\ pending' = Sent(NoMessages, "search", "retry_directive")
    BY <1>7, <2>4, <2>5, RouteTable DEF SoftRetry
  <2>7. InPhase({"intent_ready", "retrying"})' /\ LivePhase' /\ rev' \in Int
    <3>1. ActionPhase["soft_retry_scheduled"] = "retrying" /\ "soft_retry_scheduled" \in Actions
          /\ st.plan \in Nat
      BY PhaseTable DEF Actions, TypeInv, State
    <3> QED  BY <2>6, <3>1, NowInPhase DEF Phases, LivePhase, Open
  <2>8. Baton("search", {"intent_artifact", "retry_directive"})'
    BY <2>6, <2>7, PassBaton DEF Endpoints
  <2>9. \A e \in Endpoints : Len(pending'[e]) <= 1
    BY <2>8, HandedOver DEF Endpoints
  <2> QED  BY <2>1, <2>6, <2>7, <2>8, <2>9, WhyKept DEF HandInv, Commands
<1>8. CASE Finalize
  <2>1. pc = "finalize" /\ pc' = "answer" /\ UNCHANGED <<pending, st, rev, why>>
    BY <1>8 DEF Finalize
  <2>2. /\ InPhase({"intent_ready", "plan_ready", "reviewed"})' /\ pending["final_answer"] = <<>>
        /\ LivePhase' /\ \A e \in Endpoints : Len(pending'[e]) <= 1
    BY <2>1 DEF HandInv, InPhase, LivePhase, Open
  <2> QED  BY <2>1, <2>2, WhyKept DEF HandInv
<1>9. CASE FinalAnswer
  <2>1. pc = "answer" /\ st # NoState
    BY <1>9 DEF FinalAnswer
  <2>2. /\ InPhase({"intent_ready", "plan_ready", "reviewed"}) /\ pending["final_answer"] = <<>>
        /\ \A e \in Endpoints : Len(pending[e]) <= 1
    BY <2>1 DEF HandInv
  <2>3. Allowed("workflow_finalized")
    BY <2>1, <2>2, Accepted, PhaseTable, FollowTable
  <2>4. PICK q : q = IF pending["supervisor"] = <<>> THEN pending ELSE Taken(pending, "supervisor")
    OBVIOUS
  <2>5. /\ Perform("workflow_finalized", st.plan) /\ pc' = "finish" /\ why' = why
        /\ pending' = Sent(q, "final_answer", "final_answer")
    BY <1>9, <2>3, <2>4, RouteTable DEF FinalAnswer
  <2>6. q \in Queues /\ q["final_answer"] = <<>> /\ \A e \in Endpoints : Len(q[e]) <= 1
    <3>1. CASE pending["supervisor"] = <<>>
      BY <2>2, <2>4, <3>1 DEF TypeInv
    <3>2. CASE pending["supervisor"] # <<>>
      BY <2>2, <2>4, <3>2, TakenShort, TakenType DEF TypeInv, Endpoints
    <3> QED  BY <3>1, <3>2
  <2>7. \A e \in Endpoints : Len(pending'[e]) <= 1
    <3>1. PICK m : m = [type |-> "final_answer", rev |-> rev']
      OBVIOUS
    <3>2. pending' = [q EXCEPT !["final_answer"] = Append(<<>>, m)]
      BY <2>5, <2>6, <3>1 DEF Sent
    <3>3. Append(<<>>, m) = <<m>> /\ Len(<<m>>) = 1
      OBVIOUS
    <3>4. pending'["final_answer"] = <<m>> /\ \A e \in Endpoints \ {"final_answer"} : pending'[e] = q[e]
      BY <2>6, <3>2, <3>3 DEF Queues, Endpoints
    <3>5. Len(pending'["final_answer"]) = 1
      BY <3>3, <3>4, Zenon
    <3>6. \A e \in Endpoints \ {"final_answer"} : Len(pending'[e]) <= 1
      BY <2>6, <3>4
    <3> QED  BY <3>5, <3>6
  <2>8. LivePhase' /\ rev' >= 0 /\ st'.phase = "finalized"
    <3>1. ActionPhase["workflow_finalized"] = "finalized" /\ "workflow_finalized" \in Actions
          /\ st.plan \in Nat
      BY PhaseTable DEF Actions, TypeInv, State
    <3> QED  BY <2>5, <3>1, Performed DEF Phases, LivePhase
  <2> QED  BY <2>1, <2>5, <2>7, <2>8, WhyKept DEF HandInv
<1>10. CASE Finish \/ ClearMemory \/ PersistWorkflow
  <2>1. /\ pc \in {"finish", "clear", "persist"} /\ pc' \in {"clear", "persist", "end"}
        /\ UNCHANGED <<pending, rev, why>> /\ (st' = st \/ st' = NoState)
    BY <1>10 DEF Finish, ClearMemory, PersistWorkflow
  <2>2. LivePhase' /\ \A e \in Endpoints : Len(pending'[e]) <= 1
    BY <2>1 DEF HandInv, LivePhase, Open
  <2>3. pc' = "clear" => rev' >= 0 /\ (st' = NoState \/ st'.phase = "finalized")
    BY <1>10, <2>1 DEF HandInv, Finish, ClearMemory, PersistWorkflow
  <2> QED  BY <2>1, <2>2, <2>3, WhyKept DEF HandInv
<1> QED  BY <1>1, <1>2, <1>3, <1>4, <1>5, <1>6, <1>7, <1>8, <1>9, <1>10

\* A step that only ends the methods: whatever it leaves in the Shared State takes
\* the failure, or is finalized.
LEMMA HandsDown ==
  ASSUME HandInv, UNCHANGED pending, LivePhase', pc' \in {"failing", "end"}
  PROVE  HandInv'
  BY HandInvShort DEF HandInv

\* A lost reply leaves a phase that some update has led to.
LEMMA LostPhase ==
  /\ \A m \in DOMAIN MethodUpdate : ActionPhase[MethodUpdate[m]] \in Open \cup {"finalized"}
  /\ \A s \in Subgraph : ActionPhase[JobUpdate(s)] \in Open
<1>1. /\ DOMAIN MethodUpdate = {"understand", "critic", "soft_retry", "answer"}
      /\ MethodUpdate["understand"] = "intent_analyzed" /\ MethodUpdate["critic"] = "critic_reviewed"
      /\ MethodUpdate["soft_retry"] = "soft_retry_scheduled"
      /\ MethodUpdate["answer"] = "workflow_finalized"
  BY DEF MethodUpdate
<1>2. \A s \in Subgraph : JobUpdate(s) \in {"search_completed", "recovery_applied", "safety_checked",
                                          "plan_completed"}
  BY DEF JobUpdate
<1> QED  BY <1>1, <1>2, PhaseTable DEF Open

LEMMA HandStep ==
  TypeInv /\ StepsInv /\ ReviewInv /\ HandInv /\ WhyInv /\ [Next]_vars => HandInv' /\ WhyInv'
<1> SUFFICES ASSUME TypeInv, StepsInv, ReviewInv, HandInv, WhyInv, [Next]_vars
             PROVE  HandInv' /\ WhyInv'
  OBVIOUS
<1>1. CASE Fail
  <2>1. /\ pc = "failing" /\ pc' = "end" /\ UNCHANGED <<pending, solves, result, why>>
    BY <1>1 DEF Fail
  <2>2. \A e \in Endpoints : Len(pending'[e]) <= 1
    BY <2>1 DEF HandInv
  <2> QED  BY <2>1, <2>2, WhyKept DEF HandInv
<1>2. CASE StateGone
  <2>1. pc \notin {"failing", "end"} /\ Throw("expired")
    BY <1>2 DEF StateGone, Busy
  <2> QED  BY <2>1, HandKept, WhyKept DEF Throw, settings, trace
<1>3. ASSUME NEW s \in Subgraph, JobStateGone(s) PROVE HandInv' /\ WhyInv'
  BY <1>3, JobEnds, WhyKept DEF JobStateGone, EndJob, settings, trace
<1>4. ASSUME NEW s \in Subgraph, JobRaises(s) PROVE HandInv' /\ WhyInv'
  <2>1. /\ pc = "gather" /\ pc' = "gather" /\ why' = "fault" /\ job[s] \in {"begin", "recall"}
        /\ job' = [job EXCEPT ![s] = "raised"]
        /\ UNCHANGED <<pending, mode, limit, handoffs, cost, result, steps>>
    BY <1>4 DEF JobRaises, EndJob, settings, trace
  <2>2. CASE UNCHANGED <<st, rev>>
    BY <2>1, <2>2, JobEnds, WhyKept
  <2>3. CASE s # "weather" /\ ReplyLost(JobUpdate(s), IF s = "planner" THEN solves ELSE st.plan)
    <3>1. (IF s = "planner" THEN solves ELSE st.plan) \in Nat
      BY DEF TypeInv, State
    <3>2. st'.phase = ActionPhase[JobUpdate(s)]
      BY <2>3, <3>1, LostReply, LostUpdates
    <3>3. LivePhase'
      BY <3>2, LostPhase DEF LivePhase
    <3> QED  BY <2>1, <2>3, <3>3, JobLost, WhyKept
  <2> QED  BY <1>4, <2>2, <2>3 DEF JobRaises
<1>5. CASE Raise
  <2>1. pc \notin {"failing", "end"} /\ pc' = "failing" /\ why' = "fault" /\ UNCHANGED pending
    BY <1>5 DEF Raise, Busy
  <2>2. LivePhase'
    <3>1. CASE UNCHANGED st
      BY <2>1, <3>1 DEF HandInv, LivePhase, Open
    <3>2. CASE pc \in DOMAIN MethodUpdate /\ ReplyLost(MethodUpdate[pc], st.plan)
      <4>1. st.plan \in Nat
        BY DEF TypeInv, State
      <4>2. st'.phase = ActionPhase[MethodUpdate[pc]]
        BY <3>2, <4>1, LostReply, LostUpdates
      <4> QED  BY <3>2, <4>2, LostPhase DEF LivePhase
    <3>3. CASE st' = [phase |-> "initialized", rev |-> 0, plan |-> 0]
      BY <3>3 DEF LivePhase, Open
    <3> QED  BY <1>5, <3>1, <3>2, <3>3 DEF Raise
  <2> QED  BY <2>1, <2>2, HandsDown, WhyKept
<1>10. CASE GatherRefused \/ GatherRaises
  <2>1. pc = "gather" /\ pc' = "failing" /\ why' = "fault" /\ UNCHANGED <<pending, st>>
    BY <1>10 DEF GatherRefused, GatherRaises, WaveEnded
  <2>2. LivePhase'
    BY <2>1 DEF HandInv, LivePhase, Open
  <2> QED  BY <2>1, <2>2, HandsDown, WhyKept
<1>11. CASE EndRaises
  <2>1. pc = "clear" /\ pc' \in {"failing", "end"} /\ why' = "fault" /\ UNCHANGED pending
        /\ st' \in {st, NoState}
    BY <1>11 DEF EndRaises
  <2>2. LivePhase'
    BY <2>1 DEF HandInv, LivePhase, Open
  <2> QED  BY <2>1, <2>2, HandsDown, WhyKept
<1>12. CASE FailRaises
  <2>1. pc = "failing" /\ why' \in {why, "shared_state"} /\ UNCHANGED <<pending, solves, result>>
        /\ (pc' = "end" \/ (pc' = "failing" /\ st' = st))
    BY <1>12 DEF FailRaises, trace
  <2>2. HandInv'
    <3>1. CASE pc' = "end"
      BY <2>1, <3>1, HandInvShort DEF HandInv
    <3>2. CASE pc' = "failing" /\ st' = st
      <4>1. LivePhase'
        BY <2>1, <3>2 DEF HandInv, LivePhase, Open
      <4> QED  BY <2>1, <3>2, <4>1, HandsDown
    <3> QED  BY <2>1, <3>1, <3>2
  <2> QED  BY <2>1, <2>2, WhyKept
<1>6. CASE Expire
  BY <1>6, HandKept, WhyKept DEF Expire, settings, trace
<1>7. CASE Die
  BY <1>7, HandKept, WhyKept DEF Die, settings, trace
<1>8. CASE OtherRequests
  BY <1>8, HandKept, WhyKept DEF OtherRequests, settings, trace
<1>9. CASE UNCHANGED vars
  BY <1>9, HandKept, WhyKept DEF vars, settings, trace
<1> QED
  BY <1>1, <1>2, <1>3, <1>4, <1>5, <1>6, <1>7, <1>8, <1>9, <1>10, <1>11, <1>12,
     HandBefore, HandSolve, HandAfter DEF Next, Step, Ended

-----------------------------------------------------------------------------
(* The end of the request, and the theorems *)

LEMMA EndInit == Init => EndIsRecorded
  BY DEF Init, EndIsRecorded

LEMMA EndStep == TypeInv /\ StepsInv /\ OutcomeInv /\ HandInv /\ EndIsRecorded /\ OutcomeInv'
                   /\ [Next]_vars => EndIsRecorded'
<1> SUFFICES ASSUME TypeInv, StepsInv, OutcomeInv, HandInv, EndIsRecorded, OutcomeInv', [Next]_vars
             PROVE  EndIsRecorded'
  OBVIOUS
<1>1. outcome' = "returned" => (st = NoState /\ row.status # "running")'
  BY DEF OutcomeInv
<1>2. CASE outcome' # "raised"
  BY <1>1, <1>2 DEF EndIsRecorded
<1>3. CASE outcome' = "raised" /\ outcome # "raised"
  <2>1. Fail \/ FailRaises \/ EndRaises
    BY <1>3 DEF Next, Step, Ended, vars, trace, settings, Start, Understand, PlanNext, Solve, Wave,
       SearchBegin, Recover, FollowDecision, SearchEnd, RunWeather, CheckSafety, RunPlanner, Gather,
       GatherRefused, Solved, ReviewBegin, CriticRaises, CriticDropped, Critic, Decide, SoftRetry,
       Finalize, FinalAnswer, Finish, ClearMemory, PersistWorkflow, StateGone, JobStateGone, Raise,
       GatherRaises, Expire, Die, JobRaises, OtherRequests, Throw
  <2>2. row.status = status /\ status # "failed"
    BY <1>3 DEF OutcomeInv
  <2>3. CASE Fail /\ StateRefuses
    <3>1. pc = "failing" /\ UNCHANGED <<st, rev, row>>
      BY <2>3 DEF Fail
    <3>2. LivePhase /\ rev >= 0 /\ ~(st # NoState /\ Allowed("workflow_failed"))
      BY <2>3, <3>1 DEF HandInv, StateRefuses
    <3>3. ASSUME st # NoState, st.rev = rev PROVE st.phase = "finalized"
      <4>1. ASSUME st.phase \in Open PROVE FALSE
        <5>1. InPhase(Open)
          BY <3>3, <4>1 DEF InPhase
        <5>2. Allowed("workflow_failed")
          BY <3>3, <5>1, Accepted, PhaseTable, FollowTable DEF Open
        <5> QED  BY <3>2, <3>3, <5>2
      <4> QED  BY <3>2, <3>3, <4>1 DEF LivePhase
    <3> QED  BY <1>3, <2>2, <3>1, <3>2, <3>3 DEF EndIsRecorded
  <2>4. CASE Fail /\ ~StateRefuses
    <3>1. steps' = FailedSteps(steps) /\ status' = "failed" /\ UNCHANGED broken
          /\ (IF broken THEN UNCHANGED row ELSE Checkpoint(steps', status'))
      BY <2>4 DEF Fail
    <3>2. CASE broken
      BY <1>3, <2>2, <3>1, <3>2 DEF EndIsRecorded
    <3>3. CASE ~broken
      <4>1. row'.status = "failed" /\ row'.steps = FailedSteps(steps)
        BY <3>1, <3>3 DEF Checkpoint
      <4>2. \A s \in StepIds : row'.steps[s] \notin {"running", "retrying", "pending"}
        BY <4>1 DEF FailedSteps
      <4> QED  BY <1>3, <4>1, <4>2 DEF EndIsRecorded
    <3> QED  BY <3>2, <3>3
  <2>5. CASE FailRaises
    BY <1>3, <2>2, <2>5 DEF FailRaises, EndIsRecorded
  <2>6. CASE EndRaises
    <3>1. pc = "clear" /\ st' \in {st, NoState} /\ UNCHANGED <<rev, row>>
      BY <1>3, <2>6 DEF EndRaises
    <3>2. rev >= 0 /\ (st = NoState \/ st.phase = "finalized")
      BY <3>1 DEF HandInv
    <3> QED  BY <1>3, <2>2, <3>1, <3>2 DEF EndIsRecorded
  <2> QED  BY <2>1, <2>3, <2>4, <2>5, <2>6
<1>4. CASE outcome' = "raised" /\ outcome = "raised"
  <2>1. pc = "end"
    BY <1>4 DEF OutcomeInv
  <2>2. UNCHANGED <<st, row, rev, why, broken>>
    BY <1>4, <2>1 DEF Next, Step, Ended, vars, Start, Understand, PlanNext, Solve, Wave,
       SearchBegin, Recover, FollowDecision, SearchEnd, RunWeather, CheckSafety, RunPlanner, Gather,
       GatherRefused, WaveEnded, Solved, ReviewBegin, CriticRaises, CriticDropped, Critic, Decide,
       SoftRetry, Finalize, FinalAnswer, Finish, ClearMemory, PersistWorkflow, Fail, StateGone,
       JobStateGone, Raise, GatherRaises, EndRaises, FailRaises, Expire, Die, JobRaises,
       OtherRequests, Busy
  <2> QED  BY <1>4, <2>2 DEF EndIsRecorded
<1> QED  BY <1>2, <1>3, <1>4

IInv == /\ TypeInv /\ StepsInv /\ ReviewInv /\ OutcomeInv /\ RecallInv
        /\ HandInv /\ WhyInv /\ EndIsRecorded

\* The inductive invariant: the types, how far the steps, the solve, the search
\* and the status are, where the baton is, and how the request ends.
LEMMA Invariance == Spec => []IInv
<1>1. Init => IInv
  BY InitTypes, StepsInit, ReviewInit, OutcomeInit, RecallInit, HandInit, EndInit DEF IInv
<1>2. IInv /\ [Next]_vars => IInv'
  BY TypeStep, StepsStep, ReviewStep, OutcomeStep, RecallStep, HandStep, EndStep DEF IInv
<1> QED  BY <1>1, <1>2, PTL DEF Spec

\* The variables of PlanningWorkflow keep their types, at most one message waits
\* for an endpoint, and a recovery never exceeds agent_search_max_attempts,
\* whatever fails or is retried.
THEOREM TypeCorrect == Spec => []TypeOK
<1>1. IInv => TypeOK
  <2> SUFFICES ASSUME IInv PROVE TypeOK
    OBVIOUS
  <2>1. TypeInv /\ HandInv
    BY DEF IInv
  <2>2. st.phase \in Phases \cup {"none"}
    BY <2>1 DEF TypeInv, State
  <2>3. row.steps \in [StepIds -> StepStatus]
    BY <2>1 DEF TypeInv, Row
  <2>4. recall.found \subseteq Keywords /\ recall.attempt \in 1..MaxSearchAttempts
    BY <2>1 DEF TypeInv, Recall
  <2>5. result.status \in PlanStatus \cup {"none"} /\ review.verdict \in Verdicts \cup {"none"}
    BY <2>1 DEF TypeInv, Result, Review
  <2>6. \A e \in Endpoints : Len(pending[e]) <= 1
    BY <2>1 DEF HandInv
  <2> QED  BY <2>1, <2>2, <2>3, <2>4, <2>5, <2>6 DEF TypeInv, TypeOK
<1> QED  BY <1>1, Invariance, PTL

\* No method of the orchestrator meets an empty queue, a message of another kind,
\* a stale revision, a phase that refuses its update or a wave without a step that
\* can start, except the review after a second solve that asks the user.
THEOREM HandoffsFit == Spec => []HandoffsMatch
<1>1. IInv => HandoffsMatch
  BY DEF IInv, WhyInv, HandoffsMatch
<1> QED  BY <1>1, Invariance, PTL

\* Whatever commit of the durable row is the last one, a step in it runs or is
\* done only after what it depends on is done.
THEOREM RowInOrder == Spec => []DurableOrder
<1>1. IInv => DurableOrder
  <2> SUFFICES ASSUME StepsInv PROVE DurableOrder
    BY DEF IInv
  <2>1. InOrder(row.steps)
    BY DEF StepsInv
  <2> QED  BY <2>1, OrderOfDependencies DEF DurableOrder
<1> QED  BY <1>1, Invariance, PTL

\* In mode enforce a plan that succeeds has been reviewed, with no hard failure
\* unless the mismatch of ratings has taken the verdict.
THEOREM ReviewsEnforced == Spec => []EnforceReviews
<1>1. IInv => EnforceReviews
  BY DEF IInv, ReviewInv
<1> QED  BY <1>1, Invariance, PTL

\* A plan that is returned as a success has a candidate for every keyword, however
\* the recoveries ended and the shared cache changed.
THEOREM TasksPlaced == Spec => []EveryTaskPlaced
<1>1. IInv => EveryTaskPlaced
  BY DEF IInv, RecallInv, EveryTaskPlaced, Done
<1> QED  BY <1>1, Invariance, PTL

\* A request that returns leaves a closed row and no Shared State.  One that raises
\* leaves a failed row in which nothing runs or waits, unless the session is broken,
\* the Shared State raises in fail, or the Shared State refuses the failure: it is
\* gone, finalized, or ahead of the orchestrator.
THEOREM EndRecorded == Spec => []EndIsRecorded
<1>1. IInv => EndIsRecorded
  BY DEF IInv
<1> QED  BY <1>1, Invariance, PTL

=============================================================================
