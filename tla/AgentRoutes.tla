---------------------------- MODULE AgentRoutes ----------------------------
(***************************************************************************)
(* The allow-list of services/agent_protocol.py: who may send which        *)
(* artifact to whom, and in which kind of message.                         *)
(***************************************************************************)

\* ROUTES
Routes ==
  {<<"user", "supervisor", "command", "planning_request">>,
   <<"supervisor", "intent", "command", "planning_request">>,
   <<"intent", "supervisor", "artifact", "intent_artifact">>,
   <<"intent", "supervisor", "result", "intent_artifact">>,
   <<"supervisor", "search", "command", "intent_artifact">>,
   <<"supervisor", "search", "command", "retry_directive">>,
   <<"search", "planner", "artifact", "search_artifact">>,
   <<"search", "safety", "artifact", "search_artifact">>,
   <<"safety", "planner", "artifact", "safety_report">>,
   <<"planner", "critic", "artifact", "plan_candidate">>,
   <<"planner", "supervisor", "result", "plan_candidate">>,
   <<"planner", "supervisor", "result", "planner_execution">>,
   <<"supervisor", "planner", "command", "planner_context">>,
   <<"critic", "supervisor", "result", "review_report">>,
   <<"critic", "supervisor", "result", "critic_execution">>,
   <<"supervisor", "critic", "command", "critic_context">>,
   <<"system", "supervisor", "error", "recovery_event">>,
   <<"supervisor", "final_answer", "result", "final_answer">>,
   <<"system", "companion", "event", "trip_observation">>,
   <<"system", "companion", "error", "recovery_event">>,
   <<"companion", "tool_runtime", "tool_request", "tool_request">>,
   <<"tool_runtime", "companion", "tool_result", "tool_result">>,
   <<"companion", "final_answer", "result", "companion_action_report">>,
   <<"companion", "supervisor", "artifact", "trip_event_artifact">>,
   <<"supervisor", "replanner", "command", "trip_event_artifact">>,
   <<"replanner", "planner", "artifact", "replan_directive">>,
   <<"replanner", "planner", "result", "replan_directive">>,
   <<"planner", "critic", "artifact", "plan_patch_candidate">>,
   <<"critic", "supervisor", "result", "dynamic_patch_review">>,
   <<"supervisor", "final_answer", "result", "plan_patch_proposal">>}

\* _authorize
Authorized(from, to, kind, artifact) == <<from, to, kind, artifact>> \in Routes

=============================================================================
