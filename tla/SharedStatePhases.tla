------------------------- MODULE SharedStatePhases -------------------------
(***************************************************************************)
(* The tables of services/agent_shared_state.py: which phase an action     *)
(* leads to, who may perform it, which field it may write and which phases *)
(* may follow one another.                                                 *)
(***************************************************************************)

Phases == {"initialized", "intent_ready", "search_ready", "safety_ready", "plan_ready",
           "reviewed", "retrying", "finalized", "in_trip", "completed", "failed"}

Actions == {"intent_analyzed", "search_completed", "safety_checked", "plan_completed",
            "critic_reviewed", "soft_retry_scheduled", "recovery_applied",
            "workflow_finalized", "workflow_failed", "trip_started",
            "trip_event_processed", "trip_completed"}

\* ACTION_PHASE
ActionPhase == [a \in Actions |->
  CASE a = "intent_analyzed"  -> "intent_ready"
    [] a = "search_completed" -> "search_ready"
    [] a = "safety_checked"   -> "safety_ready"
    [] a = "plan_completed"   -> "plan_ready"
    [] a = "critic_reviewed"  -> "reviewed"
    [] a \in {"soft_retry_scheduled", "recovery_applied"} -> "retrying"
    [] a = "workflow_finalized" -> "finalized"
    [] a = "workflow_failed"  -> "failed"
    [] a \in {"trip_started", "trip_event_processed"} -> "in_trip"
    [] a = "trip_completed"   -> "completed"]

\* ALLOWED_TRANSITIONS
FollowedBy == [p \in Phases |->
  CASE p = "initialized"  -> {"intent_ready", "plan_ready", "retrying", "failed"}
    [] p = "intent_ready" -> {"search_ready", "retrying", "finalized", "failed"}
    [] p = "search_ready" -> {"safety_ready", "plan_ready", "retrying", "failed"}
    [] p = "safety_ready" -> {"plan_ready", "retrying", "failed"}
    [] p = "plan_ready"   -> {"reviewed", "retrying", "finalized", "in_trip", "failed"}
    [] p = "reviewed"     -> {"retrying", "finalized", "failed"}
    [] p = "retrying"     -> {"retrying", "search_ready", "plan_ready", "failed"}
    [] p = "finalized"    -> {"in_trip", "completed"}
    [] p = "in_trip"      -> {"in_trip", "completed", "failed"}
    [] p \in {"completed", "failed"} -> {}]

\* The transition check of update.
MayPerform(action, phase) == ActionPhase[action] \in FollowedBy[phase]

=============================================================================
