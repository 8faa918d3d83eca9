------------------------------ MODULE TripRules ------------------------------
(***************************************************************************)
(* The tables and pure decisions a trip is run by: which transitions a     *)
(* user may ask for (services/agent_state.py), what an event does to a     *)
(* trip (services/trip_events.py), which capability an Agent may call and  *)
(* in which state (services/agent_tool_registry.py,                        *)
(* services/agent_policy.py), what the rule-based decider asks for next    *)
(* (services/agent_decider.py), and how long a deviation must last         *)
(* (services/offroute.py).                                                 *)
(***************************************************************************)
EXTENDS Naturals

TripStates ==
  {"IDLE", "DISCOVERING", "CLARIFYING", "PLANNING", "PLAN_READY", "ACTIVE_TRIP", "PAUSED",
   "OFF_ROUTE", "AT_RISK", "REPLANNING", "COMPLETED", "CANCELLED"}

Terminal == {"COMPLETED", "CANCELLED"}
Travelling == {"ACTIVE_TRIP", "OFF_ROUTE", "AT_RISK", "REPLANNING"}

\* ALLOWED_TRANSITIONS.
AllowedTransitions(s) ==
  CASE s = "IDLE"        -> {"DISCOVERING", "PLAN_READY", "CANCELLED"}
    [] s = "DISCOVERING" -> {"CLARIFYING", "PLANNING", "CANCELLED"}
    [] s = "CLARIFYING"  -> {"PLANNING", "CANCELLED"}
    [] s = "PLANNING"    -> {"PLAN_READY", "CLARIFYING", "CANCELLED"}
    [] s = "PLAN_READY"  -> {"ACTIVE_TRIP", "CANCELLED"}
    [] s = "ACTIVE_TRIP" -> {"PAUSED", "OFF_ROUTE", "AT_RISK"} \cup Terminal
    [] s = "PAUSED"      -> {"ACTIVE_TRIP"} \cup Terminal
    [] s = "OFF_ROUTE"   -> {"REPLANNING", "ACTIVE_TRIP"} \cup Terminal
    [] s = "AT_RISK"     -> {"REPLANNING", "ACTIVE_TRIP"} \cup Terminal
    [] s = "REPLANNING"  -> {"ACTIVE_TRIP", "AT_RISK"} \cup Terminal
    [] s \in Terminal    -> {}

EventTypes ==
  {"LocationUpdated", "ScheduleDelayDetected", "TrafficChanged", "WeatherAlertReceived",
   "PoiStatusChanged", "UserOffRoute", "DeadlineRiskDetected", "PlanStopCompleted",
   "PlanStopSkipped", "UserPausedTrip", "UserResumedTrip", "TripCompleted"}

\* An event is its type and the number its payload carries: minutes of delay
\* or, for a weather alert, 1 when the severity is high, severe or extreme.
Event == [type : EventTypes, amount : Nat]

Impact(ev) ==
  CASE ev.type = "UserOffRoute" -> "high"
    [] ev.type \in {"DeadlineRiskDetected", "PoiStatusChanged"} -> "critical"
    [] ev.type = "ScheduleDelayDetected" /\ ev.amount >= 30 -> "critical"
    [] ev.type \in {"ScheduleDelayDetected", "TrafficChanged"} /\ ev.amount >= 10 -> "high"
    [] ev.type = "WeatherAlertReceived" /\ ev.amount = 1 -> "high"
    [] OTHER -> "none"

Grave(ev) == Impact(ev) \in {"high", "critical"}

\* evaluate_trip_event: the state the event puts the trip in, whatever state it
\* is in.
NextState(current, ev) ==
  CASE ev.type = "UserOffRoute"                       -> "OFF_ROUTE"
    [] ev.type # "UserOffRoute" /\ Grave(ev)          -> "AT_RISK"
    [] ev.type = "UserPausedTrip"                     -> "PAUSED"
    [] ev.type = "UserResumedTrip"                    -> "ACTIVE_TRIP"
    [] ev.type = "TripCompleted"                      -> "COMPLETED"
    [] OTHER                                          -> current

ShouldNotify(ev, cooling) ==
  \/ Impact(ev) = "critical"
  \/ Impact(ev) = "high" /\ ~cooling

-----------------------------------------------------------------------------
\* CAPABILITIES: the owners of a capability and how it may be invoked.
Owned(agent, mode) == [agents |-> {agent}, mode |-> mode]
Workflow == [agents |-> {}, mode |-> "workflow_only"]

Capabilities ==
  [parse_requirement          |-> Owned("intent", "internal_stage"),
   search_poi                 |-> Owned("search", "internal_stage"),
   check_travel_safety        |-> Owned("safety", "internal_stage"),
   get_route_matrix           |-> Owned("planner", "internal_stage"),
   optimize_route             |-> Owned("planner", "internal_stage"),
   verify_transit_edges       |-> Owned("planner", "internal_stage"),
   get_trip_state             |-> Owned("companion", "agent_callable"),
   get_current_location       |-> Owned("companion", "agent_callable"),
   get_weather                |-> Owned("companion", "agent_callable"),
   propose_replan             |-> Owned("companion", "agent_callable"),
   generate_attraction_brief  |-> Workflow,
   create_plan_patch          |-> Workflow,
   share_trip_status          |-> Workflow,
   load_confirmed_preferences |-> Workflow,
   save_explicit_preference   |-> Workflow,
   delete_explicit_preference |-> Workflow]

\* AgentToolRegistry.authorize; both callers ask for the registered data scopes.
Authorized(agent, tool, mode) ==
  /\ tool \in DOMAIN Capabilities
  /\ agent \in Capabilities[tool].agents
  /\ Capabilities[tool].mode = mode

\* TOOL_POLICIES: the states a tool may be used in.  None of the four needs
\* a second confirmation; only the location needs a consent.
PolicyStates(tool) ==
  CASE tool = "get_trip_state" -> TripStates
    [] tool = "get_weather"    -> Travelling \cup {"PLAN_READY"}
    [] tool \in {"get_current_location", "propose_replan"} -> Travelling

NeedsLocationConsent(tool) == tool = "get_current_location"

\* authorize_tool followed by evaluate_tool_policy.
ToolAllowed(tool, state, locationConsent) ==
  /\ Authorized("companion", tool, "agent_callable")
  /\ state \in PolicyStates(tool)
  /\ NeedsLocationConsent(tool) => locationConsent

-----------------------------------------------------------------------------
RiskEvents ==
  {"UserOffRoute", "ScheduleDelayDetected", "TrafficChanged", "DeadlineRiskDetected",
   "PoiStatusChanged", "WeatherAlertReceived"}

\* RuleBasedAgentDecider.decide: what to call after the tools in `used'.
RuleDecision(type, hasLocation, used) ==
  IF type = "WeatherAlertReceived" /\ "get_weather" \notin used THEN "get_weather"
  ELSE IF type \in RiskEvents /\ "get_trip_state" \notin used THEN "get_trip_state"
  ELSE IF type \in RiskEvents /\ hasLocation /\ "get_current_location" \notin used
    THEN "get_current_location"
  ELSE IF type \in RiskEvents /\ "propose_replan" \notin used THEN "propose_replan"
  ELSE "finish"

\* evaluate_off_route: how many samples in a row were beyond the corridor.
\* Counted up to the number that makes a deviation sustained.
Sustained(previous, outside, limit) ==
  IF ~outside THEN 0 ELSE IF previous < limit THEN previous + 1 ELSE limit

=============================================================================
