---------------------------- MODULE MCTripSession ----------------------------
(***************************************************************************)
(* Small instances of TripSession.  A behaviour makes the requests of one  *)
(* mix, so that each pair of handlers that read what the other writes      *)
(* meets with every interleaving.                                          *)
(***************************************************************************)
EXTENDS TripSession, TLC

MCEvents ==
  {[type |-> "WeatherAlertReceived", amount |-> 1], [type |-> "ScheduleDelayDetected", amount |-> 9],
   [type |-> "TripCompleted", amount |-> 0], [type |-> "UserResumedTrip", amount |-> 0]}

MCMixes ==
  {{"transition", "event", "clock"}, {"start", "location", "consent", "erase", "clock"},
   {"event", "stream"}, {"risk", "agent", "model"}, {"risk", "consent", "tool"},
   {"risk", "agent", "stall", "tool"}}

ProcessSymmetry ==
  Permutations(Requests) \cup Permutations(EventIds) \cup Permutations(Workers)

=============================================================================
