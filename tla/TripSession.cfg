\* Two overlapping requests on one trip, the Worker's Agent run, the consents
\* and the stream.
SPECIFICATION Spec
CONSTANTS
  Requests = {r1, r2}
  Workers = {w1, w2}
  EventIds = {e1, e2}
  EventInputs <- MCEvents
  Tools = {"get_current_location", "propose_replan", "search_poi"}
  Mixes <- MCMixes
  SustainSamples = 2
  MaxSteps = 4
  MaxRunCalls = 4
  MaxTripCalls = 4
  MaxConsents = 2
  MaxFailedRuns = 1
  MaxReconnects = 1
SYMMETRY ProcessSymmetry
INVARIANTS OneEffectPerEvent ToolBudgetBounded RiskIsProposed ClientNotAhead
PROPERTY LocationFollowsLatestConsent
CHECK_DEADLOCK FALSE
