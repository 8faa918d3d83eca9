SPECIFICATION FairSpec
CONSTANTS
  Modes = {"off", "shadow", "enforce"}
  Keywords = {k1}
  Costs = {0, 1, 2}
  MaxCost = 1
  HandoffLimits = {6, 8, 12}
  MaxCriticRetries = 1
  MaxSearchAttempts = 2
  MaxFaults = 2
INVARIANTS
  TypeOK
  HandoffsMatch
  DurableOrder
  EnforceReviews
  EveryTaskPlaced
  EndIsRecorded
PROPERTIES
  EventuallyEnds
