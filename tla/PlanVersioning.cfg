\* A trip event, a requested replan and the user compete for one plan.
SPECIFICATION Spec
CONSTANTS
  p1 = p1
  p2 = p2
  p3 = p3
  u1 = u1
  u2 = u2
  u3 = u3
  e1 = e1
  m1 = m1
  NoEvent = NoEvent
  NoPatch = NoPatch
  Patches = {p1, p2, p3}
  Users = {u1, u2, u3}
  Events = {e1}
  Manual = {m1}
  Risks <- SomeRisks
  MaxReplans = 2
  MaxRedeliveries = 1
SYMMETRY PatchUserSymmetry
CHECK_DEADLOCK FALSE
INVARIANTS TypeOK StatusMatchesVersions OnePendingPerEvent TripMovesWithPlan
PROPERTIES ImplementsChain DecisionStands
