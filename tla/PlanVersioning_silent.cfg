\* A redelivered event reviews the patch it finds without its operations.
SPECIFICATION Spec
CONSTANTS
  p1 = p1
  p2 = p2
  p3 = p3
  u1 = u1
  u2 = u2
  u3 = u3
  e1 = e1
  m1 = m1
  NoEvent = NoEvent
  NoPatch = NoPatch
  Patches = {p1, p2}
  Users = {u1, u2}
  Events = {e1}
  Manual = {}
  Risks <- SomeRisks
  MaxReplans = 2
  MaxRedeliveries = 1
SYMMETRY PatchUserSymmetry
CHECK_DEADLOCK FALSE
INVARIANT HighRiskNeedsConfirmation
