\* A run that loaded its plan before a newer one was published writes it back.
SPECIFICATION Spec
CONSTANTS
  r1 = r1
  r2 = r2
  Runs = {r1, r2}
  MaxVersion = 2
  MaxErasures = 0
  MaxHistory = 2
PROPERTY PlanNeverBackwards
