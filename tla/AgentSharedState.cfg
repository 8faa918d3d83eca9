\* Overlapping Companion runs of one trip while plans are published and the key
\* is erased.
SPECIFICATION Spec
CONSTANTS
  r1 = r1
  r2 = r2
  r3 = r3
  Runs = {r1, r2, r3}
  MaxVersion = 2
  MaxErasures = 1
  MaxHistory = 2
SYMMETRY RunSymmetry
CHECK_DEADLOCK FALSE
INVARIANTS TypeOK HistoryContiguous
PROPERTIES NoLostUpdate DecidedOnPresentState NoResurrection
