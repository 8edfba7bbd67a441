SPECIFICATION Spec
CONSTANTS
  A = A
  B = B
  Sims = {A, B}
  None = None
  MaxRows = 2
  PruneBatch = 2
  Interval = 1
  MaxAttempts = 2
  MaxTick = 3
  MaxRuns = 2
  MaxSetbacks = 2
SYMMETRY Symmetry
INVARIANTS RowsBounded LatestServed
CHECK_DEADLOCK FALSE
