SPECIFICATION Spec
CONSTANTS
  Callers = {c1, c2, c3}
  Loop = loop
  NoThread = none
  K = 3
  MaxSteps = 3
  MaxTick = 7
INVARIANTS TickWhole PauseStopsLoop StepsAccounted
