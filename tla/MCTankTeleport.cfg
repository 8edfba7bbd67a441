SPECIFICATION Spec
CONSTANTS
  Callers = {t1}
  Requests = {0, 3}
  Default <- MCDefault
  NoBound = NoBound
  NaN = NaN
  Infinity = 7
  None = None
  MaxSets = 1
  Source = Source
  Dest = Dest
  Capacity = Capacity
  MaxDelta = 2
INVARIANT TeleportSurvivesTick
