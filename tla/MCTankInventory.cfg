SPECIFICATION Spec
CONSTANTS
  Callers = {t1, t2}
  Requests = {0, 3, 7, NaN}
  Default <- MCDefault
  NoBound = NoBound
  NaN = NaN
  Infinity = 7
  None = None
  MaxSets = 2
  Source = Source
  Dest = Dest
  Capacity = Capacity
  MaxDelta = 2
SYMMETRY Symmetry
INVARIANTS NonNegative UnracedTransfers AlignedWithParameters
PROPERTY ImplementsInventory
