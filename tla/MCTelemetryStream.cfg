SPECIFICATION FairSpec
CONSTANTS
  A = A
  B = B
  a = a
  Clients = {c1}
  Signals = {x}
  SimOrder <- MCSimOrder
  Names <- MCNames
  Named <- MCNamed
  Asked <- MCAsked
  MaxTick <- MCMaxTick
  MaxJoins = 1
  MaxLosses = 1
INVARIANT SnapshotsFresh
PROPERTIES NeverBack JoinedIsFed
CHECK_DEADLOCK FALSE
