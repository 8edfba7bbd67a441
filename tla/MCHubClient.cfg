SPECIFICATION FairSpec
CONSTANTS
  Sims = {A, B}
  NoSim = NoSim
  MaxCalls = 4
  MaxDrops = 2
INVARIANTS InJoinedOnly
PROPERTIES CallsReturn RejoinsAfterReconnect
CHECK_DEADLOCK FALSE
