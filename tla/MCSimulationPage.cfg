SPECIFICATION PageFairSpec
CONSTANTS
  A = A
  B = B
  p = p
  q = q
  Sims = {A, B}
  ParamsOf <- MCParamsOf
  None = None
  User = User
  MaxLoads = 2
INVARIANTS ShowsOwn SetsOwn JoinsCurrent
PROPERTIES DraftsKeptUncrossed PageSettles
