SPECIFICATION FairSpec
CONSTANTS
  enable = enable
  weight = weight
  Callers = {t1, t2, t3}
  Params <- MCParams
  Requests <- MCRequests
  Default <- MCDefault
  MinValue <- MCMinValue
  MaxValue <- MCMaxValue
  NoBound = NoBound
  NaN = NaN
  MaxSets = 3
INVARIANTS EventsChain SubscriberCurrent
PROPERTY ImplementsRegister
CHECK_DEADLOCK FALSE
