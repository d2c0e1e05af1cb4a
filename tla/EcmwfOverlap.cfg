SPECIFICATION Spec
CONSTANTS
  a = a
  b = b
  Instances = {a, b}
  MaxOutlived = 1
  Interval = 2
  Lag = 1
  LastStep = 1
  Fallbacks = 1
  Retained = 1
  MaxAge = 4
  MaxTime = 2
INVARIANT NoHoleIsEverListed
CHECK_DEADLOCK FALSE
