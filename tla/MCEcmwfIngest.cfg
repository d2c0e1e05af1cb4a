SPECIFICATION Spec
CONSTANTS
  a = a
  b = b
  Instances = {a, b}
  MaxOutlived = 1
  Interval = 1
  Lag = 0
  LastStep = 2
  Fallbacks = 2
  Retained = 2
  MaxAge = 2
  MaxTime = 2
INVARIANTS
  ListedStepsAreStored
  WholeCycleHoldsTheHorizon
PROPERTIES
  StoredStepsStay
  ListedStepsStay
SYMMETRY Symmetry
CHECK_DEADLOCK FALSE
