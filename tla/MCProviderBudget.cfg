SPECIFICATION Spec
CONSTANTS
  i1 = i1
  i2 = i2
  Instances = {i1, i2}
  c1 = c1
  c2 = c2
  Calls = {c1, c2}
  Home <- MCHome
  Levels = 2
  Limit <- MCLimit
  Length <- MCLength
  Weights = {1}
  MaxCount = 2
  MaxTime = 1
INVARIANTS
  BudgetHolds
  RefusalsSpareLaterWindows
CHECK_DEADLOCK FALSE
SYMMETRY Symmetry
