SPECIFICATION Spec
CONSTANTS
  Scopes = {"cooldown", "daily"}
  Limit <- MCLimit
  Length <- MCLength
  MaxTime = 3
  r1 = r1
  r2 = r2
  r3 = r3
  Requests = {r1, r2, r3}
  MaxCount = 2
INVARIANTS
  DailyCapHolds
  AmbiguityCostsNothing
SYMMETRY Symmetry
CHECK_DEADLOCK FALSE
