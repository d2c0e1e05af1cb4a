SPECIFICATION FairSpec
CONSTANTS
  Calls = {c1, c2}
  Threshold = 3
  OpenTime = 3
  Cap = 2
  Budgets = {2, 4}
  RetryAfters = {0, 4}
  Backoff = 1
  MinRemaining = 1
INVARIANTS
  NoLeakedTrial
  PauseCutOnlyByStragglers
PROPERTIES
  TimeoutIsEvidence
  AlwaysProbesAgain
