SPECIFICATION Spec
CONSTANTS
  Requests = {r1, r2}
  NoRequest = NoRequest
  MaxRequests = 4
  GraceWindow = 1
  RefreshTtl = 2
  ResetTtl = 1
  MaxTime = 2
SYMMETRY RequestSymmetry
INVARIANTS
  AtMostOneLivePerFamily
  ChainNeverForks
  NoOrphans
PROPERTIES
  RevokedRowsFrozen
  ImplementsFamilies
  SeenRowsDie
  BumpKillsEveryToken
