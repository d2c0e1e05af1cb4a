SPECIFICATION Spec
CONSTANTS
  Requests = {r1, r2}
  NoRequest = NoRequest
  MaxRequests = 4
  GraceWindow = 0
  RefreshTtl = 2
  ResetTtl = 1
  MaxTime = 0
SYMMETRY RequestSymmetry
PROPERTY
  TokenConfirmsOnce
