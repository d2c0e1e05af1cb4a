SPECIFICATION Spec
CONSTANTS
  MaxTime = 1
  r1 = r1
  r2 = r2
  Requests = {r1, r2}
  owner = owner
  stranger = stranger
  Parties = {owner, stranger}
  MaxAttempts = 2
  MaxActive = 2
  Ttl = 1
  MaxCandidates = 4
INVARIANTS
  EveryGuessIsCharged
  CeilingPassedOnlyByOverlap
  CheckedIsStillTrue
  NoCircularWait
PROPERTIES
  LiveCodesStand
  CloneTakesNoSide
CHECK_DEADLOCK FALSE
SYMMETRY Symmetry
