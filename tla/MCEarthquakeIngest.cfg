SPECIFICATION QuakeFairSpec
CONSTANTS
  Events = {e1}
  RecentWindow = 0
  Window <- MCWindow
  Retention = 0
  MaxSolution = 2
  MaxRuns = 2
  MaxClock = 1
INVARIANTS
  RevisionsAreTheProviders
PROPERTIES
  AnchorStands
  LateRevisionsArrive
