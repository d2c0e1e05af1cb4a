SPECIFICATION FairSpec
CONSTANTS
  MaxAttempts = 2
  AnalysisEnabled = TRUE
  DayLength = 2
  SubmitAfter = 1
  Slack = 1
  Retained = 1
  MaxTime = 3
  MaxUpstream = 2
INVARIANTS
  DuplicatesOnlyFromLatePosts
  EveryResubmitIsPaidFor
  ForeignOnlyWithoutOwn
  ServableIsWhole
PROPERTIES
  ServableStands
  CleanupSparesWanted
  RunsSettle
