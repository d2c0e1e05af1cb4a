SPECIFICATION FairSpec
CONSTANTS
  Readers = {r1, r2}
  Fresh = 0
  StaleMax = 1
  ValidMax = 1
  NegativeTtls = {2}
  LockTtl = 1
  PollAttempts = 1
  MaxCrashes = 1
INVARIANTS
  OneTimelyOwner
  SuppressedReadsServeWhatTheyHave
PROPERTIES
  EveryReadEnds
  NeverStopsAsking
