CONSTANTS
  Users <- GrowingUsers
  kDefaultConcurrency = 2
  Configs <- AllConfigs
  kAcquireAttempts = 2
  MaxStops = 1
SPECIFICATION FairSpec
INVARIANTS ClientsExclusive RefusedOnlyAfterDrop
PROPERTIES FailureAborts  RunReturns StopEndsRun
