SPECIFICATION FairSpec
CONSTANTS
  NumConfigs = 3
  NumWorkers = 2
  Cap = 3
  MaxLatency = 3
  MaxRuns = 2
CHECK_DEADLOCK FALSE
INVARIANT BestIsFastest
INVARIANT NoConfigLost
INVARIANT FailsOnlyForNothing
INVARIANT OwnKernel
PROPERTY RunEnds
