SPECIFICATION Spec
CONSTANTS
  NumConfigs = 3
  NumWorkers = 2
  Cap = 3
  MaxLatency = 3
  MaxRuns = 1
CHECK_DEADLOCK FALSE
INVARIANT ResultMatchesConfig
