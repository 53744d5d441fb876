SPECIFICATION Spec
CONSTANTS
  a = a
  b = b
  Sessions <- TwoSessions
  InitPlan <- DesignAndTune
  MaxRetry = 2
  RetryLimit <- SmallLimits
  MaxDispatches = 1
  MaxCommands = 6
  MaxCrashes = 1
SYMMETRY SessionSymmetry
CHECK_DEADLOCK FALSE
INVARIANT FileAlwaysLegal
INVARIANT BudgetFlagHonest
PROPERTY ImplementsStageMachine
