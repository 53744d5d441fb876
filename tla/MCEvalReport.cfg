SPECIFICATION Spec
CONSTANTS
  Suites <- SmallSuites
  MaxFaults = 2
CHECK_DEADLOCK FALSE
INVARIANT PassedIsProfiled
INVARIANT WorkspacesFreed
INVARIANT ArtifactsRetained
