SPECIFICATION Spec
CONSTANTS
  Procs <- TwoProcs
  Winners <- TwoVersions
  Scenarios <- Race
INVARIANT LoadsNeverRaise
