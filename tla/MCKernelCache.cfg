SPECIFICATION FairSpec
CONSTANTS
  Procs <- TwoProcs
  Winners <- TwoVersions
  Scenarios <- Passing
INVARIANT CommitRecord
INVARIANT RestartedLoadsNeverRaise
INVARIANT ServedConsistent
INVARIANT QuietEntryWhole
PROPERTY CallsEnd
