SPECIFICATION FairSpec
CONSTANTS
  Procs <- ThreeProcs
  DstFS = "home"
  TmpFS = "tmp"
  MaxCrashes = 1
CHECK_DEADLOCK FALSE
INVARIANT CrossFSReaders
INVARIANT QuietFileWhole
PROPERTY CopiesEnd
