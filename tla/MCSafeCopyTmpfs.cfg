SPECIFICATION Spec
CONSTANTS
  Procs <- ThreeProcs
  DstFS = "home"
  TmpFS = "tmp"
  MaxCrashes = 0
CHECK_DEADLOCK FALSE
INVARIANT ReadersSeeWhole
