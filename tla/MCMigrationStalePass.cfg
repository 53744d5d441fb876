SPECIFICATION Spec
CONSTANTS
  Funcs <- ThreeFuncs
  AttemptLimit = 2
CHECK_DEADLOCK FALSE
INVARIANT DoneEndsOnPass
