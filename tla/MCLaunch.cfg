SPECIFICATION FairSpec
CONSTANTS
  Threads <- TwoThreads
  Streams <- TwoStreams
  DefaultStream = "s1"
  Kernels <- SmallKernels
  BadOutput <- OutputRaises
  BadGrid <- GridRaises
  BadShape <- ShapeRaises
  SymbolicOf <- CompiledSymbolic
  ShapesOf <- ShapesMeant
  GridOf <- EvalGrid
  Meanings <- TwoMeanings
  QueueCap = 2
  MaxCalls = 1
CHECK_DEADLOCK FALSE
INVARIANT SymbolicExact
INVARIANT OwnArguments
INVARIANT InputsReady
INVARIANT WorkspacesApart
INVARIANT ReleasedAfterUse
PROPERTY LaunchesRun
