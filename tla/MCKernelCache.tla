--------------------------- MODULE MCKernelCache ---------------------------
(* Small instances of KernelCache: an entry used by one process that may be  *)
(* restarted, an entry shared by two processes, and one of the two dying.    *)
EXTENDS KernelCache

TwoProcs    == {"p1", "p2"}
TwoVersions == {"v1", "v2"}

Restarted == [tuned : BOOLEAN, procs : {{"p1"}}, crashes : {3}, clears : {0}, faults : {0}]
Shared    == [tuned : {FALSE}, procs : {TwoProcs}, crashes : {0}, clears : {1}, faults : {1}]
Passing   == Restarted \cup Shared
Race      == [tuned : {FALSE}, procs : {TwoProcs}, crashes : {1}, clears : {0}, faults : {0}]
============================================================================
