----------------------------- MODULE MCSafeCopy -----------------------------
(* Three processes that put the same file in place at the same time.          *)
EXTENDS SafeCopy

ThreeProcs == {"p1", "p2", "p3"}
============================================================================
