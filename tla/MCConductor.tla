----------------------------- MODULE MCConductor -----------------------------
(***************************************************************************)
(* TLC instances of StageMachine and Conductor.  Limits are scaled down     *)
(* (the code has 3, 3, 5, 10, 2 and 3 revisions); each is at least 2 where  *)
(* a failure that leaves budget and one that exhausts it have to be told    *)
(* apart.                                                                   *)
(***************************************************************************)
EXTENDS Conductor

NewOpPlan == {1, 2, 3}
SmallLimits == [s \in LimitedStages |-> 2]
=============================================================================
