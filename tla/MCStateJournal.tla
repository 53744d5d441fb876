-------------------------- MODULE MCStateJournal --------------------------
(* Two conductor sessions in one task directory, with and without overlap of *)
(* their commands.  Limits are scaled down as in MCConductor.              *)
EXTENDS StateJournal, TLC

CONSTANTS a, b

TwoSessions == {a, b}
SessionSymmetry == Permutations(TwoSessions)
DesignAndTune == {1, 4}
SmallLimits == [s \in {0, 1, 3, 4, 5} |-> 2]
============================================================================
