-------------------------- MODULE MigrationProofs --------------------------
(***************************************************************************)
(* Proofs about Migration, for any set of functions and any limits.        *)
(***************************************************************************)
EXTENDS Migration, TLAPS

\* A pass is recorded in INTEGRATE only, so that DONE is reached from there.
PassRecorded == integration = "pass" => phase \in {"INTEGRATE", "DONE", "FAILED"}

\* The invariants of the run are inductive together with PassRecorded, which
\* IntegratedMeansAllDone needs; TypeOK needs, through IntegrationBudget, that a
\* migration that goes on has counted no more than AttemptLimit failures.
MInv ==
  /\ TypeOK /\ IntegratedMeansAllDone /\ PassRecorded /\ IntegrationBudget

\* The phases that have a place in the order of cmd_migration_phase.
LEMMA OrderedPhases == DOMAIN Order = {"SCAFFOLD", "DEV_LOOP", "INTEGRATE", "DONE"}
  BY DEF Order

\* migration init starts from a state that satisfies every invariant.
LEMMA InitMInv == Init => MInv
  BY MigrationAssumption, OrderedPhases
  DEF Init, MInv, TypeOK, IntegratedMeansAllDone, PassRecorded, IntegrationBudget,
      Phases, FUNC_STATUSES, Reasons

\* Every command of `statectl migration` preserves the invariants.
LEMMA NextMInv == MInv /\ [Next]_vars => MInv'
  <1> SUFFICES ASSUME MInv, [Next]_vars PROVE MInv'
    OBVIOUS
  <1> USE MigrationAssumption, OrderedPhases
      DEF MInv, TypeOK, IntegratedMeansAllDone, PassRecorded, IntegrationBudget,
          Phases, FUNC_STATUSES, Reasons
  <1>1. ASSUME NEW f \in Funcs, NEW s \in FUNC_STATUSES, SetFunc(f, s) PROVE MInv'
    BY <1>1 DEF SetFunc, FuncsOpen
  <1>2. ASSUME NEW t \in DOMAIN Order, Advance(t) PROVE MInv'
    <2>1. t # "SCAFFOLD"
      BY <1>2 DEF Advance, Forward, Order
    <2>2. integration = "pass" => t = "DONE"
      BY <1>2 DEF Advance, Forward, Order
    <2>3. t \in {"DEV_LOOP", "INTEGRATE", "DONE"}
      BY <2>1
    <2>4. /\ phase' = t /\ phase # "FAILED"
          /\ t = "INTEGRATE" => \A f \in Funcs : functions[f] = "done"
          /\ t = "DONE" => integration = "pass"
      BY <1>2 DEF Advance, Precondition
    <2>5. UNCHANGED <<functions, attempts, integration, failure_reason, last_report>>
      BY <1>2 DEF Advance
    <2>6. t = "DONE" => \A f \in Funcs : functions[f] = "done"
      BY <1>2, <2>4 DEF Advance
    <2> QED
      BY <2>2, <2>3, <2>4, <2>5, <2>6
  <1>3. CASE Abort
    BY <1>3 DEF Abort
  <1>4. CASE IntegratePass
    BY <1>4 DEF IntegratePass
  <1>5. CASE IntegrateFail
    <2>1. attempts <= AttemptLimit
      BY <1>5 DEF IntegrateFail
    <2>2. attempts' \in 0..(AttemptLimit + 1)
      BY <1>5, <2>1 DEF IntegrateFail
    <2> QED
      BY <1>5, <2>1, <2>2 DEF IntegrateFail, OverLimit
  <1>6. CASE UNCHANGED vars
    BY <1>6 DEF vars, aggregate
  <1> QED
    BY <1>1, <1>2, <1>3, <1>4, <1>5, <1>6 DEF Next, Sets, Advances

\* Every reachable state of the aggregate file satisfies the invariant.
THEOREM MigrationInductive == Spec => []MInv
  BY InitMInv, NextMInv, PTL DEF Spec

\* Integration, and the end of a migration, find every function done.
THEOREM AllDone == Spec => []IntegratedMeansAllDone
  BY MigrationInductive, PTL DEF MInv

\* The integration budget is never overdrawn without ending the migration.
THEOREM BudgetEnds == Spec => []IntegrationBudget
  BY MigrationInductive, PTL DEF MInv

\* No command moves the phase back or leaves DONE or FAILED.
THEOREM NeverBack == Spec => ForwardOnly
  <1> DEFINE Fwd == /\ phase \in {"DONE", "FAILED"} => phase' = phase
                    /\ phase # phase' /\ phase' # "FAILED" => Order[phase'] > Order[phase]
  <1>1. ASSUME Next PROVE Fwd
    BY <1>1 DEF Next, Sets, Advances, SetFunc, FuncsOpen, Advance, Forward, Abort,
                IntegratePass, IntegrateFail, aggregate
  <1>2. ASSUME UNCHANGED vars PROVE Fwd
    BY <1>2 DEF vars, aggregate
  <1>3. [Next]_vars => [Fwd]_vars
    BY <1>1, <1>2
  <1> QED
    BY <1>3, PTL DEF Spec, ForwardOnly
============================================================================
