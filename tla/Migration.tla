----------------------------- MODULE Migration -----------------------------
(***************************************************************************)
(* The aggregate state of a harness migration (.migration_state.json) and  *)
(* the commands of `statectl migration`.  A migration develops several     *)
(* functions, each with a stage file of its own, and then integrates them. *)
(* What a function's status stands for, its own stages, is in StageMachine. *)
(***************************************************************************)
EXTENDS Integers, FiniteSets

CONSTANTS
  Funcs,        \* the functions of the operator
  AttemptLimit  \* failed integrations allowed (2 in the code)

ASSUME MigrationAssumption ==
  /\ Funcs # {} /\ IsFiniteSet(Funcs)
  /\ AttemptLimit \in Nat

VARIABLES
  phase, functions, attempts, integration, failure_reason,   \* the aggregate file
  last_report                        \* history: what the last integrate command reported

aggregate == <<phase, functions, attempts, integration, failure_reason>>
vars      == <<aggregate, last_report>>

Order         == [SCAFFOLD |-> 0, DEV_LOOP |-> 1, INTEGRATE |-> 2, DONE |-> 3]
Phases        == DOMAIN Order \cup {"FAILED"}
FUNC_STATUSES == {"pending", "in_progress", "done", "failed"}
Reasons       == {"none", "BLOCKED_INTEGRATION", "other"}

TypeOK ==
  /\ phase \in Phases
  /\ functions \in [Funcs -> FUNC_STATUSES]
  /\ attempts \in 0..(AttemptLimit + 1)
  /\ integration \in {"none", "pass"}
  /\ failure_reason \in Reasons
  /\ last_report \in {"none", "pass", "fail"}

\* migration init.
Init ==
  /\ phase \in {"SCAFFOLD", "DEV_LOOP"}
  /\ functions = [f \in Funcs |-> "pending"]
  /\ attempts = 0 /\ integration = "none" /\ failure_reason = "none"
  /\ last_report = "none"

---------------------------------------------------------------------------
FuncsOpenUntilDone == phase \in {"SCAFFOLD", "DEV_LOOP", "INTEGRATE"}

FuncsOpen == phase \in {"SCAFFOLD", "DEV_LOOP"}

\* migration func NAME --status S
SetFunc(f, s) ==
  /\ FuncsOpen
  /\ functions' = [functions EXCEPT ![f] = s]
  /\ UNCHANGED <<phase, attempts, integration, failure_reason, last_report>>

Forward(target) == Order[target] > Order[phase]

\* Integration needs every function, the end needs a passed integration.
Precondition(target) ==
  /\ target = "INTEGRATE" => \A f \in Funcs : functions[f] = "done"
  /\ target = "DONE" => integration = "pass"

\* migration phase --phase TARGET: forwards only, skipping is allowed.
Advance(target) ==
  /\ phase \notin {"DONE", "FAILED"}
  /\ Forward(target) /\ Precondition(target)
  /\ phase' = target
  /\ UNCHANGED <<functions, attempts, integration, failure_reason, last_report>>

\* migration phase --phase FAILED --reason R
Abort ==
  /\ phase \notin {"DONE", "FAILED"}
  /\ phase' = "FAILED" /\ failure_reason' = "other"
  /\ UNCHANGED <<functions, attempts, integration, last_report>>

\* migration integrate --status pass
IntegratePass ==
  /\ phase = "INTEGRATE"
  /\ integration' = "pass" /\ last_report' = "pass"
  /\ UNCHANGED <<phase, functions, attempts, failure_reason>>

LateOverLimit(n) == n > AttemptLimit + 1

OverLimit(n) == n > AttemptLimit

\* migration integrate --status fail: counted, and over the limit the migration
\* ends; integration.status keeps its value.
IntegrateFail ==
  /\ phase = "INTEGRATE"
  /\ attempts' = attempts + 1 /\ last_report' = "fail"
  /\ phase' = IF OverLimit(attempts') THEN "FAILED" ELSE phase
  /\ failure_reason' = IF OverLimit(attempts') THEN "BLOCKED_INTEGRATION" ELSE failure_reason
  /\ UNCHANGED <<functions, integration>>

---------------------------------------------------------------------------
Sets     == \E f \in Funcs, s \in FUNC_STATUSES : SetFunc(f, s)
Advances == \E t \in DOMAIN Order : Advance(t)

Next == Sets \/ Advances \/ Abort \/ IntegratePass \/ IntegrateFail

Spec == Init /\ [][Next]_vars

---------------------------------------------------------------------------
\* Nothing is integrated, and no migration is done, with a function that the
\* aggregate file has unfinished: no command reopens a function in it once
\* integration has begun.
IntegratedMeansAllDone ==
  phase \in {"INTEGRATE", "DONE"} => \A f \in Funcs : functions[f] = "done"

\* One failed integration too many ends the migration, with its own reason.
IntegrationBudget ==
  /\ attempts > AttemptLimit => phase = "FAILED" /\ failure_reason = "BLOCKED_INTEGRATION"
  /\ failure_reason # "none" => phase = "FAILED"

\* Phases only move forward and the two terminal ones are never left.
ForwardOnly ==
  [][/\ phase \in {"DONE", "FAILED"} => phase' = phase
     /\ phase # phase' /\ phase' # "FAILED" => Order[phase'] > Order[phase]]_vars

\* A migration that is done ended on an integration that passed.
DoneEndsOnPass == phase = "DONE" => last_report = "pass"
============================================================================
