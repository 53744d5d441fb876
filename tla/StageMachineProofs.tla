------------------------- MODULE StageMachineProofs -------------------------
(***************************************************************************)
(* Proofs about StageMachine and, in the second part, about its users      *)
(* (Conductor), for every scenario, plan, revision budget and table of     *)
(* retry limits.                                                           *)
(***************************************************************************)
EXTENDS Conductor, TLAPS

\* First-order leaves need no arithmetic; the others are left to the SMT solver.
USE ZenonT(2), SMT

(***************************************************************************)
(* The inductive invariant.  BudgetsRespected alone is not inductive: a    *)
(* DONE task can be opened again, so what it may have exhausted has to be  *)
(* said (Stage 4 only, and then its status keeps `start` out).             *)
(***************************************************************************)
EnteredInPlan == \A s \in Stages : stage_status[s] # "none" => s \in stage_plan

FreshStage4 == stage_status[4] = "none" => stage_retry_count[4] = 0

OnlyStage4Exhausted ==
    phase # "FAILED" =>
        /\ retry_count = 0 \/ retry_count < MaxRetry
        /\ \A s \in LimitedStages \ {4} : stage_retry_count[s] < RetryLimit[s]

IInv == /\ TypeOK
        /\ EnteredInPlan
        /\ FreshStage4
        /\ OnlyStage4Exhausted
        /\ BudgetsRespected
        /\ OneStageAtWork
        /\ BlockedIffFailed
        /\ DoneIsFinished
        /\ NoStageSkipped
        /\ OneReentryPerRevision

\* The phase of a stage is never one of the terminal phases.
LEMMA PhaseOpen ==
    ASSUME NEW s \in Stages
    PROVE  STAGE_PHASE[s] \notin TERMINAL_PHASES
<1>1. s \in {0, 1, 2, 3, 4, 5}
  BY DEF Stages
<1>2. CASE s = 0  BY <1>2 DEF STAGE_PHASE, TERMINAL_PHASES, Stages
<1>3. CASE s = 1  BY <1>3 DEF STAGE_PHASE, TERMINAL_PHASES, Stages
<1>4. CASE s = 2  BY <1>4 DEF STAGE_PHASE, TERMINAL_PHASES, Stages
<1>5. CASE s = 3  BY <1>5 DEF STAGE_PHASE, TERMINAL_PHASES, Stages
<1>6. CASE s = 4  BY <1>6 DEF STAGE_PHASE, TERMINAL_PHASES, Stages
<1>7. CASE s = 5  BY <1>7 DEF STAGE_PHASE, TERMINAL_PHASES, Stages
<1> QED  BY <1>1, <1>2, <1>3, <1>4, <1>5, <1>6, <1>7

\* Every non-empty set of stages has a first one.
LEMMA FirstOfStage ==
    ASSUME NEW S \in SUBSET Stages, S # {}
    PROVE  FirstOf(S) \in S
<1>1. S \subseteq {0, 1, 2, 3, 4, 5}
  BY DEF Stages
<1>2. \E s \in S : \A t \in S : s <= t
  <2>1. CASE 0 \in S  BY <1>1, <2>1
  <2>2. CASE 0 \notin S /\ 1 \in S  BY <1>1, <2>2
  <2>3. CASE 0 \notin S /\ 1 \notin S /\ 2 \in S  BY <1>1, <2>3
  <2>4. CASE S \subseteq {3, 4, 5} /\ 3 \in S  BY <2>4
  <2>5. CASE S \subseteq {4, 5} /\ 4 \in S  BY <2>5
  <2>6. CASE S = {5}  BY <2>6
  <2> QED  BY Zenon, <1>1, <2>1, <2>2, <2>3, <2>4, <2>5, <2>6
<1> QED  BY <1>2 DEF FirstOf

\* The code a stage blocks with at its limit is one of BLOCKED_CODES.
LEMMA BlockedReasonCode ==
    ASSUME NEW n \in Stages \ {2, 4}, NEW fail_type
    PROVE  BlockedReason(n, fail_type) \in BLOCKED_CODES
<1>1. n \in {0, 1, 3, 5}
  BY DEF Stages
<1>2. CASE n = 3
  BY <1>2 DEF BlockedReason, BLOCKED_CODES
<1>3. CASE n = 0
  BY <1>3 DEF BlockedReason, BLOCKED_CODES, BLOCKED_BY_STAGE
<1>4. CASE n = 1
  BY <1>4 DEF BlockedReason, BLOCKED_CODES, BLOCKED_BY_STAGE
<1>5. CASE n = 5
  BY <1>5 DEF BlockedReason, BLOCKED_CODES, BLOCKED_BY_STAGE
<1> QED  BY <1>1, <1>2, <1>3, <1>4, <1>5

\* The final artifact has its type.
LEMMA FinalArtifactType ==
    ASSUME NEW status, NEW present
    PROVE  choose_final_artifact(status, present) \in {"none"} \cup Artifacts
BY DEF choose_final_artifact, Artifacts

\* cmd_init leaves a file within the invariant.
LEMMA InitIInv == Init => IInv
<1> SUFFICES ASSUME Init PROVE IInv
  OBVIOUS
<1> USE ConstantsAssumption
<1>1. FirstOf(InitPlan) \in Stages
  BY FirstOfStage
<1>2. phase \notin TERMINAL_PHASES
  BY <1>1, PhaseOpen DEF Init
<1>3. TypeOK
  BY Zenon, <1>1 DEF Init, TypeOK, Statuses
<1>4. BudgetsRespected /\ OnlyStage4Exhausted /\ FreshStage4
  BY DEF Init, BudgetsRespected, OnlyStage4Exhausted, FreshStage4, Stages, LimitedStages
<1>5. EnteredInPlan /\ OneStageAtWork /\ NoStageSkipped
  BY DEF Init, EnteredInPlan, OneStageAtWork, NoStageSkipped
<1>6. BlockedIffFailed /\ DoneIsFinished
  BY <1>2 DEF Init, BlockedIffFailed, DoneIsFinished, TERMINAL_PHASES
<1>7. OneReentryPerRevision
  BY DEF Init, OneReentryPerRevision
<1> QED  BY <1>3, <1>4, <1>5, <1>6, <1>7 DEF IInv
-----------------------------------------------------------------------------
(***************************************************************************)
(* One lemma per command.                                                  *)
(***************************************************************************)
LEMMA StartIInv ==
    ASSUME IInv, NEW n \in Stages, NEW extend \in BOOLEAN, Start(n, extend)
    PROVE  IInv'
<1> USE ConstantsAssumption
<1> USE DEF IInv
<1>1. STAGE_PHASE[n] \notin TERMINAL_PHASES
  BY PhaseOpen
<1>2. phase \notin TERMINAL_PHASES \/ (phase = "DONE" /\ n = 4)
  BY DEF Start, Reopens, TERMINAL_PHASES
<1>3. failure_reason = "none"
  BY <1>2 DEF BlockedIffFailed, TERMINAL_PHASES
<1>4. TypeOK'
  BY DEF Start, TypeOK, PassAfterStart, Statuses
<1>5. EnteredInPlan'
  BY DEF Start, EnteredInPlan, TypeOK
<1>6. FreshStage4'
  BY DEF Start, FreshStage4, TypeOK, Stages
<1>7. phase # "FAILED"
  BY <1>2 DEF TERMINAL_PHASES
<1>8. OnlyStage4Exhausted'
  BY <1>7 DEF Start, OnlyStage4Exhausted
<1>9. stage_retry_count[4] < RetryLimit[4]
  <2>1. CASE phase \notin TERMINAL_PHASES
    BY <2>1 DEF BudgetsRespected, LimitedStages
  <2>2. CASE n = 4
    BY <2>2 DEF Start, Enterable, RevisionReentry, BudgetLeft, FreshStage4, LimitedStages
  <2> QED  BY <1>2, <2>1, <2>2
<1>10. BudgetsRespected'
  BY <1>7, <1>9 DEF Start, BudgetsRespected, OnlyStage4Exhausted, LimitedStages
<1>11. OneStageAtWork'
  BY DEF Start, NoOtherInProgress, OneStageAtWork, TypeOK
<1>12. BlockedIffFailed' /\ DoneIsFinished'
  BY <1>1, <1>3 DEF Start, BlockedIffFailed, DoneIsFinished, TERMINAL_PHASES
<1>13. NoStageSkipped'
  <2> SUFFICES ASSUME NEW s \in Stages, stage_status'[s] # "none",
                      NEW p \in stage_plan', 1 < p, p < s, p # 4
               PROVE  stage_status'[p] = "completed"
    BY DEF NoStageSkipped
  <2>1. p \in stage_plan \/ p = n
    BY DEF Start
  <2>2. p \in Stages
    BY <2>1 DEF TypeOK
  <2>3. CASE p = n
    <3>1. s # n /\ stage_status[s] # "none"
      BY <2>3 DEF Start, TypeOK, Stages
    <3>2. n \in stage_plan
      BY <2>3 DEF Start, InPlan, Reopens
    <3>3. stage_status[n] = "completed"
      BY <2>3, <3>1, <3>2 DEF NoStageSkipped
    <3> QED  BY <2>3, <3>3 DEF Start, Enterable, RevisionReentry
  <2>4. CASE p # n /\ s = n
    <3>1. CASE stage_status[n] = "none"
      BY <2>1, <2>2, <2>4, <3>1 DEF Start, Enterable, RevisionReentry, InOrder, TypeOK
    <3>2. CASE stage_status[n] # "none"
      BY <2>1, <2>2, <2>4, <3>2 DEF Start, NoStageSkipped, TypeOK
    <3> QED  BY <3>1, <3>2
  <2>5. CASE p # n /\ s # n
    BY <2>1, <2>2, <2>5 DEF Start, NoStageSkipped, TypeOK
  <2> QED  BY <2>3, <2>4, <2>5
<1>14. OneReentryPerRevision'
  BY DEF Start, OneReentryPerRevision, PassAfterStart, RevisionReentry, TypeOK
<1> QED
  BY <1>4, <1>5, <1>6, <1>8, <1>10, <1>11, <1>12, <1>13, <1>14

\* cmd_complete keeps the invariant.
LEMMA CompleteIInv ==
    ASSUME IInv, NEW n \in Stages, NEW present \in SUBSET Artifacts, Complete(n, present)
    PROVE  IInv'
<1> USE ConstantsAssumption
<1> USE DEF IInv
<1> DEFINE status == [stage_status EXCEPT ![n] = "completed"]
           open == OpenStages(status)
<1>1. /\ phase \notin TERMINAL_PHASES
      /\ stage_status[n] = "in_progress"
      /\ stage_status' = status
      /\ UNCHANGED <<stage_plan, stage_retry_count, retry_count,
                     last_failure_reason, failure_reason, reentries>>
  BY DEF Complete
<1>2. /\ open = {} => phase' = "DONE" /\ UNCHANGED current_stage
      /\ open # {} => /\ phase' = STAGE_PHASE[FirstOf(open)]
                      /\ current_stage' = FirstOf(open)
  BY Zenon DEF Complete
<1>3. open # {} => FirstOf(open) \in Stages
  <2>1. open \in SUBSET Stages
    BY DEF OpenStages, TypeOK
  <2> HIDE DEF open
  <2> QED  BY <2>1, FirstOfStage
<1>4. phase' # "FAILED" /\ (phase' = "DONE" => open = {})
  <2>1. CASE open = {}  BY Zenon, <1>2, <2>1
  <2>2. CASE open # {}  BY Zenon, <1>2, <1>3, <2>2, PhaseOpen DEF TERMINAL_PHASES
  <2> QED  BY Zenon, <2>1, <2>2
<1>5. TypeOK'
  <2>1. phase' \in {STAGE_PHASE[s] : s \in Stages} \cup TERMINAL_PHASES
        /\ current_stage' \in Stages
    BY Zenon, <1>2, <1>3 DEF TypeOK, TERMINAL_PHASES
  <2>2. final_artifact' \in {"none"} \cup Artifacts
    BY FinalArtifactType DEF Complete, TypeOK
  <2>3. stage_status' \in [Stages -> Statuses]
    BY <1>1 DEF TypeOK, Statuses
  <2> QED  BY <1>1, <2>1, <2>2, <2>3 DEF Complete, TypeOK
<1>6. EnteredInPlan'
  BY <1>1 DEF EnteredInPlan, TypeOK
<1>7. FreshStage4' /\ OnlyStage4Exhausted' /\ BudgetsRespected'
  BY <1>1 DEF FreshStage4, OnlyStage4Exhausted, BudgetsRespected, TypeOK, Stages,
              TERMINAL_PHASES
<1>8. OneStageAtWork'
  BY <1>1 DEF OneStageAtWork, TypeOK
<1>9. BlockedIffFailed'
  BY <1>1, <1>4 DEF BlockedIffFailed, TERMINAL_PHASES
<1>10. DoneIsFinished'
  BY <1>1, <1>4 DEF DoneIsFinished, OpenStages
<1>11. NoStageSkipped'
  BY <1>1 DEF NoStageSkipped, TypeOK
<1>12. OneReentryPerRevision'
  BY <1>1 DEF OneReentryPerRevision
<1> QED
  BY <1>5, <1>6, <1>7, <1>8, <1>9, <1>10, <1>11, <1>12

\* cmd_fail --reason design_revision keeps the invariant.
LEMMA ReviseIInv ==
    ASSUME IInv, NEW n \in Stages, Revise(n)
    PROVE  IInv'
<1> USE ConstantsAssumption
<1> USE DEF IInv
<1>1. /\ phase \notin TERMINAL_PHASES
      /\ failure_reason = "none"
  BY DEF Revise, BlockedIffFailed, TERMINAL_PHASES
<1>2. TypeOK'
  BY DEF Revise, TypeOK, Statuses, BLOCKED_CODES, TERMINAL_PHASES, history
<1>3. \A s \in Stages : stage_status'[s] # "none" =>
          stage_status[s] # "none" /\ s \in stage_plan /\ s \in {0, 1}
  BY DEF Revise, Downstream, EnteredInPlan, Stages
<1>4. EnteredInPlan'
  BY <1>3 DEF EnteredInPlan, Revise
<1>5. FreshStage4'
  BY DEF Revise, FreshStage4, EnteredInPlan, Downstream, Stages
<1>6. \A s \in LimitedStages : stage_retry_count'[s] < RetryLimit[s]
  BY <1>1 DEF Revise, BudgetsRespected, TypeOK, LimitedStages, Stages
<1>7. OnlyStage4Exhausted' /\ BudgetsRespected'
  BY <1>6 DEF Revise, OnlyStage4Exhausted, BudgetsRespected, TypeOK, LimitedStages, Stages,
              TERMINAL_PHASES
<1>8. OneStageAtWork'
  BY <1>1 DEF Revise, OneStageAtWork, TERMINAL_PHASES
<1>9. BlockedIffFailed' /\ DoneIsFinished'
  BY <1>1 DEF Revise, BlockedIffFailed, DoneIsFinished, TERMINAL_PHASES
<1>10. NoStageSkipped'
  BY <1>3 DEF NoStageSkipped, Revise, TypeOK, Stages
<1>11. OneReentryPerRevision'
  BY DEF Revise, OneReentryPerRevision, TypeOK, history
<1> QED
  BY <1>2, <1>4, <1>5, <1>7, <1>8, <1>9, <1>10, <1>11
\* cmd_fail keeps the invariant.
LEMMA FailIInv ==
    ASSUME IInv, NEW n \in Stages, NEW fail_type \in FailTypes,
           NEW present \in SUBSET Artifacts, Fail(n, fail_type, present)
    PROVE  IInv'
<1> USE ConstantsAssumption
<1> USE DEF IInv
<1>1. /\ phase \notin TERMINAL_PHASES
      /\ n # 2
      /\ n \in LimitedStages
      /\ stage_status[n] \in {"in_progress", "failed"}
      /\ stage_status' = [stage_status EXCEPT ![n] = "failed"]
      /\ stage_retry_count' = [stage_retry_count EXCEPT ![n] = @ + 1]
      /\ UNCHANGED <<stage_plan, retry_count, last_failure_reason, current_stage,
                     perf_tuning_requested, reviewed, reentries>>
  BY DEF Fail, history, Stages, LimitedStages
<1>2. stage_retry_count[n] < RetryLimit[n] /\ failure_reason = "none"
  BY <1>1 DEF BudgetsRespected, BlockedIffFailed, TERMINAL_PHASES
<1>3. RetryLimit[n] \in Nat /\ stage_retry_count[n] \in Nat
  BY <1>1 DEF TypeOK
<1>4. \/ /\ stage_retry_count[n] + 1 < RetryLimit[n]
         /\ UNCHANGED <<phase, failure_reason, final_artifact>>
      \/ /\ stage_retry_count[n] + 1 = RetryLimit[n] /\ n = 4
         /\ phase' = "DONE" /\ UNCHANGED failure_reason
         /\ final_artifact' \in {"none"} \cup Artifacts
      \/ /\ stage_retry_count[n] + 1 = RetryLimit[n] /\ n # 4
         /\ phase' = "FAILED" /\ failure_reason' \in BLOCKED_CODES
         /\ UNCHANGED final_artifact
  <2>1. CASE ~LimitReached(n, stage_retry_count[n] + 1)
    BY <1>3, <2>1 DEF Fail, LimitReached
  <2>2. CASE LimitReached(n, stage_retry_count[n] + 1) /\ n = 4
    BY <1>2, <1>3, <2>2, FinalArtifactType DEF Fail, LimitReached
  <2>3. CASE LimitReached(n, stage_retry_count[n] + 1) /\ n # 4
    <3>1. BlockedReason(n, fail_type) \in BLOCKED_CODES
      BY <1>1, <2>3, BlockedReasonCode
    <3> QED  BY <1>2, <1>3, <2>3, <3>1 DEF Fail, LimitReached
  <2> QED  BY <2>1, <2>2, <2>3
<1>5. TypeOK'
  BY <1>1, <1>4 DEF TypeOK, Statuses, TERMINAL_PHASES
<1>6. EnteredInPlan' /\ FreshStage4'
  BY <1>1 DEF EnteredInPlan, FreshStage4, TypeOK, Stages
<1>7. /\ stage_retry_count'[n] = stage_retry_count[n] + 1
      /\ \A s \in Stages \ {n} : stage_retry_count'[s] = stage_retry_count[s]
  BY <1>1 DEF TypeOK
<1>8. OnlyStage4Exhausted'
  BY <1>1, <1>4, <1>7 DEF OnlyStage4Exhausted, BudgetsRespected, TERMINAL_PHASES,
                          LimitedStages, Stages
<1>9. BudgetsRespected'
  <2>1. \A s \in LimitedStages : stage_retry_count'[s] <= RetryLimit[s]
    BY <1>1, <1>3, <1>4, <1>7 DEF BudgetsRespected, LimitedStages, Stages
  <2>2. phase' \notin TERMINAL_PHASES =>
            /\ retry_count' = 0 \/ retry_count' < MaxRetry
            /\ \A s \in LimitedStages : stage_retry_count'[s] < RetryLimit[s]
    BY <1>1, <1>4, <1>7 DEF BudgetsRespected, TERMINAL_PHASES, LimitedStages, Stages
  <2> QED  BY <2>1, <2>2 DEF BudgetsRespected
<1>10. OneStageAtWork'
  BY <1>1, <1>4 DEF OneStageAtWork, TypeOK, TERMINAL_PHASES
<1>11. BlockedIffFailed'
  BY <1>1, <1>2, <1>4 DEF BlockedIffFailed, TERMINAL_PHASES, BLOCKED_CODES
<1>12. DoneIsFinished'
  BY <1>1, <1>4, <1>7 DEF DoneIsFinished, TypeOK, TERMINAL_PHASES
<1>13. NoStageSkipped'
  <2> SUFFICES ASSUME NEW s \in Stages, stage_status'[s] # "none",
                      NEW p \in stage_plan, 1 < p, p < s, p # 4
               PROVE  stage_status'[p] = "completed"
    BY <1>1 DEF NoStageSkipped
  <2>1. stage_status[s] # "none" /\ p \in Stages
    BY <1>1 DEF TypeOK
  <2>2. stage_status[p] = "completed"
    BY <2>1 DEF NoStageSkipped
  <2> QED  BY <1>1, <2>1, <2>2 DEF TypeOK
<1>14. OneReentryPerRevision'
  BY <1>1 DEF OneReentryPerRevision
<1> QED
  BY <1>5, <1>6, <1>8, <1>9, <1>10, <1>11, <1>12, <1>13, <1>14

\* cmd_fail --blocked-code keeps the invariant.
LEMMA BlockIInv ==
    ASSUME IInv, NEW code \in BLOCKED_CODES, Block(code)
    PROVE  IInv'
<1> USE DEF IInv
<1>1. phase' = "FAILED" /\ failure_reason' = code /\ last_failure_reason' = code
  BY DEF Block
<1>2. code # "none" /\ code # "design_revision"
  BY DEF BLOCKED_CODES
<1>3. UNCHANGED <<stage_plan, stage_status, stage_retry_count, retry_count, current_stage,
                  final_artifact, perf_tuning_requested, reviewed, reentries>>
  BY DEF Block, history
<1>4. TypeOK'
  BY <1>1, <1>3 DEF TypeOK, TERMINAL_PHASES
<1>5. EnteredInPlan' /\ FreshStage4' /\ NoStageSkipped'
  BY <1>3 DEF EnteredInPlan, FreshStage4, NoStageSkipped
<1>6. OnlyStage4Exhausted' /\ BudgetsRespected' /\ OneStageAtWork' /\ DoneIsFinished'
  BY <1>1, <1>3 DEF OnlyStage4Exhausted, BudgetsRespected, OneStageAtWork,
                    DoneIsFinished, TERMINAL_PHASES
<1>7. BlockedIffFailed'
  BY <1>1, <1>2 DEF BlockedIffFailed
<1>8. OneReentryPerRevision'
  BY <1>1, <1>2, <1>3 DEF OneReentryPerRevision, TypeOK
<1> QED
  BY <1>4, <1>5, <1>6, <1>7, <1>8

\* What the set commands and a stuttering step have in common.
LEMMA CycleUnchangedIInv ==
    ASSUME IInv,
           UNCHANGED <<stage_plan, stage_status, stage_retry_count, retry_count,
                       last_failure_reason, failure_reason, phase, current_stage, history>>,
           final_artifact' \in {"none"} \cup Artifacts,
           perf_tuning_requested' \in {"none", "yes", "no"}
    PROVE  IInv'
BY DEF IInv, TypeOK, EnteredInPlan, FreshStage4, OnlyStage4Exhausted, BudgetsRespected,
       OneStageAtWork, BlockedIffFailed, DoneIsFinished, NoStageSkipped,
       OneReentryPerRevision, history

\* Every command keeps the invariant.
LEMMA NextIInv == IInv /\ [Next]_vars => IInv'
<1> SUFFICES ASSUME IInv, [Next]_vars PROVE IInv'
  OBVIOUS
<1>1. CASE Starts     BY <1>1, StartIInv DEF Starts
<1>2. CASE Completes  BY <1>2, CompleteIInv DEF Completes
<1>3. CASE Revises    BY <1>3, ReviseIInv DEF Revises
<1>4. CASE Fails      BY <1>4, FailIInv DEF Fails
<1>5. CASE Blocks     BY <1>5, BlockIInv DEF Blocks
<1>6. CASE Sets
  <2>1. ASSUME NEW v \in {"yes", "no"}, SetPerfTuning(v) PROVE IInv'
    BY <2>1, CycleUnchangedIInv DEF SetPerfTuning, IInv, TypeOK
  <2>2. ASSUME NEW a \in Artifacts, SetFinalArtifact(a) PROVE IInv'
    BY <2>2, CycleUnchangedIInv DEF SetFinalArtifact, IInv, TypeOK
  <2> QED  BY <1>6, <2>1, <2>2 DEF Sets
<1>7. CASE UNCHANGED vars
  BY <1>7, CycleUnchangedIInv DEF vars, file, history, IInv, TypeOK
<1> QED  BY <1>1, <1>2, <1>3, <1>4, <1>5, <1>6, <1>7 DEF Next

-----------------------------------------------------------------------------
(***************************************************************************)
(* The theorems.                                                           *)
(***************************************************************************)

\* Every reachable state of the file satisfies the inductive invariant.
THEOREM Inductive == Spec => []IInv
<1>1. Init => IInv
  BY InitIInv
<1>2. IInv /\ [Next]_vars => IInv'
  BY NextIInv
<1> QED  BY <1>1, <1>2, PTL DEF Spec

\* The file keeps its schema under every sequence of commands.
THEOREM TypeCorrect == Spec => []TypeOK
<1>1. IInv => TypeOK
  BY DEF IInv
<1> QED  BY Inductive, <1>1, PTL

\* Retry-budget interception, for every table of limits and every max_retry:
\* an open task has budget left everywhere and no counter passes its limit.
THEOREM Budgets == Spec => []BudgetsRespected
<1>1. IInv => BudgetsRespected
  BY DEF IInv
<1> QED  BY Inductive, <1>1, PTL

\* At most one stage is in progress, and phase and current_stage point to it.
THEOREM StageExclusion == Spec => []OneStageAtWork
<1>1. IInv => OneStageAtWork
  BY DEF IInv
<1> QED  BY Inductive, <1>1, PTL

\* Skip-stage interception: what has been entered rests on completed stages.
THEOREM StageOrder == Spec => []NoStageSkipped
<1>1. IInv => NoStageSkipped
  BY DEF IInv
<1> QED  BY Inductive, <1>1, PTL

\* DONE and FAILED mean what gate-and-retry.md says they mean: a finished plan
\* or an exhausted Stage 4, and a BLOCKED_* code exactly on failure.
THEOREM TerminalMeaning == Spec => []TerminalPhases
<1>1. IInv => TerminalPhases
  BY DEF IInv, TerminalPhases
<1> QED  BY Inductive, <1>1, PTL

\* A completed Stage 1 is entered again at most once per design revision.
THEOREM ReentryBound == Spec => []OneReentryPerRevision
<1>1. IInv => OneReentryPerRevision
  BY DEF IInv
<1> QED  BY Inductive, <1>1, PTL

\* FAILED is final.
THEOREM FailedFinal == Spec => FailedIsFinal
<1>1. ASSUME [Next]_vars, phase = "FAILED"
      PROVE  /\ phase' = "FAILED"
             /\ UNCHANGED <<stage_status, stage_retry_count, retry_count, stage_plan>>
  BY <1>1 DEF Next, Starts, Start, Reopens, Completes, Complete, Revises, Revise, Fails,
              Fail, Blocks, Block, Sets, SetPerfTuning, SetFinalArtifact, vars, file,
              TERMINAL_PHASES
<1> QED  BY <1>1, PTL DEF Spec, FailedIsFinal

\* Only a design revision sets a retry counter back; it costs one unit of the
\* revision budget and clears every stage after the first.
THEOREM ResetCostsRevision == Spec => CountersResetOnlyByRevision
<1> DEFINE Reset == \E s \in Stages : stage_retry_count'[s] < stage_retry_count[s]
           Cleared == /\ retry_count' = retry_count + 1
                      /\ \A s \in stage_plan : s > 1 => /\ stage_status'[s] = "none"
                                                       /\ stage_retry_count'[s] = 0
<1>1. ASSUME TypeOK, [Next]_vars, Reset PROVE Cleared
  <2>1. stage_retry_count \in [Stages -> Nat] /\ stage_plan \subseteq Stages
    BY <1>1 DEF TypeOK
  <2>2. CASE Revises
    BY <2>1, <2>2 DEF Revises, Revise, Downstream
  <2>3. CASE Fails
    BY <1>1, <2>1, <2>3 DEF Fails, Fail
  <2>4. CASE Starts \/ Completes \/ Blocks \/ Sets \/ UNCHANGED vars
    <3>1. UNCHANGED stage_retry_count
      BY Zenon, <2>4 DEF Starts, Start, Completes, Complete, Blocks, Block, Sets, SetPerfTuning,
                  SetFinalArtifact, vars, file
    <3> QED  BY <1>1, <2>1, <3>1
  <2> QED  BY <1>1, <2>2, <2>3, <2>4 DEF Next
<1> QED  BY <1>1, TypeCorrect, PTL DEF Spec, CountersResetOnlyByRevision
-----------------------------------------------------------------------------
(***************************************************************************)
(* The conductor's revision procedure.  A user of statectl only takes steps *)
(* of StageMachine, so its invariant IInv holds; what the procedure adds to *)
(* it is ProcedureInv.                                                      *)
(***************************************************************************)
\* While a restart of Stage 1 is owed, the plan has a Stage 1 and nothing of
\* the later stages is left.
RestartIsClean ==
    owed => /\ disciplined /\ 1 \in stage_plan
            /\ \A s \in Stages : s > 1 => stage_status[s] = "none"

\* A completed Stage 2 is the review of the last completed design.
ReviewIsCurrent ==
    disciplined /\ 2 \in stage_plan /\ stage_status[2] = "completed" => reviewed

ProcedureInv ==
    /\ IInv
    /\ disciplined \in BOOLEAN /\ owed \in BOOLEAN
    /\ RestartIsClean
    /\ ReviewIsCurrent
    /\ NothingDownstreamOfOpenStage

\* Every step of a user of statectl is a step of StageMachine.
LEMMA StepIsCommand == [CNext]_cvars => [Next]_vars
BY DEF CNext, CStarts, CStart, CCompletes, CComplete, CRevises, CRevise, CFails, CFail,
       CBlocks, CBlock, CSets, Next, Starts, Completes, Revises, Fails, Blocks, cvars

\* The procedure starts within its invariant.
LEMMA CInitInv == CInit => ProcedureInv
<1> SUFFICES ASSUME CInit PROVE ProcedureInv
  OBVIOUS
<1>1. IInv
  BY InitIInv DEF CInit
<1>2. \A s \in Stages : stage_status[s] = "none"
  BY DEF CInit, Init
<1>3. RestartIsClean /\ NothingDownstreamOfOpenStage
  BY <1>2 DEF CInit, RestartIsClean, NothingDownstreamOfOpenStage
<1>4. ReviewIsCurrent
  BY <1>2 DEF ReviewIsCurrent, Stages
<1> QED  BY Zenon, <1>1, <1>3, <1>4 DEF ProcedureInv, CInit

\* The conductor's start keeps the invariant of the procedure.
LEMMA CStartInv ==
    ASSUME ProcedureInv, NEW n \in Stages, NEW extend \in BOOLEAN, CStart(n, extend),
           UNCHANGED disciplined
    PROVE  RestartIsClean' /\ ReviewIsCurrent' /\ NothingDownstreamOfOpenStage'
<1>1. /\ TypeOK /\ EnteredInPlan
      /\ stage_plan' = stage_plan \cup {n}
      /\ stage_status' = [stage_status EXCEPT ![n] = "in_progress"]
      /\ reviewed' = reviewed
      /\ owed' = FALSE
      /\ n \in stage_plan \/ (n = 4 /\ extend)
  BY DEF ProcedureInv, IInv, CStart, Start, InPlan, Reopens
<1>2. RestartIsClean'
  BY <1>1 DEF RestartIsClean
<1>3. /\ stage_status'[n] = "in_progress"
      /\ \A s \in Stages \ {n} : stage_status'[s] = stage_status[s]
  BY <1>1 DEF TypeOK
<1>4. ReviewIsCurrent'
  BY <1>1, <1>3 DEF ReviewIsCurrent, ProcedureInv, Stages
<1>5. ASSUME disciplined, NEW s \in Stages, s > n
      PROVE  stage_status[s] = "none"
  <2>1. CASE owed
    BY <1>5, <2>1 DEF CStart, ProcedureInv, RestartIsClean, Stages
  <2>2. CASE ~owed /\ n \in stage_plan
    <3>1. stage_status[n] # "completed"
      BY <1>5, <2>2 DEF CStart
    <3> QED  BY <1>5, <2>2, <3>1 DEF ProcedureInv, NothingDownstreamOfOpenStage, Stages
  <2>3. CASE n \notin stage_plan
    <3>1. n = 4 /\ 5 \notin stage_plan
      BY <1>1, <1>5, <2>3 DEF CStart
    <3> QED  BY <1>1, <1>5, <3>1 DEF EnteredInPlan, Stages
  <2> QED  BY <2>1, <2>2, <2>3
<1>6. ASSUME disciplined, NEW p \in stage_plan, p < n
      PROVE  stage_status[p] = "completed"
  <2>1. CASE stage_status[n] = "none"
    BY <1>6, <2>1 DEF CStart, Start, Enterable, RevisionReentry, InOrder
  <2>2. CASE stage_status[n] # "none"
    BY <1>6, <2>2 DEF ProcedureInv, NothingDownstreamOfOpenStage
  <2> QED  BY <2>1, <2>2
<1>7. NothingDownstreamOfOpenStage'
  <2> SUFFICES ASSUME disciplined, NEW s \in Stages, stage_status'[s] # "none",
                      NEW p \in stage_plan', p < s
               PROVE  stage_status'[p] = "completed"
    BY DEF NothingDownstreamOfOpenStage
  <2>1. p \in Stages
    BY <1>1 DEF TypeOK
  <2>2. CASE s = n
    BY <1>1, <1>3, <1>6, <2>1, <2>2 DEF Stages
  <2>3. CASE s # n
    <3>1. stage_status[s] # "none"
      BY <1>3, <2>3
    <3>2. s < n
      BY <1>5, <2>3, <3>1 DEF Stages
    <3>3. p # n /\ p \in stage_plan
      BY <1>1, <2>1, <3>2 DEF Stages
    <3> QED
      BY <1>3, <2>1, <3>1, <3>3 DEF ProcedureInv, NothingDownstreamOfOpenStage
  <2> QED  BY <2>2, <2>3
<1> QED  BY <1>2, <1>4, <1>7

\* The conductor's design revision keeps the invariant of the procedure.
LEMMA CReviseInv ==
    ASSUME ProcedureInv, NEW n \in Stages, CRevise(n), UNCHANGED disciplined
    PROVE  RestartIsClean' /\ ReviewIsCurrent' /\ NothingDownstreamOfOpenStage'
<1>1. CASE ~disciplined
  BY <1>1 DEF CRevise, RestartIsClean, ReviewIsCurrent, NothingDownstreamOfOpenStage,
              ProcedureInv
<1>2. CASE disciplined
  <2>1. /\ TypeOK /\ EnteredInPlan
        /\ 1 \in stage_plan /\ n \in 2..4
        /\ stage_status[n] # "none"
        /\ stage_plan' = stage_plan
        /\ stage_status' = [s \in Stages |-> IF s \in Downstream THEN "none"
                                             ELSE IF s = n THEN "failed"
                                             ELSE stage_status[s]]
    BY <1>2 DEF ProcedureInv, IInv, CRevise, Revise
  <2>2. \A s \in Stages : s > 1 => stage_status'[s] = "none"
    BY <2>1 DEF Downstream, EnteredInPlan, Stages
  <2>3. \A s \in {0, 1} : stage_status'[s] = stage_status[s]
    BY <2>1 DEF Downstream, Stages
  <2>4. RestartIsClean' /\ ReviewIsCurrent'
    BY <1>2, <2>1, <2>2 DEF RestartIsClean, ReviewIsCurrent, Stages
  <2>5. NothingDownstreamOfOpenStage'
    <3> SUFFICES ASSUME NEW s \in Stages, stage_status'[s] # "none",
                        NEW p \in stage_plan, p < s
                 PROVE  stage_status'[p] = "completed"
      BY <2>1 DEF NothingDownstreamOfOpenStage
    <3>1. s = 1 /\ p = 0
      BY <2>1, <2>2 DEF Stages, TypeOK
    <3> QED
      BY <1>2, <2>3, <3>1 DEF ProcedureInv, NothingDownstreamOfOpenStage, Stages
  <2> QED  BY <2>4, <2>5
<1> QED  BY <1>1, <1>2 DEF ProcedureInv

\* The conductor's complete keeps the invariant of the procedure.
LEMMA CCompleteInv ==
    ASSUME ProcedureInv, NEW n \in Stages, NEW present \in SUBSET Artifacts,
           CComplete(n, present), UNCHANGED disciplined
    PROVE  RestartIsClean' /\ ReviewIsCurrent' /\ NothingDownstreamOfOpenStage'
<1>1. /\ TypeOK
      /\ stage_plan' = stage_plan
      /\ stage_status[n] = "in_progress"
      /\ stage_status' = [stage_status EXCEPT ![n] = "completed"]
      /\ reviewed' = (n = 2 \/ (n # 1 /\ reviewed))
      /\ disciplined => ~owed
      /\ owed' = owed
  BY DEF ProcedureInv, IInv, CComplete, Complete
<1>2. /\ stage_status'[n] = "completed"
      /\ \A s \in Stages \ {n} : stage_status'[s] = stage_status[s]
  BY <1>1 DEF TypeOK
<1>3. RestartIsClean'
  BY <1>1 DEF RestartIsClean, ProcedureInv
<1>4. NothingDownstreamOfOpenStage'
  BY <1>1, <1>2 DEF NothingDownstreamOfOpenStage, ProcedureInv, TypeOK
<1>5. ReviewIsCurrent'
  <2> SUFFICES ASSUME disciplined, 2 \in stage_plan, stage_status'[2] = "completed"
               PROVE  reviewed'
    BY <1>1 DEF ReviewIsCurrent
  <2>1. CASE n = 2  BY Zenon, <1>1, <2>1
  <2>2. CASE n = 1
    <3>1. n \in stage_plan
      BY <1>1 DEF ProcedureInv, IInv, EnteredInPlan
    <3> QED
      BY <1>1, <1>2, <2>2, <3>1 DEF ProcedureInv, NothingDownstreamOfOpenStage, Stages
  <2>3. CASE n \notin {1, 2}
    <3>1. stage_status[2] = "completed"
      BY <1>2, <2>3 DEF Stages
    <3>2. reviewed
      BY <3>1 DEF ProcedureInv, ReviewIsCurrent
    <3> QED  BY Zenon, <1>1, <2>3, <3>2
  <2> QED  BY <2>1, <2>2, <2>3
<1> QED  BY <1>3, <1>4, <1>5

\* The conductor's fail keeps the invariant of the procedure.
LEMMA CFailInv ==
    ASSUME ProcedureInv, NEW n \in Stages, NEW fail_type \in FailTypes,
           NEW present \in SUBSET Artifacts, CFail(n, fail_type, present),
           UNCHANGED disciplined
    PROVE  RestartIsClean' /\ ReviewIsCurrent' /\ NothingDownstreamOfOpenStage'
<1>1. /\ TypeOK
      /\ stage_plan' = stage_plan /\ reviewed' = reviewed /\ owed' = owed
      /\ stage_status[n] # "none" /\ stage_status[n] # "completed"
      /\ stage_status' = [stage_status EXCEPT ![n] = "failed"]
      /\ disciplined => ~owed
  BY DEF ProcedureInv, IInv, CFail, Fail, history
<1>2. /\ stage_status'[n] = "failed"
      /\ \A s \in Stages \ {n} : stage_status'[s] = stage_status[s]
  BY <1>1 DEF TypeOK
<1>3. RestartIsClean'
  BY <1>1 DEF RestartIsClean, ProcedureInv
<1>4. NothingDownstreamOfOpenStage'
  BY <1>1, <1>2 DEF NothingDownstreamOfOpenStage, ProcedureInv, TypeOK
<1>5. ReviewIsCurrent'
  BY <1>1, <1>2 DEF ReviewIsCurrent, ProcedureInv, Stages
<1> QED  BY <1>3, <1>4, <1>5

\* Every step of the procedure keeps its invariant.
LEMMA CNextInv == ProcedureInv /\ [CNext]_cvars => ProcedureInv'
<1> SUFFICES ASSUME ProcedureInv, [CNext]_cvars PROVE ProcedureInv'
  OBVIOUS
<1>1. IInv'
  BY StepIsCommand, NextIInv DEF ProcedureInv
<1>2. disciplined' = disciplined /\ owed' \in BOOLEAN
  BY Zenon DEF ProcedureInv, CNext, CStarts, CStart, CCompletes, CComplete, CRevises, CRevise,
         CFails, CFail, CBlocks, CBlock, CSets, cvars
<1> DEFINE Added == RestartIsClean /\ ReviewIsCurrent /\ NothingDownstreamOfOpenStage
<1>3. CStarts => Added'
  BY <1>2, CStartInv DEF CStarts
<1>4. CCompletes => Added'
  BY <1>2, CCompleteInv DEF CCompletes
<1>5. CRevises => Added'
  BY <1>2, CReviseInv DEF CRevises
<1>6. CFails => Added'
  BY <1>2, CFailInv DEF CFails
<1>7. UNCHANGED <<stage_plan, stage_status, reviewed, owed, disciplined>> => Added'
  BY DEF ProcedureInv, RestartIsClean, ReviewIsCurrent, NothingDownstreamOfOpenStage
<1>8. CBlocks \/ CSets \/ UNCHANGED cvars =>
          UNCHANGED <<stage_plan, stage_status, reviewed, owed, disciplined>>
  BY <1>2 DEF CBlocks, CBlock, Block, CSets, Sets, SetPerfTuning, SetFinalArtifact,
              cvars, vars, file, history
<1>9. Added'
  BY <1>3, <1>4, <1>5, <1>6, <1>7, <1>8 DEF CNext
<1> QED  BY <1>1, <1>2, <1>9 DEF ProcedureInv
-----------------------------------------------------------------------------
\* A user of statectl, disciplined or not, only does what StageMachine allows:
\* every theorem about Spec holds of it.
THEOREM UsersRefine == CSpec => Spec
<1>1. CInit => Init
  BY DEF CInit
<1> QED  BY <1>1, StepIsCommand, PTL DEF CSpec, Spec

\* The invariant of the revision procedure holds throughout, for every plan and budget.
THEOREM ProcedureInductive == CSpec => []ProcedureInv
BY CInitInv, CNextInv, PTL DEF CSpec

\* Under the procedure no stage's work outlives the stages it rests on.
THEOREM RevisionLeavesNothing == CSpec => []NothingDownstreamOfOpenStage
<1>1. ProcedureInv => NothingDownstreamOfOpenStage
  BY DEF ProcedureInv
<1> QED  BY ProcedureInductive, <1>1, PTL

\* Under the procedure what is implemented or tuned was reviewed.
THEOREM OnlyReviewedDesigns == CSpec => []DesignReviewed
<1>1. ProcedureInv => DesignReviewed
  <2> SUFFICES ASSUME ProcedureInv, disciplined, NEW s \in {3, 4},
                      stage_status[s] \in {"in_progress", "completed"}, 2 \in stage_plan
               PROVE  reviewed
    BY DEF DesignReviewed, ReviewedDesign
  <2>1. stage_status[2] = "completed"
    BY DEF ProcedureInv, NothingDownstreamOfOpenStage, Stages
  <2> QED  BY <2>1 DEF ProcedureInv, ReviewIsCurrent
<1> QED  BY ProcedureInductive, <1>1, PTL

\* Under the procedure a DONE task has delivered its whole plan, an exhausted
\* Stage 4 apart, whatever the plan was, unless it was given both a Stage 4 and
\* an integration stage (there an exhausted Stage 4 ends the task before Stage 5).
THEOREM DoneMeansDelivered ==
    ASSUME ~({4, 5} \subseteq InitPlan)
    PROVE  CSpec => []DoneIsDelivered
<1> DEFINE NotBoth == disciplined => ~(4 \in stage_plan /\ 5 \in stage_plan)
<1>1. CInit => NotBoth
  BY DEF CInit, Init
<1>2. NotBoth /\ [CNext]_cvars => NotBoth'
  <2> SUFFICES ASSUME NotBoth, [CNext]_cvars PROVE NotBoth'
    OBVIOUS
  <2>1. disciplined' = disciplined
    BY Zenon DEF CNext, cvars
  <2>2. CStarts => NotBoth'
    <3> SUFFICES ASSUME NEW n \in Stages, NEW extend \in BOOLEAN, CStart(n, extend),
                        disciplined
                 PROVE  ~(4 \in stage_plan' /\ 5 \in stage_plan')
      BY <2>1 DEF CStarts
    <3>1. stage_plan' = stage_plan \cup {n}
      BY DEF CStart, Start
    <3>2. n \in stage_plan \/ (n = 4 /\ 5 \notin stage_plan)
      BY DEF CStart, Start, InPlan, Reopens
    <3> QED  BY <3>1, <3>2
  <2>3. ~CStarts => UNCHANGED stage_plan
    BY Zenon DEF CNext, CCompletes, CComplete, Complete, CRevises, CRevise, Revise,
           CFails, CFail, Fail, CBlocks, CBlock, Block, CSets,
           Sets, SetPerfTuning, SetFinalArtifact, cvars, vars, file
  <2> QED  BY <2>1, <2>2, <2>3
<1>3. ProcedureInv /\ NotBoth => DoneIsDelivered
  <2> SUFFICES ASSUME ProcedureInv, NotBoth, disciplined, phase = "DONE",
                      NEW s \in stage_plan, stage_status[s] # "completed"
               PROVE  s = 4 /\ stage_retry_count[4] = RetryLimit[4]
    BY DEF DoneIsDelivered
  <2>1. stage_status[4] = "failed" /\ stage_retry_count[4] = RetryLimit[4]
    BY DEF ProcedureInv, IInv, DoneIsFinished
  <2>2. 4 \in stage_plan
    BY <2>1 DEF ProcedureInv, IInv, EnteredInPlan, Stages
  <2>3. s \in 0..4
    BY <2>2 DEF ProcedureInv, IInv, TypeOK, Stages
  <2>4. s >= 4
    BY <2>1, <2>3 DEF ProcedureInv, NothingDownstreamOfOpenStage, Stages
  <2> QED  BY <2>1, <2>3, <2>4
<1> QED  BY ProcedureInductive, <1>1, <1>2, <1>3, PTL DEF CSpec
=============================================================================
