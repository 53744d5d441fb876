---------------------------- MODULE StageMachine ----------------------------
(***************************************************************************)
(* The stage state machine of one operator task: the file                  *)
(* .stage_state.json and the statectl commands that change it              *)
(* (.agents/tools/statectl.py).  A command that is rejected writes nothing *)
(* to the file, so only accepted commands are actions.  The mechanical     *)
(* gate, the artifacts present on disk and the arguments of a command are  *)
(* inputs.                                                                 *)
(***************************************************************************)
EXTENDS Naturals, FiniteSets

CONSTANTS
    Scenario,       \* "new_op", "migration" or "optimize"
    InitPlan,       \* the stage plan `init` writes: a list in ascending order
                    \* without repetitions, so a set
    MaxRetry,       \* --max-retry: the budget of design revisions
    RetryLimit      \* STAGE_RETRY_LIMITS, on the stages that have one

VARIABLES
    stage_plan,             \* the stages to go through, in ascending order
    stage_status,           \* stage -> "none" (absent from the file), ...
    stage_retry_count,      \* stage -> ordinary failures counted
    retry_count,            \* design revisions counted
    last_failure_reason,    \* "design_revision" is the revision pass
    failure_reason,         \* the BLOCKED_* code of a FAILED task
    phase,
    current_stage,
    final_artifact,
    perf_tuning_requested,
    \* History, not in the file: whether the last completed design has passed a
    \* review since, and how often a completed Stage 1 was entered again.
    reviewed, reentries

file == <<stage_plan, stage_status, stage_retry_count, retry_count,
          last_failure_reason, failure_reason, phase, current_stage,
          final_artifact, perf_tuning_requested>>
history == <<reviewed, reentries>>
vars == <<file, history>>

Stages == 0..5
LimitedStages == {0, 1, 3, 4, 5}
Statuses == {"none", "in_progress", "failed", "completed"}
Artifacts == {"kernel", "kernel_opt"}
STAGE_PHASE == [s \in Stages |-> CASE s = 0 -> "SCAFFOLD"
                                   [] s = 1 -> "DESIGN"
                                   [] s = 2 -> "REVIEW"
                                   [] s = 3 -> "DEVELOP"
                                   [] s = 4 -> "TUNING"
                                   [] s = 5 -> "INTEGRATE"]
TERMINAL_PHASES == {"DONE", "FAILED"}
BLOCKED_CODES == {"BLOCKED_DESIGN", "BLOCKED_IMPL", "BLOCKED_ACCURACY",
                  "BLOCKED_SCAFFOLD", "BLOCKED_INTEGRATION",
                  "BLOCKED_ENVIRONMENT", "BLOCKED_SPEC"}
BLOCKED_BY_STAGE == [s \in {0, 1, 5} |-> CASE s = 0 -> "BLOCKED_SCAFFOLD"
                                           [] s = 1 -> "BLOCKED_DESIGN"
                                           [] s = 5 -> "BLOCKED_INTEGRATION"]

ASSUME ConstantsAssumption ==
    /\ Scenario \in {"new_op", "migration", "optimize"}
    /\ InitPlan \subseteq Stages
    /\ InitPlan # {}
    /\ MaxRetry \in Nat
    /\ RetryLimit \in [LimitedStages -> Nat \ {0}]

FirstOf(S) == CHOOSE s \in S : \A t \in S : s <= t

-----------------------------------------------------------------------------
(***************************************************************************)
(* init: the file as the command creates it.                               *)
(***************************************************************************)
Init ==
    /\ stage_plan = InitPlan
    /\ stage_status = [s \in Stages |-> "none"]
    /\ stage_retry_count = [s \in Stages |-> 0]
    /\ retry_count = 0
    /\ last_failure_reason = "none"
    /\ failure_reason = "none"
    /\ phase = STAGE_PHASE[FirstOf(InitPlan)]
    /\ current_stage = FirstOf(InitPlan)
    /\ final_artifact = "none"
    /\ perf_tuning_requested = "none"
    /\ reviewed = FALSE /\ reentries = 0

(***************************************************************************)
(* start N [--extend].                                                     *)
(***************************************************************************)
ReopensAnyTerminal(n, extend) ==    \* mutant: FAILED is not told from DONE
    /\ extend /\ n = 4 /\ stage_status[3] = "completed"

Reopens(n, extend) ==
    /\ extend
    /\ phase = "DONE"
    /\ failure_reason = "none"
    /\ n = 4
    /\ Scenario \in {"new_op", "migration"}
    /\ stage_status[3] = "completed"
    /\ perf_tuning_requested \in {"none", "yes"}

InPlan(n, extend) == n \in stage_plan \/ (extend /\ n = 4)

RevisionReentry(n) ==
    /\ stage_status[n] = "completed"
    /\ n = 1
    /\ last_failure_reason = "design_revision"
    /\ retry_count < MaxRetry

NoOtherInProgressUnchecked(n) == TRUE    \* mutant: no E-CONCURRENT

NoOtherInProgress(n) == \A s \in Stages \ {n} : stage_status[s] # "in_progress"

InOrderByStarted(n) ==    \* mutant: a predecessor need only have been entered
    \A s \in stage_plan : s < n => stage_status[s] # "none"

InOrder(n) == \A s \in stage_plan : s < n => stage_status[s] = "completed"

PassKept(n) == last_failure_reason    \* mutant: the pass is not taken away

PassAfterStart(n) == IF RevisionReentry(n) THEN "none" ELSE last_failure_reason

BudgetLeft(n) == n \in LimitedStages => stage_retry_count[n] < RetryLimit[n]

EnterableAgain(n) ==    \* mutant: no E-COMPLETED
    stage_status[n] # "in_progress" /\ BudgetLeft(n) /\ InOrder(n)

Enterable(n) ==
    \/ RevisionReentry(n)
    \/ stage_status[n] = "failed" /\ BudgetLeft(n)
    \/ stage_status[n] = "none" /\ InOrder(n)

Start(n, extend) ==
    /\ IF phase \in TERMINAL_PHASES THEN Reopens(n, extend) ELSE InPlan(n, extend)
    /\ NoOtherInProgress(n)
    /\ Enterable(n)
    /\ stage_plan' = stage_plan \cup {n}
    /\ final_artifact' = IF phase \in TERMINAL_PHASES THEN "none" ELSE final_artifact
    /\ last_failure_reason' = PassAfterStart(n)
    /\ stage_status' = [stage_status EXCEPT ![n] = "in_progress"]
    /\ phase' = STAGE_PHASE[n]
    /\ current_stage' = n
    /\ reentries' = IF RevisionReentry(n) THEN reentries + 1 ELSE reentries
    /\ UNCHANGED <<stage_retry_count, retry_count, failure_reason,
                   perf_tuning_requested, reviewed>>

(***************************************************************************)
(* complete N, its gate having passed.  present: the kernels on disk.      *)
(***************************************************************************)
choose_final_artifact(status, present) ==
    IF /\ status[4] = "completed" \/ Scenario = "optimize"
       /\ "kernel_opt" \in present
    THEN "kernel_opt"
    ELSE IF "kernel" \in present THEN "kernel" ELSE "none"

OpenIfNeverEntered(status) ==    \* mutant: a failed stage counts as finished
    {s \in stage_plan : status[s] = "none"}

OpenStages(status) == {s \in stage_plan : status[s] # "completed"}

Complete(n, present) ==
    LET status == [stage_status EXCEPT ![n] = "completed"]
        open   == OpenStages(status)
    IN  /\ phase \notin TERMINAL_PHASES
        /\ stage_status[n] = "in_progress"
        /\ stage_status' = status
        /\ IF open = {}
           THEN /\ phase' = "DONE"
                /\ final_artifact' = choose_final_artifact(status, present)
                /\ UNCHANGED current_stage
           ELSE /\ phase' = STAGE_PHASE[FirstOf(open)]
                /\ current_stage' = FirstOf(open)
                /\ UNCHANGED final_artifact
        /\ reviewed' = (n = 2 \/ (n # 1 /\ reviewed))
        /\ UNCHANGED <<stage_plan, stage_retry_count, retry_count,
                       last_failure_reason, failure_reason,
                       perf_tuning_requested, reentries>>

(***************************************************************************)
(* fail N --blocked-code: the only command that looks at neither the phase *)
(* nor the stage.                                                          *)
(***************************************************************************)
Block(code) ==
    /\ phase' = "FAILED"
    /\ failure_reason' = code
    /\ last_failure_reason' = code
    /\ UNCHANGED <<stage_plan, stage_status, stage_retry_count, retry_count,
                   current_stage, final_artifact, perf_tuning_requested, history>>

(***************************************************************************)
(* fail N --reason design_revision: everything after Stage 1 starts afresh.*)
(***************************************************************************)
DownstreamOfReview == {s \in stage_plan : s > 2}    \* mutant: off by one

Downstream == {s \in stage_plan : s > 1}

Revise(n) ==
    /\ phase \notin TERMINAL_PHASES
    /\ stage_status[n] # "none"
    /\ stage_status' = [s \in Stages |-> IF s \in Downstream THEN "none"
                                         ELSE IF s = n THEN "failed"
                                         ELSE stage_status[s]]
    /\ stage_retry_count' = [s \in Stages |-> IF s \in Downstream THEN 0
                                              ELSE stage_retry_count[s]]
    /\ retry_count' = retry_count + 1
    /\ last_failure_reason' = "design_revision"
    /\ IF retry_count' >= MaxRetry
       THEN phase' = "FAILED" /\ failure_reason' = "BLOCKED_DESIGN"
       ELSE UNCHANGED <<phase, failure_reason>>
    /\ UNCHANGED <<stage_plan, current_stage, final_artifact,
                   perf_tuning_requested, history>>

(***************************************************************************)
(* fail N: an ordinary failure.  At its limit Stage 4 ends the task with   *)
(* what it has; every other stage blocks it.                               *)
(***************************************************************************)
LimitReachedLate(n, count) == count > RetryLimit[n]     \* mutant: off by one
LimitReachedEarly(n, count) == count + 1 >= RetryLimit[n]   \* mutant: off by one

LimitReached(n, count) == count >= RetryLimit[n]

BlockedReason(n, fail_type) ==
    IF n = 3 THEN IF fail_type = "precision" THEN "BLOCKED_ACCURACY" ELSE "BLOCKED_IMPL"
    ELSE BLOCKED_BY_STAGE[n]

Fail(n, fail_type, present) ==
    LET status == [stage_status EXCEPT ![n] = "failed"]
    IN  /\ phase \notin TERMINAL_PHASES
        /\ n # 2
        /\ stage_status[n] \in {"in_progress", "failed"}
        /\ stage_status' = status
        /\ stage_retry_count' = [stage_retry_count EXCEPT ![n] = @ + 1]
        /\ IF ~LimitReached(n, stage_retry_count[n] + 1)
           THEN UNCHANGED <<phase, failure_reason, final_artifact>>
           ELSE IF n = 4
           THEN /\ phase' = "DONE"
                /\ final_artifact' = choose_final_artifact(status, present)
                /\ UNCHANGED failure_reason
           ELSE /\ phase' = "FAILED"
                /\ failure_reason' = BlockedReason(n, fail_type)
                /\ UNCHANGED final_artifact
        /\ UNCHANGED <<stage_plan, retry_count, last_failure_reason,
                       current_stage, perf_tuning_requested, history>>

(***************************************************************************)
(* set: the two fields that other commands read or write.                  *)
(***************************************************************************)
SetPerfTuning(v) ==
    /\ perf_tuning_requested' = v
    /\ UNCHANGED <<stage_plan, stage_status, stage_retry_count, retry_count,
                   last_failure_reason, failure_reason, phase, current_stage,
                   final_artifact, history>>

SetFinalArtifact(a) ==
    /\ final_artifact' = a
    /\ UNCHANGED <<stage_plan, stage_status, stage_retry_count, retry_count,
                   last_failure_reason, failure_reason, phase, current_stage,
                   perf_tuning_requested, history>>

-----------------------------------------------------------------------------
FailTypes == {"runtime", "precision"}

Starts == \E n \in Stages, extend \in BOOLEAN : Start(n, extend)
Completes == \E n \in Stages, present \in SUBSET Artifacts : Complete(n, present)
Revises == \E n \in Stages : Revise(n)
Fails == \E n \in Stages, fail_type \in FailTypes, present \in SUBSET Artifacts :
             Fail(n, fail_type, present)
Blocks == \E code \in BLOCKED_CODES : Block(code)
Sets == \/ \E v \in {"yes", "no"} : SetPerfTuning(v)
        \/ \E a \in Artifacts : SetFinalArtifact(a)

Next == Starts \/ Completes \/ Revises \/ Fails \/ Blocks \/ Sets

Spec == Init /\ [][Next]_vars

-----------------------------------------------------------------------------
(***************************************************************************)
(* Properties                                                              *)
(***************************************************************************)

\* Every field of the file keeps the values state_schema_lint accepts.
TypeOK ==
    /\ stage_plan \subseteq Stages
    /\ stage_status \in [Stages -> Statuses]
    /\ stage_retry_count \in [Stages -> Nat]
    /\ retry_count \in Nat
    /\ last_failure_reason \in {"none", "design_revision"} \cup BLOCKED_CODES
    /\ failure_reason \in {"none"} \cup BLOCKED_CODES
    /\ phase \in {STAGE_PHASE[s] : s \in Stages} \cup TERMINAL_PHASES
    /\ current_stage \in Stages
    /\ final_artifact \in {"none"} \cup Artifacts
    /\ perf_tuning_requested \in {"none", "yes", "no"}
    /\ reviewed \in BOOLEAN /\ reentries \in Nat

\* Retry-budget interception: an open task has budget left on every counter,
\* and no sequence of fail, start, design revision and Stage 4 reopening takes
\* a stage past its limit (fail may be repeated without a start in between,
\* and a revision sets the downstream counters back).
BudgetsRespected ==
    /\ phase \notin TERMINAL_PHASES =>
          /\ retry_count = 0 \/ retry_count < MaxRetry
          /\ \A s \in LimitedStages : stage_retry_count[s] < RetryLimit[s]
    /\ \A s \in LimitedStages : stage_retry_count[s] <= RetryLimit[s]

\* At most one stage is in progress, and while the task is open the phase and
\* current_stage name that stage, so a conductor that resumes from the file
\* goes on with the stage that is really running.
OneStageAtWork ==
    \A s \in Stages : stage_status[s] = "in_progress" =>
        /\ \A t \in Stages : stage_status[t] = "in_progress" => t = s
        /\ phase \notin TERMINAL_PHASES =>
              phase = STAGE_PHASE[s] /\ current_stage = s

\* A task carries a BLOCKED_* code exactly when it has FAILED, whichever of
\* the four ways it took, and although blocking works on a DONE task and a
\* DONE task may be opened again.
BlockedIffFailed == phase = "FAILED" <=> failure_reason # "none"

\* A task is DONE only when each stage of its plan is completed, or Stage 4
\* has used up its iterations.
DoneIsFinished ==
    phase = "DONE" =>
        \/ \A s \in stage_plan : stage_status[s] = "completed"
        \/ stage_status[4] = "failed" /\ stage_retry_count[4] = RetryLimit[4]

\* The two terminal phases mean what they say.
TerminalPhases == BlockedIffFailed /\ DoneIsFinished

\* No stage is skipped: a stage has been entered only if every stage between
\* Stage 1 and it in the plan is completed.  Stage 1 itself may be open again
\* (a revision) and an optional Stage 4 may join the plan late.
NoStageSkipped ==
    \A s \in Stages : stage_status[s] # "none" =>
        \A p \in stage_plan : 1 < p /\ p < s /\ p # 4 => stage_status[p] = "completed"

\* The revision pass is good for one re-entry of a completed Stage 1: there
\* are never more re-entries than revisions, and an unused pass is counted.
OneReentryPerRevision ==
    reentries + (IF last_failure_reason = "design_revision" THEN 1 ELSE 0)
        <= retry_count

\* FAILED is final: later commands may replace its code, and nothing else of
\* the stage cycle.
FailedIsFinal ==
    [][phase = "FAILED" => /\ phase' = "FAILED"
                           /\ UNCHANGED <<stage_status, stage_retry_count,
                                          retry_count, stage_plan>>]_vars

\* A design revision costs exactly one unit of the shared budget and leaves
\* every later stage as new; nothing else gives a stage a fresh counter.
CountersResetOnlyByRevision ==
    [][(\E s \in Stages : stage_retry_count'[s] < stage_retry_count[s]) =>
          /\ retry_count' = retry_count + 1
          /\ \A s \in stage_plan : s > 1 => /\ stage_status'[s] = "none"
                                           /\ stage_retry_count'[s] = 0]_vars

\* A conductor that keeps issuing commands brings the task to an end: no cycle
\* of fail, start, revision, re-entry and Stage 4 reopening goes on for ever,
\* and no open state is without an acceptable command.
TaskEnds == <>[](phase \in TERMINAL_PHASES)

\* What is implemented was reviewed: a stage after the review is entered or
\* completed only while the last completed design is a reviewed one.
ReviewedDesign ==
    \A s \in {3, 4} : stage_status[s] \in {"in_progress", "completed"} /\ 2 \in stage_plan
        => reviewed
=============================================================================
