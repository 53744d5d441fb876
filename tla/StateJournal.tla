---------------------------- MODULE StateJournal ----------------------------
(***************************************************************************)
(* How a statectl command reaches the disk.  A command loads the state      *)
(* file, decides on its copy, replaces the file atomically and only then    *)
(* reads and extends the timeline (.task_timeline.jsonl).  Nothing locks    *)
(* the task directory, and the process may be killed between any two of     *)
(* these steps.  StageMachine takes each command as one atomic step; here    *)
(* the same commands are functions of the copy that was loaded.             *)
(*                                                                         *)
(* Left to StageMachine: `start 4 --extend`, `fail --blocked-code`.         *)
(***************************************************************************)
EXTENDS Naturals, FiniteSets

CONSTANTS
    Sessions,           \* conductor sessions working in one task directory
    InitPlan, MaxRetry, RetryLimit,     \* as in StageMachine
    MaxDispatches,      \* budget.max_subagent_dispatches
    MaxCommands, MaxCrashes     \* bounds on the commands issued and processes killed

VARIABLES
    exclusive,  \* the conductor has the directory to itself: one command at a time
    file,       \* .stage_state.json
    logged,     \* `start` events on the timeline
    pc, cmd,    \* per session: next step; the command it runs
    mem,        \* per session: ctx.state, the copy it loaded
    exceeded,   \* per session: the budget flag of its start
    \* History: starts accepted, commands issued, processes killed.
    dispatched, commands, crashes

vars == <<exclusive, file, logged, pc, cmd, mem, exceeded, dispatched, commands, crashes>>

\* choose_final_artifact, where both kernels are on disk.
FinalArtifact(d) == IF d.phase # "DONE" THEN "none"
                    ELSE IF d.status[4] = "completed" THEN "kernel_opt" ELSE "kernel"

\* The atomic commands, on the file.
SM == INSTANCE StageMachine WITH
    Scenario <- "new_op",
    stage_plan <- InitPlan,
    stage_status <- file.status,
    stage_retry_count <- file.failures,
    retry_count <- file.revisions,
    last_failure_reason <- file.last_failure,
    failure_reason <- file.failure,
    phase <- file.phase,
    current_stage <- file.current,
    final_artifact <- FinalArtifact(file),
    perf_tuning_requested <- file.tuning,
    reviewed <- file.reviewed,
    reentries <- file.reentries

ASSUME JournalAssumption ==
    /\ InitPlan \subseteq 0..5 /\ InitPlan # {}
    /\ MaxRetry \in Nat /\ RetryLimit \in [{0, 1, 3, 4, 5} -> Nat \ {0}]
    /\ MaxDispatches \in Nat /\ MaxCommands \in Nat /\ MaxCrashes \in Nat

Stages == 0..5
NewFile ==
    [status |-> [s \in Stages |-> "none"], failures |-> [s \in Stages |-> 0],
     revisions |-> 0, last_failure |-> "none", failure |-> "none",
     phase |-> SM!STAGE_PHASE[SM!FirstOf(InitPlan)],
     current |-> SM!FirstOf(InitPlan), tuning |-> "none",
     reviewed |-> FALSE, reentries |-> 0]
Commands == [op : {"start", "complete", "fail", "revise"}, stage : InitPlan]
            \cup [op : {"set"}, stage : {0}]
NoCmd == [op |-> "none", stage |-> 0]

-----------------------------------------------------------------------------
(***************************************************************************)
(* The commands on a loaded copy d: what is accepted, what is written.      *)
(***************************************************************************)
Open(d) == d.phase \notin {"DONE", "FAILED"}

Reentry(d, n) ==
    /\ d.status[n] = "completed" /\ n = 1
    /\ d.last_failure = "design_revision" /\ d.revisions < MaxRetry

CanStart(d, n) ==
    /\ Open(d)
    /\ \A s \in Stages \ {n} : d.status[s] # "in_progress"
    /\ \/ Reentry(d, n)
       \/ d.status[n] = "failed" /\ (n # 2 => d.failures[n] < RetryLimit[n])
       \/ d.status[n] = "none" /\ \A s \in InitPlan : s < n => d.status[s] = "completed"

Started(d, n) ==
    [d EXCEPT !.status[n] = "in_progress",
              !.phase = SM!STAGE_PHASE[n], !.current = n,
              !.last_failure = IF Reentry(d, n) THEN "none" ELSE @,
              !.reentries = IF Reentry(d, n) THEN @ + 1 ELSE @]

Completed(d, n) ==
    LET open == {s \in InitPlan \ {n} : d.status[s] # "completed"}
    IN  [d EXCEPT !.status[n] = "completed",
                  !.phase = IF open = {} THEN "DONE" ELSE SM!STAGE_PHASE[SM!FirstOf(open)],
                  !.current = IF open = {} THEN @ ELSE SM!FirstOf(open),
                  !.reviewed = (n = 2 \/ (n # 1 /\ @))]

Failed(d, n) ==
    LET count == d.failures[n] + 1
        exhausted == count >= RetryLimit[n]
    IN  [d EXCEPT !.status[n] = "failed", !.failures[n] = count,
                  !.phase = IF ~exhausted THEN @ ELSE IF n = 4 THEN "DONE" ELSE "FAILED",
                  !.failure = IF exhausted /\ n # 4
                              THEN SM!BlockedReason(n, "runtime") ELSE @]

RevisedCountersKept(d, n) ==    \* mutant: the later stages keep their counters
    LET count == d.revisions + 1
    IN  [d EXCEPT !.status = [s \in Stages |-> IF s \in InitPlan /\ s > 1 THEN "none"
                                               ELSE IF s = n THEN "failed" ELSE @[s]],
                  !.revisions = count, !.last_failure = "design_revision",
                  !.phase = IF count >= MaxRetry THEN "FAILED" ELSE @,
                  !.failure = IF count >= MaxRetry THEN "BLOCKED_DESIGN" ELSE @]

Revised(d, n) ==
    LET count == d.revisions + 1
        fresh == {s \in InitPlan : s > 1}
    IN  [d EXCEPT !.status = [s \in Stages |-> IF s \in fresh THEN "none"
                                               ELSE IF s = n THEN "failed" ELSE @[s]],
                  !.failures = [s \in Stages |-> IF s \in fresh THEN 0 ELSE @[s]],
                  !.revisions = count, !.last_failure = "design_revision",
                  !.phase = IF count >= MaxRetry THEN "FAILED" ELSE @,
                  !.failure = IF count >= MaxRetry THEN "BLOCKED_DESIGN" ELSE @]

Accepts(d, c) ==
    CASE c.op = "start"    -> CanStart(d, c.stage)
      [] c.op = "complete" -> Open(d) /\ d.status[c.stage] = "in_progress"
      [] c.op = "fail"     -> /\ Open(d) /\ c.stage # 2
                              /\ d.status[c.stage] \in {"in_progress", "failed"}
      [] c.op = "revise"   -> Open(d) /\ d.status[c.stage] # "none"
      [] c.op = "set"      -> TRUE

Written(d, c) ==
    CASE c.op = "start"    -> Started(d, c.stage)
      [] c.op = "complete" -> Completed(d, c.stage)
      [] c.op = "fail"     -> Failed(d, c.stage)
      [] c.op = "revise"   -> Revised(d, c.stage)
      [] c.op = "set"      -> [d EXCEPT !.tuning = "yes"]

-----------------------------------------------------------------------------
Init ==
    /\ exclusive \in BOOLEAN
    /\ file = NewFile
    /\ logged = 0
    /\ pc = [p \in Sessions |-> "idle"] /\ cmd = [p \in Sessions |-> NoCmd]
    /\ mem = [p \in Sessions |-> NewFile] /\ exceeded = [p \in Sessions |-> FALSE]
    /\ dispatched = 0 /\ commands = 0 /\ crashes = 0

\* Ctx.load: the command works on the file as it is now.
Load(p) ==
    /\ pc[p] = "idle" /\ commands < MaxCommands
    /\ exclusive => \A q \in Sessions : pc[q] = "idle"
    /\ \E c \in Commands : cmd' = [cmd EXCEPT ![p] = c]
    /\ mem' = [mem EXCEPT ![p] = file]
    /\ pc' = [pc EXCEPT ![p] = "loaded"]
    /\ commands' = commands + 1
    /\ UNCHANGED <<file, logged, exceeded, dispatched, crashes>>

Return(p) ==
    /\ pc' = [pc EXCEPT ![p] = "idle"]
    /\ cmd' = [cmd EXCEPT ![p] = NoCmd]
    /\ mem' = [mem EXCEPT ![p] = NewFile]
    /\ exceeded' = [exceeded EXCEPT ![p] = FALSE]

\* The command is rejected, or its gate fails: nothing is written.
Reject(p) ==
    /\ pc[p] = "loaded"
    /\ ~Accepts(mem[p], cmd[p]) \/ cmd[p].op = "complete"
    /\ Return(p)
    /\ UNCHANGED <<file, logged, dispatched, commands, crashes>>

MergedFile(p) ==    \* mutant: the other stages keep what the file says now
    [Written(mem[p], cmd[p]) EXCEPT
        !.status = [s \in Stages |-> IF s = cmd[p].stage THEN @[s] ELSE file.status[s]]]

\* What os.replace puts in place: the whole copy, whoever wrote since the load.
Replacement(p) == Written(mem[p], cmd[p])

\* ctx.write().
Write(p) ==
    LET c == cmd[p]
    IN  /\ pc[p] = "loaded" /\ Accepts(mem[p], c)
        /\ file' = Replacement(p)
        /\ pc' = [pc EXCEPT ![p] = IF c.op = "start" THEN "watermark" ELSE "log"]
        /\ dispatched' = IF c.op = "start" THEN dispatched + 1 ELSE dispatched
        /\ UNCHANGED <<logged, cmd, mem, exceeded, commands, crashes>>

OverBudgetLate == logged > MaxDispatches    \* mutant: off by one

\* budget_watermark counts the starts already on the timeline.
OverBudget == logged >= MaxDispatches

Watermark(p) ==
    /\ pc[p] = "watermark"
    /\ exceeded' = [exceeded EXCEPT ![p] = OverBudget]
    /\ pc' = [pc EXCEPT ![p] = "log"]
    /\ UNCHANGED <<file, logged, cmd, mem, dispatched, commands, crashes>>

\* append_timeline: one line, appended in one write.
Log(p) ==
    /\ pc[p] = "log"
    /\ logged' = IF cmd[p].op = "start" THEN logged + 1 ELSE logged
    /\ Return(p)
    /\ UNCHANGED <<file, dispatched, commands, crashes>>

\* The process is killed: before the replacement nothing has happened (the
\* temporary file is never read), after it the event is missing.
Kill(p) ==
    /\ pc[p] # "idle" /\ crashes < MaxCrashes
    /\ crashes' = crashes + 1
    /\ Return(p)
    /\ UNCHANGED <<file, logged, dispatched, commands>>

Next == /\ \E p \in Sessions : Load(p) \/ Reject(p) \/ Write(p) \/ Watermark(p)
                               \/ Log(p) \/ Kill(p)
        /\ UNCHANGED exclusive

Spec == Init /\ [][Next]_vars

-----------------------------------------------------------------------------
(***************************************************************************)
(* Refinement.  To a session that has the directory to itself the file is a *)
(* StageMachine; where sessions overlap nothing is claimed, so the mapping  *)
(* stands still.                                                            *)
(***************************************************************************)
Owned == IF exclusive THEN file ELSE NewFile

Atomic == INSTANCE StageMachine WITH
    Scenario <- "new_op",
    stage_plan <- InitPlan,
    stage_status <- Owned.status,
    stage_retry_count <- Owned.failures,
    retry_count <- Owned.revisions,
    last_failure_reason <- Owned.last_failure,
    failure_reason <- Owned.failure,
    phase <- Owned.phase,
    current_stage <- Owned.current,
    final_artifact <- FinalArtifact(Owned),
    perf_tuning_requested <- Owned.tuning,
    reviewed <- Owned.reviewed,
    reentries <- Owned.reentries

\* A session that has the directory to itself implements the atomic state
\* machine: whatever is killed and wherever, the file only takes steps that
\* some command of StageMachine takes.
ImplementsStageMachine == Atomic!Spec

\* Two sessions may lose each other's commands, but never leave an illegal
\* file behind: what is replaced is always the successor of some legal file.
FileAlwaysLegal ==
    /\ SM!TypeOK /\ SM!BudgetsRespected /\ SM!OneStageAtWork
    /\ SM!TerminalPhases /\ SM!NoStageSkipped

\* The budget flag of a start is right up to the events that killed processes
\* kept from the timeline: no dispatch is flagged within the budget, and one
\* that exceeds it by more than the kills is flagged.
BudgetFlagHonest ==
    \A p \in Sessions : exclusive /\ pc[p] = "log" /\ cmd[p].op = "start" =>
        /\ exceeded[p] => dispatched > MaxDispatches
        /\ dispatched > MaxDispatches + crashes => exceeded[p]
=============================================================================
