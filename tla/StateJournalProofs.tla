-------------------------- MODULE StateJournalProofs --------------------------
(***************************************************************************)
(* The refinement of StateJournal, for any number of sessions, commands and *)
(* kills and for every plan: a session that has the task directory to itself *)
(* implements StageMachine although its commands load, decide and replace   *)
(* the file in separate steps and may be killed between any two of them.    *)
(* Two invariants build on that one: the budget flag errs by the kills at   *)
(* most, and - sessions overlapping or not - the file is always a legal one. *)
(***************************************************************************)
EXTENDS StateJournal, TLAPS

\* First-order leaves need no arithmetic; the others are left to the SMT solver.
USE ZenonT(2), SMT

Statuses == {"none", "in_progress", "failed", "completed"}

Phases == {"SCAFFOLD", "DESIGN", "REVIEW", "DEVELOP", "TUNING", "INTEGRATE",
           "DONE", "FAILED"}

\* The shape of the state file.
Fields == {"status", "failures", "revisions", "last_failure", "failure", "phase",
           "current", "tuning", "reviewed", "reentries"}

Shaped(d) ==
    /\ DOMAIN d = Fields
    /\ d.status \in [Stages -> Statuses]
    /\ d.failures \in [Stages -> Nat]
    /\ d.revisions \in Nat
    /\ d.phase \in Phases

(***************************************************************************)
(* The inductive invariant: what a session decides on is the file itself,   *)
(* as long as the sessions take turns.                                      *)
(***************************************************************************)
TakingTurns ==
    exclusive => \A p, q \in Sessions : pc[p] # "idle" /\ pc[q] # "idle" => p = q

LoadedIsCurrent ==
    exclusive => \A p \in Sessions : pc[p] = "loaded" => mem[p] = file

JournalInv ==
    /\ exclusive \in BOOLEAN
    /\ Shaped(file)
    /\ \A p \in Sessions : pc[p] # "idle" => Shaped(mem[p])
    /\ DOMAIN pc = Sessions /\ DOMAIN mem = Sessions /\ DOMAIN cmd = Sessions
    /\ \A p \in Sessions : pc[p] # "idle" => cmd[p] \in Commands
    /\ TakingTurns
    /\ LoadedIsCurrent

\* What a new plan may contain.
LEMMA PlanStages == InitPlan \subseteq Stages /\ InitPlan # {}
BY JournalAssumption DEF Stages

\* The phase of a stage is a phase and never a terminal phase.
LEMMA StagePhase ==
    ASSUME NEW s \in Stages
    PROVE  /\ SM!STAGE_PHASE[s] \in Phases
           /\ SM!STAGE_PHASE[s] \notin {"DONE", "FAILED"}
<1>1. s \in {0, 1, 2, 3, 4, 5}
  BY DEF Stages
<1>2. CASE s = 0  BY <1>2 DEF SM!STAGE_PHASE, SM!Stages, Phases
<1>3. CASE s = 1  BY <1>3 DEF SM!STAGE_PHASE, SM!Stages, Phases
<1>4. CASE s = 2  BY <1>4 DEF SM!STAGE_PHASE, SM!Stages, Phases
<1>5. CASE s = 3  BY <1>5 DEF SM!STAGE_PHASE, SM!Stages, Phases
<1>6. CASE s = 4  BY <1>6 DEF SM!STAGE_PHASE, SM!Stages, Phases
<1>7. CASE s = 5  BY <1>7 DEF SM!STAGE_PHASE, SM!Stages, Phases
<1> QED  BY <1>1, <1>2, <1>3, <1>4, <1>5, <1>6, <1>7

\* A non-empty part of the plan has a first stage.
LEMMA FirstOfPlan ==
    ASSUME NEW S \in SUBSET InitPlan, S # {}
    PROVE  SM!FirstOf(S) \in Stages
<1>1. S \subseteq {0, 1, 2, 3, 4, 5}
  BY PlanStages DEF Stages
<1>2. \E s \in S : \A t \in S : s <= t
  <2>1. CASE 0 \in S  BY <1>1, <2>1
  <2>2. CASE 0 \notin S /\ 1 \in S  BY <1>1, <2>2
  <2>3. CASE S \cap {0, 1} = {} /\ 2 \in S  BY <1>1, <2>3
  <2>4. CASE S \cap {0, 1, 2} = {} /\ 3 \in S  BY <1>1, <2>4
  <2>5. CASE S \cap {0, 1, 2, 3} = {} /\ 4 \in S  BY <1>1, <2>5
  <2>6. CASE S = {5}  BY <2>6
  <2> QED  BY Zenon, <1>1, <2>1, <2>2, <2>3, <2>4, <2>5, <2>6
<1>3. SM!FirstOf(S) \in S
  BY <1>2 DEF SM!FirstOf
<1> QED  BY Zenon, <1>3, PlanStages

\* The file of `init` has the shape of the state file.
LEMMA NewFileShape == Shaped(NewFile)
<1>1. SM!FirstOf(InitPlan) \in Stages
  BY FirstOfPlan, PlanStages
<1>2. SM!STAGE_PHASE[SM!FirstOf(InitPlan)] \in Phases
  BY <1>1, StagePhase
<1> QED  BY <1>1, <1>2 DEF NewFile, Shaped, Fields, Statuses
-----------------------------------------------------------------------------
(***************************************************************************)
(* Each command on a loaded copy, and the atomic command it stands for.     *)
(***************************************************************************)
LEMMA StartStep ==
    ASSUME Shaped(file), NEW n \in InitPlan, CanStart(file, n),
           exclusive, exclusive', file' = Started(file, n)
    PROVE  Atomic!Start(n, FALSE)
<1>1. n \in Stages
  BY PlanStages
<1>2. /\ file'.status = [file.status EXCEPT ![n] = "in_progress"]
      /\ file'.failures = file.failures /\ file'.revisions = file.revisions
      /\ file'.last_failure = IF Reentry(file, n) THEN "none" ELSE file.last_failure
      /\ file'.failure = file.failure /\ file'.phase = SM!STAGE_PHASE[n]
      /\ file'.current = n /\ file'.tuning = file.tuning
      /\ file'.reviewed = file.reviewed
      /\ file'.reentries = IF Reentry(file, n) THEN file.reentries + 1 ELSE file.reentries
  BY DEF Started, Shaped, Fields
<1>3. SM!STAGE_PHASE[n] \notin {"DONE", "FAILED"}
  BY <1>1, StagePhase
<1>4. Owned = file /\ Owned' = file'
  BY DEF Owned
<1>5. Atomic!RevisionReentry(n) <=> Reentry(file, n)
  BY <1>4 DEF Atomic!RevisionReentry, Reentry
<1>6. Atomic!NoOtherInProgress(n) /\ Atomic!Enterable(n)
  BY <1>1, <1>4, <1>5 DEF Atomic!NoOtherInProgress, Atomic!Enterable, Atomic!BudgetLeft,
       Atomic!InOrder, Atomic!Stages, Atomic!LimitedStages, Stages, CanStart
<1>7. SM!STAGE_PHASE = Atomic!STAGE_PHASE
  BY DEF SM!STAGE_PHASE, Atomic!STAGE_PHASE, SM!Stages, Atomic!Stages
<1>8. file.phase \notin {"DONE", "FAILED"}
  BY DEF CanStart, Open
<1>9. InitPlan = InitPlan \cup {n}
  OBVIOUS
<1> HIDE DEF SM!STAGE_PHASE, Atomic!STAGE_PHASE
<1> QED
  BY <1>2, <1>3, <1>4, <1>5, <1>6, <1>7, <1>8, <1>9
     DEF Atomic!Start, Atomic!InPlan, Atomic!PassAfterStart, Atomic!TERMINAL_PHASES,
         FinalArtifact

\* The file that a completion writes is one cmd_complete of the state machine reaches.
LEMMA CompleteStep ==
    ASSUME Shaped(file), NEW n \in InitPlan, Open(file), file.status[n] = "in_progress",
           exclusive, exclusive', file' = Completed(file, n)
    PROVE  Atomic!Complete(n, Atomic!Artifacts)
<1> DEFINE open == {s \in InitPlan \ {n} : file.status[s] # "completed"}
           status == [file.status EXCEPT ![n] = "completed"]
<1>1. n \in Stages
  BY PlanStages
<1>2. /\ file'.status = status
      /\ file'.failures = file.failures /\ file'.revisions = file.revisions
      /\ file'.last_failure = file.last_failure /\ file'.failure = file.failure
      /\ file'.phase = IF open = {} THEN "DONE" ELSE SM!STAGE_PHASE[SM!FirstOf(open)]
      /\ file'.current = IF open = {} THEN file.current ELSE SM!FirstOf(open)
      /\ file'.tuning = file.tuning
      /\ file'.reviewed = (n = 2 \/ (n # 1 /\ file.reviewed))
      /\ file'.reentries = file.reentries
  BY DEF Completed, Shaped, Fields
<1>3. Owned = file /\ Owned' = file'
  BY DEF Owned
<1>4. Atomic!OpenStages(status) = open
  BY <1>1, PlanStages DEF Atomic!OpenStages, Shaped
<1>5. SM!FirstOf(open) = Atomic!FirstOf(open)
  BY DEF SM!FirstOf, Atomic!FirstOf
<1>6. SM!STAGE_PHASE = Atomic!STAGE_PHASE
  BY DEF SM!STAGE_PHASE, Atomic!STAGE_PHASE, SM!Stages, Atomic!Stages
<1>7. open # {} => SM!STAGE_PHASE[SM!FirstOf(open)] \notin {"DONE", "FAILED"}
  <2>1. open \in SUBSET InitPlan
    OBVIOUS
  <2> HIDE DEF open
  <2> QED  BY <2>1, FirstOfPlan, StagePhase
<1>8. Atomic!choose_final_artifact(status, Atomic!Artifacts)
        = IF status[4] = "completed" THEN "kernel_opt" ELSE "kernel"
  BY DEF Atomic!choose_final_artifact, Atomic!Artifacts
<1>9. file.phase \notin {"DONE", "FAILED"}
  BY DEF Open
<1>10. [Owned.status EXCEPT ![n] = "completed"] = status
  BY <1>3
<1> HIDE DEF open, status, SM!STAGE_PHASE, Atomic!STAGE_PHASE, Atomic!choose_final_artifact
<1>11. CASE open = {}
  BY <1>2, <1>3, <1>4, <1>8, <1>9, <1>10, <1>11
     DEF Atomic!Complete, Atomic!TERMINAL_PHASES, FinalArtifact
<1>12. CASE open # {}
  BY <1>2, <1>3, <1>4, <1>5, <1>6, <1>7, <1>9, <1>10, <1>12
     DEF Atomic!Complete, Atomic!TERMINAL_PHASES, FinalArtifact
<1> QED  BY <1>11, <1>12

\* The file that a failure writes is one cmd_fail of the state machine reaches.
LEMMA FailStep ==
    ASSUME Shaped(file), NEW n \in InitPlan, Open(file), n # 2,
           file.status[n] \in {"in_progress", "failed"},
           exclusive, exclusive', file' = Failed(file, n)
    PROVE  Atomic!Fail(n, "runtime", Atomic!Artifacts)
<1> DEFINE count == file.failures[n] + 1
           exhausted == count >= RetryLimit[n]
           status == [file.status EXCEPT ![n] = "failed"]
<1>1. n \in Stages
  BY PlanStages
<1>2. /\ file'.status = status
      /\ file'.failures = [file.failures EXCEPT ![n] = count]
      /\ file'.revisions = file.revisions
      /\ file'.last_failure = file.last_failure
      /\ file'.phase = IF ~exhausted THEN file.phase
                       ELSE IF n = 4 THEN "DONE" ELSE "FAILED"
      /\ file'.failure = IF exhausted /\ n # 4
                         THEN SM!BlockedReason(n, "runtime") ELSE file.failure
      /\ file'.current = file.current /\ file'.tuning = file.tuning
      /\ file'.reviewed = file.reviewed /\ file'.reentries = file.reentries
  BY DEF Failed, Shaped, Fields
<1>3. Owned = file /\ Owned' = file'
  BY DEF Owned
<1>4. SM!BlockedReason(n, "runtime") = Atomic!BlockedReason(n, "runtime")
  BY DEF SM!BlockedReason, Atomic!BlockedReason, SM!BLOCKED_BY_STAGE, Atomic!BLOCKED_BY_STAGE
<1>5. file.phase \notin {"DONE", "FAILED"}
  BY DEF Open
<1>6. Atomic!choose_final_artifact(status, Atomic!Artifacts)
        = IF status[4] = "completed" THEN "kernel_opt" ELSE "kernel"
  BY DEF Atomic!choose_final_artifact, Atomic!Artifacts
<1>7. [Owned.status EXCEPT ![n] = "failed"] = status
  BY <1>3
<1> HIDE DEF status, SM!BlockedReason, Atomic!BlockedReason, Atomic!choose_final_artifact
<1>8. CASE ~exhausted
  BY <1>2, <1>3, <1>5, <1>7, <1>8
     DEF Atomic!Fail, Atomic!LimitReached, Atomic!TERMINAL_PHASES, Atomic!history, FinalArtifact
<1>9. CASE exhausted /\ n = 4
  BY <1>2, <1>3, <1>5, <1>6, <1>7, <1>9
     DEF Atomic!Fail, Atomic!LimitReached, Atomic!TERMINAL_PHASES, Atomic!history, FinalArtifact
<1>10. CASE exhausted /\ n # 4
  BY <1>2, <1>3, <1>4, <1>5, <1>7, <1>10
     DEF Atomic!Fail, Atomic!LimitReached, Atomic!TERMINAL_PHASES, Atomic!history, FinalArtifact
<1> QED  BY <1>8, <1>9, <1>10

\* The file that a revision writes is one the state machine's revision reaches.
LEMMA ReviseStep ==
    ASSUME Shaped(file), NEW n \in InitPlan, Open(file), file.status[n] # "none",
           exclusive, exclusive', file' = Revised(file, n)
    PROVE  Atomic!Revise(n)
<1> DEFINE count == file.revisions + 1
           fresh == {s \in InitPlan : s > 1}
<1>1. /\ file'.status = [s \in Stages |-> IF s \in fresh THEN "none"
                                          ELSE IF s = n THEN "failed" ELSE file.status[s]]
      /\ file'.failures = [s \in Stages |-> IF s \in fresh THEN 0 ELSE file.failures[s]]
      /\ file'.revisions = count /\ file'.last_failure = "design_revision"
      /\ file'.phase = IF count >= MaxRetry THEN "FAILED" ELSE file.phase
      /\ file'.failure = IF count >= MaxRetry THEN "BLOCKED_DESIGN" ELSE file.failure
      /\ file'.current = file.current /\ file'.tuning = file.tuning
      /\ file'.reviewed = file.reviewed /\ file'.reentries = file.reentries
  BY DEF Revised, Shaped, Fields
<1>2. Owned = file /\ Owned' = file'
  BY DEF Owned
<1>3. Atomic!Downstream = fresh /\ Atomic!Stages = Stages
  BY DEF Atomic!Downstream, Atomic!Stages, Stages
<1>4. file.phase \notin {"DONE", "FAILED"}
  BY DEF Open
<1> HIDE DEF fresh
<1>5. CASE count >= MaxRetry
  BY <1>1, <1>2, <1>3, <1>4, <1>5
     DEF Atomic!Revise, Atomic!TERMINAL_PHASES, Atomic!history, FinalArtifact
<1>6. CASE ~(count >= MaxRetry)
  BY <1>1, <1>2, <1>3, <1>4, <1>6
     DEF Atomic!Revise, Atomic!TERMINAL_PHASES, Atomic!history, FinalArtifact
<1> QED  BY <1>5, <1>6

\* The file that a set writes is one cmd_set of the state machine reaches.
LEMMA SetStep ==
    ASSUME Shaped(file), exclusive, exclusive', file' = [file EXCEPT !.tuning = "yes"]
    PROVE  Atomic!SetPerfTuning("yes")
<1>1. Owned = file /\ Owned' = file'
  BY DEF Owned
<1>2. /\ file'.status = file.status /\ file'.failures = file.failures
      /\ file'.revisions = file.revisions /\ file'.last_failure = file.last_failure
      /\ file'.failure = file.failure /\ file'.phase = file.phase
      /\ file'.current = file.current /\ file'.tuning = "yes"
      /\ file'.reviewed = file.reviewed /\ file'.reentries = file.reentries
  BY DEF Shaped, Fields
<1> QED  BY <1>1, <1>2 DEF Atomic!SetPerfTuning, Atomic!history, FinalArtifact

\* A command writes a file of the same shape as the one it loaded.
LEMMA WrittenShape ==
    ASSUME NEW d, Shaped(d), NEW c \in Commands, Accepts(d, c)
    PROVE  Shaped(Written(d, c))
<1> DEFINE n == c.stage
           open == {s \in InitPlan \ {n} : d.status[s] # "completed"}
<1>1. CASE c.op = "set"
  BY <1>1 DEF Written, Shaped, Fields
<1>2. c.op # "set" => c.op \in {"start", "complete", "fail", "revise"} /\ n \in InitPlan
  BY DEF Commands
<1>3. c.op # "set" => n \in Stages
  BY Zenon, <1>2, PlanStages
<1>4. CASE c.op = "start"
  <2>1. SM!STAGE_PHASE[n] \in Phases
    BY <1>3, <1>4, StagePhase
  <2> HIDE DEF SM!STAGE_PHASE
  <2> QED  BY Zenon, <1>3, <1>4, <2>1 DEF Written, Started, Shaped, Fields, Statuses
<1>5. CASE c.op = "complete"
  <2>1. open # {} => SM!STAGE_PHASE[SM!FirstOf(open)] \in Phases
    <3>1. open \in SUBSET InitPlan
      OBVIOUS
    <3> HIDE DEF open
    <3> QED  BY <3>1, FirstOfPlan, StagePhase
  <2> DEFINE e == Completed(d, n)
  <2>2. /\ DOMAIN e = Fields
        /\ e.status = [d.status EXCEPT ![n] = "completed"]
        /\ e.failures = d.failures /\ e.revisions = d.revisions
        /\ e.phase = IF open = {} THEN "DONE" ELSE SM!STAGE_PHASE[SM!FirstOf(open)]
    BY DEF Completed, Shaped, Fields
  <2>3. e.status \in [Stages -> Statuses]
    BY <1>3, <1>5, <2>2 DEF Shaped, Statuses
  <2>4. e.phase \in Phases
    BY <2>1, <2>2 DEF Phases
  <2>5. Written(d, c) = e
    BY <1>5 DEF Written
  <2> HIDE DEF e
  <2> QED  BY <2>2, <2>3, <2>4, <2>5 DEF Shaped
<1>6. CASE c.op = "fail"
  <2> DEFINE e == Failed(d, n)
  <2>1. /\ DOMAIN e = Fields
        /\ e.status = [d.status EXCEPT ![n] = "failed"]
        /\ e.failures = [d.failures EXCEPT ![n] = d.failures[n] + 1]
        /\ e.revisions = d.revisions
        /\ e.phase \in {"DONE", "FAILED", d.phase}
    BY DEF Failed, Shaped, Fields
  <2>2. e.status \in [Stages -> Statuses] /\ e.failures \in [Stages -> Nat]
    BY <1>3, <1>6, <2>1 DEF Shaped, Statuses
  <2>3. e.phase \in Phases
    BY <2>1 DEF Phases, Shaped
  <2>4. Written(d, c) = e
    BY <1>6 DEF Written
  <2> HIDE DEF e
  <2> QED  BY <2>1, <2>2, <2>3, <2>4 DEF Shaped
<1>7. CASE c.op = "revise"
  <2> DEFINE e == Revised(d, n)
  <2>1. /\ DOMAIN e = Fields
        /\ e.status \in [Stages -> Statuses]
        /\ e.failures \in [Stages -> Nat]
        /\ e.revisions = d.revisions + 1
        /\ e.phase \in {"FAILED", d.phase}
    BY DEF Revised, Shaped, Fields, Statuses
  <2>2. e.phase \in Phases
    BY <2>1 DEF Phases, Shaped
  <2>3. Written(d, c) = e
    BY <1>7 DEF Written
  <2> HIDE DEF e
  <2> QED  BY <2>1, <2>2, <2>3 DEF Shaped
<1> QED  BY <1>1, <1>2, <1>4, <1>5, <1>6, <1>7

\* The directory starts within the invariant.
LEMMA InitJournal == Init => JournalInv
BY NewFileShape DEF Init, JournalInv, TakingTurns, LoadedIsCurrent

\* Every step of a command, and every kill, keeps the invariant.
LEMMA NextJournal == JournalInv /\ [Next]_vars => JournalInv'
<1> SUFFICES ASSUME JournalInv, [Next]_vars PROVE JournalInv'
  OBVIOUS
<1>1. CASE UNCHANGED vars
  BY <1>1 DEF vars, JournalInv, TakingTurns, LoadedIsCurrent
<1>2. CASE Next
  <2>1. PICK p \in Sessions : \/ Load(p) \/ Reject(p) \/ Write(p) \/ Watermark(p)
                              \/ Log(p) \/ Kill(p)
    BY <1>2 DEF Next
  <2>2. exclusive' = exclusive
    BY <1>2 DEF Next
  <2>3. CASE Load(p)
    <3>1. PICK c \in Commands : cmd' = [cmd EXCEPT ![p] = c]
      BY Zenon, <2>3 DEF Load
    <3>2. /\ mem' = [mem EXCEPT ![p] = file]
          /\ pc' = [pc EXCEPT ![p] = "loaded"]
          /\ file' = file
          /\ exclusive => \A q \in Sessions : pc[q] = "idle"
      BY <2>3 DEF Load
    <3> QED
      BY <2>2, <3>1, <3>2 DEF JournalInv, TakingTurns, LoadedIsCurrent
  <2>4. ASSUME Return(p), UNCHANGED file PROVE JournalInv'
    <3>1. /\ pc' = [pc EXCEPT ![p] = "idle"]
          /\ cmd' = [cmd EXCEPT ![p] = NoCmd]
          /\ mem' = [mem EXCEPT ![p] = NewFile]
      BY <2>4 DEF Return
    <3> QED
      BY <2>2, <2>4, <3>1 DEF JournalInv, TakingTurns, LoadedIsCurrent
  <2>5. CASE Reject(p) \/ Log(p) \/ Kill(p)
    BY <2>4, <2>5 DEF Reject, Log, Kill
  <2>6. CASE Write(p)
    <3>1. /\ pc[p] = "loaded" /\ Accepts(mem[p], cmd[p])
          /\ file' = Written(mem[p], cmd[p])
          /\ cmd' = cmd /\ mem' = mem
      BY <2>6 DEF Write, Replacement
    <3>2. /\ pc' \in {[pc EXCEPT ![p] = "watermark"], [pc EXCEPT ![p] = "log"]}
      BY Zenon, <2>6 DEF Write
    <3>3. Shaped(file')
      BY <3>1, WrittenShape DEF JournalInv
    <3> QED
      BY <2>2, <3>1, <3>2, <3>3 DEF JournalInv, TakingTurns, LoadedIsCurrent
  <2>7. CASE Watermark(p)
    BY <2>2, <2>7 DEF Watermark, JournalInv, TakingTurns, LoadedIsCurrent
  <2> QED  BY <2>1, <2>3, <2>5, <2>6, <2>7
<1> QED  BY <1>1, <1>2
-----------------------------------------------------------------------------
\* The initial file is the initial state of StageMachine.
LEMMA InitRefines == Init => Atomic!Init
<1> SUFFICES ASSUME Init PROVE Atomic!Init
  OBVIOUS
<1>1. Owned = NewFile
  BY DEF Init, Owned
<1>2. SM!STAGE_PHASE = Atomic!STAGE_PHASE /\ SM!FirstOf(InitPlan) = Atomic!FirstOf(InitPlan)
  BY DEF SM!STAGE_PHASE, Atomic!STAGE_PHASE, SM!Stages, Atomic!Stages, SM!FirstOf,
         Atomic!FirstOf
<1>3. Atomic!STAGE_PHASE[Atomic!FirstOf(InitPlan)] # "DONE"
  BY Zenon, <1>2, FirstOfPlan, StagePhase, PlanStages
<1> HIDE DEF SM!STAGE_PHASE, Atomic!STAGE_PHASE, SM!FirstOf, Atomic!FirstOf
<1> QED  BY <1>1, <1>2, <1>3 DEF NewFile, FinalArtifact, Atomic!Init, Atomic!Stages, Stages

\* A step that leaves the file alone, or is taken where sessions overlap, is a
\* stuttering step of the mapping.
LEMMA Stutters ==
    ASSUME exclusive' = exclusive, ~exclusive \/ file' = file, exclusive \in BOOLEAN
    PROVE  UNCHANGED Atomic!vars
<1>1. Owned' = Owned
  BY DEF Owned
<1> QED  BY <1>1 DEF Atomic!vars, Atomic!file, Atomic!history

\* Replacing the file is the atomic command.
LEMMA WriteRefines ==
    ASSUME JournalInv, NEW p \in Sessions, Write(p), exclusive, exclusive'
    PROVE  Atomic!Next
<1> DEFINE c == cmd[p]
<1>1. /\ c \in Commands /\ Shaped(file) /\ Accepts(file, c)
      /\ file' = Written(file, c)
  BY DEF Write, Replacement, JournalInv, LoadedIsCurrent
<1>2. \/ c.op = "set"
      \/ c.op \in {"start", "complete", "fail", "revise"} /\ c.stage \in InitPlan
  BY <1>1 DEF Commands
<1>3. c.op # "set" => c.stage \in Atomic!Stages
  BY <1>2, PlanStages DEF Atomic!Stages, Stages
<1>4. "runtime" \in Atomic!FailTypes
  BY DEF Atomic!FailTypes
<1>5. CASE c.op = "start"
  <2>1. Atomic!Start(c.stage, FALSE)
    BY Zenon, <1>1, <1>2, <1>5, StartStep DEF Accepts, Written
  <2> QED  BY Zenon, <1>3, <1>5, <2>1 DEF Atomic!Next, Atomic!Starts
<1>6. CASE c.op = "complete"
  <2>1. Atomic!Complete(c.stage, Atomic!Artifacts)
    BY <1>1, <1>2, <1>6, CompleteStep DEF Accepts, Written
  <2> QED  BY <1>3, <1>6, <2>1 DEF Atomic!Next, Atomic!Completes
<1>7. CASE c.op = "fail"
  <2>1. Atomic!Fail(c.stage, "runtime", Atomic!Artifacts)
    BY <1>1, <1>2, <1>7, FailStep DEF Accepts, Written
  <2> QED  BY <1>3, <1>4, <1>7, <2>1 DEF Atomic!Next, Atomic!Fails
<1>8. CASE c.op = "revise"
  <2>1. Atomic!Revise(c.stage)
    BY <1>1, <1>2, <1>8, ReviseStep DEF Accepts, Written
  <2> QED  BY <1>3, <1>8, <2>1 DEF Atomic!Next, Atomic!Revises
<1>9. CASE c.op = "set"
  <2>1. Atomic!SetPerfTuning("yes")
    BY <1>1, <1>9, SetStep DEF Accepts, Written
  <2> QED  BY <2>1 DEF Atomic!Next, Atomic!Sets
<1> QED  BY <1>2, <1>5, <1>6, <1>7, <1>8, <1>9

\* Every step is a step of the state machine or leaves the file alone.
LEMMA NextRefines == JournalInv /\ [Next]_vars => [Atomic!Next]_(Atomic!vars)
<1> SUFFICES ASSUME JournalInv, [Next]_vars
             PROVE  Atomic!Next \/ UNCHANGED Atomic!vars
  OBVIOUS
<1>1. exclusive' = exclusive /\ exclusive \in BOOLEAN
  BY DEF Next, vars, JournalInv
<1>2. CASE exclusive /\ \E p \in Sessions : Write(p)
  BY <1>1, <1>2, WriteRefines
<1>3. CASE ~exclusive
  BY <1>1, <1>3, Stutters
<1>4. CASE ~\E p \in Sessions : Write(p)
  <2>1. file' = file
    BY <1>4 DEF Next, vars, Load, Reject, Watermark, Log, Kill
  <2> QED  BY <1>1, <2>1, Stutters
<1> QED  BY <1>1, <1>2, <1>3, <1>4

\* The invariant of the directory holds throughout, for any number of sessions.
THEOREM JournalInductive == Spec => []JournalInv
BY InitJournal, NextJournal, PTL DEF Spec

\* A session that has the task directory to itself implements the atomic state
\* machine, wherever its commands are killed.
THEOREM JournalRefines == Spec => ImplementsStageMachine
<1>1. Spec => Atomic!Spec
  BY JournalInductive, InitRefines, NextRefines, PTL DEF Spec, Atomic!Spec
<1> QED  BY <1>1 DEF ImplementsStageMachine
-----------------------------------------------------------------------------
(***************************************************************************)
(* The budget.  The timeline misses a start only between the replacement    *)
(* and the append, and for every process killed there.                      *)
(***************************************************************************)
Pending == \E p \in Sessions : pc[p] \in {"watermark", "log"} /\ cmd[p].op = "start"

Unlogged == IF Pending THEN 1 ELSE 0

TallyInv ==
    /\ DOMAIN exceeded = Sessions
    /\ logged \in Nat /\ dispatched \in Nat /\ crashes \in Nat
    /\ exclusive =>
          /\ logged + Unlogged <= dispatched
          /\ dispatched <= logged + Unlogged + crashes
          /\ \A p \in Sessions : pc[p] = "log" /\ cmd[p].op = "start" =>
                (exceeded[p] <=> logged >= MaxDispatches)

\* Only the session that moves can have a start underway.
LEMMA PendingIsMine ==
    ASSUME JournalInv, exclusive, NEW p \in Sessions, pc[p] # "idle"
    PROVE  Pending <=> (pc[p] \in {"watermark", "log"} /\ cmd[p].op = "start")
BY DEF JournalInv, TakingTurns, Pending

\* Every step keeps dispatches and timeline within the kills of each other.
LEMMA NextTally == JournalInv /\ JournalInv' /\ TallyInv /\ [Next]_vars => TallyInv'
<1> SUFFICES ASSUME JournalInv, JournalInv', TallyInv, [Next]_vars PROVE TallyInv'
  OBVIOUS
<1>1. CASE UNCHANGED vars
  BY <1>1 DEF vars, TallyInv, Unlogged, Pending
<1>2. CASE Next
  <2>1. PICK p \in Sessions : \/ Load(p) \/ Reject(p) \/ Write(p) \/ Watermark(p)
                              \/ Log(p) \/ Kill(p)
    BY <1>2 DEF Next
  <2>2. exclusive' = exclusive
    BY <1>2 DEF Next
  <2>3. DOMAIN pc = Sessions /\ DOMAIN cmd = Sessions
    BY DEF JournalInv
  <2>4. /\ DOMAIN exceeded' = Sessions
        /\ logged' \in Nat /\ dispatched' \in Nat /\ crashes' \in Nat
    BY SMTT(20), <2>1 DEF TallyInv, Load, Reject, Write, Watermark, Log, Kill, Return
  <2> SUFFICES ASSUME exclusive
               PROVE  /\ (logged + Unlogged <= dispatched)'
                      /\ (dispatched <= logged + Unlogged + crashes)'
                      /\ \A q \in Sessions : pc'[q] = "log" /\ cmd'[q].op = "start" =>
                            (exceeded'[q] <=> logged' >= MaxDispatches)
    BY <2>2, <2>4 DEF TallyInv
  <2>5. /\ logged \in Nat /\ dispatched \in Nat /\ crashes \in Nat
        /\ logged + Unlogged <= dispatched
        /\ dispatched <= logged + Unlogged + crashes
        /\ \A q \in Sessions : pc[q] = "log" /\ cmd[q].op = "start" =>
              (exceeded[q] <=> logged >= MaxDispatches)
    BY DEF TallyInv
  <2>6. pc[p] # "idle" => \A q \in Sessions : q # p => pc[q] = "idle"
    BY DEF JournalInv, TakingTurns
  <2>7. CASE Load(p)
    <3>1. /\ \A q \in Sessions : pc[q] = "idle"
          /\ pc' = [pc EXCEPT ![p] = "loaded"]
          /\ logged' = logged /\ dispatched' = dispatched /\ crashes' = crashes
      BY <2>7 DEF Load
    <3>2. ~Pending /\ ~Pending' /\ \A q \in Sessions : pc'[q] # "log"
      BY <2>3, <3>1 DEF Pending
    <3> QED  BY <2>5, <3>1, <3>2 DEF Unlogged
  <2>8. ASSUME Return(p), pc[p] # "idle" PROVE ~Pending' /\ \A q \in Sessions : pc'[q] # "log"
    BY <2>3, <2>6, <2>8 DEF Return, Pending
  <2>9. CASE Reject(p)
    <3>1. ~Pending
      BY <2>9, PendingIsMine DEF Reject
    <3>2. ~Pending' /\ \A q \in Sessions : pc'[q] # "log"
      BY <2>8, <2>9 DEF Reject
    <3> QED  BY <2>5, <2>9, <3>1, <3>2 DEF Reject, Unlogged
  <2>10. CASE Write(p)
    <3>1. /\ ~Pending
          /\ Pending' <=> cmd[p].op = "start"
          /\ \A q \in Sessions : pc'[q] = "log" => q = p /\ cmd'[q].op # "start"
      BY <2>3, <2>6, <2>10, PendingIsMine DEF Write, Pending
    <3>2. dispatched' = IF cmd[p].op = "start" THEN dispatched + 1 ELSE dispatched
      BY <2>10 DEF Write
    <3> QED  BY <2>5, <2>10, <3>1, <3>2 DEF Write, Unlogged
  <2>11. CASE Watermark(p)
    <3>1. Pending' <=> Pending
      BY <2>3, <2>6, <2>11 DEF Watermark, Pending
    <3>2. \A q \in Sessions : pc'[q] = "log" => q = p
      BY <2>3, <2>6, <2>11 DEF Watermark
    <3>3. exceeded'[p] <=> logged >= MaxDispatches
      BY Zenon, <2>11 DEF Watermark, OverBudget, TallyInv
    <3> QED  BY <2>5, <2>11, <3>1, <3>2, <3>3 DEF Watermark, Unlogged
  <2>12. CASE Log(p)
    <3>1. Pending <=> cmd[p].op = "start"
      BY <2>12, PendingIsMine DEF Log
    <3>2. ~Pending' /\ \A q \in Sessions : pc'[q] # "log"
      BY <2>8, <2>12 DEF Log
    <3> QED  BY <2>5, <2>12, <3>1, <3>2 DEF Log, Unlogged
  <2>13. CASE Kill(p)
    <3>1. ~Pending' /\ \A q \in Sessions : pc'[q] # "log"
      BY <2>8, <2>13 DEF Kill
    <3> QED  BY <2>5, <2>13, <3>1 DEF Kill, Unlogged
  <2> QED  BY <2>1, <2>7, <2>9, <2>10, <2>11, <2>12, <2>13
<1> QED  BY <1>1, <1>2

\* For every budget and any number of commands and kills, the flag of a start
\* is right up to the events the kills kept from the timeline.
THEOREM BudgetFlagRight == Spec => []BudgetFlagHonest
<1>1. Init => TallyInv
  BY DEF Init, TallyInv, Unlogged, Pending
<1>2. TallyInv => BudgetFlagHonest
  <2> SUFFICES ASSUME TallyInv, NEW p \in Sessions, exclusive, pc[p] = "log",
                      cmd[p].op = "start"
               PROVE  /\ exceeded[p] => dispatched > MaxDispatches
                      /\ dispatched > MaxDispatches + crashes => exceeded[p]
    BY DEF BudgetFlagHonest
  <2>1. Unlogged = 1
    BY DEF Unlogged, Pending
  <2> QED  BY <2>1, JournalAssumption DEF TallyInv
<1> QED  BY <1>1, <1>2, JournalInductive, NextTally, PTL DEF Spec
-----------------------------------------------------------------------------
(***************************************************************************)
(* Legal files.  A copy that was legal when it was loaded is legal for ever, *)
(* and a command takes a legal copy to a legal copy; so it does not matter   *)
(* whose copy replaces the file, and the sessions need not take turns.       *)
(***************************************************************************)
Limited == {0, 1, 3, 4, 5}

TypedFile(d) ==
    /\ Shaped(d)
    /\ d.last_failure \in {"none", "design_revision"}
    /\ d.failure \in {"none"} \cup SM!BLOCKED_CODES
    /\ d.current \in Stages
    /\ d.tuning \in {"none", "yes"}
    /\ d.reviewed \in BOOLEAN /\ d.reentries \in Nat

WithinBudgets(d) ==
    /\ Open(d) => /\ d.revisions = 0 \/ d.revisions < MaxRetry
                  /\ \A s \in Limited : d.failures[s] < RetryLimit[s]
    /\ \A s \in Limited : d.failures[s] <= RetryLimit[s]

OneAtWork(d) ==
    \A s \in Stages : d.status[s] = "in_progress" =>
        /\ \A t \in Stages : d.status[t] = "in_progress" => t = s
        /\ Open(d) => d.phase = SM!STAGE_PHASE[s] /\ d.current = s

Terminal(d) ==
    /\ d.phase = "FAILED" <=> d.failure # "none"
    /\ d.phase = "DONE" => \/ \A s \in InitPlan : d.status[s] = "completed"
                           \/ d.status[4] = "failed" /\ d.failures[4] = RetryLimit[4]

\* Strengthening: a stage outside the plan is never entered.
InOrder(d) ==
    /\ \A s \in Stages : d.status[s] # "none" => s \in InitPlan
    /\ \A s, q \in InitPlan : d.status[s] # "none" /\ 1 < q /\ q < s
                                 => d.status[q] = "completed"

Legal(d) == TypedFile(d) /\ WithinBudgets(d) /\ OneAtWork(d) /\ Terminal(d) /\ InOrder(d)

LegalInv == Legal(file) /\ \A p \in Sessions : pc[p] # "idle" => Legal(mem[p])

\* cmd_init writes a legal file.
LEMMA NewFileLegal == Legal(NewFile)
<1>1. SM!FirstOf(InitPlan) \in Stages
  BY FirstOfPlan, PlanStages
<1>2. /\ SM!STAGE_PHASE[SM!FirstOf(InitPlan)] \in Phases
      /\ SM!STAGE_PHASE[SM!FirstOf(InitPlan)] \notin {"DONE", "FAILED"}
  BY <1>1, StagePhase
<1>3. \A s \in Limited : RetryLimit[s] \in Nat /\ RetryLimit[s] > 0
  BY JournalAssumption DEF Limited
<1> HIDE DEF SM!STAGE_PHASE, SM!FirstOf
<1>4. TypedFile(NewFile)
  BY <1>1, NewFileShape DEF TypedFile, NewFile
<1>5. WithinBudgets(NewFile)
  BY <1>3 DEF WithinBudgets, NewFile, Limited, Stages
<1>6. OneAtWork(NewFile) /\ Terminal(NewFile) /\ InOrder(NewFile)
  BY <1>2, PlanStages DEF OneAtWork, Terminal, InOrder, NewFile
<1> QED  BY <1>4, <1>5, <1>6 DEF Legal

\* From a legal file cmd_start makes a legal one.
LEMMA StartedLegal ==
    ASSUME NEW d, Legal(d), NEW n \in InitPlan, CanStart(d, n), Shaped(Started(d, n))
    PROVE  Legal(Started(d, n))
<1> DEFINE e == Started(d, n)
<1>1. n \in Stages /\ n \in Nat
  BY PlanStages DEF Stages
<1>2. /\ e.status = [d.status EXCEPT ![n] = "in_progress"]
      /\ e.failures = d.failures /\ e.revisions = d.revisions
      /\ e.last_failure \in {"none", d.last_failure}
      /\ e.failure = d.failure /\ e.phase = SM!STAGE_PHASE[n]
      /\ e.current = n /\ e.tuning = d.tuning /\ e.reviewed = d.reviewed
      /\ e.reentries \in {d.reentries, d.reentries + 1}
  BY DEF Started, Legal, TypedFile, Shaped, Fields
<1>3. SM!STAGE_PHASE[n] \notin {"DONE", "FAILED"}
  BY <1>1, StagePhase
<1>4. d.status \in [Stages -> Statuses]
  BY DEF Legal, TypedFile, Shaped
<1>5. Open(d) /\ \A s \in Stages \ {n} : d.status[s] # "in_progress"
  BY DEF CanStart
<1>6. Shaped(e)
  OBVIOUS
<1> HIDE DEF e, SM!STAGE_PHASE
<1>7. TypedFile(e)
  BY <1>1, <1>2, <1>6 DEF Legal, TypedFile
<1>8. WithinBudgets(e)
  BY <1>2, <1>5 DEF Legal, WithinBudgets
<1>9. OneAtWork(e)
  BY <1>1, <1>2, <1>4, <1>5 DEF OneAtWork
<1>10. Terminal(e)
  BY <1>2, <1>3, <1>5 DEF Legal, Terminal, Open
<1>11. InOrder(e)
  <2>1. \A s \in Stages : e.status[s] # "none" => s \in InitPlan
    BY <1>1, <1>2, <1>4 DEF Legal, InOrder
  <2>2. ASSUME NEW s \in InitPlan, NEW q \in InitPlan, e.status[s] # "none", 1 < q, q < s
        PROVE  e.status[q] = "completed"
    <3>1. s \in Stages /\ q \in Stages /\ s \in Nat /\ q \in Nat
      BY PlanStages DEF Stages
    <3>2. CASE s # n
      <4>1. d.status[q] = "completed"
        BY <1>1, <1>2, <1>4, <2>2, <3>1, <3>2 DEF Legal, InOrder
      <4>2. q # n
        BY <2>2, <3>1, <4>1 DEF CanStart, Reentry
      <4> QED  BY <1>2, <1>4, <3>1, <4>1, <4>2
    <3>3. CASE s = n
      <4>1. d.status[q] = "completed"
        BY <1>1, <1>4, <2>2, <3>1, <3>3 DEF CanStart, Reentry, Legal, InOrder
      <4> QED  BY <1>1, <1>2, <1>4, <2>2, <3>1, <3>3, <4>1
    <3> QED  BY <3>2, <3>3
  <2> QED  BY <2>1, <2>2 DEF InOrder
<1>12. Legal(e)
  BY <1>7, <1>8, <1>9, <1>10, <1>11 DEF Legal
<1> QED  BY <1>12 DEF e

\* From a legal file cmd_complete makes a legal one.
LEMMA CompletedLegal ==
    ASSUME NEW d, Legal(d), NEW n \in InitPlan, Open(d), d.status[n] = "in_progress",
           Shaped(Completed(d, n))
    PROVE  Legal(Completed(d, n))
<1> DEFINE e == Completed(d, n)
           open == {s \in InitPlan \ {n} : d.status[s] # "completed"}
<1>1. n \in Stages /\ n \in Nat
  BY PlanStages DEF Stages
<1>2. /\ e.status = [d.status EXCEPT ![n] = "completed"]
      /\ e.failures = d.failures /\ e.revisions = d.revisions
      /\ e.last_failure = d.last_failure /\ e.failure = d.failure
      /\ e.phase = IF open = {} THEN "DONE" ELSE SM!STAGE_PHASE[SM!FirstOf(open)]
      /\ e.current = IF open = {} THEN d.current ELSE SM!FirstOf(open)
      /\ e.tuning = d.tuning
      /\ e.reviewed = (n = 2 \/ (n # 1 /\ d.reviewed))
      /\ e.reentries = d.reentries
  BY DEF Completed, Legal, TypedFile, Shaped, Fields
<1>3. open # {} => /\ SM!FirstOf(open) \in Stages
                   /\ SM!STAGE_PHASE[SM!FirstOf(open)] \notin {"DONE", "FAILED"}
  <2>1. open \in SUBSET InitPlan
    OBVIOUS
  <2> HIDE DEF open
  <2> QED  BY <2>1, FirstOfPlan, StagePhase
<1>4. d.status \in [Stages -> Statuses]
  BY DEF Legal, TypedFile, Shaped
<1>5. Shaped(e)
  OBVIOUS
<1> HIDE DEF e, SM!STAGE_PHASE, SM!FirstOf
<1>6. TypedFile(e)
  <2>1. e.current \in Stages
    BY <1>2, <1>3 DEF Legal, TypedFile
  <2>2. e.reviewed \in BOOLEAN
    BY <1>2
  <2> QED  BY <1>2, <1>5, <2>1, <2>2 DEF Legal, TypedFile
<1>7. WithinBudgets(e)
  BY <1>2 DEF Legal, WithinBudgets, Open
<1>8. OneAtWork(e)
  <2>1. \A s \in Stages : e.status[s] # "in_progress"
    BY <1>1, <1>2, <1>4 DEF Legal, OneAtWork
  <2> QED  BY <2>1 DEF OneAtWork
<1>9. Terminal(e)
  <2>1. e.phase # "FAILED" /\ e.failure = "none"
    BY <1>2, <1>3 DEF Legal, Terminal, Open
  <2>2. e.phase = "DONE" => \A s \in InitPlan : e.status[s] = "completed"
    BY <1>1, <1>2, <1>3, <1>4, PlanStages
  <2> QED  BY <2>1, <2>2 DEF Terminal
<1>10. InOrder(e)
  BY <1>1, <1>2, <1>4, PlanStages DEF Legal, InOrder
<1>11. Legal(e)
  BY <1>6, <1>7, <1>8, <1>9, <1>10 DEF Legal
<1> QED  BY <1>11 DEF e

\* From a legal file cmd_fail makes a legal one.
LEMMA FailedLegal ==
    ASSUME NEW d, Legal(d), NEW n \in InitPlan, Open(d), n # 2,
           d.status[n] \in {"in_progress", "failed"}, Shaped(Failed(d, n))
    PROVE  Legal(Failed(d, n))
<1> DEFINE e == Failed(d, n)
           count == d.failures[n] + 1
           exhausted == count >= RetryLimit[n]
<1>1. n \in Stages /\ n \in Limited
  BY PlanStages DEF Limited, Stages
<1>2. /\ e.status = [d.status EXCEPT ![n] = "failed"]
      /\ e.failures = [d.failures EXCEPT ![n] = count]
      /\ e.revisions = d.revisions /\ e.last_failure = d.last_failure
      /\ e.phase = IF ~exhausted THEN d.phase
                   ELSE IF n = 4 THEN "DONE" ELSE "FAILED"
      /\ e.failure = IF exhausted /\ n # 4
                     THEN SM!BlockedReason(n, "runtime") ELSE d.failure
      /\ e.current = d.current /\ e.tuning = d.tuning
      /\ e.reviewed = d.reviewed /\ e.reentries = d.reentries
  BY DEF Failed, Legal, TypedFile, Shaped, Fields
<1>3. n # 4 => SM!BlockedReason(n, "runtime") \in SM!BLOCKED_CODES \ {"none"}
  BY <1>1 DEF Limited, SM!BlockedReason, SM!BLOCKED_BY_STAGE, SM!BLOCKED_CODES
<1>4. d.status \in [Stages -> Statuses] /\ d.failures \in [Stages -> Nat]
  BY DEF Legal, TypedFile, Shaped
<1>5. \A s \in Limited : RetryLimit[s] \in Nat /\ s \in Stages
  BY JournalAssumption DEF Limited, Stages
<1>6. Shaped(e)
  OBVIOUS
<1> HIDE DEF e, SM!STAGE_PHASE, SM!BlockedReason
<1>7. TypedFile(e)
  BY <1>2, <1>3, <1>6 DEF Legal, TypedFile
<1>8. WithinBudgets(e)
  <2>1. \A s \in Limited : d.failures[s] < RetryLimit[s]
    BY DEF Legal, WithinBudgets
  <2>2. \A s \in Limited : s # n => e.failures[s] = d.failures[s]
    BY <1>2, <1>4, <1>5
  <2>3. e.failures[n] = count /\ count \in Nat
    BY <1>1, <1>2, <1>4
  <2>4. Open(e) => e.failures[n] < RetryLimit[n]
    BY <1>1, <1>2, <1>5, <2>3 DEF Open
  <2>5. e.failures[n] <= RetryLimit[n]
    BY <1>1, <1>4, <1>5, <2>1, <2>3
  <2>6. e.revisions = 0 \/ e.revisions < MaxRetry
    BY <1>2 DEF Legal, WithinBudgets
  <2>7. \A s \in Limited : e.failures[s] <= RetryLimit[s]
    BY <1>4, <1>5, <2>1, <2>2, <2>5
  <2> QED  BY <2>1, <2>2, <2>4, <2>6, <2>7 DEF WithinBudgets
<1>9. OneAtWork(e)
  <2>1. \A s \in Stages : e.status[s] = "in_progress" => d.status[s] = "in_progress"
    BY <1>1, <1>2, <1>4
  <2>2. Open(e) => e.phase = d.phase /\ e.current = d.current
    BY <1>2 DEF Open
  <2> QED  BY <2>1, <2>2 DEF Legal, OneAtWork
<1>10. Terminal(e)
  <2>1. d.failure = "none" /\ d.phase \notin {"DONE", "FAILED"}
    BY DEF Legal, Terminal, Open
  <2>2. e.phase = "FAILED" <=> e.failure # "none"
    BY <1>2, <1>3, <2>1
  <2>3. ASSUME e.phase = "DONE" PROVE e.status[4] = "failed" /\ e.failures[4] = RetryLimit[4]
    <3>1. n = 4 /\ exhausted
      BY <1>2, <2>1, <2>3
    <3>2. e.failures[4] <= RetryLimit[4] /\ e.failures[4] = count
      BY <1>1, <1>2, <1>4, <1>8, <3>1 DEF WithinBudgets
    <3> QED  BY <1>1, <1>2, <1>4, <1>5, <3>1, <3>2
  <2> QED  BY <2>2, <2>3 DEF Terminal
<1>11. InOrder(e)
  BY <1>1, <1>2, <1>4, PlanStages DEF Legal, InOrder
<1>12. Legal(e)
  BY <1>7, <1>8, <1>9, <1>10, <1>11 DEF Legal
<1> QED  BY <1>12 DEF e

\* From a legal file a revision makes a legal one.
LEMMA RevisedLegal ==
    ASSUME NEW d, Legal(d), NEW n \in InitPlan, Open(d), d.status[n] # "none",
           Shaped(Revised(d, n))
    PROVE  Legal(Revised(d, n))
<1> DEFINE e == Revised(d, n)
           count == d.revisions + 1
           fresh == {s \in InitPlan : s > 1}
<1>1. /\ e.status = [s \in Stages |-> IF s \in fresh THEN "none"
                                      ELSE IF s = n THEN "failed" ELSE d.status[s]]
      /\ e.failures = [s \in Stages |-> IF s \in fresh THEN 0 ELSE d.failures[s]]
      /\ e.revisions = count /\ e.last_failure = "design_revision"
      /\ e.phase = IF count >= MaxRetry THEN "FAILED" ELSE d.phase
      /\ e.failure = IF count >= MaxRetry THEN "BLOCKED_DESIGN" ELSE d.failure
      /\ e.current = d.current /\ e.tuning = d.tuning
      /\ e.reviewed = d.reviewed /\ e.reentries = d.reentries
  BY DEF Revised, Legal, TypedFile, Shaped, Fields
<1>2. d.status \in [Stages -> Statuses] /\ d.failures \in [Stages -> Nat] /\ count \in Nat
  BY DEF Legal, TypedFile, Shaped
<1>3. \A s \in Limited : RetryLimit[s] \in Nat /\ RetryLimit[s] > 0 /\ s \in Stages
  BY JournalAssumption DEF Limited, Stages
<1>4. Shaped(e)
  OBVIOUS
<1>5. MaxRetry \in Nat
  BY JournalAssumption
<1> HIDE DEF e, SM!STAGE_PHASE
<1>6. TypedFile(e)
  BY <1>1, <1>4 DEF Legal, TypedFile, SM!BLOCKED_CODES
<1>7. WithinBudgets(e)
  BY <1>1, <1>2, <1>3, <1>5 DEF Legal, WithinBudgets, Open
<1>8. OneAtWork(e)
  <2>1. \A s \in Stages : e.status[s] = "in_progress" => d.status[s] = "in_progress"
    BY <1>1
  <2>2. Open(e) => e.phase = d.phase /\ e.current = d.current
    BY <1>1 DEF Open
  <2> QED  BY <2>1, <2>2 DEF Legal, OneAtWork
<1>9. Terminal(e)
  BY <1>1 DEF Legal, Terminal, Open
<1>10. InOrder(e)
  <2>1. ASSUME NEW s \in Stages, e.status[s] # "none" PROVE s \in InitPlan /\ ~(s > 1)
    <3>1. s \in InitPlan
      BY <1>1, <2>1 DEF Legal, InOrder
    <3> QED  BY <1>1, <2>1, <3>1
  <2>2. ASSUME NEW s \in InitPlan, NEW q \in InitPlan, e.status[s] # "none", 1 < q, q < s
        PROVE  FALSE
    <3>1. s \in Stages /\ s \in Nat /\ q \in Nat
      BY PlanStages DEF Stages
    <3>2. ~(s > 1)
      BY <2>1, <2>2, <3>1
    <3> QED  BY <2>2, <3>1, <3>2
  <2> QED  BY <2>1, <2>2 DEF InOrder
<1>11. Legal(e)
  BY <1>6, <1>7, <1>8, <1>9, <1>10 DEF Legal
<1> QED  BY <1>11 DEF e

\* Whatever copy a command was given, a legal one stays legal.
LEMMA WrittenLegal ==
    ASSUME NEW d, Legal(d), NEW c \in Commands, Accepts(d, c)
    PROVE  Legal(Written(d, c))
<1>1. Shaped(Written(d, c))
  BY WrittenShape DEF Legal, TypedFile
<1>2. \/ c.op = "set"
      \/ c.op \in {"start", "complete", "fail", "revise"} /\ c.stage \in InitPlan
  BY DEF Commands
<1>3. CASE c.op = "start"
  BY <1>1, <1>2, <1>3, StartedLegal DEF Accepts, Written
<1>4. CASE c.op = "complete"
  BY <1>1, <1>2, <1>4, CompletedLegal DEF Accepts, Written
<1>5. CASE c.op = "fail"
  BY <1>1, <1>2, <1>5, FailedLegal DEF Accepts, Written
<1>6. CASE c.op = "revise"
  BY <1>1, <1>2, <1>6, RevisedLegal DEF Accepts, Written
<1>7. CASE c.op = "set"
  <2> DEFINE e == [d EXCEPT !.tuning = "yes"]
  <2>1. /\ e.status = d.status /\ e.failures = d.failures
        /\ e.revisions = d.revisions /\ e.last_failure = d.last_failure
        /\ e.failure = d.failure /\ e.phase = d.phase /\ e.current = d.current
        /\ e.tuning = "yes" /\ e.reviewed = d.reviewed /\ e.reentries = d.reentries
    BY DEF Legal, TypedFile, Shaped, Fields
  <2>2. Written(d, c) = e
    BY <1>7 DEF Written
  <2> HIDE DEF e, SM!STAGE_PHASE
  <2> QED
    BY <1>1, <2>1, <2>2 DEF Legal, TypedFile, WithinBudgets, OneAtWork, Terminal, InOrder, Open
<1> QED  BY <1>2, <1>3, <1>4, <1>5, <1>6, <1>7

\* Every step keeps the file, and every copy loaded from it, legal.
LEMMA NextLegal == JournalInv /\ LegalInv /\ [Next]_vars => LegalInv'
<1> SUFFICES ASSUME JournalInv, LegalInv, [Next]_vars PROVE LegalInv'
  OBVIOUS
<1> HIDE DEF Legal
<1>1. CASE UNCHANGED vars
  BY <1>1 DEF vars, LegalInv
<1>2. CASE Next
  <2>1. PICK p \in Sessions : \/ Load(p) \/ Reject(p) \/ Write(p) \/ Watermark(p)
                              \/ Log(p) \/ Kill(p)
    BY <1>2 DEF Next
  <2>2. DOMAIN pc = Sessions /\ DOMAIN mem = Sessions
    BY DEF JournalInv
  <2>3. CASE Load(p)
    BY <2>2, <2>3 DEF Load, LegalInv
  <2>4. CASE Reject(p) \/ Log(p) \/ Kill(p)
    BY <2>2, <2>4 DEF Reject, Log, Kill, Return, LegalInv
  <2>5. CASE Write(p)
    <3>1. cmd[p] \in Commands /\ Legal(mem[p]) /\ Accepts(mem[p], cmd[p])
      BY <2>5 DEF Write, JournalInv, LegalInv
    <3>2. Legal(file')
      BY <2>5, <3>1, WrittenLegal DEF Write, Replacement
    <3>3. mem' = mem /\ \A q \in Sessions : pc'[q] # "idle" => pc[q] # "idle"
      BY <2>2, <2>5 DEF Write
    <3> QED  BY <3>2, <3>3 DEF LegalInv
  <2>6. CASE Watermark(p)
    BY <2>2, <2>6 DEF Watermark, LegalInv
  <2> QED  BY <2>1, <2>3, <2>4, <2>5, <2>6
<1> QED  BY <1>1, <1>2

\* A legal file is what StageMachine calls one.
LEMMA LegalMeans == Legal(file) => FileAlwaysLegal
<1> SUFFICES ASSUME Legal(file) PROVE FileAlwaysLegal
  OBVIOUS
<1>1. SM!Stages = Stages /\ SM!LimitedStages = Limited /\ SM!Statuses = Statuses
  BY DEF SM!Stages, SM!LimitedStages, SM!Statuses, Stages, Limited, Statuses
<1>2. \A ph \in Phases : ph \in {SM!STAGE_PHASE[s] : s \in SM!Stages} \cup {"DONE", "FAILED"}
  <2>1. /\ SM!STAGE_PHASE[0] = "SCAFFOLD" /\ SM!STAGE_PHASE[1] = "DESIGN"
        /\ SM!STAGE_PHASE[2] = "REVIEW" /\ SM!STAGE_PHASE[3] = "DEVELOP"
        /\ SM!STAGE_PHASE[4] = "TUNING" /\ SM!STAGE_PHASE[5] = "INTEGRATE"
    BY DEF SM!STAGE_PHASE, SM!Stages
  <2> HIDE DEF SM!STAGE_PHASE
  <2> QED  BY <2>1 DEF SM!Stages, Phases
<1> HIDE DEF SM!STAGE_PHASE
<1>3. SM!TypeOK
  <2>1. FinalArtifact(file) \in {"none"} \cup SM!Artifacts
    BY DEF FinalArtifact, SM!Artifacts
  <2> QED
    BY <1>1, <1>2, <2>1, PlanStages DEF Legal, TypedFile, Shaped, SM!TypeOK, SM!TERMINAL_PHASES
<1>4. SM!BudgetsRespected
  BY <1>1 DEF Legal, WithinBudgets, Open, SM!BudgetsRespected, SM!TERMINAL_PHASES
<1>5. SM!OneStageAtWork
  BY <1>1 DEF Legal, OneAtWork, Open, SM!OneStageAtWork, SM!TERMINAL_PHASES
<1>6. SM!TerminalPhases
  BY DEF Legal, Terminal, SM!TerminalPhases, SM!BlockedIffFailed, SM!DoneIsFinished
<1>7. SM!NoStageSkipped
  BY <1>1, PlanStages DEF Legal, InOrder, SM!NoStageSkipped
<1> QED  BY <1>3, <1>4, <1>5, <1>6, <1>7 DEF FileAlwaysLegal

\* Any number of sessions, overlapping or not, killed or not: the file is
\* legal whenever it is read.
THEOREM FilesStayLegal == Spec => []FileAlwaysLegal
<1>1. Init => LegalInv
  BY NewFileLegal DEF Init, LegalInv
<1>2. LegalInv => FileAlwaysLegal
  BY LegalMeans DEF LegalInv
<1> QED  BY <1>1, <1>2, JournalInductive, NextLegal, PTL DEF Spec
=============================================================================
