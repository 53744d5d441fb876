------------------------------ MODULE Conductor ------------------------------
(***************************************************************************)
(* The users of statectl.  One of them is the conductor, which drives a     *)
(* task by the revision procedure its prompt prescribes                     *)
(* (.opencode/agents/tilelang-op-conductor.md): after                       *)
(* `fail N --reason design_revision` the next stage command is `start 1`,   *)
(* and a completed Stage 1 is entered again for no other reason.  statectl  *)
(* itself only hints at this; the other user issues its commands in any     *)
(* order statectl accepts, which is all of StageMachine.                    *)
(***************************************************************************)
EXTENDS StageMachine

VARIABLES
    disciplined,    \* the user keeps to the procedure
    owed            \* it recorded a revision and has not yet restarted Stage 1

cvars == <<vars, disciplined, owed>>

CInit == Init /\ disciplined \in BOOLEAN /\ owed = FALSE

\* Step 3 of the procedure: the revision is followed by start 1.  The optional
\* Stage 4 is not offered to a plan with an integration stage (harness.md).
CStart(n, extend) ==
    /\ disciplined => /\ IF owed THEN n = 1 ELSE stage_status[n] # "completed"
                      /\ extend => 5 \notin stage_plan
    /\ Start(n, extend)
    /\ owed' = FALSE

\* Steps 1 and 2: `fail <current stage> --reason design_revision`, on the
\* review's verdict (2), [DESIGN_ERROR] (3) or [DESIGN_LIMIT] (4) and only in
\* a plan that has a Stage 1 to revise.
CRevise(n) ==
    /\ disciplined => ~owed /\ 1 \in stage_plan /\ n = current_stage /\ n \in 2..4
    /\ Revise(n)
    /\ owed' = disciplined

\* The gate of the stage at work: complete it, or fail it and start it again.
CComplete(n, present) ==
    /\ disciplined => ~owed
    /\ Complete(n, present)
    /\ UNCHANGED owed

CFail(n, fail_type, present) ==
    /\ disciplined => ~owed /\ stage_status[n] = "in_progress"
    /\ Fail(n, fail_type, present)
    /\ UNCHANGED owed

\* A task is blocked by decision (environment, specification) while it is open.
CBlock(code) ==
    /\ disciplined => phase \notin TERMINAL_PHASES
    /\ Block(code)
    /\ UNCHANGED owed

CStarts == \E n \in Stages, extend \in BOOLEAN : CStart(n, extend)
CCompletes == \E n \in Stages, present \in SUBSET Artifacts : CComplete(n, present)
CRevises == \E n \in Stages : CRevise(n)
CFails == \E n \in Stages, fail_type \in FailTypes, present \in SUBSET Artifacts :
              CFail(n, fail_type, present)
CBlocks == \E code \in BLOCKED_CODES : CBlock(code)
CSets == Sets /\ UNCHANGED owed

CNext == /\ CStarts \/ CCompletes \/ CRevises \/ CFails \/ CBlocks \/ CSets
         /\ UNCHANGED disciplined

CSpec == CInit /\ [][CNext]_cvars

\* Neither user abandons a task that is still open: some command of the stage
\* cycle is eventually accepted (which one is not promised).
CDrive == /\ phase \notin TERMINAL_PHASES
          /\ CStarts \/ CCompletes \/ CRevises \/ CFails
          /\ UNCHANGED disciplined

CFairSpec == CSpec /\ WF_cvars(CDrive)

-----------------------------------------------------------------------------
\* Under the procedure what is implemented was reviewed, however often the
\* design is revised and whichever stage the revision comes from.
DesignReviewed == disciplined => ReviewedDesign

\* Under the procedure a task that is DONE has every stage but an exhausted
\* Stage 4 completed: no revision of Stage 1 is left open behind it.
DoneIsDelivered ==
    disciplined /\ phase = "DONE" =>
        \A s \in stage_plan : \/ stage_status[s] = "completed"
                              \/ s = 4 /\ stage_retry_count[4] = RetryLimit[4]

\* Under the procedure every stage that has been entered rests on completed
\* predecessors; a revision never leaves a later stage's work behind (Stage 1
\* included).
NothingDownstreamOfOpenStage ==
    disciplined =>
        \A s \in Stages : stage_status[s] # "none" =>
            \A p \in stage_plan : p < s => stage_status[p] = "completed"

=============================================================================
