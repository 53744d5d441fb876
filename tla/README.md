# TLA+ models of TileLang-Ascend

TileLang-Ascend compiles tile programs written in a Python DSL to Ascend NPU
kernels (TIR passes, MLIR, the bisheng compiler, a JIT launcher), keeps the
results in caches, tunes them, and carries a command line tool, `statectl`,
through which agents develop operators stage by stage.  These modules model the
parts of it where several actors, crashes or long sequences of commands decide
whether the program is right.

## The system and what is modelled

| part | source | modules | state |
|---|---|---|---|
| stage state machine of a task | `.agents/tools/statectl.py` | `StageMachine`, `StageMachineProofs` | the cycle of stages complete |
| its file and timeline on disk | `.agents/tools/statectl.py` | `StateJournal`, `StateJournalProofs` | all commands but `--extend` and `--blocked-code` |
| conductor's use of it | `.opencode/agents/tilelang-op-conductor.md` | `Conductor`, `StageMachineProofs` | design revisions (external) |
| aggregate state of a migration | `.agents/tools/statectl.py` | `Migration`, `MigrationProofs` | complete |
| persistent kernel cache | `tilelang/cache/kernel_cache.py` | `KernelCache`, `KernelCacheProofs` | compile and autotune entries |
| autotuner, JIT wrapper's cache | `tilelang/autotuner/tuner.py`, `tilelang/jit/__init__.py` | `AutoTuner`, `AutoTunerProofs` | `run()` |
| runtime file cache | `tilelang/utils/npu_utils.py` | `SafeCopy`, `SafeCopyProofs` | `safe_copy` and its users |
| kernel launch, dynamic shapes | `tilelang/jit/jit_npu.py` | `Launch`, `Symbolic`, `AffineForms`, `LaunchProofs` | `JitKernel_NPU.__call__` and the generated launcher |
| evaluation pipeline | `examples/TileOPs/tileops/{benchmark,reporting}` | `EvalReport`, `EvalReportProofs` | profiling, records, verdict |

`PROJECT.json` lists every part, also those left out, with the reason, and maps each
definition to the lines it stands for.  `MC*` modules and the `.cfg` files hold the
instances that are checked.

How the parts meet: `AutoTuner.run` compiles through the JIT wrapper (or by itself),
keeps its result in memory and stores it as an autotune entry of the kernel cache; a
cache entry holds a launcher `main.so` that was installed by `safe_copy`, and a loaded
kernel is called through it (`Launch`).  The migration's aggregate file stands above one
stage file per function.  A stage file is changed by commands, one atomic step each in
`StageMachine`; `StateJournal` takes the same commands apart, and `Conductor` restricts
their order.

## Modules

**StageMachine.**  The variables are the fields of `.stage_state.json`; one action
per accepted command (`Start`, `Complete`, `Block`, `Revise`, `Fail`,
`SetPerfTuning`, `SetFinalArtifact`).  A rejected command writes nothing, so it is
no action.  Gate results, files on disk and arguments are chosen with `\E`.
`reviewed` and `reentries` are history.

**Conductor.**  The user of the state machine.  A conductor that is not `disciplined`
issues any command.  A disciplined one revises a design as its document prescribes: the
revision is asked for by the stage at work (2 to 4), and Stage 1 is entered again before
anything else (`owed`).  It adds Stage 4 only to plans without Stage 5.

**StateJournal.**  A command as `Load`, `Write` (which replaces the file), `Watermark`
and `Log`, for any number of sessions; the process may be killed between two of them.
A command is a function of the copy it loaded (`Accepts`, `Written`), so a command of
another session in between is lost.  `exclusive` says whether the conductor has the
directory to itself.  For the exclusive case
`ImplementsStageMachine` states that the module implements `StageMachine`: the refinement
mapping reads the machine's variables from the file, which only `Write` changes.

**Migration.**  `.migration_state.json` and `migration init | func | phase |
integrate`; `last_report` is history.

**KernelCache.**  One entry, any number of processes.  A file is absent, empty (cut
short), torn (two writers) or the file of one build; opening truncates and filling
is a later step, so that a crash, a second writer, a reader or `clear_cache` can
come in between.  The order of writing is `SaveOrder`, the order of reading
`ReadOrder`; both are the code's.  A write that fails is skipped, as `_try_save`
does; a failing `mkdir` is not in `_try_save` and ends the call.  The directory of
an autotune entry is one directory here, so `clear_cache` is only run on compile
entries.  Every process compiles a kernel to the same files, so a compile entry has one
version; tuning runs may choose different winners.  An exit and restart is a `Crash`.  `scenario` chooses the kind of entry and
which of the faults may happen, so that one run covers a restarted process and a shared
directory.

**AutoTuner.**  `run()` with its thread pool.  A kernel is named by the configuration
it was compiled from.  `decorated` chooses between `AutoTuner.from_kernel` and
`@autotune`, where all workers go through the JIT wrapper's cache; `npu` between the
two benchmarking loops; with `provided` the call fixes the configuration itself.  A run
ends with a result, without one, or "unsaved": storing the result raised.

**SafeCopy.**  One destination, several processes that copy the same bytes.  The
temporary file is private; the destination and `dst.backup` are names, which may be
two names of one file, and a writer keeps the file it opened when the name goes.

**Symbolic.**  The functions by which a symbolic dimension is bound to a dimension of
some argument when the kernel is compiled and recovered from it at every call.  Shapes
are small expression trees over the operators that `_eval_tir_expr` evaluates itself (what
it leaves to TVM's analyzer is not modelled); a variable that is a scalar parameter is not
read from a dimension.  `detect_affine` and `Eval` are recursive like the code.  The
arithmetic of one step, on forms `a * x + b`, and the inversion are in **AffineForms**,
which has no recursion and so can be reasoned about.

**Launch.**  Threads that call one kernel object.  What the compiler finds out about a
kernel enters as constants: the kernels whose calls raise (`BadOutput`, `BadGrid`,
`BadShape`), the dimension each variable is read from and its form (`SymbolicOf`), the
dimensions of the arguments (`ShapesOf`) and the grid (`GridOf`); `MCLaunch` gives them the
values that `Symbolic` computes.  The attributes `extra_args` and
`launch_grid` are written in one step each, as the interpreter may switch threads
between them; from `Launcher` on, the interpreter lock is held, as the generated C
function never gives it up.  `taskqueue` and `a5` choose one of the four dispatch paths
that `generate_npu_wrapper_src` emits.  External and modelled from their use: torch_npu's
bounded task queue and its consumer thread, the caching allocator, which hands a freed
block out again for the stream it belongs to, and the device, which runs the launches of
a stream in order.

**EvalReport.**  `tileops-report` (or a benchmark session started by hand): correctness
tests, then for each benchmark test the workspace with inputs and script, one or two
`msprof` processes, the copy of what they captured, its description, the cleaning up, the
record; then the verdict.  Each step may raise (`PrepareRaises`, `MsprofRaises`,
`PersistRaises`, `RecordRaises`), with an exception that `_bench_with_mode` answers by
falling back to events or with another one, which fails the test (`Escapes`).  Captures are
sets of ops, of which one is the operator's own; of a capture the CSV files may name some
ops only (`named`), and the description counts those.  Exit codes and files are what the
verdict tells apart.  `described` and `unprepared` are history.

## Runs

| run | shows |
|---|---|
| `stage` | under any order of commands: budgets, one stage at work, order of stages, meaning of the terminal phases, revision passes, end of every driven task; with the conductor's revision procedure: nothing rests on an unreviewed or reopened design, and of a task that is DONE every stage but an exhausted Stage 4 is completed |
| `migration` | only functions recorded as done are integrated, budget of integrations |
| `migration_stale_pass` | *violation*: DONE although the last integration failed |
| `journal` | with a second session and a kill at any point the file stays legal; a session by itself implements `StageMachine`, and the budget flag is wrong by at most the killed commands |
| `cache` | one process with crashes: a readable last file means a whole entry, loads never raise, configuration and kernel belong together; two writers, one `clear_cache`, one failed write: calls end; without the last two the entry ends whole |
| `cache_race` | *violation*: a load raises while another process rewrites `main.so` |
| `tuner` | with and without `@autotune`, both benchmarking loops: the fastest measured configuration wins, none is lost, failure only for want of a result or of a place to store it, the run ends; without the wrapper's cache the kernel is the configuration's own |
| `tuner_jit_cache` | *violation*: `@autotune` reports one configuration with another's kernel |
| `copy` | source on another filesystem: readers only see whole files; otherwise the fallback strategies still end and leave the whole file |
| `copy_tmpfs` | *violation*: source and cache on one filesystem and the temporary directory on another: a reader may find the file absent or partial |
| `launch` | shapes are recovered exactly; a call nobody overlaps launches with its own arguments; through the queue no kernel overtakes its input; kernels running at the same time have different workspaces; the paths that wait release nothing in use; every launch runs |
| `report` | a passed verdict rests on captures of the operator's own kernel where its name was known; artifacts stay where the records say, workspaces go, whichever step raised |

Every violation run checks one statement that a docstring, a comment, a message or
the agents' documents make; `PROJECT.json` quotes it.

Limits of the statements.  `ServedConsistent` and `QuietEntryWhole` are about compile
entries, and about autotune entries that a single process uses with no clear and no failed
write: the winners of two tuners may differ, and their files mix.  As a compile entry has
one version, `ServedConsistent` says of it only that no file cut short is served.
`DesignReviewed` and the two properties beside it are those of a conductor that follows the
procedure: `statectl` alone accepts `start 2` before Stage 1 is entered again.
`DoneIsDelivered` is about stages and not about `final_artifact`.  `IntegratedMeansAllDone`
is about the aggregate file: a function whose own stage file is revised after a Stage 5
`DESIGN_ERROR` stays `done` there, as no code connects the two files.  `OwnArguments` is about calls that no other call of the same kernel
object overlaps; overlapping ones can take each other's arguments, since the attributes
are shared.  `InputsReady` is about the task queue: with the queue switched off a launch
goes past the operators that wait in it.  `ReleasedAfterUse` is about the two paths that
wait; on the others the workspace is released early, and `WorkspacesApart` says why that
is harmless: the allocator gives it to the same stream again, which runs in order.
`ArtifactsRetained` excludes `TILEOPS_MSPROF_OUTPUT_DIR`, one directory that every test
cleans.  `PassedIsProfiled` excludes captures whose description could not be written, for
which an earlier description may be judged, and where no kernel name was known it says only
that one op at most was named: that op need not be the operator's.  `WorkspacesFreed` is
about sessions that the stage timeout does not kill.  With `TILEOPS_MSPROF_KEEP_OUTPUT=1`
workspaces may stay; with `TILEOPS_MSPROF_OUTPUT_DIR` set besides, the one case left is an
error before that variable is read (`msprof.py:569`), which the property names
(`unprepared`).

**Bounds.**  Stage limits of 2 tell a failure that leaves budget from one that does
not (the code has 2 to 10); three revisions allow two re-entries, so
that a second pass follows a first.  `journal` has two sessions, which is what a lost update takes, a plan of
Stages 1 and 4, whose last failures end a task in FAILED and in DONE, six commands,
enough for start, complete, revise and re-entry with a command of the other session in
between and for an exhausted Stage 4, one kill, and a budget of one dispatch, exceeded by the second.  Three
functions, finished in any order.  Two processes are what a race between a writer and
another writer or a loader takes; crashes reach a mixture of the files of several saves.
Two builds suffice to tell a mixture.  Three configurations on two workers make one wait,
with completion orders that differ from submission; latencies 1..3 with the initial bound
3 give equal latencies, faster, slower, and one at the bound.  Three processes in
`SafeCopy` let a third one write or restore while two others are in different strategies.
`launch` has two threads on two streams, a queue of two, so that it fills up, four
signatures and two meanings of the variables.  One signature reaches the launcher and has
its variables read from a dimension, from forms with a negative coefficient and with
coefficient 2 and an offset, and one as a scalar parameter; the others raise at the three
points where a call can.  `report` has suites of two tests, among them two that record the
same case and a smoke test with and without its marker, and two errors, so that one test
may fail twice or both may fail.

**Fairness.**  Weak fairness of the steps inside a call (`KernelCache`, `SafeCopy`,
`Launch`), of each worker and of the tuning loop (`AutoTuner`), of the queue's consumer
and of each stream (`Launch`): a running process or thread goes on, and the device works
off its streams.  Nobody has to make a call, crash or clear the cache.  For `TaskEnds` the
conductor does not abandon an open task: some command of the stage cycle is eventually
accepted, and which one is not promised.  Deadlock is not checked where a run may end: all
functions, runs, calls or processes are finished, or a task has failed.

## Proofs

`StageMachineProofs` proves, for every plan, scenario, limit and budget satisfying
`ConstantsAssumption`, the type invariant, `BudgetsRespected`, `OneStageAtWork`,
`NoStageSkipped`, `TerminalPhases`, `OneReentryPerRevision`, `FailedIsFinal` and
`CountersResetOnlyByRevision`.  The invariant that carries them, `IInv`, is the
conjunction of these state predicates with three facts they lack by themselves: only
stages of the plan have been entered (`EnteredInPlan`); a Stage 4 never entered has a
counter of 0 (`FreshStage4`); and of a task that has not failed, at most Stage 4 is
exhausted (`OnlyStage4Exhausted`).  The last two are needed because a DONE task can be
opened again by `start 4 --extend`: then its counters must again be within the limits.
There is one lemma per command, and theorem `Inductive` combines them.

The second part of `StageMachineProofs` is about the conductor.  It first shows that
whatever a conductor does is a behaviour of `StageMachine` (`UsersRefine`), so that all of
the above holds for it, and then
`NothingDownstreamOfOpenStage`, `DesignReviewed` and, for plans that do not have both
Stage 4 and Stage 5, `DoneIsDelivered`.  `ProcedureInv` adds to `IInv` that no stage after the first is
entered while a restart of Stage 1 is owed (`RestartIsClean`) and that a completed review
is one of the design as it is (`ReviewIsCurrent`).

`StateJournalProofs` proves the refinement, `Spec => ImplementsStageMachine`, for any
sessions, plan, limits and number of commands and kills.  The invariant `JournalInv` says
that with one command at a time the copy a command holds is the file until it has written
(`LoadedIsCurrent`, from `TakingTurns`).  There is one lemma for each command on the copy
and the action of `StageMachine` it amounts to; all other steps leave the file alone.
Two more invariants stand on it.  `FileAlwaysLegal`, which overlapping sessions must not
break, is not inductive by itself: the copies that sessions hold have to be legal, too
(`LegalInv`), and then each command is shown to lead from a legal copy to a legal file,
whatever the file has become meanwhile.
`BudgetFlagHonest` needs `TallyInv`: dispatches and timeline differ by the start that is
just being logged and by at most one for every kill.

`MigrationProofs` proves `IntegratedMeansAllDone`, `IntegrationBudget` and `ForwardOnly`
for any finite set of functions and any limit, from their conjunction with the type
invariant and the recorded pass of a migration that is DONE, `MInv`: the count of failures stays in
its range only because a migration past its limit has ended.

`KernelCacheProofs` proves `CommitRecord` and `RestartedLoadsNeverRaise` for an entry that
one process uses, with any number of crashes and builds.  `CacheInv` says that the file
written last is complete only if all others are of the same build, that a save is under
way only while it is not, and that `main.so` is read only behind it.  The middle part is
what makes it inductive: a rebuild over a committed entry would truncate files behind a
readable commit record, and none starts, because a load of a whole entry succeeds.
`ServedConsistent` rests on `ServeInv`: what a load accepts is always a complete file of
some build, whoever writes meanwhile (which settles compile entries, all of whose builds
are equal), and a process alone with its entry works with what the committed files hold.
`QuietEntryWhole`, for any number of processes that save and load one compile entry, rests
on `ShareInv`: a file never disappears, an empty file has a process that is about to fill
it, and whatever a process has written or read is there.

`SafeCopyProofs` proves `CrossFSReaders` for any number of processes: beside the
destination the first strategy always succeeds, so nobody reaches the others.  For
`QuietFileWhole` all three strategies count; `NamesInv` says, as long as nobody has died,
who is going to complete what is partial or absent, with the two names of one file
(`linked`) and the files that writers hold open under either name.
`AutoTunerProofs` proves `BestIsFastest`, `FailsOnlyForNothing` and `OwnKernel` for any
number of configurations, workers and runs; the invariant relates the best so far to the
latencies measured so far.  `NoConfigLost` follows from `Ledger`, by which the list of
results has one entry for each future that was yielded with a kernel.
`EvalReportProofs` proves `PassedIsProfiled` for every suite of tests: each record agrees
with what was captured for it, whatever was left in a directory before.  `WorkspacesFreed`
and `ArtifactsRetained` follow from `DiskInv`, which says what the directories hold at each
step of a test, that no test writes another's, and why a workspace that outlives its test
does so; every step that may raise is a case of its own.

`LaunchProofs` proves the invariants of `Launch` for any threads, streams, kernels, queue
capacity and number of calls.  `LockInv` (whoever is inside the launcher has the lock and
its stream's workspace) and `PlaceInv` (an entry is on its own stream and has that stream's
workspace, wherever it is) give `WorkspacesApart`.  `ReleasedAfterUse` needs `WaitInv`: on
the paths that wait, the thread that launched a kernel still in flight is in the launcher
and waits for that stream, so that at the time it leaves none is in flight on any.
`InputsReady` needs `InputInv`, an invariant on positions: the input of every kernel, and of
every call under way, is finished, or running, or ahead of it in the stream, or ahead of it
in the queue.  `SymbolicExact` rests on `CompiledAssumption`: the dimension a variable is
read from is `a * x + b` with `a # 0`, and the grid needs no unbound variable.  From it,
`(dim - b) // a` recovers `x` for either sign of `a` (`SolvedExactly`), and no other thread
interferes.  `OwnArguments` follows from `OwnInv` (an uncontended call finds its own values
on the object) and `SymbolicExact`.  TLC evaluates `CompiledAssumption` on what `Symbolic`
computes for the kernels of the `launch` run; for every kernel it would take an induction
over expressions, of which the steps are proved: the forms of sums, differences, products
and floor divisions have the value of the expression at every point (`CombinedExactly`,
`DividedExactly`).

The proofs need of the constants only what the named assumptions say: positive limits and
capacities, a default stream among the streams, names that differ, a finite set of
functions, and `CompiledAssumption`.  A plan is any non-empty set of stages, also one that
only `--stage-plan` can make, gone through in ascending order.  `--stage-plan` also accepts
a list in another order or with repetitions, and `start` then follows the order of the
list; such plans are not covered.  The plan of
`StateJournal` does not change, as `start 4 --extend` is left to `StageMachine`, whose
commands do not interleave.

Only model-checked: `TaskEnds`, `CallsEnd`, `CopiesEnd`, `RunEnds` and `LaunchesRun`
(liveness is out of the prover's reach), and that the forms which the compiler finds are
those of the whole expressions (`detect_affine` and `Eval` recurse over data).  `DoneIsDelivered` is proved
for all plans but those with both Stage 4 and Stage 5, for which it does not hold: an
exhausted Stage 4 ends the task before Stage 5.

## Not modelled

- Code generators (`src/target`, 53k lines), tile operators, layouts, the front end, the
  carver and the tilelangir dialect are pure translations or searches over the IR of TVM
  and MLIR, whose semantics lie outside this repository; they make up most of its lines.
- Software pipelining, warp specialisation, barriers and shared memory reuse come from the
  upstream CUDA compiler; for the NPU target `tilelang/engine/phase.py` returns before it
  runs them.  The NPU's own passes rewrite trees under conditions that TVM's arithmetic
  analyser decides.
- The `NPUUtils` singleton, the tuner's cached input tensors, the textual substitution of
  the grid expression, and a workspace whose allocation fails.
- The revision budget that `.opencode/agents/conductor-scenarios/harness.md:115` describes
  as shared by all functions: each stage file counts its own and no code adds them up.
- Autotune entries that two processes with different winners write at the same time.
- The gates lint texts; the knowledge base tools, session timing, the rendering of reports
  and `examples/run_all.py` are one-shot programs without state of their own.
