----------------------------- MODULE AutoTuner -----------------------------
(***************************************************************************)
(* AutoTuner.run: every configuration is compiled on a thread pool, the    *)
(* kernels are collected as they complete, benchmarked one after the other *)
(* (or as one batch) and the fastest is kept.  The kernels come from       *)
(* AutoTuner._compile_kernel, or, under @autotune, from the wrapper of     *)
(* JITImpl, whose own cache all the worker threads share.                  *)
(*                                                                         *)
(* A kernel is named by the configuration it was compiled from.            *)
(***************************************************************************)
EXTENDS Integers, Sequences, FiniteSets

CONSTANTS
  NumConfigs,   \* configurations 1..NumConfigs, in the order they are submitted
  NumWorkers,   \* _determine_num_workers()
  Cap,          \* the initial best_latency (1e8 in the code)
  MaxLatency,   \* latencies 1..MaxLatency are measured; an error of the batch is > Cap
  MaxRuns       \* calls of run() on this tuner

ASSUME TunerAssumption ==
  /\ NumConfigs \in Nat \ {0} /\ NumWorkers \in Nat \ {0} /\ MaxRuns \in Nat
  /\ Cap \in Nat \ {0} /\ MaxLatency \in Nat

Configs   == 1..NumConfigs
Latencies == 1..MaxLatency
Infinity  == Cap + MaxLatency          \* float("inf") compares above everything
Direct    == NumConfigs + 1            \* the call's own arguments, when they fix the config
NoResult  == [latency |-> Cap, config |-> 0, kernel |-> 0]

VARIABLES
  phase,     \* where run() stands
  job,       \* per configuration: its future
  jit,       \* JITImpl._kernel_cache[key]: the kernel under the call's key, 0 if none
  kernel,    \* per configuration: the kernel its future returned, 0 if none
  left,      \* futures as_completed has not yielded yet
  results,   \* results_with_configs
  admitted,  \* the entries of results that go into the NPU batch
  bench,     \* entries of results benchmarked so far
  best,      \* best_latency, best_config, best_kernel
  memory,    \* AutoTuner._memory_cache[key]
  decorated, \* @autotune: compile through the @jit wrapper and its cache
  npu,       \* TILELANG_BENCH_METHOD=npu: check each kernel, then time the batch
  provided,  \* the call gives the tunable parameters itself
  measured,  \* history: <<configuration, latency>> timed in this run
  runs       \* history: calls of run()

setting == <<decorated, npu, provided>>
vars == <<phase, job, jit, kernel, left, results, admitted, bench, best, memory,
          setting, measured, runs>>

Running == {"compiling", "storing", "returning"}

Init ==
  /\ phase = "idle" /\ job = [c \in Configs |-> "queued"] /\ jit = 0
  /\ kernel = [c \in Configs |-> 0] /\ left = {} /\ results = <<>>
  /\ admitted = {} /\ bench = 0 /\ best = NoResult /\ memory = NoResult
  /\ decorated \in BOOLEAN /\ npu \in BOOLEAN
  /\ provided \in IF decorated THEN BOOLEAN ELSE {FALSE}
  /\ measured = {} /\ runs = 0

---------------------------------------------------------------------------
LowCap == 1

StartBest == Cap

\* run() with the tunables given: nothing is tuned, the call's arguments are compiled.
RunDirect ==
  /\ provided /\ phase \in {"idle", "failed"} /\ runs < MaxRuns /\ memory.kernel = 0
  /\ runs' = runs + 1
  /\ \/ /\ memory' = [NoResult EXCEPT !.config = Direct, !.kernel = Direct]
        /\ best' = memory' /\ phase' = "done"
        /\ jit' = Direct
     \/ phase' = "failed" /\ UNCHANGED <<memory, best, jit>>
  /\ UNCHANGED <<job, kernel, left, results, admitted, bench, setting, measured>>

\* run(): a remembered result is returned; otherwise every config is submitted.
Run ==
  /\ ~provided \/ memory.kernel # 0
  /\ phase \in {"idle", "done", "failed", "unsaved"} /\ runs < MaxRuns
  /\ runs' = runs + 1
  /\ IF memory.kernel # 0
     THEN /\ phase' = "done" /\ best' = memory
          /\ UNCHANGED <<job, kernel, left, results, admitted, bench, measured>>
     ELSE /\ phase' = "compile"
          /\ job' = [c \in Configs |-> "queued"] /\ kernel' = [c \in Configs |-> 0]
          /\ left' = Configs /\ results' = <<>> /\ admitted' = {} /\ bench' = 0
          /\ best' = [NoResult EXCEPT !.latency = StartBest] /\ measured' = {}
  /\ UNCHANGED <<jit, memory, setting>>

\* A worker takes the oldest queued configuration and looks in the wrapper's cache.
Take(c) ==
  /\ phase = "compile" /\ job[c] = "queued"
  /\ \A d \in 1..(c - 1) : job[d] # "queued"
  /\ Cardinality({d \in Configs : job[d] \in Running}) < NumWorkers
  /\ job' = [job EXCEPT ![c] = IF decorated /\ jit # 0 THEN "returning" ELSE "compiling"]
  /\ UNCHANGED <<phase, jit, kernel, left, results, admitted, bench, best, memory,
                 measured, setting, runs>>

\* tilelang.compile succeeds, or raises: the future carries the exception.
Compile(c) ==
  /\ job[c] = "compiling"
  /\ \E s \in {"storing", "failed"} : job' = [job EXCEPT ![c] = s]
  /\ UNCHANGED <<phase, jit, kernel, left, results, admitted, bench, best, memory,
                 measured, setting, runs>>

\* self._kernel_cache[key] = kernel_result, last writer wins.
Store(c) ==
  /\ job[c] = "storing"
  /\ jit' = IF decorated THEN c ELSE jit
  /\ job' = [job EXCEPT ![c] = "returning"]
  /\ UNCHANGED <<phase, kernel, left, results, admitted, bench, best, memory,
                 measured, setting, runs>>

KernelBySlot(c) == 1

\* return self._kernel_cache[key]: the wrapper reads its cache again.
KernelReturned(c) == IF decorated THEN jit ELSE c

Return(c) ==
  /\ job[c] = "returning"
  /\ kernel' = [kernel EXCEPT ![c] = KernelReturned(c)]
  /\ job' = [job EXCEPT ![c] = "returned"]
  /\ UNCHANGED <<phase, jit, left, results, admitted, bench, best, memory, measured, setting, runs>>

---------------------------------------------------------------------------
AllSucceeded(remaining) == remaining = {} /\ \A d \in Configs : kernel[d] # 0

FirstSuccess(remaining) == remaining = {} \/ \E d \in Configs : kernel[d] # 0

\* The collecting loop is over when as_completed has yielded every future.
AllCollected(remaining) == remaining = {}

\* as_completed yields the finished futures in no particular order; one that
\* raised is dropped.
Collect(c) ==
  /\ phase = "compile" /\ c \in left /\ job[c] \in {"returned", "failed"}
  /\ left' = left \ {c}
  /\ results' = IF job[c] = "returned" THEN Append(results, <<kernel[c], c>>) ELSE results
  /\ phase' = IF AllCollected(left') THEN "bench" ELSE phase
  /\ UNCHANGED <<job, jit, kernel, admitted, bench, best, memory, measured, setting, runs>>

Better(latency) == latency < best.latency

Keep(i, latency) ==
  IF Better(latency)
  THEN [latency |-> latency, config |-> results[i][2], kernel |-> results[i][1]]
  ELSE best

\* A configuration that times out or raises is passed over for good.
AfterError == bench + 1

\* One round of the default loop: time the kernel under the alarm.
Measure ==
  /\ phase = "bench" /\ ~npu /\ bench < Len(results)
  /\ \E l \in Latencies :
       /\ best' = Keep(bench + 1, l)
       /\ measured' = measured \cup {<<results[bench + 1][2], l>>}
  /\ bench' = bench + 1
  /\ UNCHANGED <<phase, job, jit, kernel, left, results, admitted, memory, setting, runs>>

MeasureFails ==
  /\ phase = "bench" /\ ~npu /\ bench < Len(results)
  /\ bench' = AfterError
  /\ UNCHANGED <<phase, job, jit, kernel, left, results, admitted, best, memory,
                 measured, setting, runs>>

\* NPU profiling: the correctness check admits a kernel to the batch or not.
Admit ==
  /\ phase = "bench" /\ npu /\ bench < Len(results)
  /\ \E ok \in BOOLEAN :
       admitted' = IF ok THEN admitted \cup {bench + 1} ELSE admitted
  /\ bench' = bench + 1
  /\ UNCHANGED <<phase, job, jit, kernel, left, results, best, memory, measured, setting, runs>>

\* Supplying inputs, or timing the reference program, raises: no handler there.
AdmitRaises ==
  /\ phase = "bench" /\ npu /\ bench < Len(results)
  /\ phase' = "failed"
  /\ UNCHANGED <<job, jit, kernel, left, results, admitted, bench, best, memory,
                 measured, setting, runs>>

LastOfBatch(ls, i) == \A j \in DOMAIN ls : j <= i

\* The least latency of the batch wins, the earliest entry among equals.
Fastest(ls, i) == \A j \in DOMAIN ls : ls[i] < ls[j] \/ (ls[i] = ls[j] /\ i <= j)

\* do_bench_npu times the whole batch; if it raises, every latency is infinite.
MeasureBatch ==
  /\ phase = "bench" /\ npu /\ bench = Len(results)
  /\ \E ls \in [admitted -> Latencies] \cup {[i \in admitted |-> Infinity]} :
       /\ \/ admitted = {} /\ UNCHANGED best
          \/ \E i \in admitted : Fastest(ls, i) /\ best' = Keep(i, ls[i])
       /\ measured' = {<<results[i][2], ls[i]>> : i \in admitted}
  /\ phase' = "batch"
  /\ UNCHANGED <<job, jit, kernel, left, results, admitted, bench, memory, setting, runs>>

\* pool.shutdown, then the verdict: an exception, or the result, remembered once it
\* is stored; making its directory may raise (the files in it are tried only).
Finish ==
  /\ \/ phase = "batch"
     \/ phase = "bench" /\ ~npu /\ bench = Len(results)
  /\ \/ best.kernel = 0 /\ phase' = "failed" /\ UNCHANGED memory
     \/ best.kernel # 0 /\ phase' = "done" /\ memory' = best
     \/ best.kernel # 0 /\ phase' = "unsaved" /\ UNCHANGED memory
  /\ UNCHANGED <<job, jit, kernel, left, results, admitted, bench, best, measured, setting, runs>>

Work(c) == Take(c) \/ Compile(c) \/ Store(c) \/ Return(c)
Tuner   == (\E c \in Configs : Collect(c)) \/ Measure \/ MeasureFails \/ Admit
           \/ AdmitRaises \/ MeasureBatch \/ Finish

Next == RunDirect \/ Run \/ (\E c \in Configs : Work(c)) \/ Tuner

Spec == Init /\ [][Next]_vars

\* Compilation threads and the tuning loop keep running; nobody has to call run().
FairSpec == Spec /\ WF_vars(Tuner) /\ \A c \in Configs : WF_vars(Work(c))

---------------------------------------------------------------------------
\* The winner is the fastest configuration measured, in whatever order the
\* futures completed.
BestIsFastest ==
  phase = "done" /\ measured # {} =>
    /\ <<best.config, best.latency>> \in measured
    /\ \A m \in measured : best.latency <= m[2]

\* No configuration is lost between the pool and the verdict: when benchmarking
\* starts each one either failed to compile or is in the list exactly once.
NoConfigLost ==
  phase \in {"bench", "batch"} =>
    /\ \A c \in Configs : job[c] \in {"failed", "returned"}
    /\ \A c \in Configs : job[c] = "returned" <=>
         Cardinality({i \in DOMAIN results : results[i][2] = c}) = 1
    /\ Len(results) = Cardinality({c \in Configs : job[c] = "returned"})

\* Tuning fails only if no configuration was timed below the initial bound.  The one
\* other way to end without a result is that the winner cannot be stored; it is
\* not remembered then, in memory either, and the next run tunes again.
FailsOnlyForNothing ==
  /\ phase = "failed" => \A m \in measured : m[2] >= Cap
  /\ phase = "unsaved" => memory.kernel = 0 /\ \E m \in measured : m[2] < Cap

\* The kernel handed out was compiled from the configuration reported with it.
ResultMatchesConfig == phase = "done" => best.kernel = best.config

\* Without the wrapper's cache this holds: worker, future, result and verdict keep
\* kernel and configuration together in any completion order.
OwnKernel == ~decorated => ResultMatchesConfig

\* A tuning run comes to an end.
RunEnds == phase = "compile" ~> phase \in {"done", "failed", "unsaved"}
============================================================================
