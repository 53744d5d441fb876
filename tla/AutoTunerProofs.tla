--------------------------- MODULE AutoTunerProofs ---------------------------
(***************************************************************************)
(* What AutoTuner.run answers, for every number of configurations and       *)
(* workers, every bound on the latencies and every order of completion.     *)
(*                                                                         *)
(* The invariant follows a kernel from its worker to the verdict.  Pool:    *)
(* what a future returned, and every entry of the result list, is a real    *)
(* kernel (and the configuration's own unless the JIT wrapper's cache is    *)
(* in between).  Verdict: best is never slower than anything measured, it   *)
(* is a measurement as soon as it has a kernel, and what is remembered is   *)
(* the verdict on the measurements still on record.                         *)
(*                                                                         *)
(* The second invariant, Ledger, accounts for the futures: one that has     *)
(* been yielded is finished for good, and the list has exactly one entry    *)
(* for it if it returned a kernel.                                          *)
(***************************************************************************)
EXTENDS AutoTuner, FiniteSetTheorems, TLAPS

\* First-order leaves need no arithmetic; the others are left to the SMT solver.
USE ZenonT(2), SMT

Phases == {"idle", "compile", "bench", "batch", "done", "failed", "unsaved"}
Jobs == {"queued", "compiling", "storing", "returning", "returned", "failed"}
Own(k, c) == k # 0 /\ (~decorated => k = c)

Pool ==
  /\ job \in [Configs -> Jobs] /\ kernel \in [Configs -> Nat] /\ jit \in Nat
  /\ \A c \in Configs : decorated /\ job[c] = "returning" => jit # 0
  /\ \A c \in Configs : job[c] = "returned" => Own(kernel[c], c)

Collected ==
  /\ results \in Seq(Nat \X Configs)
  /\ \A i \in DOMAIN results : Own(results[i][1], results[i][2])
  /\ admitted \subseteq DOMAIN results /\ bench \in Nat

Verdict ==
  /\ best \in [latency : Nat, config : Nat, kernel : Nat]
  /\ measured \subseteq Configs \X Nat
  /\ \A m \in measured : best.latency <= m[2]
  /\ IF best.kernel = 0 THEN best.latency = Cap ELSE provided \/ best.latency < Cap
  /\ best.kernel # 0 /\ ~provided => <<best.config, best.latency>> \in measured
  /\ ~decorated => best.kernel = best.config
  /\ npu /\ phase \in {"compile", "bench"} => measured = {} /\ best.kernel = 0
  /\ phase \in {"idle", "failed"} => best.kernel = 0
  /\ phase = "unsaved" => best.kernel # 0 /\ ~provided
  /\ provided => measured = {} /\ phase \notin {"compile", "bench", "batch"}

Remembered ==
  /\ memory \in [latency : Nat, config : Nat, kernel : Nat]
  /\ IF phase = "done" THEN memory = best /\ best.kernel # 0 ELSE memory.kernel = 0

Setting == decorated \in BOOLEAN /\ npu \in BOOLEAN /\ provided \in BOOLEAN /\ phase \in Phases

TunerInv == Setting /\ Pool /\ Collected /\ Verdict /\ Remembered

\* A configuration is a positive number, and so is what Direct stands for.
LEMMA ConfigNumbers ==
  /\ NumConfigs \in Nat /\ Cap \in Nat /\ Direct \in Nat \ {0} /\ Infinity \in Nat
  /\ Configs \subseteq Nat \ {0} /\ Latencies \subseteq Nat
BY TunerAssumption DEF Configs, Direct, Infinity, Latencies

\* The tuner starts within its invariant.
LEMMA InitTunerInv == Init => TunerInv
<1> SUFFICES ASSUME Init PROVE TunerInv
  OBVIOUS
<1> USE ConfigNumbers DEF Init
<1>1. Setting /\ Pool
  BY Zenon DEF Setting, Pool, Phases, Jobs
<1>2. Collected
  BY DEF Collected
<1>3. Verdict /\ Remembered
  BY DEF Verdict, Remembered, NoResult
<1> QED  BY <1>1, <1>2, <1>3 DEF TunerInv

\* What a worker does touches its own future, and the wrapper's cache.
LEMMA WorkTunerInv ==
  ASSUME TunerInv, NEW c \in Configs, Work(c)
  PROVE  TunerInv'
<1> USE ConfigNumbers DEF TunerInv, Setting, Phases, setting
<1>1. UNCHANGED <<phase, setting, results, admitted, bench, best, memory, measured>>
  BY DEF Work, Take, Compile, Store, Return
<1>2. Collected' /\ Verdict' /\ Remembered'
  BY <1>1 DEF Collected, Own, Verdict, Remembered
<1>3. Pool'
  <2> USE DEF Pool, Own, Jobs
  <2>1. CASE Take(c)
    BY <2>1 DEF Take
  <2>2. CASE Compile(c)
    BY <2>2 DEF Compile
  <2>3. CASE Store(c)
    BY <2>3 DEF Store
  <2>4. CASE Return(c)
    BY <2>4 DEF Return, KernelReturned
  <2> QED  BY <2>1, <2>2, <2>3, <2>4 DEF Work
<1> QED  BY <1>1, <1>2, <1>3

\* A future that completed is appended with its own kernel.
LEMMA CollectTunerInv ==
  ASSUME TunerInv, NEW c \in Configs, Collect(c)
  PROVE  TunerInv'
<1> USE ConfigNumbers DEF TunerInv, Setting, Phases, setting
<1>1. Pool' /\ Verdict' /\ Remembered'
  BY DEF Collect, AllCollected, Pool, Own, Verdict, Remembered
<1>2. Collected'
  <2>1. CASE job[c] = "returned"
    <3>1. results' = Append(results, <<kernel[c], c>>) /\ <<kernel[c], c>> \in Nat \X Configs
      BY <2>1 DEF Collect, Pool
    <3>2. results' \in Seq(Nat \X Configs) /\ Len(results') = Len(results) + 1
      BY <3>1 DEF Collected
    <3>3. \A i \in DOMAIN results : i \in DOMAIN results' /\ results'[i] = results[i]
      BY <3>1, <3>2 DEF Collected
    <3>4. results'[Len(results) + 1] = <<kernel[c], c>>
      BY <3>1 DEF Collected
    <3>5. \A i \in DOMAIN results' : i \in DOMAIN results \/ i = Len(results) + 1
      BY <3>2 DEF Collected
    <3> QED  BY <2>1, <3>2, <3>3, <3>4, <3>5 DEF Collect, Collected, Pool, Own
  <2>2. CASE job[c] # "returned"
    BY <2>2 DEF Collect, Collected, Own
  <2> QED  BY <2>1, <2>2
<1> QED  BY <1>1, <1>2 DEF Collect, AllCollected

\* Starting a run, or answering from memory.
LEMMA RunTunerInv == TunerInv /\ (Run \/ RunDirect) => TunerInv'
<1> USE ConfigNumbers DEF TunerInv, Setting, Phases, setting, NoResult
<1>1. ASSUME TunerInv, RunDirect PROVE TunerInv'
  <2>1. Setting' /\ Pool' /\ Collected'
    BY <1>1 DEF RunDirect, Pool, Collected, Own
  <2>2. CASE phase' = "failed" /\ UNCHANGED <<memory, best, jit>>
    BY <1>1, <2>1, <2>2 DEF RunDirect, Verdict, Remembered
  <2>3. CASE /\ memory' = [NoResult EXCEPT !.config = Direct, !.kernel = Direct]
             /\ best' = memory' /\ phase' = "done"
    <3>1. memory' = [latency |-> Cap, config |-> Direct, kernel |-> Direct]
      BY Zenon, <2>3
    <3> QED  BY <1>1, <2>1, <2>3, <3>1 DEF RunDirect, Verdict, Remembered
  <2> QED  BY <1>1, <2>2, <2>3 DEF RunDirect
<1>2. ASSUME TunerInv, Run, memory.kernel # 0 PROVE TunerInv'
  <2>1. Setting' /\ Pool' /\ Collected'
    BY <1>2 DEF Run, Pool, Collected, Own
  <2>2. UNCHANGED <<phase, best, memory, measured, setting>>
    BY <1>2 DEF Run, Remembered
  <2> QED  BY <1>2, <2>1, <2>2 DEF Verdict, Remembered
<1>3. ASSUME TunerInv, Run, memory.kernel = 0 PROVE TunerInv'
  BY SMTT(20), <1>3 DEF Run, Pool, Collected, Own, Verdict, Remembered, StartBest, Jobs
<1> QED  BY <1>1, <1>2, <1>3

\* One measurement of the default loop.
LEMMA MeasureTunerInv == TunerInv /\ Measure => TunerInv'
<1> SUFFICES ASSUME TunerInv, Measure PROVE TunerInv'
  OBVIOUS
<1> USE ConfigNumbers DEF TunerInv, Setting, Phases, setting
<1>1. PICK l \in Latencies : /\ best' = Keep(bench + 1, l)
                             /\ measured' = measured \cup {<<results[bench + 1][2], l>>}
  BY DEF Measure
<1>2. /\ bench + 1 \in DOMAIN results
      /\ results[bench + 1] \in Nat \X Configs
      /\ Own(results[bench + 1][1], results[bench + 1][2])
  BY DEF Measure, Collected
<1>3. Pool' /\ Collected' /\ Remembered'
  BY SMTT(20) DEF Measure, Pool, Collected, Own, Remembered
<1>4. Verdict'
  <2>1. /\ phase = "bench" /\ ~npu /\ ~provided /\ l \in Nat
        /\ UNCHANGED <<phase, setting>>
    BY DEF Measure, Verdict
  <2>2. CASE Better(l)
    <3>1. best' = [latency |-> l, config |-> results[bench + 1][2], kernel |-> results[bench + 1][1]]
      BY <1>1, <2>2 DEF Keep
    <3>2. \A m \in measured' : best'.latency <= m[2]
      BY <1>1, <2>1, <2>2, <3>1 DEF Better, Verdict
    <3>3. measured' \subseteq Configs \X Nat /\ <<best'.config, best'.latency>> \in measured'
      BY <1>1, <1>2, <2>1, <3>1 DEF Verdict
    <3>4. best' \in [latency : Nat, config : Nat, kernel : Nat] /\ best'.kernel # 0
      BY Zenon, <1>2, <2>1, <3>1 DEF Own
    <3>5. ~decorated => best'.kernel = best'.config
      BY <1>2, <3>1 DEF Own
    <3>6. best'.latency < Cap
      BY <2>1, <2>2, <3>1 DEF Better, Verdict
    <3> QED  BY <2>1, <3>2, <3>3, <3>4, <3>5, <3>6 DEF Verdict
  <2>3. CASE ~Better(l)
    <3>1. best' = best
      BY <1>1, <2>3 DEF Keep
    <3>2. \A m \in measured' : best.latency <= m[2]
      BY <1>1, <2>1, <2>3 DEF Better, Verdict
    <3> QED  BY <1>1, <1>2, <2>1, <3>1, <3>2 DEF Verdict
  <2> QED  BY <2>2, <2>3
<1> QED  BY <1>3, <1>4 DEF Measure

\* The batch is measured as a whole, and nothing was measured before it.
LEMMA BatchTunerInv == TunerInv /\ MeasureBatch => TunerInv'
<1> SUFFICES ASSUME TunerInv, MeasureBatch PROVE TunerInv'
  OBVIOUS
<1> USE ConfigNumbers DEF TunerInv, Setting, Phases, setting
<1>1. PICK ls \in [admitted -> Latencies] \cup {[i \in admitted |-> Infinity]} :
        /\ \/ admitted = {} /\ UNCHANGED best
           \/ \E i \in admitted : Fastest(ls, i) /\ best' = Keep(i, ls[i])
        /\ measured' = {<<results[i][2], ls[i]>> : i \in admitted}
  BY DEF MeasureBatch
<1>2. ls \in [admitted -> Nat]
  BY Zenon, <1>1
<1>3. \A i \in admitted : results[i] \in Nat \X Configs /\ Own(results[i][1], results[i][2])
  BY DEF Collected
<1>4. Pool' /\ Collected' /\ Remembered'
  BY DEF MeasureBatch, Pool, Collected, Own, Remembered
<1>5. Verdict'
  <2>1. /\ best.kernel = 0 /\ best.latency = Cap /\ ~provided /\ phase' = "batch"
        /\ UNCHANGED setting
    BY DEF MeasureBatch, Verdict
  <2>2. measured' \subseteq Configs \X Nat
    BY <1>1, <1>2, <1>3
  <2>3. CASE admitted = {} /\ UNCHANGED best
    BY <1>1, <2>1, <2>2, <2>3 DEF Verdict
  <2>4. ASSUME NEW i \in admitted, Fastest(ls, i), best' = Keep(i, ls[i]) PROVE Verdict'
    <3>1. \A j \in admitted : ls[i] \in Nat /\ ls[j] \in Nat /\ ls[i] <= ls[j]
      BY <1>2, <2>4 DEF Fastest
    <3>2. \A m \in measured' : \E j \in admitted : m = <<results[j][2], ls[j]>>
      BY <1>1
    <3>3. \A m \in measured' : ls[i] <= m[2]
      BY <3>1, <3>2
    <3>4. <<results[i][2], ls[i]>> \in measured'
      BY <1>1
    <3>5. CASE Better(ls[i])
      <4>1. best' = [latency |-> ls[i], config |-> results[i][2], kernel |-> results[i][1]]
        BY <2>4, <3>5 DEF Keep
      <4>2. best'.latency < Cap
        BY <2>1, <3>5, <4>1 DEF Better
      <4> QED  BY Zenon, <1>3, <2>1, <2>2, <3>1, <3>3, <3>4, <4>1, <4>2 DEF Verdict, Own
    <3>6. CASE ~Better(ls[i])
      <4>1. best' = best
        BY <2>4, <3>6 DEF Keep
      <4>2. \A m \in measured' : m[2] \in Nat
        BY <2>2
      <4>3. \A m \in measured' : best.latency <= m[2]
        BY <2>1, <3>1, <3>3, <3>6, <4>2 DEF Better
      <4> QED  BY <2>1, <2>2, <4>1, <4>3 DEF Verdict
    <3> QED  BY <3>5, <3>6
  <2> QED  BY <1>1, <2>3, <2>4
<1> QED  BY <1>4, <1>5 DEF MeasureBatch

\* The steps that measure nothing.
LEMMA OtherTunerInv ==
  TunerInv /\ (MeasureFails \/ Admit \/ AdmitRaises \/ Finish \/ UNCHANGED vars) => TunerInv'
<1>1. ASSUME TunerInv, MeasureFails PROVE TunerInv'
  <2>1. bench' \in Nat
    BY <1>1 DEF MeasureFails, AfterError, TunerInv, Collected
  <2> QED  BY <1>1, <2>1 DEF MeasureFails, TunerInv, Setting, setting, Pool, Own, Collected, Verdict,
                             Remembered
<1> USE DEF TunerInv, Setting, Phases, setting, Pool, Own, Verdict, Remembered
<1>2. ASSUME TunerInv, Admit PROVE TunerInv'
  BY SMTT(20), <1>2 DEF Admit, Collected
<1>3. ASSUME TunerInv, AdmitRaises PROVE TunerInv'
  BY <1>3 DEF AdmitRaises, Collected
<1>4. ASSUME TunerInv, Finish PROVE TunerInv'
  BY <1>4 DEF Finish, Collected
<1>5. ASSUME TunerInv, UNCHANGED vars PROVE TunerInv'
  BY <1>5 DEF vars, Collected
<1> QED  BY <1>1, <1>2, <1>3, <1>4, <1>5

\* The invariant of run() holds throughout, for any number of configurations.
THEOREM TunerInductive == Spec => []TunerInv
<1>1. TunerInv /\ [Next]_vars => TunerInv'
  BY WorkTunerInv, CollectTunerInv, RunTunerInv, MeasureTunerInv, BatchTunerInv, OtherTunerInv
     DEF Next, Tuner
<1> QED  BY <1>1, InitTunerInv, PTL DEF Spec

\* The configuration that wins is one that was measured, and none measured is
\* faster (the search of AutoTuner.run, in both of its forms).
THEOREM FastestWins == Spec => []BestIsFastest
<1>1. TunerInv => BestIsFastest
  BY DEF TunerInv, Verdict, BestIsFastest, Remembered, Setting
<1> QED  BY <1>1, TunerInductive, PTL

\* run() finds no configuration only if nothing was measured below the initial
\* bound, and a winner it could not store is forgotten.
THEOREM FailureMeansNothing == Spec => []FailsOnlyForNothing
<1>1. TunerInv => FailsOnlyForNothing
  <2>1. ASSUME TunerInv, phase = "failed" PROVE \A m \in measured : m[2] >= Cap
    BY <2>1, TunerAssumption DEF TunerInv, Verdict
  <2>2. ASSUME TunerInv, phase = "unsaved"
        PROVE  memory.kernel = 0 /\ \E m \in measured : m[2] < Cap
    <3>1. <<best.config, best.latency>> \in measured /\ best.latency < Cap
      BY <2>2 DEF TunerInv, Verdict
    <3> QED  BY <2>2, <3>1 DEF TunerInv, Remembered
  <2> QED  BY <2>1, <2>2 DEF FailsOnlyForNothing
<1> QED  BY <1>1, TunerInductive, PTL

\* Without the JIT wrapper's cache a result comes with its own kernel.
THEOREM KernelAndConfig == Spec => []OwnKernel
<1>1. TunerInv => OwnKernel
  BY DEF TunerInv, Verdict, OwnKernel, ResultMatchesConfig
<1> QED  BY <1>1, TunerInductive, PTL
-----------------------------------------------------------------------------
Gathering == {"compile", "bench", "batch"}
Final     == {"failed", "returned"}

Ledger ==
  /\ left \subseteq Configs
  /\ phase \in {"bench", "batch"} => left = {}
  /\ phase \in Gathering =>
       /\ \A c \in Configs \ left : job[c] \in Final
       /\ \A c \in Configs \ left :
            job[c] = "returned" => \E i \in DOMAIN results : results[i][2] = c
       /\ \A i \in DOMAIN results : /\ results[i][2] \in Configs \ left
                                    /\ job[results[i][2]] = "returned"
       /\ \A i, j \in DOMAIN results : results[i][2] = results[j][2] => i = j

\* A worker never touches a future that has been yielded.
LEMMA WorkLedger ==
  ASSUME TunerInv, Ledger, NEW c \in Configs, Work(c)
  PROVE  Ledger'
<1>1. UNCHANGED <<phase, left, results>> /\ job[c] \notin Final
  BY DEF Work, Take, Compile, Store, Return, Final
<1>2. \A d \in Configs : d # c => job'[d] = job[d]
  BY DEF Work, Take, Compile, Store, Return, TunerInv, Pool
<1>3. phase \in Gathering => c \in left
  BY <1>1 DEF Ledger
<1> QED  BY <1>1, <1>2, <1>3 DEF Ledger

\* A yielded future moves from `left` to the list, or is dropped as failed.
LEMMA CollectLedger ==
  ASSUME TunerInv, Ledger, NEW c \in Configs, Collect(c)
  PROVE  Ledger'
<1>1. /\ phase = "compile" /\ c \in left /\ left' = left \ {c} /\ job' = job
      /\ job[c] \in Final /\ phase' = IF left' = {} THEN "bench" ELSE "compile"
  BY DEF Collect, AllCollected, Final
<1>2. phase \in Gathering
  BY <1>1 DEF Gathering
<1>3. CASE job[c] = "returned"
  <2>1. results' = Append(results, <<kernel[c], c>>) /\ results \in Seq(Nat \X Configs)
    BY <1>3 DEF Collect, TunerInv, Collected
  <2>2. /\ \A i \in DOMAIN results : i \in DOMAIN results' /\ results'[i] = results[i]
        /\ Len(results) + 1 \in DOMAIN results'
        /\ results'[Len(results) + 1] = <<kernel[c], c>>
        /\ \A i \in DOMAIN results' : i \in DOMAIN results \/ i = Len(results) + 1
    BY <2>1
  <2> HIDE <2>1
  <2>3. results'[Len(results) + 1][2] = c
    BY <2>2
  <2>4. \A i \in DOMAIN results : results[i][2] # c
    BY <1>1, <1>2 DEF Ledger
  <2>5. \A i, j \in DOMAIN results' : results'[i][2] = results'[j][2] => i = j
    BY <1>2, <2>2, <2>3, <2>4 DEF Ledger
  <2>6. \A i \in DOMAIN results' : results'[i][2] \in Configs \ left'
                                   /\ job[results'[i][2]] = "returned"
    BY <1>1, <1>2, <1>3, <2>2, <2>3 DEF Ledger
  <2>7. \A d \in Configs \ left' :
          job[d] = "returned" => \E i \in DOMAIN results' : results'[i][2] = d
    BY <1>1, <1>2, <2>2, <2>3 DEF Ledger
  <2> QED  BY <1>1, <1>2, <2>5, <2>6, <2>7 DEF Ledger
<1>4. CASE job[c] # "returned"
  <2>1. results' = results
    BY <1>4 DEF Collect
  <2> QED  BY <1>1, <1>2, <1>4, <2>1 DEF Ledger
<1> QED  BY <1>3, <1>4

\* Between the pool and the benchmarks every future that was yielded is in the list
\* of results or has failed (as_completed in run()), and no other one is.
THEOREM LedgerInductive == Spec => []Ledger
<1>1. Init => Ledger
  BY DEF Init, Ledger, Gathering
<1>2. TunerInv /\ Ledger /\ [Next]_vars => Ledger'
  <2>1. ASSUME Ledger, RunDirect \/ Run PROVE Ledger'
    BY <2>1 DEF RunDirect, Run, Ledger, Gathering
  <2>2. ASSUME Ledger, Measure \/ MeasureFails \/ Admit \/ AdmitRaises \/ MeasureBatch \/ Finish
        PROVE  Ledger'
    <3>1. UNCHANGED <<job, left, results>> /\ phase \in {"bench", "batch"}
      BY <2>2 DEF Measure, MeasureFails, Admit, AdmitRaises, MeasureBatch, Finish
    <3> QED  BY <2>2, <3>1 DEF Ledger, Gathering
  <2>3. ASSUME Ledger, UNCHANGED vars PROVE Ledger'
    BY <2>3 DEF vars, Ledger
  <2> QED  BY <2>1, <2>2, <2>3, WorkLedger, CollectLedger DEF Next, Tuner
<1> QED  BY <1>1, <1>2, TunerInductive, PTL DEF Spec

\* Every configuration submitted is accounted for when benchmarking starts, for
\* any number of them, of workers and any order of completion.
THEOREM EveryConfigCounted == Spec => []NoConfigLost
<1>1. TunerInv /\ Ledger => NoConfigLost
  <2> SUFFICES ASSUME TunerInv, Ledger, phase \in {"bench", "batch"}
               PROVE  /\ \A c \in Configs : job[c] \in {"failed", "returned"}
                      /\ \A c \in Configs : job[c] = "returned" <=>
                           Cardinality({i \in DOMAIN results : results[i][2] = c}) = 1
                      /\ Len(results) = Cardinality({c \in Configs : job[c] = "returned"})
    BY DEF NoConfigLost
  <2>1. /\ \A c \in Configs : job[c] \in Final
        /\ \A c \in Configs :
             job[c] = "returned" => \E i \in DOMAIN results : results[i][2] = c
        /\ \A i \in DOMAIN results : /\ results[i][2] \in Configs
                                     /\ job[results[i][2]] = "returned"
        /\ \A i, j \in DOMAIN results : results[i][2] = results[j][2] => i = j
    BY DEF Ledger, Gathering
  <2>2. results \in Seq(Nat \X Configs) /\ Len(results) \in Nat /\ DOMAIN results = 1..Len(results)
    BY DEF TunerInv, Collected
  <2>3. ASSUME NEW c \in Configs
        PROVE  job[c] = "returned" <=> Cardinality({i \in DOMAIN results : results[i][2] = c}) = 1
    <3> DEFINE entries == {i \in DOMAIN results : results[i][2] = c}
    <3>1. ASSUME job[c] = "returned" PROVE \E i : entries = {i}
      <4>1. PICK i \in DOMAIN results : results[i][2] = c
        BY <2>1, <3>1
      <4>2. \A j \in entries : j = i
        BY <2>1, <4>1
      <4> QED  BY <4>1, <4>2
    <3>2. job[c] # "returned" => entries = {}
      BY <2>1
    <3> HIDE DEF entries
    <3>3. job[c] = "returned" => Cardinality(entries) = 1
      BY <3>1, FS_Singleton
    <3>4. job[c] # "returned" => Cardinality(entries) = 0
      BY <3>2, FS_EmptySet
    <3>5. (job[c] = "returned") <=> (Cardinality(entries) = 1)
      BY <3>3, <3>4
    <3> QED  BY <3>5 DEF entries
  <2>4. Len(results) = Cardinality({c \in Configs : job[c] = "returned"})
    <3> DEFINE S == 1..Len(results)
               T == {c \in Configs : job[c] = "returned"}
               f == [i \in S |-> results[i][2]]
    <3>1. /\ f \in [S -> T]
          /\ \A i, j \in S : f[i] = f[j] => i = j
          /\ \A c \in T : \E i \in S : f[i] = c
      BY Zenon, <2>1, <2>2
    <3>2. IsFiniteSet(S) /\ Cardinality(S) = Len(results)
      <4>1. 1 \in Int /\ Len(results) \in Int
        BY <2>2
      <4>2. IsFiniteSet(S) /\ Cardinality(S) = IF 1 > Len(results) THEN 0 ELSE Len(results) - 1 + 1
        BY <4>1, FS_Interval
      <4> QED  BY <2>2, <4>2
    <3> HIDE DEF S, T, f
    <3>3. ExistsBijection(S, T)
      BY <3>1 DEF ExistsBijection, Bijection, Injection, Surjection, IsInjective
    <3>4. Cardinality(T) = Cardinality(S)
      BY <3>2, <3>3, FS_Bijection
    <3> QED  BY <3>2, <3>4 DEF T
  <2> QED  BY <2>1, <2>3, <2>4 DEF Final
<1> QED  BY <1>1, TunerInductive, LedgerInductive, PTL
=============================================================================
