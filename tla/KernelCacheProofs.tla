-------------------------- MODULE KernelCacheProofs --------------------------
(***************************************************************************)
(* An entry that one process at a time uses, of either kind and however     *)
(* often that process is killed.  Invariant: the file written last is the   *)
(* commit record.  It is complete only if all the others are, and a save is *)
(* under way only while it is not, because a load that finds it complete    *)
(* finds everything else, too, and so never leads to a rebuild.             *)
(*                                                                         *)
(* Then what a process works with (ServeInv), and a compile entry that any  *)
(* number of processes save and load at once (ShareInv).                    *)
(***************************************************************************)
EXTENDS KernelCache, TLAPS

\* First-order leaves need no arithmetic; the others are left to the SMT solver.
USE ZenonT(2), SMT

Size == IF autotune THEN 7 ELSE 4
Names == [i \in 1..7 |-> IF i = 1 THEN "mlir" ELSE IF i = 2 THEN "obj" ELSE IF i = 3 THEN "so"
                         ELSE IF i = 4 THEN "meta" ELSE IF i = 5 THEN "config"
                         ELSE IF i = 6 THEN "func" ELSE "latency"]
Needed == {"obj", "meta", "so"} \cup (IF autotune THEN {"config", "func", "latency"} ELSE {})
Commit == IF autotune THEN "latency" ELSE "meta"
Committed == disk[Commit] \in Versions

\* The order in which a save writes the files.
LEMMA SaveOrderIs == Len(SaveOrder) = Size /\ \A i \in 1..Size : SaveOrder[i] = Names[i]
<1>1. CASE autotune
  BY <1>1 DEF SaveOrder, KernelFiles, TuneFiles, Size, Names
<1>2. CASE ~autotune
  BY <1>2 DEF SaveOrder, KernelFiles, TuneFiles, Size, Names
<1> QED  BY <1>1, <1>2

\* The order in which a load reads them: main.so comes last, the commit record
\* before it.
LEMMA ReadOrderIs ==
  /\ Len(ReadOrder) = IF autotune THEN 6 ELSE 3
  /\ \A i \in 1..Len(ReadOrder) : ReadOrder[i] \in Needed
  /\ \A i \in 1..Len(ReadOrder) : ReadOrder[i] = "so" <=> i = Len(ReadOrder)
  /\ ReadOrder[IF autotune THEN 3 ELSE 2] = Commit
<1>1. CASE autotune
  BY <1>1 DEF ReadOrder, TuneFiles, Needed, Commit
<1>2. CASE ~autotune
  BY <1>2 DEF ReadOrder, TuneFiles, Needed, Commit
<1> QED  BY <1>1, <1>2

\* The files a load needs are those it reads.
LEMMA NeededIs == Range(ReadOrder) = Needed
<1>1. CASE autotune
  BY <1>1 DEF ReadOrder, TuneFiles, Needed, Range
<1>2. CASE ~autotune
  BY <1>2 DEF ReadOrder, TuneFiles, Needed, Range
<1> QED  BY <1>1, <1>2

\* A save writes every needed file, the commit record last and once.
LEMMA NamesAre ==
  /\ Names[Size] = Commit
  /\ \A i \in 1..Size : Names[i] \in Files
  /\ \A i, j \in 1..Size : Names[i] = Names[j] => i = j
  /\ \A f \in Needed : f \in Files /\ \E i \in 1..Size : Names[i] = f
  /\ Commit \in Needed /\ Size \in Nat /\ Size >= 1
<1>1. Files = {"mlir", "obj", "so", "meta", "config", "func", "latency"}
  BY DEF Files, KernelFiles, TuneFiles, Range
<1>2. CASE autotune
  BY <1>1, <1>2 DEF Names, Size, Commit, Needed
<1>3. CASE ~autotune
  BY <1>1, <1>3 DEF Names, Size, Commit, Needed
<1> QED  BY <1>2, <1>3

\* Every build is a content, and no other content is a build.
LEMMA BuildsAreFiles ==
  /\ Versions \subseteq Winners
  /\ "absent" \notin Versions /\ "empty" \notin Versions
BY CacheAssumption DEF Versions

-----------------------------------------------------------------------------
Lines == {"idle", "loading", "reading", "building", "mkdir", "opening", "filling"}

Typed ==
  /\ pc \in [Procs -> Lines] /\ pos \in [Procs -> Nat]
  /\ DOMAIN disk = Files /\ DOMAIN answer = Procs
  /\ DOMAIN built = Procs /\ DOMAIN handle = Procs

\* Nobody but p is inside a call.
Others(p) == \A q \in Procs \ {p} : pc[q] = "idle" /\ answer[q] # "load_error"

\* What is known of the files at each point of p's call.
Loading(p) ==
  pc[p] = "reading" =>
      /\ pos[p] < Len(ReadOrder)
      /\ pos[p] >= (IF autotune THEN 3 ELSE 2) => Committed
Saving(p) ==
  /\ pc[p] \in {"building", "mkdir", "opening", "filling"} => ~Committed
  /\ pc[p] \in {"mkdir", "opening", "filling"} => built[p] \in Versions
  /\ pc[p] \in {"opening", "filling"} =>
        /\ dir /\ pos[p] < Size
        /\ \A i \in 1..pos[p] : disk[Names[i]] = built[p]
  /\ pc[p] = "filling" => handle[p] /\ disk[Names[pos[p] + 1]] = "empty"

SoloInv(p) ==
  /\ Typed
  /\ Others(p)
  /\ ~dir => disk[Commit] = "absent"
  /\ Committed => Whole
  /\ answer[p] # "load_error"
  /\ Loading(p)
  /\ Saving(p)

CacheInv ==
  /\ scenario \in Scenarios /\ clears \in Nat /\ faults \in Nat
  /\ \A p \in Procs : scenario.procs = {p} /\ clears = 0 /\ faults = 0 => SoloInv(p)

\* The kind of the entry, and with it the names of its files, is fixed.
LEMMA SameEntry ==
  ASSUME UNCHANGED scenario
  PROVE  /\ autotune' = autotune /\ Size' = Size /\ Commit' = Commit
         /\ Versions' = Versions /\ Needed' = Needed
         /\ SaveOrder' = SaveOrder /\ ReadOrder' = ReadOrder /\ Names' = Names
<1>1. autotune' = autotune
  BY DEF autotune
<1> QED  BY <1>1 DEF Size, Commit, Versions, Needed, SaveOrder, ReadOrder, Names

\* A step that leaves the files alone leaves their meaning alone.
LEMMA SameFiles ==
  ASSUME UNCHANGED <<scenario, disk>>
  PROVE  Committed' = Committed /\ Whole' = Whole
BY SameEntry DEF Committed, Whole

\* A committed entry has every file a load needs.
LEMMA CommittedIsReadable ==
  ASSUME Committed => Whole, Committed, NEW f \in Needed
  PROVE  disk[f] \in Versions
BY NeededIs DEF Whole

\* A step that is neither a crash nor a clear nor a fault leaves their counts.
LEMMA CountsStay ==
  ASSUME NEW p, Call(p) \/ Load(p) \/ Build(p) \/ Mkdir(p) \/ OpenFile(p) \/ FillFile(p) \/ Rmtree(p)
  PROVE  UNCHANGED <<crashes, clears, faults>>
<1>1. CASE Call(p)  BY <1>1 DEF Call, env
<1>2. CASE Probe(p)  BY <1>2 DEF Probe, env
<1>3. CASE ReadFile(p)  BY <1>3 DEF ReadFile, env
<1>4. CASE BadFile(p)  BY <1>4 DEF BadFile, env
<1>5. CASE Build(p)  BY <1>5 DEF Build, env
<1>6. CASE Mkdir(p)  BY <1>6 DEF Mkdir, env
<1>7. CASE OpenFile(p)  BY <1>7 DEF OpenFile, env
<1>8. CASE FillFile(p)  BY <1>8 DEF FillFile, env
<1>9. CASE DeleteFile(p)  BY <1>9 DEF DeleteFile, env
<1>10. CASE DeleteDir(p)  BY <1>10 DEF DeleteDir, env
<1> QED  BY <1>1, <1>2, <1>3, <1>4, <1>5, <1>6, <1>7, <1>8, <1>9, <1>10 DEF Load, Rmtree

\* Every step counts at most one of them.
LEMMA CountsGrow ==
  ASSUME NEW p, Call(p) \/ Step(p) \/ Clear(p) \/ Crash(p)
  PROVE  /\ crashes' \in {crashes, crashes + 1}
         /\ clears' \in {clears, clears + 1} /\ faults' \in {faults, faults + 1}
<1>1. CASE Clear(p)  BY <1>1 DEF Clear
<1>2. CASE Crash(p)  BY <1>2 DEF Crash
<1>3. CASE MkdirFails(p)  BY <1>3 DEF MkdirFails
<1>4. CASE WriteFault(p)  BY <1>4 DEF WriteFault
<1>5. CASE ~(Clear(p) \/ Crash(p) \/ MkdirFails(p) \/ WriteFault(p))
  BY <1>5, CountsStay DEF Step, Save
<1> QED  BY <1>1, <1>2, <1>3, <1>4, <1>5

\* Calls and loads write no file.
LEMMA LoadsReadOnly ==
  ASSUME NEW p, Call(p) \/ Load(p)
  PROVE  UNCHANGED <<disk, dir, built, handle>>
<1>1. CASE Call(p)  BY <1>1 DEF Call
<1>2. CASE Probe(p)  BY <1>2 DEF Probe
<1>3. CASE ReadFile(p)  BY <1>3 DEF ReadFile
<1>4. CASE BadFile(p)  BY <1>4 DEF BadFile
<1> QED  BY <1>1, <1>2, <1>3, <1>4 DEF Load

\* Calls, probes and reads: the files stay, and a load that fails has found no
\* commit record.
LEMMA LoadKeeps ==
  ASSUME NEW p \in Procs, SoloInv(p), Call(p) \/ Load(p), UNCHANGED scenario
  PROVE  SoloInv(p)'
<1> USE DEF SoloInv
<1>0. UNCHANGED <<disk, dir, built, handle>> /\ Committed' = Committed /\ Whole' = Whole
  BY LoadsReadOnly, SameFiles
<1>1. CASE Call(p)
  <2>1. Typed' /\ Others(p)' /\ answer'[p] # "load_error"
    BY <1>1 DEF Call, Typed, Others, Lines
  <2>2. Loading(p)' /\ Saving(p)'
    BY <1>0, <1>1, SameEntry DEF Call, Typed, Loading, Saving
  <2> QED  BY <1>0, <2>1, <2>2, SameEntry
<1>2. CASE Probe(p)
  <2>1. Typed' /\ Others(p)' /\ answer'[p] # "load_error"
    BY <1>2 DEF Probe, Typed, Others, Lines
  <2>2. ~EntryPresent => ~Committed
    BY BuildsAreFiles DEF EntryPresent, Committed, Commit
  <2>3. /\ pc' = [pc EXCEPT ![p] = IF EntryPresent THEN "reading" ELSE "building"]
        /\ pos' = [pos EXCEPT ![p] = 0]
    BY <1>2 DEF Probe
  <2>4. Saving(p)'
    BY <1>0, <2>2, <2>3 DEF Typed, Saving
  <2>5. Loading(p)'
    BY <1>0, <2>3, ReadOrderIs, SameEntry DEF Typed, Loading
  <2> QED  BY <1>0, <2>1, <2>4, <2>5, SameEntry
<1>3. CASE ReadFile(p)
  <2> DEFINE f == ReadOrder[pos[p] + 1]
             last == pos[p] + 1 = Len(ReadOrder)
  <2>1. /\ pc[p] = "reading" /\ Readable(f)
        /\ pos' = [pos EXCEPT ![p] = IF last THEN 0 ELSE @ + 1]
        /\ IF last THEN /\ answer' = [answer EXCEPT ![p] = "kernel"]
                        /\ pc' = [pc EXCEPT ![p] = "idle"]
                   ELSE UNCHANGED <<answer, pc>>
    BY <1>3 DEF ReadFile
  <2>2. Typed' /\ Others(p)' /\ answer'[p] # "load_error"
    BY <1>0, <2>1 DEF Typed, Others, Lines
  <2>3. Saving(p)'
    BY <1>0, <2>1 DEF Typed, Saving
  <2>4. pos[p] + 1 = (IF autotune THEN 3 ELSE 2) => Committed
    BY <2>1, ReadOrderIs DEF Readable, Commit, Committed
  <2>5. Loading(p)'
    BY <1>0, <2>1, <2>4, ReadOrderIs, SameEntry DEF Typed, Loading
  <2> QED  BY <1>0, <2>2, <2>3, <2>5, SameEntry
<1>4. CASE BadFile(p)
  <2> DEFINE f == ReadOrder[pos[p] + 1]
  <2>1. /\ pc[p] = "reading" /\ Unreadable(f)
        /\ pc' = [pc EXCEPT ![p] = AfterBadFile(f)]
        /\ answer' = [answer EXCEPT ![p] = IF f = "so" THEN "load_error" ELSE @]
        /\ pos' = [pos EXCEPT ![p] = 0]
    BY <1>4 DEF BadFile
  <2>2. f \in Needed /\ (f = "so" => Committed)
    BY <2>1, ReadOrderIs DEF Typed, Loading
  <2>3. ~Committed
    BY <2>1, <2>2, CommittedIsReadable DEF Unreadable
  <2>4. pc' = [pc EXCEPT ![p] = "building"] /\ \A q \in Procs : answer'[q] = answer[q]
    BY Zenon, <2>1, <2>2, <2>3 DEF AfterBadFile, Typed
  <2>5. Typed' /\ Others(p)' /\ answer'[p] # "load_error"
    BY <1>0, <2>1, <2>4 DEF Typed, Others, Lines
  <2>6. Saving(p)' /\ Loading(p)'
    BY <1>0, <2>3, <2>4 DEF Typed, Saving, Loading
  <2> QED  BY <1>0, <2>5, <2>6, SameEntry
<1> QED  BY <1>1, <1>2, <1>3, <1>4 DEF Load

\* Builds, and what a death of the process does: the files stay.
LEMMA BuildKeeps ==
  ASSUME NEW p \in Procs, SoloInv(p), Build(p) \/ Mkdir(p) \/ Crash(p), UNCHANGED scenario
  PROVE  SoloInv(p)'
<1> USE DEF SoloInv
<1>0. UNCHANGED disk /\ Committed' = Committed /\ Whole' = Whole
  BY SameFiles DEF Build, Mkdir, Crash
<1>1. CASE Build(p)
  <2>1. /\ pc[p] = "building" /\ UNCHANGED <<dir, pos, handle>>
        /\ \/ /\ \E v \in Versions : built' = [built EXCEPT ![p] = v]
              /\ pc' = [pc EXCEPT ![p] = "mkdir"] /\ UNCHANGED answer
           \/ /\ pc' = [pc EXCEPT ![p] = "idle"] /\ UNCHANGED built
              /\ answer' = [answer EXCEPT ![p] = "build_error"]
    BY <1>1 DEF Build
  <2>2. Typed' /\ Others(p)' /\ answer'[p] # "load_error"
    BY <1>0, <2>1 DEF Typed, Others, Lines
  <2>3. Saving(p)' /\ Loading(p)'
    BY <1>0, <2>1, SameEntry DEF Typed, Saving, Loading
  <2> QED  BY <1>0, <2>1, <2>2, <2>3, SameEntry
<1>2. CASE Mkdir(p)
  <2>1. /\ pc[p] = "mkdir" /\ dir' = TRUE /\ UNCHANGED <<built, handle, answer>>
        /\ pc' = [pc EXCEPT ![p] = "opening"] /\ pos' = [pos EXCEPT ![p] = 0]
    BY <1>2 DEF Mkdir
  <2>2. Typed' /\ Others(p)' /\ answer'[p] # "load_error"
    BY <1>0, <2>1 DEF Typed, Others, Lines
  <2>3. Saving(p)' /\ Loading(p)'
    BY <1>0, <2>1, SameEntry, NamesAre DEF Typed, Saving, Loading
  <2> QED  BY <1>0, <2>1, <2>2, <2>3
<1>3. CASE Crash(p)
  <2>1. /\ pc' = [pc EXCEPT ![p] = "idle"] /\ pos' = [pos EXCEPT ![p] = 0]
        /\ built' = [built EXCEPT ![p] = "none"] /\ handle' = [handle EXCEPT ![p] = FALSE]
        /\ answer' = [answer EXCEPT ![p] = "none"] /\ UNCHANGED dir
    BY <1>3 DEF Crash
  <2>2. Typed' /\ Others(p)' /\ answer'[p] # "load_error"
    BY <1>0, <2>1 DEF Typed, Others, Lines
  <2>3. Saving(p)' /\ Loading(p)'
    BY <2>1 DEF Typed, Saving, Loading
  <2> QED  BY <1>0, <2>1, <2>2, <2>3, SameEntry
<1> QED  BY <1>1, <1>2, <1>3

\* Opening truncates: a file that was not committed is not committed now.
LEMMA OpenKeeps ==
  ASSUME NEW p \in Procs, SoloInv(p), OpenFile(p), UNCHANGED scenario
  PROVE  SoloInv(p)'
<1> USE DEF SoloInv
<1> DEFINE f == Names[pos[p] + 1]
<1>1. /\ pc[p] = "opening" /\ ~Committed /\ built[p] \in Versions /\ dir
      /\ pos[p] \in Nat /\ pos[p] < Size /\ SaveOrder[pos[p] + 1] = f /\ f \in Files
      /\ \A i \in 1..pos[p] : disk[Names[i]] = built[p] /\ Names[i] # f
  BY SaveOrderIs, NamesAre DEF OpenFile, Typed, Saving
<1>2. /\ disk' = [disk EXCEPT ![f] = "empty"] /\ handle' = [handle EXCEPT ![p] = TRUE]
      /\ pc' = [pc EXCEPT ![p] = "filling"] /\ UNCHANGED <<dir, pos, built, answer>>
  <2>1. Openable
    BY <1>1 DEF Openable
  <2>2. handle' = [handle EXCEPT ![p] = Openable] /\ Openable = dir /\ dir = TRUE
    BY <1>1 DEF OpenFile, Openable
  <2> QED  BY <1>1, <2>1, <2>2 DEF OpenFile
<1>3. ~Committed'
  BY <1>1, <1>2, BuildsAreFiles, SameEntry, NamesAre DEF Committed, Typed
<1>4. Typed' /\ Others(p)' /\ answer'[p] # "load_error"
  BY <1>2 DEF Typed, Others, Lines
<1>5. disk'[f] = "empty" /\ \A i \in 1..pos[p] : disk'[Names[i]] = disk[Names[i]]
  BY <1>1, <1>2, NamesAre DEF Typed
<1>6. Saving(p)' /\ Loading(p)'
  BY <1>1, <1>2, <1>3, <1>5, SameEntry DEF Typed, Saving, Loading
<1> QED  BY <1>1, <1>2, <1>3, <1>4, <1>6

\* A single writer leaves the file it fills complete.
LEMMA FillsFile ==
  ASSUME NEW p \in Procs, SoloInv(p), FillFile(p), UNCHANGED scenario
  PROVE  /\ disk' = [disk EXCEPT ![Names[pos[p] + 1]] = built[p]] /\ UNCHANGED dir
         /\ built[p] \in Versions /\ pos[p] \in Nat /\ pos[p] < Size
         /\ \A i \in 1..(pos[p] + 1) : disk'[Names[i]] = built[p]
<1> USE DEF SoloInv
<1> DEFINE f == Names[pos[p] + 1]
<1>1. /\ pc[p] = "filling" /\ built[p] \in Versions /\ handle[p]
      /\ pos[p] \in Nat /\ pos[p] < Size /\ SaveOrder[pos[p] + 1] = f /\ f \in Files
      /\ disk[f] = "empty"
      /\ \A i \in 1..pos[p] : disk[Names[i]] = built[p] /\ Names[i] # f
  BY SaveOrderIs, NamesAre DEF FillFile, Typed, Saving
<1>2. disk' = [disk EXCEPT ![f] = built[p]] /\ UNCHANGED dir
  <2>1. Rivals(p) = {}
    BY DEF Rivals, Others
  <2>2. Filled(p) = {built[p]}
    BY <1>1, <2>1 DEF Filled
  <2> QED  BY Zenon, <1>1, <2>2 DEF FillFile
<1>3. \A i \in 1..(pos[p] + 1) : disk'[Names[i]] = built[p]
  BY <1>1, <1>2, NamesAre DEF Typed
<1> QED  BY <1>1, <1>2, <1>3

\* Filling the last file commits the entry, and all the others are in place.
LEMMA FillKeeps ==
  ASSUME NEW p \in Procs, SoloInv(p), FillFile(p), UNCHANGED scenario
  PROVE  SoloInv(p)'
<1> USE DEF SoloInv
<1> DEFINE f == Names[pos[p] + 1]
<1>1. /\ pc[p] = "filling" /\ ~Committed /\ built[p] \in Versions /\ dir
      /\ pos[p] \in Nat /\ pos[p] < Size /\ f \in Files
  BY NamesAre DEF FillFile, Typed, Saving
<1>2. disk' = [disk EXCEPT ![f] = built[p]] /\ UNCHANGED dir
  BY FillsFile
<1>3. handle' = [handle EXCEPT ![p] = FALSE] /\ NextFile(p)
  BY DEF FillFile
<1>4. \A i \in 1..(pos[p] + 1) : disk'[Names[i]] = built[p]
  BY FillsFile
<1>5. CASE pos[p] + 1 < Size
  <2>1. /\ pos' = [pos EXCEPT ![p] = @ + 1] /\ pc' = [pc EXCEPT ![p] = "opening"]
        /\ UNCHANGED <<answer, built>>
    BY <1>3, <1>5, SaveOrderIs DEF NextFile
  <2>2. ~Committed'
    BY <1>1, <1>2, <1>5, SameEntry, NamesAre DEF Committed, Typed
  <2>3. Typed' /\ Others(p)' /\ answer'[p] # "load_error"
    BY <1>2, <1>3, <2>1 DEF Typed, Others, Lines
  <2>4. Saving(p)' /\ Loading(p)'
    BY <1>1, <1>2, <1>4, <1>5, <2>1, <2>2, SameEntry DEF Typed, Saving, Loading
  <2> QED  BY <1>1, <1>2, <2>2, <2>3, <2>4
<1>6. CASE ~(pos[p] + 1 < Size)
  <2>1. /\ pos' = [pos EXCEPT ![p] = 0] /\ pc' = [pc EXCEPT ![p] = "idle"]
        /\ answer' = [answer EXCEPT ![p] = "kernel"] /\ built' = [built EXCEPT ![p] = "none"]
    BY <1>3, <1>6, SaveOrderIs DEF NextFile
  <2>2. Whole'
    <3>1. pos[p] + 1 = Size
      BY <1>1, <1>6, NamesAre
    <3>2. \A g \in Needed : disk'[g] = built[p]
      BY <1>4, <3>1, NamesAre
    <3> QED  BY <1>1, <3>2, NeededIs, SameEntry DEF Whole
  <2>3. Typed' /\ Others(p)' /\ answer'[p] # "load_error"
    BY <1>2, <1>3, <2>1 DEF Typed, Others, Lines
  <2>4. Saving(p)' /\ Loading(p)'
    BY <2>1 DEF Typed, Saving, Loading
  <2> QED  BY <1>1, <1>2, <2>2, <2>3, <2>4
<1> QED  BY <1>5, <1>6

\* Who is alone stays so, and takes none of the steps that end it.
LEMMA SoloSteps ==
  ASSUME CacheInv, Next, NEW p \in Procs, scenario'.procs = {p}, clears' = 0, faults' = 0
  PROVE  /\ UNCHANGED scenario /\ scenario.procs = {p} /\ clears = 0 /\ faults = 0
         /\ SoloInv(p)
         /\ (Call(p) \/ Load(p) \/ Build(p) \/ Mkdir(p) \/ Crash(p) \/ OpenFile(p) \/ FillFile(p))
<1>1. UNCHANGED scenario /\ scenario.procs = {p}
  BY DEF Next
<1>2. Call(p) \/ Step(p) \/ Clear(p) \/ Crash(p)
  BY <1>1 DEF Next
<1>3. /\ ~Clear(p) /\ ~MkdirFails(p) /\ ~WriteFault(p)
  BY DEF CacheInv, Clear, MkdirFails, WriteFault
<1>4. Call(p) \/ Load(p) \/ Build(p) \/ Mkdir(p) \/ Crash(p) \/ OpenFile(p) \/ FillFile(p)
      \/ Rmtree(p)
  BY <1>2, <1>3 DEF Step, Save
<1>5. clears = 0 /\ faults = 0
  BY <1>4, CountsStay DEF Crash
<1>6. SoloInv(p)
  BY <1>1, <1>5 DEF CacheInv
<1>7. ~Rmtree(p)
  BY <1>6 DEF SoloInv, Typed, Lines, Rmtree, DeleteFile, DeleteDir
<1> QED  BY <1>1, <1>4, <1>5, <1>6, <1>7

\* A step of the one process that uses the entry keeps its invariant.
LEMMA StepKeeps ==
  ASSUME CacheInv, Next, NEW p \in Procs, scenario'.procs = {p}, clears' = 0, faults' = 0
  PROVE  SoloInv(p)'
BY SoloSteps, LoadKeeps, BuildKeeps, OpenKeeps, FillKeeps

\* The counters only count.
LEMMA CountersKeep ==
  ASSUME CacheInv, Next
  PROVE  scenario' \in Scenarios /\ clears' \in Nat /\ faults' \in Nat
<1>1. PICK p \in scenario.procs : Call(p) \/ Step(p) \/ Clear(p) \/ Crash(p)
  BY DEF Next
<1>2. clears' \in {clears, clears + 1} /\ faults' \in {faults, faults + 1}
  BY <1>1, CountsGrow
<1> QED  BY <1>2 DEF CacheInv, Next

-----------------------------------------------------------------------------
\* Initially the entry is absent and nobody is inside a call.
LEMMA InitKeeps == Init => CacheInv
<1> SUFFICES ASSUME Init PROVE CacheInv
  OBVIOUS
<1>1. ASSUME NEW p \in Procs PROVE SoloInv(p)
  <2>1. Typed /\ Others(p) /\ answer[p] # "load_error" /\ Loading(p) /\ Saving(p)
    BY DEF Init, Typed, Others, Loading, Saving, Lines
  <2>2. disk[Commit] = "absent"
    BY NamesAre DEF Init
  <2> QED  BY <2>1, <2>2, BuildsAreFiles DEF SoloInv, Committed
<1>2. scenario \in Scenarios /\ clears = 0 /\ faults = 0
  BY DEF Init
<1> QED  BY <1>1, <1>2 DEF CacheInv

\* The invariant of an entry used by one process: CacheInv holds in every
\* reachable state, whatever the processes, the builds and the crashes.
THEOREM CacheInductive == Spec => []CacheInv
<1>1. CacheInv /\ [Next]_vars => CacheInv'
  <2>1. ASSUME CacheInv, Next PROVE CacheInv'
    BY <2>1, StepKeeps, CountersKeep DEF CacheInv
  <2>2. ASSUME CacheInv, UNCHANGED vars PROVE CacheInv'
    <3>1. UNCHANGED <<scenario, disk, dir, pc, pos, built, handle, answer, clears, faults>>
      BY <2>2 DEF vars, env
    <3>2. \A p \in Procs : SoloInv(p)' = SoloInv(p)
      BY <3>1, SameEntry, SameFiles DEF SoloInv, Typed, Others, Loading, Saving
    <3> QED  BY <2>2, <3>1, <3>2 DEF CacheInv
  <2> QED  BY <2>1, <2>2
<1> QED  BY InitKeeps, <1>1, PTL DEF Spec

\* One process means one name in scenario.procs.
LEMMA AloneIsOne ==
  ASSUME CacheInv, Alone
  PROVE  \E p \in Procs : scenario.procs = {p} /\ SoloInv(p)
BY DEF CacheInv, Alone

\* However often the process that uses an entry is killed and restarted: the
\* file a save writes last is readable only if the entry is whole.
THEOREM CommitRecordProved == Spec => []CommitRecord
<1>1. CacheInv => CommitRecord
  BY AloneIsOne DEF SoloInv, CommitRecord, Committed, Commit
<1> QED  BY <1>1, CacheInductive, PTL

\* And a load of it never raises: main.so is only loaded behind a readable
\* commit record.
THEOREM RestartsLoad == Spec => []RestartedLoadsNeverRaise
<1>1. CacheInv => RestartedLoadsNeverRaise
  BY AloneIsOne DEF SoloInv, Others, RestartedLoadsNeverRaise, LoadsNeverRaise
<1> QED  BY <1>1, CacheInductive, PTL
-----------------------------------------------------------------------------
(***************************************************************************)
(* What a process works with.  Every file a load accepts is a complete file *)
(* of some build, whoever writes, clears, crashes or fails meanwhile.        *)
(***************************************************************************)
ServedBuilds ==
  /\ DOMAIN memory = Procs /\ DOMAIN read = Procs /\ DOMAIN built = Procs
  /\ DOMAIN pc = Procs
  /\ \A p \in Procs : /\ \A a \in memory[p] \cup read[p] : a[2] \in Versions
                      /\ pc[p] \in Writing => built[p] \in Versions

\* No step puts a build into a kernel in memory that was never made.
LEMMA NextServed ==
  ASSUME ServedBuilds, [Next]_vars, scenario \in Scenarios
  PROVE  ServedBuilds'
<1>1. CASE UNCHANGED vars
  BY <1>1, SameEntry DEF vars, ServedBuilds
<1>2. CASE Next
  <2>1. UNCHANGED scenario /\ scenario.procs \in SUBSET Procs
    BY <1>2, CacheAssumption DEF Next
  <2>2. PICK p \in Procs : Call(p) \/ Step(p) \/ Clear(p) \/ Crash(p)
    BY <1>2, <2>1 DEF Next
  <2>3. Versions' = Versions
    BY <2>1, SameEntry
  <2> USE DEF ServedBuilds, Writing
  <2> HIDE DEF Versions
  <2>4. CASE Call(p) \/ Probe(p) \/ BadFile(p)
    BY <2>3, <2>4 DEF Call, Probe, BadFile, AfterBadFile
  <2>5. CASE ReadFile(p)
    <3> DEFINE f == ReadOrder[pos[p] + 1]
               got == IF f = "obj" THEN read[p] ELSE read[p] \cup {<<f, disk[f]>>}
    <3>1. \A a \in got : a[2] \in Versions
      <4>1. Readable(f)
        BY Zenon, <2>5 DEF ReadFile
      <4> QED  BY <4>1 DEF Readable
    <3>2. /\ read' \in {[read EXCEPT ![p] = {}], [read EXCEPT ![p] = got]}
          /\ memory' \in {memory, [memory EXCEPT ![p] = got]}
          /\ pc' \in {pc, [pc EXCEPT ![p] = "idle"]} /\ built' = built
      BY Zenon, <2>5 DEF ReadFile
    <3> HIDE DEF got
    <3> QED  BY <2>3, <3>1, <3>2
  <2>6. CASE Build(p) \/ Mkdir(p) \/ MkdirFails(p)
    BY <2>3, <2>6 DEF Build, Mkdir, MkdirFails
  <2>7. ASSUME NextFile(p), pc[p] \in Writing, UNCHANGED read PROVE ServedBuilds'
    <3>1. /\ pc' \in {[pc EXCEPT ![p] = "opening"], [pc EXCEPT ![p] = "idle"]}
          /\ \/ UNCHANGED <<memory, built>> /\ pc' = [pc EXCEPT ![p] = "opening"]
             \/ /\ memory' = [memory EXCEPT ![p] = (Range(ReadOrder) \ {"obj"}) \X {built[p]}]
                /\ built' = [built EXCEPT ![p] = "none"] /\ pc' = [pc EXCEPT ![p] = "idle"]
      BY <2>7 DEF NextFile
    <3>2. \A a \in (Range(ReadOrder) \ {"obj"}) \X {built[p]} : a[2] \in Versions
      BY <2>7
    <3> QED  BY <2>3, <2>7, <3>1, <3>2
  <2>8. CASE OpenFile(p)
    <3>1. CASE Openable
      BY <2>3, <2>8, <3>1 DEF OpenFile
    <3>2. CASE ~Openable
      BY <2>7, <2>8, <3>2 DEF OpenFile
    <3> QED  BY <3>1, <3>2
  <2>9. CASE FillFile(p) \/ WriteFault(p)
    BY <2>7, <2>9 DEF FillFile, WriteFault
  <2>10. CASE DeleteFile(p) \/ DeleteDir(p)
    BY <2>3, <2>10 DEF DeleteFile, DeleteDir
  <2>11. CASE Clear(p) \/ Crash(p)
    BY <2>3, <2>11 DEF Clear, Crash
  <2> HIDE DEF ServedBuilds
  <2> QED  BY <2>2, <2>4, <2>5, <2>6, <2>8, <2>9, <2>10, <2>11 DEF Step, Load, Save, Rmtree
<1> QED  BY <1>1, <1>2

(***************************************************************************)
(* A process on its own: what it remembers is what the committed entry      *)
(* holds, and what a load has read so far is what the files hold.           *)
(***************************************************************************)
FromDisk(S) == \A a \in S : a[1] \in Needed /\ a[2] = disk[a[1]]

Serving(p) ==
  /\ \A q \in Procs \ {p} : memory[q] = {}
  /\ memory[p] # {} => pc[p] = "idle" /\ Committed
  /\ FromDisk(memory[p])
  /\ pc[p] = "reading" => FromDisk(read[p])

\* Nothing is remembered while a call is under way.
LEMMA NothingYet ==
  ASSUME NEW p \in Procs, Serving(p), pc[p] # "idle"
  PROVE  memory[p] = {}
BY DEF Serving

\* A load under way reads a file it needs; the last one only of a committed entry.
LEMMA ReadingAt ==
  ASSUME NEW p \in Procs, SoloInv(p), pc[p] = "reading"
  PROVE  /\ ReadOrder[pos[p] + 1] \in Needed
         /\ pos[p] + 1 = Len(ReadOrder) => Committed
<1>1. /\ pos[p] \in Nat /\ pos[p] < Len(ReadOrder)
      /\ pos[p] >= (IF autotune THEN 3 ELSE 2) => Committed
  BY DEF SoloInv, Typed, Loading
<1> QED  BY <1>1, ReadOrderIs

\* A step keeps what the one process serves with what is on disk.
LEMMA ServingKept ==
  ASSUME NEW p \in Procs, SoloInv(p), ServedBuilds, Serving(p), UNCHANGED scenario,
         Call(p) \/ Load(p) \/ Build(p) \/ Mkdir(p) \/ Crash(p) \/ OpenFile(p) \/ FillFile(p)
  PROVE  Serving(p)'
<1>0. /\ DOMAIN memory = Procs /\ DOMAIN read = Procs /\ DOMAIN pc = Procs
      /\ Needed' = Needed /\ SaveOrder' = SaveOrder
  BY SameEntry DEF ServedBuilds
<1>1. CASE Call(p)
  <2>1. Committed' = Committed
    BY <1>1, SameFiles DEF Call
  <2> QED  BY <1>0, <1>1, <2>1 DEF Call, Serving, FromDisk
<1>2. CASE Probe(p) \/ BadFile(p)
  <2>1. pc[p] # "idle" /\ read'[p] = {}
    BY <1>0, <1>2 DEF Probe, BadFile
  <2>2. memory'[p] = {}
    BY <1>2, <2>1, NothingYet DEF Probe, BadFile
  <2> QED  BY <1>0, <1>2, <2>1, <2>2 DEF Probe, BadFile, Serving, FromDisk
<1>3. CASE ReadFile(p)
  <2> DEFINE f == ReadOrder[pos[p] + 1]
             got == IF f = "obj" THEN read[p] ELSE read[p] \cup {<<f, disk[f]>>}
             last == pos[p] + 1 = Len(ReadOrder)
  <2>1. pc[p] = "reading" /\ UNCHANGED disk
    BY Zenon, <1>3 DEF ReadFile
  <2>2. f \in Needed /\ (last => Committed) /\ Committed' = Committed
    BY <2>1, ReadingAt, SameFiles
  <2>3. FromDisk(read[p]) /\ memory[p] = {}
    BY <2>1, NothingYet DEF Serving
  <2>4. FromDisk(got)
    BY <2>2, <2>3 DEF FromDisk
  <2>5. /\ read' = [read EXCEPT ![p] = IF last THEN {} ELSE got]
        /\ IF last THEN memory' = [memory EXCEPT ![p] = got] /\ pc' = [pc EXCEPT ![p] = "idle"]
                   ELSE UNCHANGED <<memory, pc>>
    BY Zenon, <1>3 DEF ReadFile
  <2> HIDE DEF got, last
  <2> QED  BY <1>0, <2>1, <2>2, <2>3, <2>4, <2>5 DEF Serving, FromDisk
<1>4. CASE Build(p) \/ Mkdir(p) \/ OpenFile(p)
  <2>1. /\ pc[p] # "idle" /\ pc'[p] # "reading"
        /\ UNCHANGED memory
    <3>1. CASE OpenFile(p)
      <4>1. Openable
        BY <3>1 DEF SoloInv, Saving, OpenFile, Openable
      <4> QED  BY <1>0, <3>1, <4>1 DEF OpenFile
    <3> QED  BY <1>0, <1>4, <3>1 DEF Build, Mkdir
  <2>2. memory[p] = {}
    BY <2>1, NothingYet
  <2> QED  BY <2>1, <2>2 DEF Serving, FromDisk
<1>5. CASE Crash(p)
  BY <1>0, <1>5 DEF Crash, Serving, FromDisk
<1>6. CASE FillFile(p)
  <2>1. pc[p] = "filling" /\ memory[p] = {} /\ NextFile(p)
    BY <1>6, NothingYet DEF FillFile
  <2>2. CASE pos[p] + 1 < Size
    <3>1. pc' = [pc EXCEPT ![p] = "opening"] /\ UNCHANGED memory
      BY <2>1, <2>2, SaveOrderIs DEF NextFile
    <3> QED  BY <1>0, <2>1, <3>1 DEF Serving, FromDisk
  <2>3. CASE ~(pos[p] + 1 < Size)
    <3>1. /\ pc' = [pc EXCEPT ![p] = "idle"]
          /\ memory' = [memory EXCEPT ![p] = (Needed \ {"obj"}) \X {built[p]}]
      BY <2>1, <2>3, SaveOrderIs, NeededIs DEF NextFile
    <3>2. \A g \in Needed : disk'[g] = built[p]
      BY <1>6, <2>3, FillsFile, NamesAre
    <3>3. Committed'
      BY <1>6, <3>2, FillsFile, NamesAre, SameEntry DEF Committed
    <3> QED  BY <1>0, <3>1, <3>2, <3>3 DEF Serving, FromDisk
  <2> QED  BY <2>2, <2>3
<1> QED  BY <1>1, <1>2, <1>3, <1>4, <1>5, <1>6 DEF Load

ServeInv ==
  /\ ServedBuilds
  /\ \A p \in Procs : scenario.procs = {p} /\ clears = 0 /\ faults = 0 => Serving(p)

\* The invariant behind ServedConsistent, for every number of processes, builds,
\* crashes, clears and failed writes.
THEOREM ServeInductive == Spec => []ServeInv
<1>1. Init => ServeInv
  BY DEF Init, ServeInv, ServedBuilds, Serving, FromDisk, Writing
<1>2. ASSUME CacheInv, ServeInv, [Next]_vars PROVE ServeInv'
  <2>1. ServedBuilds'
    BY <1>2, NextServed DEF ServeInv, CacheInv
  <2>2. CASE Next
    <3>1. ASSUME NEW p \in Procs, scenario'.procs = {p}, clears' = 0, faults' = 0
          PROVE  Serving(p)'
      BY <1>2, <2>2, <3>1, SoloSteps, ServingKept DEF ServeInv
    <3> QED  BY <2>1, <3>1 DEF ServeInv
  <2>3. CASE UNCHANGED vars
    <3>1. UNCHANGED <<scenario, disk, memory, read, pc, clears, faults>>
      BY <2>3 DEF vars, env
    <3>2. \A p \in Procs : Serving(p)' = Serving(p)
      BY <3>1, SameEntry, SameFiles DEF Serving, FromDisk
    <3> QED  BY <1>2, <2>1, <3>1, <3>2 DEF ServeInv
  <2> QED  BY <1>2, <2>2, <2>3
<1> QED  BY <1>1, <1>2, CacheInductive, PTL DEF Spec

\* The launcher, the metadata and the configuration a process works with come
\* from one build.
THEOREM OneBuildServed == Spec => []ServedConsistent
<1>1. ASSUME CacheInv, ServeInv PROVE ServedConsistent
  <2>1. CASE ~autotune
    <3>1. \A v, w \in Versions : v = w
      BY Zenon, <2>1 DEF Versions
    <3> QED  BY <1>1, <3>1 DEF ServeInv, ServedBuilds, ServedConsistent
  <2>2. CASE Alone
    <3>1. PICK p \in Procs : scenario.procs = {p} /\ SoloInv(p)
      BY <1>1, <2>2, AloneIsOne
    <3>2. Serving(p)
      BY <1>1, <2>2, <3>1 DEF ServeInv, Alone
    <3>3. memory[p] # {} => Whole
      BY <3>1, <3>2 DEF SoloInv, Serving
    <3>4. \A a, b \in memory[p] : a[2] = b[2]
      BY <3>2, <3>3, NeededIs DEF Serving, FromDisk, Whole
    <3> QED  BY <3>2, <3>4 DEF ServedConsistent, Serving
  <2> QED  BY <2>1, <2>2 DEF ServedConsistent
<1> QED  BY <1>1, CacheInductive, ServeInductive, PTL
-----------------------------------------------------------------------------
(***************************************************************************)
(* A compile entry that any number of processes save and load at once,      *)
(* nobody crashing, clearing or failing to write.  A file never disappears, *)
(* and one that is empty is being written.                                  *)
(***************************************************************************)
Undisturbed == ~autotune /\ crashes = 0 /\ clears = 0 /\ faults = 0

SharedTyped ==
  /\ pc \in [Procs -> Lines] /\ pos \in [Procs -> Nat]
  /\ DOMAIN disk = Files /\ DOMAIN handle = Procs

AtFile(p, f) == pc[p] = "filling" /\ Names[pos[p] + 1] = f

EmptyIsOpen ==
  \A f \in Files : /\ disk[f] \in {"absent", "empty"} \cup Versions
                   /\ disk[f] = "empty" => \E p \in Procs : AtFile(p, f)

\* What p has written or read is there.
Passed(p) ==
  /\ pc[p] \in {"opening", "filling"} =>
        dir /\ pos[p] < Size /\ \A i \in 1..pos[p] : disk[Names[i]] # "absent"
  /\ pc[p] = "filling" => handle[p] /\ disk[Names[pos[p] + 1]] # "absent"
  /\ pc[p] = "reading" =>
        pos[p] < Len(ReadOrder) /\ \A i \in 1..pos[p] : disk[ReadOrder[i]] # "absent"
  /\ memory[p] # {} => \A f \in Needed : disk[f] # "absent"

SharedInv == SharedTyped /\ EmptyIsOpen /\ \A p \in Procs : Passed(p)

ShareInv == crashes \in Nat /\ (Undisturbed => SharedInv)

\* A step of p that removes no file leaves what the others know of the files.
LEMMA OthersPassed ==
  ASSUME NEW p \in Procs, NEW q \in Procs \ {p}, Passed(q), UNCHANGED scenario,
         dir => dir', \A f \in Files : disk[f] # "absent" => disk'[f] # "absent",
         pc'[q] = pc[q], pos'[q] = pos[q], handle'[q] = handle[q], memory'[q] = memory[q],
         pos[q] \in Nat
  PROVE  Passed(q)'
<1>1. /\ Size' = Size /\ Names' = Names /\ ReadOrder' = ReadOrder /\ Needed' = Needed
  BY SameEntry
<1>2. pos[q] < Size => \A i \in 1..(pos[q] + 1) : Names[i] \in Files
  BY NamesAre
<1>3. pos[q] < Len(ReadOrder) => \A i \in 1..pos[q] : ReadOrder[i] \in Files
  BY ReadOrderIs, NamesAre
<1>4. \A f \in Needed : f \in Files
  BY NamesAre
<1> HIDE DEF Size, Names, ReadOrder, Needed, Files
<1> QED  BY <1>1, <1>2, <1>3, <1>4 DEF Passed

\* What a step outside a write changes: p's line and position, and what p
\* remembers; the directory may appear.
LEMMA ReadFrame ==
  ASSUME NEW p \in Procs, Call(p) \/ Load(p) \/ Build(p) \/ Mkdir(p), pos[p] \in Nat
  PROVE  /\ UNCHANGED <<disk, handle>> /\ (dir => dir') /\ pc[p] # "filling"
         /\ pc' = pc \/ \E l \in Lines \ {"filling"} : pc' = [pc EXCEPT ![p] = l]
         /\ pos' = pos \/ \E i \in Nat : pos' = [pos EXCEPT ![p] = i]
         /\ memory' = memory \/ \E m : memory' = [memory EXCEPT ![p] = m]
<1>1. CASE Call(p)  BY <1>1 DEF Call, Lines
<1>2. CASE Probe(p)  BY <1>2 DEF Probe, Lines
<1>3. CASE ReadFile(p)
  <2>1. pc' = pc \/ pc' = [pc EXCEPT ![p] = "idle"]
    BY Zenon, <1>3 DEF ReadFile
  <2>2. pos' = [pos EXCEPT ![p] = 0] \/ pos' = [pos EXCEPT ![p] = pos[p] + 1]
    BY Zenon, <1>3 DEF ReadFile
  <2>3. memory' = memory \/ \E m : memory' = [memory EXCEPT ![p] = m]
    BY Zenon, <1>3 DEF ReadFile
  <2>4. UNCHANGED <<disk, handle>> /\ dir' = dir /\ pc[p] = "reading"
    BY Zenon, <1>3 DEF ReadFile
  <2> QED  BY <2>1, <2>2, <2>3, <2>4 DEF Lines
<1>4. CASE BadFile(p)  BY <1>4 DEF BadFile, AfterBadFile, Lines
<1>5. CASE Build(p)  BY <1>5 DEF Build, Lines
<1>6. CASE Mkdir(p)  BY <1>6 DEF Mkdir, Lines
<1> QED  BY Zenon, <1>1, <1>2, <1>3, <1>4, <1>5, <1>6 DEF Load

\* A step outside a write leaves the files, and those who write them, alone.
LEMMA ReadShared ==
  ASSUME SharedInv, ServedBuilds, NEW p \in Procs, UNCHANGED scenario,
         Call(p) \/ Load(p) \/ Build(p) \/ Mkdir(p)
  PROVE  SharedInv'
<1>a. SharedTyped /\ DOMAIN memory = Procs /\ pos[p] \in Nat
  BY DEF SharedInv, SharedTyped, ServedBuilds
<1>b. /\ UNCHANGED <<disk, handle>> /\ (dir => dir') /\ pc[p] # "filling"
      /\ pc' = pc \/ \E l \in Lines \ {"filling"} : pc' = [pc EXCEPT ![p] = l]
      /\ pos' = pos \/ \E i \in Nat : pos' = [pos EXCEPT ![p] = i]
      /\ memory' = memory \/ \E m : memory' = [memory EXCEPT ![p] = m]
  BY Zenon, <1>a, ReadFrame
<1>0. /\ DOMAIN memory = Procs /\ DOMAIN pc = Procs /\ DOMAIN pos = Procs
      /\ UNCHANGED <<disk, handle>> /\ (dir => dir') /\ Passed(p)
      /\ Versions' = Versions /\ Names' = Names /\ Needed' = Needed
      /\ ReadOrder' = ReadOrder /\ Size' = Size
  BY <1>a, <1>b, SameEntry DEF SharedInv, SharedTyped
<1>1. /\ \A q \in Procs \ {p} : pc'[q] = pc[q] /\ pos'[q] = pos[q] /\ memory'[q] = memory[q]
      /\ pc[p] # "filling" /\ pc'[p] # "filling"
  BY <1>0, <1>b
<1>2. SharedTyped'
  BY <1>a, <1>b DEF SharedTyped
<1>3. EmptyIsOpen'
  <2>1. \A q \in Procs, f \in Files : AtFile(q, f) => AtFile(q, f)'
    BY <1>0, <1>1 DEF AtFile
  <2>2. EmptyIsOpen /\ disk' = disk /\ Versions' = Versions
    BY <1>0 DEF SharedInv
  <2> QED  BY <2>1, <2>2 DEF EmptyIsOpen
<1>4. \A q \in Procs \ {p} : Passed(q)'
  BY <1>0, <1>1, <1>a, OthersPassed DEF SharedInv, SharedTyped
<1>5. Passed(p)'
  <2>1. CASE Call(p)
    <3>1. pc'[p] \in {"idle", "loading"} /\ memory' = memory
      BY <1>0, <2>1 DEF Call
    <3> QED  BY <1>0, <3>1 DEF Passed
  <2>2. CASE Probe(p) \/ BadFile(p)
    <3>1. pc'[p] \in {"reading", "building", "idle"} /\ pos'[p] = 0 /\ memory' = memory
      BY <1>0, <2>2 DEF Probe, BadFile, AfterBadFile
    <3>2. Len(ReadOrder) \in Nat /\ Len(ReadOrder) > 0
      BY ReadOrderIs
    <3> QED  BY <1>0, <3>1, <3>2 DEF Passed
  <2>3. CASE ReadFile(p)
    <3> DEFINE f == ReadOrder[pos[p] + 1]
               last == pos[p] + 1 = Len(ReadOrder)
    <3>1. pc[p] = "reading" /\ Readable(f)
      BY Zenon, <2>3 DEF ReadFile
    <3>2. disk[f] # "absent"
      BY <3>1, BuildsAreFiles DEF Readable
    <3>3. pos[p] < Len(ReadOrder) /\ \A i \in 1..pos[p] : disk[ReadOrder[i]] # "absent"
      BY <1>0, <3>1 DEF Passed
    <3>4. Len(ReadOrder) \in Nat /\ \A i \in 1..(pos[p] + 1) : disk[ReadOrder[i]] # "absent"
      BY <1>a, <3>2, <3>3, ReadOrderIs
    <3>5. CASE last
      <4>1. \A g \in Needed : \E i \in 1..Len(ReadOrder) : g = ReadOrder[i]
        BY NeededIs DEF Range
      <4>2. \A g \in Needed : disk[g] # "absent"
        BY <3>4, <3>5, <4>1
      <4>3. pc'[p] = "idle"
        BY <1>0, <2>3, <3>5 DEF ReadFile
      <4> QED  BY <1>0, <4>2, <4>3 DEF Passed
    <3>6. CASE ~last
      <4>1. pos'[p] = pos[p] + 1 /\ pc' = pc /\ memory' = memory
        BY <1>0, <2>3, <3>6 DEF ReadFile
      <4> QED  BY <1>0, <1>a, <3>1, <3>3, <3>4, <3>6, <4>1 DEF Passed
    <3> QED  BY <3>5, <3>6
  <2>4. CASE Build(p)
    <3>1. pc'[p] \in {"mkdir", "idle"} /\ memory' = memory
      BY <1>0, <2>4 DEF Build
    <3> QED  BY <1>0, <3>1 DEF Passed
  <2>5. CASE Mkdir(p)
    <3>1. pc'[p] = "opening" /\ pos'[p] = 0 /\ dir' /\ memory' = memory
      BY <1>0, <2>5 DEF Mkdir
    <3>2. Size \in Nat /\ Size > 0
      BY NamesAre
    <3> QED  BY <1>0, <3>1, <3>2 DEF Passed
  <2> QED  BY <2>1, <2>2, <2>3, <2>4, <2>5 DEF Load
<1> QED  BY <1>2, <1>3, <1>4, <1>5 DEF SharedInv

\* Opening a file truncates it; whoever opened it is still to fill it.
LEMMA OpenShared ==
  ASSUME SharedInv, ServedBuilds, NEW p \in Procs, UNCHANGED scenario, OpenFile(p)
  PROVE  SharedInv'
<1> DEFINE f == Names[pos[p] + 1]
<1>0. /\ SharedTyped /\ DOMAIN pc = Procs /\ Passed(p)
      /\ Versions' = Versions /\ Names' = Names /\ Needed' = Needed /\ Size' = Size
  BY SameEntry DEF SharedInv, ServedBuilds
<1>1. /\ pc[p] = "opening" /\ dir /\ pos[p] \in Nat /\ pos[p] < Size
      /\ SaveOrder[pos[p] + 1] = f /\ f \in Files
      /\ \A i \in 1..pos[p] : Names[i] \in Files /\ disk[Names[i]] # "absent"
  BY <1>0, SaveOrderIs, NamesAre DEF OpenFile, SharedTyped, Passed
<1>2. /\ disk' = [disk EXCEPT ![f] = "empty"] /\ handle' = [handle EXCEPT ![p] = TRUE]
      /\ pc' = [pc EXCEPT ![p] = "filling"] /\ UNCHANGED <<dir, pos, memory>>
  <2>1. Openable /\ handle' = [handle EXCEPT ![p] = Openable] /\ Openable = dir /\ dir = TRUE
    BY <1>1 DEF OpenFile, Openable
  <2> QED  BY <1>1, <2>1 DEF OpenFile
<1>3. SharedTyped'
  BY <1>0, <1>2 DEF SharedTyped, Lines
<1>4. /\ \A q \in Procs \ {p} : pc'[q] = pc[q] /\ handle'[q] = handle[q]
      /\ pc'[p] = "filling" /\ handle'[p]
      /\ disk'[f] = "empty" /\ \A g \in Files \ {f} : disk'[g] = disk[g]
  BY <1>0, <1>1, <1>2 DEF SharedTyped
<1> HIDE DEF f
<1>5. EmptyIsOpen'
  <2>1. \A g \in Files : g = f => AtFile(p, g)'
    BY <1>0, <1>2, <1>4 DEF AtFile, f
  <2>2. \A q \in Procs, g \in Files : AtFile(q, g) => AtFile(q, g)'
    BY <1>0, <1>1, <1>2, <1>4 DEF AtFile
  <2>3. ASSUME NEW g \in Files
        PROVE  /\ disk'[g] \in {"absent", "empty"} \cup Versions
               /\ disk'[g] = "empty" => \E q \in Procs : AtFile(q, g)'
    <3>1. CASE g = f
      BY <1>4, <2>1, <3>1
    <3>2. CASE g # f
      BY <1>4, <2>2, <3>2 DEF SharedInv, EmptyIsOpen
    <3> QED  BY <3>1, <3>2
  <2> QED  BY <1>0, <2>3 DEF EmptyIsOpen
<1>6. \A q \in Procs \ {p} : Passed(q)'
  BY Zenon, <1>0, <1>1, <1>2, <1>4, OthersPassed DEF SharedInv, SharedTyped
<1>7. Passed(p)'
  <2>1. \A g \in Files : disk[g] # "absent" => disk'[g] # "absent"
    BY <1>4
  <2>2. \A g \in Needed : g \in Files
    BY NamesAre
  <2> HIDE DEF Files, Needed
  <2> QED  BY <1>0, <1>1, <1>2, <1>4, <2>1, <2>2 DEF Passed, f
<1> QED  BY <1>3, <1>5, <1>6, <1>7 DEF SharedInv

\* The last of those who have a file open leaves it complete; the others leave
\* it complete or to the last.
LEMMA FillShared ==
  ASSUME SharedInv, ServedBuilds, ~autotune, NEW p \in Procs, UNCHANGED scenario, FillFile(p)
  PROVE  SharedInv'
<1> DEFINE f == Names[pos[p] + 1]
<1>0. /\ SharedTyped /\ DOMAIN pc = Procs /\ DOMAIN memory = Procs /\ Passed(p)
      /\ Versions' = Versions /\ Names' = Names /\ Needed' = Needed /\ Size' = Size
      /\ \A v, w \in Versions : v = w
  BY Zenon, SameEntry DEF SharedInv, ServedBuilds, Versions
<1>1. /\ pc[p] = "filling" /\ handle[p] /\ dir /\ pos[p] \in Nat /\ pos[p] < Size
      /\ SaveOrder[pos[p] + 1] = f /\ f \in Files /\ disk[f] # "absent"
      /\ \A i \in 1..pos[p] : Names[i] \in Files /\ disk[Names[i]] # "absent"
      /\ built[p] \in Versions
  BY <1>0, SaveOrderIs, NamesAre DEF FillFile, SharedTyped, Passed, ServedBuilds, Writing
<1>2. PICK c \in Filled(p) : disk' = [disk EXCEPT ![f] = c]
  BY Zenon, <1>1 DEF FillFile
<1>3. c \in Versions \/ (c = "empty" /\ Rivals(p) # {})
  <2>1. disk[f] \in {"empty", built[p]}
    BY <1>0, <1>1 DEF SharedInv, EmptyIsOpen
  <2>2. \A q \in Rivals(p) : built[q] = built[p]
    BY <1>0, <1>1 DEF Rivals, ServedBuilds, Writing
  <2> QED  BY <1>1, <2>1, <2>2 DEF Filled
<1>4. /\ handle' = [handle EXCEPT ![p] = FALSE] /\ NextFile(p) /\ dir' = dir
  BY DEF FillFile
<1>5. /\ \E l \in {"opening", "idle"} : pc' = [pc EXCEPT ![p] = l]
      /\ pos' = [pos EXCEPT ![p] = pos[p] + 1] \/ pos' = [pos EXCEPT ![p] = 0]
      /\ memory' = memory \/ \E m : memory' = [memory EXCEPT ![p] = m]
  BY <1>4 DEF NextFile
<1>6. SharedTyped'
  BY <1>0, <1>1, <1>2, <1>4, <1>5 DEF SharedTyped, Lines
<1>7. /\ \A q \in Procs \ {p} : /\ pc'[q] = pc[q] /\ pos'[q] = pos[q] /\ handle'[q] = handle[q]
                                /\ memory'[q] = memory[q]
      /\ disk'[f] = c /\ \A g \in Files \ {f} : disk'[g] = disk[g]
  BY <1>0, <1>1, <1>2, <1>4, <1>5 DEF SharedTyped
<1>8. \A g \in Files : disk[g] # "absent" => disk'[g] # "absent"
  BY <1>3, <1>7, BuildsAreFiles
<1>9. EmptyIsOpen'
  <2>1. \A q \in Procs \ {p}, g \in Files : AtFile(q, g) => AtFile(q, g)'
    BY <1>0, <1>7 DEF AtFile
  <2>2. \A q \in Rivals(p) : q \in Procs \ {p} /\ AtFile(q, f)
    BY <1>0, <1>1, SaveOrderIs DEF Rivals, AtFile, SharedInv, SharedTyped, Passed
  <2>3. \A g \in Files \ {f} : ~AtFile(p, g)
    BY DEF AtFile
  <2> HIDE DEF f
  <2>4. ASSUME NEW g \in Files
        PROVE  /\ disk'[g] \in {"absent", "empty"} \cup Versions
               /\ disk'[g] = "empty" => \E q \in Procs : AtFile(q, g)'
    <3>1. CASE g = f
      <4>1. disk'[g] = "empty" => Rivals(p) # {}
        BY <1>3, <1>7, <3>1, BuildsAreFiles
      <4> QED  BY <1>3, <1>7, <2>1, <2>2, <3>1, <4>1
    <3>2. CASE g # f
      BY <1>7, <2>1, <2>3, <3>2 DEF SharedInv, EmptyIsOpen
    <3> QED  BY <3>1, <3>2
  <2> QED  BY <1>0, <2>4 DEF EmptyIsOpen
<1>10. \A q \in Procs \ {p} : Passed(q)'
  BY Zenon, <1>0, <1>4, <1>7, <1>8, OthersPassed DEF SharedInv, SharedTyped
<1>11. Passed(p)'
  <2>1. \A i \in 1..(pos[p] + 1) : disk'[Names[i]] # "absent"
    BY <1>1, <1>8, NamesAre
  <2>2. CASE pos[p] + 1 < Size
    <3>1. pc'[p] = "opening" /\ pos'[p] = pos[p] + 1 /\ memory' = memory
      BY <1>0, <1>4, <2>2, SaveOrderIs DEF NextFile, SharedTyped
    <3>2. \A g \in Needed : g \in Files
      BY NamesAre
    <3> HIDE DEF Files, Needed
    <3> QED  BY <1>0, <1>1, <1>4, <1>8, <2>1, <2>2, <3>1, <3>2 DEF Passed
  <2>3. CASE ~(pos[p] + 1 < Size)
    <3>1. pc'[p] = "idle"
      BY <1>0, <1>4, <2>3, SaveOrderIs DEF NextFile
    <3>2. \A g \in Needed : disk'[g] # "absent"
      BY <1>1, <2>1, <2>3, NamesAre
    <3> QED  BY <1>0, <3>1, <3>2 DEF Passed
  <2> QED  BY <2>2, <2>3
<1> QED  BY <1>6, <1>9, <1>10, <1>11 DEF SharedInv

\* While nothing disturbs the entry, only calls, loads and saves are taken.
LEMMA UndisturbedSteps ==
  ASSUME CacheInv, ShareInv, Next, Undisturbed'
  PROVE  /\ UNCHANGED scenario /\ Undisturbed /\ SharedInv
         /\ \E p \in Procs : (Call(p) \/ Load(p) \/ Build(p) \/ Mkdir(p) \/ OpenFile(p) \/ FillFile(p))
<1>1. UNCHANGED scenario /\ scenario.procs \in SUBSET Procs
  BY CacheAssumption DEF Next, CacheInv
<1>2. PICK p \in Procs : Call(p) \/ Step(p) \/ Clear(p) \/ Crash(p)
  BY <1>1 DEF Next
<1>3. ~Clear(p) /\ ~MkdirFails(p) /\ ~WriteFault(p) /\ ~Crash(p)
  BY DEF CacheInv, ShareInv, Undisturbed, Clear, MkdirFails, WriteFault, Crash
<1>4. Call(p) \/ Load(p) \/ Build(p) \/ Mkdir(p) \/ OpenFile(p) \/ FillFile(p) \/ Rmtree(p)
  BY <1>2, <1>3 DEF Step, Save
<1>5. UNCHANGED <<crashes, clears, faults>>
  BY <1>4, CountsStay
<1>6. Undisturbed
  BY <1>1, <1>5, SameEntry DEF Undisturbed
<1>7. SharedInv
  BY <1>6 DEF ShareInv
<1>8. ~Rmtree(p)
  BY <1>7 DEF SharedInv, SharedTyped, Lines, Rmtree, DeleteFile, DeleteDir
<1> QED  BY <1>1, <1>4, <1>6, <1>7, <1>8

\* The invariant of a compile entry that any number of processes share.
THEOREM ShareInductive == Spec => []ShareInv
<1>1. Init => ShareInv
  <2> SUFFICES ASSUME Init PROVE ShareInv
    OBVIOUS
  <2>1. SharedTyped /\ EmptyIsOpen /\ \A p \in Procs : Passed(p)
    BY DEF Init, SharedTyped, EmptyIsOpen, Passed, Lines
  <2> QED  BY <2>1 DEF Init, ShareInv, SharedInv
<1>2. ASSUME CacheInv, ServeInv, ShareInv, [Next]_vars PROVE ShareInv'
  <2>1. CASE Next
    <3>1. crashes' \in Nat
      <4>1. PICK p \in scenario.procs : Call(p) \/ Step(p) \/ Clear(p) \/ Crash(p)
        BY <2>1 DEF Next
      <4>2. crashes' \in {crashes, crashes + 1}
        BY <4>1, CountsGrow
      <4> QED  BY <1>2, <4>2 DEF ShareInv
    <3>2. ASSUME Undisturbed' PROVE SharedInv'
      BY <1>2, <2>1, <3>2, UndisturbedSteps, ReadShared, OpenShared, FillShared
         DEF ServeInv, Undisturbed
    <3> QED  BY <3>1, <3>2 DEF ShareInv
  <2>2. CASE UNCHANGED vars
    <3>1. UNCHANGED <<scenario, disk, dir, memory, pc, pos, handle, crashes, clears, faults>>
      BY <2>2 DEF vars, env
    <3>2. Undisturbed' = Undisturbed /\ SharedInv' = SharedInv
      BY <3>1, SameEntry DEF Undisturbed, SharedInv, SharedTyped, EmptyIsOpen, AtFile, Passed
    <3> QED  BY <1>2, <3>1, <3>2 DEF ShareInv
  <2> QED  BY <1>2, <2>1, <2>2
<1> QED  BY <1>1, <1>2, CacheInductive, ServeInductive, PTL DEF Spec

\* When the last writer is through the entry is whole, however many processes
\* saved it at once.
THEOREM SharedEntryWhole == Spec => []QuietEntryWhole
<1>1. ASSUME CacheInv, ServeInv, ShareInv PROVE QuietEntryWhole
  <2> SUFFICES ASSUME ~autotune \/ Alone, crashes = 0, clears = 0, faults = 0,
                      \A p \in Procs : pc[p] \notin Writing,
                      NEW p \in Procs, memory[p] # {}
               PROVE  Whole
    BY DEF QuietEntryWhole
  <2>1. CASE ~autotune
    <3>1. SharedInv
      BY <1>1, <2>1 DEF ShareInv, Undisturbed
    <3>2. \A f \in Files : disk[f] # "empty"
      BY <3>1 DEF SharedInv, EmptyIsOpen, AtFile, Writing
    <3>3. \A f \in Needed : f \in Files /\ disk[f] \in Versions
      BY <3>1, <3>2, NamesAre DEF SharedInv, EmptyIsOpen, Passed
    <3>4. PICK v : Versions = {v}
      BY Zenon, <2>1 DEF Versions
    <3> QED  BY <3>3, <3>4, NeededIs DEF Whole
  <2>2. CASE Alone
    <3>1. PICK q \in Procs : scenario.procs = {q} /\ SoloInv(q)
      BY <1>1, <2>2, AloneIsOne
    <3>2. Serving(q)
      BY <1>1, <2>2, <3>1 DEF ServeInv, Alone
    <3> QED  BY <3>1, <3>2 DEF Serving, SoloInv
  <2> QED  BY <2>1, <2>2
<1> QED  BY <1>1, CacheInductive, ServeInductive, ShareInductive, PTL
=============================================================================
