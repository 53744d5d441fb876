---------------------------- MODULE KernelCache ----------------------------
(***************************************************************************)
(* One entry <cache_dir>/<key>/ of the persistent kernel cache and the     *)
(* processes that share it.  A call looks in its process's memory, then on *)
(* disk, and otherwise builds the kernel, writes the entry file by file    *)
(* and remembers it (KernelCache.cached_npu; AutoTuner.run does the same   *)
(* with the three tuning files added).  Nothing locks the entry between    *)
(* processes, no file is written atomically, and a failed write is logged  *)
(* and skipped.                                                            *)
(*                                                                         *)
(* A file is absent, empty (opened for writing, or cut short by a crash),  *)
(* torn (two writers' bytes mixed) or the complete file of one build.      *)
(***************************************************************************)
EXTENDS Integers, Sequences, Functions

CONSTANTS
  Procs,       \* processes that may share the cache directory
  Winners,     \* what a tuning run may produce: a kernel for each configuration
  Scenarios    \* what is looked at: the kind of entry (tuned: three more files),
               \* the processes, and bounds on what the environment does

ASSUME CacheAssumption ==
  /\ Scenarios \subseteq [tuned : BOOLEAN, procs : SUBSET Procs,
                          crashes : Nat, clears : Nat, faults : Nat]
  /\ Winners # {} /\ Winners \cap {"absent", "empty", "torn", "none"} = {}

VARIABLES
  scenario,  \* which of the Scenarios this is
  disk,      \* content of every file of the entry
  dir,       \* the entry's directory exists
  memory,    \* per process: the kernel it remembers, as file -> build
  pc,        \* per process: where its current call stands
  pos,       \* per process: files written or read so far
  built,     \* per process: the build it is about to save
  handle,    \* per process: the file it has open is still linked in the directory
  read,      \* per process: the files its load has read
  doomed,    \* per process: files its clear_cache still has to delete
  answer,    \* per process: how its last call ended
  crashes, clears, faults

env  == <<crashes, clears, faults>>
vars == <<scenario, disk, dir, memory, pc, pos, built, handle, read, doomed, answer, env>>

autotune == scenario.tuned

KernelFiles == <<"mlir", "obj", "so", "meta">>
TuneFiles   == <<"config", "func", "latency">>

MetadataFirst     == <<"meta", "mlir", "obj", "so">> \o (IF autotune THEN TuneFiles ELSE <<>>)
LauncherForgotten == <<"mlir", "obj", "meta">> \o (IF autotune THEN TuneFiles ELSE <<>>)
SaveOrder == KernelFiles \o (IF autotune THEN TuneFiles ELSE <<>>)

\* main.so is read last, by the dynamic loader, when the kernel object is made;
\* kernel.mlir is read too, but nothing depends on it.
ReadOrder == (IF autotune THEN TuneFiles ELSE <<>>) \o <<"obj", "meta", "so">>

\* Every process compiles the same kernel to the same files, so a compile entry
\* has one version; tuning runs may choose different winners.
Versions == IF autotune THEN Winners ELSE {CHOOSE v \in Winners : TRUE}
Files    == Range(KernelFiles) \cup Range(TuneFiles)
Writing  == {"mkdir", "opening", "filling"}

Init ==
  /\ scenario \in Scenarios
  /\ disk = [f \in Files |-> "absent"] /\ dir = FALSE
  /\ memory = [p \in Procs |-> {}] /\ read = [p \in Procs |-> {}]
  /\ pc = [p \in Procs |-> "idle"] /\ pos = [p \in Procs |-> 0]
  /\ built = [p \in Procs |-> "none"] /\ handle = [p \in Procs |-> FALSE]
  /\ doomed = [p \in Procs |-> {}] /\ answer = [p \in Procs |-> "none"]
  /\ crashes = 0 /\ clears = 0 /\ faults = 0

---------------------------------------------------------------------------
\* cached_npu: the memory cache answers at once, otherwise the disk is tried.
Call(p) ==
  /\ pc[p] = "idle"
  /\ IF memory[p] # {}
     THEN /\ answer' = [answer EXCEPT ![p] = "kernel"]
          /\ UNCHANGED pc
     ELSE /\ pc' = [pc EXCEPT ![p] = "loading"]
          /\ UNCHANGED answer
  /\ UNCHANGED <<disk, dir, memory, pos, built, handle, read, doomed, env>>

\* The existence test in front of a load: metadata.pkl, or the autotune/ folder.
EntryPresent == IF autotune THEN dir ELSE disk["meta"] # "absent"

Probe(p) ==
  /\ pc[p] = "loading"
  /\ pc' = [pc EXCEPT ![p] = IF EntryPresent THEN "reading" ELSE "building"]
  /\ pos' = [pos EXCEPT ![p] = 0]
  /\ read' = [read EXCEPT ![p] = {}]
  /\ UNCHANGED <<disk, dir, memory, built, handle, doomed, answer, env>>

\* The wrapped kernel need only be non-empty (the metadata holds a copy of it, and
\* that is what the kernel object uses), every other file must parse.
Readable(f) ==
  \/ disk[f] \in Versions
  \/ f = "obj" /\ disk[f] # "absent"

\* A file cut short may hold some bytes or none, so the wrapped kernel may fail too.
Unreadable(f) == disk[f] \notin Versions

ReadFile(p) ==
  LET f == ReadOrder[pos[p] + 1]
      got == IF f = "obj" THEN read[p] ELSE read[p] \cup {<<f, disk[f]>>}
      last == pos[p] + 1 = Len(ReadOrder)
  IN /\ pc[p] = "reading"
     /\ Readable(f)
     /\ read' = [read EXCEPT ![p] = IF last THEN {} ELSE got]
     /\ pos' = [pos EXCEPT ![p] = IF last THEN 0 ELSE @ + 1]
     /\ IF last
        THEN /\ memory' = [memory EXCEPT ![p] = got]
             /\ answer' = [answer EXCEPT ![p] = "kernel"]
             /\ pc' = [pc EXCEPT ![p] = "idle"]
        ELSE UNCHANGED <<memory, answer, pc>>
     /\ UNCHANGED <<disk, dir, built, handle, doomed, env>>

RetryLoad(f) == "loading"

\* Where the call goes when a file cannot be read: main.so is loaded outside
\* every handler, the other files only make the load a miss.
AfterBadFile(f) == IF f = "so" THEN "idle" ELSE "building"

BadFile(p) ==
  LET f == ReadOrder[pos[p] + 1]
  IN /\ pc[p] = "reading"
     /\ Unreadable(f)
     /\ pc' = [pc EXCEPT ![p] = AfterBadFile(f)]
     /\ answer' = [answer EXCEPT ![p] = IF f = "so" THEN "load_error" ELSE @]
     /\ pos' = [pos EXCEPT ![p] = 0]
     /\ read' = [read EXCEPT ![p] = {}]
     /\ UNCHANGED <<disk, dir, memory, built, handle, doomed, env>>

\* compiler_npu().compile(...), or a whole tuning run: the result is one build.
Build(p) ==
  /\ pc[p] = "building"
  /\ \/ /\ \E v \in Versions : built' = [built EXCEPT ![p] = v]
        /\ pc' = [pc EXCEPT ![p] = "mkdir"]
        /\ UNCHANGED answer
     \/ /\ pc' = [pc EXCEPT ![p] = "idle"]
        /\ answer' = [answer EXCEPT ![p] = "build_error"]
        /\ UNCHANGED built
  /\ UNCHANGED <<disk, dir, memory, pos, handle, read, doomed, env>>

---------------------------------------------------------------------------
Mkdir(p) ==
  /\ pc[p] = "mkdir"
  /\ dir' = TRUE
  /\ pc' = [pc EXCEPT ![p] = "opening"]
  /\ pos' = [pos EXCEPT ![p] = 0]
  /\ UNCHANGED <<disk, memory, built, handle, read, doomed, answer, env>>

\* Making the directory is outside _try_save: its failure ends the call, and the
\* kernel just built is not even remembered.
MkdirFails(p) ==
  /\ pc[p] = "mkdir"
  /\ faults < scenario.faults /\ faults' = faults + 1
  /\ pc' = [pc EXCEPT ![p] = "idle"]
  /\ built' = [built EXCEPT ![p] = "none"]
  /\ answer' = [answer EXCEPT ![p] = "save_error"]
  /\ UNCHANGED <<disk, dir, memory, pos, handle, read, doomed, crashes, clears>>

\* After a file, written or skipped, the next one; after the last, the memory cache.
NextFile(p) ==
  IF pos[p] + 1 < Len(SaveOrder)
  THEN /\ pos' = [pos EXCEPT ![p] = @ + 1]
       /\ pc' = [pc EXCEPT ![p] = "opening"]
       /\ UNCHANGED <<memory, answer, built>>
  ELSE /\ pos' = [pos EXCEPT ![p] = 0]
       /\ pc' = [pc EXCEPT ![p] = "idle"]
       /\ memory' = [memory EXCEPT ![p] = (Range(ReadOrder) \ {"obj"}) \X {built[p]}]
       /\ answer' = [answer EXCEPT ![p] = "kernel"]
       /\ built' = [built EXCEPT ![p] = "none"]

\* open(..., "w") fails once clear_cache has removed the directory.
Openable == dir

OpenUnlessPresent(p) ==
  /\ pc[p] = "opening"
  /\ handle' = [handle EXCEPT ![p] = disk[SaveOrder[pos[p] + 1]] = "absent"]
  /\ IF disk[SaveOrder[pos[p] + 1]] = "absent"
     THEN /\ disk' = [disk EXCEPT ![SaveOrder[pos[p] + 1]] = "empty"]
          /\ pc' = [pc EXCEPT ![p] = "filling"]
          /\ UNCHANGED <<pos, memory, answer, built>>
     ELSE /\ NextFile(p)
          /\ UNCHANGED disk
  /\ UNCHANGED <<dir, read, doomed, env>>

\* Opening truncates; a file that cannot be opened is skipped.
OpenFile(p) ==
  /\ pc[p] = "opening"
  /\ handle' = [handle EXCEPT ![p] = Openable]
  /\ IF Openable
     THEN /\ disk' = [disk EXCEPT ![SaveOrder[pos[p] + 1]] = "empty"]
          /\ pc' = [pc EXCEPT ![p] = "filling"]
          /\ UNCHANGED <<pos, memory, answer, built>>
     ELSE /\ NextFile(p)
          /\ UNCHANGED disk
  /\ UNCHANGED <<dir, read, doomed, env>>

\* The other processes that have the file p is writing open.
Rivals(p) ==
  {q \in Procs \ {p} : /\ pc[q] = "filling" /\ handle[q]
                       /\ SaveOrder[pos[q] + 1] = SaveOrder[pos[p] + 1]}

\* What the file holds after p's last byte: a rival with other bytes may leave a
\* mixture, one with the same bytes may still have to write them again.
Filled(p) ==
  LET f == SaveOrder[pos[p] + 1]
      mixed == (\E q \in Rivals(p) : built[q] # built[p]) \/ disk[f] \notin {"empty", built[p]}
  IN {built[p]} \cup (IF mixed THEN {"torn"} ELSE IF Rivals(p) # {} THEN {"empty"} ELSE {})

FillFile(p) ==
  /\ pc[p] = "filling"
  /\ \E c \in Filled(p) :
       disk' = IF handle[p] THEN [disk EXCEPT ![SaveOrder[pos[p] + 1]] = c] ELSE disk
  /\ handle' = [handle EXCEPT ![p] = FALSE]
  /\ NextFile(p)
  /\ UNCHANGED <<dir, read, doomed, env>>

\* The write fails, before or after the truncation: _try_save logs and goes on.
WriteFault(p) ==
  /\ faults < scenario.faults /\ faults' = faults + 1
  /\ pc[p] \in {"opening", "filling"}
  /\ handle' = [handle EXCEPT ![p] = FALSE]
  /\ NextFile(p)
  /\ UNCHANGED <<disk, dir, read, doomed, crashes, clears>>

---------------------------------------------------------------------------
\* clear_cache: forget the memory cache, list the directory, delete what was
\* listed one file at a time, then the directory if nothing new appeared in it.
Clear(p) ==
  /\ clears < scenario.clears /\ clears' = clears + 1
  /\ pc[p] = "idle"
  /\ memory' = [memory EXCEPT ![p] = {}]
  /\ doomed' = [doomed EXCEPT ![p] = {f \in Files : disk[f] # "absent"}]
  /\ pc' = [pc EXCEPT ![p] = "clearing"]
  /\ UNCHANGED <<disk, dir, pos, built, handle, read, answer, crashes, faults>>

DeleteFile(p) ==
  /\ pc[p] = "clearing"
  /\ \E f \in doomed[p] :
       /\ disk' = [disk EXCEPT ![f] = "absent"]
       /\ handle' = [q \in Procs |-> handle[q] /\ SaveOrder[pos[q] + 1] # f]
       /\ doomed' = [doomed EXCEPT ![p] = @ \ {f}]
  /\ UNCHANGED <<dir, memory, pc, pos, built, read, answer, env>>

DeleteDir(p) ==
  /\ pc[p] = "clearing" /\ doomed[p] = {}
  /\ dir' = (dir /\ \E f \in Files : disk[f] # "absent")
  /\ pc' = [pc EXCEPT ![p] = "idle"]
  /\ UNCHANGED <<disk, memory, pos, built, handle, read, doomed, answer, env>>

\* The process dies, or simply exits, and a new one takes its place; the disk stays.
Crash(p) ==
  /\ crashes < scenario.crashes /\ crashes' = crashes + 1
  /\ memory' = [memory EXCEPT ![p] = {}] /\ read' = [read EXCEPT ![p] = {}]
  /\ pc' = [pc EXCEPT ![p] = "idle"] /\ pos' = [pos EXCEPT ![p] = 0]
  /\ built' = [built EXCEPT ![p] = "none"] /\ handle' = [handle EXCEPT ![p] = FALSE]
  /\ doomed' = [doomed EXCEPT ![p] = {}] /\ answer' = [answer EXCEPT ![p] = "none"]
  /\ UNCHANGED <<disk, dir, clears, faults>>

Load(p)   == Probe(p) \/ ReadFile(p) \/ BadFile(p)
Save(p)   == Mkdir(p) \/ MkdirFails(p) \/ OpenFile(p) \/ FillFile(p) \/ WriteFault(p)
Rmtree(p) == DeleteFile(p) \/ DeleteDir(p)
Step(p)   == Load(p) \/ Build(p) \/ Save(p) \/ Rmtree(p)

Next == /\ \E p \in scenario.procs : Call(p) \/ Step(p) \/ Clear(p) \/ Crash(p)
        /\ UNCHANGED scenario

Spec == Init /\ [][Next]_vars

\* A process that is inside a call keeps running; nobody has to make a call.
FairSpec == Spec /\ \A p \in Procs : WF_vars(Step(p) /\ UNCHANGED scenario)

---------------------------------------------------------------------------
Whole == \E v \in Versions : \A f \in Range(ReadOrder) : disk[f] = v

\* One process uses the entry; it may have crashed and been restarted.
Alone == (\E p \in Procs : scenario.procs = {p}) /\ clears = 0 /\ faults = 0

\* The file a save writes last is the entry's commit record: a readable one
\* means that every file the loader needs is complete and of the same build,
\* whatever crashes came before.
CommitRecord == Alone /\ disk[IF autotune THEN "latency" ELSE "meta"] \in Versions => Whole

\* load_compile_result answers with a kernel or with None, never with an
\* exception, however damaged the entry is.
LoadsNeverRaise == \A p \in Procs : answer[p] # "load_error"

\* Of an entry only crashes have damaged this holds.
RestartedLoadsNeverRaise == Alone => LoadsNeverRaise

\* Every kernel a process works with is one build: its launcher, its metadata
\* and its configuration belong together.  Of an autotune entry, whose builds
\* differ, this holds as long as one process at a time uses it.  A compile entry
\* has one version only: of it this says just that no file cut short is served,
\* however the entry is shared, cleared and damaged.
ServedConsistent ==
  ~autotune \/ Alone => \A p \in Procs : \A a, b \in memory[p] : a[2] = b[2]

\* Several processes may save the same compile entry at once: when the last
\* writer is through, and nobody cleared the cache, crashed or failed to write,
\* it is whole.  So is the autotune entry of one process.
QuietEntryWhole ==
  /\ ~autotune \/ Alone
  /\ crashes = 0 /\ clears = 0 /\ faults = 0
  /\ \A p \in Procs : pc[p] \notin Writing
  /\ \E p \in Procs : memory[p] # {}
  => Whole

\* Every call, and every clear_cache, comes to an end.
CallsEnd == \A p \in Procs : pc[p] # "idle" ~> pc[p] = "idle"
============================================================================
