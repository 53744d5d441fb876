------------------------------ MODULE SafeCopy ------------------------------
(***************************************************************************)
(* One file of the runtime file cache (npu_utils.so, a launcher .so, the   *)
(* launcher header), which several processes put in place with safe_copy   *)
(* and then read, with no lock between them.  Every process copies the     *)
(* same bytes, so a file is absent, partial or whole.                      *)
(*                                                                         *)
(* safe_copy copies to a private temporary file and moves that over the    *)
(* destination: by os.replace, or, when the temporary file turns out to be *)
(* on another filesystem, by the two fallback strategies.                  *)
(***************************************************************************)
EXTENDS Integers, FiniteSets

CONSTANTS
  Procs,
  DstFS, TmpFS,   \* filesystems of the destination and of tempfile.gettempdir()
  MaxCrashes

ASSUME CopyAssumption == MaxCrashes \in Nat

VARIABLES
  checkself, \* the user tests the file itself before copying (a library); the
             \* header's user tests the precompiled header instead
  srcfs,     \* filesystem of the source
  dst,       \* content of the destination
  backup,    \* content of dst.backup
  linked,    \* dst and dst.backup are two names of one file
  handle,    \* per process: the name its open file is reachable under
  ready,     \* the precompiled header exists
  pc, saw,   \* per process: next step; what it found when it read the file
  crashes

setting == <<checkself, srcfs>>
vars == <<setting, dst, backup, linked, handle, ready, pc, saw, crashes>>

Copying  == {"copy", "replace", "backup", "link", "unlink", "create", "fill", "stat"}

\* A library is built in a temporary directory, the header is in the package.
Init ==
  /\ \/ checkself = TRUE /\ srcfs = TmpFS
     \/ checkself = FALSE /\ srcfs \in {DstFS, TmpFS}
  /\ dst = "absent" /\ backup = "absent" /\ linked = FALSE /\ ready = FALSE
  /\ handle = [p \in Procs |-> "none"] /\ pc = [p \in Procs |-> "probe"]
  /\ saw = [p \in Procs |-> "none"] /\ crashes = 0

Goto(p, l) == pc' = [pc EXCEPT ![p] = l]

---------------------------------------------------------------------------
\* exists(path) and getsize(path) > 0: a partial file may pass or not.
Looks ==
  IF checkself
  THEN [absent |-> {FALSE}, partial |-> BOOLEAN, whole |-> {TRUE}][dst]
  ELSE {ready}

Probe(p) ==
  /\ pc[p] = "probe"
  /\ \E present \in Looks : Goto(p, IF present THEN "read" ELSE "copy")
  /\ UNCHANGED <<dst, backup, linked, handle, ready, saw, crashes>>

\* The source is built, or is part of the package; copy2 to the temporary file.
CopyToTemp(p) ==
  /\ pc[p] = "copy"
  /\ Goto(p, "replace")
  /\ UNCHANGED <<dst, backup, linked, handle, ready, saw, crashes>>

AlwaysSystemTemp == TmpFS

\* The temporary file goes to the system's directory if source and destination
\* share a filesystem, next to the destination otherwise.  (The code compares the
\* device of the directory above the destination's; the cache's directories are
\* all on one filesystem.)
TempFS == IF srcfs = DstFS THEN TmpFS ELSE DstFS

\* Names of the files still open once dst names another file or none.
Renamed == [q \in Procs |-> IF handle[q] = "dst"
                            THEN IF linked THEN "backup" ELSE "lost"
                            ELSE handle[q]]

\* Strategy 1, os.replace: atomic, but only within a filesystem.
Replace(p) ==
  /\ pc[p] = "replace"
  /\ IF TempFS = DstFS
     THEN /\ dst' = "whole" /\ linked' = FALSE /\ handle' = Renamed
          /\ Goto(p, "read")
     ELSE /\ Goto(p, "backup")
          /\ UNCHANGED <<dst, linked, handle>>
  /\ UNCHANGED <<backup, ready, saw, crashes>>

\* Strategy 2, hard links: keep the old file as dst.backup.  The strategy is given
\* up when a backup exists, or when dst vanishes between the test and the link.
Backup(p) ==
  /\ pc[p] = "backup"
  /\ \/ /\ dst # "absent" /\ backup = "absent"
        /\ backup' = dst /\ linked' = TRUE
        /\ Goto(p, "link")
     \/ /\ dst = "absent" \/ backup # "absent"
        /\ \E l \in IF dst = "absent" THEN {"link", "unlink"} ELSE {"unlink"} : Goto(p, l)
        /\ UNCHANGED <<backup, linked>>
  /\ UNCHANGED <<dst, handle, ready, saw, crashes>>

\* Linking across filesystems fails; the backup is renamed back, which does
\* nothing while it still is the destination under a second name.
Link(p) ==
  /\ pc[p] = "link"
  /\ IF backup # "absent" /\ ~linked
     THEN /\ dst' = backup /\ backup' = "absent"
          /\ handle' = [q \in Procs |-> IF handle[q] = "backup" THEN "dst" ELSE Renamed[q]]
     ELSE UNCHANGED <<dst, backup, handle>>
  /\ Goto(p, "unlink")
  /\ UNCHANGED <<linked, ready, saw, crashes>>

\* Strategy 3: remove the destination ...
Unlink(p) ==
  /\ pc[p] = "unlink"
  /\ dst' = "absent" /\ linked' = FALSE /\ handle' = Renamed
  /\ Goto(p, "create")
  /\ UNCHANGED <<backup, ready, saw, crashes>>

\* ... os.rename fails across filesystems, and copy2 opens the destination itself.
Create(p) ==
  /\ pc[p] = "create"
  /\ dst' = "partial" /\ backup' = IF linked THEN "partial" ELSE backup
  /\ handle' = [handle EXCEPT ![p] = "dst"]
  /\ Goto(p, "fill")
  /\ UNCHANGED <<linked, ready, saw, crashes>>

CopyAgain == "create"

\* copy2 has written the bytes; the times and the mode come next.
AfterFill == "stat"

FillLost(p) == {"partial"}

\* What p's copy2 leaves when it has written its last byte: a second writer that
\* truncated the file in between has the rest still to write.
Filled(p) ==
  {"whole"} \cup (IF \E q \in Procs \ {p} : handle[q] = handle[p] THEN {"partial"} ELSE {})

Fill(p) ==
  /\ pc[p] = "fill"
  /\ \E c \in Filled(p) :
       /\ dst' = IF handle[p] = "dst" THEN c ELSE dst
       /\ backup' = IF handle[p] = "backup" \/ (handle[p] = "dst" /\ linked) THEN c ELSE backup
  /\ handle' = [handle EXCEPT ![p] = "none"]
  /\ Goto(p, AfterFill)
  /\ UNCHANGED <<linked, ready, saw, crashes>>

\* copy2 sets times and mode by name: it raises if the name is gone again, and
\* safe_copy passes the exception on.
Stat(p) ==
  /\ pc[p] = "stat"
  /\ Goto(p, IF dst = "absent" THEN "raised" ELSE "read")
  /\ UNCHANGED <<dst, backup, linked, handle, ready, saw, crashes>>

---------------------------------------------------------------------------
\* Load the library, or compile the header into its precompiled form.
Read(p) ==
  /\ pc[p] = "read"
  /\ saw' = [saw EXCEPT ![p] = dst]
  /\ ready' = (ready \/ dst = "whole")
  /\ Goto(p, "done")
  /\ UNCHANGED <<dst, backup, linked, handle, crashes>>

\* The process dies, or a new one starts; what it was writing stays as it is.
Crash(p) ==
  /\ crashes < MaxCrashes /\ crashes' = crashes + 1
  /\ handle' = [handle EXCEPT ![p] = "none"]
  /\ saw' = [saw EXCEPT ![p] = "none"]
  /\ Goto(p, "probe")
  /\ UNCHANGED <<dst, backup, linked, ready>>

Copy(p) == CopyToTemp(p) \/ Replace(p) \/ Backup(p) \/ Link(p) \/ Unlink(p)
           \/ Create(p) \/ Fill(p) \/ Stat(p)
Step(p) == Probe(p) \/ Copy(p) \/ Read(p)

Next == (\E p \in Procs : Step(p) \/ Crash(p)) /\ UNCHANGED setting

Spec     == Init /\ [][Next]_vars
FairSpec == Spec /\ \A p \in Procs : WF_vars(Step(p) /\ UNCHANGED setting)

---------------------------------------------------------------------------
\* Whoever reads the file after its own probe or copy finds all of it.
ReadersSeeWhole == \A p \in Procs : saw[p] \in {"none", "whole"}

\* From another filesystem this holds: the temporary file is beside the destination.
CrossFSReaders == srcfs # DstFS => ReadersSeeWhole

\* Once nobody is copying (and nobody died copying), the file is in place.
QuietFileWhole ==
  (\A p \in Procs : pc[p] \notin Copying) /\ crashes = 0
  /\ (\E p \in Procs : saw[p] # "none") => dst = "whole"

\* Every process gets to its read or is told that its copy failed, whichever
\* strategy the copy takes.
CopiesEnd == \A p \in Procs : pc[p] \in Copying ~> pc[p] \in {"done", "raised"}
============================================================================
