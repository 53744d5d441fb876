--------------------------- MODULE SafeCopyProofs ---------------------------
(***************************************************************************)
(* Any number of processes may copy from another filesystem at once, and    *)
(* die at any moment: a reader finds the whole file.  Invariant: they never *)
(* leave the first strategy, so the destination is absent or whole, whoever *)
(* is about to read it is there because it is whole, and the precompiled    *)
(* header is made from a whole file only.                                   *)
(*                                                                         *)
(* On one filesystem the other strategies remove, restore and rewrite the   *)
(* file under other copiers' feet.  Still nobody leaves a damaged file once *)
(* all are through: a file that is not whole has a writer that holds it     *)
(* open, under the name or names it still has, and a name without a file    *)
(* has a copier about to create it.                                         *)
(***************************************************************************)
EXTENDS SafeCopy, TLAPS

\* First-order leaves need no arithmetic; the others are left to the SMT solver.
USE ZenonT(2), SMT

Beside == srcfs # DstFS

CopyInv ==
  /\ pc \in [Procs -> {"probe", "copy", "replace", "read", "done"}]
  /\ saw \in [Procs -> {"none", "whole"}]
  /\ dst \in {"absent", "whole"}
  /\ ready => dst = "whole"
  /\ \A p \in Procs : pc[p] = "read" => dst = "whole"

\* A step of a process keeps the invariant.
LEMMA StepKeepsCopyInv ==
  ASSUME Beside, CopyInv, NEW p \in Procs, Step(p) \/ Crash(p), UNCHANGED setting
  PROVE  CopyInv'
<1> USE DEF CopyInv, Goto, setting
<1>1. CASE Probe(p)
  <2>1. PICK present \in Looks : pc' = [pc EXCEPT ![p] = IF present THEN "read" ELSE "copy"]
    BY Zenon, <1>1 DEF Probe
  <2>2. present => dst = "whole"
    <3>1. CASE checkself /\ dst = "absent"
      BY <2>1, <3>1 DEF Looks
    <3>2. CASE ~checkself
      BY Zenon, <2>1, <3>2 DEF Looks
    <3> QED  BY <3>1, <3>2
  <2> QED  BY <1>1, <2>1, <2>2 DEF Probe
<1>2. CASE CopyToTemp(p)
  BY <1>2 DEF CopyToTemp
<1>3. CASE Replace(p)
  <2>1. TempFS = DstFS
    BY DEF Beside, TempFS
  <2> QED  BY <1>3, <2>1 DEF Replace
<1>4. CASE Read(p)
  BY <1>4 DEF Read
<1>5. CASE Crash(p)
  BY <1>5 DEF Crash
<1>6. CASE Backup(p) \/ Link(p) \/ Unlink(p) \/ Create(p) \/ Fill(p) \/ Stat(p)
  BY <1>6 DEF Backup, Link, Unlink, Create, Fill, Stat
<1> QED  BY <1>1, <1>2, <1>3, <1>4, <1>5, <1>6 DEF Step, Copy

\* Copied from another filesystem the file is whole to every reader, for every
\* number of processes and of crashes.
THEOREM CrossFSReadersProved == Spec => []CrossFSReaders
<1>1. Init => (Beside => CopyInv)
  BY DEF Init, CopyInv
<1>2. (Beside => CopyInv) /\ [Next]_vars => (Beside => CopyInv)'
  <2>1. ASSUME Beside => CopyInv, Next, Beside' PROVE CopyInv'
    BY <2>1, StepKeepsCopyInv DEF Next, Beside, setting
  <2>2. ASSUME Beside => CopyInv, UNCHANGED vars, Beside' PROVE CopyInv'
    BY <2>2 DEF vars, setting, CopyInv, Beside
  <2> QED  BY <2>1, <2>2
<1>3. (Beside => CopyInv) => CrossFSReaders
  BY DEF Beside, CopyInv, CrossFSReaders, ReadersSeeWhole
<1> QED  BY <1>1, <1>2, <1>3, PTL DEF Spec
-----------------------------------------------------------------------------
Contents == {"absent", "partial", "whole"}
Names    == {"none", "dst", "backup", "lost"}
Labels   == Copying \cup {"probe", "read", "done", "raised"}

\* Before its own attempt to replace the file, or to remove it.
Early == {"probe", "copy", "replace", "backup", "link", "unlink"}

CopyTyped ==
  /\ dst \in Contents /\ backup \in Contents /\ linked \in BOOLEAN /\ ready \in BOOLEAN
  /\ handle \in [Procs -> Names] /\ pc \in [Procs -> Labels]
  /\ saw \in [Procs -> Contents \cup {"none"}] /\ crashes \in Nat

\* Which file an open file is: two linked names are one existing file.
OpenFiles ==
  /\ \A p \in Procs : handle[p] # "none" => pc[p] = "fill"
  /\ linked => backup = dst /\ dst # "absent"
  /\ linked \/ backup = "absent" => \A p \in Procs : handle[p] # "backup"

\* Who is going to complete what is not whole.
Unfinished ==
  /\ dst = "partial" => \E p \in Procs : handle[p] = "dst"
  /\ backup = "partial" =>
        \E p \in Procs : handle[p] = "backup" \/ (linked /\ handle[p] = "dst")
  /\ dst = "absent" => \/ \E p \in Procs : pc[p] = "create"
                       \/ ~ready /\ \A p \in Procs : pc[p] \in Early /\ saw[p] = "none"

NamesInv == CopyTyped /\ OpenFiles /\ (crashes = 0 => Unfinished)

\* A test that finds the file, or the precompiled header, is right.
LEMMA PresentIsThere ==
  ASSUME CopyTyped, NEW present \in Looks, present
  PROVE  dst # "absent" \/ ready
<1>1. CASE checkself /\ dst = "absent"
  BY <1>1 DEF Looks
<1>2. CASE ~checkself
  BY Zenon, <1>2 DEF Looks
<1> QED  BY <1>1, <1>2

\* Steps that move no name and write no byte.
LEMMA StillNames ==
  ASSUME NamesInv, NEW p \in Procs, Probe(p) \/ CopyToTemp(p) \/ Stat(p) \/ Read(p)
  PROVE  NamesInv'
<1> USE DEF NamesInv, Goto, Labels, Copying
<1>1. UNCHANGED <<dst, backup, linked, handle, crashes>> /\ pc[p] \notin {"fill", "create"}
  BY DEF Probe, CopyToTemp, Stat, Read
<1>2. \A q \in Procs : q # p => pc'[q] = pc[q] /\ saw'[q] = saw[q]
  BY DEF Probe, CopyToTemp, Stat, Read, CopyTyped
<1>3. CopyTyped'
  BY Zenon DEF Probe, CopyToTemp, Stat, Read, CopyTyped
<1>4. OpenFiles'
  <2>1. \A q \in Procs : handle[q] # "none" => pc'[q] = "fill"
    BY <1>1, <1>2 DEF OpenFiles
  <2> QED  BY <1>1, <2>1 DEF OpenFiles
<1>5. ASSUME crashes = 0 PROVE Unfinished'
  <2>1. ASSUME dst = "absent", NEW q \in Procs, pc[q] = "create" PROVE pc'[q] = "create"
    BY <1>1, <1>2, <2>1
  <2>2. ASSUME dst = "absent", ~ready, \A q \in Procs : pc[q] \in Early /\ saw[q] = "none"
        PROVE  ~ready' /\ pc'[p] \in Early /\ saw'[p] = "none"
    <3>1. CASE Probe(p)
      <4>1. PICK present \in Looks : pc' = [pc EXCEPT ![p] = IF present THEN "read" ELSE "copy"]
        BY Zenon, <3>1 DEF Probe
      <4>2. ~present
        BY <2>2, <4>1, PresentIsThere
      <4> QED  BY <2>2, <3>1, <4>1, <4>2 DEF Probe, CopyTyped, Early
    <3>2. CASE CopyToTemp(p)
      BY <2>2, <3>2 DEF CopyToTemp, CopyTyped, Early
    <3>3. CASE Stat(p) \/ Read(p)
      BY <2>2, <3>3 DEF Stat, Read, Early
    <3> QED  BY <3>1, <3>2, <3>3
  <2>3. dst = "absent" =>
          \/ \E q \in Procs : pc'[q] = "create"
          \/ ~ready' /\ \A q \in Procs : pc'[q] \in Early /\ saw'[q] = "none"
    BY <1>2, <1>5, <2>1, <2>2 DEF Unfinished
  <2> QED  BY <1>1, <1>5, <2>3 DEF Unfinished
<1> QED  BY <1>1, <1>3, <1>4, <1>5

\* The file gets or loses a name; open files keep the one they are left with.
LEMMA MovedNames ==
  ASSUME NamesInv, NEW p \in Procs, Replace(p) \/ Backup(p) \/ Link(p) \/ Unlink(p)
  PROVE  NamesInv'
<1> USE DEF NamesInv, Goto, Labels, Copying
<1>1. UNCHANGED <<ready, saw, crashes>> /\ pc[p] \in {"replace", "backup", "link", "unlink"}
  BY DEF Replace, Backup, Link, Unlink
<1>2. \A q \in Procs : q # p => pc'[q] = pc[q]
  BY DEF Replace, Backup, Link, Unlink, CopyTyped
<1>3. handle[p] = "none" /\ pc[p] # "create"
  BY <1>1 DEF OpenFiles
<1>4. CASE Replace(p) /\ TempFS # DstFS
  <2>1. UNCHANGED <<dst, backup, linked, handle>> /\ pc' = [pc EXCEPT ![p] = "backup"]
    BY <1>4 DEF Replace
  <2>2. CopyTyped' /\ OpenFiles'
    BY <1>1, <1>2, <1>3, <2>1 DEF CopyTyped, OpenFiles
  <2>3. crashes = 0 => Unfinished'
    BY <1>1, <1>2, <1>3, <2>1 DEF Unfinished, CopyTyped, Early
  <2> QED  BY <1>1, <2>2, <2>3
<1>5. CASE (Replace(p) /\ TempFS = DstFS) \/ Unlink(p)
  <2>1. /\ dst' \in {"whole", "absent"} /\ linked' = FALSE /\ handle' = Renamed /\ backup' = backup
        /\ pc'[p] \in {"read", "create"} /\ pc' \in [Procs -> Labels]
        /\ dst' = "absent" => pc'[p] = "create"
    BY <1>5 DEF Replace, Unlink, CopyTyped
  <2>2. \A q \in Procs : handle'[q] = IF handle[q] = "dst"
                                      THEN IF linked THEN "backup" ELSE "lost"
                                      ELSE handle[q]
    BY <2>1 DEF Renamed
  <2>3. handle' \in [Procs -> Names]
    BY <2>1 DEF Renamed, CopyTyped, Names
  <2>4. CopyTyped'
    BY Zenon, <1>1, <2>1, <2>3 DEF CopyTyped, Contents
  <2>5. OpenFiles'
    BY <1>1, <1>2, <1>3, <2>1, <2>2 DEF OpenFiles
  <2>6. crashes = 0 => Unfinished'
    BY <1>1, <2>1, <2>2 DEF Unfinished
  <2> QED  BY <1>1, <2>4, <2>5, <2>6
<1>6. CASE Backup(p)
  <2>1. dst' = dst /\ handle' = handle /\ pc'[p] \in Early /\ pc' \in [Procs -> Labels]
    BY <1>6 DEF Backup, CopyTyped, Early
  <2>2. \/ UNCHANGED <<backup, linked>>
        \/ dst # "absent" /\ backup = "absent" /\ backup' = dst /\ linked' = TRUE
    BY <1>6 DEF Backup
  <2>3. CopyTyped'
    BY Zenon, <1>1, <2>1, <2>2 DEF CopyTyped
  <2>4. OpenFiles'
    BY <1>2, <1>3, <2>1, <2>2 DEF OpenFiles
  <2>5. ASSUME crashes = 0 PROVE Unfinished'
    <3>1. dst = "absent" => \/ \E q \in Procs : pc'[q] = "create"
                            \/ ~ready /\ \A q \in Procs : pc'[q] \in Early /\ saw[q] = "none"
      BY <1>2, <1>3, <2>1, <2>5 DEF Unfinished
    <3> QED  BY <1>1, <2>1, <2>2, <2>5, <3>1 DEF Unfinished
  <2> QED  BY <1>1, <2>3, <2>4, <2>5
<1>7. CASE Link(p)
  <2>1. linked' = linked /\ pc'[p] = "unlink" /\ pc' \in [Procs -> Labels]
    BY <1>7 DEF Link, CopyTyped
  <2>2. CASE backup # "absent" /\ ~linked
    <3>1. /\ dst' = backup /\ backup' = "absent"
          /\ handle' = [q \in Procs |-> IF handle[q] = "backup" THEN "dst" ELSE Renamed[q]]
      BY <1>7, <2>2 DEF Link
    <3>2. \A q \in Procs : handle'[q] = IF handle[q] = "backup" THEN "dst"
                                        ELSE IF handle[q] = "dst" THEN "lost" ELSE handle[q]
      BY <2>2, <3>1 DEF Renamed
    <3>3. handle' \in [Procs -> Names]
      <4>1. \A q \in Procs : handle'[q] \in Names
        BY <3>2 DEF CopyTyped, Names
      <4> QED  BY <3>1, <4>1
    <3>4. CopyTyped'
      BY <1>1, <2>1, <3>1, <3>3 DEF CopyTyped, Contents
    <3>5. OpenFiles'
      BY <1>2, <1>3, <2>1, <2>2, <3>1, <3>2 DEF OpenFiles
    <3>6. crashes = 0 => Unfinished'
      BY <1>1, <2>1, <2>2, <3>1, <3>2 DEF Unfinished
    <3> QED  BY <1>1, <3>4, <3>5, <3>6
  <2>3. CASE ~(backup # "absent" /\ ~linked)
    <3>1. UNCHANGED <<dst, backup, handle>>
      BY <1>7, <2>3 DEF Link
    <3>2. CopyTyped' /\ OpenFiles'
      BY <1>1, <1>2, <1>3, <2>1, <3>1 DEF CopyTyped, OpenFiles
    <3>3. crashes = 0 => Unfinished'
      BY <1>1, <1>2, <1>3, <2>1, <3>1 DEF Unfinished, Early
    <3> QED  BY <1>1, <3>2, <3>3
  <2> QED  BY <2>2, <2>3
<1> QED  BY <1>4, <1>5, <1>6, <1>7

\* copy2 opens the file under its name, truncating it, and leaves it whole unless
\* another writer has the same file open.
LEMMA WrittenNames ==
  ASSUME NamesInv, NEW p \in Procs, Create(p) \/ Fill(p)
  PROVE  NamesInv'
<1> USE DEF NamesInv, Goto, Labels, Copying
<1>1. UNCHANGED <<linked, ready, saw, crashes>>
  BY DEF Create, Fill
<1>2. \A q \in Procs : q # p => pc'[q] = pc[q] /\ handle'[q] = handle[q]
  BY DEF Create, Fill, CopyTyped
<1>3. CASE Create(p)
  <2>1. /\ dst' = "partial" /\ backup' = IF linked THEN "partial" ELSE backup
        /\ handle' = [handle EXCEPT ![p] = "dst"] /\ pc' = [pc EXCEPT ![p] = "fill"]
    BY <1>3 DEF Create
  <2>2. handle'[p] = "dst" /\ pc'[p] = "fill" /\ handle[p] = "none"
    BY <1>3, <2>1 DEF Create, CopyTyped, OpenFiles
  <2>3. CopyTyped'
    BY <1>1, <2>1 DEF CopyTyped, Contents, Names
  <2>4. OpenFiles'
    BY <1>1, <1>2, <2>1, <2>2 DEF OpenFiles
  <2>5. crashes = 0 => Unfinished'
    BY <1>1, <1>2, <2>1, <2>2 DEF Unfinished
  <2> QED  BY <1>1, <2>3, <2>4, <2>5
<1>4. CASE Fill(p)
  <2>1. PICK c \in Filled(p) :
          /\ dst' = IF handle[p] = "dst" THEN c ELSE dst
          /\ backup' = IF handle[p] = "backup" \/ (handle[p] = "dst" /\ linked)
                       THEN c ELSE backup
    BY <1>4 DEF Fill
  <2>2. /\ handle' = [handle EXCEPT ![p] = "none"] /\ pc' = [pc EXCEPT ![p] = "stat"]
        /\ pc[p] = "fill"
    BY <1>4 DEF Fill, AfterFill
  <2>3. c \in {"whole", "partial"}
    BY <2>1 DEF Filled
  <2>4. ASSUME c = "partial" PROVE \E q \in Procs : q # p /\ handle[q] = handle[p]
    BY <2>1, <2>4 DEF Filled
  <2>5. CopyTyped'
    BY <1>1, <2>1, <2>2, <2>3 DEF CopyTyped, Contents, Names
  <2>6. OpenFiles'
    BY <1>1, <1>2, <2>1, <2>2, <2>3 DEF OpenFiles, CopyTyped
  <2>7. ASSUME crashes = 0 PROVE Unfinished'
    <3>1. dst' = "partial" => \E q \in Procs : handle'[q] = "dst"
      BY <1>2, <2>1, <2>3, <2>4, <2>7 DEF Unfinished
    <3>2. backup' = "partial" =>
            \E q \in Procs : handle'[q] = "backup" \/ (linked /\ handle'[q] = "dst")
      BY <1>2, <2>1, <2>3, <2>4, <2>7 DEF Unfinished, OpenFiles
    <3>3. dst' = "absent" => \E q \in Procs : pc'[q] = "create"
      BY <1>2, <2>1, <2>2, <2>3, <2>7 DEF Unfinished, Early
    <3> QED  BY <1>1, <3>1, <3>2, <3>3 DEF Unfinished
  <2> QED  BY <1>1, <2>5, <2>6, <2>7
<1> QED  BY <1>3, <1>4

\* A crash closes what the process had open; nothing is claimed of the bytes then.
LEMMA CrashNames ==
  ASSUME NamesInv, NEW p \in Procs, Crash(p)
  PROVE  NamesInv'
<1> USE DEF NamesInv, Goto, Labels, Copying
<1>1. /\ UNCHANGED <<dst, backup, linked, ready>> /\ crashes' = crashes + 1
      /\ handle' = [handle EXCEPT ![p] = "none"] /\ pc' = [pc EXCEPT ![p] = "probe"]
      /\ saw' = [saw EXCEPT ![p] = "none"]
  BY DEF Crash
<1>2. CopyTyped'
  BY <1>1 DEF CopyTyped, Names
<1>3. OpenFiles'
  BY <1>1 DEF OpenFiles, CopyTyped
<1>4. crashes' # 0
  BY <1>1 DEF CopyTyped
<1> QED  BY <1>2, <1>3, <1>4

\* The invariant of the names safe_copy works with (temporary file, dst.backup and
\* dst) holds throughout, for any number of processes and crashes.
THEOREM NamesInductive == Spec => []NamesInv
<1>1. ASSUME Init PROVE NamesInv
  <2>1. CopyTyped
    BY Zenon, <1>1 DEF Init, CopyTyped, Contents, Names, Labels
  <2>2. OpenFiles /\ Unfinished
    BY <1>1 DEF Init, OpenFiles, Unfinished, Early
  <2> QED  BY <2>1, <2>2 DEF NamesInv
<1>2. NamesInv /\ [Next]_vars => NamesInv'
  <2>1. ASSUME NamesInv, Next PROVE NamesInv'
    BY <2>1, StillNames, MovedNames, WrittenNames, CrashNames DEF Next, Step, Copy
  <2>2. ASSUME NamesInv, UNCHANGED vars PROVE NamesInv'
    BY <2>2 DEF vars, NamesInv, CopyTyped, OpenFiles, Unfinished
  <2> QED  BY <2>1, <2>2
<1> QED  BY <1>1, <1>2, PTL DEF Spec

\* When the copiers are through and none died, the file is whole, whatever the
\* filesystems and however the strategies of any number of processes interleaved.
THEOREM QuietMeansWhole == Spec => []QuietFileWhole
<1>1. NamesInv => QuietFileWhole
  BY DEF NamesInv, CopyTyped, OpenFiles, Unfinished, QuietFileWhole, Contents, Copying, Early
<1> QED  BY <1>1, NamesInductive, PTL
=============================================================================
