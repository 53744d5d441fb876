-------------------------- MODULE EvalReportProofs --------------------------
(***************************************************************************)
(* A report that says "passed" rests on profiled kernels, for every suite   *)
(* and any number of errors of the profiler.                                *)
(*                                                                         *)
(* The invariant carries what is known of a capture from the msprof process *)
(* that made it (Captured), through its description on disk (Written), to   *)
(* the record (Honest); the verdict is formed once, from records that no    *)
(* later step changes (Judged).                                             *)
(*                                                                         *)
(* The second invariant is about the directories: what a temporary          *)
(* workspace is still good for at each point of a test (Freed), that the    *)
(* directory a record names is written by that record's test alone          *)
(* (Stored), and that nobody removes it (Existing).                         *)
(***************************************************************************)
EXTENDS EvalReport, TLAPS

\* First-order leaves need no arithmetic; the others are left to the SMT solver.
USE ZenonT(2), SMT

\* What a capture made with the given filter holds.
Sound(ops, filter) == ops # {} /\ ops \subseteq Ops /\ (filter # "none" => ops = {"own"})

Describes(m, requested, ops, names) ==
    m.requested = requested /\ m.count = Cardinality(names) /\ Sound(ops, m.resolved)

Honest(r) == r.described => Describes(r.msprof, r.filter, r.captured, r.named)

Busy == {"prepare", "attempt", "persist"}

Typed ==
    /\ todo \subseteq Indices
    /\ pc \in Busy \cup {"record"} => at \in Indices
    /\ DOMAIN metadata = Dirs
    /\ \E T : records \in Seq(T)
    /\ reporting => keep
    /\ pc \in {"correctness", "analyze", "write"} => reporting

Captured == pc = "persist" => Sound(capture, Head(candidates))
Written == /\ pc \in Busy => ~described
           /\ pc = "record" /\ described =>
                 out # NoDir /\ Describes(metadata[out], kernel_name, capture, named)
Recorded == keep => \A i \in DOMAIN records : Honest(records[i])
Judged == status = "passed" => /\ pc \in {"write", "done"}
                               /\ keep
                               /\ \A r \in Reported : ~FellBack(r) /\ Valid(r)

ReportInv == Typed /\ Captured /\ Written /\ Recorded /\ Judged

\* Appending to the records keeps them a sequence, and the earlier ones.
LEMMA AppendRecord ==
    ASSUME \E T : records \in Seq(T), NEW r, records' = Append(records, r)
    PROVE  /\ \E T : records' \in Seq(T)
           /\ \A i \in DOMAIN records' : (i \in DOMAIN records /\ records'[i] = records[i])
                                         \/ records'[i] = r
<1>1. PICK S : records \in Seq(S)
  OBVIOUS
<1> DEFINE T == S \cup {r}
<1>2. records \in Seq(T) /\ r \in T
  BY <1>1
<1> HIDE DEF T
<1>3. records' \in Seq(T) /\ Len(records') = Len(records) + 1
  BY <1>2
<1>4. \A i \in DOMAIN records' : (i \in DOMAIN records /\ records'[i] = records[i])
                                 \/ records'[i] = r
  BY <1>2, <1>3
<1> QED  BY <1>3, <1>4

\* A test's directories are among the directories.
LEMMA TestDirs ==
    \A i \in Indices : /\ Temp(i) \in Dirs /\ Kept(i) \in Dirs /\ User \in Dirs
                       /\ Temp(i) # NoDir /\ Kept(i) # NoDir /\ User # NoDir
BY DEF Dirs, Temp, Kept, User, NoDir

\* A run starts within its invariant.
LEMMA InitReportInv == Init => ReportInv
<1> SUFFICES ASSUME Init PROVE ReportInv
  OBVIOUS
<1>1. Typed
  BY DEF Init, Typed, Selected, Busy
<1>2. Captured /\ Written /\ Recorded /\ Judged
  BY DEF Init, Captured, Written, Recorded, Judged, Busy
<1> QED  BY <1>1, <1>2 DEF ReportInv

\* Steps in the middle of a test, which neither record nor judge.
LEMMA TestReportInv ==
    ASSUME ReportInv, UNCHANGED setting,
           \/ Profile \/ TestFails \/ Prepare \/ PrepareRaises \/ Attempt \/ FallBack
           \/ MsprofRaises \/ Persist \/ PersistRaises
    PROVE  ReportInv'
<1> USE DEF setting
<1>1. UNCHANGED <<records, status, json>> /\ status # "passed"
  BY Zenon DEF ReportInv, Judged, Profile, TestFails, Prepare, PrepareRaises, Attempt, FallBack,
         MsprofRaises, Persist, PersistRaises, session, verdict
<1>2. Recorded' /\ Judged'
  BY <1>1 DEF ReportInv, Recorded, Judged, Honest, Describes
<1>3. CASE Profile
  <2>1. Typed'
    BY <1>1, <1>3 DEF ReportInv, Typed, Profile, NextTest, Indices, Dirs, Temp, Kept, Busy
  <2> QED  BY <1>2, <1>3, <2>1 DEF ReportInv, Profile, Captured, Written, Busy
<1>4. CASE TestFails
  <2>1. Typed'
    BY <1>1, <1>4 DEF ReportInv, Typed, TestFails, NextTest, Indices, Dirs, Temp, Kept, disk, Busy
  <2> QED  BY <1>2, <1>4, <2>1 DEF ReportInv, TestFails, Captured, Written, Busy
<1>5. CASE Attempt
  <2>1. Typed'
    BY <1>1, <1>5 DEF ReportInv, Typed, Attempt, Indices, Dirs, Temp, Kept, session, Busy
  <2>2. Captured'
    BY <1>5 DEF Attempt, Captures, Captured, Sound, Ops
  <2>3. Written'
    BY <1>5 DEF ReportInv, Attempt, Written, Busy
  <2> QED  BY <1>2, <2>1, <2>2, <2>3 DEF ReportInv
<1>6. CASE Prepare \/ PrepareRaises \/ FallBack \/ MsprofRaises \/ PersistRaises
  <2>1. /\ pc \in Busy /\ pc' \in {"attempt", "record", "session"}
        /\ UNCHANGED <<at, todo, metadata, capture, named, out, described>>
    BY Zenon, <1>6 DEF Prepare, PrepareRaises, FallBack, MsprofRaises, PersistRaises, Escapes, Busy,
                test, disk, session
  <2>2. Typed'
    BY <1>1, <2>1 DEF ReportInv, Typed, Indices, Dirs, Temp, Kept, Busy
  <2> QED  BY <1>2, <2>1, <2>2 DEF ReportInv, Captured, Written, Busy
<1>7. CASE Persist
  <2>1. PICK dir \in Dirs :
          /\ dir # NoDir /\ out' = dir
          /\ metadata' = IF described'
                         THEN [metadata EXCEPT ![dir] = [requested |-> kernel_name,
                                                         resolved |-> Head(candidates),
                                                         count |-> Cardinality(named)]]
                         ELSE metadata
    BY Zenon, <1>7, TestDirs DEF Persist, Target, ReportInv, Typed, Busy
  <2>2. Typed'
    <3>1. DOMAIN metadata' = Dirs
      BY <2>1 DEF ReportInv, Typed
    <3> QED  BY <1>1, <1>7, <3>1 DEF ReportInv, Typed, Persist, Indices, Dirs, Temp, Kept, session, Busy
  <2>3. Captured'
    BY <1>7 DEF Persist, Captured
  <2>4. Written'
    <3>1. described' => metadata'[dir] = [requested |-> kernel_name, resolved |-> Head(candidates),
                                          count |-> Cardinality(named)]
      BY <2>1 DEF ReportInv, Typed
    <3>2. Sound(capture, Head(candidates))
      BY <1>7 DEF ReportInv, Captured, Persist
    <3> QED  BY <1>7, <2>1, <3>1, <3>2 DEF Persist, Written, Describes, Sound, Busy
  <2> QED  BY <1>2, <2>2, <2>3, <2>4 DEF ReportInv
<1> QED  BY <1>3, <1>4, <1>5, <1>6, <1>7

\* The record of a test that was described has the description of its capture.
LEMMA RecordReportInv ==
    ASSUME ReportInv, UNCHANGED setting, Record
    PROVE  ReportInv'
<1> USE DEF setting
<1> DEFINE kept == out # NoDir /\ (keep \/ redirected)
           r == [test |-> at, case |-> Tests[at].case, labelled |-> Tests[at].labelled,
                 prof_mode |-> IF out = NoDir THEN "events" ELSE "msprof",
                 artifact |-> IF kept THEN out ELSE NoDir,
                 msprof |-> IF kept THEN metadata[out] ELSE NoMeta,
                 filter |-> kernel_name, captured |-> capture, named |-> named,
                 described |-> described]
<1>1. records' = Append(records, r) /\ pc = "record" /\ pc' = "session"
  BY DEF Record
<1>2. keep => Honest(r)
  BY <1>1 DEF ReportInv, Written, Honest
<1>3. /\ \E T : records' \in Seq(T)
      /\ \A i \in DOMAIN records' : (i \in DOMAIN records /\ records'[i] = records[i])
                                    \/ records'[i] = r
  <2> HIDE DEF r
  <2> QED  BY <1>1, AppendRecord DEF ReportInv, Typed
<1>4. Recorded'
  <2> HIDE DEF r
  <2> QED  BY <1>2, <1>3 DEF ReportInv, Recorded, Honest, Describes
<1>5. Typed'
  BY <1>1, <1>3 DEF ReportInv, Typed, Record, Indices, Dirs, Temp, Kept, Busy
<1>6. Captured' /\ Written' /\ Judged'
  BY <1>1 DEF ReportInv, Record, Captured, Written, Judged, verdict, Busy
<1> QED  BY <1>4, <1>5, <1>6 DEF ReportInv

\* The runner's own steps, and a test that ends without a record, leave records
\* and descriptions alone.
LEMMA RunnerReportInv ==
    ASSUME ReportInv, UNCHANGED setting,
           Correctness \/ RecordRaises \/ SessionFinish \/ StageTimeout \/ Analyze \/ Publish
    PROVE  ReportInv'
<1> USE DEF setting
<1>1. UNCHANGED <<at, todo, records, metadata>>
  BY DEF Correctness, RecordRaises, SessionFinish, StageTimeout, Analyze, Publish, test, disk, session
<1>2. Typed'
  BY <1>1 DEF ReportInv, Typed, Indices, Dirs, Temp, Kept, Busy, Correctness,
              RecordRaises, SessionFinish, StageTimeout, Analyze, Publish
<1>3. Recorded'
  BY <1>1 DEF ReportInv, Recorded, Honest, Describes
<1>4. Captured' /\ Written'
  BY DEF Captured, Written, Busy, Correctness, RecordRaises, SessionFinish, StageTimeout, Analyze,
         Publish
<1>5. Judged'
  <2>1. CASE Correctness \/ RecordRaises \/ SessionFinish \/ StageTimeout
    BY <2>1 DEF ReportInv, Judged, Correctness, RecordRaises, SessionFinish, StageTimeout, verdict
  <2>2. CASE Analyze
    <3>1. UNCHANGED <<records, json, mode>> /\ (status' = "passed" => benchmark_passed \/ status = "passed")
      BY <2>2 DEF Analyze, session
    <3>2. benchmark_passed => \A r \in Reported : ~FellBack(r) /\ Valid(r)
      BY DEF benchmark_passed
    <3>3. Reported' = Reported /\ \A r : FellBack(r)' = FellBack(r)
      BY <3>1 DEF Reported, FellBack
    <3> QED  BY <2>2, <3>1, <3>2, <3>3 DEF ReportInv, Judged, Typed, Analyze, Valid
  <2>3. CASE Publish
    <3>1. UNCHANGED <<records, json, mode, status>>
      BY <2>3 DEF Publish, session
    <3>2. Reported' = Reported /\ \A r : FellBack(r)' = FellBack(r)
      BY <3>1 DEF Reported, FellBack
    <3> QED  BY <2>3, <3>1, <3>2 DEF ReportInv, Judged, Publish, Valid
  <2> QED  BY <2>1, <2>2, <2>3
<1> QED  BY <1>2, <1>3, <1>4, <1>5 DEF ReportInv

\* The invariant of a run's records holds throughout, for every suite of tests.
THEOREM ReportInductive == Spec => []ReportInv
<1>1. ReportInv /\ [Next]_vars => ReportInv'
  <2>1. ASSUME ReportInv, Next PROVE ReportInv'
    BY <2>1, TestReportInv, RecordReportInv, RunnerReportInv DEF Next, Progress
  <2>2. ASSUME ReportInv, UNCHANGED vars PROVE ReportInv'
    BY <2>2 DEF vars, setting, test, disk, session, verdict, ReportInv, Typed, Captured, Written,
                Recorded, Judged, Honest, Describes, Sound, Indices, Dirs, Temp, Kept, User, Fixed,
                Reported, FellBack, Valid, Busy
  <2> QED  BY <2>1, <2>2
<1> QED  BY <1>1, InitReportInv, PTL DEF Spec

\* The report passes only on captures that name one op at most, the operator's own
\* kernel where its name is known: for every suite, mode and number of errors.
THEOREM PassedMeansProfiled == Spec => []PassedIsProfiled
<1>1. ReportInv => PassedIsProfiled
  <2> SUFFICES ASSUME ReportInv, status = "passed", mode = "msprof", NEW r \in Reported
               PROVE  /\ r.prof_mode = "msprof"
                      /\ r.described => /\ Cardinality(r.named) <= 1
                                        /\ r.filter # "none" => r.captured = {"own"}
    BY DEF PassedIsProfiled
  <2>1. r.prof_mode = "msprof" /\ Valid(r) /\ Honest(r)
    BY DEF ReportInv, Judged, Recorded, Reported, FellBack
  <2> QED  BY <2>1 DEF Honest, Describes, Valid, Sound
<1> QED  BY <1>1, ReportInductive, PTL
-----------------------------------------------------------------------------
InTest == Busy \cup {"record"}

\* What may stay although captures go to the user's directory or are not kept.
Excused == IF keep THEN unprepared ELSE {}

Freed ==
    redirected \/ ~keep =>
        /\ pc \in {"correctness", "session"} => temp \subseteq Excused
        /\ pc \in Busy => temp \subseteq Excused \cup {at}
        /\ pc = "record" => \/ temp \subseteq Excused
                            \/ ~keep /\ out = Temp(at) /\ temp \subseteq {at}
        /\ pc \in {"analyze", "write", "done", "raised"} /\ bench_code # 124 =>
              temp \subseteq Excused

HoldsOwn(r, dirs) ==
    r.artifact # NoDir => /\ r.artifact \in {Temp(r.test), Kept(r.test)} \cap DOMAIN dirs
                          /\ dirs[r.artifact] = r.test

Stored ==
    /\ DOMAIN store = Dirs
    /\ pc \in InTest => at \notin todo
    /\ pc \in Busy => out = NoDir
    /\ \A i \in DOMAIN records : /\ records[i].test \notin todo
                                 /\ pc \in InTest => records[i].test # at
    /\ ~redirected => \A i \in DOMAIN records : HoldsOwn(records[i], store)
    /\ ~redirected /\ pc = "record" /\ out # NoDir =>
          out \in {Temp(at), Kept(at)} /\ store[out] = at

Existing ==
    /\ pc \in Busy => at \in temp
    /\ pc = "record" /\ out = Temp(at) => ~redirected /\ (keep => at \in temp)
    /\ \A i \in DOMAIN records :
          records[i].artifact = Temp(records[i].test) => keep /\ records[i].test \in temp

Places == {"correctness", "session", "prepare", "attempt", "persist", "record", "analyze",
           "write", "done", "raised"}

DiskInv == pc \in Places /\ Freed /\ Stored /\ Existing

\* Two tests never have a directory in common.
LEMMA DirsApart ==
    ASSUME NEW i, NEW j, i # j
    PROVE  {Temp(i), Kept(i)} \cap {Temp(j), Kept(j)} = {}
BY DEF Temp, Kept

\* A test that writes one of its own directories leaves the earlier records alone.
LEMMA OthersHoldOwn ==
    ASSUME NEW dirs, NEW r, HoldsOwn(r, dirs), NEW i, r.test # i,
           NEW dir \in {Temp(i), Kept(i)}, NEW v
    PROVE  HoldsOwn(r, [dirs EXCEPT ![dir] = v])
<1>1. r.artifact # NoDir => r.artifact # dir
  BY Zenon, DirsApart DEF HoldsOwn
<1> QED  BY <1>1 DEF HoldsOwn

\* Steps between two tests, and the runner's own: no directory is written.
LEMMA BetweenTests ==
    ASSUME ReportInv, DiskInv, UNCHANGED setting,
           Correctness \/ TestFails \/ SessionFinish \/ StageTimeout \/ Analyze \/ Publish
    PROVE  DiskInv'
<1> USE DEF DiskInv, setting, Busy
<1>1. UNCHANGED <<unprepared, temp, store, records, out>>
  BY DEF Correctness, TestFails, SessionFinish, StageTimeout, Analyze, Publish, test, disk, session
<1>2. pc' \in Places /\ pc' \notin InTest
  BY DEF Correctness, TestFails, SessionFinish, StageTimeout, Analyze, Publish, Places, InTest
<1>3. Freed'
  BY <1>1 DEF Freed, Excused, Places, Correctness, TestFails, SessionFinish, StageTimeout, Analyze,
              Publish, session
<1>4. todo' \subseteq todo
  BY DEF Correctness, TestFails, SessionFinish, StageTimeout, Analyze, Publish, session, NextTest
<1>5. Stored'
  <2>1. DOMAIN store' = Dirs'
    BY <1>1 DEF Stored, Dirs, Indices, Temp, Kept
  <2>2. ~redirected => \A i \in DOMAIN records' : HoldsOwn(records'[i], store')
    BY <1>1 DEF Stored, HoldsOwn
  <2>3. \A i \in DOMAIN records' : records'[i].test \notin todo'
    BY <1>1, <1>4 DEF Stored
  <2> QED  BY <1>2, <2>1, <2>2, <2>3 DEF Stored, InTest
<1>6. Existing'
  BY <1>1, <1>2 DEF Existing, InTest
<1> QED  BY <1>2, <1>3, <1>5, <1>6

\* A test takes a workspace of its own.
LEMMA ProfileDisk ==
    ASSUME ReportInv, DiskInv, UNCHANGED setting, Profile
    PROVE  DiskInv'
<1> USE DEF DiskInv, setting, Busy
<1>1. /\ pc = "session" /\ UNCHANGED <<unprepared, store, records>> /\ out' = NoDir
      /\ at' \in todo /\ todo' = todo \ {at'}
      /\ \/ pc' = "prepare" /\ temp' = temp \cup {at'}
         \/ pc' = "record" /\ temp' = temp
  BY DEF Profile, NextTest
<1>2. Freed'
  BY <1>1 DEF Freed, Excused
<1>3. Stored'
  <2>1. DOMAIN store' = Dirs'
    BY <1>1 DEF Stored, Dirs, Indices, Temp, Kept
  <2>2. ~redirected => \A i \in DOMAIN records' : HoldsOwn(records'[i], store')
    BY <1>1 DEF Stored, HoldsOwn
  <2> QED  BY <1>1, <2>1, <2>2 DEF Stored
<1>4. Existing'
  BY <1>1 DEF Existing, Temp, NoDir
<1> QED  BY <1>1, <1>2, <1>3, <1>4 DEF Places

\* Up to a capture a test writes into its own workspace only, and an exception
\* gives it back, or is one of those that leave it.
LEMMA AttemptDisk ==
    ASSUME ReportInv, DiskInv, UNCHANGED setting,
           Prepare \/ PrepareRaises \/ Attempt \/ FallBack \/ MsprofRaises \/ PersistRaises
    PROVE  DiskInv'
<1> USE DEF DiskInv, setting, Busy
<1>1. /\ pc \in Busy /\ UNCHANGED <<at, todo, records, out>> /\ out = NoDir
      /\ at \in Indices /\ at \notin todo
  BY Zenon DEF Prepare, PrepareRaises, Attempt, FallBack, MsprofRaises, PersistRaises, test, session,
               ReportInv, Typed, Stored, InTest
<1>2. store' = store \/ \E v : store' = [store EXCEPT ![Target] = v]
  BY Zenon DEF Prepare, PrepareRaises, Attempt, FallBack, MsprofRaises, PersistRaises, disk
<1>3. \/ pc' \in Busy /\ UNCHANGED <<temp, unprepared>>
      \/ /\ pc' \in {"record", "session"} /\ unprepared \subseteq unprepared'
         /\ temp' = temp \/ temp' = temp \ {at}
         /\ redirected \/ ~keep => temp' = temp \ {at} \/ (keep /\ at \in unprepared')
  BY SMTT(20) DEF Prepare, PrepareRaises, Attempt, FallBack, MsprofRaises, PersistRaises, Escapes, disk,
                  AfterMsprof
<1>4. Freed'
  BY <1>1, <1>3 DEF Freed, Excused
<1>5. \A i \in DOMAIN records : records[i].test # at
  BY <1>1 DEF Stored, InTest
<1>6. Stored'
  <2>1. DOMAIN store' = Dirs'
    BY <1>2 DEF Stored, Dirs, Indices, Temp, Kept
  <2>2. ASSUME ~redirected PROVE \A i \in DOMAIN records' : HoldsOwn(records'[i], store')
    <3>1. CASE store' = store
      BY <1>1, <2>2, <3>1 DEF Stored, HoldsOwn
    <3>2. CASE \E v : store' = [store EXCEPT ![Target] = v]
      <4>1. Target \in {Temp(at), Kept(at)}
        BY <2>2 DEF Target
      <4>2. PICK v : store' = [store EXCEPT ![Target] = v]
        BY Zenon, <3>2
      <4>3. \A i \in DOMAIN records : HoldsOwn(records[i], store) /\ records[i].test # at
        BY <1>5, <2>2 DEF Stored
      <4>4. \A i \in DOMAIN records : HoldsOwn(records[i], [store EXCEPT ![Target] = v])
        BY <4>1, <4>3, OthersHoldOwn
      <4> QED  BY Zenon, <1>1, <4>2, <4>4
    <3> QED  BY <1>2, <3>1, <3>2
  <2> QED  BY <1>1, <1>5, <2>1, <2>2 DEF Stored
<1>7. Existing'
  BY <1>1, <1>3, <1>5 DEF Existing, Temp, NoDir
<1> QED  BY <1>3, <1>4, <1>6, <1>7 DEF Places

\* The capture is put where no other test writes; the workspace stays only if the
\* record that follows removes it.
LEMMA PersistDisk ==
    ASSUME ReportInv, DiskInv, UNCHANGED setting, Persist
    PROVE  DiskInv'
<1> USE DEF DiskInv, setting, Busy
<1>1. /\ pc = "persist" /\ pc' = "record" /\ UNCHANGED <<at, todo, records, unprepared>>
      /\ at \in Indices /\ at \notin todo
  BY DEF Persist, session, ReportInv, Typed, Stored, InTest
<1>2. PICK copied \in BOOLEAN :
        /\ copied => keep /\ ~redirected
        /\ out' = IF copied THEN Kept(at) ELSE Target
        /\ store' = [store EXCEPT ![out'] = at]
        /\ AfterMsprof(redirected, TRUE, copied)
  BY Zenon DEF Persist
<1>3. Freed'
  <2>1. ~redirected /\ ~copied => out' = Temp(at)
    BY <1>2 DEF Target
  <2>2. redirected => temp' = temp \ {at}
    BY <1>2 DEF AfterMsprof
  <2>3. temp' \subseteq temp
    BY <1>2 DEF AfterMsprof
  <2> QED  BY <1>1, <1>2, <2>1, <2>2, <2>3 DEF Freed, Excused, Temp
<1>4. Stored'
  <2>1. DOMAIN store' = Dirs'
    BY <1>2 DEF Stored, Dirs, Indices, Temp, Kept
  <2>2. ASSUME ~redirected PROVE out' \in {Temp(at), Kept(at)} /\ store'[out'] = at
    <3>1. out' \in {Temp(at), Kept(at)}
      BY <1>2, <2>2 DEF Target
    <3>2. out' \in DOMAIN store
      BY <1>1, <3>1, TestDirs DEF Stored
    <3> QED  BY <1>2, <3>1, <3>2
  <2>3. ASSUME ~redirected PROVE \A i \in DOMAIN records : HoldsOwn(records[i], store')
    <3>1. \A i \in DOMAIN records : HoldsOwn(records[i], store) /\ records[i].test # at
      BY <1>1, <2>3 DEF Stored, InTest
    <3>2. \A i \in DOMAIN records : HoldsOwn(records[i], [store EXCEPT ![out'] = at])
      <4> DEFINE dir == out'
      <4>1. dir \in {Temp(at), Kept(at)}
        BY <2>2, <2>3
      <4> HIDE DEF dir
      <4>2. \A i \in DOMAIN records : HoldsOwn(records[i], [store EXCEPT ![dir] = at])
        BY Zenon, <3>1, <4>1, OthersHoldOwn
      <4> QED  BY Zenon, <4>2 DEF dir
    <3> QED  BY Zenon, <1>2, <3>2
  <2> QED  BY <1>1, <2>1, <2>2, <2>3 DEF Stored, InTest, Temp, Kept
<1>5. Existing'
  <2>1. out' = Temp(at) => ~redirected /\ ~copied
    BY <1>2 DEF Target, Temp, Kept, User
  <2>2. \A i \in DOMAIN records : records[i].test # at
    BY <1>1 DEF Stored, InTest
  <2>3. /\ temp' = temp \/ temp' = temp \ {at}
        /\ ~redirected /\ ~copied => temp' = temp
    BY <1>2 DEF AfterMsprof
  <2> QED  BY <1>1, <2>1, <2>2, <2>3 DEF Existing
<1> QED  BY <1>1, <1>3, <1>4, <1>5 DEF Places

\* The record names the directory its test wrote, if that is to stay; a test that
\* raises after it was profiled cleans up alike.
LEMMA RecordDisk ==
    ASSUME ReportInv, DiskInv, UNCHANGED setting, Record \/ RecordRaises
    PROVE  DiskInv'
<1> USE DEF DiskInv, setting, Busy
<1>1. /\ pc = "record" /\ pc' = "session" /\ UNCHANGED <<at, todo, out, store, unprepared>>
      /\ at \in Indices /\ at \notin todo /\ temp' = Cleanup
  BY Zenon DEF Record, RecordRaises, test, ReportInv, Typed, Stored, InTest
<1>2. PICK r : /\ records' = records \/ records' = Append(records, r)
               /\ r.test = at
               /\ r.artifact = IF out # NoDir /\ (keep \/ redirected) THEN out ELSE NoDir
  <2>1. CASE Record
    BY <2>1 DEF Record
  <2>2. CASE RecordRaises
    <3>1. WITNESS [test |-> at, artifact |-> IF out # NoDir /\ (keep \/ redirected) THEN out ELSE NoDir]
    <3> QED  BY <2>2 DEF RecordRaises
  <2> QED  BY <2>1, <2>2
<1>3. \A i \in DOMAIN records' : (i \in DOMAIN records /\ records'[i] = records[i])
                                 \/ records'[i] = r
  BY <1>2, AppendRecord DEF ReportInv, Typed
<1>4. Freed'
  BY <1>1 DEF Freed, Excused, Cleanup
<1>5. ~redirected => HoldsOwn(r, store)
  BY <1>1, <1>2, TestDirs DEF Stored, HoldsOwn
<1>6. Stored'
  <2>1. DOMAIN store' = Dirs'
    BY <1>1 DEF Stored, Dirs, Indices, Temp, Kept
  <2>2. \A i \in DOMAIN records' : records'[i].test \notin todo'
    BY <1>1, <1>2, <1>3 DEF Stored
  <2>3. ~redirected => \A i \in DOMAIN records' : HoldsOwn(records'[i], store')
    BY <1>1, <1>3, <1>5 DEF Stored
  <2> QED  BY <1>1, <2>1, <2>2, <2>3 DEF Stored, InTest
<1>7. Existing'
  <2>1. keep => temp' = temp
    BY <1>1 DEF Cleanup
  <2>2. r.artifact = Temp(r.test) => keep /\ r.test \in temp
    BY <1>1, <1>2 DEF Existing, Temp, NoDir
  <2> QED  BY <1>1, <1>3, <2>1, <2>2 DEF Existing
<1> QED  BY <1>1, <1>4, <1>6, <1>7 DEF Places

\* The invariant of the profiler's directories holds throughout, for every suite of
\* tests and any number of errors.
THEOREM DiskInductive == Spec => []DiskInv
<1>1. Init => DiskInv
  BY DEF Init, DiskInv, Places, Freed, Stored, InTest, Existing, Busy
<1>2. ReportInv /\ DiskInv /\ [Next]_vars => DiskInv'
  <2>1. ASSUME ReportInv, DiskInv, Next PROVE DiskInv'
    BY <2>1, BetweenTests, ProfileDisk, AttemptDisk, PersistDisk, RecordDisk DEF Next, Progress
  <2>2. ASSUME DiskInv, UNCHANGED vars PROVE DiskInv'
    BY <2>2 DEF vars, setting, test, disk, session, verdict, DiskInv, Freed, Excused, Stored,
                Existing, Busy, HoldsOwn, Dirs, Indices, Temp, Kept
  <2> QED  BY <2>1, <2>2
<1> QED  BY <1>1, <1>2, ReportInductive, PTL DEF Spec

\* Whichever way msprof ended, a workspace that was not to be kept is gone when its
\* test is over, and with the user's directory set every one whose test got as far
\* as reading that: for every suite and number of errors.
THEOREM NoWorkspaceLeft == Spec => []WorkspacesFreed
<1>1. DiskInv => WorkspacesFreed
  BY DEF DiskInv, Freed, Excused, WorkspacesFreed
<1> QED  BY <1>1, DiskInductive, PTL

\* No later test overwrites or removes the capture a record points to, unless all
\* of them were redirected to one directory.
THEOREM CapturesStay == Spec => []ArtifactsRetained
<1>1. DiskInv => ArtifactsRetained
  BY DEF DiskInv, Stored, Existing, HoldsOwn, ArtifactsRetained, Retained
<1> QED  BY <1>1, DiskInductive, PTL
=============================================================================
