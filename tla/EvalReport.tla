----------------------------- MODULE EvalReport -----------------------------
(***************************************************************************)
(* The evaluation pipeline of TileOPs: tileops-report runs the correctness  *)
(* tests, then (only if they pass) a benchmark session, and condenses both  *)
(* into one verdict (reporting/runner.py, collector.py, analyzer.py).  A    *)
(* benchmark session may also be started by hand.  Each of its tests        *)
(* profiles one operator with `msprof op`, retrying without the kernel      *)
(* filter and falling back to device events (benchmark/benchmark_base.py,   *)
(* benchmark/msprof.py).                                                    *)
(*                                                                         *)
(* External: pytest, msprof, the file system.                               *)
(***************************************************************************)
EXTENDS Naturals, Sequences, FiniteSets

CONSTANTS
    Suites,     \* benchmark suites, sequences of tests: the case a test records,
                \* and whether it is a smoke test by its marker or by that case's label
    MaxFaults   \* bound on the errors of one session

VARIABLES
    \* TILEOPS_PROF_MODE, TILEOPS_MSPROF_KEEP_OUTPUT = "1", whether
    \* TILEOPS_MSPROF_OUTPUT_DIR is set, and whether the runner drives the session.
    mode, keep, redirected, reporting,
    Tests,          \* the suite that is run
    pc,
    correctness,    \* exit code and JUnit status of the correctness tests
    todo,           \* the tests of the session still to run
    at,             \* the test that is running
    kernel_name,    \* its kernel filter, "none" if no name could be resolved
    candidates,     \* filters still to be tried
    capture, named, \* the ops msprof captured for it, and those its CSV files name
    out,            \* prof_output_dir
    described,      \* history: the metadata in it is this test's
    unprepared,     \* history: tests that raised before user_output was read
    temp,           \* tests whose temporary workspace exists
    store,          \* directory -> the test whose capture it holds
    metadata,       \* directory -> its tileops_msprof_metadata.json
    records,        \* BenchmarkReport._records
    failures,       \* failed and broken tests of the session
    json,           \* benchmark.json: "missing", "torn" or "present"
    bench_code,     \* exit code of the benchmark session
    status, latest, \* the verdict; the run latest.json points to
    faults

setting == <<mode, keep, redirected, reporting, Tests>>
test    == <<at, kernel_name, candidates, capture, named, out, described>>
disk    == <<unprepared, temp, store, metadata>>
session == <<todo, records, failures, json, bench_code>>
verdict == <<correctness, status, latest>>
vars    == <<setting, pc, test, disk, session, verdict, faults>>

ASSUME ReportAssumption ==
    /\ MaxFaults \in Nat
    /\ Suites \subseteq Seq([case : STRING, marked : BOOLEAN, labelled : BOOLEAN])

Indices == DOMAIN Tests
User    == <<"user", 0>>
Temp(i) == <<"temp", i>>
Fixed(i) == <<"kept", 0>>       \* mutant: named after the kernel only
Kept(i) == <<"kept", i>>        \* tempfile.mkdtemp: a name nobody else has
Dirs    == {User} \cup {Temp(i) : i \in Indices} \cup {Kept(i) : i \in Indices} \cup {Fixed(0)}
NoDir   == <<"none", 0>>
NoMeta  == [requested |-> "none", resolved |-> "none", count |-> 0]
Ops     == {"own", "auxiliary"}

\* _exclude_smoke: the runner deselects tests that carry the smoke marker.
Selected == {i \in Indices : ~(reporting /\ Tests[i].marked)}

Init ==
    /\ mode \in {"msprof", "events"} /\ redirected \in BOOLEAN /\ reporting \in BOOLEAN
    /\ keep \in BOOLEAN /\ (reporting => keep)
    /\ Tests \in Suites
    /\ pc = IF reporting THEN "correctness" ELSE "session"
    /\ correctness = [code |-> 0, status |-> "missing"]
    /\ todo = Selected
    /\ at = 0 /\ kernel_name = "none" /\ candidates = <<>> /\ capture = {} /\ named = {}
    /\ out = NoDir /\ described = FALSE
    /\ unprepared = {} /\ temp = {} /\ store = [d \in Dirs |-> 0] /\ metadata = [d \in Dirs |-> NoMeta]
    /\ records = <<>> /\ failures = 0 /\ json = "missing" /\ bench_code = 0
    /\ status = "none" /\ latest = "older" /\ faults = 0

-----------------------------------------------------------------------------
\* _run_pytest and parse_junit_report: all passed or skipped, some failed, no
\* test selected (exit code 5), or killed by the timeout before the JUnit file.
Correctness ==
    /\ pc = "correctness"
    /\ correctness' \in {[code |-> 0, status |-> "passed"], [code |-> 1, status |-> "failed"],
                         [code |-> 5, status |-> "passed"], [code |-> 124, status |-> "missing"]}
    /\ pc' = IF correctness'.code = 0 /\ correctness'.status = "passed"
             THEN "session" ELSE "analyze"
    /\ UNCHANGED <<test, disk, session, status, latest, faults>>

\* pytest goes on with the next test.
NextTest == /\ at' \in todo /\ \A i \in todo : at' <= i
            /\ todo' = todo \ {at'}

\* _bench_with_mode and bench_kernel_msprof up to the temporary workspace.  The
\* functor is a closure (TypeError) or msprof is not installed (RuntimeError):
\* events at once.
Profile ==
    /\ pc = "session" /\ NextTest
    /\ capture' = {} /\ named' = {} /\ out' = NoDir /\ described' = FALSE
    /\ \/ /\ mode = "msprof"
          /\ kernel_name' \in {"name", "none"}
          /\ candidates' = IF kernel_name' = "none" THEN <<"none">> ELSE <<kernel_name', "none">>
          /\ temp' = temp \cup {at'}
          /\ pc' = "prepare"
       \/ /\ kernel_name' = "none" /\ candidates' = <<>>
          /\ pc' = "record"
          /\ UNCHANGED temp
    /\ UNCHANGED <<unprepared, store, metadata, records, failures, json, bench_code, verdict, faults>>

\* A test may also fail before it has profiled anything.
TestFails ==
    /\ pc = "session" /\ NextTest
    /\ failures' = failures + 1
    /\ UNCHANGED <<pc, kernel_name, candidates, capture, named, out, described, disk, records, json,
                   bench_code, verdict, faults>>

\* The finally clause: the workspace goes if nothing in it is needed any more.
AfterMsprof(user_output, success, copied) ==
    temp' = IF user_output \/ copied \/ (~keep /\ ~success) THEN temp \ {at} ELSE temp

Fault == faults < MaxFaults /\ faults' = faults + 1

\* An exception leaves bench_kernel_msprof.  _bench_with_mode times the functor
\* with events after a TypeError, a RuntimeError or a FileNotFoundError; any other
\* one fails the test.
Escapes ==
    /\ Fault
    /\ \/ pc' = "record" /\ UNCHANGED failures
       \/ pc' = "session" /\ failures' = failures + 1

\* The inputs are saved, the script is written, the output directory is made.
Prepare ==
    /\ pc = "prepare"
    /\ pc' = "attempt"
    /\ UNCHANGED <<test, disk, session, verdict, faults>>

\* One of these raises, the finally clause knowing the user's directory only if
\* the inputs and the script were written.
PrepareRaises ==
    /\ pc = "prepare" /\ Escapes
    /\ \/ /\ AfterMsprof(FALSE, FALSE, FALSE)
          /\ unprepared' = unprepared \cup {at}
       \/ /\ AfterMsprof(redirected, FALSE, FALSE)
          /\ UNCHANGED unprepared
    /\ UNCHANGED <<test, store, metadata, todo, records, json, bench_code, verdict>>

\* What one msprof process may capture: nothing (it failed, or the filter
\* matches no kernel), the kernel, or without a filter whatever is launched.
Captures(filter) == IF filter = "none" THEN SUBSET Ops ELSE {{}, {"own"}}

Target == IF redirected THEN User ELSE Temp(at)

\* One pass of the loop: the output directory is cleaned, msprof is run, its
\* CSV files are parsed.  A row may have a duration and no Op Name.
Attempt ==
    /\ pc = "attempt" /\ candidates # <<>> /\ capture = {}
    /\ capture' \in Captures(Head(candidates)) /\ named' \in SUBSET capture'
    /\ store' = [store EXCEPT ![Target] = IF capture' = {} THEN 0 ELSE at]
    /\ candidates' = IF capture' = {} THEN Tail(candidates) ELSE candidates
    /\ pc' = IF capture' = {} THEN "attempt" ELSE "persist"
    /\ UNCHANGED <<at, kernel_name, out, described, unprepared, temp, metadata, session, verdict,
                   faults>>

\* No candidate produced data: RuntimeError, caught by _bench_with_mode.
FallBack ==
    /\ pc = "attempt" /\ candidates = <<>>
    /\ AfterMsprof(redirected, FALSE, FALSE)
    /\ pc' = "record"
    /\ UNCHANGED <<test, unprepared, store, metadata, session, verdict, faults>>

\* msprof exceeds its 600 seconds (TimeoutExpired, which passes every handler), or
\* cannot be run, or its files cannot be read.
MsprofRaises ==
    /\ pc = "attempt" /\ candidates # <<>> /\ Escapes
    /\ AfterMsprof(redirected, FALSE, FALSE)
    /\ store' = [store EXCEPT ![Target] = 0]
    /\ UNCHANGED <<test, unprepared, metadata, todo, records, json, bench_code, verdict>>

\* The capture is copied to a directory of its own if it is to be kept, and
\* described beside it; a failing copy or description is only logged.
Persist ==
    /\ pc = "persist"
    /\ described' \in BOOLEAN
    /\ \E copied \in BOOLEAN :
         LET wanted == keep /\ ~redirected
             dir == IF copied THEN Kept(at) ELSE Target
             lost == (IF wanted /\ ~copied THEN 1 ELSE 0) + (IF described' THEN 0 ELSE 1)
         IN  /\ copied => wanted
             /\ faults + lost <= MaxFaults /\ faults' = faults + lost
             /\ out' = dir
             /\ store' = [store EXCEPT ![dir] = at]
             /\ metadata' = IF described'
                            THEN [metadata EXCEPT ![dir] = [requested |-> kernel_name,
                                                            resolved |-> Head(candidates),
                                                            count |-> Cardinality(named)]]
                            ELSE metadata
             /\ AfterMsprof(redirected, TRUE, copied)
    /\ pc' = "record"
    /\ UNCHANGED <<at, kernel_name, candidates, capture, named, unprepared, session, verdict>>

\* The directory to copy to cannot be made: this is not only logged.
PersistRaises ==
    /\ pc = "persist" /\ keep /\ ~redirected /\ Escapes
    /\ AfterMsprof(redirected, FALSE, FALSE)
    /\ UNCHANGED <<test, unprepared, store, metadata, todo, records, json, bench_code, verdict>>

NoCleanup == temp      \* mutant

\* _cleanup_msprof_output
Cleanup == IF ~keep /\ out = Temp(at) THEN temp \ {at} ELSE temp

\* The rest of BenchmarkBase.profile, BenchmarkReport.record, and the outcome
\* of the test; the record notes (for the properties) what was captured.
Record ==
    /\ pc = "record"
    /\ temp' = Cleanup
    /\ LET kept == out # NoDir /\ (keep \/ redirected)
       IN  records' = Append(records,
             [test |-> at, case |-> Tests[at].case, labelled |-> Tests[at].labelled,
              prof_mode |-> IF out = NoDir THEN "events" ELSE "msprof",
              artifact |-> IF kept THEN out ELSE NoDir,
              msprof |-> IF kept THEN metadata[out] ELSE NoMeta,
              filter |-> kernel_name, captured |-> capture, named |-> named,
              described |-> described])
    /\ failures' \in {failures, failures + 1}
    /\ pc' = "session"
    /\ UNCHANGED <<test, unprepared, store, metadata, todo, json, bench_code, verdict, faults>>

\* The timing with events or _build_result raises: no record, the same cleanup.
RecordRaises ==
    /\ pc = "record" /\ Fault
    /\ temp' = Cleanup
    /\ failures' = failures + 1
    /\ pc' = "session"
    /\ UNCHANGED <<test, unprepared, store, metadata, todo, records, json, bench_code, verdict>>

\* pytest_sessionfinish: BenchmarkReport.dump, if there are records.
SessionFinish ==
    /\ pc = "session" /\ todo = {}
    /\ json' = IF records = <<>> THEN "missing" ELSE "present"
    /\ bench_code' = IF at = 0 THEN 5 ELSE IF failures > 0 THEN 1 ELSE 0
    /\ pc' = IF reporting THEN "analyze" ELSE "done"
    /\ UNCHANGED <<test, disk, todo, records, failures, verdict, faults>>

\* The stage timeout kills the session, perhaps while it writes benchmark.json.
StageTimeout ==
    /\ reporting /\ pc \in {"session", "prepare", "attempt", "persist", "record"}
    /\ json' \in {"missing"} \cup IF todo = {} /\ pc = "session" /\ records # <<>>
                                  THEN {"torn", "present"} ELSE {}
    /\ bench_code' = 124
    /\ pc' = "analyze"
    /\ UNCHANGED <<test, disk, todo, records, failures, verdict, faults>>

-----------------------------------------------------------------------------
AnyCount(r) ==      \* mutant: the number of captured ops is not looked at
    r.prof_mode # "msprof" \/ r.msprof.requested = "none" \/ r.msprof.resolved # "none"

\* _profile_validity
Valid(r) ==
    r.prof_mode = "msprof" =>
        /\ r.msprof.requested # "none" => r.msprof.resolved # "none"
        /\ r.msprof.count <= 1

\* _analyze_performance: one case per group of records, the group's first,
\* unless the group has a smoke record.
Reported ==
    LET loaded == IF json = "present" THEN records ELSE <<>>
    IN  {loaded[i] : i \in {i \in DOMAIN loaded :
            /\ \A j \in DOMAIN loaded : loaded[j].case = loaded[i].case => ~loaded[j].labelled
            /\ \A j \in 1..(i - 1) : loaded[j].case # loaded[i].case}}

FellBack(r) == mode = "msprof" /\ r.prof_mode # "msprof"

correctness_passed == correctness.code = 0 /\ correctness.status = "passed"

benchmark_passed ==
    /\ bench_code = 0 /\ json = "present" /\ failures = 0
    /\ Reported # {}
    /\ \A r \in Reported : ~FellBack(r) /\ Valid(r)

\* analyze_run; a torn benchmark.json raises in json.load before it.
Analyze ==
    /\ pc = "analyze"
    /\ IF json = "torn"
       THEN pc' = "raised" /\ UNCHANGED status
       ELSE /\ status' = IF ~correctness_passed THEN "failed"
                         ELSE IF benchmark_passed THEN "passed" ELSE "partial"
            /\ pc' = "write"
    /\ UNCHANGED <<test, disk, session, correctness, latest, faults>>

\* write_reports, then latest.json.
Publish ==
    /\ pc = "write"
    /\ latest' = "this"
    /\ pc' = "done"
    /\ UNCHANGED <<test, disk, session, correctness, status, faults>>

-----------------------------------------------------------------------------
Progress == \/ Correctness \/ Profile \/ TestFails \/ Prepare \/ PrepareRaises
            \/ Attempt \/ FallBack \/ MsprofRaises \/ Persist \/ PersistRaises
            \/ Record \/ RecordRaises \/ SessionFinish \/ StageTimeout \/ Analyze \/ Publish

Next == Progress /\ UNCHANGED setting

Spec == Init /\ [][Next]_vars

-----------------------------------------------------------------------------
\* A report that says "passed" in msprof mode has no fallback to events in it and
\* rests on captures that name one op at most, and that are of the operator's own
\* kernel wherever its name was known, although msprof is run again without the
\* filter when the filter matches nothing.  (Where the description could not be
\* written, what an earlier capture left in the directory is judged instead.)
PassedIsProfiled ==
    status = "passed" /\ mode = "msprof" =>
        \A r \in Reported :
            /\ r.prof_mode = "msprof"
            /\ r.described => /\ Cardinality(r.named) <= 1
                              /\ r.filter # "none" => r.captured = {"own"}

\* No workspace stays in the temporary directory once its test is over, whichever
\* way msprof ended, if nothing is to be kept; and if captures are kept in the
\* user's directory, only one whose test raised before that directory was read.
WorkspacesFreed ==
    pc \in {"session", "done"} /\ bench_code # 124 =>
        /\ ~keep => temp = {}
        /\ redirected => temp \subseteq unprepared

\* The directory a record names still exists and holds the capture of that record,
\* however many tests of the same operator ran after it.
Retained ==
    \A i \in DOMAIN records :
        LET r == records[i] IN
        r.artifact # NoDir => /\ store[r.artifact] = r.test
                              /\ r.artifact = Temp(r.test) => r.test \in temp
ArtifactsRetained == ~redirected => Retained
=============================================================================
