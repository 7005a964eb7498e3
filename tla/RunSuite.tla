------------------------------ MODULE RunSuite ------------------------------
(***************************************************************************)
(* Options.Run (pkg/test/ginkgo/cmd_runsuite.go): the smoke queue, then the*)
(* queue of the other tests, the summary, the retries that tell flakes from*)
(* failures, the JUnit report (junit.go) and the error the command returns,*)
(* with the signal handler running beside it.                              *)
(*                                                                         *)
(* A queue is taken by its contract: StartTest and QueueDone are what      *)
(* TestSchedule lets Execute do with the tests of the phase, and that the  *)
(* code does no more is shown of TestQueue, not here.  One execution of a  *)
(* test is a start and an end with a verdict (TestRun opens it up).  With  *)
(* Count > 1 the list of tests holds the same *testCase several times: the *)
(* result flags belong to the object, not to the execution.                *)
(***************************************************************************)
EXTENDS Naturals, FiniteSets

CONSTANTS Tests,                 \* the tests the suite matches
          Smoke,                 \* those with "[Smoke]" in their name
          Serial,                \* those with "[Serial]" in their name
          Exclusion,             \* testExclusion of each test
          NoExclusion,
          Count,                 \* how often each test is run
          FlakeLimits            \* MaximumAllowedFlakes of the suites to choose from

ASSUME TestsAssumption == IsFiniteSet(Tests) /\ Tests # {} /\ Smoke \cup Serial \subseteq Tests
ASSUME NumbersAssumption == Count \in Nat \ {0} /\ FlakeLimits \subseteq Nat

\* The entries of the list of tests, and their possible retries.  An entry is
\* the use of a test at one position of the list.
Runs == {"run"} \X Tests \X (1 .. Count)
Retries == {"retry"} \X Tests \X (1 .. Count)
Entries == Runs \cup Retries

\* Seeded fault: a retry shares the flags of the test it repeats.
RetryAsSame(e) == <<"run", e[2], 1>>

\* The *testCase an entry points to: repetitions share one, testCase.Retry
\* allocates a new one without flags.
Object(e) == IF e \in Runs THEN <<"run", e[2], 1>> ELSE e

VARIABLES limit,      \* MaximumAllowedFlakes of the suite the command is to run
          phase,      \* how far Run has come
          status,     \* of each entry: pending, running or finished
          verdict,    \* how the child of each finished execution ended
          success, failed, skipped,   \* the flags, as sets of objects
          counts,     \* what summarizeTests returned: pass, fail, skip
          failing,    \* the list of failing tests, as entries
          synthetic,  \* the monitor saw errors: one synthetic JUnit failure
          junit,      \* counters of the JUnit report, once written
          ctxDone,    \* the context of the run is cancelled
          handler,    \* the signal handler goroutine
          result      \* how the command ends

vars == <<limit, phase, status, verdict, success, failed, skipped, counts, failing, synthetic,
          junit, ctxDone, handler, result>>
flags == <<success, failed, skipped>>
tests == <<status, verdict, flags>>
summary == <<counts, failing, synthetic>>

NoReport == [written |-> FALSE, tests |-> 0, skipped |-> 0, failures |-> 0, cases |-> 0]

Init == /\ limit \in FlakeLimits
        /\ phase = "setup"
        /\ status = [e \in Entries |-> "pending"]
        /\ verdict = [e \in Entries |-> "none"]
        /\ success = {} /\ failed = {} /\ skipped = {}
        /\ counts = [pass |-> 0, fail |-> 0, skip |-> 0]
        /\ failing = {}
        /\ synthetic = FALSE
        /\ junit = NoReport
        /\ ctxDone = FALSE
        /\ handler = "none"
        /\ result = "running"

\* Run's goroutine is at p, and the process is alive.
At(p) == phase = p /\ result = "running"

-----------------------------------------------------------------------------
(* Before the tests *)

\* No or an unknown suite, an invalid regular expression, no matching test, an
\* unusable --junit-dir, or a monitor that does not start.
SetupFails ==
  /\ At("setup")
  /\ result' = "error"
  /\ UNCHANGED <<limit, phase, tests, summary, junit, ctxDone, handler>>

\* --dry-run and --print-commands.
DryRun ==
  /\ At("setup")
  /\ result' = "dry"
  /\ UNCHANGED <<limit, phase, tests, summary, junit, ctxDone, handler>>

\* The handler listens, the monitor is started, the tests are split.
SetupDone ==
  /\ At("setup")
  /\ phase' = "smoke"
  /\ handler' = "first"
  /\ UNCHANGED <<limit, tests, summary, junit, ctxDone, result>>

-----------------------------------------------------------------------------
(* The queues *)

\* What splitTests makes of the list, and the testCase.Retry of an entry.
SmokeRuns == {e \in Runs : e[2] \in Smoke}
NormalRuns == Runs \ SmokeRuns
RetryOf(e) == <<"retry", e[2], e[3]>>

\* The tests handed to newParallelTestQueue in each phase.
Queue(p) == CASE p = "smoke"  -> SmokeRuns
              [] p = "normal" -> NormalRuns
              [] p = "retry"  -> {RetryOf(e) : e \in failing}
              [] OTHER        -> {}

IsSerial(e) == e[2] \in Serial
Running == {e \in Entries : status[e] = "running"}

\* Two entries may not run together (TestSchedule!Conflict).
Conflict(e, f) == \/ Exclusion[e[2]] = Exclusion[f[2]] /\ Exclusion[e[2]] # NoExclusion
                  \/ IsSerial(e)
                  \/ IsSerial(f)

\* Seeded fault: a serial test waits for every test of the queue, itself included.
StartTestAfterAll(e) ==
  /\ e \in Queue(phase) /\ result = "running"
  /\ status[e] = "pending"
  /\ \A f \in Running : ~Conflict(e, f)
  /\ IsSerial(e) => \A f \in Queue(phase) : status[f] = "finished"
  /\ status' = [status EXCEPT ![e] = "running"]
  /\ UNCHANGED <<limit, phase, verdict, flags, summary, junit, ctxDone, handler, result>>

\* The queue of the phase starts a test, under the guards of TestSchedule!Start.
StartTest(e) ==
  /\ e \in Queue(phase) /\ result = "running"
  /\ status[e] = "pending"
  /\ \A f \in Running : ~Conflict(e, f)
  /\ IsSerial(e) => \A f \in Queue(phase) : IsSerial(f) \/ status[f] = "finished"
  /\ status' = [status EXCEPT ![e] = "running"]
  /\ UNCHANGED <<limit, phase, verdict, flags, summary, junit, ctxDone, handler, result>>

\* An execution ends: testStatus.Run sets one flag of the object and leaves the
\* others alone.
FinishTest(e) ==
  /\ status[e] = "running" /\ result = "running"
  /\ status' = [status EXCEPT ![e] = "finished"]
  /\ \E v \in {"pass", "fail", "skip"} :
       /\ verdict' = [verdict EXCEPT ![e] = v]
       /\ success' = IF v = "pass" THEN success \cup {Object(e)} ELSE success
       /\ failed' = IF v = "fail" THEN failed \cup {Object(e)} ELSE failed
       /\ skipped' = IF v = "skip" THEN skipped \cup {Object(e)} ELSE skipped
  /\ UNCHANGED <<limit, phase, summary, junit, ctxDone, handler, result>>

\* Seeded fault: Execute does not wait for the tests it started.
QueueDoneEarly == ctxDone \/ \A e \in Queue(phase) : status[e] # "pending"

\* Execute has nothing left to do (TestSchedule!MayReturn).
QueueDone == /\ Running = {}
             /\ ctxDone \/ \A e \in Queue(phase) : status[e] = "finished"

\* q.Execute returns.  A cancelled run goes on through the next queues, whose
\* workers may still start tests before their closer empties them.
ExecuteReturns ==
  /\ phase \in {"smoke", "normal", "retry"} /\ result = "running"
  /\ QueueDone
  /\ phase' = CASE phase = "smoke" -> "normal"
                [] phase = "normal" -> "summarize"
                [] phase = "retry" -> "judge"
  /\ UNCHANGED <<limit, tests, summary, junit, ctxDone, handler, result>>

-----------------------------------------------------------------------------
(* Summary, retries, report *)

Flagged(f) == {e \in Runs : Object(e) \in f}

\* Seeded fault: skipped tests count as failing.
FailingWithSkips == Flagged(failed \cup skipped) \ Flagged(success)

\* The list positions summarizeTests counts as failures: a set success flag wins.
Failing == Flagged(failed) \ Flagged(success)

\* Seeded fault: any number of failures is retried by a suite that allows flakes.
RetryAllowedAny(n) == n > 0 /\ limit > 0

\* Failures are retried only if the suite tolerates that many.
RetryAllowed(n) == n > 0 /\ n <= limit

\* Seeded fault: skips are derived by subtracting the failures.
SummarizeBySubtraction ==
  /\ At("summarize")
  /\ failing' = Failing
  /\ counts' = [pass |-> Cardinality(Flagged(success)),
                fail |-> Cardinality(Failing),
                skip |-> Cardinality(Flagged(skipped)) - Cardinality(Failing)]
  /\ synthetic' \in BOOLEAN
  /\ phase' = IF RetryAllowed(Cardinality(Failing)) THEN "retry" ELSE "report"
  /\ UNCHANGED <<limit, tests, junit, ctxDone, handler, result>>

\* summarizeTests, the monitor's events, and the decision to retry.
Summarize ==
  /\ At("summarize")
  /\ failing' = Failing
  /\ counts' = [pass |-> Cardinality(Flagged(success)),
                fail |-> Cardinality(Failing),
                skip |-> Cardinality(Flagged(skipped) \ Flagged(success \cup failed))]
  /\ synthetic' \in BOOLEAN
  /\ phase' = IF RetryAllowed(Cardinality(Failing)) THEN "retry" ELSE "report"
  /\ UNCHANGED <<limit, tests, junit, ctxDone, handler, result>>

\* A retry that passed makes its test a flake; if there is one, the failing
\* tests are the retries that did not pass (named here by the test they repeat).
JudgeRetries ==
  /\ At("judge")
  /\ failing' = {e \in failing : RetryOf(e) \notin success}
  /\ phase' = "report"
  /\ UNCHANGED <<limit, tests, counts, synthetic, junit, ctxDone, handler, result>>

\* Seeded fault: failed tests are left out of the report.
JUnitCountsNoFailed ==
  [written |-> TRUE,
   tests |-> Cardinality(Flagged(skipped)),
   skipped |-> Cardinality(Flagged(skipped)),
   failures |-> Cardinality(Flagged(success) \ Flagged(skipped)),
   cases |-> Cardinality(Flagged(success \cup skipped))]

\* writeJUnitReport: skipped wins over failed, failed over success; the counters
\* move as they do in the switch over the flags.
JUnitCounts ==
  LET skip == Flagged(skipped)
      fail == Flagged(failed) \ skip
      pass == Flagged(success) \ (skip \cup fail)
      more == IF synthetic THEN 1 ELSE 0
  IN  [written |-> TRUE,
       tests |-> Cardinality(skip) + Cardinality(fail) + more,
       skipped |-> Cardinality(skip),
       failures |-> Cardinality(fail) + Cardinality(pass) + more,
       cases |-> Cardinality(skip) + Cardinality(fail) + Cardinality(pass) + more]

\* The report is written, or there is no --junit-dir, or writing it fails, which
\* is printed and otherwise ignored.
Report ==
  /\ At("report")
  /\ junit' \in {junit, JUnitCounts}
  /\ phase' = "return"
  /\ UNCHANGED <<limit, tests, summary, ctxDone, handler, result>>

\* Seeded fault: the cancellation is not reported.
ReturnIgnoresCancel ==
  /\ At("return")
  /\ phase' = "end"
  /\ result' = IF counts.fail > 0 /\ (failing # {} \/ limit = 0)
               THEN "error" ELSE "nil"
  /\ UNCHANGED <<limit, tests, summary, junit, ctxDone, handler>>

\* The error for failing tests, or else ctx.Err().
Return ==
  /\ At("return")
  /\ phase' = "end"
  /\ result' = IF counts.fail > 0 /\ (failing # {} \/ limit = 0) THEN "error"
               ELSE IF ctxDone THEN "interrupted" ELSE "nil"
  /\ UNCHANGED <<limit, tests, summary, junit, ctxDone, handler>>

-----------------------------------------------------------------------------
(* The signal handler *)

\* abortCh is unbuffered: a signal is delivered only while the handler receives,
\* one that arrives while it cancels is dropped.
FirstSignal ==
  /\ handler = "first" /\ result = "running"
  /\ handler' = "cancelling"
  /\ UNCHANGED <<limit, phase, tests, summary, junit, ctxDone, result>>

HandlerCancels ==
  /\ handler = "cancelling" /\ result = "running"
  /\ ctxDone' = TRUE
  /\ handler' = "second"
  /\ UNCHANGED <<limit, phase, tests, summary, junit, result>>

\* The second signal ends the process: 130 for SIGINT, 0 for SIGTERM.
SecondSignal ==
  /\ handler = "second" /\ result = "running"
  /\ result' \in {"exit130", "exit0"}
  /\ UNCHANGED <<limit, phase, tests, summary, junit, ctxDone, handler>>

Main == SetupFails \/ DryRun \/ SetupDone \/ ExecuteReturns \/ Summarize \/ JudgeRetries
          \/ Report \/ Return

Next == \/ Main
        \/ \E e \in Entries : StartTest(e) \/ FinishTest(e)
        \/ FirstSignal \/ HandlerCancels \/ SecondSignal

Spec == Init /\ [][Next]_vars

\* Run's own goroutine, the workers behind the queue and the handler make
\* progress; an execution ends unless the run was cancelled (TestRun's
\* UncancelledRunEnds); signals need not arrive.
FairSpec == /\ Spec
            /\ WF_vars(Main)
            /\ WF_vars(\E e \in Entries : StartTest(e))
            /\ \A e \in Entries : WF_vars(FinishTest(e) /\ ~ctxDone)
            /\ WF_vars(HandlerCancels)
-----------------------------------------------------------------------------
(* Properties *)

Phases == {"setup", "smoke", "normal", "summarize", "retry", "judge", "report", "return", "end"}
Results == {"running", "dry", "nil", "error", "interrupted", "exit0", "exit130"}

\* The variables have their types.
TypeOK ==
  /\ limit \in FlakeLimits
  /\ phase \in Phases
  /\ status \in [Entries -> {"pending", "running", "finished"}]
  /\ verdict \in [Entries -> {"none", "pass", "fail", "skip"}]
  /\ success \subseteq Entries /\ failed \subseteq Entries /\ skipped \subseteq Entries
  /\ counts \in [pass : Nat, fail : Nat, skip : Nat]
  /\ failing \subseteq Runs
  /\ synthetic \in BOOLEAN
  /\ junit \in [written : BOOLEAN, tests : Nat, skipped : Nat, failures : Nat, cases : Nat]
  /\ ctxDone \in BOOLEAN
  /\ handler \in {"none", "first", "cancelling", "second"}
  /\ result \in Results

FailedRuns == {e \in Runs : verdict[e] = "fail"}

\* When no test is repeated: the command succeeds only if every test was run to
\* its end and passed, was skipped, or failed and then passed its retry, with no
\* more failures than the suite tolerates.  A cancelled run never succeeds, also
\* when the signal comes during the retries or after the summary.
GreenIsEarned ==
  result = "nil" =>
    /\ \A e \in Runs : status[e] = "finished"
    /\ \A e \in FailedRuns : verdict[RetryOf(e)] = "pass"
    /\ Cardinality(FailedRuns) <= limit
    /\ ~ctxDone

\* When no test is repeated: tests make the command fail only if one of them
\* failed and was not redeemed by its retry, or too many of them failed.
RedIsEarned ==
  result = "error" /\ handler # "none" =>
    \/ Cardinality(FailedRuns) > limit
    \/ \E e \in FailedRuns : verdict[RetryOf(e)] # "pass"

\* No other test starts before the smoke tests have finished, unless the run is
\* cancelled; then Run walks on into the next queues.
SmokeFirst ==
  (\E e \in Runs : e[2] \notin Smoke /\ status[e] # "pending") =>
     ctxDone \/ \A e \in Runs : e[2] \in Smoke => status[e] = "finished"

\* When no test is repeated: the report holds one case for every test that was
\* run, however it ended, plus the monitor's.
ReportComplete ==
  junit.written => junit.cases = Cardinality({e \in Runs : status[e] = "finished"})
                                   + (IF synthetic THEN 1 ELSE 0)

\* The tests whose retry was started.
Retried == {e \in Runs : status[RetryOf(e)] # "pending"}

\* Retries are for flakes alone: one is started only when nothing of the list runs
\* any more and, unless the run is cancelled, all of it has finished; it repeats a
\* test that failed and passed in none of its repetitions; and there are no more
\* of them than the suite tolerates flakes, whatever the retries themselves do to
\* flags and counts.
RetriesEarned ==
  Retried # {} =>
    /\ \A e \in Runs : status[e] = "finished" \/ (ctxDone /\ status[e] = "pending")
    /\ \A e \in Retried : /\ \E f \in FailedRuns : f[2] = e[2]
                         /\ \A f \in Runs : f[2] = e[2] => verdict[f] # "pass"
    /\ Cardinality(Retried) <= limit

\* Run ends, whether or not a signal arrives and at whatever point it does, unless
\* some test ignores the cancellation for ever.
RunEnds == \/ <>(result # "running")
           \/ \E e \in Entries : <>[](ctxDone /\ status[e] = "running")

\* Repeating tests finds flakes (e2e.go on openshift/network/stress): a run in
\* which some execution failed and no flakes are tolerated does not succeed.
FlakesFound == result = "nil" /\ limit = 0 => FailedRuns = {}

=============================================================================
