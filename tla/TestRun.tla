------------------------------- MODULE TestRun -------------------------------
(***************************************************************************)
(* Executing tests in child processes: testStatus.Run (status.go),         *)
(* runWithTimeout with its watchdog goroutine (test.go) and the run-test   *)
(* command in the child (cmd_runtest.go).                                  *)
(*                                                                         *)
(* An execution x is one call of Run on the test object TestOf[x]: with    *)
(* --count the same object is run several times, possibly at once.  Time   *)
(* is abstracted to the order of events; the child may finish at any time  *)
(* or hang for ever, and the two timers fire at any time after they are    *)
(* set, before the process exists too: --timeout has no lower bound.  (A   *)
(* negative one starts no watchdog and promises nothing.)                  *)
(***************************************************************************)
EXTENDS Naturals, FiniteSets

CONSTANTS Executions,  \* calls of testStatus.Run
          Tests,       \* test objects (*testCase)
          TestOf       \* the object each execution runs

ASSUME ExecutionsAssumption == IsFiniteSet(Executions) /\ TestOf \in [Executions -> Tests]

VARIABLES run,        \* where each call of Run is
          dog,        \* its watchdog goroutine
          child,      \* its child process: none, running, or how it ended
          summary,    \* what ginkgo made of the spec in the child
          signals,    \* signals the watchdog sent to the child
          success, failed, skipped,   \* the flags, as sets of test objects
          failures,   \* testStatus.failures
          index,      \* testStatus.index
          ctxDone,    \* the context of the run is done
          early       \* history: executions whose timeout fired before they had a process

vars == <<run, dog, child, summary, signals, success, failed, skipped, failures, index, ctxDone, early>>
flags == <<success, failed, skipped>>

\* What MinimalReporter may hold when ginkgo is done: the state of the spec, or
\* of the suite set-up if the spec was not reached; nothing at all; or a state
\* that run-test does not know (a pending spec).
Summaries == {"passed", "skipped", "failed", "panicked", "none", "unknown"}

\* Seeded fault: a missing summary is no error.
RunTestNoSetup(sum) == CASE sum \in {"passed", "none"} -> "nil"
                         [] sum = "skipped" -> "ExitError3"
                         [] sum \in {"failed", "panicked"} -> "ExitError1"
                         [] OTHER -> "error"

\* TestOptions.Run: the error returned for a summary.
RunTest(sum) == CASE sum = "passed" -> "nil"
                  [] sum = "skipped" -> "ExitError3"
                  [] sum \in {"failed", "panicked"} -> "ExitError1"
                  [] OTHER -> "error"

\* Seeded fault: an error that is no ExitError ends with a code of its own.
ExitCodeOther(err) == CASE err = "nil" -> "exit0"
                        [] err = "ExitError3" -> "exit3"
                        [] err = "ExitError1" -> "exit1"
                        [] OTHER -> "exit4"

\* main: the exit code of the child for the error its command returned.
ExitCode(err) == CASE err = "nil" -> "exit0"
                   [] err = "ExitError3" -> "exit3"
                   [] OTHER -> "exit1"

\* How a child may end: with an exit code (2 is the Go runtime's, for SIGABRT and
\* for a panic outside the spec), by a signal, or it could not be started at all.
Endings == {"exit0", "exit1", "exit2", "exit3", "killed", "notstarted"}

Init == /\ run = [x \in Executions |-> "idle"]
        /\ dog = [x \in Executions |-> "none"]
        /\ child = [x \in Executions |-> "none"]
        /\ summary = [x \in Executions |-> "unfinished"]
        /\ signals = [x \in Executions |-> {}]
        /\ success = {} /\ failed = {} /\ skipped = {}
        /\ failures = 0
        /\ index = 0
        /\ ctxDone = FALSE
        /\ early = {}

-----------------------------------------------------------------------------
(* testStatus.Run up to and including the start of the child *)

\* Prints "started" with the index, capped at the total, and enters
\* runWithTimeout, which starts the watchdog.
Begin(x) ==
  /\ run[x] = "idle"
  /\ index' = IF index < Cardinality(Executions) THEN index + 1 ELSE index
  /\ run' = [run EXCEPT ![x] = "starting"]
  /\ dog' = [dog EXCEPT ![x] = "armed"]
  /\ UNCHANGED <<summary, child, signals, flags, failures, ctxDone, early>>

\* CombinedOutput starts the process: from now on c.Process is not nil.
Spawn(x) ==
  /\ run[x] = "starting"
  /\ child' = [child EXCEPT ![x] = "running"]
  /\ run' = [run EXCEPT ![x] = "waiting"]
  /\ UNCHANGED <<summary, dog, signals, flags, failures, index, ctxDone, early>>

\* It cannot be started: CombinedOutput returns an error at once.
SpawnFails(x) ==
  /\ run[x] = "starting"
  /\ child' = [child EXCEPT ![x] = "notstarted"]
  /\ run' = [run EXCEPT ![x] = "waiting"]
  /\ UNCHANGED <<summary, dog, signals, flags, failures, index, ctxDone, early>>

-----------------------------------------------------------------------------
(* The child *)

\* The run-test command returns; with no summary also when its own set-up fails
\* or ginkgo answers a SIGINT.
ChildEnds(x) ==
  /\ child[x] = "running"
  /\ \E sum \in Summaries :
       /\ summary' = [summary EXCEPT ![x] = sum]
       /\ child' = [child EXCEPT ![x] = ExitCode(RunTest(sum))]
  /\ UNCHANGED <<run, dog, signals, flags, failures, index, ctxDone, early>>

\* A panic outside the spec, or a signal that nobody handles (SIGINT before ginkgo
\* has registered for it, the kernel short of memory).
ChildDies(x) ==
  /\ child[x] = "running"
  /\ \E end \in {"exit2", "killed"} : child' = [child EXCEPT ![x] = end]
  /\ UNCHANGED <<summary, run, dog, signals, flags, failures, index, ctxDone, early>>

\* The Go runtime of a child that got SIGABRT dumps its stacks and exits with 2.
ChildAborts(x) ==
  /\ child[x] = "running"
  /\ "ABRT" \in signals[x]
  /\ child' = [child EXCEPT ![x] = "exit2"]
  /\ UNCHANGED <<summary, run, dog, signals, flags, failures, index, ctxDone, early>>

-----------------------------------------------------------------------------
(* The watchdog goroutine of runWithTimeout *)

\* c.Process.Signal(s), left out while c.Process is nil and a no-op on a process
\* that has ended.
Signal(x, s) == signals' = IF child[x] = "running" THEN [signals EXCEPT ![x] = @ \cup {s}]
                           ELSE signals

\* The test's timeout, which nothing keeps from firing before the process exists:
\* then there is nobody to interrupt, and the grace period starts all the same.
Timeout(x) ==
  /\ dog[x] = "armed"
  /\ Signal(x, "INT")
  /\ dog' = [dog EXCEPT ![x] = "grace"]
  /\ early' = IF child[x] = "none" THEN early \cup {x} ELSE early
  /\ UNCHANGED <<summary, run, child, flags, failures, index, ctxDone>>

\* Seeded fault: after the interrupt the goroutine waits for the context alone.
GraceOverOnCancel(x) ==
  /\ dog[x] = "grace" /\ ctxDone
  /\ Signal(x, "ABRT")
  /\ dog' = [dog EXCEPT ![x] = "over"]
  /\ UNCHANGED <<summary, run, child, flags, failures, index, ctxDone, early>>

\* One minute later.
GraceOver(x) ==
  /\ dog[x] = "grace"
  /\ Signal(x, "ABRT")
  /\ dog' = [dog EXCEPT ![x] = "over"]
  /\ UNCHANGED <<summary, run, child, flags, failures, index, ctxDone, early>>

\* Seeded fault: a cancelled test is aborted at once.
DogCancelledAborts(x) ==
  /\ dog[x] = "armed"
  /\ ctxDone
  /\ Signal(x, "ABRT")
  /\ dog' = [dog EXCEPT ![x] = "over"]
  /\ UNCHANGED <<summary, run, child, flags, failures, index, ctxDone, early>>

\* The context ends first: one SIGINT if the process exists already, and the
\* goroutine, with the timeout, is gone.
DogCancelled(x) ==
  /\ dog[x] = "armed"
  /\ ctxDone
  /\ Signal(x, "INT")
  /\ dog' = [dog EXCEPT ![x] = "over"]
  /\ UNCHANGED <<summary, run, child, flags, failures, index, ctxDone, early>>

-----------------------------------------------------------------------------
(* testStatus.Run after the child has ended *)

\* Seeded fault: an unknown exit status leaves the flags alone.
RecordNoDefault(x) ==
  /\ run[x] = "waiting"
  /\ child[x] \in Endings
  /\ success' = IF child[x] = "exit0" THEN success \cup {TestOf[x]} ELSE success
  /\ skipped' = IF child[x] = "exit3" THEN skipped \cup {TestOf[x]} ELSE skipped
  /\ failed' = IF child[x] = "exit1" THEN failed \cup {TestOf[x]} ELSE failed
  /\ run' = [run EXCEPT ![x] = "recorded"]
  /\ UNCHANGED <<summary, dog, child, signals, failures, index, ctxDone, early>>

\* CombinedOutput has returned; the flag is set from its error and exit status.
Record(x) ==
  /\ run[x] = "waiting"
  /\ child[x] \in Endings
  /\ success' = IF child[x] = "exit0" THEN success \cup {TestOf[x]} ELSE success
  /\ skipped' = IF child[x] = "exit3" THEN skipped \cup {TestOf[x]} ELSE skipped
  /\ failed' = IF child[x] \notin {"exit0", "exit3"} THEN failed \cup {TestOf[x]} ELSE failed
  /\ run' = [run EXCEPT ![x] = "recorded"]
  /\ UNCHANGED <<summary, dog, child, signals, failures, index, ctxDone, early>>

\* Seeded fault: skipped tests are counted as failures.
ReportCountsSkips(x) ==
  /\ run[x] = "recorded"
  /\ failures' = IF TestOf[x] \notin success THEN failures + 1 ELSE failures
  /\ run' = [run EXCEPT ![x] = "reported"]
  /\ UNCHANGED <<summary, dog, child, signals, flags, index, ctxDone, early>>

\* The deferred switch over the flags of the test object, which counts a failure
\* only when neither success nor skipped is set.
Report(x) ==
  /\ run[x] = "recorded"
  /\ failures' = IF TestOf[x] \notin success \cup skipped /\ TestOf[x] \in failed
                 THEN failures + 1 ELSE failures
  /\ run' = [run EXCEPT ![x] = "reported"]
  /\ UNCHANGED <<summary, dog, child, signals, flags, index, ctxDone, early>>

Cancel ==
  /\ ~ctxDone
  /\ ctxDone' = TRUE
  /\ UNCHANGED <<summary, run, dog, child, signals, flags, failures, index, early>>

Run(x) == Begin(x) \/ Spawn(x) \/ SpawnFails(x) \/ Record(x) \/ Report(x)
Watchdog(x) == Timeout(x) \/ GraceOver(x) \/ DogCancelled(x)

Child(x) == ChildEnds(x) \/ ChildDies(x) \/ ChildAborts(x)

Next == \/ \E x \in Executions : Run(x) \/ Watchdog(x) \/ Child(x)
        \/ Cancel

Spec == Init /\ [][Next]_vars

\* Goroutines run and timers fire; the kernel delivers SIGABRT and the Go runtime
\* of the child obeys it.  Nothing makes a child end by itself, or answer SIGINT.
FairSpec == /\ Spec
            /\ \A x \in Executions : /\ WF_vars(Run(x))
                                     /\ WF_vars(Watchdog(x))
                                     /\ WF_vars(ChildAborts(x))

-----------------------------------------------------------------------------
(* Properties *)

\* The variables have their types.
TypeOK ==
  /\ run \in [Executions -> {"idle", "starting", "waiting", "recorded", "reported"}]
  /\ dog \in [Executions -> {"none", "armed", "grace", "over"}]
  /\ child \in [Executions -> {"none", "running"} \cup Endings]
  /\ summary \in [Executions -> Summaries \cup {"unfinished"}]
  /\ signals \in [Executions -> SUBSET {"INT", "ABRT"}]
  /\ success \subseteq Tests /\ failed \subseteq Tests /\ skipped \subseteq Tests
  /\ failures \in Nat
  /\ index \in 0 .. Cardinality(Executions)
  /\ ctxDone \in BOOLEAN
  /\ early \subseteq Executions

Recorded == {x \in Executions : run[x] \in {"recorded", "reported"}}

\* Once Run has recorded an execution, its test object carries a flag: no ending
\* of a child (a killed one, one that never started) leaves a test without a
\* result, which summarizeTests would silently drop from every count.
NoResultLost == \A x \in Recorded : TestOf[x] \in success \cup failed \cup skipped

\* A test is recorded as passed or skipped only if ginkgo in some child that ran
\* it said so, and every other way for a child to end (failed, panicked, no
\* summary because the suite set-up failed, aborted by the watchdog, never
\* started) is recorded as a failure.
VerdictsEarned ==
  /\ \A t \in success : \E x \in Recorded : TestOf[x] = t /\ summary[x] = "passed"
  /\ \A t \in skipped : \E x \in Recorded : TestOf[x] = t /\ summary[x] = "skipped"
  /\ \A x \in Recorded : summary[x] \notin {"passed", "skipped"} => TestOf[x] \in failed

\* When every test object is executed once, the running failure count printed
\* with each "started" line is the number of failed tests reported so far.
FailuresExact ==
  failures = Cardinality({x \in Executions : run[x] = "reported" /\ TestOf[x] \in failed})

\* The watchdog escalates, in this order: a child gets a SIGABRT only after a
\* SIGINT, unless the timeout fired before there was a process to interrupt, never
\* on account of a cancellation alone; and a watchdog that is over leaves no
\* running child behind without the SIGABRT, unless the run was cancelled or the
\* timeout fired too early.
AbortAfterInterrupt ==
  \A x \in Executions :
    /\ "ABRT" \in signals[x] => "INT" \in signals[x] \/ x \in early
    /\ dog[x] = "over" /\ child[x] = "running" =>
         "ABRT" \in signals[x] \/ ctxDone \/ x \in early

\* Both timers of the watchdog ran out before the process existed: nothing will
\* ever signal it.
Outrun(x) == x \in early /\ dog[x] = "over" /\ child[x] = "none"

\* However its child behaves, an execution ends unless the run is cancelled or
\* the start of the process takes longer than the timeout and its grace period.
UncancelledRunEnds == \A x \in Executions : <>(run[x] = "reported" \/ ctxDone \/ Outrun(x))

\* The --timeout flag, "Set the maximum time a test can run before being
\* aborted" (openshift-tests.go): every execution whose process was started in
\* time ends, cancelled or not.
TimeoutEnforced == \A x \in Executions : <>(run[x] = "reported" \/ Outrun(x))
=============================================================================
