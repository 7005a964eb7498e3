# A TLA+ model of the openshift-tests runner and cluster monitor

This directory specifies, model-checks and proves the core of
`openshift-tests`: the program that runs a suite of ginkgo tests against a
cluster, each test in a child process, many at a time, while a monitor watches
the cluster. The tests themselves (`test/extended`) are scripts whose subject is
the cluster; the logic of *this* program is in `pkg/test/ginkgo` and
`pkg/monitor`, and in the upgrade test of `test/e2e/upgrade`.

`PROJECT.json` is the machine-readable side: which definition models which
lines, the runs, the seeded faults that show that each property can fail, the
findings, the hazards and the theorems.

## Inventory

| Part | State | Operations | Interacts with | Hard because |
|---|---|---|---|---|
| Test queue (`queue.go`) | ring of tests, active exclusions, condition variable, deferred serial list | `pop`, `done`, `Close`, `Take`, `Execute` | called by the suite run three times; calls the test function | workers, a closer goroutine and the caller interleave; the condition variable has a no-op lock |
| Test execution (`status.go`, `test.go`, `cmd_runtest.go`) | result flags of a `*testCase`, failure count, index, watchdog, child process | `testStatus.Run`, `runWithTimeout`, `TestOptions.Run` in the child | called by the queue's workers; signals the child; reads the context | timeout, cancellation and the end of the child race; a child can end in many ways |
| Suite run (`cmd_runsuite.go`, `junit.go`) | phase, counts, failing list, JUnit counters, signal handler | `Options.Run`, `summarizeTests`, `Retry`, `writeJUnitReport` | drives the queues, starts the monitor, returns the error that becomes the exit code | signals at any point; shared test objects with `--count`; retries and limits |
| Monitor queries (`monitor.go`, `types.go`) | none | `Conditions`, `Events`, `filterSamples`, `filterEvents`, `Less` | read by the suite run, by failing tests and by run-monitor | open and closed ends of windows, maps reused from sample to sample |
| Monitor recording (`monitor.go`, `sampler.go`, `api.go`, `cmd.go`) | events, samples, availability of two APIs, position of the printer | `Record`, `sample`, `StartSampling`, pollers, print loop | fed by pollers, informers and the event watcher | samplers run outside the lock; a printer that asks by time |
| Event watcher (`event.go`) | resource version, stream | list, watch, deliver, relist | API server; records with the monitor | streams end, fail and expire |
| Informers (`pod.go`, `node.go`, `operator.go`) and `errorRecordingListWatcher` (`api.go`) | informer stores, queued deltas, error streak | list filter, add/update/delete handlers, change functions, samplers | API server; record with the monitor | missed deletions, resyncs, lists from an old cache, in-place filtering |
| Upgrade test (`test/e2e/upgrade`) and `run-upgrade` (`cmd/extended-platform-tests`) | options, desired version, generation, aborted or not, rebooting goroutine | `initUpgrade`, `getUpgradeContext`, `clusterUpgrade`, `versionMonitor`, `Disrupt` | cluster version operator, nodes; the options cross a process boundary in the environment | another writer, a controlled abort half-way, polling with time-outs |
| Disruption runner (`test/extended/util/disruption`) | phase of each upgrade test | setup, test, teardown goroutines | wraps the upgrade | goroutines wait for one another |
| Rest of the command line, suites, utilities, data, vendored code | configuration | - | - | not modelled, see below |

What makes each part correct:

* queue: conflicting tests never overlap, serial tests run alone and last, no
  test is lost or run twice, nothing runs once `Execute` has returned, and it
  does return;
* execution: every execution leaves a result, and the right one; a hung child is
  got rid of, politely first;
* suite run: green and red are both earned, also under signals and retries; the
  report holds every test; `Run` ends;
* monitor: queries return exactly the runs and events of the window; the printer
  misses and repeats nothing; the timeline shows causes before conditions;
* event watcher: no gaps but those an expired version leaves, and a way back from it;
* informers: the store converges to the server, the log tells which objects are
  there and in which state, an error in it is about something that happened, and
  an outage of the API is recorded once;
* upgrade: a pass means that the update, or the rollback that was asked for, was
  completed; another's update fails the test; it ends, and so does the rebooting.

## Modules

```
TestSchedule   what the queue promises            <--- implemented by --- TestQueue
TestQueue      queue.go, worker by worker
TestRun        one execution: Run, watchdog, child
RunSuite       Options.Run, its three queues taken by the contract of TestSchedule
Filters        the elements of a sequence in a set, used by the next three and Watchers
MonitorIntervals  the pure queries   <--- extended by --- Monitor
Monitor        recorders, pollers, sampling goroutine, print loop
ChangeFns      the informers' change functions, samplers and searches
Watchers       informers, list watcher and event watcher over an API server (extends ChangeFns)
Upgrade        run-upgrade and the upgrade test against a cluster version operator
MC*            instances for TLC; MCMonitorFunctions checks MonitorIntervals and ChangeFns
*Proofs        the theorems about TestQueue, TestRun, RunSuite, Monitor, Watchers and Upgrade
MonitorFunctionsProofs  the theorems about the functions, for every log and every two lists
DataFacts      lemmas about data: induction, sequences, and what the queries return
```

**TestSchedule** reads the comment of `parallelByFileTestQueue` as a state
machine over pending, running and finished tests: a test may start if it
conflicts with no running test, a serial one only when all others have finished,
and the queue may return when nothing runs and, unless interrupted, all is done.

**TestQueue** has one action per critical section under `q.lock` (`PopEmpty`,
`PopTest`, `PopNone`, `Done`, `Close`) and one for each thing done outside it:
`Wait` (only there is a worker on the notify list), `DeferSerial`, `StartTest`,
`FinishTest`, and the main goroutine's `Join`, `SerialCheck`, `SerialStart`,
`SerialFinish`, `Return`. The ring is the sequence read from `q.queue` onwards;
`Unlink` is the surgery `q.queue = r.Prev(); q.queue.Unlink(1)`. That `PopNone`
and `Wait` are two steps is the point of the model: the code's lock is released
between them. `sync.Cond.Broadcast` wakes exactly the registered workers.
`runs` and `completed` are history: what the test function was called for.

**TestRun** opens up the test function: `Begin`, `Spawn` or `SpawnFails`,
`Record` (flags from the exit status) and `Report` (the deferred switch, which
reads the flags again), beside the watchdog (`Timeout`, `GraceOver`,
`DogCancelled`) and the child, which ends through `TestOptions.Run` and `main`
(`RunTest`, `ExitCode`), dies of a panic or a signal, is aborted, or hangs.
ginkgo is taken to report the focused spec whenever its set-up passed; if it did
not, `TestOptions.Run` would put the state of the set-up in its place. Time is an
order of events. `--timeout` has no lower bound, so the timeout may fire before
`c.Process` exists: the watchdog then interrupts nobody, waits its minute and
aborts, or finds no process even then (`Outrun`); `early` remembers these
executions. `CombinedOutput` is taken to return
when the child has ended: processes below the child that keep its output pipe
open are not modelled.

**RunSuite** is `Options.Run`: set-up, smoke queue, normal queue, summary and
monitor verdict, retries, report, return, with the signal handler beside it. Each
of its three queues is replaced by its contract: `StartTest` and `QueueDone` have
the guards of `TestSchedule`, which `TestQueue` is proved to implement. Nothing
about the queue itself is shown here. Flags belong to the test *object*: entries of a
repeated test share one, retries have their own (`Object`). The limit of flakes
is a property of the suite named on the command line and is chosen in `Init`.

**MonitorIntervals** gives the queries as recursive functions over the log and,
beside them, what they should return. `sort.Sort` is an insertion sort
(`Sorted`): `Less` tells all different intervals apart, so that every algorithm
ends with the same order. **Monitor** lets recorders, two API pollers, the
sampling goroutine and run-monitor's printer work on one log. A clock reading
always gives a new, later time: equal readings and a clock that is set back are
hazards the model leaves out. `late` and `lastPass` (did the pass begin after the
cancellation, and what did it find), `doneAt` and `outage` (the APIs that were down
at the cancellation and have stayed so) are history.
After the context is done a `select` may still see a tick, so pollers, sampler
and printer may make further turns. The second signal of run-monitor, its 150 ms
sleep and the final listing are left out.

**ChangeFns** has the functions the handlers of `pod.go`, `node.go` and
`operator.go` call with the old and the new object, one operator each
(`PhaseChange`, `DeletionChange`, `ContainerChange`, `nodeChangeFns`,
`ConditionChange`, `HistoryChange`, ...), the samplers, the list filter of the
pods and the searches they use: at the old position first (`findStatus`), or
wrapped around (`RotatedSearch`). Objects are records of the fields that are
read; a message is reduced to the words that tell it from others, and "none"
stands for an empty phase or reason. The order of the
conditions one function returns is left out.

**Watchers** follows one kind of object in each behaviour. The server is a
sequence of versions, numbered from 0; each changes, creates or deletes one
object. `oldest` is what compaction has left. The reflector (and the events'
goroutine, whose loop has the same shape) goes through `check`, `watch` and
`stream`: `ListFails`, `List`, `ListVersion`, `WatchRefused`, `WatchExpired`,
`Watch`, `StreamEnds`, `StreamFails`, `EventError`, `StreamEvent`,
`StreamObject`. `handle` is `errorRecordingListWatcher.handle`, around every
request of the kinds that are wrapped (nodes and events are not). `Replace`,
`Enqueue`, `Resync`, `Pop` and `Notify` are the parts of the vendored
client-go informer that decide what a handler sees: deltas queued per object,
two deletions joined, a tombstone for what a list no longer has. `Pop` stores an
object and hands a notification for each of its deltas to another goroutine
(`notices`); `Notify` is that goroutine, which calls the handler later. In between
the samplers read a store that is ahead of the log. `Pop` is one step: `HandleDeltas`
runs under the lock of the queue, and a sampler that reads the store in the middle
of it sees an object whose notification is still to be handled, as it does
afterwards. `AddFunc`,
`UpdateFunc` and `DeleteFunc` are the handlers. A list may be answered from any
earlier version, since the reflector asks for version "0"; of the versions it
streams, the reflector's own moves on only with those of selected objects. `seen`,
`told`, `lost`,
`blind`, `rewound` and `calls` are history: what a handler was told, what a reader
of the log knows, and where the code loses information. So are `lists` and
`reached`: from where to where each list of the events' goroutine jumped, and how
far it got.

**Upgrade** begins with a command line. `RunUpgrade` checks it in the command,
`RunTest` again in the process of the test (`initUpgrade` twice, through the
environment). `Context` is `getUpgradeContext`; `GetVersion` and `Update`,
`AbortGet` and `AbortUpdate` are the two reads and writes of the cluster version,
a write failing if the object has changed since the read; `Ack`, `Check`,
`Decide` and `Finish` are the polls, in the order of their requests, each of which
may fail (`PollFails`, `Fatal`); `Expire` is the end of a poll's time, after
which `PollImmediate` polls at most once more. `Wake` and `Reboot` are the turns of
`Disrupt`. The cluster version operator takes up the spec, updates the operators
one by one and completes; a second writer asks for another update. An update is
its image and whether its other fields, version and `Force`, are those the test
gives (`exact`): a write that changes any of them raises the generation, and the
version monitor compares them all (`Wanted`); "none" stands for an image or version
that is not there. The wait for the machine config pools is one step.

Definitions marked *Seeded fault* in the modules are not part of the
specification: each is a plausible slip in the definition that follows it, and
`PROJECT.json` names the property that TLC finds violated when it takes the
definition's place.

## Runs

The configurations need seconds, those of `Monitor`, `Watchers` and `Upgrade` one
to three minutes (7.4, 1.2 and 2.8 million states). Deadlock is checked for `Upgrade`, whose cluster never stops; the
others switch it off because these programs end.

| Run | Module, configuration | Checks |
|---|---|---|
| queue | MCTestQueue, TestQueue.cfg | `TypeOK`, `MutualExclusion`, `SerialAlone`, `ExactlyOnce`, `ReturnsQuiescent`, `ImplementsSchedule`, `ParallelTestsRun`, `ExecuteReturns` |
| queue_lost_wakeup | MCTestQueue, TestQueue_lostwakeup.cfg | `SerialTestsRun` fails |
| execution | MCTestRun, TestRun.cfg | `TypeOK`, `NoResultLost`, `VerdictsEarned`, `FailuresExact`, `AbortAfterInterrupt`, `UncancelledRunEnds` |
| execution_timeout | MCTestRun, TestRun_timeout.cfg | `TimeoutEnforced` fails |
| suite | MCRunSuite, RunSuite.cfg | `TypeOK`, `GreenIsEarned`, `RedIsEarned`, `SmokeFirst`, `ReportComplete`, `RetriesEarned`, `RunEnds` |
| suite_count | MCRunSuite, RunSuite_count.cfg | `FlakesFound` fails |
| monitor_functions | MCMonitorFunctions, MCMonitorFunctions.cfg | `IntervalsAreRuns`, `EventsInWindow`, `ChangesByName` |
| monitor | Monitor, Monitor.cfg | `TypeOK`, `PrintedOnce`, `FinalPass`, `FailureBeforeDown` |
| watchers | MCWatchers, Watchers.cfg | `TypeOK`, `NoGap`, `StoreTracks`, `LogTellsState`, `ErrorsReal`, `OutageRecordedOnce`, `ExpiredRelists` |
| events_replay | MCWatchers, Watchers_replay.cfg | `RecordedInOrder` fails |
| upgrade | MCUpgrade, Upgrade.cfg | `TypeOK`, `PassIsEarned`, `OneLateReboot`, `ForeignStops`, `UpgradeEnds` |
| upgrade_abort | MCUpgrade, Upgrade_abort.cfg | `AbortHonoured` fails |

Bounds and why they are enough to be interesting:

* queue: three workers, two tests of one exclusion group, one free test, two
  serial ones, in all 120 orders, cancelled anywhere. One worker can hold the
  exclusion while a second misses and a third goes on; five ring elements reach
  every case of `Unlink` (first, middle, last). The theorems below remove the
  bound for safety.
* execution: two executions of two objects; nothing but the two counters and the
  context is shared between executions.
* suite: four tests, of which one is a smoke test and one serial, and limits 0, 1
  and 2: failures can be below, at and above each limit, and a retry can pass,
  fail, be skipped or never be run. One execution per test: with more, the
  statements do not hold (run suite_count), which is why their comments say so.
* monitor_functions: two conditions, logs of five entries, all windows: runs of
  samples can begin, end, be interrupted by another condition and resume. All
  pairs of lists of up to three named statuses: entries move, appear, go away and
  change together.
* monitor: two pollers and four clock readings.
* watchers: two changes of the server after any initial set of objects, enough for
  deleted-and-created-again and for well-ill-well; two queued deltas and waiting notifications of an object before
  more are queued;
  where objects are selected, one that is not stands before one that is in the
  list, where there is one object only it stands at its head. Three changes of outcome of
  the requests, equal ones in a row counted as one: two outages. Two records besides
  those of one `Notify`, three in
  events_replay.
* upgrade: two operators, with and without a version, so that the abort can be due
  at once, half-way and at the end; two attempts of the rollback for the code's
  ten; one update by someone else; two late reboots, one more than the code
  allows. Twelve command lines: every rejected form, both policies, no suite, no
  image, the current image, the image that someone else asks for too, and
  `abort-at` 0 and random (as 100). Clusters that are fresh, have
  gone back to the older of two images, or have not taken up their spec.

Fairness. Goroutines that can run do run (weak fairness per goroutine). A test
function returns *unless the context is done*: in `TestRun` an uncancelled child
is interrupted and then aborted, which is `UncancelledRunEnds`, but a cancelled
one that ignores its SIGINT is left alone, so `TestQueue` and `RunSuite` assume
its end only while the run is not cancelled, and their liveness properties allow
for the test that hangs. `TestRun` assumes that the kernel and the Go runtime
obey SIGABRT, and neither that a child ends by itself nor that it obeys SIGINT.
`RunSuite` assumes that its queue starts what can be started; `ExecuteReturns`
of `TestQueue` grants that when no worker oversleeps, and in the instance of
`RunSuite` no two tests share an exclusion, so that pop never fails and no worker
ever waits. `Watchers` assumes that a request for an expired version is answered so
and that the server closes each watch after a while, as the API server does. `Upgrade` assumes that
the process of the test runs and that time passes (`Step`, `Expire`), and nothing
of the cluster. Nothing assumes that
signals arrive.

## What the runs show

Holds: everything in the table that is not marked *fails*. Some of it is not
obvious. `Close` empties the table of active exclusions while their tests still
run, and is saved by emptying the ring in the same critical section
(`MutualExclusion`). Workers that miss their wakeup never keep a *parallel* test
back, because whoever held the blocking exclusion comes back to the ring
(`ParallelTestsRun`); and oversleeping is the only way for the queue to hang
(`ExecuteReturns`). A run cancelled late, even after the summary, is not reported
as a success, although it walks on through its remaining phases
(`GreenIsEarned`); and although flags are shared by repetitions and only ever set,
a retry is always of a test that failed and never passed (`RetriesEarned`, which
needs no hypothesis about `Count`). The sampling goroutine makes a whole pass after
the cancellation, also when that falls into another pass, and an outage that lasts
is in it (`FinalPass`).

A child gets its SIGABRT without a SIGINT if the timeout fires before the process
exists, and no signal at all if the start takes a minute longer than the timeout;
`AbortAfterInterrupt` and `UncancelledRunEnds` name these cases and say that there
are no others.

The events' goroutine loses events, but only between an expired version and the
list that follows it: whatever else ends or fails, the same version is watched
again and every event since is delivered (`NoGap`). The price is disagreement 4.

The informers converge whatever was cut or missed, except that a list drops a pod
of a system namespace at its head (`pod.go:28`) and that an addition still queued
when a list no longer has the object leaves it in the store (`blind` in
`StoreTracks`). The log is behind the store while a notification waits. What it
tells about an object as its handler was last told is wrong only after a tombstone
or a replacement under the same name (`LogTellsState`): both pass without a
record, the latter except for nodes; and the handlers have been told of everything
in the store once nothing waits. An error in the log is about a real change
unless a list was older than what had been seen, which makes up a transition
(`rewound` in `ErrorsReal`). An upgrade that passes has completed what the command
line asked for, also when someone else or the rollback interferes
(`PassIsEarned`). The rollback itself can be passed over in two ways, which the
property names: the operators could not be listed (disagreement 5 below), or the
update the test found when it asked for its own, and would roll back to, was
somebody else's, who had asked for the same image or asks for his again; the
operators at the wanted image and those at the one to go back to are then no
longer told apart. At most one master is rebooted after the end of the test
(`OneLateReboot`).

Disagreements between the code and what the repository says of it:

1. **Lost wakeup** (`queue.go:90`). `cond.Wait` is called with a no-op lock after
   `pop` has released `q.lock`. A broadcast in between is lost; if no later one
   comes the worker sleeps for ever, `wg.Wait` never returns and the serial tests
   are never run. It needs two tests with one exclusion in a queue.
2. **Timeout after a cancellation** (`test.go:165`). The watchdog sends one SIGINT
   (none if the process does not exist yet) and ends; `--timeout` is not enforced
   any more.
3. **`--count` hides failures** (`status.go:151`). Repetitions share one object and
   its flags are only ever set; one pass makes all repetitions pass.
4. **Replayed events** (`event.go:29`). Each new watch starts from the version of
   the list, so the events since then are recorded again, late.
5. **Abort skipped** (`monitor.go:104` of the upgrade test). If the operators
   cannot be listed in the poll that sees the update completed, the test passes
   without the rollback that `abort-at` asks for.

Also seen while modelling, without a run of its own:

* a passed test increments `NumFailed` of the JUnit report and not `NumTests`
  (`junit.go:148`, against the comment at `junit.go:40`);
* a pass of the samplers that finds nothing is not stored (`monitor.go:88`), so
  two outages with a recovery between them are reported as one interval;
* the loop over watches of the events' goroutine never looks at the context
  (`Stop` of the kind `event` is enabled only before a list);
* a second signal other than SIGINT ends the process with status 0
  (`SecondSignal`);
* the two messages about exited containers of a failed pod are swapped
  (`pod.go:134`, `pod.go:143`);
* an empty `abort-at` is rejected, although the comment at `upgrade.go:81` and the
  error message itself list it as allowed: the branch for it does not return;
* `run-upgrade` without a suite name passes no options on, so the test has no
  image and indexes a version that is not there;
* an upgrade with an abort may take longer by its own limits than the timeout of
  its suite.

## Proofs

Every invariant and action property of the runs that pass is also the statement of
a theorem; what is left to TLC alone is liveness. The theorems have the form
`Spec => []P`, for every value of the constants that satisfies the `ASSUME`s of the
module (TLC evaluates those in the runs). The first theorem about a component,
`Invariance`, shows that a conjunction `IInv` of named parts is inductive, one lemma
per action or group of actions; the others follow from it, or from a second
invariant on top of it (`PrintInv`, `LogInv`). Each of these invariants holds in
TLC's instance of the module, too.

`DataFacts` has the lemmas about data, and those about the queries, which two
modules need. The provers cannot use induction theorems with an operator as
parameter, so it states them for sets:
`BoundedInduction` (a set of numbers with 0 that is closed under the next one up to
n) and `BoundedRecursion` (a recursive function on `0 .. n` exists and is what its
equation says, if its step stays in a given set). From these it derives what
`Filter` and the library's `SetToSeq` and `FlattenSeq` return. This is why the
modules have recursive functions where `SelectSeq`, `SortSeq` or the folds of the
libraries would be shorter.

| Module | Theorem | States, of every behaviour |
|---|---|---|
| TestQueueProofs | `TypeCorrect` | `TypeOK` |
| | `ExclusionHolds` | `MutualExclusion` |
| | `SerialRunsAlone` | `SerialAlone` |
| | `RunsExactlyOnce` | `ExactlyOnce` |
| | `ReturnsWhenQuiet` | `ReturnsQuiescent` |
| | `Refinement` | `ImplementsSchedule`: the queue implements `TestSchedule` |
| TestRunProofs | `TypeCorrect` | `TypeOK` |
| | `NoResultIsLost` | `NoResultLost` |
| | `VerdictsAreEarned` | `VerdictsEarned` |
| | `AbortsAfterInterrupt` | `AbortAfterInterrupt` |
| | `NeverOvercounts` | the printed failure count is at most the number of failed executions reported, with `--count` too |
| | `FailuresAreExact` | `FailuresExact`, where no object is executed twice (`OnceEach`) |
| RunSuiteProofs | `TypeCorrect` | `TypeOK` |
| | `SmokeTestsFirst` | `SmokeFirst` |
| | `GreenWhenEarned`, `RedWhenEarned`, `ReportIsComplete` | `GreenIsEarned`, `RedIsEarned`, `ReportComplete`, for `Count = 1` |
| | `RetriesAreEarned` | `RetriesEarned`, for any `Count` |
| MonitorProofs | `LastPassIsMade` | `FinalPass` |
| | `CausesComeFirst` | `FailureBeforeDown` |
| | `WindowsAreExact` | the two searches of a query cut out exactly the samples and the events of its window, for all ends of it |
| | `MonitorTypes` | `TypeOK` |
| | `EventsArePrintedOnce` | `PrintedOnce` |
| | `SampledIntervalsAreRuns` | `Conditions` returns exactly the maximal runs of the samples of the window, for all ends of it |
| | `EventsAreExact` | `Events` returns exactly these runs and the events of the window, each once and in order |
| MonitorFunctionsProofs | `ConditionsAreRuns` | `IntervalsAreRuns`, for logs of any length over any conditions |
| | `EventsAreOfTheWindow` | `EventsInWindow`, for the same logs |
| | `ChangesAreByName` | `ChangesByName`, for lists of any length |
| WatchersProofs | `NothingIsMissed` | `NoGap` |
| | `StoresCatchUp` | `StoreTracks` |
| | `WatchersTypes` | `TypeOK` |
| | `LogTellsTheState` | `LogTellsState` |
| | `ErrorsAreReal` | `ErrorsReal` |
| | `OutagesRecordedOnce` | `OutageRecordedOnce` |
| UpgradeProofs | `TypeCorrect` | `TypeOK` |
| | `PassesAreEarned` | `PassIsEarned` |
| | `AtMostOneLateReboot` | `OneLateReboot` |
| | `ForeignUpdateStops` | `ForeignStops`, an action property |

**TestQueue.** Assumptions: there is at least one worker and both sets are finite,
serial tests are tests, the nil test is none, and every test has an exclusion,
possibly the empty one. (With no worker `wg.Wait` would return at once; the code
defaults a parallelism of zero to the suite's, or three.) None of the properties
is inductive. That two tests of one exclusion do not run
together needs that the exclusion of a held test is active *or the queue was
closed*, and that after `Close` the ring is empty for good (`ExclusionInv`,
`DrainInv`). That no test is lost needs to know where a test can be: on the ring,
with one worker, in the serial list or finished, and nowhere twice (`PlaceInv`,
`KeptInv`), which rests on what `Unlink` does to the elements of a sequence
(lemmas `UnlinkType`, `UnlinkIndex`, `UnlinkElements`). That serial tests start
only after all parallel ones have finished needs that the loop goes on only while
the context is not done, hence the queue was not closed when the workers left
(`MainInv`, `SerialInv`). `RunsInv` ties the number of calls to the place.
`Refinement` maps a
test to finished, running or pending by the same books; the start of a test,
parallel or serial, maps to `Start`, its end to `Finish`, the return to `Return`,
and every other step to a stutter or `Interrupt`.

**TestRun.** Assumptions: the executions are finitely many and each is of a test.
The properties are about flags that are set long after the child has ended, so the
invariant ties the phase of `Run` to the process (`PhaseInv`), the exit status to
the verdict of ginkgo (`ExitInv`), the state of the watchdog to the signals it has
sent or, when it fired early, could not send (`SignalInv`) and the flags to the recorded executions (`FlagInv`, exact: no
flag without an execution that set it). The failure count is incremented by the
deferred switch, which reads flags that other executions of the same object may
have set; `NeverOvercounts` needs the invariant only, `FailuresAreExact` also the
hypothesis, without which it is false.

**RunSuite.** Assumptions: finitely many tests, at least one, `Count` at least 1.
`QueueInv` says which entries may have been started in which phase and that a queue
is left only empty or cancelled; `FlagInv` is that of `TestRun`; `SummaryInv` says
that what `summarizeTests` counted stays true while the retries run, since these
have objects of their own; `RetryInv` that only retries of the failing list are
ever started, and no more than the limit allows; `ReportInv` and `ResultInv` fix report and result once
they are made, `HandlerInv` the signal handler to the phase. The three theorems
about results have the hypothesis `Count = 1`: with shared objects they are false,
as the run suite_count shows.

**Monitor.** Assumptions: there is a poller and the bound of the clock is a number.
`OrderInv` says that events and samples are sorted by time, which is what makes the
binary searches right (`SearchFinds`, `WindowIsExact`); `ApiInv` says of each API
that its recorded changes alternate, that the last of them is the state the poller
will assign or has assigned (`LastOf`: record and assignment are two steps), and
that it is down, collected or sampled as down only after a recorded failure
(`CauseOf`); `FinalInv` follows the sampling goroutine to its end: a pass that begins
because the context is done is late, and of the APIs whose outage lasts it has
collected those whose samplers it has called. The statement of
`FailureBeforeDown` uses positions of records in the log (`Changes`).

What `filterSamples` returns is proved by induction over the samples and, within a
sample, over its conditions. After i samples and the conditions D of the next,
`RunsKnown` says: `last` holds the run of every condition of the previous sample
that is still open, `next` those of D, every other interval is a maximal run that is
over, none is missing, none is there twice, and they are in the order of their
beginning. With the last sample the open runs are maximal as well. Of the sort it
is needed that it keeps the elements, repeats none and orders by `Less`.
The print loop asks for the events after the last one it has seen, by time and not
by position. That it neither misses nor repeats any needs that the samplers'
conditions are never recorded (so that a point it prints is an event or the sample
of a single moment, `ApartInv`), that a pass collects no condition twice and has a
time of its own (`SampledInv`), and that what was printed is not after the
position while all that was recorded and not printed is (`PrintedInv`).

**MonitorFunctions.** `ConditionsAreRuns`, `EventsAreOfTheWindow` and
`ChangesAreByName` are about `MCMonitorFunctions`, in which any log can grow and any
two lists can be compared. Assumptions: the bounds are numbers and the names are
finitely many. The searches of the change functions begin at the old position, or there and go round: both find the
entry with the name whenever there is one, since names are different (`FoundByName`,
and `Searches` with `Remainders` for the way round).

**Watchers.** Assumptions: the kinds are those of the module, each with some object,
and the bounds are numbers. `ChangeInv` says that every version of the server
changes one object. For the events' goroutine `EventInv` adds to `NoGap` that it
watches from the version of its last list, that it lists again only when that is
expired, and that the stream is not behind the list nor ahead of what was reached; a
list therefore extends the versions that were jumped over by those between what
was reached and its own (`JumpsKept`: compaction never makes an earlier jump
unjustified). For the informers
`TrackInv` is the strengthening: *at every moment of a watch*, not only when all
is handled, the outcome of the queued deltas (`Target`: that of the last one, or
the store) is the version the reflector has got to, but for what the last list got
wrong; of the versions after it that the stream has passed none changed a selected
object. Joining two deletions keeps the outcome (`EnqueueFacts`), a resync and the
handling of an object's deltas keep it too (`DrainStep`).

The log needs more (`LogInv`), and `KindsAssumption` says that the objects of each
kind stand in a list. `QueueInv` says that only selected objects are queued, stored
and announced and that the log told of what a handler knows; `ChainInv` that the
waiting notifications of an object lead, each from where the one before ends, from
what its handler was last told to what is stored, which is what makes the handlers
catch up with the store; `ToldInv` that the log agrees with
what the handlers were told about every object that was not lost, which is
`LogTellsState` in terms of the object and not of the samplers. `SeenInv` is what makes errors real: as long as no
list was older than what had been seen, the stored object and the outcomes of its
queued deltas were on the server one after the other, at versions in this order and
not beyond the stream, and so were the two objects of each waiting notification. A
handler therefore compares two states the object really went through, unless it
meets a replacement. `CallsInv`
counts: the flag of the list watcher is up while the last request failed, so that
each run of failures makes one record.

**Upgrade.** Assumptions: percentages from 1 to 100, finitely many operators, at
least one attempt of the rollback; the command line names one of the images, or
none; and the cluster is one that its version operator can have left behind
(`ClustersAssumption`). The proof of `PassesAreEarned` is about time: whatever the
test read may be old when it acts on it. `HistoryInv` says that the history has
grown by the test's own update before a poll may believe in its completion,
`RequestInv` that the generation of the test's write has the update it asked for, `SeenInv` that
what a poll has read is behind the cluster, `DecideInv` what the operators may have
become between reading the cluster version and listing them, `ClusterInv` what the
version operator keeps together, `RebootInv` that a late reboot is the last. The
first attempt at this proof failed for a good reason: `PassIsEarned` then named
only the operators that cannot be listed as the way to pass without the rollback.
It held in the instance because no command line asked for the image of the second
writer. The property now names the second way as well and the instance has such a
command line.

Only model-checked: liveness (`ParallelTestsRun`, `ExecuteReturns`,
`UncancelledRunEnds`, `RunEnds`, `ExpiredRelists`, `UpgradeEnds`), since reasoning
about fairness, which is about `ENABLED`, is outside this prover; and the five
counterexamples, which need one behaviour each.

## Not modelled

Output text, durations and the layout of reports; flags, suite tables and
provider detection (`cmd/extended-platform-tests`), which is configuration
without changing state; the enumeration of specs in `ginkgo.go`; the polls for the
machine config pools and the dry run of the upgrade test; the disruption runner,
whose goroutines are those of the vendored chaosmonkey; the tests under
`test/extended` and their utilities, among them the OAuth token client; examples,
bundled data and vendored code, apart from what `Watchers` needs of the informer.

## Plan

Done, in this order: the queue and its promise, one execution, the suite run,
the monitor's queries, the monitor; the queue's theorems; the change functions,
the informers together with the event watcher, the upgrade test; the theorems
about the execution, the suite run, the monitor, the watchers and the upgrade test;
those about the queries, the print loop, the searches and the informers' records.

What could follow:

1. A `Monitor` with a clock that may stand still or be set back.
2. `TestRun` with processes below the child that keep its pipe open.
3. The disruption runner around the upgrade.
