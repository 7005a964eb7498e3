------------------------------ MODULE TestQueue ------------------------------
(***************************************************************************)
(* parallelByFileTestQueue.Execute (pkg/test/ginkgo/queue.go): a pool of   *)
(* worker goroutines takes tests off a ring, skipping tests whose          *)
(* testExclusion is active; a worker that finds only excluded tests sleeps *)
(* on a condition variable whose lock is a no-op; [Serial] tests are set   *)
(* aside and run one by one after all workers left.                        *)
(*                                                                         *)
(* Every critical section under q.lock is one action.  What the code does  *)
(* outside the lock is a step of its own: registering on the condition     *)
(* variable, calling the test function, returning from it.  The test       *)
(* function itself is modelled by its start and its end (TestRun opens it  *)
(* up).                                                                    *)
(***************************************************************************)
EXTENDS Naturals, Sequences, FiniteSets

CONSTANTS Workers,      \* the goroutines, 1 .. parallelism in the code
          Entries,      \* one element per slot of the list of tests
          Serial,       \* the entries whose test name contains "[Serial]"
          Exclusion,    \* testExclusion of each entry
          NoExclusion,  \* the empty testExclusion
          None          \* a nil *testCase

ASSUME WorkersAssumption == IsFiniteSet(Workers) /\ Workers # {}
ASSUME EntriesAssumption == IsFiniteSet(Entries) /\ Serial \subseteq Entries
ASSUME NoneAssumption == None \notin Entries
ASSUME ExclusionAssumption == DOMAIN Exclusion = Entries

VARIABLES queue,      \* q.queue: the ring, read from the pointer onwards
          active,     \* q.active: exclusions of tests in flight
          pc,         \* where each worker is in Take
          held,       \* the test a worker's Take returned from pop with
          serial,     \* Execute's list of deferred serial tests
          main,       \* where Execute itself is
          pos,        \* position of Execute's loop over serial
          ctxDone,    \* parentCtx is done
          closed,     \* the closer goroutine has called q.Close
          runs,       \* how often the test function was called per entry
          completed   \* entries whose test function returned

vars == <<queue, active, pc, held, serial, main, pos, ctxDone, closed, runs, completed>>

Exclusions == {Exclusion[e] : e \in Entries} \ {NoExclusion}

\* The entries of a sequence.
Elements(s) == {s[i] : i \in 1 .. Len(s)}

\* No entry occurs twice in s.
NoRepeats(s) == \A i, j \in 1 .. Len(s) : s[i] = s[j] => i = j

\* The lists of tests newParallelTestQueue can be given: every slot is one entry
\* of the ring, in any order.
Orders == {s \in [1 .. Cardinality(Entries) -> Entries] :
             /\ Elements(s) = Entries
             /\ NoRepeats(s)}

Init == /\ queue \in Orders
        /\ active = {}
        /\ pc = [w \in Workers |-> "take"]
        /\ held = [w \in Workers |-> None]
        /\ serial = << >>
        /\ main = "join"
        /\ pos = 1
        /\ ctxDone = FALSE
        /\ closed = FALSE
        /\ runs = [e \in Entries |-> 0]
        /\ completed = {}

-----------------------------------------------------------------------------
(* The ring and the condition variable *)

\* Seeded fault: unlinks from r itself instead of from r.Prev(), which removes
\* the element after the one handed out.
UnlinkNext(s, k) ==
  [i \in 1 .. Len(s) - 1 |-> IF k = Len(s) THEN s[i + 1]
                             ELSE IF i <= k THEN s[i] ELSE s[i + 1]]

\* The ring s without its k-th element, read from the element before it:
\* q.queue = r.Prev(); q.queue.Unlink(1)
Unlink(s, k) ==
  [i \in 1 .. Len(s) - 1 |->
     IF i = 1 THEN s[IF k = 1 THEN Len(s) ELSE k - 1]
     ELSE IF k + i - 1 <= Len(s) THEN s[k + i - 1] ELSE s[k + i - 1 - Len(s)]]

\* pop may hand out e: no test with its exclusion is in flight.
Eligible(e) == Exclusion[e] \notin active

\* q.cond.Broadcast(): every registered worker leaves Wait and calls pop again.
Broadcast(p) == [w \in Workers |-> IF p[w] = "waiting" THEN "take" ELSE p[w]]

-----------------------------------------------------------------------------
(* Workers: Take, pop, done and the closure Execute passes to Take *)

\* pop on an empty ring: Take returns false and the worker calls wg.Done.
PopEmpty(w) ==
  /\ pc[w] = "take"
  /\ queue = << >>
  /\ pc' = [Broadcast(pc) EXCEPT ![w] = "exited"]
  /\ UNCHANGED <<queue, active, held, serial, main, pos, ctxDone, closed, runs, completed>>

\* Seeded fault: marks the empty exclusion too.
PopTestMarkEmpty(w) ==
  /\ pc[w] = "take"
  /\ \E k \in 1 .. Len(queue) :
       /\ Eligible(queue[k])
       /\ \A j \in 1 .. k - 1 : ~Eligible(queue[j])
       /\ held' = [held EXCEPT ![w] = queue[k]]
       /\ active' = active \cup {Exclusion[queue[k]]}
       /\ queue' = Unlink(queue, k)
  /\ pc' = [pc EXCEPT ![w] = "call"]
  /\ UNCHANGED <<serial, main, pos, ctxDone, closed, runs, completed>>

\* Seeded fault: does not mark the exclusion.
PopTestUnmarked(w) ==
  /\ pc[w] = "take"
  /\ \E k \in 1 .. Len(queue) :
       /\ Eligible(queue[k])
       /\ \A j \in 1 .. k - 1 : ~Eligible(queue[j])
       /\ held' = [held EXCEPT ![w] = queue[k]]
       /\ queue' = Unlink(queue, k)
  /\ pc' = [pc EXCEPT ![w] = "call"]
  /\ UNCHANGED <<active, serial, main, pos, ctxDone, closed, runs, completed>>

\* pop finds the first eligible test, marks its exclusion and unlinks it.
PopTest(w) ==
  /\ pc[w] = "take"
  /\ \E k \in 1 .. Len(queue) :
       /\ Eligible(queue[k])
       /\ \A j \in 1 .. k - 1 : ~Eligible(queue[j])
       /\ held' = [held EXCEPT ![w] = queue[k]]
       /\ active' = active \cup ({Exclusion[queue[k]]} \ {NoExclusion})
       /\ queue' = Unlink(queue, k)
  /\ pc' = [pc EXCEPT ![w] = "call"]
  /\ UNCHANGED <<serial, main, pos, ctxDone, closed, runs, completed>>

\* pop finds only excluded tests: it unlocks and returns (nil, false).
PopNone(w) ==
  /\ pc[w] = "take"
  /\ queue # << >>
  /\ \A k \in 1 .. Len(queue) : ~Eligible(queue[k])
  /\ pc' = [pc EXCEPT ![w] = "missed"]
  /\ UNCHANGED <<queue, active, held, serial, main, pos, ctxDone, closed, runs, completed>>

\* q.cond.Wait(): only now is the worker on the condition's notify list.
Wait(w) ==
  /\ pc[w] = "missed"
  /\ pc' = [pc EXCEPT ![w] = "waiting"]
  /\ UNCHANGED <<queue, active, held, serial, main, pos, ctxDone, closed, runs, completed>>

\* The closure appends a [Serial] test to the list of deferred tests.
DeferSerial(w) ==
  /\ pc[w] = "call"
  /\ held[w] \in Serial
  /\ serial' = Append(serial, held[w])
  /\ pc' = [pc EXCEPT ![w] = "done"]
  /\ UNCHANGED <<queue, active, held, main, pos, ctxDone, closed, runs, completed>>

\* The closure calls the test function for any other test ...
StartTest(w) ==
  /\ pc[w] = "call"
  /\ held[w] \notin Serial
  /\ runs' = [runs EXCEPT ![held[w]] = @ + 1]
  /\ pc' = [pc EXCEPT ![w] = "running"]
  /\ UNCHANGED <<queue, active, held, serial, main, pos, ctxDone, closed, completed>>

\* ... which returns.
FinishTest(w) ==
  /\ pc[w] = "running"
  /\ completed' = completed \cup {held[w]}
  /\ pc' = [pc EXCEPT ![w] = "done"]
  /\ UNCHANGED <<queue, active, held, serial, main, pos, ctxDone, closed, runs>>

\* Seeded fault: the exclusion stays active.
DoneKeepsActive(w) ==
  /\ pc[w] = "done"
  /\ pc' = [Broadcast(pc) EXCEPT ![w] = "take"]
  /\ held' = [held EXCEPT ![w] = None]
  /\ UNCHANGED <<queue, active, serial, main, pos, ctxDone, closed, runs, completed>>

\* The deferred q.done(test); Take returns true and the worker calls it again.
Done(w) ==
  /\ pc[w] = "done"
  /\ active' = active \ {Exclusion[held[w]]}
  /\ pc' = [Broadcast(pc) EXCEPT ![w] = "take"]
  /\ held' = [held EXCEPT ![w] = None]
  /\ UNCHANGED <<queue, serial, main, pos, ctxDone, closed, runs, completed>>

Worker(w) == \/ PopEmpty(w) \/ PopTest(w) \/ PopNone(w) \/ Wait(w)
             \/ DeferSerial(w) \/ StartTest(w) \/ FinishTest(w) \/ Done(w)

-----------------------------------------------------------------------------
(* Execute itself: wg.Wait and the loop over the deferred serial tests *)

\* Seeded fault: waits for one worker only.
JoinAny ==
  /\ main = "join"
  /\ \E w \in Workers : pc[w] = "exited"
  /\ main' = "loop"
  /\ UNCHANGED <<queue, active, pc, held, serial, pos, ctxDone, closed, runs, completed>>

Join ==
  /\ main = "join"
  /\ \A w \in Workers : pc[w] = "exited"
  /\ main' = "loop"
  /\ UNCHANGED <<queue, active, pc, held, serial, pos, ctxDone, closed, runs, completed>>

\* Seeded fault: the loop does not look at the context.
SerialCheckNoCtx ==
  /\ main = "loop"
  /\ pos <= Len(serial)
  /\ main' = "call"
  /\ UNCHANGED <<queue, active, pc, held, serial, pos, ctxDone, closed, runs, completed>>

\* The select at the head of an iteration found parentCtx not done.
SerialCheck ==
  /\ main = "loop"
  /\ pos <= Len(serial)
  /\ ~ctxDone
  /\ main' = "call"
  /\ UNCHANGED <<queue, active, pc, held, serial, pos, ctxDone, closed, runs, completed>>

\* The list is exhausted, or the select found parentCtx done.
Return ==
  /\ main = "loop"
  /\ pos > Len(serial) \/ ctxDone
  /\ main' = "returned"
  /\ UNCHANGED <<queue, active, pc, held, serial, pos, ctxDone, closed, runs, completed>>

SerialStart ==
  /\ main = "call"
  /\ runs' = [runs EXCEPT ![serial[pos]] = @ + 1]
  /\ main' = "running"
  /\ UNCHANGED <<queue, active, pc, held, serial, pos, ctxDone, closed, completed>>

SerialFinish ==
  /\ main = "running"
  /\ completed' = completed \cup {serial[pos]}
  /\ pos' = pos + 1
  /\ main' = "loop"
  /\ UNCHANGED <<queue, active, pc, held, serial, ctxDone, closed, runs>>

Execute == Join \/ SerialCheck \/ Return \/ SerialStart \/ SerialFinish

-----------------------------------------------------------------------------
(* The context and the closer goroutine *)

Cancel ==
  /\ ~ctxDone
  /\ ctxDone' = TRUE
  /\ UNCHANGED <<queue, active, pc, held, serial, main, pos, closed, runs, completed>>

\* The closer goroutine of Execute calls q.Close once the context is done.
Close ==
  /\ ctxDone /\ ~closed
  /\ queue' = << >>
  /\ active' = {}
  /\ pc' = Broadcast(pc)
  /\ closed' = TRUE
  /\ UNCHANGED <<held, serial, main, pos, ctxDone, runs, completed>>

Next == \/ \E w \in Workers : Worker(w)
        \/ Execute
        \/ Cancel
        \/ Close

Spec == Init /\ [][Next]_vars

\* The Go scheduler runs every runnable goroutine, and a test function returns
\* unless the context is done: an uncancelled child is aborted after its timeout,
\* a cancelled one that ignores its SIGINT is left alone (TestRun).  Nothing
\* forces the context to be cancelled.
Fairness == /\ \A w \in Workers : WF_vars(Worker(w) /\ (pc[w] = "running" => ~ctxDone))
            /\ WF_vars(Execute /\ (main = "running" => ~ctxDone))
            /\ WF_vars(Close)

FairSpec == Spec /\ Fairness

-----------------------------------------------------------------------------
(* Properties *)

WorkerState == {"take", "missed", "waiting", "call", "running", "done", "exited"}
MainState == {"join", "loop", "call", "running", "returned"}

\* The variables have their types; in particular the empty exclusion is never
\* marked active (pop's len(t.testExclusion) > 0), which would serialise every
\* test without an exclusion.
TypeOK ==
  /\ queue \in Seq(Entries)
  /\ active \subseteq Exclusions
  /\ pc \in [Workers -> WorkerState]
  /\ held \in [Workers -> Entries \cup {None}]
  /\ serial \in Seq(Serial)
  /\ main \in MainState
  /\ pos \in Nat \ {0}
  /\ ctxDone \in BOOLEAN
  /\ closed \in BOOLEAN
  /\ runs \in [Entries -> Nat]
  /\ completed \subseteq Entries

\* The entries whose test function is being executed.
Running == {held[w] : w \in {v \in Workers : pc[v] = "running"}}
             \cup (IF main = "running" THEN {serial[pos]} ELSE {})

\* Two workers never run tests with the same testExclusion at once, although
\* Close empties q.active while tests are still running.
MutualExclusion ==
  \A v, w \in Workers :
    /\ v # w
    /\ pc[v] = "running" /\ pc[w] = "running"
    => \/ Exclusion[held[v]] # Exclusion[held[w]]
       \/ Exclusion[held[v]] = NoExclusion

\* A [Serial] test runs alone, and only after every other test has finished,
\* even when the context is cancelled during the join or the loop.
SerialAlone ==
  \A e \in Running \cap Serial : Running = {e} /\ Entries \ Serial \subseteq completed

\* No test is run twice, whatever the interleaving of pop, Close and the serial
\* loop; and when Execute returns without having been cancelled, none was lost
\* by the ring surgery in pop: each was run exactly once and has finished.
ExactlyOnce ==
  /\ \A e \in Entries : runs[e] <= 1
  /\ main = "returned" /\ ~ctxDone => completed = Entries /\ \A e \in Entries : runs[e] = 1

\* When Execute has returned, cancelled or not, no test is still running and
\* every started test has finished: the caller may summarise the results.
ReturnsQuiescent ==
  main = "returned" => Running = {} /\ \A e \in Entries : runs[e] > 0 => e \in completed

\* The queue implements the schedule its comment promises.
Status == [e \in Entries |-> IF e \in completed THEN "finished"
                             ELSE IF e \in Running THEN "running" ELSE "pending"]
Schedule == INSTANCE TestSchedule WITH status <- Status,
                                       interrupted <- ctxDone,
                                       returned <- (main = "returned")
ImplementsSchedule == Schedule!Spec

\* Every test that is not [Serial] is eventually run to its end unless the run
\* is cancelled: workers lost on the condition variable never keep a test back,
\* because whoever holds the blocking exclusion comes back to the ring itself.
ParallelTestsRun == \A e \in Entries \ Serial : <>(e \in completed \/ ctxDone)

\* queue.go:12-13: "Serial tests are defered until all other tests are
\* completed": deferred, then run, unless the run is cancelled.
SerialTestsRun == \A e \in Serial : <>(e \in completed \/ ctxDone)

\* Worker w sleeps although pop has an answer for it: the broadcast that should
\* have woken it fell between its pop and its Wait.
Overslept(w) == pc[w] = "waiting" /\ (queue = << >> \/ \E e \in Elements(queue) : Eligible(e))

\* Execute returns, cancelled or not, unless a test function never returns after
\* the cancellation or a worker oversleeps: that window between pop and Wait is
\* the only way for the queue itself to hang.
ExecuteReturns == \/ <>(main = "returned")
                  \/ \E e \in Entries : <>[](ctxDone /\ e \in Running)
                  \/ \E w \in Workers : <>Overslept(w)
-----------------------------------------------------------------------------
(* The inductive invariant behind the properties (see TestQueueProofs) *)

\* A worker holds a test from pop until done.
HoldInv == \A w \in Workers :
  held[w] = None <=> pc[w] \in {"take", "missed", "waiting", "exited"}

\* A test is in one place: on the ring, with one worker, or set aside.
PlaceInv ==
  /\ NoRepeats(queue)
  /\ \A e \in Elements(queue) : e \notin Elements(serial) /\ e \notin completed
  /\ \A w \in Workers : held[w] # None =>
       /\ held[w] \notin Elements(queue)
       /\ \A v \in Workers : held[v] = held[w] => v = w
       /\ pc[w] \in {"call", "running"} => held[w] \notin Elements(serial) \cup completed
       /\ pc[w] = "running" => held[w] \notin Serial
       /\ pc[w] = "done" => held[w] \in Elements(serial) \cup completed

\* Execute runs through the deferred tests in order.
SerialInv ==
  /\ NoRepeats(serial)
  /\ pos <= Len(serial) + 1
  /\ \A i \in 1 .. Len(serial) : serial[i] \in completed <=> i < pos
  /\ completed \cap Serial \subseteq Elements(serial)

\* A test was started once if it is running or has finished, else never.
RunsInv == \A e \in Entries :
  runs[e] = IF \/ e \in completed
               \/ \E w \in Workers : pc[w] = "running" /\ held[w] = e
               \/ main = "running" /\ serial[pos] = e
            THEN 1 ELSE 0

\* Until Close, no test leaves the books.
KeptInv == ~closed => \A e \in Entries :
  \/ e \in Elements(queue) \cup Elements(serial) \cup completed
  \/ \E w \in Workers : held[w] = e

\* A held test's exclusion is active until Close, and no other worker has it.
ExclusionInv == \A w \in Workers : held[w] # None =>
  \/ Exclusion[held[w]] = NoExclusion
  \/ /\ closed \/ Exclusion[held[w]] \in active
     /\ \A v \in Workers : held[v] # None /\ Exclusion[held[v]] = Exclusion[held[w]] => v = w

\* Close and the first worker to leave find the ring empty for good.
DrainInv == /\ closed => ctxDone /\ queue = << >>
            /\ \A w \in Workers : pc[w] = "exited" => queue = << >>

\* The loop over the deferred tests starts when the workers are gone and goes
\* on only while no test has been dropped.
MainInv ==
  /\ main = "join" => pos = 1
  /\ main # "join" => \A w \in Workers : pc[w] = "exited"
  /\ main \in {"call", "running"} => pos <= Len(serial) /\ Entries \ Serial \subseteq completed
  /\ main = "returned" => ctxDone \/ pos > Len(serial)

\* The inductive invariant: types, places, counts, exclusions and the order of
\* the phases of Execute, as they hold between any two steps of its goroutines.
IInv == /\ TypeOK
        /\ HoldInv /\ PlaceInv /\ SerialInv /\ RunsInv
        /\ KeptInv /\ ExclusionInv /\ DrainInv /\ MainInv

=============================================================================
