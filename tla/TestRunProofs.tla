---------------------------- MODULE TestRunProofs ----------------------------
(***************************************************************************)
(* Theorems about TestRun, for any set of executions, any assignment of    *)
(* test objects to them and any behaviour of the children.                 *)
(***************************************************************************)
EXTENDS TestRun, FiniteSetTheorems, TLAPS

-----------------------------------------------------------------------------
(* The inductive invariant *)

\* The phase of Run against the process it started: a child exists once Run has
\* left CombinedOutput's start, and has ended once Run has recorded it.
PhaseInv ==
  \A x \in Executions :
    /\ run[x] = "idle" => dog[x] = "none"
    /\ run[x] \in {"idle", "starting"} <=> child[x] = "none"
    /\ x \in Recorded => child[x] \in Endings

\* The exit code against the verdict: the two codes that Run does not take for a
\* failure are those of a spec that passed or was skipped, and only of those.
ExitInv ==
  \A x \in Executions : /\ child[x] = "exit0" <=> summary[x] = "passed"
                        /\ child[x] = "exit3" <=> summary[x] = "skipped"

\* The watchdog against the signals: none before it wakes or before the process
\* exists, an interrupt before the grace period unless there was no process to
\* interrupt, and an abort at its end.
SignalInv ==
  \A x \in Executions :
    /\ dog[x] \in {"none", "armed"} => signals[x] = {}
    /\ dog[x] = "grace" /\ child[x] = "running" => "INT" \in signals[x] \/ x \in early
    /\ dog[x] = "grace" /\ child[x] = "none" => x \in early
    /\ dog[x] = "over" /\ child[x] \in {"none", "running"} =>
         "ABRT" \in signals[x] \/ ctxDone \/ x \in early
    /\ "ABRT" \in signals[x] => "INT" \in signals[x] \/ x \in early

\* The executions that were recorded as failures.
FailedRuns == {x \in Recorded : child[x] \notin {"exit0", "exit3"}}

\* The flags of the test objects are exactly those of the recorded executions.
FlagInv ==
  /\ success = {TestOf[x] : x \in {y \in Recorded : child[y] = "exit0"}}
  /\ skipped = {TestOf[x] : x \in {y \in Recorded : child[y] = "exit3"}}
  /\ failed = {TestOf[x] : x \in FailedRuns}

IInv == TypeOK /\ PhaseInv /\ ExitInv /\ SignalInv /\ FlagInv

-----------------------------------------------------------------------------
(* Every step keeps it *)

\* The steps that record nothing leave the recorded executions, and so the flags,
\* as they are.
LEMMA FlagsKept ==
  ASSUME IInv, UNCHANGED flags, Recorded' = Recorded,
         \A x \in Recorded : child'[x] = child[x]
  PROVE  FlagInv'
BY DEF IInv, FlagInv, FailedRuns, flags

\* Run prints "started" and arms the watchdog.
LEMMA BeginStep ==
  ASSUME IInv, NEW x \in Executions, Begin(x)
  PROVE  IInv'
<1> USE DEF IInv
<1>1. TypeOK'
  BY ExecutionsAssumption, FS_CardinalityType DEF Begin, TypeOK, flags
<1>2. PhaseInv'
  BY DEF Begin, TypeOK, PhaseInv, Recorded
<1>3. ExitInv' /\ SignalInv'
  BY DEF Begin, TypeOK, PhaseInv, ExitInv, SignalInv
<1>4. FlagInv'
  BY FlagsKept DEF Begin, TypeOK, Recorded
<1> QED BY <1>1, <1>2, <1>3, <1>4

\* The child is started, or cannot be.
LEMMA SpawnStep ==
  ASSUME IInv, NEW x \in Executions, Spawn(x) \/ SpawnFails(x)
  PROVE  IInv'
<1> USE DEF IInv
<1>1. PICK c \in {"running", "notstarted"} : child' = [child EXCEPT ![x] = c]
  BY DEF Spawn, SpawnFails
<1>2. /\ run[x] = "starting" /\ run' = [run EXCEPT ![x] = "waiting"]
      /\ UNCHANGED <<summary, dog, signals, flags, failures, index, ctxDone, early>>
  BY DEF Spawn, SpawnFails
<1>3. TypeOK'
  BY <1>1, <1>2 DEF TypeOK, flags, Endings
<1>4. PhaseInv'
  BY <1>1, <1>2 DEF TypeOK, PhaseInv, Recorded, Endings
<1>5. ExitInv' /\ SignalInv'
  BY <1>1, <1>2 DEF TypeOK, PhaseInv, ExitInv, SignalInv
<1>6. FlagInv'
  BY <1>1, <1>2, FlagsKept DEF TypeOK, Recorded
<1> QED BY <1>3, <1>4, <1>5, <1>6

\* The child ends, by itself or by a signal.  Its exit code is that of a passed
\* or a skipped spec only when ginkgo said so.
LEMMA ChildStep ==
  ASSUME IInv, NEW x \in Executions, Child(x)
  PROVE  IInv'
<1> USE DEF IInv
<1>1. PICK end \in Endings, sum \in Summaries \cup {"unfinished"} :
         /\ child' = [child EXCEPT ![x] = end]
         /\ summary' = [summary EXCEPT ![x] = sum]
         /\ end = "exit0" <=> sum = "passed"
         /\ end = "exit3" <=> sum = "skipped"
  <2>1. CASE ChildEnds(x)
    <3>1. PICK sum \in Summaries : /\ summary' = [summary EXCEPT ![x] = sum]
                                   /\ child' = [child EXCEPT ![x] = ExitCode(RunTest(sum))]
      BY <2>1 DEF ChildEnds
    <3>2. ExitCode(RunTest(sum)) = IF sum = "passed" THEN "exit0"
                                   ELSE IF sum = "skipped" THEN "exit3" ELSE "exit1"
      BY DEF Summaries, RunTest, ExitCode
    <3> QED BY <3>1, <3>2 DEF Endings
  <2>2. CASE ChildDies(x) \/ ChildAborts(x)
    <3>1. PICK end \in {"exit2", "killed"} : child' = [child EXCEPT ![x] = end]
      BY <2>2 DEF ChildDies, ChildAborts
    <3>2. child[x] = "running" /\ UNCHANGED summary
      BY <2>2 DEF ChildDies, ChildAborts
    <3>3. summary[x] \notin {"passed", "skipped"} /\ summary[x] \in Summaries \cup {"unfinished"}
      BY <3>2 DEF ExitInv, TypeOK
    <3>4. summary' = [summary EXCEPT ![x] = summary[x]]
      BY <3>2 DEF TypeOK
    <3> QED BY <3>1, <3>3, <3>4 DEF Endings
  <2> QED BY <2>1, <2>2 DEF Child
<1>2. child[x] = "running" /\ UNCHANGED <<run, dog, signals, flags, failures, index, ctxDone, early>>
  BY DEF Child, ChildEnds, ChildDies, ChildAborts
<1>3. TypeOK'
  BY <1>1, <1>2 DEF TypeOK, flags
<1>4. PhaseInv'
  BY <1>1, <1>2 DEF TypeOK, PhaseInv, Recorded, Endings
<1>5. ExitInv'
  BY <1>1, <1>2 DEF TypeOK, ExitInv
<1>6. SignalInv'
  BY <1>1, <1>2 DEF TypeOK, SignalInv, Endings
<1>7. x \notin Recorded
  BY <1>2 DEF PhaseInv, Endings
<1>8. FlagInv'
  BY <1>1, <1>2, <1>7, FlagsKept DEF TypeOK, Recorded
<1> QED BY <1>3, <1>4, <1>5, <1>6, <1>8

\* The watchdog interrupts, aborts or leaves.
LEMMA WatchdogStep ==
  ASSUME IInv, NEW x \in Executions, Watchdog(x)
  PROVE  IInv'
<1> USE DEF IInv
<1>1. UNCHANGED <<summary, run, child, flags, failures, index, ctxDone>>
  BY DEF Watchdog, Timeout, GraceOver, DogCancelled
<1>2. PhaseInv'
  BY <1>1 DEF Watchdog, Timeout, GraceOver, DogCancelled, TypeOK, PhaseInv, Recorded
<1>3. ExitInv'
  BY <1>1 DEF ExitInv
<1>4. FlagInv'
  BY <1>1, FlagsKept DEF Recorded
<1>5. CASE Timeout(x)
  <2>1. TypeOK'
    BY <1>1, <1>5 DEF Timeout, Signal, TypeOK, flags
  <2>2. SignalInv'
    BY <1>1, <1>5 DEF Timeout, Signal, TypeOK, PhaseInv, SignalInv
  <2> QED BY <1>2, <1>3, <1>4, <2>1, <2>2
<1>6. CASE GraceOver(x)
  <2>1. TypeOK'
    BY <1>1, <1>6 DEF GraceOver, Signal, TypeOK, flags
  <2>2. SignalInv'
    BY <1>1, <1>6 DEF GraceOver, Signal, TypeOK, SignalInv
  <2> QED BY <1>2, <1>3, <1>4, <2>1, <2>2
<1>7. CASE DogCancelled(x)
  <2>1. TypeOK'
    BY <1>1, <1>7 DEF DogCancelled, Signal, TypeOK, flags
  <2>2. SignalInv'
    BY <1>1, <1>7 DEF DogCancelled, Signal, TypeOK, SignalInv
  <2> QED BY <1>2, <1>3, <1>4, <2>1, <2>2
<1> QED BY <1>5, <1>6, <1>7 DEF Watchdog

\* Run records the outcome.
LEMMA RecordStep ==
  ASSUME IInv, NEW x \in Executions, Record(x)
  PROVE  IInv'
<1> USE DEF IInv
<1>1. TypeOK'
  BY ExecutionsAssumption DEF Record, TypeOK
<1>2. PhaseInv'
  BY DEF Record, TypeOK, PhaseInv, Recorded, Endings
<1>3. ExitInv' /\ SignalInv'
  BY DEF Record, ExitInv, SignalInv
<1>4. Recorded' = Recorded \cup {x} /\ x \notin Recorded /\ UNCHANGED child
  BY DEF Record, TypeOK, Recorded
<1>5. FlagInv'
  BY <1>4 DEF Record, FlagInv, FailedRuns
<1> QED BY <1>1, <1>2, <1>3, <1>5

\* Run reports it.
LEMMA ReportStep ==
  ASSUME IInv, NEW x \in Executions, Report(x)
  PROVE  IInv'
<1> USE DEF IInv
<1>1. TypeOK'
  BY DEF Report, TypeOK, flags
<1>2. Recorded' = Recorded /\ UNCHANGED <<child, flags>>
  BY DEF Report, TypeOK, Recorded
<1>3. PhaseInv'
  BY <1>2 DEF Report, TypeOK, PhaseInv, Recorded
<1>4. ExitInv' /\ SignalInv'
  BY DEF Report, ExitInv, SignalInv
<1>5. FlagInv'
  BY <1>2, FlagsKept
<1> QED BY <1>1, <1>3, <1>4, <1>5

\* No step of Run, of the child, of the watchdog or of the context breaks it.
LEMMA NextStep ==
  ASSUME IInv, [Next]_vars
  PROVE  IInv'
<1>1. CASE \E x \in Executions : Run(x) \/ Watchdog(x) \/ Child(x)
  BY <1>1, BeginStep, SpawnStep, RecordStep, ReportStep, WatchdogStep, ChildStep DEF Run
<1>2. CASE Cancel \/ UNCHANGED vars
  <2>1. /\ UNCHANGED <<summary, run, dog, child, signals, flags, failures, index, early>>
        /\ ctxDone' \in BOOLEAN /\ (ctxDone => ctxDone')
    BY <1>2 DEF Cancel, vars, flags, IInv, TypeOK
  <2>2. TypeOK'
    BY <2>1 DEF IInv, TypeOK, flags
  <2>3. PhaseInv' /\ ExitInv' /\ SignalInv' /\ FlagInv'
    BY <2>1 DEF IInv, PhaseInv, ExitInv, SignalInv, FlagInv, FailedRuns, Recorded, flags
  <2> QED BY <2>2, <2>3 DEF IInv
<1> QED BY <1>1, <1>2 DEF Next

\* The inductive invariant holds whatever the children do.
THEOREM Invariance == Spec => []IInv
<1>1. Init => IInv
  <2> SUFFICES ASSUME Init PROVE IInv
    OBVIOUS
  <2>0. index \in 0 .. Cardinality(Executions)
    BY ExecutionsAssumption, FS_CardinalityType, Cardinality(Executions) \in Nat DEF Init
  <2>1. TypeOK
    BY <2>0, Zenon DEF Init, TypeOK
  <2>2. PhaseInv /\ ExitInv /\ SignalInv
    BY DEF Init, PhaseInv, ExitInv, SignalInv, Recorded
  <2>3. Recorded = {}
    BY DEF Init, Recorded
  <2>4. FlagInv
    BY <2>3 DEF Init, FlagInv, FailedRuns
  <2> QED BY <2>1, <2>2, <2>4 DEF IInv
<1>2. IInv /\ [Next]_vars => IInv'
  BY NextStep
<1> QED BY <1>1, <1>2, PTL DEF Spec

-----------------------------------------------------------------------------
(* What follows from it *)

\* The variables of TestRun have their types in every behaviour.
THEOREM TypeCorrect == Spec => []TypeOK
<1>1. IInv => TypeOK
  BY DEF IInv
<1> QED BY <1>1, Invariance, PTL

\* However a child ends, testStatus.Run leaves a flag on the test object.
THEOREM NoResultIsLost == Spec => []NoResultLost
<1>1. IInv => NoResultLost
  BY DEF IInv, FlagInv, FailedRuns, NoResultLost
<1> QED BY <1>1, Invariance, PTL

\* A pass or a skip was said by ginkgo in a child that ran the test, and whatever
\* else happened to a child is recorded as a failure.
THEOREM VerdictsAreEarned == Spec => []VerdictsEarned
<1>1. IInv => VerdictsEarned
  BY DEF IInv, FlagInv, FailedRuns, ExitInv, Recorded, VerdictsEarned
<1> QED BY <1>1, Invariance, PTL

\* runWithTimeout never aborts a child that it has not interrupted, unless the
\* timeout fired before the process existed, and always comes to the abort unless
\* the run is cancelled.
THEOREM AbortsAfterInterrupt == Spec => []AbortAfterInterrupt
<1>1. IInv => AbortAfterInterrupt
  BY DEF IInv, SignalInv, AbortAfterInterrupt
<1> QED BY <1>1, Invariance, PTL

-----------------------------------------------------------------------------
(* The failure count *)

\* The executions whose "failed" line has been printed.
ReportedFailures == {x \in FailedRuns : run[x] = "reported"}

\* Counting one more execution.
LEMMA CountOneMore ==
  ASSUME NEW S, NEW T \in SUBSET S, IsFiniteSet(S), NEW x \in S, x \notin T
  PROVE  Cardinality(T) \in Nat /\ Cardinality(T \cup {x}) = Cardinality(T) + 1
BY FS_Subset, FS_CardinalityType, FS_AddElement

\* Only Report changes the set, and it adds its execution when that one failed.
LEMMA ReportedFailuresStep ==
  ASSUME IInv, [Next]_vars
  PROVE  \/ /\ ReportedFailures' = ReportedFailures
            /\ failures' = failures \/ \E x \in Executions : Report(x) /\ x \notin FailedRuns
         \/ \E x \in FailedRuns \ ReportedFailures :
              Report(x) /\ ReportedFailures' = ReportedFailures \cup {x}
<1> USE DEF IInv
<1>1. ASSUME NEW x \in Executions, Report(x)
      PROVE  ReportedFailures' = IF x \in FailedRuns THEN ReportedFailures \cup {x}
                                 ELSE ReportedFailures
  BY <1>1 DEF Report, TypeOK, ReportedFailures, FailedRuns, Recorded
<1>2. ASSUME NEW x \in Executions, Report(x) PROVE x \notin ReportedFailures
  BY <1>2 DEF Report, ReportedFailures
<1>3. ASSUME NEW x \in Executions, Begin(x) \/ Spawn(x) \/ SpawnFails(x) \/ Record(x)
      PROVE  ReportedFailures' = ReportedFailures /\ failures' = failures
  BY <1>3 DEF Begin, Spawn, SpawnFails, Record, TypeOK, ReportedFailures, FailedRuns, Recorded
<1>4. ASSUME NEW x \in Executions, Child(x)
      PROVE  ReportedFailures' = ReportedFailures /\ failures' = failures
  <2>1. child[x] = "running" /\ UNCHANGED <<run, failures>> /\ \A y \in Executions \ {x} : child'[y] = child[y]
    BY <1>4 DEF Child, ChildEnds, ChildDies, ChildAborts, TypeOK
  <2>2. x \notin Recorded
    BY <2>1 DEF PhaseInv, Endings
  <2> QED BY <2>1, <2>2 DEF ReportedFailures, FailedRuns, Recorded
<1>5. ASSUME NEW x \in Executions, Watchdog(x)
      PROVE  ReportedFailures' = ReportedFailures /\ failures' = failures
  BY <1>5 DEF Watchdog, Timeout, GraceOver, DogCancelled, ReportedFailures, FailedRuns, Recorded
<1>6. CASE Cancel \/ UNCHANGED vars
  BY <1>6 DEF Cancel, vars, ReportedFailures, FailedRuns, Recorded
<1>7. FailedRuns \subseteq Executions
  BY DEF FailedRuns, Recorded
<1> QED BY <1>1, <1>2, <1>3, <1>4, <1>5, <1>6, <1>7 DEF Next, Run

\* What Report adds to the count, in terms of its own execution alone.
LEMMA ReportCounts ==
  ASSUME IInv, NEW x \in Executions, Report(x)
  PROVE  /\ failures' \in {failures, failures + 1}
         /\ failures' # failures => x \in FailedRuns
BY DEF Report, IInv, TypeOK, FlagInv, FailedRuns, Recorded

\* The count printed with each "started" line never exceeds the number of failed
\* executions reported so far, also when --count runs a test object several times
\* and its executions share their flags.
THEOREM NeverOvercounts == Spec => [](failures <= Cardinality(ReportedFailures))
<1> DEFINE Bounded == failures <= Cardinality(ReportedFailures)
<1>1. Init => Bounded
  BY FS_EmptySet DEF Init, ReportedFailures, FailedRuns, Recorded
<1>2. ASSUME IInv, Bounded, [Next]_vars PROVE Bounded'
  <2>1. /\ failures \in Nat /\ IsFiniteSet(ReportedFailures)
        /\ ReportedFailures \in SUBSET Executions
    BY <1>2, ExecutionsAssumption, FS_Subset DEF IInv, TypeOK, ReportedFailures, FailedRuns, Recorded
  <2>2. Cardinality(ReportedFailures) \in Nat
    BY <2>1, FS_CardinalityType
  <2>3. CASE ReportedFailures' = ReportedFailures /\ failures' = failures
    BY <1>2, <2>3
  <2>4. CASE \E x \in Executions : /\ ReportedFailures' = ReportedFailures
                                   /\ Report(x) /\ x \notin FailedRuns
    BY <1>2, <2>4, ReportCounts
  <2>5. ASSUME NEW x \in FailedRuns \ ReportedFailures,
               Report(x), ReportedFailures' = ReportedFailures \cup {x}
        PROVE  Bounded'
    <3>1. x \in Executions
      BY <2>5 DEF FailedRuns, Recorded
    <3>2. Cardinality(ReportedFailures \cup {x}) = Cardinality(ReportedFailures) + 1
      BY <2>1, <2>5, <3>1, CountOneMore, ExecutionsAssumption
    <3>3. failures' \in {failures, failures + 1}
      BY <1>2, <2>5, <3>1, ReportCounts
    <3> QED BY <1>2, <2>1, <2>2, <2>5, <3>2, <3>3
  <2> QED BY <1>2, <2>3, <2>4, <2>5, ReportedFailuresStep
<1> QED BY <1>1, <1>2, Invariance, PTL DEF Spec

\* Every test object is executed once, as in a suite that is run without --count.
OnceEach == \A x, y \in Executions : TestOf[x] = TestOf[y] => x = y

\* Then a test object is failed exactly when its own execution failed.
LEMMA OwnFlag ==
  ASSUME IInv, OnceEach, NEW x \in Recorded
  PROVE  /\ TestOf[x] \in failed <=> x \in FailedRuns
         /\ x \in FailedRuns => TestOf[x] \notin success \cup skipped
BY DEF IInv, OnceEach, FlagInv, FailedRuns, Recorded

\* When every test object is executed once, the running failure count is the
\* number of failed tests reported so far.
THEOREM FailuresAreExact == OnceEach => (Spec => []FailuresExact)
<1> SUFFICES ASSUME OnceEach PROVE Spec => []FailuresExact
  OBVIOUS
<1> DEFINE Exact == failures = Cardinality(ReportedFailures)
<1>1. Init => Exact
  BY FS_EmptySet DEF Init, ReportedFailures, FailedRuns, Recorded
<1>2. ASSUME IInv, Exact, [Next]_vars PROVE Exact'
  <2>1. ReportedFailures \in SUBSET Executions
    BY DEF ReportedFailures, FailedRuns, Recorded
  <2>2. CASE ReportedFailures' = ReportedFailures /\ failures' = failures
    BY <1>2, <2>2
  <2>3. ASSUME NEW x \in Executions, Report(x), x \notin FailedRuns, ReportedFailures' = ReportedFailures
        PROVE  Exact'
    BY <1>2, <2>3, ReportCounts
  <2>4. ASSUME NEW x \in FailedRuns \ ReportedFailures,
               Report(x), ReportedFailures' = ReportedFailures \cup {x}
        PROVE  Exact'
    <3>1. x \in Executions /\ x \in Recorded
      BY <2>4 DEF FailedRuns, Recorded
    <3>2. failures' = failures + 1
      BY <1>2, <2>4, <3>1, OwnFlag DEF Report
    <3>3. Cardinality(ReportedFailures \cup {x}) = Cardinality(ReportedFailures) + 1
      BY <2>1, <2>4, <3>1, CountOneMore, ExecutionsAssumption
    <3> QED BY <1>2, <2>4, <3>2, <3>3
  <2> QED BY <1>2, <2>2, <2>3, <2>4, ReportedFailuresStep
<1>3. ASSUME IInv, Exact PROVE FailuresExact
  <2>1. ReportedFailures = {x \in Executions : run[x] = "reported" /\ TestOf[x] \in failed}
    BY <1>3, OwnFlag DEF ReportedFailures, FailedRuns, Recorded
  <2> QED BY <1>3, <2>1 DEF FailuresExact
<1> QED BY <1>1, <1>2, <1>3, Invariance, PTL DEF Spec
=============================================================================
