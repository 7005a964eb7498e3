--------------------------- MODULE RunSuiteProofs ---------------------------
(***************************************************************************)
(* Theorems about RunSuite, for any tests, exclusions, flake limits and    *)
(* signals.  Those about the outcome of the command and about the report   *)
(* are for runs in which no test is repeated (Count = 1).                  *)
(***************************************************************************)
EXTENDS RunSuite, FiniteSetTheorems, TLAPS

-----------------------------------------------------------------------------
(* The inductive invariant *)

\* The handler listens from the end of the set-up on, and the context is done
\* once it has cancelled it.
HandlerInv == /\ handler = "none" <=> phase = "setup"
              /\ ctxDone <=> handler = "second"

\* Which tests have been started in each phase, and which are still running; Run
\* leaves a queue when all its tests have finished, or cancelled.
QueueInv ==
  /\ \A e \in Entries : verdict[e] = "none" <=> status[e] # "finished"
  /\ Running \subseteq Queue(phase)
  /\ phase = "setup" => \A e \in Entries : status[e] = "pending"
  /\ phase = "smoke" => \A e \in Entries \ SmokeRuns : status[e] = "pending"
  /\ phase \notin {"setup", "smoke"} => ctxDone \/ \A e \in SmokeRuns : status[e] = "finished"
  /\ phase \notin {"setup", "smoke", "normal"} => ctxDone \/ \A e \in Runs : status[e] = "finished"

\* The flags of the test objects are exactly those of the finished executions.
FlagInv ==
  /\ success = {Object(e) : e \in {f \in Entries : verdict[f] = "pass"}}
  /\ failed = {Object(e) : e \in {f \in Entries : verdict[f] = "fail"}}
  /\ skipped = {Object(e) : e \in {f \in Entries : verdict[f] = "skip"}}

\* What summarizeTests counted stays true: the retries do not touch the objects of
\* the tests they repeat.  They are run only when the suite tolerates the failures,
\* and then strike out those they redeem.
SummaryInv ==
  /\ phase \in {"retry", "judge", "report", "return", "end"} => counts.fail = Cardinality(Failing)
  /\ phase \in {"retry", "judge"} => failing = Failing /\ RetryAllowed(Cardinality(Failing))
  /\ phase \in {"report", "return", "end"} =>
       failing = IF RetryAllowed(Cardinality(Failing)) THEN {e \in Failing : RetryOf(e) \notin success}
                 ELSE Failing

\* A retry that was started is that of a failing test, and was allowed.
RetryInv ==
  \A e \in Retries : status[e] # "pending" =>
    /\ phase \in {"retry", "judge", "report", "return", "end"}
    /\ RetryAllowed(Cardinality(Failing))
    /\ \E f \in Failing : e = RetryOf(f)

\* A report that was written is still the one of the flags.
ReportInv == junit.written => phase \in {"return", "end"} /\ junit = JUnitCounts

\* The error that Run returns for failing tests.
Red == counts.fail > 0 /\ (failing # {} \/ limit = 0)

\* How the command ends.
ResultInv ==
  /\ result = "nil" => phase = "end" /\ ~ctxDone /\ ~Red
  /\ result = "error" => phase = "setup" \/ (phase = "end" /\ Red)

IInv == /\ TypeOK /\ HandlerInv /\ QueueInv /\ FlagInv
        /\ SummaryInv /\ RetryInv /\ ReportInv /\ ResultInv

-----------------------------------------------------------------------------
(* The entries of the list of tests *)

\* Repetitions share the object of the first; a retry has its own, so no retry
\* touches the flags of a test of the list.
LEMMA EntryFacts ==
  /\ Runs \cap Retries = {}
  /\ \A e \in Runs : Object(e) \in Runs /\ RetryOf(e) \in Retries
  /\ \A e \in Retries : Object(e) = e
<1>1. ASSUME NEW e \in Runs PROVE Object(e) \in Runs /\ RetryOf(e) \in Retries
  BY NumbersAssumption DEF Object, RetryOf, Runs, Retries
<1>2. Runs \cap Retries = {}
  BY DEF Runs, Retries
<1>3. \A e \in Retries : Object(e) = e
  BY <1>2 DEF Object
<1> QED BY <1>1, <1>2, <1>3

\* Unrepeated, every entry is its own object.
LEMMA OwnObject ==
  ASSUME Count = 1
  PROVE  \A e \in Entries : Object(e) = e
<1>1. \A e \in Runs : e = <<"run", e[2], 1>>
  BY DEF Runs
<1> QED BY <1>1, EntryFacts DEF Object, Entries

\* The list of tests is finite.
LEMMA RunsFinite == IsFiniteSet(Runs)
<1>1. IsFiniteSet(Tests \X (1 .. Count))
  <2>1. IsFiniteSet(1 .. Count)
    <3>1. 1 \in Int /\ Count \in Int
      BY NumbersAssumption
    <3> QED BY <3>1, FS_Interval
  <2> QED BY <2>1, TestsAssumption, FS_Product
<1> DEFINE f == [p \in Tests \X (1 .. Count) |-> <<"run", p[1], p[2]>>]
<1>2. f \in [Tests \X (1 .. Count) -> Runs]
  BY DEF Runs
<1>3. ASSUME NEW e \in Runs PROVE \E p \in Tests \X (1 .. Count) : f[p] = e
  <2>1. /\ <<e[2], e[3]>> \in Tests \X (1 .. Count)
        /\ e = <<"run", e[2], e[3]>>
    BY DEF Runs
  <2>2. f[<<e[2], e[3]>>] = e
    BY <2>1
  <2> QED BY <2>1, <2>2
<1>4. f \in Surjection(Tests \X (1 .. Count), Runs)
  BY <1>2, <1>3 DEF Surjection
<1> QED BY <1>1, <1>4, FS_Surjection

\* Every set of tests of the list is finite and has a number of elements.
LEMMA SomeRuns ==
  ASSUME NEW S, S \subseteq Runs
  PROVE  IsFiniteSet(S) /\ Cardinality(S) \in Nat
BY RunsFinite, FS_Subset, FS_CardinalityType

\* Disjoint sets of tests of the list add up.
LEMMA Adds ==
  ASSUME NEW S, NEW T, S \subseteq Runs, T \subseteq Runs, S \cap T = {}
  PROVE  Cardinality(S \cup T) = Cardinality(S) + Cardinality(T)
<1>1. /\ IsFiniteSet(S) /\ Cardinality(S) \in Nat
      /\ IsFiniteSet(T) /\ Cardinality(T) \in Nat
  BY SomeRuns
<1>2. Cardinality(S \cap T) = 0
  BY FS_EmptySet
<1>3. Cardinality(S \cup T) = Cardinality(S) + Cardinality(T) - Cardinality(S \cap T)
  BY <1>1, FS_Union
<1> QED BY <1>1, <1>2, <1>3

\* The queues that Run builds hold tests of the list, or retries of failing ones.
LEMMA QueueFacts ==
  ASSUME TypeOK
  PROVE  /\ Queue("smoke") = SmokeRuns /\ Queue("normal") = NormalRuns
         /\ Queue("retry") \subseteq Retries
         /\ \A p \in Phases \ {"smoke", "normal", "retry"} : Queue(p) = {}
<1>1. Queue("smoke") = SmokeRuns /\ Queue("normal") = NormalRuns
  BY DEF Queue, SmokeRuns, NormalRuns
<1>2. Queue("retry") = {RetryOf(e) : e \in failing}
  BY DEF Queue
<1>3. Queue("retry") \subseteq Retries
  BY <1>2, EntryFacts DEF TypeOK
<1>4. \A p \in Phases \ {"smoke", "normal", "retry"} : Queue(p) = {}
  BY DEF Queue, Phases
<1> QED BY <1>1, <1>3, <1>4

-----------------------------------------------------------------------------
(* Every step keeps the invariant *)

\* Nothing is started, counted or written yet.
LEMMA InitInv ==
  ASSUME Init
  PROVE  IInv
<1>1. TypeOK
  BY DEF Init, TypeOK, Phases, Results, NoReport
<1>2. HandlerInv /\ SummaryInv /\ ReportInv /\ ResultInv
  BY DEF Init, HandlerInv, SummaryInv, ReportInv, ResultInv, NoReport
<1>3. QueueInv
  BY DEF Init, QueueInv, Running
<1>4. FlagInv
  BY DEF Init, FlagInv
<1>5. RetryInv
  BY DEF Init, RetryInv, Entries
<1> QED BY <1>1, <1>2, <1>3, <1>4, <1>5 DEF IInv

\* A step that ends no execution keeps what is said of the flags.
LEMMA FlagsKept ==
  ASSUME IInv, UNCHANGED <<verdict, flags>>
  PROVE  FlagInv' /\ Failing' = Failing
BY DEF IInv, FlagInv, Failing, Flagged, flags

\* A step that starts no retry, keeps the failing tests and does not go back in
\* Run keeps what is said of the retries.
LEMMA RetriesKept ==
  ASSUME RetryInv, Failing' = Failing, UNCHANGED limit,
         \A e \in Retries : status'[e] # "pending" => status[e] # "pending",
         \/ phase' = phase
         \/ phase \in {"setup", "smoke", "normal", "summarize"}
         \/ phase' \in {"retry", "judge", "report", "return", "end"}
  PROVE  RetryInv'
<1>1. RetryAllowed(Cardinality(Failing))' <=> RetryAllowed(Cardinality(Failing))
  BY DEF RetryAllowed
<1> QED BY <1>1 DEF RetryInv

\* A step that keeps the flags keeps what the report would hold.
LEMMA JUnitKept ==
  ASSUME UNCHANGED <<flags, synthetic>>
  PROVE  JUnitCounts' = JUnitCounts
BY DEF JUnitCounts, Flagged, flags

\* The set-up fails, is all there is, or leads to the first queue.
LEMMA SetupStep ==
  ASSUME IInv, SetupFails \/ DryRun \/ SetupDone
  PROVE  IInv'
<1> USE DEF IInv
<1>1. /\ phase = "setup" /\ result = "running" /\ UNCHANGED <<limit, tests, summary, junit, ctxDone>>
      /\ \/ result' \in {"error", "dry"} /\ UNCHANGED <<phase, handler>>
         \/ phase' = "smoke" /\ handler' = "first" /\ UNCHANGED result
  BY DEF SetupFails, DryRun, SetupDone, At
<1>2. UNCHANGED <<status, verdict, success, failed, skipped, counts, failing, synthetic, junit, limit, ctxDone>>
  BY <1>1 DEF tests, flags, summary
<1>3. TypeOK'
  BY <1>1, <1>2 DEF TypeOK, Phases, Results
<1>4. HandlerInv' /\ SummaryInv' /\ ReportInv' /\ ResultInv'
  BY <1>1, <1>2 DEF HandlerInv, SummaryInv, ReportInv, ResultInv
<1>5. QueueInv'
  <2>1. Running = {} /\ Running' = {}
    BY <1>1, <1>2 DEF QueueInv, Running
  <2> QED BY <1>1, <1>2, <2>1 DEF QueueInv
<1>6. FlagInv' /\ Failing' = Failing
  BY <1>1, FlagsKept DEF tests
<1>7. RetryInv'
  BY <1>1, <1>2, <1>6, RetriesKept
<1> QED BY <1>3, <1>4, <1>5, <1>6, <1>7

\* A queue starts a test.
LEMMA StartStep ==
  ASSUME IInv, NEW e \in Entries, StartTest(e)
  PROVE  IInv'
<1> USE DEF IInv
<1>1. /\ e \in Queue(phase) /\ result = "running" /\ status[e] = "pending"
      /\ status' = [status EXCEPT ![e] = "running"]
      /\ UNCHANGED <<limit, phase, verdict, flags, summary, junit, ctxDone, handler, result>>
  BY DEF StartTest
<1>2. UNCHANGED <<success, failed, skipped, counts, failing, synthetic>>
  BY <1>1 DEF flags, summary
<1>3. TypeOK'
  BY <1>1, <1>2 DEF TypeOK
<1>4. HandlerInv' /\ ResultInv'
  BY <1>1, <1>2 DEF HandlerInv, ResultInv, Red
<1>5. \/ phase = "smoke" /\ e \in SmokeRuns
      \/ phase = "normal" /\ e \in NormalRuns
      \/ phase = "retry" /\ e \in Retries
  BY <1>1, QueueFacts DEF TypeOK
<1>6. QueueInv'
  <2>1. \A f \in Entries : status'[f] = IF f = e THEN "running" ELSE status[f]
    BY <1>1 DEF TypeOK
  <2>2. \A f \in Entries : verdict'[f] = "none" <=> status'[f] # "finished"
    BY <1>1, <2>1 DEF QueueInv
  <2>3. Queue(phase)' = Queue(phase)
    BY <1>1, <1>2 DEF Queue
  <2>4. Running' \subseteq Queue(phase)'
    BY <1>1, <2>1, <2>3 DEF QueueInv, Running
  <2>5. phase' = "smoke" => \A f \in Entries \ SmokeRuns : status'[f] = "pending"
    BY <1>1, <1>5, <2>1, EntryFacts DEF QueueInv, NormalRuns, SmokeRuns
  <2>6. phase' \notin {"setup", "smoke"} => ctxDone' \/ \A f \in SmokeRuns : status'[f] = "finished"
    BY <1>1, <1>5, <2>1, EntryFacts DEF QueueInv, NormalRuns, SmokeRuns, Entries
  <2>7. phase' \notin {"setup", "smoke", "normal"} => ctxDone' \/ \A f \in Runs : status'[f] = "finished"
    BY <1>1, <1>5, <2>1, EntryFacts DEF QueueInv, Entries
  <2>8. phase' # "setup"
    BY <1>1, <1>5
  <2> QED BY <2>2, <2>4, <2>5, <2>6, <2>7, <2>8 DEF QueueInv, SmokeRuns
<1>7. FlagInv' /\ Failing' = Failing
  BY <1>1, FlagsKept
<1>8. SummaryInv'
  BY <1>1, <1>2, <1>7 DEF SummaryInv, RetryAllowed
<1>9. ReportInv'
  BY <1>1, <1>2, JUnitKept DEF ReportInv
<1>10. RetryInv'
  <2>1. CASE e \notin Retries
    <3>1. \A f \in Retries : status'[f] = status[f]
      BY <1>1, <2>1 DEF TypeOK, Entries
    <3> QED BY <1>1, <1>7, <3>1, RetriesKept
  <2>2. CASE e \in Retries
    <3>1. phase = "retry" /\ failing = Failing /\ RetryAllowed(Cardinality(Failing))
      BY <1>5, <2>2, EntryFacts DEF SummaryInv, NormalRuns, SmokeRuns
    <3>2. \E f \in Failing : e = RetryOf(f)
      BY <1>1, <3>1 DEF Queue
    <3>3. RetryAllowed(Cardinality(Failing))'
      BY <1>1, <1>7, <3>1 DEF RetryAllowed
    <3>4. \A f \in Retries : f # e => status'[f] = status[f]
      BY <1>1 DEF TypeOK, Entries
    <3> QED BY <1>1, <1>7, <3>1, <3>2, <3>3, <3>4 DEF RetryInv
  <2> QED BY <2>1, <2>2
<1> QED BY <1>3, <1>4, <1>6, <1>7, <1>8, <1>9, <1>10

\* The end of a retry does not change which tests the summary found failing.
LEMMA RetryKeepsFailing ==
  ASSUME TypeOK, NEW e \in Retries, FinishTest(e)
  PROVE  Failing' = Failing
<1>1. \A f \in Runs : Object(f) # e
  BY EntryFacts
<1>2. Object(e) = e
  BY EntryFacts
<1>3. \A f \in Runs : /\ Object(f) \in failed' <=> Object(f) \in failed
                      /\ Object(f) \in success' <=> Object(f) \in success
  BY <1>1, <1>2 DEF FinishTest
<1> QED BY <1>3 DEF Failing, Flagged

\* An execution ends.
LEMMA FinishStep ==
  ASSUME IInv, NEW e \in Entries, FinishTest(e)
  PROVE  IInv'
<1> USE DEF IInv
<1>1. /\ status[e] = "running" /\ result = "running"
      /\ status' = [status EXCEPT ![e] = "finished"]
      /\ UNCHANGED <<limit, phase, summary, junit, ctxDone, handler, result>>
  BY DEF FinishTest
<1>2. PICK v \in {"pass", "fail", "skip"} :
       /\ verdict' = [verdict EXCEPT ![e] = v]
       /\ success' = IF v = "pass" THEN success \cup {Object(e)} ELSE success
       /\ failed' = IF v = "fail" THEN failed \cup {Object(e)} ELSE failed
       /\ skipped' = IF v = "skip" THEN skipped \cup {Object(e)} ELSE skipped
  BY DEF FinishTest
<1>3. UNCHANGED <<counts, failing, synthetic>>
  BY <1>1 DEF summary
<1>4. Object(e) \in Entries
  BY EntryFacts DEF Entries
<1>5. TypeOK'
  <2>1. success' \subseteq Entries /\ failed' \subseteq Entries /\ skipped' \subseteq Entries
    BY <1>2, <1>4 DEF TypeOK
  <2> QED BY <1>1, <1>2, <1>3, <2>1 DEF TypeOK
<1>6. HandlerInv' /\ ResultInv'
  BY <1>1, <1>3 DEF HandlerInv, ResultInv, Red
<1>7. \/ phase = "smoke" /\ e \in SmokeRuns
      \/ phase = "normal" /\ e \in NormalRuns
      \/ phase = "retry" /\ e \in Retries
  <2>1. e \in Queue(phase)
    BY <1>1 DEF QueueInv, Running
  <2> QED BY <2>1, QueueFacts DEF TypeOK
<1>8. QueueInv'
  <2>1. \A f \in Entries : /\ status'[f] = IF f = e THEN "finished" ELSE status[f]
                           /\ verdict'[f] = IF f = e THEN v ELSE verdict[f]
    BY <1>1, <1>2 DEF TypeOK
  <2>2. \A f \in Entries : verdict'[f] = "none" <=> status'[f] # "finished"
    BY <1>1, <2>1 DEF QueueInv
  <2>3. Queue(phase)' = Queue(phase)
    BY <1>1, <1>3 DEF Queue
  <2>4. Running' \subseteq Queue(phase)'
    BY <1>1, <2>1, <2>3 DEF QueueInv, Running
  <2>5. phase' = "smoke" => \A f \in Entries \ SmokeRuns : status'[f] = "pending"
    BY <1>1, <1>7, <2>1, EntryFacts DEF QueueInv, NormalRuns, SmokeRuns
  <2>6. phase' \notin {"setup", "smoke"} => ctxDone' \/ \A f \in SmokeRuns : status'[f] = "finished"
    BY <1>1, <1>7, <2>1, EntryFacts DEF QueueInv, NormalRuns, SmokeRuns, Entries
  <2>7. phase' \notin {"setup", "smoke", "normal"} => ctxDone' \/ \A f \in Runs : status'[f] = "finished"
    BY <1>1, <1>7, <2>1, EntryFacts DEF QueueInv, Entries
  <2>8. phase' # "setup"
    BY <1>1, <1>7
  <2> QED BY <2>2, <2>4, <2>5, <2>6, <2>7, <2>8 DEF QueueInv, SmokeRuns
<1>9. FlagInv'
  <2>1. verdict[e] = "none"
    BY <1>1 DEF QueueInv
  <2>2. \A r \in {"pass", "fail", "skip"} :
          {f \in Entries : verdict'[f] = r} =
             {f \in Entries : verdict[f] = r} \cup (IF r = v THEN {e} ELSE {})
    BY <1>2, <2>1 DEF TypeOK
  <2> DEFINE Objects(r) == {Object(f) : f \in {g \in Entries : verdict[g] = r}}
             Objects2(r) == {Object(f) : f \in {g \in Entries : verdict'[g] = r}}
  <2>3. \A r \in {"pass", "fail", "skip"} :
          Objects2(r) = IF r = v THEN Objects(r) \cup {Object(e)} ELSE Objects(r)
    BY <2>2
  <2> QED BY <1>2, <2>3 DEF FlagInv
<1>10. SummaryInv'
  <2>1. CASE phase = "retry"
    <3>1. Failing' = Failing
      BY <1>1, <1>7, <2>1, RetryKeepsFailing
    <3> QED BY <1>1, <1>3, <2>1, <3>1 DEF SummaryInv, RetryAllowed
  <2> QED BY <1>1, <1>7, <2>1 DEF SummaryInv
<1>11. ReportInv'
  BY <1>1, <1>7 DEF ReportInv
<1>12. RetryInv'
  <2>1. CASE phase = "retry"
    <3>1. Failing' = Failing
      BY <1>1, <1>7, <2>1, RetryKeepsFailing
    <3>2. \A f \in Retries : status'[f] # "pending" => status[f] # "pending"
      BY <1>1 DEF TypeOK, Entries
    <3> QED BY <1>1, <3>1, <3>2, RetriesKept
  <2>2. CASE phase \in {"smoke", "normal"}
    <3>1. e \notin Retries
      BY <1>7, <2>2, EntryFacts DEF NormalRuns, SmokeRuns
    <3>2. \A f \in Retries : status'[f] = "pending"
      BY <1>1, <2>2, <3>1 DEF RetryInv, TypeOK, Entries
    <3> QED BY <3>2 DEF RetryInv
  <2> QED BY <1>7, <2>1, <2>2
<1> QED BY <1>5, <1>6, <1>8, <1>9, <1>10, <1>11, <1>12

\* Execute returns, with nothing running and, unless cancelled, all of its tests
\* finished.
LEMMA ReturnsStep ==
  ASSUME IInv, ExecuteReturns
  PROVE  IInv'
<1> USE DEF IInv
<1>1. /\ \/ phase = "smoke" /\ phase' = "normal"
         \/ phase = "normal" /\ phase' = "summarize"
         \/ phase = "retry" /\ phase' = "judge"
      /\ result = "running" /\ QueueDone
      /\ UNCHANGED <<limit, tests, summary, junit, ctxDone, handler, result>>
  BY DEF ExecuteReturns
<1>2. UNCHANGED <<status, verdict, flags, success, failed, skipped, counts, failing, synthetic>>
  BY <1>1 DEF tests, flags, summary
<1>3. TypeOK'
  BY <1>1, <1>2 DEF TypeOK, Phases
<1>4. HandlerInv' /\ ResultInv'
  BY <1>1, <1>2 DEF HandlerInv, ResultInv, Red
<1>5. QueueInv'
  <2>1. Running = {} /\ Running' = {}
    BY <1>1, <1>2 DEF QueueDone, Running
  <2>2. ctxDone \/ \A f \in Queue(phase) : status[f] = "finished"
    BY <1>1 DEF QueueDone
  <2>3. phase' \notin {"setup", "smoke"} => ctxDone \/ \A f \in SmokeRuns : status[f] = "finished"
    BY <1>1, <2>2, QueueFacts DEF QueueInv
  <2>4. phase' \notin {"setup", "smoke", "normal"} => ctxDone \/ \A f \in Runs : status[f] = "finished"
    BY <1>1, <2>2, QueueFacts DEF QueueInv, NormalRuns
  <2> QED BY <1>1, <1>2, <2>1, <2>3, <2>4 DEF QueueInv, SmokeRuns
<1>6. FlagInv' /\ Failing' = Failing
  BY <1>2, FlagsKept
<1>7. SummaryInv'
  BY <1>1, <1>2, <1>6 DEF SummaryInv, RetryAllowed
<1>8. ReportInv'
  BY <1>1, <1>2 DEF ReportInv
<1>9. RetryInv'
  BY <1>1, <1>2, <1>6, RetriesKept
<1> QED BY <1>3, <1>4, <1>5, <1>6, <1>7, <1>8, <1>9

\* Past the queues nothing runs, and the steps of Run keep what the queues left.
LEMMA QueuesPast ==
  ASSUME IInv, phase \in {"summarize", "judge", "report", "return"},
         phase' \in {"retry", "report", "return", "end"}, UNCHANGED <<status, verdict, ctxDone>>
  PROVE  QueueInv'
<1> USE DEF IInv
<1>1. Running = {}
  BY QueueFacts DEF QueueInv, TypeOK, Phases
<1>2. Running' = {}
  BY <1>1 DEF Running
<1> QED BY <1>2 DEF QueueInv, SmokeRuns

\* The tests are counted, and the failing ones are to be retried or not.
LEMMA SummarizeStep ==
  ASSUME IInv, Summarize
  PROVE  IInv'
<1> USE DEF IInv
<1>1. /\ phase = "summarize" /\ result = "running"
      /\ failing' = Failing
      /\ counts' = [pass |-> Cardinality(Flagged(success)),
                    fail |-> Cardinality(Failing),
                    skip |-> Cardinality(Flagged(skipped) \ Flagged(success \cup failed))]
      /\ synthetic' \in BOOLEAN
      /\ phase' = IF RetryAllowed(Cardinality(Failing)) THEN "retry" ELSE "report"
      /\ UNCHANGED <<limit, tests, junit, ctxDone, handler, result>>
  BY DEF Summarize, At
<1>2. UNCHANGED <<status, verdict, flags, success, failed, skipped>>
  BY <1>1 DEF tests, flags
<1>3. TypeOK'
  <2>1. /\ Failing \subseteq Runs /\ Flagged(success) \subseteq Runs
        /\ Flagged(skipped) \ Flagged(success \cup failed) \subseteq Runs
    BY DEF Failing, Flagged
  <2>2. counts' \in [pass : Nat, fail : Nat, skip : Nat]
    BY <1>1, <2>1, SomeRuns
  <2> QED BY <1>1, <1>2, <2>1, <2>2 DEF TypeOK, Phases
<1>4. HandlerInv' /\ ResultInv'
  BY <1>1 DEF HandlerInv, ResultInv
<1>5. QueueInv'
  BY <1>1, <1>2, QueuesPast
<1>6. FlagInv' /\ Failing' = Failing
  BY <1>2, FlagsKept
<1>7. SummaryInv'
  <2>1. counts'.fail = Cardinality(Failing)
    BY <1>1
  <2>2. CASE RetryAllowed(Cardinality(Failing))
    <3>1. phase' = "retry" /\ RetryAllowed(Cardinality(Failing))'
      BY <1>1, <1>6, <2>2 DEF RetryAllowed
    <3> QED BY <1>1, <1>6, <2>1, <3>1 DEF SummaryInv
  <2>3. CASE ~RetryAllowed(Cardinality(Failing))
    <3>1. phase' = "report" /\ ~RetryAllowed(Cardinality(Failing))'
      BY <1>1, <1>6, <2>3 DEF RetryAllowed
    <3> QED BY <1>1, <1>6, <2>1, <3>1 DEF SummaryInv
  <2> QED BY <2>2, <2>3
<1>8. ReportInv'
  BY <1>1 DEF ReportInv
<1>9. RetryInv'
  BY <1>1, <1>2, <1>6, RetriesKept
<1> QED BY <1>3, <1>4, <1>5, <1>6, <1>7, <1>8, <1>9

\* The retries that passed redeem their tests.
LEMMA JudgeStep ==
  ASSUME IInv, JudgeRetries
  PROVE  IInv'
<1> USE DEF IInv
<1>1. /\ phase = "judge" /\ result = "running" /\ phase' = "report"
      /\ failing' = {e \in failing : RetryOf(e) \notin success}
      /\ UNCHANGED <<limit, tests, counts, synthetic, junit, ctxDone, handler, result>>
  BY DEF JudgeRetries, At, RetryOf
<1>2. UNCHANGED <<status, verdict, flags, success, failed, skipped>>
  BY <1>1 DEF tests, flags
<1>3. TypeOK'
  BY <1>1, <1>2 DEF TypeOK, Phases
<1>4. HandlerInv' /\ ResultInv'
  BY <1>1 DEF HandlerInv, ResultInv
<1>5. QueueInv'
  BY <1>1, <1>2, QueuesPast
<1>6. FlagInv' /\ Failing' = Failing
  BY <1>2, FlagsKept
<1>7. SummaryInv'
  <2>1. failing = Failing /\ RetryAllowed(Cardinality(Failing)) /\ counts.fail = Cardinality(Failing)
    BY <1>1 DEF SummaryInv
  <2>2. RetryAllowed(Cardinality(Failing))'
    BY <1>1, <1>6, <2>1 DEF RetryAllowed
  <2> QED BY <1>1, <1>2, <1>6, <2>1, <2>2 DEF SummaryInv
<1>8. ReportInv'
  BY <1>1 DEF ReportInv
<1>9. RetryInv'
  BY <1>1, <1>2, <1>6, RetriesKept
<1> QED BY <1>3, <1>4, <1>5, <1>6, <1>7, <1>8, <1>9

\* What the report would hold has the type of a report.
LEMMA JUnitType ==
  JUnitCounts \in [written : BOOLEAN, tests : Nat, skipped : Nat, failures : Nat, cases : Nat]
<1> DEFINE skip == Flagged(skipped)
           fail == Flagged(failed) \ skip
           pass == Flagged(success) \ (skip \cup fail)
<1>1. skip \subseteq Runs /\ fail \subseteq Runs /\ pass \subseteq Runs
  BY DEF Flagged
<1>2. Cardinality(skip) \in Nat /\ Cardinality(fail) \in Nat /\ Cardinality(pass) \in Nat
  BY <1>1, SomeRuns
<1> HIDE DEF skip, fail, pass
<1>3. JUnitCounts = [written |-> TRUE,
       tests |-> Cardinality(skip) + Cardinality(fail) + (IF synthetic THEN 1 ELSE 0),
       skipped |-> Cardinality(skip),
       failures |-> Cardinality(fail) + Cardinality(pass) + (IF synthetic THEN 1 ELSE 0),
       cases |-> Cardinality(skip) + Cardinality(fail) + Cardinality(pass) + (IF synthetic THEN 1 ELSE 0)]
  BY DEF JUnitCounts, skip, fail, pass
<1> QED BY <1>2, <1>3

\* The report is written or not.
LEMMA ReportStep ==
  ASSUME IInv, Report
  PROVE  IInv'
<1> USE DEF IInv
<1>1. /\ phase = "report" /\ result = "running" /\ phase' = "return"
      /\ junit' \in {junit, JUnitCounts}
      /\ UNCHANGED <<limit, tests, summary, ctxDone, handler, result>>
  BY DEF Report, At
<1>2. UNCHANGED <<status, verdict, flags, success, failed, skipped, counts, failing, synthetic>>
  BY <1>1 DEF tests, flags, summary
<1>3. TypeOK'
  <2>1. junit' \in [written : BOOLEAN, tests : Nat, skipped : Nat, failures : Nat, cases : Nat]
    BY <1>1, JUnitType DEF TypeOK
  <2> QED BY <1>1, <1>2, <2>1 DEF TypeOK, Phases
<1>4. HandlerInv' /\ ResultInv'
  BY <1>1 DEF HandlerInv, ResultInv
<1>5. QueueInv'
  BY <1>1, <1>2, QueuesPast
<1>6. FlagInv' /\ Failing' = Failing
  BY <1>2, FlagsKept
<1>7. SummaryInv'
  BY <1>1, <1>2, <1>6 DEF SummaryInv, RetryAllowed
<1>8. ReportInv'
  BY <1>1, <1>2, JUnitKept DEF ReportInv
<1>9. RetryInv'
  BY <1>1, <1>2, <1>6, RetriesKept
<1> QED BY <1>3, <1>4, <1>5, <1>6, <1>7, <1>8, <1>9

\* Run returns.
LEMMA ReturnStep ==
  ASSUME IInv, Return
  PROVE  IInv'
<1> USE DEF IInv
<1>1. /\ phase = "return" /\ result = "running" /\ phase' = "end"
      /\ result' = IF Red THEN "error" ELSE IF ctxDone THEN "interrupted" ELSE "nil"
      /\ UNCHANGED <<limit, tests, summary, junit, ctxDone, handler>>
  BY DEF Return, At, Red
<1>2. UNCHANGED <<status, verdict, flags, success, failed, skipped, counts, failing, synthetic>>
  BY <1>1 DEF tests, flags, summary
<1>3. TypeOK'
  BY <1>1, <1>2 DEF TypeOK, Phases, Results
<1>4. HandlerInv'
  BY <1>1 DEF HandlerInv
<1>5. QueueInv'
  BY <1>1, <1>2, QueuesPast
<1>6. FlagInv' /\ Failing' = Failing
  BY <1>2, FlagsKept
<1>7. SummaryInv'
  BY <1>1, <1>2, <1>6 DEF SummaryInv, RetryAllowed
<1>8. ReportInv'
  BY <1>1, <1>2, JUnitKept DEF ReportInv
<1>9. ResultInv'
  <2>1. Red' = Red
    BY <1>1, <1>2 DEF Red
  <2> QED BY <1>1, <2>1 DEF ResultInv
<1>10. RetryInv'
  BY <1>1, <1>2, <1>6, RetriesKept
<1> QED BY <1>3, <1>4, <1>5, <1>6, <1>7, <1>8, <1>9, <1>10

\* The signal handler receives, cancels, and exits.
LEMMA SignalStep ==
  ASSUME IInv, FirstSignal \/ HandlerCancels \/ SecondSignal
  PROVE  IInv'
<1> USE DEF IInv
<1>1. /\ result = "running" /\ UNCHANGED <<limit, phase, tests, summary, junit>>
      /\ \/ handler = "first" /\ handler' = "cancelling" /\ UNCHANGED <<ctxDone, result>>
         \/ handler = "cancelling" /\ handler' = "second" /\ ctxDone' = TRUE /\ UNCHANGED result
         \/ handler = "second" /\ result' \in {"exit130", "exit0"} /\ UNCHANGED <<ctxDone, handler>>
  BY DEF FirstSignal, HandlerCancels, SecondSignal
<1>2. UNCHANGED <<status, verdict, flags, success, failed, skipped, counts, failing, synthetic>>
  BY <1>1 DEF tests, flags, summary
<1>3. TypeOK'
  BY <1>1, <1>2 DEF TypeOK, Results
<1>4. HandlerInv'
  BY <1>1 DEF HandlerInv
<1>5. QueueInv'
  <2>1. Running' = Running /\ Queue(phase)' = Queue(phase)
    BY <1>1, <1>2 DEF Running, Queue
  <2>2. ctxDone => ctxDone'
    BY <1>1
  <2> QED BY <1>1, <1>2, <2>1, <2>2 DEF QueueInv, SmokeRuns
<1>6. FlagInv' /\ Failing' = Failing
  BY <1>2, FlagsKept
<1>7. SummaryInv'
  BY <1>1, <1>2, <1>6 DEF SummaryInv, RetryAllowed
<1>8. ReportInv'
  BY <1>1, <1>2, JUnitKept DEF ReportInv
<1>9. ResultInv'
  BY <1>1, <1>2 DEF ResultInv
<1>10. RetryInv'
  BY <1>1, <1>2, <1>6, RetriesKept
<1> QED BY <1>3, <1>4, <1>5, <1>6, <1>7, <1>8, <1>9, <1>10

\* A step that changes nothing.
LEMMA StutterStep ==
  ASSUME IInv, UNCHANGED vars
  PROVE  IInv'
<1>1. Running' = Running /\ Queue(phase)' = Queue(phase)
  BY DEF vars, Running, Queue
<1>2. FlagInv' /\ Failing' = Failing
  BY FlagsKept DEF vars, flags
<1>3. JUnitCounts' = JUnitCounts
  BY JUnitKept DEF vars, flags
<1>4. TypeOK' /\ HandlerInv' /\ QueueInv'
  BY <1>1 DEF IInv, vars, TypeOK, HandlerInv, QueueInv, SmokeRuns
<1>5. SummaryInv' /\ ReportInv' /\ ResultInv'
  BY <1>2, <1>3 DEF IInv, vars, SummaryInv, ReportInv, ResultInv, RetryAllowed, Red
<1>6. RetryInv'
  BY <1>2, RetriesKept DEF IInv, vars
<1> QED BY <1>2, <1>4, <1>5, <1>6 DEF IInv

\* Run and the signal handler keep the invariant, whatever the tests do and
\* whenever a signal arrives.
THEOREM Invariance == Spec => []IInv
<1>1. IInv /\ [Next]_vars => IInv'
  BY SetupStep, StartStep, FinishStep, ReturnsStep, SummarizeStep, JudgeStep, ReportStep,
     ReturnStep, SignalStep, StutterStep DEF Next, Main
<1> QED BY InitInv, <1>1, PTL DEF Spec

-----------------------------------------------------------------------------
(* What the command and the report say *)

\* The variables keep their types.
THEOREM TypeCorrect == Spec => []TypeOK
BY Invariance, PTL DEF IInv

\* No other test starts before the smoke tests have finished, unless the run is
\* cancelled.
THEOREM SmokeTestsFirst == Spec => []SmokeFirst
<1>1. IInv => SmokeFirst
  BY EntryFacts DEF IInv, TypeOK, QueueInv, SmokeFirst, SmokeRuns, Entries
<1> QED BY <1>1, Invariance, PTL

\* The retries of two different tests of the list are different.
LEMMA RetryInjective ==
  ASSUME NEW e \in Runs, NEW f \in Runs, RetryOf(e) = RetryOf(f)
  PROVE  e = f
<1>1. e[2] = f[2] /\ e[3] = f[3]
  BY DEF RetryOf
<1>2. e = <<"run", e[2], e[3]>> /\ f = <<"run", f[2], f[3]>>
  BY DEF Runs
<1> QED BY <1>1, <1>2

\* A failing test failed in one of its repetitions and passed in none.
LEMMA FailingHistory ==
  ASSUME IInv, NEW e \in Failing
  PROVE  /\ \E f \in FailedRuns : f[2] = e[2]
         /\ \A f \in Runs : f[2] = e[2] => verdict[f] # "pass"
<1>1. e \in Runs /\ Object(e) \in failed /\ Object(e) \notin success
  BY DEF Failing, Flagged
<1>2. Object(e) = <<"run", e[2], 1>> /\ Object(e) \in Runs
  BY <1>1, EntryFacts DEF Object
<1>3. PICK f \in Entries : verdict[f] = "fail" /\ Object(f) = Object(e)
  BY <1>1 DEF IInv, FlagInv
<1>4. f \in Runs
  BY <1>2, <1>3, EntryFacts DEF Entries
<1>5. f[2] = e[2]
  BY <1>2, <1>3, <1>4 DEF Object
<1>6. ASSUME NEW g \in Runs, g[2] = e[2], verdict[g] = "pass" PROVE FALSE
  <2>1. Object(g) = Object(e) /\ g \in Entries
    BY <1>1, <1>6 DEF Object, Entries
  <2>2. Object(g) \in success
    BY <1>6, <2>1 DEF IInv, FlagInv
  <2> QED BY <1>1, <2>1, <2>2
<1> QED BY <1>3, <1>4, <1>5, <1>6 DEF FailedRuns

\* Retries are started only after the tests of the list, only for tests that
\* failed and never passed, and in no greater number than the suite tolerates
\* flakes; also when tests are repeated.
THEOREM RetriesAreEarned == Spec => []RetriesEarned
<1>1. ASSUME IInv, Retried # {}
      PROVE  /\ \A e \in Runs : status[e] = "finished" \/ (ctxDone /\ status[e] = "pending")
             /\ \A e \in Retried : /\ \E f \in FailedRuns : f[2] = e[2]
                                  /\ \A f \in Runs : f[2] = e[2] => verdict[f] # "pass"
             /\ Cardinality(Retried) <= limit
  <2>1. Retried \subseteq Failing
    <3> SUFFICES ASSUME NEW e \in Retried PROVE e \in Failing
      OBVIOUS
    <3>1. e \in Runs /\ RetryOf(e) \in Retries /\ status[RetryOf(e)] # "pending"
      BY EntryFacts DEF Retried
    <3>2. PICK f \in Failing : RetryOf(e) = RetryOf(f)
      BY <1>1, <3>1 DEF IInv, RetryInv
    <3>3. f \in Runs
      BY DEF Failing, Flagged
    <3> QED BY <3>1, <3>2, <3>3, RetryInjective
  <2>2. /\ RetryAllowed(Cardinality(Failing))
        /\ phase \in {"retry", "judge", "report", "return", "end"}
    <3>1. PICK e \in Retried : TRUE
      BY <1>1
    <3>2. RetryOf(e) \in Retries /\ status[RetryOf(e)] # "pending"
      BY EntryFacts DEF Retried
    <3> QED BY <1>1, <3>2 DEF IInv, RetryInv
  <2>3. Cardinality(Retried) <= limit
    <3>1. Failing \subseteq Runs
      BY DEF Failing, Flagged
    <3>2. IsFiniteSet(Failing) /\ Cardinality(Failing) \in Nat
      BY <3>1, SomeRuns
    <3>3. Cardinality(Retried) \in Nat /\ Cardinality(Retried) <= Cardinality(Failing)
      BY <2>1, <3>2, FS_Subset, FS_CardinalityType
    <3>4. limit \in Nat /\ Cardinality(Failing) <= limit
      BY <1>1, <2>2, NumbersAssumption DEF IInv, TypeOK, RetryAllowed
    <3> QED BY <3>2, <3>3, <3>4
  <2>4. \A e \in Runs : status[e] # "running"
    <3>1. Running \subseteq Retries
      <4>1. Running \subseteq Queue(phase)
        BY <1>1 DEF IInv, QueueInv
      <4>2. Queue(phase) \subseteq Retries
        BY <1>1, <2>2, QueueFacts DEF IInv, Phases
      <4> QED BY <4>1, <4>2
    <3> QED BY <3>1, EntryFacts DEF Running, Entries
  <2>5. \A e \in Runs : status[e] \in {"pending", "running", "finished"}
    BY <1>1 DEF IInv, TypeOK, Entries
  <2>6. ctxDone \/ \A e \in Runs : status[e] = "finished"
    BY <1>1, <2>2 DEF IInv, QueueInv
  <2>7. \A e \in Runs : status[e] = "finished" \/ (ctxDone /\ status[e] = "pending")
    BY <2>4, <2>5, <2>6
  <2>8. \A e \in Retried : e \in Failing
    BY <2>1
  <2> QED BY <1>1, <2>3, <2>7, <2>8, FailingHistory
<1>2. IInv => RetriesEarned
  BY <1>1 DEF RetriesEarned
<1> QED BY <1>2, Invariance, PTL

\* Unrepeated, the flags of a test of the list are the verdict of its execution.
LEMMA FlagsAreVerdicts ==
  ASSUME Count = 1, IInv
  PROVE  /\ Flagged(success) = {e \in Runs : verdict[e] = "pass"}
         /\ Flagged(failed) = {e \in Runs : verdict[e] = "fail"}
         /\ Flagged(skipped) = {e \in Runs : verdict[e] = "skip"}
         /\ \A e \in Entries : e \in success <=> verdict[e] = "pass"
<1>1. \A e \in Entries : Object(e) = e
  BY OwnObject
<1>2. \A e \in Entries : /\ e \in success <=> verdict[e] = "pass"
                         /\ e \in failed <=> verdict[e] = "fail"
                         /\ e \in skipped <=> verdict[e] = "skip"
  BY <1>1 DEF IInv, FlagInv
<1> QED BY <1>1, <1>2 DEF Flagged, Entries

\* Unrepeated, summarizeTests finds the tests whose execution failed.
LEMMA FailingAreFailed ==
  ASSUME Count = 1, IInv
  PROVE  Failing = FailedRuns
BY FlagsAreVerdicts DEF Failing, FailedRuns

\* The command succeeds only if every test of the list was run to its end and
\* passed, was skipped or was redeemed by its retry, within the limit of the suite
\* and without a cancellation.
THEOREM GreenWhenEarned == (Count = 1) => (Spec => []GreenIsEarned)
<1> SUFFICES ASSUME Count = 1 PROVE Spec => []GreenIsEarned
  OBVIOUS
<1>1. ASSUME IInv, result = "nil"
      PROVE  /\ \A e \in Runs : status[e] = "finished"
             /\ \A e \in FailedRuns : verdict[RetryOf(e)] = "pass"
             /\ Cardinality(FailedRuns) <= limit
             /\ ~ctxDone
  <2>1. phase = "end" /\ ~ctxDone /\ ~Red
    BY <1>1 DEF IInv, ResultInv
  <2>2. \A e \in Runs : status[e] = "finished"
    BY <1>1, <2>1 DEF IInv, QueueInv
  <2>3. Failing = FailedRuns
    BY <1>1, FailingAreFailed
  <2>4. /\ counts.fail = Cardinality(FailedRuns)
        /\ failing = IF RetryAllowed(Cardinality(FailedRuns))
                     THEN {e \in FailedRuns : RetryOf(e) \notin success} ELSE FailedRuns
    BY <1>1, <2>1, <2>3 DEF IInv, SummaryInv
  <2>5. FailedRuns \subseteq Runs /\ IsFiniteSet(FailedRuns) /\ Cardinality(FailedRuns) \in Nat
    BY SomeRuns DEF FailedRuns
  <2>6. limit \in Nat
    BY <1>1, NumbersAssumption DEF IInv, TypeOK
  <2>7. CASE FailedRuns = {}
    <3>1. Cardinality(FailedRuns) = 0
      BY <2>7, FS_EmptySet
    <3> QED BY <2>1, <2>2, <2>6, <2>7, <3>1
  <2>8. CASE FailedRuns # {}
    <3>1. Cardinality(FailedRuns) > 0
      BY <2>5, <2>8, FS_EmptySet
    <3>2. failing = {}
      BY <2>1, <2>4, <3>1 DEF Red
    <3>3. RetryAllowed(Cardinality(FailedRuns))
      BY <2>4, <2>8, <3>2
    <3>4. \A e \in FailedRuns : RetryOf(e) \in success
      BY <2>4, <3>2, <3>3
    <3>5. \A e \in FailedRuns : RetryOf(e) \in Entries
      BY <2>5, EntryFacts DEF Entries
    <3>6. \A e \in FailedRuns : verdict[RetryOf(e)] = "pass"
      BY <1>1, <3>4, <3>5, FlagsAreVerdicts
    <3> QED BY <2>1, <2>2, <3>3, <3>6 DEF RetryAllowed
  <2> QED BY <2>7, <2>8
<1>2. IInv => GreenIsEarned
  BY <1>1 DEF GreenIsEarned
<1> QED BY <1>2, Invariance, PTL

\* The command fails over its tests only if more of them failed than the suite
\* tolerates, or one of them failed and its retry did not pass.
THEOREM RedWhenEarned == (Count = 1) => (Spec => []RedIsEarned)
<1> SUFFICES ASSUME Count = 1 PROVE Spec => []RedIsEarned
  OBVIOUS
<1>1. ASSUME IInv, result = "error", handler # "none",
             \A e \in FailedRuns : verdict[RetryOf(e)] = "pass"
      PROVE  Cardinality(FailedRuns) > limit
  <2>1. phase = "end" /\ Red
    BY <1>1 DEF IInv, ResultInv, HandlerInv
  <2>2. Failing = FailedRuns
    BY <1>1, FailingAreFailed
  <2>3. /\ counts.fail = Cardinality(FailedRuns)
        /\ failing = IF RetryAllowed(Cardinality(FailedRuns))
                     THEN {e \in FailedRuns : RetryOf(e) \notin success} ELSE FailedRuns
    BY <1>1, <2>1, <2>2 DEF IInv, SummaryInv
  <2>4. FailedRuns \subseteq Runs /\ IsFiniteSet(FailedRuns) /\ Cardinality(FailedRuns) \in Nat
    BY SomeRuns DEF FailedRuns
  <2>5. limit \in Nat
    BY <1>1, NumbersAssumption DEF IInv, TypeOK
  <2>6. Cardinality(FailedRuns) > 0 /\ (failing # {} \/ limit = 0)
    BY <2>1, <2>3 DEF Red
  <2>7. CASE limit = 0
    BY <2>6, <2>7
  <2>8. CASE failing # {}
    <3>1. \A e \in FailedRuns : RetryOf(e) \in Entries
      BY <2>4, EntryFacts DEF Entries
    <3>2. \A e \in FailedRuns : RetryOf(e) \in success
      BY <1>1, <3>1, FlagsAreVerdicts
    <3>3. ~RetryAllowed(Cardinality(FailedRuns))
      BY <2>3, <2>8, <3>2
    <3> QED BY <2>4, <2>5, <2>6, <3>3 DEF RetryAllowed
  <2> QED BY <2>6, <2>7, <2>8
<1>2. IInv => RedIsEarned
  BY <1>1 DEF RedIsEarned
<1> QED BY <1>2, Invariance, PTL

\* A report that was written has one case for every test that was run to its end,
\* and one more when the monitor saw errors.
THEOREM ReportIsComplete == (Count = 1) => (Spec => []ReportComplete)
<1> SUFFICES ASSUME Count = 1 PROVE Spec => []ReportComplete
  OBVIOUS
<1> DEFINE Of(v) == {e \in Runs : verdict[e] = v}
           more == IF synthetic THEN 1 ELSE 0
<1>1. ASSUME IInv, junit.written
      PROVE  junit.cases = Cardinality({e \in Runs : status[e] = "finished"}) + more
  <2>1. junit = JUnitCounts
    BY <1>1 DEF IInv, ReportInv
  <2>2. /\ Flagged(skipped) = Of("skip")
        /\ Flagged(failed) \ Flagged(skipped) = Of("fail")
        /\ Flagged(success) \ (Flagged(skipped) \cup (Flagged(failed) \ Flagged(skipped))) = Of("pass")
    BY <1>1, FlagsAreVerdicts
  <2>3. junit.cases = Cardinality(Of("skip")) + Cardinality(Of("fail")) + Cardinality(Of("pass")) + more
    BY <2>1, <2>2 DEF JUnitCounts
  <2>4. {e \in Runs : status[e] = "finished"} = (Of("skip") \cup Of("fail")) \cup Of("pass")
    BY <1>1 DEF IInv, QueueInv, TypeOK, Entries
  <2>5. Cardinality(Of("skip") \cup Of("fail")) = Cardinality(Of("skip")) + Cardinality(Of("fail"))
    BY Adds
  <2>6. Cardinality((Of("skip") \cup Of("fail")) \cup Of("pass"))
          = Cardinality(Of("skip") \cup Of("fail")) + Cardinality(Of("pass"))
    BY Adds
  <2> QED BY <2>3, <2>4, <2>5, <2>6
<1>2. IInv => ReportComplete
  BY <1>1 DEF ReportComplete
<1> QED BY <1>2, Invariance, PTL

=============================================================================
