-------------------------- MODULE TestQueueProofs --------------------------
(***************************************************************************)
(* Theorems about TestQueue, for any number of workers and entries and any *)
(* assignment of exclusions.                                               *)
(***************************************************************************)
EXTENDS TestQueue, FiniteSetTheorems, TLAPS

-----------------------------------------------------------------------------
(* The ring *)

\* A finite function on 1 .. n is a sequence of length n.
LEMMA FunctionIsSeq ==
  ASSUME NEW S, NEW n \in Nat, NEW f \in [1 .. n -> S]
  PROVE  f \in Seq(S) /\ Len(f) = n
BY SMT

\* pop's ring surgery keeps the ring a sequence, one shorter.
LEMMA UnlinkType ==
  ASSUME NEW S, NEW s \in Seq(S), NEW k \in 1 .. Len(s)
  PROVE  /\ Unlink(s, k) \in Seq(S)
         /\ Len(Unlink(s, k)) = Len(s) - 1
<1>1. Len(s) - 1 \in Nat /\ s \in [1 .. Len(s) -> S]
  OBVIOUS
<1>2. Unlink(s, k) \in [1 .. Len(s) - 1 -> S]
  BY <1>1 DEF Unlink
<1> QED BY <1>1, <1>2, FunctionIsSeq

\* Where the surgery puts the elements of the ring.
LEMMA UnlinkIndex ==
  ASSUME NEW S, NEW s \in Seq(S), NEW k \in 1 .. Len(s), NEW i \in 1 .. Len(s) - 1
  PROVE  Unlink(s, k)[i] = s[IF i = 1 THEN IF k = 1 THEN Len(s) ELSE k - 1
                             ELSE IF k + i - 1 <= Len(s) THEN k + i - 1
                                  ELSE k + i - 1 - Len(s)]
BY DEF Unlink

\* The ring loses exactly the element handed out.
LEMMA UnlinkElements ==
  ASSUME NEW S, NEW s \in Seq(S), NEW k \in 1 .. Len(s), NoRepeats(s)
  PROVE  /\ Elements(Unlink(s, k)) = Elements(s) \ {s[k]}
         /\ NoRepeats(Unlink(s, k))
<1> DEFINE n == Len(s)
           At(i) == IF i = 1 THEN IF k = 1 THEN n ELSE k - 1
                    ELSE IF k + i - 1 <= n THEN k + i - 1 ELSE k + i - 1 - n
<1>1. n \in Nat /\ k \in 1 .. n
  OBVIOUS
<1>2. \A i \in 1 .. n - 1 : Unlink(s, k)[i] = s[At(i)]
  BY UnlinkIndex
<1>3. \A i \in 1 .. n - 1 : At(i) \in 1 .. n /\ At(i) # k
  BY <1>1
<1>4. \A i, j \in 1 .. n - 1 : At(i) = At(j) => i = j
  BY <1>1
<1>5. ASSUME NEW m \in 1 .. n, m # k
      PROVE  \E i \in 1 .. n - 1 : At(i) = m
  <2>1. CASE m = (IF k = 1 THEN n ELSE k - 1)
    BY <1>1, <1>5, <2>1
  <2>2. CASE m # (IF k = 1 THEN n ELSE k - 1) /\ m > k
    <3>1. m - k + 1 \in 1 .. n - 1 /\ m - k + 1 # 1
      BY <1>1, <1>5, <2>2
    <3>2. At(m - k + 1) = m
      BY <1>1, <3>1
    <3> QED BY <3>1, <3>2
  <2>3. CASE m # (IF k = 1 THEN n ELSE k - 1) /\ m < k
    <3>1. m - k + 1 + n \in 1 .. n - 1 /\ m - k + 1 + n # 1
      BY <1>1, <1>5, <2>3
    <3>2. At(m - k + 1 + n) = m
      BY <1>1, <1>5, <3>1, <2>3
    <3> QED BY <3>1, <3>2
  <2> QED BY <1>1, <1>5, <2>1, <2>2, <2>3
<1>6. Len(Unlink(s, k)) = n - 1
  BY UnlinkType
<1> HIDE DEF At, n
<1>7. Elements(Unlink(s, k)) = {s[At(i)] : i \in 1 .. n - 1}
  BY <1>2, <1>6 DEF Elements
<1>8. \A i, j \in 1 .. n : s[i] = s[j] => i = j
  BY DEF NoRepeats, n
<1>9. {s[At(i)] : i \in 1 .. n - 1} = {s[m] : m \in 1 .. n} \ {s[k]}
  BY <1>1, <1>3, <1>5, <1>8
<1>10. NoRepeats(Unlink(s, k))
  BY <1>2, <1>3, <1>4, <1>6, <1>8 DEF NoRepeats
<1> QED BY <1>7, <1>9, <1>10 DEF Elements, n

-----------------------------------------------------------------------------
(* The inductive invariant *)

\* Appending to the list of deferred tests.
LEMMA AppendFacts ==
  ASSUME NEW S, NEW s \in Seq(S), NEW e \in S, e \notin Elements(s), NoRepeats(s)
  PROVE  /\ Append(s, e) \in Seq(S)
         /\ Len(Append(s, e)) = Len(s) + 1
         /\ Append(s, e)[Len(s) + 1] = e
         /\ \A i \in 1 .. Len(s) : Append(s, e)[i] = s[i]
         /\ Elements(Append(s, e)) = Elements(s) \cup {e}
         /\ NoRepeats(Append(s, e))
<1>1. /\ Append(s, e) \in Seq(S)
      /\ Len(Append(s, e)) = Len(s) + 1
      /\ \A i \in 1 .. Len(s) : Append(s, e)[i] = s[i]
      /\ Append(s, e)[Len(s) + 1] = e
  OBVIOUS
<1>2. 1 .. Len(s) + 1 = (1 .. Len(s)) \cup {Len(s) + 1}
  OBVIOUS
<1>3. Elements(Append(s, e)) = Elements(s) \cup {e}
  BY <1>1, <1>2 DEF Elements
<1>4. NoRepeats(Append(s, e))
  BY <1>1 DEF Elements, NoRepeats
<1> QED BY <1>1, <1>3, <1>4

\* A worker leaves.
LEMMA PopEmptyStep ==
  ASSUME IInv, NEW w \in Workers, PopEmpty(w)
  PROVE  IInv'
<1> USE DEF IInv
<1>1. /\ pc' \in [Workers -> WorkerState]
      /\ \A v \in Workers : pc'[v] = IF v = w THEN "exited"
                                     ELSE IF pc[v] = "waiting" THEN "take" ELSE pc[v]
  BY DEF PopEmpty, TypeOK, Broadcast, WorkerState
<1>2. \A e : (\E v \in Workers : pc'[v] = "running" /\ held[v] = e)
              <=> \E v \in Workers : pc[v] = "running" /\ held[v] = e
  BY <1>1 DEF PopEmpty
<1>3. TypeOK'
  BY <1>1 DEF PopEmpty, TypeOK
<1>4. HoldInv'
  BY <1>1 DEF PopEmpty, HoldInv
<1>5. PlaceInv'
  BY <1>1 DEF PopEmpty, PlaceInv, HoldInv
<1>6. RunsInv'
  BY <1>2 DEF PopEmpty, RunsInv
<1>7. DrainInv'
  BY DEF PopEmpty, DrainInv
<1>8. MainInv'
  BY <1>1 DEF PopEmpty, MainInv
<1>9. SerialInv' /\ KeptInv' /\ ExclusionInv'
  BY DEF PopEmpty, SerialInv, KeptInv, ExclusionInv
<1> QED BY <1>3, <1>4, <1>5, <1>6, <1>7, <1>8, <1>9

\* A worker takes a test off the ring.
LEMMA PopTestStep ==
  ASSUME IInv, NEW w \in Workers, PopTest(w)
  PROVE  IInv'
<1> USE DEF IInv
<1>1. PICK k \in 1 .. Len(queue) :
        /\ Eligible(queue[k])
        /\ held' = [held EXCEPT ![w] = queue[k]]
        /\ active' = active \cup ({Exclusion[queue[k]]} \ {NoExclusion})
        /\ queue' = Unlink(queue, k)
  BY DEF PopTest
<1>2. queue \in Seq(Entries) /\ NoRepeats(queue)
  BY DEF TypeOK, PlaceInv
<1>3. /\ queue' \in Seq(Entries)
      /\ Elements(queue') = Elements(queue) \ {queue[k]}
      /\ NoRepeats(queue')
  BY <1>1, <1>2, UnlinkType, UnlinkElements
<1>4. /\ queue[k] \in Entries /\ queue[k] # None
      /\ queue[k] \in Elements(queue) /\ queue # << >>
  BY <1>2, NoneAssumption DEF Elements
<1>5. TypeOK'
  BY <1>1, <1>3, <1>4, ExclusionAssumption DEF PopTest, TypeOK, WorkerState, Exclusions
<1>6. HoldInv'
  BY <1>1, <1>4 DEF PopTest, HoldInv, TypeOK
<1>7. PlaceInv'
  BY <1>1, <1>3, <1>4 DEF PopTest, PlaceInv, TypeOK, HoldInv
<1>8. RunsInv'
  BY <1>1, <1>4 DEF PopTest, RunsInv, TypeOK, HoldInv
<1>9. KeptInv'
  BY <1>1, <1>3, <1>4, NoneAssumption DEF PopTest, KeptInv, TypeOK, HoldInv
<1>10. ExclusionInv'
  BY <1>1, <1>4 DEF PopTest, ExclusionInv, DrainInv, Eligible, TypeOK
<1>11. DrainInv'
  BY <1>4 DEF PopTest, DrainInv, TypeOK
<1>12. MainInv'
  BY DEF PopTest, MainInv, TypeOK
<1>13. SerialInv'
  BY DEF PopTest, SerialInv
<1> QED BY <1>5, <1>6, <1>7, <1>8, <1>9, <1>10, <1>11, <1>12, <1>13

\* A worker finds only excluded tests.
LEMMA PopNoneStep ==
  ASSUME IInv, NEW w \in Workers, PopNone(w)
  PROVE  IInv'
<1> USE DEF IInv
<1>1. TypeOK'
  BY DEF PopNone, TypeOK, WorkerState, MainState
<1>2. HoldInv'
  BY DEF PopNone, HoldInv, TypeOK
<1>3. PlaceInv'
  BY DEF PopNone, PlaceInv, TypeOK, HoldInv
<1>4. RunsInv'
  BY DEF PopNone, RunsInv, TypeOK
<1>5. DrainInv'
  BY DEF PopNone, DrainInv, TypeOK
<1>6. MainInv'
  BY DEF PopNone, MainInv, TypeOK
<1>7. SerialInv' /\ KeptInv' /\ ExclusionInv'
  BY DEF PopNone, SerialInv, KeptInv, ExclusionInv
<1> QED BY <1>1, <1>2, <1>3, <1>4, <1>5, <1>6, <1>7

\* A worker registers on the condition variable.
LEMMA WaitStep ==
  ASSUME IInv, NEW w \in Workers, Wait(w)
  PROVE  IInv'
<1> USE DEF IInv
<1>1. TypeOK'
  BY DEF Wait, TypeOK, WorkerState, MainState
<1>2. HoldInv'
  BY DEF Wait, HoldInv, TypeOK
<1>3. PlaceInv'
  BY DEF Wait, PlaceInv, TypeOK, HoldInv
<1>4. RunsInv'
  BY DEF Wait, RunsInv, TypeOK
<1>5. DrainInv'
  BY DEF Wait, DrainInv, TypeOK
<1>6. MainInv'
  BY DEF Wait, MainInv, TypeOK
<1>7. SerialInv' /\ KeptInv' /\ ExclusionInv'
  BY DEF Wait, SerialInv, KeptInv, ExclusionInv
<1> QED BY <1>1, <1>2, <1>3, <1>4, <1>5, <1>6, <1>7

\* A worker sets a serial test aside.
LEMMA DeferSerialStep ==
  ASSUME IInv, NEW w \in Workers, DeferSerial(w)
  PROVE  IInv'
<1> USE DEF IInv
<1>1. /\ held[w] \in Serial /\ held[w] # None /\ held[w] \notin Elements(serial)
      /\ held[w] \notin completed /\ serial \in Seq(Serial) /\ NoRepeats(serial)
  BY NoneAssumption, EntriesAssumption DEF DeferSerial, TypeOK, PlaceInv, SerialInv
<1>2. /\ serial' \in Seq(Serial) /\ NoRepeats(serial')
      /\ Len(serial') = Len(serial) + 1 /\ serial'[Len(serial) + 1] = held[w]
      /\ \A i \in 1 .. Len(serial) : serial'[i] = serial[i]
      /\ Elements(serial') = Elements(serial) \cup {held[w]}
  BY <1>1, AppendFacts DEF DeferSerial
<1>3. main = "join" /\ pos = 1
  BY DEF DeferSerial, MainInv
<1>4. TypeOK'
  BY <1>2 DEF DeferSerial, TypeOK, WorkerState
<1>5. HoldInv'
  BY DEF DeferSerial, HoldInv, TypeOK
<1>6. PlaceInv'
  BY <1>1, <1>2 DEF DeferSerial, PlaceInv, TypeOK
<1>7. SerialInv'
  BY <1>1, <1>2, <1>3 DEF DeferSerial, SerialInv, TypeOK
<1>8. RunsInv'
  BY <1>3 DEF DeferSerial, RunsInv, TypeOK
<1>9. KeptInv'
  BY <1>2 DEF DeferSerial, KeptInv
<1>10. DrainInv'
  BY DEF DeferSerial, DrainInv, TypeOK
<1>11. MainInv'
  BY <1>3 DEF DeferSerial, MainInv
<1>12. ExclusionInv'
  BY DEF DeferSerial, ExclusionInv
<1> QED BY <1>4, <1>5, <1>6, <1>7, <1>8, <1>9, <1>10, <1>11, <1>12

\* A worker calls the test function.
LEMMA StartTestStep ==
  ASSUME IInv, NEW w \in Workers, StartTest(w)
  PROVE  IInv'
<1> USE DEF IInv
<1>1. held[w] # None /\ held[w] \in Entries /\ main = "join"
  BY DEF StartTest, TypeOK, HoldInv, MainInv
<1>2. /\ held[w] \notin completed
      /\ \A v \in Workers : held[v] = held[w] => v = w
  BY <1>1 DEF StartTest, PlaceInv
<1>3. TypeOK'
  BY <1>1 DEF StartTest, TypeOK, WorkerState
<1>4. HoldInv'
  BY DEF StartTest, HoldInv, TypeOK
<1>5. PlaceInv'
  BY DEF StartTest, PlaceInv, TypeOK, HoldInv
<1>6. RunsInv'
  BY <1>1, <1>2 DEF StartTest, RunsInv, TypeOK
<1>7. DrainInv'
  BY DEF StartTest, DrainInv, TypeOK
<1>8. MainInv'
  BY <1>1 DEF StartTest, MainInv
<1>9. SerialInv' /\ KeptInv' /\ ExclusionInv'
  BY DEF StartTest, SerialInv, KeptInv, ExclusionInv
<1> QED BY <1>3, <1>4, <1>5, <1>6, <1>7, <1>8, <1>9

\* A test function returns to its worker.
LEMMA FinishTestStep ==
  ASSUME IInv, NEW w \in Workers, FinishTest(w)
  PROVE  IInv'
<1> USE DEF IInv
<1>1. held[w] # None /\ held[w] \in Entries
  BY DEF FinishTest, TypeOK, HoldInv
<1>2. held[w] \notin Elements(serial) /\ held[w] \notin Serial
  BY <1>1 DEF FinishTest, PlaceInv
<1>3. TypeOK'
  BY <1>1 DEF FinishTest, TypeOK, WorkerState
<1>4. HoldInv'
  BY DEF FinishTest, HoldInv, TypeOK
<1>5. PlaceInv'
  BY <1>1 DEF FinishTest, PlaceInv, TypeOK
<1>6. SerialInv'
  BY <1>2 DEF FinishTest, SerialInv, TypeOK, Elements
<1>7. RunsInv'
  BY <1>1 DEF FinishTest, RunsInv, TypeOK
<1>8. KeptInv'
  BY DEF FinishTest, KeptInv
<1>9. DrainInv'
  BY DEF FinishTest, DrainInv, TypeOK
<1>10. MainInv'
  BY DEF FinishTest, MainInv, TypeOK
<1>11. ExclusionInv'
  BY DEF FinishTest, ExclusionInv
<1> QED BY <1>3, <1>4, <1>5, <1>6, <1>7, <1>8, <1>9, <1>10, <1>11

\* A worker releases its test and its exclusion.
LEMMA DoneStep ==
  ASSUME IInv, NEW w \in Workers, Done(w)
  PROVE  IInv'
<1> USE DEF IInv
<1>1. /\ pc' \in [Workers -> WorkerState]
      /\ \A v \in Workers : pc'[v] = IF v = w \/ pc[v] = "waiting" THEN "take" ELSE pc[v]
  BY DEF Done, TypeOK, Broadcast, WorkerState
<1>2. \A e \in Entries : (\E v \in Workers : pc'[v] = "running" /\ held'[v] = e)
                         <=> \E v \in Workers : pc[v] = "running" /\ held[v] = e
  BY <1>1, NoneAssumption DEF Done, TypeOK
<1>3. TypeOK'
  BY <1>1 DEF Done, TypeOK
<1>4. HoldInv'
  BY <1>1 DEF Done, HoldInv, TypeOK
<1>5. PlaceInv'
  BY <1>1 DEF Done, PlaceInv, TypeOK
<1>6. RunsInv'
  BY <1>2 DEF Done, RunsInv
<1>7. KeptInv'
  BY DEF Done, KeptInv, PlaceInv, HoldInv, TypeOK
<1>8. ExclusionInv'
  BY DEF Done, ExclusionInv, HoldInv, TypeOK
<1>9. DrainInv'
  BY <1>1 DEF Done, DrainInv
<1>10. MainInv'
  BY <1>1 DEF Done, MainInv
<1>11. SerialInv'
  BY DEF Done, SerialInv
<1> QED BY <1>3, <1>4, <1>5, <1>6, <1>7, <1>8, <1>9, <1>10, <1>11

\* wg.Wait returns.
LEMMA JoinStep ==
  ASSUME IInv, Join
  PROVE  IInv'
<1> USE DEF IInv
<1>1. TypeOK'
  BY DEF Join, TypeOK, WorkerState, MainState
<1>2. RunsInv'
  BY DEF Join, RunsInv, TypeOK
<1>3. MainInv'
  BY DEF Join, MainInv, TypeOK
<1>4. HoldInv' /\ PlaceInv' /\ SerialInv' /\ KeptInv' /\ ExclusionInv' /\ DrainInv'
  BY DEF Join, HoldInv, PlaceInv, SerialInv, KeptInv, ExclusionInv, DrainInv
<1> QED BY <1>1, <1>2, <1>3, <1>4

\* The loop goes on to the next deferred test.
LEMMA SerialCheckStep ==
  ASSUME IInv, SerialCheck
  PROVE  IInv'
<1> USE DEF IInv
<1>1. Elements(queue) = {} /\ \A w \in Workers : held[w] = None
  BY WorkersAssumption DEF SerialCheck, MainInv, DrainInv, HoldInv, Elements
<1>2. Elements(serial) \subseteq Serial
  BY DEF TypeOK, Elements
<1>3. Entries \ Serial \subseteq completed
  BY <1>1, <1>2, NoneAssumption DEF SerialCheck, KeptInv, DrainInv
<1>4. TypeOK'
  BY DEF SerialCheck, TypeOK, WorkerState, MainState
<1>5. RunsInv'
  BY DEF SerialCheck, RunsInv, TypeOK
<1>6. MainInv'
  BY <1>3 DEF SerialCheck, MainInv
<1>7. HoldInv' /\ PlaceInv' /\ SerialInv' /\ KeptInv' /\ ExclusionInv' /\ DrainInv'
  BY DEF SerialCheck, HoldInv, PlaceInv, SerialInv, KeptInv, ExclusionInv, DrainInv
<1> QED BY <1>4, <1>5, <1>6, <1>7

\* Execute returns.
LEMMA ReturnStep ==
  ASSUME IInv, Return
  PROVE  IInv'
<1> USE DEF IInv
<1>1. TypeOK'
  BY DEF Return, TypeOK, WorkerState, MainState
<1>2. RunsInv'
  BY DEF Return, RunsInv, TypeOK
<1>3. MainInv'
  BY DEF Return, MainInv, TypeOK
<1>4. HoldInv' /\ PlaceInv' /\ SerialInv' /\ KeptInv' /\ ExclusionInv' /\ DrainInv'
  BY DEF Return, HoldInv, PlaceInv, SerialInv, KeptInv, ExclusionInv, DrainInv
<1> QED BY <1>1, <1>2, <1>3, <1>4

\* Execute calls the test function for a deferred test.
LEMMA SerialStartStep ==
  ASSUME IInv, SerialStart
  PROVE  IInv'
<1> USE DEF IInv
<1>1. /\ pos \in 1 .. Len(serial) /\ serial[pos] \in Entries
      /\ serial[pos] \notin completed
  BY EntriesAssumption DEF SerialStart, MainInv, SerialInv, TypeOK
<1>2. \A w \in Workers : pc[w] # "running"
  BY DEF SerialStart, MainInv
<1>3. TypeOK'
  BY <1>1 DEF SerialStart, TypeOK, MainState
<1>4. RunsInv'
  BY <1>1, <1>2 DEF SerialStart, RunsInv, TypeOK
<1>5. MainInv'
  BY DEF SerialStart, MainInv, TypeOK
<1>6. HoldInv' /\ PlaceInv' /\ SerialInv' /\ KeptInv' /\ ExclusionInv' /\ DrainInv'
  BY DEF SerialStart, HoldInv, PlaceInv, SerialInv, KeptInv, ExclusionInv, DrainInv
<1> QED BY <1>3, <1>4, <1>5, <1>6

\* The test function returns to Execute.
LEMMA SerialFinishStep ==
  ASSUME IInv, SerialFinish
  PROVE  IInv'
<1> USE DEF IInv
<1>1. \A w \in Workers : held[w] = None /\ pc[w] # "running"
  BY DEF SerialFinish, MainInv, HoldInv
<1>2. /\ pos \in 1 .. Len(serial) /\ serial[pos] \in Serial
      /\ serial[pos] \in Entries /\ serial[pos] \in Elements(serial)
  BY EntriesAssumption DEF SerialFinish, MainInv, TypeOK, Elements
<1>3. TypeOK'
  BY <1>2 DEF SerialFinish, TypeOK, MainState
<1>4. PlaceInv'
  BY <1>1, <1>2 DEF SerialFinish, PlaceInv
<1>5. SerialInv'
  BY <1>2 DEF SerialFinish, SerialInv, NoRepeats, TypeOK
<1>6. RunsInv'
  BY <1>1, <1>2 DEF SerialFinish, RunsInv, TypeOK
<1>7. KeptInv'
  BY DEF SerialFinish, KeptInv
<1>8. MainInv'
  BY <1>2 DEF SerialFinish, MainInv, TypeOK
<1>9. HoldInv' /\ ExclusionInv' /\ DrainInv'
  BY DEF SerialFinish, HoldInv, ExclusionInv, DrainInv
<1> QED BY <1>3, <1>4, <1>5, <1>6, <1>7, <1>8, <1>9

\* The context is cancelled.
LEMMA CancelStep ==
  ASSUME IInv, Cancel
  PROVE  IInv'
<1> USE DEF IInv
<1>1. TypeOK'
  BY DEF Cancel, TypeOK, WorkerState, MainState
<1>2. DrainInv'
  BY DEF Cancel, DrainInv, TypeOK
<1>3. MainInv'
  BY DEF Cancel, MainInv, TypeOK
<1>4. HoldInv' /\ PlaceInv' /\ SerialInv' /\ RunsInv' /\ KeptInv' /\ ExclusionInv'
  BY DEF Cancel, HoldInv, PlaceInv, SerialInv, RunsInv, KeptInv, ExclusionInv
<1> QED BY <1>1, <1>2, <1>3, <1>4

\* The closer goroutine empties the queue.
LEMMA CloseStep ==
  ASSUME IInv, Close
  PROVE  IInv'
<1> USE DEF IInv
<1>1. /\ pc' \in [Workers -> WorkerState]
      /\ \A v \in Workers : pc'[v] = IF pc[v] = "waiting" THEN "take" ELSE pc[v]
  BY DEF Close, TypeOK, Broadcast, WorkerState
<1>2. \A e : (\E v \in Workers : pc'[v] = "running" /\ held[v] = e)
              <=> \E v \in Workers : pc[v] = "running" /\ held[v] = e
  BY <1>1 DEF Close
<1>3. TypeOK'
  BY <1>1 DEF Close, TypeOK
<1>4. HoldInv'
  BY <1>1 DEF Close, HoldInv
<1>5. PlaceInv'
  BY <1>1 DEF Close, PlaceInv, Elements, NoRepeats
<1>6. RunsInv'
  BY <1>2 DEF Close, RunsInv
<1>7. KeptInv'
  BY DEF Close, KeptInv
<1>8. ExclusionInv'
  BY DEF Close, ExclusionInv
<1>9. DrainInv'
  BY <1>1 DEF Close, DrainInv
<1>10. MainInv'
  BY <1>1 DEF Close, MainInv
<1>11. SerialInv'
  BY DEF Close, SerialInv
<1> QED BY <1>3, <1>4, <1>5, <1>6, <1>7, <1>8, <1>9, <1>10, <1>11
\* The queue just built by newParallelTestQueue satisfies the invariant.
LEMMA InitIInv == Init => IInv
<1> SUFFICES ASSUME Init PROVE IInv
  OBVIOUS
<1> USE DEF Init
<1>1. Cardinality(Entries) \in Nat
  BY EntriesAssumption, FS_CardinalityType
<1>2. queue \in Seq(Entries) /\ Elements(queue) = Entries /\ NoRepeats(queue)
  BY <1>1, FunctionIsSeq DEF Orders
<1>3. serial \in Seq(Serial) /\ Elements(serial) = {} /\ NoRepeats(serial) /\ Len(serial) = 0
  BY DEF Elements, NoRepeats
<1>4. TypeOK
  <2>1. pc \in [Workers -> WorkerState] /\ held \in [Workers -> Entries \cup {None}]
    BY DEF WorkerState
  <2>2. runs \in [Entries -> Nat] /\ pos \in Nat \ {0}
    OBVIOUS
  <2> QED BY <1>2, <1>3, <2>1, <2>2 DEF TypeOK, MainState
<1>5. HoldInv /\ PlaceInv
  BY <1>2, <1>3 DEF HoldInv, PlaceInv
<1>6. SerialInv /\ RunsInv
  BY <1>3 DEF SerialInv, RunsInv
<1>7. KeptInv /\ ExclusionInv
  BY <1>2 DEF KeptInv, ExclusionInv
<1>8. DrainInv /\ MainInv
  BY DEF DrainInv, MainInv
<1> QED BY <1>4, <1>5, <1>6, <1>7, <1>8 DEF IInv

\* No step of a worker, of Execute or of the closer breaks it.
LEMMA NextIInv == IInv /\ [Next]_vars => IInv'
<1> SUFFICES ASSUME IInv, [Next]_vars PROVE IInv'
  OBVIOUS
<1>1. ASSUME NEW w \in Workers, Worker(w) PROVE IInv'
  BY <1>1, PopEmptyStep, PopTestStep, PopNoneStep, WaitStep, DeferSerialStep, StartTestStep,
     FinishTestStep, DoneStep DEF Worker
<1>2. CASE Execute
  BY <1>2, JoinStep, SerialCheckStep, ReturnStep, SerialStartStep, SerialFinishStep DEF Execute
<1>3. CASE Cancel
  BY <1>3, CancelStep
<1>4. CASE Close
  BY <1>4, CloseStep
<1>5. CASE UNCHANGED vars
  BY <1>5 DEF vars, IInv, TypeOK, HoldInv, PlaceInv, SerialInv, RunsInv, KeptInv, ExclusionInv,
     DrainInv, MainInv
<1> QED BY <1>1, <1>2, <1>3, <1>4, <1>5 DEF Next

\* The inductive invariant holds in every state Execute's goroutines reach.
THEOREM Invariance == Spec => []IInv
BY InitIInv, NextIInv, PTL DEF Spec

-----------------------------------------------------------------------------
(* What follows from it *)

\* Every variable of the queue keeps its type; the empty exclusion is never active.
THEOREM TypeCorrect == Spec => []TypeOK
<1>1. IInv => TypeOK
  BY DEF IInv
<1> QED BY <1>1, Invariance, PTL

\* Tests from one exclusion group never run together, across Close as well.
THEOREM ExclusionHolds == Spec => []MutualExclusion
<1>1. IInv => MutualExclusion
  BY DEF IInv, MutualExclusion, ExclusionInv, HoldInv
<1> QED BY <1>1, Invariance, PTL

\* A serial test runs alone, after every other test has finished.
THEOREM SerialRunsAlone == Spec => []SerialAlone
<1>1. IInv => SerialAlone
  <2> SUFFICES ASSUME IInv, NEW e \in Running \cap Serial
               PROVE  Running = {e} /\ Entries \ Serial \subseteq completed
    BY DEF SerialAlone
  <2>1. \A w \in Workers : pc[w] = "running" => held[w] \notin Serial
    BY DEF IInv, HoldInv, PlaceInv
  <2>2. main = "running"
    BY <2>1 DEF Running
  <2>3. \A w \in Workers : pc[w] # "running"
    BY <2>2 DEF IInv, MainInv
  <2> QED BY <2>2, <2>3 DEF Running, IInv, MainInv
<1> QED BY <1>1, Invariance, PTL

\* At the end of an uncancelled loop every entry has finished.
LEMMA AllCompleted ==
  ASSUME IInv, main # "join", ~ctxDone, pos > Len(serial)
  PROVE  completed = Entries
<1>1. ~closed
  BY DEF IInv, DrainInv
<1>2. Elements(queue) = {} /\ \A w \in Workers : held[w] = None
  BY WorkersAssumption DEF IInv, MainInv, DrainInv, HoldInv, Elements
<1>3. Elements(serial) \subseteq completed
  BY DEF IInv, SerialInv, TypeOK, Elements
<1> QED BY <1>1, <1>2, <1>3, NoneAssumption DEF IInv, KeptInv, TypeOK

\* No test runs twice, and an uncancelled Execute has run each of them.
THEOREM RunsExactlyOnce == Spec => []ExactlyOnce
<1>1. IInv => ExactlyOnce
  <2> SUFFICES ASSUME IInv PROVE ExactlyOnce
    OBVIOUS
  <2>1. \A e \in Entries : runs[e] <= 1
    BY DEF IInv, RunsInv
  <2>2. ASSUME main = "returned", ~ctxDone PROVE completed = Entries
    BY <2>2, AllCompleted DEF IInv, MainInv
  <2>3. \A e \in completed : runs[e] = 1
    BY DEF IInv, RunsInv, TypeOK
  <2> QED BY <2>1, <2>2, <2>3 DEF ExactlyOnce
<1> QED BY <1>1, Invariance, PTL

\* When Execute has returned, no test it started is still running.
THEOREM ReturnsWhenQuiet == Spec => []ReturnsQuiescent
<1>1. IInv => ReturnsQuiescent
  BY DEF IInv, ReturnsQuiescent, Running, MainInv, RunsInv
<1> QED BY <1>1, Invariance, PTL

-----------------------------------------------------------------------------
(* Refinement of TestSchedule *)

\* The entries the schedule sees as running: no finished one is among them.
LEMMA RunningFacts ==
  ASSUME IInv
  PROVE  /\ Schedule!Running = Running
         /\ Running \cap completed = {}
<1>1. \A w \in Workers : pc[w] = "running" => held[w] \in Entries \ completed
  BY NoneAssumption DEF IInv, TypeOK, HoldInv, PlaceInv
<1>2. main = "running" => serial[pos] \in Entries \ completed
  BY EntriesAssumption DEF IInv, TypeOK, SerialInv, MainInv
<1>3. Running \subseteq Entries /\ Running \cap completed = {}
  BY <1>1, <1>2 DEF Running
<1> QED BY <1>3 DEF Schedule!Running, Status

\* A worker starts a test only when the schedule allows it.
LEMMA StartTestRefines ==
  ASSUME IInv, IInv', NEW w \in Workers, StartTest(w)
  PROVE  Schedule!Start(held[w])
<1> DEFINE e == held[w]
<1>1. e \in Entries \ Serial /\ e # None /\ e \notin completed /\ main = "join"
  BY DEF StartTest, IInv, TypeOK, HoldInv, PlaceInv, MainInv
<1>2. e \notin Running
  BY <1>1 DEF StartTest, IInv, PlaceInv, Running
<1>3. Running' = Running \cup {e}
  BY <1>1 DEF StartTest, Running, IInv, TypeOK
<1>4. ASSUME NEW f \in Running PROVE ~Schedule!Conflict(e, f)
  <2>1. PICK v \in Workers : pc[v] = "running" /\ f = held[v]
    BY <1>1 DEF Running
  <2>2. v # w /\ held[v] # None /\ f \notin Serial
    BY <2>1 DEF StartTest, IInv, HoldInv, PlaceInv
  <2>3. Exclusion[e] = NoExclusion \/ Exclusion[e] # Exclusion[f]
    BY <1>1, <2>1, <2>2 DEF IInv, ExclusionInv
  <2> QED BY <1>1, <2>2, <2>3 DEF Schedule!Conflict
<1>5. Status' = [Status EXCEPT ![e] = "running"]
  BY <1>1, <1>3 DEF StartTest, Status
<1> QED BY <1>1, <1>2, <1>4, <1>5, RunningFacts DEF Schedule!Start, StartTest, Status

\* A test that returns to its worker is finished in the schedule.
LEMMA FinishTestRefines ==
  ASSUME IInv, IInv', NEW w \in Workers, FinishTest(w)
  PROVE  Schedule!Finish(held[w])
<1> DEFINE e == held[w]
<1>1. e \in Entries /\ e \in Running /\ e # None
  BY DEF FinishTest, IInv, TypeOK, HoldInv, Running
<1>2. Running' = Running \ {e}
  BY <1>1 DEF FinishTest, Running, IInv, TypeOK, PlaceInv, HoldInv, MainInv
<1>3. Status' = [Status EXCEPT ![e] = "finished"]
  BY <1>1, <1>2 DEF FinishTest, Status
<1> QED BY <1>1, <1>3, RunningFacts DEF Schedule!Finish, FinishTest, Status

\* A deferred test starts only when the schedule allows it.
LEMMA SerialStartRefines ==
  ASSUME IInv, IInv', SerialStart
  PROVE  Schedule!Start(serial[pos])
<1> DEFINE e == serial[pos]
<1>1. e \in Entries /\ e \in Serial /\ e \notin completed /\ Entries \ Serial \subseteq completed
  BY EntriesAssumption DEF SerialStart, IInv, TypeOK, SerialInv, MainInv
<1>2. Running = {} /\ Running' = {e}
  BY DEF SerialStart, Running, IInv, MainInv
<1>3. Status' = [Status EXCEPT ![e] = "running"]
  BY <1>1, <1>2 DEF SerialStart, Status
<1> QED BY <1>1, <1>2, <1>3, RunningFacts DEF Schedule!Start, SerialStart, Status

\* A deferred test that returns to Execute is finished in the schedule.
LEMMA SerialFinishRefines ==
  ASSUME IInv, IInv', SerialFinish
  PROVE  Schedule!Finish(serial[pos])
<1> DEFINE e == serial[pos]
<1>1. e \in Entries /\ Running = {e} /\ Running' = {}
  BY EntriesAssumption DEF SerialFinish, Running, IInv, TypeOK, MainInv
<1>2. Status' = [Status EXCEPT ![e] = "finished"]
  BY <1>1 DEF SerialFinish, Status
<1> QED BY <1>1, <1>2, RunningFacts DEF Schedule!Finish, SerialFinish, Status

\* Execute returns only when the schedule allows it.
LEMMA ReturnRefines ==
  ASSUME IInv, IInv', Return
  PROVE  Schedule!Return
<1>1. Running = {} /\ Running' = {}
  BY DEF Return, Running, IInv, MainInv
<1>2. Status' = Status
  BY <1>1 DEF Return, Status
<1>3. ASSUME ~ctxDone PROVE completed = Entries
  BY <1>3, AllCompleted DEF Return
<1> QED BY <1>1, <1>2, <1>3, RunningFacts DEF Schedule!Return, Schedule!MayReturn, Return, Status

\* The workers, the ring and the serial loop implement the schedule that the
\* comment on parallelByFileTestQueue promises: each step of theirs is a step of
\* TestSchedule or leaves its state unchanged.
THEOREM Refinement == Spec => ImplementsSchedule
<1>1. Init => Schedule!Init
  BY NoneAssumption DEF Init, Schedule!Init, Status, Running
<1>2. ASSUME IInv, IInv', [Next]_vars PROVE [Schedule!Next]_(Schedule!vars)
  <2>1. ASSUME NEW w \in Workers, Worker(w) PROVE [Schedule!Next]_(Schedule!vars)
    <3>1. CASE StartTest(w)
      <4>1. held[w] \in Entries
        BY <1>2, <3>1 DEF StartTest, IInv, TypeOK, HoldInv
      <4> QED BY <1>2, <3>1, <4>1, StartTestRefines DEF Schedule!Next
    <3>2. CASE FinishTest(w)
      <4>1. held[w] \in Entries
        BY <1>2, <3>2 DEF FinishTest, IInv, TypeOK, HoldInv
      <4> QED BY <1>2, <3>2, <4>1, FinishTestRefines DEF Schedule!Next
    <3>3. ASSUME PopEmpty(w) \/ PopTest(w) \/ PopNone(w) \/ Wait(w) \/ DeferSerial(w) \/ Done(w)
          PROVE  UNCHANGED Schedule!vars
      <4>1. UNCHANGED <<main, completed, ctxDone, pos>>
        BY <3>3 DEF PopEmpty, PopTest, PopNone, Wait, DeferSerial, Done
      <4>2. main = "join"
        BY <1>2, <3>3 DEF IInv, MainInv, PopEmpty, PopTest, PopNone, Wait, DeferSerial, Done
      <4>3. \A v \in Workers : /\ pc'[v] = "running" <=> pc[v] = "running"
                               /\ pc[v] = "running" => held'[v] = held[v]
        BY <1>2, <3>3 DEF IInv, TypeOK, PopEmpty, PopTest, PopNone, Wait, DeferSerial, Done, Broadcast
      <4>4. Running' = Running
        BY <4>1, <4>2, <4>3 DEF Running
      <4> QED BY <4>1, <4>4 DEF Schedule!vars, Status
    <3> QED BY <2>1, <3>1, <3>2, <3>3 DEF Worker
  <2>2. CASE Execute
    <3>1. CASE SerialStart
      <4>1. serial[pos] \in Entries
        BY <1>2, <3>1, EntriesAssumption DEF SerialStart, IInv, TypeOK, MainInv
      <4> QED BY <1>2, <3>1, <4>1, SerialStartRefines DEF Schedule!Next
    <3>2. CASE SerialFinish
      <4>1. serial[pos] \in Entries
        BY <1>2, <3>2, EntriesAssumption DEF SerialFinish, IInv, TypeOK, MainInv
      <4> QED BY <1>2, <3>2, <4>1, SerialFinishRefines DEF Schedule!Next
    <3>3. CASE Return
      BY <1>2, <3>3, ReturnRefines DEF Schedule!Next
    <3>4. CASE Join \/ SerialCheck
      BY <3>4 DEF Join, SerialCheck, Schedule!vars, Status, Running
    <3> QED BY <2>2, <3>1, <3>2, <3>3, <3>4 DEF Execute
  <2>3. CASE Cancel
    BY <2>3 DEF Cancel, Schedule!Next, Schedule!Interrupt, Status, Running
  <2>4. CASE Close
    <3>1. \A v \in Workers : pc'[v] = "running" <=> pc[v] = "running"
      BY <1>2, <2>4 DEF Close, Broadcast, IInv, TypeOK
    <3>2. Running' = Running
      BY <2>4, <3>1 DEF Close, Running
    <3> QED BY <2>4, <3>2 DEF Close, Schedule!vars, Status
  <2>5. CASE UNCHANGED vars
    BY <2>5 DEF vars, Schedule!vars, Status, Running
  <2> QED BY <1>2, <2>1, <2>2, <2>3, <2>4, <2>5 DEF Next
<1> QED BY <1>1, <1>2, Invariance, PTL DEF Spec, ImplementsSchedule, Schedule!Spec
=============================================================================
