----------------------- MODULE MonitorFunctionsProofs -----------------------
(***************************************************************************)
(* Theorems about the pure functions of the monitor, on every log and every*)
(* pair of lists: the queries of MonitorIntervals return what they should, *)
(* and the searches of ChangeFns find a status by its name.                *)
(***************************************************************************)
EXTENDS MCMonitorFunctions, SequenceTheorems, DataFacts, TLAPS

-----------------------------------------------------------------------------
(* The queries on every log of events and samples *)

\* A sequence with nothing twice is as long as it has elements.
LEMMA DistinctLength ==
  ASSUME NEW S, NEW s \in Seq(S), \A X : Once(s, X)
  PROVE  Cardinality(Range(s)) = Len(s)
<1>1. Len(s) \in Nat /\ DOMAIN s = 1 .. Len(s) /\ s \in [1 .. Len(s) -> S]
  BY LenProperties
<1>2. ASSUME NEW k \in 1 .. Len(s), NEW l \in 1 .. Len(s), s[k] = s[l] PROVE k = l
  <2>1. Once(s, {s[k]})
    OBVIOUS
  <2> QED BY <1>2, <2>1 DEF Once
<1>3. s \in [1 .. Len(s) -> Range(s)] /\ \A t \in Range(s) : \E k \in 1 .. Len(s) : s[k] = t
  BY <1>1 DEF Range
<1>4. s \in Bijection(1 .. Len(s), Range(s))
  BY <1>1, <1>2, <1>3 DEF Bijection, Injection, Surjection, IsInjective
<1>5. ExistsBijection(1 .. Len(s), Range(s))
  BY <1>4 DEF ExistsBijection
<1> QED BY <1>1, <1>5, FS_CountingElements

\* The log is in order, and events and samples have times of their own.
QueriesInv ==
  /\ clock \in 0 .. MaxTime
  /\ ProperSamples(samples, Conds, 1 .. MaxTime)
  /\ ProperEvents(events, Conds, 1 .. MaxTime)
  /\ \A k \in 1 .. Len(samples) : samples[k].at <= clock
  /\ \A i \in 1 .. Len(events) : events[i].at <= clock
  /\ \A i \in 1 .. Len(events), k \in 1 .. Len(samples) : events[i].at # samples[k].at

LEMMA InitQueries ==
  ASSUME Init
  PROVE  QueriesInv
<1>1. clock = 0 /\ events = << >> /\ samples = << >>
  BY DEF Init
<1>2. Len(events) = 0 /\ Len(samples) = 0 /\ clock \in 0 .. MaxTime /\ 1 .. MaxTime \subseteq Nat
  BY <1>1, SizesAssumption
<1>3. (\A S : events \in Seq(S) /\ samples \in Seq(S))
  BY <1>1, EmptySeq
<1>4. ProperSamples(samples, Conds, 1 .. MaxTime) /\ ProperEvents(events, Conds, 1 .. MaxTime)
  BY <1>2, <1>3 DEF ProperSamples, ProperEvents
<1> QED BY <1>2, <1>4 DEF QueriesInv

LEMMA QueriesStep ==
  ASSUME QueriesInv, [AddEvent \/ AddSample]_vars
  PROVE  QueriesInv'
<1> DEFINE C == Conds
           T == 1 .. MaxTime
<1>1. clock \in Nat /\ MaxTime \in Nat /\ T \subseteq Nat /\ C' = C
  BY SizesAssumption DEF QueriesInv, Conds
<1>2. /\ \A k \in 1 .. Len(samples) : samples[k].at \in Nat /\ samples[k].at <= clock
      /\ \A i \in 1 .. Len(events) : events[i].at \in Nat /\ events[i].at <= clock
  <2>1. \A k \in 1 .. Len(samples) : samples[k].at \in Nat
    BY SampleTimes DEF QueriesInv
  <2>2. events \in Seq([at : T, cond : C])
    BY DEF QueriesInv, ProperEvents
  <2>3. \A i \in 1 .. Len(events) : events[i] \in [at : T, cond : C]
    BY <2>2, ElementOfSeq
  <2> QED BY <1>1, <2>1, <2>3 DEF QueriesInv
<1> HIDE DEF C
<1>3. CASE AddEvent
  <2>1. clock < MaxTime /\ clock' = clock + 1 /\ samples' = samples
    BY <1>3 DEF AddEvent
  <2>2. PICK c \in C : events' = Append(events, [at |-> clock + 1, cond |-> c])
    BY <1>3 DEF AddEvent, C
  <2> DEFINE e == [at |-> clock + 1, cond |-> c]
  <2>3. e \in [at : T, cond : C] /\ e.at = clock + 1
    BY <1>1, <2>1
  <2>4. events' = Append(events, e) /\ ProperEvents(events, C, T)
    BY <2>2 DEF QueriesInv, C
  <2> HIDE DEF e
  <2>5. \A i \in 1 .. Len(events) : events[i].at < e.at
    BY <1>1, <1>2, <2>3
  <2>6. ProperEvents(events', C, T) /\ Extends(events', events, e)
    BY <2>3, <2>4, <2>5, EventAdded
  <2>7. \A i \in 1 .. Len(events') : events'[i].at <= clock + 1
    BY <1>1, <1>2, <2>3, <2>6 DEF Extends
  <2>8. \A k \in 1 .. Len(samples) : samples[k].at <= clock + 1 /\ e.at # samples[k].at
    BY <1>1, <1>2, <2>3
  <2>9. \A i \in 1 .. Len(events'), k \in 1 .. Len(samples) : events'[i].at # samples[k].at
    BY <2>6, <2>8 DEF QueriesInv, Extends
  <2>10. clock' \in 0 .. MaxTime
    BY <1>1, <2>1
  <2>11. ProperSamples(samples, C, T)
    BY DEF QueriesInv, C
  <2> QED BY <1>1, <2>1, <2>6, <2>7, <2>8, <2>9, <2>10, <2>11 DEF QueriesInv, C
<1>4. CASE AddSample
  <2>1. clock < MaxTime /\ clock' = clock + 1 /\ events' = events
    BY <1>4 DEF AddSample
  <2>2. PICK conds \in SampleConds : samples' = Append(samples, [at |-> clock + 1, conds |-> conds])
    BY <1>4 DEF AddSample
  <2>3. conds \in Seq(C) /\ \A k, l \in 1 .. Len(conds) : conds[k] = conds[l] => k = l
    <3>1. PICK n \in 1 .. NumConds : conds \in [1 .. n -> C] /\ \A i, j \in 1 .. n : i # j => conds[i] # conds[j]
      BY <2>2 DEF SampleConds, C
    <3>2. n \in Nat
      OBVIOUS
    <3>3. conds \in Seq(C) /\ Len(conds) = n
      BY <3>1, <3>2
    <3> QED BY <3>1, <3>3
  <2> DEFINE taken == [at |-> clock + 1, conds |-> conds]
  <2>4. taken \in [at : T, conds : Seq(C)] /\ taken.at = clock + 1 /\ taken.conds = conds
    BY <1>1, <2>1, <2>3
  <2>5. samples' = Append(samples, taken) /\ ProperSamples(samples, C, T)
    BY <2>2 DEF QueriesInv, C
  <2> HIDE DEF taken
  <2>6. \A i \in 1 .. Len(samples) : samples[i].at < taken.at
    BY <1>1, <1>2, <2>4
  <2>7. \A k, l \in 1 .. Len(taken.conds) : taken.conds[k] = taken.conds[l] => k = l
    BY <2>3, <2>4
  <2>8. ProperSamples(samples', C, T) /\ Extends(samples', samples, taken)
    BY <2>4, <2>5, <2>6, <2>7, SampleAdded
  <2>9. \A i \in 1 .. Len(samples') : samples'[i].at <= clock + 1
    BY <1>1, <1>2, <2>4, <2>8 DEF Extends
  <2>10. \A i \in 1 .. Len(events) : events[i].at <= clock + 1 /\ events[i].at # taken.at
    BY <1>1, <1>2, <2>4
  <2>11. \A i \in 1 .. Len(events), k \in 1 .. Len(samples') : events[i].at # samples'[k].at
    BY <2>8, <2>10 DEF QueriesInv, Extends
  <2>12. clock' \in 0 .. MaxTime
    BY <1>1, <2>1
  <2>13. ProperEvents(events, C, T)
    BY DEF QueriesInv, C
  <2> QED BY <1>1, <2>1, <2>8, <2>9, <2>10, <2>11, <2>12, <2>13 DEF QueriesInv, C
<1>5. CASE UNCHANGED vars
  BY <1>1, <1>5 DEF QueriesInv, C, vars
<1> QED BY <1>3, <1>4, <1>5

LEMMA QueriesInvariance == Spec => []QueriesInv
<1>1. Init => QueriesInv
  BY InitQueries
<1>2. QueriesInv /\ [AddEvent \/ AddSample]_vars => QueriesInv'
  BY QueriesStep
<1> QED BY <1>1, <1>2, PTL DEF Spec

\* Whatever samples a log holds, Conditions returns for every window one interval for
\* every maximal run of samples with a condition, none twice, in the order of their
\* beginning.
THEOREM ConditionsAreRuns == Spec => []IntervalsAreRuns
<1>1. ASSUME QueriesInv PROVE IntervalsAreRuns
  <2>1. ASSUME NEW from \in Times, NEW to \in Times
        PROVE  LET out == filterSamples(samples, from, to)
               IN  /\ Range(out) = SampleRuns(samples, from, to)
                   /\ Cardinality(Range(out)) = Len(out)
                   /\ \A i \in 1 .. Len(out) - 1 : out[i].from <= out[i + 1].from
    <3> DEFINE out == filterSamples(samples, from, to)
               C == Conds
               T == 1 .. MaxTime
               S == Intervals(C, {n \in T : InWindow(n, from, to)})
    <3>1. from \in Nat /\ to \in Nat
      BY SizesAssumption DEF Times
    <3>2. ProperSamples(samples, C, T)
      BY <1>1 DEF QueriesInv
    <3> HIDE DEF C, T
    <3>3. out \in Seq(S) /\ ExactRuns(samples, from, to)
      BY <3>1, <3>2, FilterSamplesFacts
    <3>4. Range(out) = SampleRuns(samples, from, to) /\ NoneTwice(out) /\ ByBeginning(out)
      BY <3>3 DEF ExactRuns
    <3> HIDE DEF out, S
    <3>5. \A X : Once(out, X)
      BY <3>4 DEF NoneTwice, Once
    <3>6. Cardinality(Range(out)) = Len(out)
      BY <3>3, <3>5, DistinctLength
    <3>7. \A i \in 1 .. Len(out) - 1 : out[i].from <= out[i + 1].from
      <4>1. Len(out) \in Nat
        BY <3>3, LenProperties
      <4> QED BY <3>4, <4>1 DEF ByBeginning
    <3> QED BY <3>4, <3>6, <3>7 DEF out
  <2> QED BY <2>1 DEF IntervalsAreRuns
<1> QED BY <1>1, QueriesInvariance, PTL

\* Whatever a log holds, Events returns for every window exactly its events and the
\* runs of its samples, each once and in the order of their beginning, whether or not
\* it had to sort.
THEOREM EventsAreOfTheWindow == Spec => []EventsInWindow
<1>1. ASSUME QueriesInv PROVE EventsInWindow
  <2>1. ASSUME NEW from \in Times, NEW to \in Times
        PROVE  LET out == EventsBetween(events, samples, from, to)
                   points == {[cond |-> events[i].cond, from |-> events[i].at, to |-> events[i].at] :
                                i \in {k \in 1 .. Len(events) : InWindow(events[k].at, from, to)}}
               IN  /\ Range(out) = points \cup SampleRuns(samples, from, to)
                   /\ Cardinality(Range(out)) = Len(out)
                   /\ \A i \in 1 .. Len(out) - 1 : out[i].from <= out[i + 1].from
    <3> DEFINE out == EventsBetween(events, samples, from, to)
               C == Conds
               T == 1 .. MaxTime
               S == Intervals(C \cup C, {n \in T : InWindow(n, from, to)})
               points == {[cond |-> events[i].cond, from |-> events[i].at, to |-> events[i].at] :
                            i \in {k \in 1 .. Len(events) : InWindow(events[k].at, from, to)}}
    <3>1. from \in Nat /\ to \in Nat /\ C \subseteq Nat
      BY <1>1, SizesAssumption DEF Times, Conds
    <3>2. ProperSamples(samples, C, T) /\ ProperEvents(events, C, T)
      BY <1>1 DEF QueriesInv
    <3>3. \A i \in 1 .. Len(events) : Point(events[i]) \notin SampleRuns(samples, from, to)
      <4>1. ASSUME NEW i \in 1 .. Len(events), Point(events[i]) \in SampleRuns(samples, from, to) PROVE FALSE
        <5>1. PICK k \in 1 .. Len(samples) : Point(events[i]).from = samples[k].at
          BY <4>1, SampleRunsMembers DEF Run
        <5>2. Point(events[i]).from = events[i].at
          BY DEF Point
        <5> QED BY <1>1, <5>1, <5>2 DEF QueriesInv
      <4> QED BY <4>1
    <3>4. \A x : x \in points <=> IsPoint(events, from, to, x)
      BY DEF IsPoint, Point
    <3> HIDE DEF C, T
    <3>5. out \in Seq(S) /\ ExactEvents(events, samples, from, to)
      BY <3>1, <3>2, <3>3, EventsFacts
    <3>6. /\ ByBeginning(out) /\ (\A X : Once(out, X))
          /\ \A x : Occurs(out, x) <=> x \in SampleRuns(samples, from, to) \/ IsPoint(events, from, to, x)
      BY <3>5 DEF ExactEvents
    <3> HIDE DEF out, S, points
    <3>7. Cardinality(Range(out)) = Len(out)
      BY <3>5, <3>6, DistinctLength
    <3>8. Len(out) \in Nat /\ DOMAIN out = 1 .. Len(out)
      BY <3>5, LenProperties
    <3>9. \A i \in 1 .. Len(out) - 1 : out[i].from <= out[i + 1].from
      BY <3>6, <3>8 DEF ByBeginning
    <3>10. \A x : x \in Range(out) <=> Occurs(out, x)
      BY <3>8 DEF Range, Occurs
    <3>11. Range(out) = points \cup SampleRuns(samples, from, to)
      BY <3>4, <3>6, <3>10
    <3> QED BY <3>7, <3>9, <3>11 DEF points, out
  <2> QED BY <2>1 DEF EventsInWindow
<1> QED BY <1>1, QueriesInvariance, PTL

-----------------------------------------------------------------------------
(* The searches of the change functions *)

\* p is the position of a status with this name, 0 if there is none.
IsFound(l, name, p) ==
  /\ p = 0 => \A i \in 1 .. Len(l) : l[i].name # name
  /\ p # 0 => p \in 1 .. Len(l) /\ l[p].name = name

\* All three searches find a status by its name.
LEMMA Searches ==
  ASSUME NEW S, NEW l \in Seq(S), NEW name, NEW i \in Nat \ {0}
  PROVE  /\ IsFound(l, name, FirstNamed(l, name))
         /\ IsFound(l, name, findStatus(l, name, i))
         /\ IsFound(l, name, RotatedSearch(l, name, i))
<1>1. Len(l) \in Nat /\ DOMAIN l = 1 .. Len(l)
  BY LenProperties
<1>2. ASSUME NEW I \in SUBSET Nat, I # {} PROVE Min(I) \in I
  <2>1. PICK n \in I : \A k \in I : n <= k
    BY <1>2, LeastNumber
  <2> QED BY <2>1 DEF Min
<1>3. IsFound(l, name, FirstNamed(l, name))
  <2> DEFINE I == {k \in 1 .. Len(l) : l[k].name = name}
  <2>1. FirstNamed(l, name) = IF I # {} THEN Min(I) ELSE 0
    BY DEF FirstNamed, SelectInSeq
  <2>2. I \in SUBSET Nat
    BY <1>1
  <2> HIDE DEF I
  <2>3. I # {} => Min(I) \in I
    BY <1>2, <2>2
  <2>4. 0 \notin I
    BY DEF I
  <2> QED BY <2>1, <2>3, <2>4 DEF IsFound, I
<1>4. IsFound(l, name, findStatus(l, name, i))
  BY <1>1, <1>3 DEF findStatus, IsFound
<1>5. IsFound(l, name, RotatedSearch(l, name, i))
  <2> DEFINE m == Len(l)
             At(j) == ((j + i - 1) % m) + 1
             hits == {j \in 0 .. m - 1 : l[At(j)].name = name}
  <2>1. RotatedSearch(l, name, i) = IF hits = {} THEN 0 ELSE At(Min(hits))
    BY DEF RotatedSearch
  <2>2. hits # {} => Min(hits) \in hits
    <3>1. hits \in SUBSET Nat
      BY <1>1
    <3> HIDE DEF hits
    <3> QED BY <1>2, <3>1
  <2>3. ASSUME NEW j \in 0 .. m - 1 PROVE At(j) \in 1 .. m
    <3>1. m \in Nat \ {0} /\ j + i - 1 \in Nat
      BY <1>1
    <3>2. (j + i - 1) % m \in 0 .. m - 1
      BY <3>1
    <3> QED BY <3>1, <3>2
  <2>4. ASSUME NEW p \in 1 .. m PROVE \E j \in 0 .. m - 1 : At(j) = p
    <3>1. m \in Nat \ {0} /\ p - 1 \in 0 .. m - 1 /\ i - 1 \in Nat
      BY <1>1
    <3>2. PICK j \in 0 .. m - 1 : (j + (i - 1)) % m = p - 1
      BY <3>1, Remainders
    <3>3. j + (i - 1) = j + i - 1 /\ (p - 1) + 1 = p
      BY <3>1
    <3> QED BY <3>2, <3>3
  <2> HIDE DEF At
  <2>5. CASE hits = {}
    <3>1. \A p \in 1 .. m : l[p].name # name
      BY <2>4, <2>5
    <3> QED BY <2>1, <2>5, <3>1 DEF IsFound
  <2>6. CASE hits # {}
    <3> DEFINE p == At(Min(hits))
    <3>1. p \in 1 .. m /\ l[p].name = name
      BY <2>2, <2>3, <2>6
    <3>2. p # 0
      BY <1>1, <3>1
    <3> HIDE DEF p
    <3> QED BY <2>1, <2>6, <3>1, <3>2 DEF IsFound, p
  <2> QED BY <2>5, <2>6
<1> QED BY <1>3, <1>4, <1>5

\* Statuses with different names.
ProperList(l) ==
  /\ l \in Seq([name : Statuses, bad : BOOLEAN])
  /\ \A i, j \in 1 .. Len(l) : l[i].name = l[j].name => i = j

\* What is in such a list.
LEMMA ListFacts ==
  ASSUME NEW l, ProperList(l)
  PROVE  /\ Len(l) \in Nat /\ DOMAIN l = 1 .. Len(l)
         /\ \A i \in 1 .. Len(l) : l[i].name \in Statuses /\ l[i].bad \in BOOLEAN
<1> DEFINE B == [name : Statuses, bad : BOOLEAN]
<1>1. l \in Seq(B)
  BY DEF ProperList
<1>2. \A b \in B : b.name \in Statuses /\ b.bad \in BOOLEAN
  OBVIOUS
<1> HIDE DEF B
<1> QED BY <1>1, <1>2, LenProperties, ElementOfSeq

\* A list that has the names of l at the same places is searched with the same result.
SameNames(d, l) == /\ \E S : d \in Seq(S)
                   /\ Len(d) = Len(l) /\ \A i \in 1 .. Len(l) : d[i].name = l[i].name

LEMMA FoundByName ==
  ASSUME NEW l, NEW d, SameNames(d, l), NEW name, NEW i \in Nat \ {0}
  PROVE  /\ IsFound(l, name, FirstNamed(d, name))
         /\ IsFound(l, name, findStatus(d, name, i))
         /\ IsFound(l, name, RotatedSearch(d, name, i))
<1>1. PICK S : d \in Seq(S)
  BY DEF SameNames
<1>2. /\ IsFound(d, name, FirstNamed(d, name))
      /\ IsFound(d, name, findStatus(d, name, i))
      /\ IsFound(d, name, RotatedSearch(d, name, i))
  BY <1>1, Searches
<1>3. ASSUME NEW p, IsFound(d, name, p) PROVE IsFound(l, name, p)
  BY <1>3 DEF SameNames, IsFound
<1> QED BY <1>2, <1>3

\* The status that was found tells whether the one of that name changed.
LEMMA FoundChanged ==
  ASSUME ProperList(old), ProperList(new), NEW j \in 1 .. Len(new), NEW p,
         IsFound(old, new[j].name, p)
  PROVE  new[j].name \in ChangedNames <=> p # 0 /\ old[p].bad # new[j].bad
<1> DEFINE name == new[j].name
<1>1. /\ DOMAIN old = 1 .. Len(old) /\ DOMAIN new = 1 .. Len(new)
      /\ name \in Statuses
  BY ListFacts
<1>2. ASSUME name \in ChangedNames PROVE p # 0 /\ old[p].bad # new[j].bad
  <2>1. PICK i \in 1 .. Len(old), k \in 1 .. Len(new) :
          old[i].name = name /\ new[k].name = name /\ old[i].bad # new[k].bad
    BY <1>1, <1>2 DEF ChangedNames
  <2>2. p # 0 /\ p \in 1 .. Len(old) /\ old[p].name = name
    BY <2>1 DEF IsFound
  <2>3. p = i /\ k = j
    BY <2>1, <2>2 DEF ProperList
  <2> QED BY <2>1, <2>2, <2>3
<1>3. ASSUME p # 0, old[p].bad # new[j].bad PROVE name \in ChangedNames
  <2>1. p \in 1 .. Len(old) /\ old[p].name = name
    BY <1>3 DEF IsFound
  <2> QED BY <1>1, <1>3, <2>1 DEF ChangedNames
<1> QED BY <1>2, <1>3

\* What changed is in the new list.
LEMMA ChangedListed ==
  ASSUME ProperList(new), NEW x \in ChangedNames
  PROVE  \E j \in 1 .. Len(new) : new[j].name = x
BY ListFacts DEF ChangedNames

\* A function on the first numbers is a sequence.
LEMMA MadeList ==
  ASSUME NEW n \in Nat, NEW d, d = [i \in 1 .. n |-> d[i]]
  PROVE  Len(d) = n /\ DOMAIN d = 1 .. n /\ \E S : d \in Seq(S)
<1> DEFINE S == {d[i] : i \in 1 .. n}
<1>1. d \in [1 .. n -> S]
  <2>1. \A i \in 1 .. n : d[i] \in S
    OBVIOUS
  <2> HIDE DEF S
  <2> QED BY <2>1
<1> HIDE DEF S
<1>2. d \in Seq(S) /\ Len(d) = n /\ DOMAIN d = 1 .. n
  BY <1>1
<1> QED BY <1>2

\* The conditions of an object that say of the statuses of l whether they are bad.
HasStatuses(d, l) == /\ SameNames(d, l) /\ DOMAIN d = 1 .. Len(l)
                     /\ \A i \in 1 .. Len(l) : d[i].status = IF l[i].bad THEN "False" ELSE "True"

\* The changes of nodes and operators are those of the names that changed.
LEMMA ConditionChanges ==
  ASSUME ProperList(old), ProperList(new), NEW o, NEW n, n.id = o.id,
         HasStatuses(o.conds, old), HasStatuses(n.conds, new)
  PROVE  /\ {c.message[2] : c \in nodeChangeFns(n, o)[1]} = ChangedNames
         /\ {c.message[2] : c \in ConditionChange(n, o)} = ChangedNames
<1>1. /\ DOMAIN n.conds = 1 .. Len(new) /\ Len(new) \in Nat
      /\ \A j \in 1 .. Len(new) : n.conds[j].name = new[j].name /\ new[j].bad \in BOOLEAN
      /\ \A i \in 1 .. Len(old) : old[i].bad \in BOOLEAN
  BY ListFacts DEF HasStatuses, SameNames
<1>2. ASSUME NEW j \in 1 .. Len(new), NEW p, IsFound(old, new[j].name, p)
      PROVE  new[j].name \in ChangedNames <=> p # 0 /\ n.conds[j].status # o.conds[p].status
  <2>1. p # 0 => p \in 1 .. Len(old)
    BY <1>2 DEF IsFound
  <2>2. p # 0 => (n.conds[j].status # o.conds[p].status <=> old[p].bad # new[j].bad)
    BY <1>1, <2>1 DEF HasStatuses
  <2> QED BY <1>2, <2>2, FoundChanged
<1>3. ASSUME NEW j \in 1 .. Len(new)
      PROVE  /\ IsFound(old, new[j].name, FirstNamed(o.conds, new[j].name))
             /\ IsFound(old, new[j].name, findStatus(o.conds, new[j].name, j))
  <2>1. j \in Nat \ {0} /\ SameNames(o.conds, old)
    BY <1>1 DEF HasStatuses
  <2> QED BY <2>1, FoundByName
<1> DEFINE changed == {j \in 1 .. Len(new) : new[j].name \in ChangedNames}
<1>4. {new[j].name : j \in changed} = ChangedNames
  BY ChangedListed
<1>5. {c.message[2] : c \in nodeChangeFns(n, o)[1]} = {new[j].name : j \in changed}
  <2> DEFINE differ == {i \in DOMAIN n.conds :
                          LET p == findStatus(o.conds, n.conds[i].name, i)
                          IN  p # 0 /\ n.conds[i].status # o.conds[p].status}
             Of(i) == Cond("Warning", n.id, <<"condition changed", n.conds[i].name>>)
  <2>1. nodeChangeFns(n, o)[1] = {Of(i) : i \in differ}
    BY DEF nodeChangeFns
  <2>2. differ = changed
    BY <1>1, <1>2, <1>3
  <2>3. \A j \in changed : Of(j).message[2] = new[j].name
    BY <1>1 DEF Cond
  <2> HIDE DEF differ, Of, changed
  <2> QED BY <2>1, <2>2, <2>3
<1>6. {c.message[2] : c \in ConditionChange(n, o)} = {new[j].name : j \in changed}
  <2> DEFINE differ == {i \in DOMAIN n.conds :
                          LET p == FirstNamed(o.conds, n.conds[i].name)
                          IN  p # 0 /\ n.conds[i].status # o.conds[p].status}
             Level(c) == IF c.name \in {"Degraded", "Failing"} /\ c.status = "True" THEN "Error" ELSE "Warning"
             Of(i) == Cond(Level(n.conds[i]), n.id, <<"changed", n.conds[i].name, n.conds[i].status>>)
  <2>1. ConditionChange(n, o) = {Of(i) : i \in differ}
    BY DEF ConditionChange
  <2>2. differ = changed
    BY <1>1, <1>2, <1>3
  <2>3. \A j \in changed : Of(j).message[2] = new[j].name
    BY <1>1 DEF Cond
  <2> HIDE DEF differ, Of, changed
  <2> QED BY <2>1, <2>2, <2>3
<1> QED BY <1>4, <1>5, <1>6

\* Containers that run, never restarted, and are ready where the statuses of l are
\* not bad.
HasReadiness(d, l) ==
  /\ SameNames(d, l) /\ DOMAIN d = 1 .. Len(l)
  /\ \A i \in 1 .. Len(l) : d[i].exit = "up" /\ d[i].restarts = 0 /\ d[i].ready = ~l[i].bad

\* The containers that stopped being ready are those that turned bad.
LEMMA ContainerChanges ==
  ASSUME ProperList(old), ProperList(new), NEW o, NEW n, n.id = <<"p">>,
         n.inits = << >>, HasReadiness(o.conts, old), HasReadiness(n.conts, new)
  PROVE  {c.locator : c \in ContainerChange(n, o)} =
           {<<"p", new[j].name>> : j \in {k \in 1 .. Len(new) : new[k].name \in ChangedNames /\ new[k].bad}}
<1>1. /\ DOMAIN n.conts = 1 .. Len(new) /\ Len(new) \in Nat
      /\ \A j \in 1 .. Len(new) : n.conts[j].name = new[j].name /\ new[j].bad \in BOOLEAN
      /\ \A i \in 1 .. Len(old) : old[i].bad \in BOOLEAN
  BY ListFacts DEF HasReadiness, SameNames
<1>2. StatusChanges(n, n.inits, o.inits, TRUE) = {}
  BY DEF StatusChanges
<1> DEFINE At(j) == findStatus(o.conts, n.conts[j].name, j)
           Loc(j) == locatePodContainer(n, n.conts[j].name)
           Change(j) == StatusChange(Loc(j), n.conts[j], o.conts[At(j)], FALSE)
           found == {j \in DOMAIN n.conts : At(j) # 0}
           turned == {k \in 1 .. Len(new) : new[k].name \in ChangedNames /\ new[k].bad}
           Lost(j) == Cond("Warning", Loc(j), <<"container stopped being ready">>)
<1>3. ContainerChange(n, o) = UNION {Change(j) : j \in found}
  BY <1>2 DEF ContainerChange, StatusChanges
<1>4. ASSUME NEW j \in 1 .. Len(new)
      PROVE  /\ At(j) # 0 => At(j) \in 1 .. Len(old)
             /\ new[j].name \in ChangedNames <=> At(j) # 0 /\ old[At(j)].bad # new[j].bad
             /\ Loc(j) = <<"p", new[j].name>>
  <2>1. j \in Nat \ {0} /\ SameNames(o.conts, old)
    BY <1>1 DEF HasReadiness
  <2>2. IsFound(old, new[j].name, At(j))
    BY <1>1, <2>1, FoundByName
  <2>3. At(j) # 0 => At(j) \in 1 .. Len(old)
    BY <2>2 DEF IsFound
  <2>4. new[j].name \in ChangedNames <=> At(j) # 0 /\ old[At(j)].bad # new[j].bad
    <3> HIDE DEF At
    <3> QED BY <2>2, FoundChanged
  <2>5. Loc(j) = <<"p", new[j].name>>
    <3>1. ASSUME NEW x PROVE Append(<<"p">>, x) = <<"p", x>>
      <4> DEFINE S == {"p", x}
                 r == Append(<<"p">>, x)
      <4>1. <<"p">> \in Seq(S) /\ Len(<<"p">>) = 1 /\ x \in S
        OBVIOUS
      <4>2. r \in Seq(S) /\ Len(r) = 2 /\ r[1] = "p" /\ r[2] = x
        BY <4>1, AppendProperties
      <4> HIDE DEF r, S
      <4>3. r = <<r[1], r[2]>>
        BY <4>2
      <4> QED BY <4>2, <4>3 DEF r
    <3> QED BY <1>1, <3>1 DEF locatePodContainer
  <2> QED BY <2>3, <2>4, <2>5
<1> HIDE DEF At, Loc
<1>5. ASSUME NEW j \in found PROVE Change(j) = IF j \in turned THEN {Lost(j)} ELSE {}
  <2> DEFINE s == n.conts[j]
             was == o.conts[At(j)]
  <2>1. j \in 1 .. Len(new) /\ At(j) \in 1 .. Len(old) /\ At(j) # 0
    BY <1>1, <1>4
  <2>2. /\ s.exit = "up" /\ was.exit = "up" /\ s.restarts = was.restarts
        /\ s.ready = ~new[j].bad /\ was.ready = ~old[At(j)].bad
    BY <2>1 DEF HasReadiness
  <2>3. was.ready /\ ~s.ready <=> j \in turned
    BY <1>1, <1>4, <2>1, <2>2
  <2> HIDE DEF s, was, turned
  <2>4. StatusChange(Loc(j), s, was, FALSE) = IF was.ready /\ ~s.ready THEN {Lost(j)} ELSE {}
    <3> DEFINE exited == Cond("Error", Loc(j), <<"container exited", s.exit>>)
               restarted == Cond("Warning", Loc(j), <<"container restarted">>)
               Is(c) == CASE c.level = "Error" -> s.exit \notin {"up", "0"} /\ was.exit = "up"
                          [] c.message = <<"container stopped being ready">> ->
                               s.exit = "up" /\ was.ready /\ ~s.ready
                          [] OTHER -> s.restarts # was.restarts
    <3>1. StatusChange(Loc(j), s, was, FALSE) = {c \in {exited, restarted, Lost(j)} : Is(c)}
      BY DEF StatusChange
    <3>2. /\ exited.level = "Error" /\ exited.message = <<"container exited", "up">>
          /\ restarted.level = "Warning" /\ restarted.message = <<"container restarted">>
          /\ Lost(j).level = "Warning" /\ Lost(j).message = <<"container stopped being ready">>
      BY <2>2 DEF Cond
    <3>3. /\ <<"container restarted">> # <<"container stopped being ready">>
          /\ <<"container exited", "up">> # <<"container stopped being ready">>
      OBVIOUS
    <3> HIDE DEF exited, restarted, Lost
    <3>4. ~Is(exited)
      BY <2>2, <3>2, <3>3
    <3>5. ~Is(restarted)
      BY <2>2, <3>2, <3>3
    <3>6. Is(Lost(j)) <=> was.ready /\ ~s.ready
      BY <2>2, <3>2
    <3> HIDE DEF Is
    <3> QED BY <3>1, <3>4, <3>5, <3>6
  <2> QED BY <2>3, <2>4 DEF s, was
<1>6. \A j \in turned : j \in found /\ Lost(j).locator = <<"p", new[j].name>>
  BY <1>1, <1>4 DEF Cond
<1> HIDE DEF Change, found, turned, Lost
<1>7. UNION {Change(j) : j \in found} = {Lost(j) : j \in turned}
  <2>1. ASSUME NEW c \in UNION {Change(j) : j \in found} PROVE \E j \in turned : c = Lost(j)
    <3>1. PICK j \in found : c \in Change(j)
      OBVIOUS
    <3> QED BY <1>5, <3>1
  <2>2. ASSUME NEW j \in turned PROVE j \in found /\ Lost(j) \in Change(j)
    BY <1>5, <1>6, <2>2
  <2> QED BY <2>1, <2>2
<1>8. {c.locator : c \in {Lost(j) : j \in turned}} = {<<"p", new[j].name>> : j \in turned}
  BY <1>6
<1> QED BY <1>3, <1>7, <1>8 DEF turned

\* Versions that tell the statuses of l apart.
HasVersions(d, l) == SameNames(d, l) /\ \A i \in 1 .. Len(l) : d[i].version = l[i].bad

\* What is reported of a version that changed, and of several.
Word(s) == <<s.name, ~s.bad, s.bad>>
Words(q) == [k \in DOMAIN q |-> Word(q[k])]

\* One more version is reported after the others.
LEMMA WordsAdded ==
  ASSUME NEW S, NEW q \in Seq(S), NEW e \in S
  PROVE  Words(<< >>) = << >> /\ Words(Append(q, e)) = Append(Words(q), Word(e))
<1> DEFINE W == {Word(s) : s \in S}
           a == Append(q, e)
           l == Words(a)
           r == Append(Words(q), Word(e))
<1>1. Len(q) \in Nat /\ DOMAIN q = 1 .. Len(q) /\ \A k \in 1 .. Len(q) : q[k] \in S
  BY LenProperties, ElementOfSeq
<1>2. /\ a \in Seq(S) /\ Len(a) = Len(q) + 1 /\ a[Len(q) + 1] = e
      /\ \A k \in 1 .. Len(q) : a[k] = q[k]
  BY AppendProperties
<1> HIDE DEF a
<1>3. DOMAIN a = 1 .. Len(q) + 1 /\ \A k \in 1 .. Len(q) + 1 : a[k] \in S
  BY <1>2, LenProperties, ElementOfSeq
<1>4. Words(q) = [k \in 1 .. Len(q) |-> Word(q[k])] /\ l = [k \in 1 .. Len(q) + 1 |-> Word(a[k])]
  BY <1>1, <1>3 DEF Words
<1> HIDE DEF l
<1>5. \A s \in S : Word(s) \in W
  OBVIOUS
<1> HIDE DEF W
<1>6. Words(q) \in [1 .. Len(q) -> W] /\ l \in [1 .. Len(q) + 1 -> W]
  BY <1>1, <1>3, <1>4, <1>5
<1>7. Words(q) \in Seq(W) /\ Len(Words(q)) = Len(q) /\ Word(e) \in W
  BY <1>1, <1>5, <1>6
<1>8. /\ r \in Seq(W) /\ Len(r) = Len(q) + 1 /\ r[Len(q) + 1] = Word(e)
      /\ \A k \in 1 .. Len(q) : r[k] = Words(q)[k]
  BY <1>7, AppendProperties
<1> HIDE DEF r
<1>9. r \in [1 .. Len(q) + 1 -> W]
  BY <1>8, LenProperties
<1>10. ASSUME NEW k \in 1 .. Len(q) + 1 PROVE r[k] = l[k]
  <2>1. CASE k \in 1 .. Len(q)
    BY <1>2, <1>4, <1>8, <2>1
  <2>2. CASE k = Len(q) + 1
    BY <1>2, <1>4, <1>8, <2>2
  <2> QED BY <1>1, <2>1, <2>2
<1>11. r = l
  BY <1>6, <1>9, <1>10
<1>12. Words(<< >>) = << >>
  BY DEF Words
<1> QED BY <1>11, <1>12 DEF r, l, a

\* The versions of an operator that are reported are those that changed, in the order
\* of the new list.
LEMMA VersionChanges ==
  ASSUME ProperList(old), ProperList(new), NEW o, NEW n,
         HasVersions(o, old), HasVersions(n, new)
  PROVE  findOperatorVersionChange(o, n) =
           Words(Filter(new, {s \in ToSet(new) : s.name \in ChangedNames}))
<1> DEFINE B == [name : Statuses, bad : BOOLEAN]
           T == {s \in ToSet(new) : s.name \in ChangedNames}
           m == Len(new)
           At(i) == RotatedSearch(o, n[i].name, i)
           From(i) == o[At(i)].version
           Step(a, i) == IF At(i) # 0 /\ From(i) # n[i].version
                         THEN Append(a, <<n[i].name, From(i), n[i].version>>) ELSE a
           none == << >>
           Is(f) == f = [i \in 0 .. m |-> IF i = 0 THEN none ELSE Step(f[i - 1], i)]
           g == CHOOSE h : Is(h)
<1>1. /\ m \in Nat /\ DOMAIN new = 1 .. m /\ Len(n) = m
      /\ \A j \in 1 .. m : n[j].name = new[j].name /\ n[j].version = new[j].bad /\ new[j].bad \in BOOLEAN
      /\ \A i \in 1 .. Len(old) : old[i].bad \in BOOLEAN /\ o[i].version = old[i].bad
  BY ListFacts DEF HasVersions, SameNames
<1>2. new \in Seq(B) /\ \A j \in 1 .. m : new[j] \in B
  <2>1. new \in Seq(B)
    BY DEF ProperList
  <2> HIDE DEF B
  <2> QED BY <2>1, ElementOfSeq
<1>3. findOperatorVersionChange(o, n) = g[m]
  BY <1>1 DEF findOperatorVersionChange
<1>4. ASSUME NEW i \in 1 .. m
      PROVE  /\ new[i] \in T <=> At(i) # 0 /\ From(i) # n[i].version
             /\ new[i] \in T => <<n[i].name, From(i), n[i].version>> = Word(new[i])
  <2>1. i \in Nat \ {0} /\ SameNames(o, old)
    BY <1>1 DEF HasVersions
  <2>2. IsFound(old, new[i].name, At(i))
    BY <1>1, <2>1, FoundByName
  <2> HIDE DEF At
  <2>3. new[i].name \in ChangedNames <=> At(i) # 0 /\ old[At(i)].bad # new[i].bad
    BY <2>2, FoundChanged
  <2>4. new[i] \in T <=> new[i].name \in ChangedNames
    BY <1>1 DEF ToSet
  <2>5. At(i) # 0 => At(i) \in 1 .. Len(old) /\ From(i) = old[At(i)].bad /\ From(i) \in BOOLEAN
    BY <1>1, <2>2 DEF IsFound
  <2> HIDE DEF From, T
  <2>6. new[i] \in T <=> At(i) # 0 /\ From(i) # n[i].version
    BY <1>1, <2>3, <2>4, <2>5
  <2>7. ASSUME new[i] \in T PROVE From(i) = ~new[i].bad
    <3>1. From(i) \in BOOLEAN /\ new[i].bad \in BOOLEAN /\ From(i) # new[i].bad
      BY <1>1, <2>5, <2>6, <2>7
    <3> QED BY <3>1
  <2> QED BY <1>1, <2>6, <2>7 DEF Word
<1> HIDE DEF At, From, T
<1>5. PICK F \in [0 .. m -> Seq(B \cap T)] : Filter(new, T) = F[m] /\ FilterSteps(F, new, T)
  BY <1>2, Filtering
<1>6. F[0] = none /\ \A i \in 1 .. m : F[i] = IF new[i] \in T THEN Append(F[i - 1], new[i]) ELSE F[i - 1]
  BY <1>5 DEF FilterSteps
<1> DEFINE h == [i \in 0 .. m |-> Words(F[i])]
<1> HIDE DEF B, m
<1>7. \A i \in 1 .. m : i \in 0 .. m /\ i - 1 \in 0 .. m /\ i # 0
  BY <1>1
<1>8. \A i \in 0 .. m : F[i] \in Seq(B)
  <2>1. B \cap T \subseteq B
    OBVIOUS
  <2> QED BY <1>5, <2>1, SeqMonotonic
<1>9. ASSUME NEW i \in 1 .. m PROVE h[i] = Step(h[i - 1], i)
  <2>1. h[i] = Words(F[i]) /\ h[i - 1] = Words(F[i - 1]) /\ F[i - 1] \in Seq(B) /\ new[i] \in B
    BY <1>2, <1>7, <1>8
  <2>2. CASE new[i] \in T
    <3>1. Words(F[i]) = Append(Words(F[i - 1]), Word(new[i]))
      BY <1>6, <2>1, <2>2, WordsAdded
    <3> QED BY <1>4, <2>1, <2>2, <3>1
  <2>3. CASE new[i] \notin T
    BY <1>4, <1>6, <2>1, <2>3
  <2> QED BY <2>2, <2>3
<1>10. h[0] = none /\ 0 \in 0 .. m /\ m \in 0 .. m
  <2>1. Words(none) = none
    BY DEF Words
  <2> QED BY <1>1, <1>6, <2>1
<1>11. Is(h)
  <2>1. ASSUME NEW i \in 0 .. m PROVE h[i] = IF i = 0 THEN none ELSE Step(h[i - 1], i)
    <3>1. i = 0 \/ i \in 1 .. m
      BY <1>1
    <3> HIDE DEF h, Step
    <3> QED BY <1>7, <1>9, <1>10, <3>1
  <2> HIDE DEF Step
  <2> QED BY <2>1
<1>12. Is(g)
  BY <1>11
<1> HIDE DEF g, h, Step, none
<1>13. g[0] = none /\ \A i \in 1 .. m : g[i] = Step(g[i - 1], i)
  BY <1>7, <1>10, <1>12
<1> HIDE DEF Is
<1>14. \A i \in 0 .. m : g[i] = h[i]
  <2> DEFINE U == {k \in 0 .. m : g[k] = h[k]}
  <2>1. 0 \in U
    BY <1>10, <1>13
  <2>2. ASSUME NEW i \in 1 .. m, i - 1 \in U PROVE i \in U
    BY <1>7, <1>9, <1>13, <2>2
  <2> HIDE DEF U
  <2>3. \A i \in 0 .. m : i \in U
    BY <1>1, <2>1, <2>2, BoundedInduction
  <2> QED BY <2>3 DEF U
<1>15. g[m] = Words(F[m])
  BY <1>10, <1>14 DEF h
<1> QED BY <1>3, <1>5, <1>15 DEF T

\* The lists of the runs are proper.
LEMMA ListsProper ==
  ASSUME NEW l \in Lists
  PROVE  ProperList(l)
<1>1. PICK names \in UNION {SetToSeqs(S) : S \in SUBSET Statuses}, bad \in [Statuses -> BOOLEAN] :
        l = [i \in DOMAIN names |-> [name |-> names[i], bad |-> bad[names[i]]]]
  BY DEF Lists
<1>2. PICK S \in SUBSET Statuses : names \in SetToSeqs(S)
  OBVIOUS
<1> DEFINE n == Cardinality(S)
<1>3. n \in Nat
  BY SizesAssumption, FS_Subset, FS_CardinalityType
<1>4. Cardinality(S) = n
  OBVIOUS
<1> HIDE DEF n
<1>5. names \in [1 .. n -> S] /\ \A i, j \in 1 .. n : i # j => names[i] # names[j]
  BY <1>2, <1>4 DEF SetToSeqs
<1>6. l = [i \in 1 .. n |-> [name |-> names[i], bad |-> bad[names[i]]]]
  BY <1>1, <1>5
<1>7. l \in [1 .. n -> [name : Statuses, bad : BOOLEAN]]
  <2>1. \A i \in 1 .. n : names[i] \in Statuses /\ bad[names[i]] \in BOOLEAN
    BY <1>5
  <2> QED BY <1>6, <2>1
<1>8. l \in Seq([name : Statuses, bad : BOOLEAN]) /\ Len(l) = n
  <2> DEFINE B == [name : Statuses, bad : BOOLEAN]
  <2>1. l \in [1 .. n -> B]
    BY <1>7
  <2> HIDE DEF B
  <2>2. l \in Seq(B) /\ Len(l) = n
    BY <1>3, <2>1
  <2> QED BY <2>2 DEF B
<1>9. \A i, j \in 1 .. n : l[i].name = l[j].name => i = j
  BY <1>5, <1>6
<1> QED BY <1>8, <1>9 DEF ProperList

ListsInv == ProperList(old) /\ ProperList(new)

LEMMA ListsInvariance == Spec => []ListsInv
<1>1. Init => ListsInv
  BY ListsProper DEF Init, ListsInv
<1>2. ListsInv /\ [AddEvent \/ AddSample]_vars => ListsInv'
  BY DEF ListsInv, ProperList, AddEvent, AddSample, vars
<1> QED BY <1>1, <1>2, PTL DEF Spec

\* Whatever two versions of an object list, in whatever order and wherever a search
\* begins, containers, nodes, operators and versions are compared with their own
\* earlier status, and exactly the names that changed are reported.
THEOREM ChangesAreByName == Spec => []ChangesByName
<1>1. ASSUME ListsInv PROVE ChangesByName
  <2> DEFINE Pod(list) == [id |-> <<"p">>, inits |-> << >>,
                           conts |-> [i \in DOMAIN list |-> [name |-> list[i].name, restarts |-> 0,
                                                             ready |-> ~list[i].bad, exit |-> "up"]]]
             Obj(list) == [id |-> <<"n">>,
                           conds |-> [i \in DOMAIN list |-> [name |-> list[i].name,
                                                             status |-> IF list[i].bad THEN "False" ELSE "True"]]]
             Versions(list) == [i \in DOMAIN list |-> [name |-> list[i].name, version |-> list[i].bad]]
             T == {s \in ToSet(new) : s.name \in ChangedNames}
             changed == Filter(new, T)
             turnedBad == {s.name : s \in {c \in ToSet(changed) : c.bad}}
  <2>1. ProperList(old) /\ ProperList(new)
    BY <1>1 DEF ListsInv
  <2>2. ASSUME NEW l, ProperList(l)
        PROVE  HasReadiness(Pod(l).conts, l) /\ HasStatuses(Obj(l).conds, l) /\ HasVersions(Versions(l), l)
    <3>1. Len(l) \in Nat /\ DOMAIN l = 1 .. Len(l)
      BY <2>2, ListFacts
    <3>2. HasReadiness(Pod(l).conts, l)
      <4> DEFINE d == Pod(l).conts
      <4>1. d = [i \in 1 .. Len(l) |-> [name |-> l[i].name, restarts |-> 0, ready |-> ~l[i].bad, exit |-> "up"]]
        BY <3>1
      <4> HIDE DEF d
      <4>2. d = [i \in 1 .. Len(l) |-> d[i]]
        BY <4>1
      <4>3. Len(d) = Len(l) /\ DOMAIN d = 1 .. Len(l) /\ \E S : d \in Seq(S)
        BY <3>1, <4>2, MadeList
      <4> QED BY <4>1, <4>3 DEF HasReadiness, SameNames, d
    <3>3. HasStatuses(Obj(l).conds, l)
      <4> DEFINE d == Obj(l).conds
      <4>1. d = [i \in 1 .. Len(l) |-> [name |-> l[i].name, status |-> IF l[i].bad THEN "False" ELSE "True"]]
        BY <3>1
      <4> HIDE DEF d
      <4>2. d = [i \in 1 .. Len(l) |-> d[i]]
        BY <4>1
      <4>3. Len(d) = Len(l) /\ DOMAIN d = 1 .. Len(l) /\ \E S : d \in Seq(S)
        BY <3>1, <4>2, MadeList
      <4> QED BY <4>1, <4>3 DEF HasStatuses, SameNames, d
    <3>4. HasVersions(Versions(l), l)
      <4> DEFINE d == Versions(l)
      <4>1. d = [i \in 1 .. Len(l) |-> [name |-> l[i].name, version |-> l[i].bad]]
        BY <3>1
      <4> HIDE DEF d
      <4>2. d = [i \in 1 .. Len(l) |-> d[i]]
        BY <4>1
      <4>3. Len(d) = Len(l) /\ DOMAIN d = 1 .. Len(l) /\ \E S : d \in Seq(S)
        BY <3>1, <4>2, MadeList
      <4> QED BY <4>1, <4>3 DEF HasVersions, SameNames, d
    <3> QED BY <3>2, <3>3, <3>4
  <2>3. /\ Pod(new).id = <<"p">> /\ Pod(new).inits = << >> /\ Obj(new).id = Obj(old).id
    OBVIOUS
  <2>6. findOperatorVersionChange(Versions(old), Versions(new)) = Words(changed)
    <3>1. HasVersions(Versions(old), old) /\ HasVersions(Versions(new), new)
      BY <2>1, <2>2
    <3> HIDE DEF Versions
    <3> QED BY <2>1, <3>1, VersionChanges
  <2>7. /\ {c.message[2] : c \in nodeChangeFns(Obj(new), Obj(old))[1]} = ChangedNames
        /\ {c.message[2] : c \in ConditionChange(Obj(new), Obj(old))} = ChangedNames
    <3>1. HasStatuses(Obj(old).conds, old) /\ HasStatuses(Obj(new).conds, new)
      BY <2>1, <2>2
    <3> HIDE DEF Obj
    <3> QED BY <2>1, <2>3, <3>1, ConditionChanges
  <2>8. {c.locator : c \in ContainerChange(Pod(new), Pod(old))} = {<<"p", x>> : x \in turnedBad}
    <3> DEFINE turned == {k \in 1 .. Len(new) : new[k].name \in ChangedNames /\ new[k].bad}
    <3>1. {c.locator : c \in ContainerChange(Pod(new), Pod(old))} = {<<"p", new[j].name>> : j \in turned}
      <4>1. HasReadiness(Pod(old).conts, old) /\ HasReadiness(Pod(new).conts, new)
        BY <2>1, <2>2
      <4> HIDE DEF Pod
      <4> QED BY <2>1, <2>3, <4>1, ContainerChanges
    <3>2. \A x : x \in ToSet(changed) <=> \E j \in 1 .. Len(new) : new[j].name \in ChangedNames /\ x = new[j]
      <4> DEFINE B == [name : Statuses, bad : BOOLEAN]
      <4>1. new \in Seq(B) /\ DOMAIN new = 1 .. Len(new)
        BY <2>1, ListFacts DEF ProperList
      <4> HIDE DEF B
      <4>2. changed \in Seq(B \cap T) /\ \A x : Occurs(changed, x) <=> Occurs(new, x) /\ x \in T
        <5> HIDE DEF T
        <5> QED BY <4>1, FilterType, FilterContents
      <4>3. DOMAIN changed = 1 .. Len(changed)
        BY <4>2, LenProperties
      <4> HIDE DEF changed
      <4>4. \A x : x \in ToSet(changed) <=> Occurs(changed, x)
        BY <4>3 DEF ToSet, Occurs
      <4>5. \A x : x \in T <=> Occurs(new, x) /\ x.name \in ChangedNames
        BY <4>1 DEF ToSet, Occurs
      <4> HIDE DEF T
      <4> QED BY <4>2, <4>4, <4>5 DEF Occurs
    <3> HIDE DEF changed
    <3>3. turnedBad = {new[j].name : j \in turned}
      BY <3>2
    <3> HIDE DEF turnedBad, turned
    <3> QED BY <3>1, <3>3
  <2> HIDE DEF T, changed
  <2> QED BY <2>6, <2>7, <2>8 DEF ChangesByName, Words, Word, T, changed
<1> QED BY <1>1, ListsInvariance, PTL

=============================================================================
