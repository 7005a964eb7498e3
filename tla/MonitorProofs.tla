---------------------------- MODULE MonitorProofs ----------------------------
(***************************************************************************)
(* Theorems about Monitor, for any pollers and any number of readings of   *)
(* the clock: the recorders, the sampling goroutine, what a query of the   *)
(* log returns at any moment, and what run-monitor prints.                 *)
(***************************************************************************)
EXTENDS Monitor, SequenceTheorems, DataFacts, TLAPS

-----------------------------------------------------------------------------
(* The inductive invariant *)

\* The types of everything but the printer's variables.
RecordType ==
  /\ clock \in 0 .. MaxTime
  /\ events \in Seq(Event) /\ samples \in Seq(Sample) /\ lastPass \in Pass
  /\ available \in [Pollers -> BOOLEAN]
  /\ poll \in [Pollers -> {"idle", "up", "down", "stopped"}]
  /\ sampling \in 0 .. NumPollers
  /\ ticker \in {"on", "last", "off"}
  /\ collected \in Seq(Conditions) /\ late \in BOOLEAN
  /\ ctxDone \in BOOLEAN /\ doneAt \in 0 .. MaxTime /\ outage \subseteq Pollers

\* The entries of s are in the order of their times, none after now.
InOrder(s, now) == /\ \A i, j \in 1 .. Len(s) : i < j => s[i].at <= s[j].at
                   /\ \A i \in 1 .. Len(s) : s[i].at <= now

\* Events and samples are kept in the order of their times, as the binary searches
\* of the queries expect.
OrderInv == InOrder(events, clock) /\ InOrder(samples, clock)

\* The sampling goroutine begins its last pass, and ends, only after the
\* cancellation; that pass has found the lasting outages of the samplers it has
\* called so far.
FinalInv == /\ doneAt <= clock
            /\ ticker # "on" => ctxDone
            /\ \A p \in outage : ~available[p]
            /\ ticker = "last" =>
                 late /\ \A p \in outage : p <= sampling => Down(p) \in Range(collected)
            /\ ticker = "off" =>
                 /\ sampling = 0 /\ lastPass.late
                 /\ \A p \in outage : Down(p) \in Range(lastPass.conds)

\* What the records say of an API: between the record of a change and the
\* assignment to s.available they are ahead of it.
Up(p) == CASE poll[p] = "up" -> TRUE [] poll[p] = "down" -> FALSE [] OTHER -> available[p]

IsFirst(j, p) == j \in Changes(p) /\ \A i \in Changes(p) : j <= i
IsLast(j, p) == j \in Changes(p) /\ \A i \in Changes(p) : i <= j
Follows(j, i, p) == i < j /\ \A k \in Changes(p) : k <= i \/ j <= k

\* The last change that was recorded is the current state of the API; one that
\* was never recorded as failing is up.
LastOf(p) ==
  /\ Changes(p) = {} => Up(p)
  /\ \A j \in Changes(p) : IsLast(j, p) => (events[j].cond = Responding(p) <=> Up(p))

\* The changes alternate, beginning with a failure.
AlternateOf(p) ==
  /\ \A j \in Changes(p) : IsFirst(j, p) => events[j].cond = Failing(p)
  /\ \A i, j \in Changes(p) : Follows(j, i, p) => events[i].cond # events[j].cond

\* A failure of the API was recorded before now.
Reported(s, p, now) == \E j \in 1 .. Len(s) : s[j].cond = Failing(p) /\ s[j].at < now

\* An API that is down, about to be or sampled as such was recorded as failing.
CauseOf(p) ==
  /\ ~available[p] \/ poll[p] = "down" => Reported(events, p, clock + 1)
  /\ Down(p) \in Range(collected) => Reported(events, p, clock + 1)
  /\ \A i \in 1 .. Len(samples) : Down(p) \in Range(samples[i].conds) => Reported(events, p, samples[i].at)

ApiInv == \A p \in Pollers : LastOf(p) /\ AlternateOf(p) /\ CauseOf(p)

IInv == RecordType /\ OrderInv /\ FinalInv /\ ApiInv

-----------------------------------------------------------------------------
(* Conditions and records *)

\* The conditions of different APIs, and of one, are told apart.
LEMMA ConditionFacts ==
  /\ 1 \in Conditions /\ 2 \in Conditions
  /\ \A p \in Pollers : {Down(p), Failing(p), Responding(p)} \subseteq Conditions
  /\ \A p \in Pollers : {1, 2} \cap {Failing(p), Responding(p)} = {} /\ Failing(p) # Responding(p)
  /\ \A p, q \in Pollers : p # q => {Failing(p), Responding(p)} \cap {Failing(q), Responding(q)} = {}
  /\ \A p, q \in Pollers : Down(p) = Down(q) => p = q
<1>1. \A p \in Pollers : p \in Nat \ {0}
  BY NumbersAssumption DEF Pollers
<1>2. \A p \in Pollers : {1, 2} \cap {Failing(p), Responding(p)} = {} /\ Failing(p) # Responding(p)
  BY <1>1 DEF Failing, Responding
<1>3. \A p, q \in Pollers : p # q => {Failing(p), Responding(p)} \cap {Failing(q), Responding(q)} = {}
  BY <1>1 DEF Failing, Responding
<1>4. \A p, q \in Pollers : Down(p) = Down(q) => p = q
  BY <1>1 DEF Down
<1>5. \A p \in Pollers : {Down(p), Failing(p), Responding(p)} \subseteq Conditions
  BY DEF Conditions
<1> QED BY <1>2, <1>3, <1>4, <1>5 DEF Conditions, Others

\* Times are numbers.
LEMMA TimeFacts ==
  ASSUME RecordType
  PROVE  /\ clock \in Nat /\ doneAt \in Nat
         /\ Len(events) \in Nat /\ Len(samples) \in Nat
         /\ \A i \in 1 .. Len(events) : events[i] \in Event /\ events[i].at \in Nat
         /\ \A i \in 1 .. Len(samples) : samples[i] \in Sample /\ samples[i].at \in Nat
<1>1. clock \in Nat /\ doneAt \in Nat
  BY NumbersAssumption DEF RecordType
<1>2. events \in Seq(Event) /\ samples \in Seq(Sample)
  BY DEF RecordType
<1>3. /\ \A i \in 1 .. Len(events) : events[i] \in Event
      /\ \A i \in 1 .. Len(samples) : samples[i] \in Sample
  BY <1>2, ElementOfSeq
<1>4. (\A e \in Event : e.at \in Nat) /\ (\A s \in Sample : s.at \in Nat)
  BY NumbersAssumption DEF Event, Sample
<1>5. Len(events) \in Nat /\ Len(samples) \in Nat
  BY <1>2, LenProperties
<1> QED BY <1>1, <1>3, <1>4, <1>5

\* Record appends its conditions with one new time and leaves the rest alone.
LEMMA RecordFacts ==
  ASSUME RecordType, NEW conds \in Seq(Conditions), Record(conds)
  PROVE  /\ clock' = clock + 1 /\ clock' \in 0 .. MaxTime
         /\ events' \in Seq(Event) /\ Len(events') = Len(events) + Len(conds)
         /\ \A i \in 1 .. Len(events) : events'[i] = events[i]
         /\ \A i \in 1 .. Len(conds) : events'[Len(events) + i] = [at |-> clock + 1, cond |-> conds[i]]
<1> DEFINE new == [i \in 1 .. Len(conds) |-> [at |-> clock + 1, cond |-> conds[i]]]
<1>1. clock' = clock + 1 /\ clock + 1 \in 1 .. MaxTime /\ events' = events \o new
  BY NumbersAssumption DEF Record, RecordType
<1>2. Len(conds) \in Nat /\ \A i \in 1 .. Len(conds) : conds[i] \in Conditions
  BY ElementOfSeq, LenProperties
<1>3. \A i \in 1 .. Len(conds) : new[i] \in Event
  BY <1>1, <1>2 DEF Event
<1>4. new \in Seq(Event) /\ Len(new) = Len(conds)
  <2>1. new \in [1 .. Len(conds) -> Event]
    BY <1>3
  <2> QED BY <1>2, <2>1
<1>5. events \in Seq(Event)
  BY DEF RecordType
<1> HIDE DEF new
<1>6. /\ events \o new \in Seq(Event) /\ Len(events \o new) = Len(events) + Len(new)
      /\ \A i \in 1 .. Len(events) + Len(new) :
           (events \o new)[i] = IF i <= Len(events) THEN events[i] ELSE new[i - Len(events)]
  BY <1>4, <1>5, ConcatProperties
<1>7. Len(events) \in Nat
  BY <1>5, LenProperties
<1>8. \A i \in 1 .. Len(events) : events'[i] = events[i]
  BY <1>1, <1>2, <1>4, <1>6, <1>7
<1>9. ASSUME NEW i \in 1 .. Len(conds)
      PROVE  events'[Len(events) + i] = [at |-> clock + 1, cond |-> conds[i]]
  <2>1. events'[Len(events) + i] = new[i]
    BY <1>1, <1>2, <1>4, <1>6, <1>7
  <2> QED BY <2>1 DEF new
<1> QED BY <1>1, <1>4, <1>6, <1>8, <1>9

\* A record keeps the events in order.
LEMMA RecordInOrder ==
  ASSUME RecordType, OrderInv, NEW conds \in Seq(Conditions), Record(conds), UNCHANGED samples
  PROVE  OrderInv'
<1>1. Len(events) \in Nat /\ Len(conds) \in Nat /\ clock \in Nat
  BY NumbersAssumption, LenProperties DEF RecordType
<1>2. \A i \in 1 .. Len(events') : i \in 1 .. Len(events) \/ i - Len(events) \in 1 .. Len(conds)
  BY <1>1, RecordFacts
<1>3. \A i \in 1 .. Len(events') : events'[i].at = IF i <= Len(events) THEN events[i].at ELSE clock + 1
  <2>1. ASSUME NEW i \in 1 .. Len(events'), i \in 1 .. Len(events)
        PROVE  events'[i].at = events[i].at /\ i <= Len(events)
    BY <1>1, <2>1, RecordFacts
  <2>2. ASSUME NEW i \in 1 .. Len(events'), i - Len(events) \in 1 .. Len(conds)
        PROVE  events'[i].at = clock + 1 /\ ~(i <= Len(events))
    <3>1. events'[Len(events) + (i - Len(events))] = [at |-> clock + 1, cond |-> conds[i - Len(events)]]
      BY <2>2, RecordFacts
    <3>2. Len(events) + (i - Len(events)) = i
      BY <1>1, <2>2, RecordFacts
    <3> QED BY <1>1, <2>2, <3>1, <3>2
  <2> QED BY <1>2, <2>1, <2>2
<1>4. \A i \in 1 .. Len(events) : events[i].at \in Nat /\ events[i].at <= clock
  BY TimeFacts DEF OrderInv, InOrder
<1>5. InOrder(events', clock')
  <2>1. clock' = clock + 1 /\ Len(events') = Len(events) + Len(conds)
    BY RecordFacts
  <2>2. \A i \in 1 .. Len(events') : events'[i].at <= clock'
    BY <1>1, <1>2, <1>3, <1>4, <2>1
  <2>3. ASSUME NEW i \in 1 .. Len(events'), NEW j \in 1 .. Len(events'), i < j
        PROVE  events'[i].at <= events'[j].at
    <3>1. CASE j <= Len(events)
      <4>1. i \in 1 .. Len(events) /\ j \in 1 .. Len(events)
        BY <1>1, <2>1, <2>3, <3>1
      <4>2. events[i].at <= events[j].at
        BY <2>3, <4>1 DEF OrderInv, InOrder
      <4> QED BY <1>3, <3>1, <4>1, <4>2
    <3>2. CASE ~(j <= Len(events))
      BY <1>3, <2>1, <2>2, <3>2
    <3> QED BY <3>1, <3>2
  <2> QED BY <2>2, <2>3 DEF InOrder
<1>6. InOrder(samples', clock')
  <2>1. \A i \in 1 .. Len(samples) : samples[i].at \in Nat /\ samples[i].at <= clock
    BY TimeFacts DEF OrderInv, InOrder
  <2> QED BY <1>1, <2>1, RecordFacts DEF OrderInv, InOrder
<1> QED BY <1>5, <1>6 DEF OrderInv

-----------------------------------------------------------------------------
(* What the records say of one API *)

\* A record of something else leaves the changes of an API alone.
LEMMA OtherRecord ==
  ASSUME RecordType, NEW conds \in Seq(Conditions), Record(conds), NEW q \in Pollers,
         \A i \in 1 .. Len(conds) : conds[i] \notin {Failing(q), Responding(q)}
  PROVE  Changes(q)' = Changes(q) /\ \A i \in Changes(q) : events'[i] = events[i]
<1>1. Len(events) \in Nat /\ Len(conds) \in Nat
  BY TimeFacts, LenProperties
<1>2. Len(events') = Len(events) + Len(conds)
  BY RecordFacts
<1>3. \A i \in 1 .. Len(events) : events'[i] = events[i] /\ i \in 1 .. Len(events')
  BY <1>1, <1>2, RecordFacts
<1>4. ASSUME NEW i \in 1 .. Len(events'), i \notin 1 .. Len(events) PROVE i \notin Changes(q)'
  <2>1. i - Len(events) \in 1 .. Len(conds) /\ Len(events) + (i - Len(events)) = i
    BY <1>1, <1>2, <1>4
  <2>2. PICK k \in 1 .. Len(conds) : i = Len(events) + k
    BY <2>1
  <2>3. events'[i] = [at |-> clock + 1, cond |-> conds[k]]
    BY <2>2, RecordFacts
  <2> QED BY <2>3 DEF Changes, Failing, Responding
<1> QED BY <1>3, <1>4 DEF Changes

\* As long as its changes and its recorded state stay, so does what they say.
LEMMA ChangesKept ==
  ASSUME RecordType, NEW q \in Pollers, LastOf(q), AlternateOf(q), Changes(q)' = Changes(q),
         \A i \in Changes(q) : events'[i] = events[i], Up(q)' <=> Up(q)
  PROVE  LastOf(q)' /\ AlternateOf(q)' /\ \A n \in Nat : Reported(events, q, n) => Reported(events', q, n)
<1>1. LastOf(q)'
  BY DEF LastOf, IsLast, Responding
<1>2. AlternateOf(q)'
  BY DEF AlternateOf, IsFirst, Follows, Failing
<1>3. ASSUME NEW n \in Nat, Reported(events, q, n) PROVE Reported(events', q, n)
  <2>1. PICK j \in 1 .. Len(events) : events[j].cond = Failing(q) /\ events[j].at < n
    BY <1>3 DEF Reported
  <2>2. j \in Changes(q) /\ j \in Changes(q)' /\ events'[j] = events[j]
    BY <2>1 DEF Changes
  <2>3. j \in 1 .. Len(events')
    BY <2>2 DEF Changes
  <2> QED BY <2>1, <2>2, <2>3 DEF Reported
<1> QED BY <1>1, <1>2, <1>3

\* A failure that was recorded before a time was recorded before a later one.
LEMMA ReportedLater ==
  ASSUME RecordType, NEW q \in Pollers, NEW m \in Nat, NEW n \in Nat, m <= n, Reported(events, q, m)
  PROVE  Reported(events, q, n)
BY TimeFacts DEF Reported

\* A later reading of the clock has a later successor.
LEMMA Successors ==
  ASSUME NEW m \in Nat, NEW n \in Nat, m <= n
  PROVE  m + 1 \in Nat /\ n + 1 \in Nat /\ m + 1 <= n + 1
OBVIOUS

\* Nothing new is down or sampled: the cause was and stays recorded.
LEMMA CauseKept ==
  ASSUME RecordType, NEW q \in Pollers, CauseOf(q), UNCHANGED samples,
         clock' \in Nat, clock <= clock',
         \A n \in Nat : Reported(events, q, n) => Reported(events', q, n),
         ~available'[q] \/ poll'[q] = "down" => ~available[q] \/ poll[q] = "down",
         Down(q) \in Range(collected') => Down(q) \in Range(collected)
  PROVE  CauseOf(q)'
<1>1. clock + 1 \in Nat /\ clock' + 1 \in Nat /\ clock + 1 <= clock' + 1
  <2>1. clock \in Nat
    BY TimeFacts
  <2> QED BY <2>1, Successors, Zenon
<1>2. Reported(events, q, clock + 1) => Reported(events', q, clock' + 1)
  BY <1>1, ReportedLater
<1>3. ~available'[q] \/ poll'[q] = "down" => Reported(events', q, clock' + 1)
  BY <1>2 DEF CauseOf
<1>4. Down(q) \in Range(collected') => Reported(events', q, clock' + 1)
  BY <1>2 DEF CauseOf
<1>5. ASSUME NEW i \in 1 .. Len(samples'), Down(q) \in Range(samples'[i].conds)
      PROVE  Reported(events', q, samples'[i].at)
  <2>1. Reported(events, q, samples[i].at) /\ samples[i].at \in Nat
    BY <1>5, TimeFacts DEF CauseOf
  <2> QED BY <2>1
<1> QED BY <1>3, <1>4, <1>5 DEF CauseOf, Down

\* The record of a change of the recorded state continues the alternation.
LEMMA NewChange ==
  ASSUME RecordType, NEW p \in Pollers, LastOf(p), AlternateOf(p),
         NEW c \in {Failing(p), Responding(p)}, Record(<<c>>),
         c = Responding(p) <=> ~Up(p), Up(p)' <=> ~Up(p)
  PROVE  /\ LastOf(p)' /\ AlternateOf(p)'
         /\ \A n \in Nat : Reported(events, p, n) => Reported(events', p, n)
         /\ c = Failing(p) => Reported(events', p, clock' + 1)
<1> DEFINE new == Len(events) + 1
<1>1. Failing(p) # Responding(p)
  BY ConditionFacts
<1>2. <<c>> \in Seq(Conditions) /\ Len(<<c>>) = 1 /\ <<c>>[1] = c
  BY ConditionFacts
<1>3. Len(events) \in Nat /\ clock \in Nat
  BY TimeFacts
<1>4. /\ clock' = clock + 1 /\ Len(events') = new
      /\ \A i \in 1 .. Len(events) : events'[i] = events[i]
      /\ events'[new] = [at |-> clock + 1, cond |-> c]
  <2> DEFINE conds == <<c>>
  <2>1. conds \in Seq(Conditions) /\ Len(conds) = 1 /\ conds[1] = c /\ Record(conds)
    BY <1>2
  <2> HIDE DEF conds
  <2>2. /\ clock' = clock + 1 /\ Len(events') = Len(events) + Len(conds)
        /\ \A i \in 1 .. Len(events) : events'[i] = events[i]
        /\ \A i \in 1 .. Len(conds) : events'[Len(events) + i] = [at |-> clock + 1, cond |-> conds[i]]
    BY <2>1, RecordFacts
  <2>3. 1 \in 1 .. Len(conds)
    BY <2>1
  <2> QED BY <2>1, <2>2, <2>3
<1>5. /\ Changes(p)' = Changes(p) \cup {new}
      /\ \A i \in Changes(p) : i < new /\ i \in Nat /\ events'[i] = events[i]
  <2>1. \A i : i \in 1 .. Len(events') <=> i \in 1 .. Len(events) \/ i = new
    BY <1>3, <1>4
  <2>2. events'[new].cond \in {Failing(p), Responding(p)}
    BY <1>4
  <2> QED BY <1>3, <1>4, <2>1, <2>2 DEF Changes, Failing, Responding
<1>6. new \in Nat
  BY <1>3
<1> HIDE DEF new
<1>7. LastOf(p)'
  <2>1. ASSUME NEW j \in Changes(p)', IsLast(j, p)' PROVE j = new
    <3>1. new <= j
      BY <1>5, <2>1 DEF IsLast
    <3> QED BY <1>5, <1>6, <3>1
  <2>2. events'[new].cond = Responding(p) <=> Up(p)'
    BY <1>1, <1>4
  <2> QED BY <1>5, <2>1, <2>2 DEF LastOf, Responding
<1>8. AlternateOf(p)'
  <2>1. ASSUME NEW j \in Changes(p)', IsFirst(j, p)' PROVE events'[j].cond = Failing(p)
    <3>1. CASE j = new
      <4>1. Changes(p) = {}
        BY <1>5, <1>6, <2>1, <3>1 DEF IsFirst
      <4>2. Up(p)
        BY <4>1 DEF LastOf
      <4> QED BY <1>4, <3>1, <4>2
    <3>2. CASE j # new
      <4>1. j \in Changes(p) /\ IsFirst(j, p)
        BY <1>5, <2>1, <3>2 DEF IsFirst
      <4> QED BY <1>5, <4>1 DEF AlternateOf
    <3> QED BY <3>1, <3>2
  <2>2. ASSUME NEW i \in Changes(p)', NEW j \in Changes(p)', Follows(j, i, p)'
        PROVE  events'[i].cond # events'[j].cond
    <3>1. i \in Changes(p)
      BY <1>5, <1>6, <2>2 DEF Follows
    <3>2. CASE j = new
      <4>1. \A k \in Changes(p) : k <= i
        BY <1>5, <1>6, <2>2, <3>2 DEF Follows
      <4>2. events[i].cond = Responding(p) <=> Up(p)
        BY <3>1, <4>1 DEF LastOf, IsLast
      <4>3. events[i].cond \in {Failing(p), Responding(p)} /\ events'[i] = events[i]
        BY <1>5, <3>1 DEF Changes
      <4>4. events'[new].cond = c
        BY <1>4
      <4> QED BY <1>1, <3>2, <4>2, <4>3, <4>4
    <3>3. CASE j # new
      <4>1. j \in Changes(p) /\ Follows(j, i, p)
        BY <1>5, <2>2, <3>3 DEF Follows
      <4> QED BY <1>5, <3>1, <4>1 DEF AlternateOf
    <3> QED BY <3>2, <3>3
  <2> QED BY <2>1, <2>2 DEF AlternateOf, Failing
<1>9. \A n \in Nat : Reported(events, p, n) => Reported(events', p, n)
  BY <1>3, <1>4 DEF Reported, new
<1>10. ASSUME c = Failing(p) PROVE Reported(events', p, clock' + 1)
  <2>1. new \in 1 .. Len(events')
    BY <1>3, <1>4 DEF new
  <2>2. events'[new].cond = Failing(p) /\ events'[new].at = clock + 1
    BY <1>4, <1>10
  <2> QED BY <1>3, <1>4, <2>1, <2>2 DEF Reported
<1> QED BY <1>7, <1>8, <1>9, <1>10

-----------------------------------------------------------------------------
(* Every step keeps the invariant *)

\* A monitor that was just made: nothing recorded, every API taken to be up.
LEMMA InitInv ==
  ASSUME Init
  PROVE  IInv
<1>1. RecordType
  <2>1. /\ events \in Seq(Event) /\ samples \in Seq(Sample) /\ lastPass \in Pass
        /\ collected \in Seq(Conditions)
    BY EmptySeq DEF Init, Pass
  <2>2. /\ clock \in 0 .. MaxTime /\ doneAt \in 0 .. MaxTime /\ sampling \in 0 .. NumPollers
    BY NumbersAssumption DEF Init
  <2>3. ctxDone \in BOOLEAN /\ late \in BOOLEAN /\ available \in [Pollers -> BOOLEAN]
    BY Zenon DEF Init
  <2> QED BY <2>1, <2>2, <2>3 DEF Init, RecordType
<1>2. OrderInv /\ FinalInv
  BY DEF Init, OrderInv, InOrder, FinalInv
<1>3. ASSUME NEW p \in Pollers PROVE LastOf(p) /\ AlternateOf(p) /\ CauseOf(p)
  <2>1. Changes(p) = {} /\ Up(p)
    BY DEF Init, Changes, Up
  <2>2. Range(collected) = {} /\ Len(samples) = 0
    BY DEF Init, Range
  <2> QED BY <2>1, <2>2 DEF Init, LastOf, AlternateOf, CauseOf
<1> QED BY <1>1, <1>2, <1>3 DEF IInv, ApiInv

\* Another recorder records.
LEMMA RecordOthersStep ==
  ASSUME IInv, RecordOthers
  PROVE  IInv'
<1> USE DEF IInv
<1>1. PICK conds \in {<<1>>, <<1, 2>>} : Record(conds)
  BY DEF RecordOthers
<1>2. UNCHANGED <<samples, available, poll, sampling, ticker, collected, late, lastPass, ctxDone, doneAt,
                 outage>>
  BY DEF RecordOthers, api, pass, context
<1>3. conds \in Seq(Conditions) /\ \A i \in 1 .. Len(conds) : conds[i] \in {1, 2}
  <2>1. 1 \in Conditions /\ 2 \in Conditions
    BY ConditionFacts
  <2>2. CASE conds = <<1>>
    BY <2>1, <2>2
  <2>3. CASE conds = <<1, 2>>
    BY <2>1, <2>3
  <2> QED BY <2>2, <2>3
<1>4. clock' = clock + 1 /\ clock \in Nat /\ clock' \in 0 .. MaxTime /\ events' \in Seq(Event)
  BY <1>1, <1>3, RecordFacts, TimeFacts
<1>5. RecordType'
  BY <1>2, <1>4 DEF RecordType
<1>6. OrderInv'
  BY <1>1, <1>2, <1>3, RecordInOrder
<1>7. FinalInv'
  BY <1>2, <1>4, TimeFacts DEF FinalInv
<1>8. ASSUME NEW q \in Pollers PROVE LastOf(q)' /\ AlternateOf(q)' /\ CauseOf(q)'
  <2>1. Changes(q)' = Changes(q) /\ \A i \in Changes(q) : events'[i] = events[i]
    BY <1>1, <1>3, ConditionFacts, OtherRecord
  <2>2. Up(q)' <=> Up(q)
    BY <1>2 DEF Up
  <2>3. LastOf(q)' /\ AlternateOf(q)' /\ \A n \in Nat : Reported(events, q, n) => Reported(events', q, n)
    BY <2>1, <2>2, ChangesKept DEF ApiInv
  <2>4. CauseOf(q)'
    BY <1>2, <1>4, <2>3, CauseKept DEF ApiInv
  <2> QED BY <2>3, <2>4
<1> QED BY <1>5, <1>6, <1>7, <1>8 DEF ApiInv

\* What a tick of a poller does: the answer of the API changes the recorded state
\* and is recorded, or is the recorded state and is not.
LEMMA PollCases ==
  ASSUME RecordType, NEW p \in Pollers, Poll(p)
  PROVE  \E ok \in BOOLEAN :
           /\ poll[p] = "idle" /\ poll' = [poll EXCEPT ![p] = IF ok THEN "up" ELSE "down"]
           /\ \/ (ok <=> available[p]) /\ UNCHANGED <<clock, events>>
              \/ ok /\ ~available[p] /\ Record(<<Responding(p)>>)
              \/ ~ok /\ available[p] /\ Record(<<Failing(p)>>)
<1>1. PICK ok \in BOOLEAN :
        /\ IF Edge(p, ok) = << >> THEN UNCHANGED <<clock, events>> ELSE Record(Edge(p, ok))
        /\ poll' = [poll EXCEPT ![p] = IF ok THEN "up" ELSE "down"]
  BY DEF Poll
<1>2. available[p] \in BOOLEAN /\ poll[p] = "idle"
  BY DEF Poll, RecordType
<1>3. CASE ok /\ ~available[p]
  <2>1. Edge(p, ok) = <<Responding(p)>> /\ <<Responding(p)>> # << >>
    BY <1>3 DEF Edge
  <2> QED BY <1>1, <1>2, <1>3, <2>1
<1>4. CASE ~ok /\ available[p]
  <2>1. Edge(p, ok) = <<Failing(p)>> /\ <<Failing(p)>> # << >>
    BY <1>4 DEF Edge
  <2> QED BY <1>1, <1>2, <1>4, <2>1
<1>5. CASE ok <=> available[p]
  <2>1. Edge(p, ok) = << >>
    BY <1>2, <1>5 DEF Edge
  <2> QED BY <1>1, <1>2, <1>5, <2>1
<1> QED BY <1>2, <1>3, <1>4, <1>5

\* A poll records a change, if there is one, before it assigns it.
LEMMA PollStep ==
  ASSUME IInv, NEW p \in Pollers, Poll(p)
  PROVE  IInv'
<1> USE DEF IInv
<1>1. PICK ok \in BOOLEAN :
        /\ poll[p] = "idle" /\ poll' = [poll EXCEPT ![p] = IF ok THEN "up" ELSE "down"]
        /\ \/ (ok <=> available[p]) /\ UNCHANGED <<clock, events>>
           \/ ok /\ ~available[p] /\ Record(<<Responding(p)>>)
           \/ ~ok /\ available[p] /\ Record(<<Failing(p)>>)
  BY PollCases
<1>2. UNCHANGED <<samples, available, sampling, ticker, collected, late, lastPass, ctxDone, doneAt,
                 outage>>
  BY DEF Poll, pass, context
<1>3. poll' \in [Pollers -> {"idle", "up", "down", "stopped"}]
  BY <1>1 DEF RecordType
<1>4. /\ \A q \in Pollers : q # p => poll'[q] = poll[q] /\ (Up(q)' <=> Up(q))
      /\ poll'[p] = IF ok THEN "up" ELSE "down"
      /\ Up(p) <=> available[p]
      /\ Up(p)' <=> ok
  <2>1. \A q \in Pollers : poll'[q] = IF q = p THEN IF ok THEN "up" ELSE "down" ELSE poll[q]
    BY <1>1 DEF RecordType
  <2> QED BY <1>1, <1>2, <2>1 DEF Up
<1>5. CASE (ok <=> available[p]) /\ UNCHANGED <<clock, events>>
  <2>1. RecordType' /\ OrderInv' /\ FinalInv'
    BY <1>2, <1>3, <1>5 DEF RecordType, OrderInv, FinalInv
  <2>2. ASSUME NEW q \in Pollers PROVE LastOf(q)' /\ AlternateOf(q)' /\ CauseOf(q)'
    <3>1. Changes(q)' = Changes(q) /\ \A i \in Changes(q) : events'[i] = events[i]
      BY <1>5 DEF Changes, Failing, Responding
    <3>2. Up(q)' <=> Up(q)
      BY <1>4, <1>5
    <3>3. LastOf(q)' /\ AlternateOf(q)' /\ \A n \in Nat : Reported(events, q, n) => Reported(events', q, n)
      BY <3>1, <3>2, ChangesKept DEF ApiInv
    <3>4. ~available'[q] \/ poll'[q] = "down" => ~available[q] \/ poll[q] = "down"
      BY <1>2, <1>4, <1>5
    <3>5. clock' \in Nat /\ clock <= clock'
      BY <1>5, TimeFacts
    <3>6. CauseOf(q)'
      BY <1>2, <3>3, <3>4, <3>5, CauseKept DEF ApiInv
    <3> QED BY <3>3, <3>6
  <2> QED BY <2>1, <2>2 DEF ApiInv
<1>6. ASSUME NEW c \in {Failing(p), Responding(p)}, Record(<<c>>),
             c = Responding(p) <=> ok, ok <=> ~available[p]
      PROVE  IInv'
  <2>1. /\ <<c>> \in Seq(Conditions)
        /\ \A i \in 1 .. Len(<<c>>) : <<c>>[i] = c
    BY ConditionFacts
  <2>2. clock' = clock + 1 /\ clock \in Nat /\ clock' \in 0 .. MaxTime /\ events' \in Seq(Event)
    BY <1>6, <2>1, RecordFacts, TimeFacts
  <2>3. RecordType'
    BY <1>2, <1>3, <2>2 DEF RecordType
  <2>4. OrderInv'
    BY <1>2, <1>6, <2>1, RecordInOrder
  <2>5. FinalInv'
    BY <1>2, <2>2, TimeFacts DEF FinalInv
  <2>6. ASSUME NEW q \in Pollers, q # p PROVE LastOf(q)' /\ AlternateOf(q)' /\ CauseOf(q)'
    <3>1. c \notin {Failing(q), Responding(q)}
      BY <1>6, <2>6, ConditionFacts
    <3>2. Changes(q)' = Changes(q) /\ \A i \in Changes(q) : events'[i] = events[i]
      BY <1>6, <2>1, <3>1, OtherRecord
    <3>3. LastOf(q)' /\ AlternateOf(q)' /\ \A n \in Nat : Reported(events, q, n) => Reported(events', q, n)
      BY <1>4, <2>6, <3>2, ChangesKept DEF ApiInv
    <3>4. ~available'[q] \/ poll'[q] = "down" => ~available[q] \/ poll[q] = "down"
      BY <1>2, <1>4, <2>6
    <3>5. clock' \in Nat /\ clock <= clock'
      BY <2>2
    <3>6. CauseOf(q)'
      BY <1>2, <3>3, <3>4, <3>5, CauseKept DEF ApiInv
    <3> QED BY <3>3, <3>6
  <2>7. LastOf(p)' /\ AlternateOf(p)' /\ CauseOf(p)'
    <3>1. /\ LastOf(p)' /\ AlternateOf(p)'
          /\ \A n \in Nat : Reported(events, p, n) => Reported(events', p, n)
          /\ c = Failing(p) => Reported(events', p, clock' + 1)
      BY <1>4, <1>6, NewChange DEF ApiInv
    <3>2. clock' \in Nat /\ clock <= clock'
      BY <2>2
    <3>3. CASE ok
      <4>1. ~available'[p] \/ poll'[p] = "down" => ~available[p] \/ poll[p] = "down"
        BY <1>2, <1>4, <3>3
      <4>2. CauseOf(p)'
        BY <1>2, <3>1, <3>2, <4>1, CauseKept DEF ApiInv
      <4> QED BY <3>1, <4>2
    <3>4. CASE ~ok
      <4>1. Reported(events', p, clock' + 1)
        BY <1>6, <3>1, <3>4
      <4>2. ASSUME NEW i \in 1 .. Len(samples'), Down(p) \in Range(samples'[i].conds)
            PROVE  Reported(events', p, samples'[i].at)
        <5>1. Reported(events, p, samples[i].at) /\ samples[i].at \in Nat
          BY <1>2, <4>2, TimeFacts DEF ApiInv, CauseOf
        <5> QED BY <1>2, <3>1, <5>1
      <4>3. CauseOf(p)'
        BY <4>1, <4>2 DEF CauseOf, Down
      <4> QED BY <3>1, <4>3
    <3> QED BY <3>3, <3>4
  <2> QED BY <2>3, <2>4, <2>5, <2>6, <2>7 DEF ApiInv
<1>7. CASE ok /\ ~available[p] /\ Record(<<Responding(p)>>)
  BY <1>6, <1>7
<1>8. CASE ~ok /\ available[p] /\ Record(<<Failing(p)>>)
  BY <1>6, <1>8, ConditionFacts
<1> QED BY <1>1, <1>5, <1>7, <1>8

\* The steps that record nothing, move no time and keep the recorded states.
LEMMA NothingRecorded ==
  ASSUME IInv, UNCHANGED log, NEW q \in Pollers, Up(q)' <=> Up(q),
         ~available'[q] \/ poll'[q] = "down" => ~available[q] \/ poll[q] = "down",
         Down(q) \in Range(collected') => Down(q) \in Range(collected)
  PROVE  LastOf(q)' /\ AlternateOf(q)' /\ CauseOf(q)'
<1> USE DEF IInv, log
<1>1. Changes(q)' = Changes(q) /\ \A i \in Changes(q) : events'[i] = events[i]
  BY DEF Changes, Failing, Responding
<1>2. LastOf(q)' /\ AlternateOf(q)' /\ \A n \in Nat : Reported(events, q, n) => Reported(events', q, n)
  BY <1>1, ChangesKept DEF ApiInv
<1>3. clock' \in Nat /\ clock <= clock'
  BY TimeFacts
<1>4. CauseOf(q)'
  BY <1>2, <1>3, CauseKept DEF ApiInv
<1> QED BY <1>2, <1>4

\* s.available is set, or the poller stops.
LEMMA PollSetStep ==
  ASSUME IInv, NEW p \in Pollers, PollSet(p) \/ PollStop(p)
  PROVE  IInv'
<1> USE DEF IInv
<1>1. UNCHANGED <<log, clock, events, samples, sampling, ticker, collected, late, lastPass, ctxDone, doneAt>>
  BY DEF PollSet, PollStop, log, pass, context
<1>2. /\ poll' \in [Pollers -> {"idle", "up", "down", "stopped"}]
      /\ available' \in [Pollers -> BOOLEAN]
  BY DEF PollSet, PollStop, RecordType
<1>3. RecordType' /\ OrderInv' /\ FinalInv'
  <2>1. outage' \subseteq outage /\ \A q \in outage' : ~available'[q]
    <3>1. CASE PollSet(p)
      BY <3>1 DEF PollSet, RecordType, FinalInv
    <3>2. CASE PollStop(p)
      BY <3>2 DEF PollStop, context, FinalInv
    <3> QED BY <3>1, <3>2
  <2>2. RecordType' /\ OrderInv'
    BY <1>1, <1>2, <2>1 DEF RecordType, OrderInv
  <2>3. FinalInv'
    BY <1>1, <2>1 DEF FinalInv, Down
  <2> QED BY <2>2, <2>3
<1>4. ASSUME NEW q \in Pollers
      PROVE  /\ Up(q)' <=> Up(q)
             /\ ~available'[q] \/ poll'[q] = "down" => ~available[q] \/ poll[q] = "down"
  <2>1. CASE PollSet(p)
    <3>1. /\ poll[p] \in {"up", "down"}
          /\ poll'[q] = IF q = p THEN "idle" ELSE poll[q]
          /\ available'[q] = IF q = p THEN poll[p] = "up" ELSE available[q]
      BY <2>1 DEF PollSet, RecordType
    <3> QED BY <3>1 DEF Up
  <2>2. CASE PollStop(p)
    <3>1. /\ poll[p] = "idle"
          /\ poll'[q] = IF q = p THEN "stopped" ELSE poll[q]
          /\ available'[q] = available[q]
      BY <2>2 DEF PollStop, RecordType
    <3> QED BY <3>1 DEF Up
  <2> QED BY <2>1, <2>2
<1>5. ApiInv'
  BY <1>1, <1>4, NothingRecorded DEF ApiInv
<1> QED BY <1>3, <1>5

\* A sampler function is called.
LEMMA SampleReadStep ==
  ASSUME IInv, SampleRead
  PROVE  IInv'
<1> USE DEF IInv
<1>1. /\ ticker # "off" /\ sampling < NumPollers /\ sampling' = sampling + 1
      /\ UNCHANGED <<log, clock, events, samples, available, poll, lastPass, ctxDone, doneAt, outage>>
  BY DEF SampleRead, log, api, context
<1>2. /\ ticker' \in {"on", "last"} /\ (ticker' = "last" => ctxDone /\ late') /\ late' \in BOOLEAN
      /\ sampling # 0 => ticker' = ticker
  BY <1>1 DEF SampleRead, BeginPass, FinalInv, RecordType
<1>3. sampling + 1 \in Pollers /\ sampling' \in 0 .. NumPollers
  BY <1>1, NumbersAssumption DEF RecordType, Pollers
<1> DEFINE found == ConditionWhenFailing(sampling + 1)
<1>4. /\ found \in Seq(Conditions)
      /\ \A c \in Range(found) : c = Down(sampling + 1) /\ ~available[sampling + 1]
      /\ ~available[sampling + 1] => Down(sampling + 1) \in Range(found)
  <2>1. CASE available[sampling + 1]
    <3>1. found = << >> /\ Range(found) = {}
      BY <2>1 DEF ConditionWhenFailing, Range
    <3>2. << >> \in Seq(Conditions)
      BY EmptySeq
    <3> HIDE DEF found
    <3> QED BY <2>1, <3>1, <3>2
  <2>2. CASE ~available[sampling + 1]
    <3>1. found = <<Down(sampling + 1)>> /\ Down(sampling + 1) \in Conditions
      BY <1>3, <2>2, ConditionFacts DEF ConditionWhenFailing
    <3>2. Range(found) = {Down(sampling + 1)}
      BY <3>1 DEF Range
    <3>3. <<Down(sampling + 1)>> \in Seq(Conditions)
      BY <3>1
    <3> HIDE DEF found
    <3> QED BY <2>2, <3>1, <3>2, <3>3
  <2> QED BY <2>1, <2>2
<1>5. collected' = collected \o found /\ collected \in Seq(Conditions)
  BY DEF SampleRead, RecordType
<1> HIDE DEF found
<1>6. collected' \in Seq(Conditions) /\ Range(collected') = Range(collected) \cup Range(found)
  BY <1>4, <1>5, ConcatProperties, RangeConcatenation
<1>7. RecordType' /\ OrderInv' /\ FinalInv'
  <2>1. RecordType' /\ OrderInv'
    BY <1>1, <1>2, <1>3, <1>6 DEF RecordType, OrderInv
  <2>2. ASSUME ticker' = "last", NEW q \in outage', q <= sampling' PROVE Down(q) \in Range(collected')
    <3>1. q \in Pollers /\ q \in Nat /\ sampling \in Nat /\ 1 <= q /\ q \in outage /\ ~available[q]
      BY <1>1, NumbersAssumption DEF RecordType, FinalInv, Pollers
    <3>2. CASE q = sampling + 1
      BY <1>4, <1>6, <3>1, <3>2
    <3>3. CASE q # sampling + 1
      <4>1. q <= sampling /\ sampling # 0
        BY <1>1, <2>2, <3>1, <3>3
      <4>2. Down(q) \in Range(collected)
        BY <1>2, <2>2, <3>1, <4>1 DEF FinalInv
      <4> QED BY <1>6, <4>2
    <3> QED BY <3>2, <3>3
  <2>3. FinalInv'
    BY <1>1, <1>2, <2>2 DEF FinalInv, Down
  <2> QED BY <2>1, <2>3
<1>8. ASSUME NEW q \in Pollers PROVE LastOf(q)' /\ AlternateOf(q)' /\ CauseOf(q)'
  <2>1. Up(q)' <=> Up(q)
    BY <1>1 DEF Up
  <2>2. CASE Down(q) \in Range(collected') => Down(q) \in Range(collected)
    BY <1>1, <2>1, <2>2, NothingRecorded
  <2>3. CASE Down(q) \in Range(found)
    <3>1. ~available[q]
      BY <1>3, <1>4, <2>3, ConditionFacts
    <3>2. Reported(events, q, clock + 1)
      BY <3>1 DEF ApiInv, CauseOf
    <3>3. CauseOf(q)'
      BY <1>1, <3>2 DEF ApiInv, CauseOf, Reported, Down, Failing
    <3>4. Changes(q)' = Changes(q) /\ \A i \in Changes(q) : events'[i] = events[i]
      BY <1>1 DEF Changes, Failing, Responding
    <3> QED BY <2>1, <3>3, <3>4, ChangesKept DEF ApiInv
  <2> QED BY <1>6, <2>2, <2>3
<1> QED BY <1>7, <1>8 DEF ApiInv

\* The end of a pass.
LEMMA SampleAppendStep ==
  ASSUME IInv, SampleAppend
  PROVE  IInv'
<1> USE DEF IInv
<1> DEFINE new == [at |-> clock + 1, conds |-> collected]
<1>1. /\ sampling = NumPollers /\ clock < MaxTime /\ clock' = clock + 1
      /\ samples' = IF collected = << >> THEN samples ELSE Append(samples, new)
      /\ lastPass' = [conds |-> collected, late |-> late]
      /\ collected' = << >> /\ sampling' = 0 /\ ticker' = IF ticker = "last" THEN "off" ELSE "on"
      /\ UNCHANGED <<events, available, poll, late, ctxDone, doneAt, outage>>
  BY DEF SampleAppend, api, context
<1>2. clock \in Nat /\ clock' \in 1 .. MaxTime /\ new \in Sample
  BY <1>1, TimeFacts, NumbersAssumption DEF RecordType, Sample
<1>3. /\ lastPass' \in Pass
      /\ Append(samples, new) \in Seq(Sample) /\ Len(Append(samples, new)) = Len(samples) + 1
      /\ Append(samples, new)[Len(samples) + 1] = new
      /\ \A i \in 1 .. Len(samples) : Append(samples, new)[i] = samples[i]
  BY <1>1, <1>2, AppendProperties DEF RecordType, Pass
<1>4. RecordType'
  BY <1>1, <1>2, <1>3, NumbersAssumption, EmptySeq DEF RecordType
<1>5. Len(samples') \in Nat /\ \A i \in 1 .. Len(samples') :
        \/ i \in 1 .. Len(samples) /\ samples'[i] = samples[i]
        \/ i = Len(samples) + 1 /\ samples'[i] = new /\ i = Len(samples')
  BY <1>1, <1>3, TimeFacts
<1>6. OrderInv'
  <2>1. InOrder(events', clock')
    BY <1>1, <1>2, TimeFacts DEF OrderInv, InOrder
  <2>2. /\ \A i \in 1 .. Len(samples) : samples[i].at \in Nat /\ samples[i].at <= clock
        /\ new.at = clock'
    BY <1>1, TimeFacts DEF OrderInv, InOrder
  <2> HIDE DEF new
  <2>3. \A i \in 1 .. Len(samples') : samples'[i].at <= clock'
    BY <1>1, <1>2, <1>5, <2>2
  <2>4. ASSUME NEW i \in 1 .. Len(samples'), NEW j \in 1 .. Len(samples'), i < j
        PROVE  samples'[i].at <= samples'[j].at
    <3>1. i \in 1 .. Len(samples) /\ samples'[i] = samples[i]
      BY <1>5, <2>4
    <3>2. CASE samples'[j] = new
      BY <2>2, <2>3, <3>2
    <3>3. CASE j \in 1 .. Len(samples) /\ samples'[j] = samples[j]
      BY <2>4, <3>1, <3>3 DEF OrderInv, InOrder
    <3> QED BY <1>5, <3>2, <3>3
  <2> QED BY <2>1, <2>3, <2>4 DEF OrderInv, InOrder
<1>7. FinalInv'
  <2>1. doneAt' <= clock'
    BY <1>1, <1>2, TimeFacts DEF FinalInv
  <2>2. ASSUME ticker = "last" PROVE late /\ \A p \in outage : Down(p) \in Range(collected)
    <3>1. \A p \in outage : p <= sampling
      BY <1>1, NumbersAssumption DEF RecordType, Pollers
    <3> QED BY <2>2, <3>1 DEF FinalInv
  <2>3. lastPass'.late = late /\ lastPass'.conds = collected
    BY <1>1
  <2>4. ticker' # "last"
    BY <1>1
  <2> QED BY <1>1, <2>1, <2>2, <2>3, <2>4 DEF FinalInv, Down
<1>8. ASSUME NEW q \in Pollers PROVE LastOf(q)' /\ AlternateOf(q)' /\ CauseOf(q)'
  <2>1. Changes(q)' = Changes(q) /\ (\A i \in Changes(q) : events'[i] = events[i]) /\ (Up(q)' <=> Up(q))
    BY <1>1 DEF Changes, Failing, Responding, Up
  <2>2. LastOf(q)' /\ AlternateOf(q)'
    BY <2>1, ChangesKept DEF ApiInv
  <2>3. ASSUME Reported(events, q, clock + 1) PROVE Reported(events', q, clock' + 1)
    <3>1. clock + 1 \in Nat /\ clock' + 1 \in Nat /\ clock + 1 <= clock' + 1
      BY <1>1, <1>2
    <3> QED BY <1>1, <2>3, <3>1, ReportedLater
  <2>4. ~available'[q] \/ poll'[q] = "down" => Reported(events', q, clock' + 1)
    BY <1>1, <2>3 DEF ApiInv, CauseOf
  <2>5. Down(q) \notin Range(collected')
    BY <1>1 DEF Range
  <2>6. ASSUME NEW i \in 1 .. Len(samples'), Down(q) \in Range(samples'[i].conds)
        PROVE  Reported(events', q, samples'[i].at)
    <3>1. CASE i \in 1 .. Len(samples) /\ samples'[i] = samples[i]
      BY <1>1, <2>6, <3>1 DEF ApiInv, CauseOf
    <3>2. CASE samples'[i] = new
      BY <1>1, <2>6, <3>2 DEF ApiInv, CauseOf
    <3> QED BY <1>5, <3>1, <3>2
  <2>7. CauseOf(q)'
    BY <2>4, <2>5, <2>6 DEF CauseOf, Down
  <2> QED BY <2>2, <2>7
<1> QED BY <1>4, <1>6, <1>7, <1>8 DEF ApiInv

\* The printer, the cancellation and stuttering record nothing.
LEMMA OtherStep ==
  ASSUME IInv, PrintPass \/ Cancel \/ UNCHANGED vars
  PROVE  IInv'
<1> USE DEF IInv
<1>1. /\ UNCHANGED <<log, clock, events, samples, available, poll, sampling, ticker, collected, late, lastPass>>
      /\ \/ UNCHANGED <<ctxDone, doneAt, outage>>
         \/ /\ ~ctxDone /\ ctxDone' = TRUE /\ doneAt' = clock
            /\ outage' = {q \in Pollers : ~available[q]}
  BY DEF PrintPass, Cancel, vars, log, api, pass, context
<1>2. RecordType' /\ OrderInv' /\ FinalInv'
  <2>1. doneAt' \in 0 .. MaxTime /\ doneAt' <= clock' /\ ctxDone' \in BOOLEAN
    <3>1. clock \in 0 .. MaxTime /\ doneAt \in 0 .. MaxTime /\ doneAt <= clock /\ ctxDone \in BOOLEAN
      BY DEF RecordType, FinalInv
    <3>2. clock <= clock
      BY TimeFacts
    <3> QED BY <1>1, <3>1, <3>2
  <2>2. RecordType' /\ OrderInv'
    BY <1>1, <2>1 DEF RecordType, OrderInv
  <2>3. FinalInv'
    BY <1>1, <2>1 DEF FinalInv
  <2> QED BY <2>2, <2>3
<1>3. \A q \in Pollers : Up(q)' <=> Up(q)
  BY <1>1 DEF Up
<1>4. ApiInv'
  BY <1>1, <1>3, NothingRecorded DEF ApiInv
<1> QED BY <1>2, <1>4

\* Recorders, pollers, the sampling goroutine, the printer and the cancellation
\* keep the invariant in whatever order they run.
THEOREM Invariance == Spec => []IInv
<1>1. IInv /\ [Next]_vars => IInv'
  BY RecordOthersStep, PollStep, PollSetStep, SampleReadStep, SampleAppendStep, OtherStep DEF Next
<1> QED BY InitInv, <1>1, PTL DEF Spec

-----------------------------------------------------------------------------
(* What holds of the monitor *)

\* When the sampling goroutine is gone, its last pass began after the cancellation
\* and found every API that was down then and has stayed so.
THEOREM LastPassIsMade == Spec => []FinalPass
<1>1. IInv => FinalPass
  BY DEF IInv, FinalInv, FinalPass
<1> QED BY <1>1, Invariance, PTL

\* The recorded changes of every API alternate, beginning with a failure, and it is
\* sampled as down only after a recorded failure.
THEOREM CausesComeFirst == Spec => []FailureBeforeDown
<1>1. ASSUME IInv PROVE FailureBeforeDown
  <2> SUFFICES ASSUME NEW p \in Pollers
               PROVE  /\ \A j \in Changes(p) : (\A i \in Changes(p) : j <= i) => events[j].cond = Failing(p)
                      /\ \A i, j \in Changes(p) : i < j /\ (\A k \in Changes(p) : k <= i \/ j <= k) =>
                           events[i].cond # events[j].cond
                      /\ \A i \in 1 .. Len(samples) : Down(p) \in Range(samples[i].conds) =>
                           \E j \in Changes(p) : events[j].cond = Failing(p) /\ events[j].at < samples[i].at
    BY DEF FailureBeforeDown
  <2>1. AlternateOf(p) /\ CauseOf(p)
    BY <1>1 DEF IInv, ApiInv
  <2> QED BY <2>1 DEF AlternateOf, IsFirst, Follows, CauseOf, Reported, Changes
<1> QED BY <1>1, Invariance, PTL

\* Whatever was recorded in whatever order, the queries of Monitor.Conditions and
\* Monitor.Events work on exactly the samples and events of their window.
THEOREM WindowsAreExact ==
  Spec => [](\A from, to \in Nat : ExactWindow(samples, from, to) /\ ExactWindow(events, from, to))
<1>1. ASSUME IInv PROVE \A from, to \in Nat : ExactWindow(samples, from, to) /\ ExactWindow(events, from, to)
  <2>1. Timeline(samples) /\ Timeline(events)
    BY <1>1, TimeFacts DEF IInv, RecordType, OrderInv, InOrder, Timeline
  <2> QED BY <2>1, WindowIsExact
<1> QED BY <1>1, Invariance, PTL

-----------------------------------------------------------------------------
(* What the monitor's own log looks like *)

\* The conditions the samplers return.
Downs == {Down(p) : p \in Pollers}

\* Only those are sampled, each once in a pass and with a time for every pass; ...
SampledInv ==
  /\ collected \in Seq(Downs)
  /\ \A k \in 1 .. Len(collected) : \E q \in 1 .. sampling : collected[k] = Down(q)
  /\ \A k, l \in 1 .. Len(collected) : collected[k] = collected[l] => k = l
  /\ ProperSamples(samples, Downs, 1 .. MaxTime)
\* ... none of them is recorded, and no event is recorded twice.
ApartInv ==
  /\ \A i \in 1 .. Len(events) : events[i].cond \notin Downs
  /\ \A i, j \in 1 .. Len(events) : events[i] = events[j] => i = j

\* Conditions are numbers; those of the samplers are never recorded.
LEMMA SampledConditions ==
  /\ Conditions \subseteq Nat /\ Downs \subseteq Conditions
  /\ {1, 2} \cap Downs = {}
  /\ \A p \in Pollers : {Failing(p), Responding(p)} \cap Downs = {}
<1>1. Pollers \subseteq Nat \ {0}
  BY NumbersAssumption DEF Pollers
<1>2. \A p \in Pollers : Down(p) \in Nat /\ Failing(p) \in Nat /\ Responding(p) \in Nat
  BY <1>1 DEF Down, Failing, Responding
<1>3. Conditions \subseteq Nat
  BY <1>2 DEF Conditions, Others
<1>4. \A p, q \in Pollers : Failing(p) # Down(q) /\ Responding(p) # Down(q)
  BY <1>1 DEF Down, Failing, Responding
<1>5. \A p \in Pollers : Down(p) # 1 /\ Down(p) # 2
  BY <1>1 DEF Down
<1>6. Downs \subseteq Conditions
  BY ConditionFacts DEF Downs
<1> QED BY <1>3, <1>4, <1>5, <1>6 DEF Downs

\* The samples are proper at the times up to now.
LEMMA SamplesProper ==
  ASSUME IInv, SampledInv
  PROVE  ProperSamples(samples, Downs, 1 .. clock)
<1> DEFINE A == [at : 1 .. MaxTime, conds : Seq(Downs)]
           B == [at : 1 .. clock, conds : Seq(Downs)]
<1>1. samples \in Seq(A) /\ clock \in Nat
  BY TimeFacts DEF SampledInv, ProperSamples, IInv
<1>2. \A a \in A : a.at <= clock => a \in B
  BY <1>1, NumbersAssumption
<1> HIDE DEF A, B
<1>3. samples \in [1 .. Len(samples) -> A] /\ Len(samples) \in Nat
  BY <1>1, LenProperties
<1>4. \A i \in 1 .. Len(samples) : samples[i].at <= clock
  BY DEF IInv, OrderInv, InOrder
<1>5. samples \in Seq(B)
  <2>1. samples \in [1 .. Len(samples) -> B]
    BY <1>2, <1>3, <1>4
  <2> QED BY <1>3, <2>1
<1>6. 1 .. clock \subseteq Nat
  BY <1>1
<1> QED BY <1>5, <1>6 DEF SampledInv, ProperSamples, B

\* The events are, too.
LEMMA EventsProper ==
  ASSUME IInv, ApartInv
  PROVE  ProperEvents(events, Conditions \ Downs, 1 .. clock)
<1> DEFINE B == [at : 1 .. clock, cond : Conditions \ Downs]
<1>1. events \in Seq(Event) /\ clock \in Nat /\ MaxTime \in Nat
  BY TimeFacts, NumbersAssumption DEF IInv, RecordType
<1>2. \A e \in Event : e.at <= clock /\ e.cond \notin Downs => e \in B
  BY <1>1 DEF Event
<1> HIDE DEF B
<1>3. events \in [1 .. Len(events) -> Event] /\ Len(events) \in Nat
  BY <1>1, LenProperties
<1>4. events \in Seq(B)
  <2>1. \A i \in 1 .. Len(events) : events[i].at <= clock /\ events[i].cond \notin Downs
    BY DEF IInv, OrderInv, InOrder, ApartInv
  <2>2. events \in [1 .. Len(events) -> B]
    BY <1>2, <1>3, <2>1
  <2> QED BY <1>3, <2>2
<1>5. /\ 1 .. clock \subseteq Nat
      /\ \A i, j \in 1 .. Len(events) : i < j => events[i].at <= events[j].at
  BY <1>1 DEF IInv, OrderInv, InOrder
<1> QED BY <1>4, <1>5 DEF ApartInv, ProperEvents, B

\* The times in a window up to now.
WindowTimes(from, to) == {n \in 1 .. clock : InWindow(n, from, to)}

\* Monitor.Events returns exactly what the monitor recorded and sampled.
LEMMA MonitorEvents ==
  ASSUME IInv, SampledInv, ApartInv, NEW from \in Nat, NEW to \in Nat
  PROVE  /\ EventsBetween(events, samples, from, to) \in Seq(Intervals(Conditions, WindowTimes(from, to)))
         /\ ExactEvents(events, samples, from, to)
<1> DEFINE T == 1 .. clock
           R == Conditions \ Downs
<1>1. ProperSamples(samples, Downs, T) /\ ProperEvents(events, R, T)
  BY SamplesProper, EventsProper
<1>2. Downs \subseteq Nat /\ R \subseteq Nat /\ Downs \cup R = Conditions
  BY SampledConditions
<1>3. \A i \in 1 .. Len(events) : Point(events[i]) \notin SampleRuns(samples, from, to)
  <2> DEFINE ivs == filterSamples(samples, from, to)
             S == Intervals(Downs, {n \in T : InWindow(n, from, to)})
  <2>1. ivs \in Seq(S) /\ Range(ivs) = SampleRuns(samples, from, to)
    <3> HIDE DEF T
    <3>1. ivs \in Seq(S) /\ ExactRuns(samples, from, to)
      BY <1>1, FilterSamplesFacts
    <3> QED BY <3>1 DEF ExactRuns
  <2>2. \A x \in S : x.cond \in Downs
    BY DEF Intervals
  <2> HIDE DEF ivs, S
  <2>3. \A x \in Range(ivs) : x \in S
    BY <2>1, LenProperties, ElementOfSeq DEF Range
  <2>4. \A i \in 1 .. Len(events) : Point(events[i]).cond \notin Downs
    BY DEF ApartInv, Point
  <2> QED BY <2>1, <2>2, <2>3, <2>4
<1> HIDE DEF T, R
<1>4. /\ EventsBetween(events, samples, from, to) \in Seq(Intervals(Downs \cup R, {n \in T : InWindow(n, from, to)}))
      /\ ExactEvents(events, samples, from, to)
  BY <1>1, <1>2, <1>3, EventsFacts
<1> QED BY <1>2, <1>4 DEF WindowTimes, T

\* The intervals that only events make.
Recorded == Intervals(Conditions \ Downs, 1 .. MaxTime)

-----------------------------------------------------------------------------
(* What run-monitor prints *)

\* Of the recorded events exactly those up to the position are printed, each once;
\* a loop that ended had seen the cancellation and had reached its time.
PrintedInv ==
  /\ last \in 0 .. clock
  /\ printer \in {"looping", "done"}
  /\ printed \in Seq({i \in Interval : i.from = i.to})
  /\ \A k \in 1 .. Len(printed) : printed[k].from <= last
  /\ Once(printed, Recorded)
  /\ \A i \in 1 .. Len(events) : Occurs(printed, Point(events[i])) <=> events[i].at <= last
  /\ printer = "done" => ctxDone /\ \A i \in 1 .. Len(events) : events[i].at <= doneAt => events[i].at <= last

PrintInv == SampledInv /\ ApartInv /\ PrintedInv

\* A record of different conditions that no sampler returns.
LEMMA RecordPrint ==
  ASSUME IInv, ApartInv, PrintedInv, NEW conds \in Seq(Conditions), Record(conds),
         \A i \in 1 .. Len(conds) : conds[i] \notin Downs,
         \A i, j \in 1 .. Len(conds) : conds[i] = conds[j] => i = j,
         UNCHANGED <<printing, context>>
  PROVE  ApartInv' /\ PrintedInv'
<1> DEFINE n == Len(events)
<1>1. UNCHANGED <<last, printed, printer, ctxDone, doneAt>>
  BY DEF printing, context
<1>2. RecordType /\ n \in Nat /\ clock \in Nat /\ doneAt \in Nat /\ Len(conds) \in Nat
  BY TimeFacts, LenProperties DEF IInv
<1>3. /\ clock' = clock + 1 /\ Len(events') = n + Len(conds)
      /\ \A i \in 1 .. n : events'[i] = events[i]
      /\ \A i \in 1 .. Len(conds) : events'[n + i] = [at |-> clock + 1, cond |-> conds[i]]
  BY <1>2, RecordFacts
<1>4. \A i \in 1 .. n : events[i].at \in Nat /\ events[i].at <= clock
  BY TimeFacts DEF IInv, OrderInv, InOrder
<1>5. ASSUME NEW i \in 1 .. Len(events')
      PROVE  \/ i \in 1 .. n /\ events'[i] = events[i] /\ events'[i].at <= clock
             \/ /\ \E k \in 1 .. Len(conds) : i = n + k /\ events'[i] = [at |-> clock + 1, cond |-> conds[k]]
                /\ i \notin 1 .. n /\ events'[i].at = clock + 1 /\ events'[i].cond \notin Downs
  <2>1. CASE i \in 1 .. n
    BY <1>3, <1>4, <2>1
  <2>2. CASE i \notin 1 .. n
    <3>1. i - n \in 1 .. Len(conds) /\ i = n + (i - n)
      BY <1>2, <1>3, <2>2
    <3>2. PICK k \in 1 .. Len(conds) : i = n + k
      BY <3>1
    <3>3. events'[i] = [at |-> clock + 1, cond |-> conds[k]]
      BY <1>3, <3>2
    <3>4. events'[i].at = clock + 1 /\ events'[i].cond = conds[k] /\ conds[k] \notin Downs
      BY <3>3
    <3> QED BY <2>2, <3>2, <3>3, <3>4
  <2> QED BY <2>1, <2>2
<1>6. ApartInv'
  <2>1. ASSUME NEW i \in 1 .. Len(events') PROVE events'[i].cond \notin Downs
    BY <1>5 DEF ApartInv
  <2>2. ASSUME NEW i \in 1 .. Len(events'), NEW j \in 1 .. Len(events'), events'[i] = events'[j] PROVE i = j
    <3>1. CASE i \in 1 .. n /\ j \in 1 .. n
      BY <1>3, <2>2, <3>1 DEF ApartInv
    <3>2. CASE i \in 1 .. n /\ j \notin 1 .. n
      <4>1. events'[i].at <= clock /\ events'[j].at = clock + 1
        BY <1>3, <1>4, <1>5, <3>2
      <4> QED BY <1>2, <2>2, <4>1
    <3>3. CASE i \notin 1 .. n /\ j \in 1 .. n
      <4>1. events'[j].at <= clock /\ events'[i].at = clock + 1
        BY <1>3, <1>4, <1>5, <3>3
      <4> QED BY <1>2, <2>2, <4>1
    <3>4. CASE i \notin 1 .. n /\ j \notin 1 .. n
      <4>1. PICK k \in 1 .. Len(conds) : i = n + k /\ events'[i] = [at |-> clock + 1, cond |-> conds[k]]
        BY <1>5, <3>4
      <4>2. PICK l \in 1 .. Len(conds) : j = n + l /\ events'[j] = [at |-> clock + 1, cond |-> conds[l]]
        BY <1>5, <3>4
      <4>3. conds[k] = conds[l]
        BY <2>2, <4>1, <4>2
      <4> QED BY <4>1, <4>2, <4>3
    <3> QED BY <3>1, <3>2, <3>3, <3>4
  <2>3. Downs' = Downs
    BY DEF Downs, Down
  <2> QED BY <2>1, <2>2, <2>3 DEF ApartInv
<1>7. last \in Nat /\ last <= clock
  BY <1>2 DEF PrintedInv
<1>8. ASSUME NEW i \in 1 .. Len(events') PROVE Occurs(printed, Point(events'[i])) <=> events'[i].at <= last
  <2>1. CASE i \in 1 .. n
    BY <1>3, <2>1 DEF PrintedInv
  <2>2. CASE i \notin 1 .. n
    <3>1. events'[i].at = clock + 1
      BY <1>5, <2>2
    <3>2. ~(clock + 1 <= last)
      BY <1>2, <1>7
    <3>3. Point(events'[i]).from = clock + 1
      BY <3>1 DEF Point
    <3>4. ~Occurs(printed, Point(events'[i]))
      BY <3>2, <3>3 DEF PrintedInv, Occurs
    <3> QED BY <3>1, <3>2, <3>4
  <2> QED BY <2>1, <2>2
<1>9. ASSUME printer = "done", NEW i \in 1 .. Len(events'), events'[i].at <= doneAt PROVE events'[i].at <= last
  <2>1. doneAt <= clock
    BY DEF IInv, FinalInv
  <2>2. CASE i \in 1 .. n
    BY <1>3, <1>9, <2>2 DEF PrintedInv
  <2>3. CASE i \notin 1 .. n
    <3>1. events'[i].at = clock + 1
      BY <1>5, <2>3
    <3> QED BY <1>2, <1>9, <2>1, <3>1
  <2> QED BY <2>2, <2>3
<1>10. last' \in 0 .. clock'
  BY <1>1, <1>2, <1>3, <1>7
<1>11. PrintedInv'
  <2>1. Recorded' = Recorded /\ {i \in Interval : i.from = i.to}' = {i \in Interval : i.from = i.to}
    BY DEF Recorded, Downs, Down, Intervals, Interval, Conditions, Others, Failing, Responding
  <2>2. printed' \in Seq({i \in Interval : i.from = i.to})' /\ Once(printed', Recorded')
    BY <1>1, <2>1 DEF PrintedInv
  <2> QED BY <1>1, <1>8, <1>9, <1>10, <2>2 DEF PrintedInv, Point
<1> QED BY <1>6, <1>11

\* The position only moves forward, to the beginning of the last interval, and
\* everything that was returned begins after the old one and up to the new one.
LEMMA PositionFacts ==
  ASSUME IInv, SampledInv, ApartInv, last \in 0 .. clock, NEW all,
         all = EventsBetween(events, samples, last, 0),
         last' = IF all = << >> THEN last ELSE all[Len(all)].from
  PROVE  /\ last' \in 0 .. clock /\ last <= last'
         /\ \A x : Occurs(all, x) => last < x.from /\ x.from <= last'
<1> DEFINE T == WindowTimes(last, 0)
           S == Intervals(Conditions, T)
<1>1. clock \in Nat /\ last \in Nat
  BY TimeFacts DEF IInv
<1>2. all \in Seq(S) /\ ByBeginning(all)
  BY <1>1, MonitorEvents DEF ExactEvents
<1>3. \A x \in S : x.from \in 1 .. clock /\ last < x.from
  BY <1>1 DEF Intervals, WindowTimes, InWindow
<1> HIDE DEF S
<1>4. Len(all) \in Nat /\ \A k \in 1 .. Len(all) : all[k] \in S
  BY <1>2, LenProperties, ElementOfSeq
<1>5. CASE all = << >>
  BY <1>1, <1>5 DEF Occurs
<1>6. CASE all # << >>
  <2>1. Len(all) \in 1 .. Len(all)
    BY <1>2, <1>4, <1>6, EmptySeq
  <2>2. last' = all[Len(all)].from /\ last' \in 1 .. clock /\ last < last'
    BY <1>3, <1>4, <1>6, <2>1
  <2>3. ASSUME NEW k \in 1 .. Len(all) PROVE all[k].from <= last'
    <3>1. CASE k = Len(all)
      BY <1>1, <2>2, <3>1
    <3>2. CASE k # Len(all)
      <4>1. k < Len(all)
        BY <1>4, <3>2
      <4> QED BY <1>2, <2>1, <2>2, <4>1 DEF ByBeginning
    <3> QED BY <3>1, <3>2
  <2>4. \A x : Occurs(all, x) => last < x.from /\ x.from <= last'
    BY <1>3, <1>4, <2>3 DEF Occurs
  <2> QED BY <1>1, <2>2, <2>4
<1> QED BY <1>5, <1>6

\* A turn of the loop prints what was recorded since the last one.
LEMMA PrintStep ==
  ASSUME IInv, PrintInv, PrintPass
  PROVE  PrintInv'
<1> USE DEF IInv, PrintInv
<1> DEFINE all == EventsBetween(events, samples, last, 0)
           P == {i \in Interval : i.from = i.to}
           S == Intervals(Conditions, WindowTimes(last, 0))
           points == {i \in ToSet(all) : i.from = i.to}
           new == Filter(all, points)
<1>1. /\ printed' = printed \o new
      /\ last' = IF all = << >> THEN last ELSE all[Len(all)].from
      /\ printer' \in {"looping", "done"} /\ (printer' = "done" => ctxDone)
      /\ UNCHANGED <<clock, events, samples, sampling, collected, ctxDone, doneAt>>
  BY DEF PrintPass, PrintNew, log, pass, context
<1>2. clock \in Nat /\ last \in Nat /\ last \in 0 .. clock /\ clock \in 0 .. MaxTime /\ MaxTime \in Nat
  BY TimeFacts, NumbersAssumption DEF PrintedInv, RecordType
<1>3. all \in Seq(S) /\ ExactEvents(events, samples, last, 0)
  BY <1>2, MonitorEvents
<1>4. /\ all \in Seq(S) /\ Once(all, Recorded)
      /\ \A i \in 1 .. Len(events) : InWindow(events[i].at, last, 0) => Occurs(all, Point(events[i]))
  BY <1>3 DEF ExactEvents, IsPoint
<1> HIDE DEF all
<1>5. /\ last' \in 0 .. clock /\ last <= last'
      /\ \A x : Occurs(all, x) => last < x.from /\ x.from <= last'
  BY <1>1, <1>2, PositionFacts DEF all
<1>6. S \subseteq Interval
  BY <1>2 DEF Intervals, WindowTimes, Interval
<1>7. S \cap points \subseteq P
  BY <1>6
<1>8. \A x : Occurs(all, x) => x \in ToSet(all)
  <2>1. DOMAIN all = 1 .. Len(all)
    BY <1>4, LenProperties
  <2> QED BY <2>1 DEF Occurs, ToSet
<1>9. \A x : Occurs(all, x) /\ x.from = x.to => x \in points
  BY <1>8
<1> HIDE DEF S, points, P
<1>10. new \in Seq(S \cap points)
  BY <1>4, FilterType
<1>11. (\A x : Occurs(new, x) <=> Occurs(all, x) /\ x \in points) /\ Once(new, Recorded)
  BY <1>4, FilterContents
<1> HIDE DEF new
<1>12. new \in Seq(P) /\ printed \in Seq(P)
  BY <1>7, <1>10, SeqMonotonic DEF PrintedInv, P
<1>13. \A x : Occurs(printed, x) => x.from <= last
  BY DEF PrintedInv, Occurs
<1>14. /\ printed' \in Seq(P)
       /\ \A x : Occurs(printed', x) <=> Occurs(printed, x) \/ Occurs(new, x)
       /\ Once(printed', Recorded)
  <2>1. printed' \in Seq(P)
    BY <1>1, <1>12, ConcatProperties
  <2>2. /\ \A x : Occurs(printed', x) <=> Occurs(printed, x) \/ Occurs(new, x)
        /\ Once(printed, Recorded) /\ Once(new, Recorded) /\ (\A x \in Recorded : ~(Occurs(printed, x) /\ Occurs(new, x)))
             => Once(printed', Recorded)
    BY <1>1, <1>12, ConcatOccurs
  <2>3. ASSUME NEW x \in Recorded, Occurs(printed, x), Occurs(new, x) PROVE FALSE
    <3>1. x.from <= last /\ last < x.from
      BY <1>5, <1>11, <1>13, <2>3
    <3>2. x.from \in Nat
      BY <1>2 DEF Recorded, Intervals
    <3> QED BY <1>2, <3>1, <3>2
  <2> QED BY <1>11, <2>1, <2>2, <2>3 DEF PrintedInv
<1>15. ASSUME NEW k \in 1 .. Len(printed') PROVE printed'[k].from <= last'
  <2>1. Occurs(printed', printed'[k])
    BY DEF Occurs
  <2>2. printed'[k] \in P
    BY <1>14, ElementOfSeq
  <2>3. printed'[k].from \in Nat
    BY <1>2, <2>2 DEF P, Interval
  <2>4. CASE Occurs(printed, printed'[k])
    <3>1. printed'[k].from <= last
      BY <1>13, <2>4
    <3>2. last' \in Nat
      BY <1>2, <1>5
    <3> QED BY <1>2, <1>5, <2>3, <3>1, <3>2
  <2>5. CASE Occurs(new, printed'[k])
    BY <1>5, <1>11, <2>5
  <2> QED BY <1>14, <2>1, <2>4, <2>5
<1>16. ASSUME NEW i \in 1 .. Len(events) PROVE Occurs(printed', Point(events[i])) /\ events[i].at <= last'
  <2>1. events[i].at \in Nat /\ last' \in Nat
    BY <1>2, <1>5, TimeFacts
  <2>2. Point(events[i]).from = events[i].at /\ Point(events[i]).to = events[i].at
    BY DEF Point
  <2>3. CASE events[i].at <= last
    <3>1. Occurs(printed, Point(events[i]))
      BY <2>3 DEF PrintedInv
    <3> QED BY <1>2, <1>5, <1>14, <2>1, <2>3, <3>1
  <2>4. CASE ~(events[i].at <= last)
    <3>1. InWindow(events[i].at, last, 0)
      BY <1>2, <2>1, <2>4 DEF InWindow
    <3>2. Occurs(all, Point(events[i]))
      BY <1>4, <3>1
    <3>3. Occurs(new, Point(events[i]))
      BY <1>9, <1>11, <2>2, <3>2
    <3> QED BY <1>5, <1>14, <2>2, <3>2, <3>3
  <2> QED BY <2>3, <2>4
<1>17. SampledInv' /\ ApartInv'
  BY <1>1 DEF SampledInv, ApartInv, Downs, Down
<1>18. PrintedInv'
  <2>1. Recorded' = Recorded /\ {i \in Interval : i.from = i.to}' = P
    BY DEF P, Recorded, Downs, Down, Intervals, Interval, Conditions, Others, Failing, Responding
  <2>2. printed' \in Seq({i \in Interval : i.from = i.to})' /\ Once(printed', Recorded')
    BY <1>14, <2>1
  <2> QED BY <1>1, <1>5, <1>15, <1>16, <2>2 DEF PrintedInv, Point
<1> QED BY <1>17, <1>18

\* What is printed stays what it is as long as nothing is recorded or printed.
LEMMA PrintKept ==
  ASSUME PrintInv, UNCHANGED <<events, last, printed, printer>>, clock \in Nat, clock' \in Nat, clock <= clock',
         \/ UNCHANGED <<ctxDone, doneAt>>
         \/ ~ctxDone /\ ctxDone' = TRUE
  PROVE  ApartInv' /\ PrintedInv'
<1>1. ApartInv'
  BY DEF PrintInv, ApartInv, Downs, Down
<1>2. Recorded' = Recorded /\ {i \in Interval : i.from = i.to}' = {i \in Interval : i.from = i.to}
  BY DEF Recorded, Downs, Down, Intervals, Interval, Conditions, Others, Failing, Responding
<1>3. printed' \in Seq({i \in Interval : i.from = i.to})' /\ Once(printed', Recorded')
  BY <1>2 DEF PrintInv, PrintedInv
<1>4. last' \in 0 .. clock'
  BY DEF PrintInv, PrintedInv
<1>5. /\ printer' \in {"looping", "done"}
      /\ \A k \in 1 .. Len(printed') : printed'[k].from <= last'
      /\ \A i \in 1 .. Len(events') : Occurs(printed', Point(events'[i])) <=> events'[i].at <= last'
  BY DEF PrintInv, PrintedInv
<1>6. printer' = "done" => ctxDone' /\ \A i \in 1 .. Len(events') : events'[i].at <= doneAt' => events'[i].at <= last'
  BY DEF PrintInv, PrintedInv
<1> QED BY <1>1, <1>3, <1>4, <1>5, <1>6 DEF PrintedInv, Point

\* A sampler adds its own condition to the pass, and the end of the pass keeps them
\* with a time of their own.
LEMMA SampledStep ==
  ASSUME IInv, SampledInv, SampleRead \/ SampleAppend
  PROVE  SampledInv'
<1>1. Downs' = Downs
  BY DEF Downs, Down
<1>2. /\ Len(collected) \in Nat /\ sampling \in Nat /\ clock \in Nat /\ MaxTime \in Nat
      /\ Len(samples) \in Nat
  BY LenProperties, TimeFacts, NumbersAssumption DEF SampledInv, IInv, RecordType
<1>3. CASE SampleRead
  <2> DEFINE next == sampling + 1
             found == ConditionWhenFailing(next)
  <2>1. collected' = collected \o found /\ samples' = samples /\ sampling' = next /\ next \in Pollers
    BY <1>3, NumbersAssumption DEF SampleRead, log, Pollers, IInv, RecordType
  <2>2. ProperSamples(samples, Downs, 1 .. MaxTime)'
    BY <1>1, <2>1 DEF SampledInv, ProperSamples
  <2>3. \A q \in 1 .. sampling : Down(q) # Down(next) /\ q \in 1 .. next
    BY <1>2 DEF Down
  <2>4. next \in 1 .. next
    BY <1>2
  <2>5. CASE found = << >>
    <3>1. collected' = collected
      BY <2>1, <2>5, ConcatEmptySeq DEF SampledInv
    <3> QED BY <1>1, <2>1, <2>2, <2>3, <3>1 DEF SampledInv, Down
  <2>6. CASE found = <<Down(next)>>
    <3>1. Down(next) \in Downs
      BY <2>1 DEF Downs
    <3>2. collected' = Append(collected, Down(next))
      <4>1. collected \in Seq(Downs)
        BY DEF SampledInv
      <4> QED BY <2>1, <2>6, <3>1, <4>1, AppendIsConcat
    <3>3. /\ collected' \in Seq(Downs) /\ Len(collected') = Len(collected) + 1
          /\ collected'[Len(collected) + 1] = Down(next)
          /\ \A k \in 1 .. Len(collected) : collected'[k] = collected[k]
      BY <3>1, <3>2, AppendProperties DEF SampledInv
    <3>4. ASSUME NEW k \in 1 .. Len(collected')
          PROVE  \/ k \in 1 .. Len(collected) /\ collected'[k] = collected[k] /\ collected'[k] # Down(next)
                 \/ k = Len(collected) + 1 /\ collected'[k] = Down(next)
      <4>1. CASE k \in 1 .. Len(collected)
        BY <2>3, <3>3, <4>1 DEF SampledInv
      <4>2. CASE k \notin 1 .. Len(collected)
        <5>1. k = Len(collected) + 1
          BY <1>2, <3>3, <4>2
        <5> QED BY <3>3, <5>1
      <4> QED BY <4>1, <4>2
    <3>5. \A k \in 1 .. Len(collected') : \E q \in 1 .. next : collected'[k] = Down(q)
      BY <2>3, <2>4, <3>4 DEF SampledInv
    <3>6. ASSUME NEW k \in 1 .. Len(collected'), NEW l \in 1 .. Len(collected'), collected'[k] = collected'[l]
          PROVE  k = l
      BY <3>4, <3>6 DEF SampledInv
    <3> QED BY <1>1, <2>1, <2>2, <3>3, <3>5, <3>6 DEF SampledInv, Down
  <2>7. found = << >> \/ found = <<Down(next)>>
    BY DEF ConditionWhenFailing
  <2> QED BY <2>5, <2>6, <2>7
<1>4. CASE SampleAppend
  <2> DEFINE new == [at |-> clock + 1, conds |-> collected]
  <2>1. /\ collected' = << >> /\ clock < MaxTime
        /\ samples' = samples \/ samples' = Append(samples, new)
    BY <1>4 DEF SampleAppend
  <2>2. new \in [at : 1 .. MaxTime, conds : Seq(Downs)] /\ new.at = clock + 1 /\ new.conds = collected
    BY <1>2, <2>1 DEF SampledInv
  <2>3. /\ ProperSamples(samples, Downs, 1 .. MaxTime)
        /\ \A k, l \in 1 .. Len(new.conds) : new.conds[k] = new.conds[l] => k = l
    BY <2>2 DEF SampledInv
  <2>4. \A i \in 1 .. Len(samples) : samples[i].at < new.at
    <3>1. \A i \in 1 .. Len(samples) : samples[i].at \in Nat /\ samples[i].at <= clock
      BY TimeFacts DEF IInv, OrderInv, InOrder
    <3> QED BY <1>2, <2>2, <3>1
  <2> HIDE DEF new
  <2>5. ProperSamples(Append(samples, new), Downs, 1 .. MaxTime)
    BY <2>2, <2>3, <2>4, SampleAdded
  <2>6. ProperSamples(samples', Downs, 1 .. MaxTime)
    BY <2>1, <2>3, <2>5
  <2> QED BY <1>1, <2>1, <2>6, EmptySeq DEF SampledInv
<1> QED BY <1>3, <1>4

LEMMA InitPrint ==
  ASSUME Init
  PROVE  PrintInv
<1>1. SampledInv /\ ApartInv
  <2>1. /\ collected = << >> /\ collected \in Seq(Downs) /\ Len(collected) = 0 /\ Len(events) = 0
        /\ samples \in Seq([at : 1 .. MaxTime, conds : Seq(Downs)]) /\ Len(samples) = 0
    BY EmptySeq DEF Init
  <2>2. 1 .. MaxTime \subseteq Nat
    BY NumbersAssumption
  <2>3. ProperSamples(samples, Downs, 1 .. MaxTime)
    BY <2>1, <2>2 DEF ProperSamples
  <2> QED BY <2>1, <2>3 DEF SampledInv, ApartInv
<1>2. PrintedInv
  <2>1. printed \in Seq({i \in Interval : i.from = i.to}) /\ Len(printed) = 0 /\ Len(events) = 0
    BY EmptySeq DEF Init
  <2>2. clock = 0 /\ last = 0 /\ printer = "looping"
    BY DEF Init
  <2> QED BY <2>1, <2>2 DEF PrintedInv, Once
<1> QED BY <1>1, <1>2 DEF PrintInv

\* Every step keeps what is said of the printing.
LEMMA PrintInvStep ==
  ASSUME IInv, IInv', PrintInv, [Next]_vars
  PROVE  PrintInv'
<1>1. clock \in Nat /\ MaxTime \in Nat
  BY TimeFacts, NumbersAssumption DEF IInv
<1>2. CASE RecordOthers
  <2>1. PICK conds \in {<<1>>, <<1, 2>>} : Record(conds)
    BY <1>2 DEF RecordOthers
  <2>2. UNCHANGED <<samples, sampling, collected, printing, context>>
    BY <1>2 DEF RecordOthers, pass
  <2>3. /\ conds \in Seq(Conditions)
        /\ \A i \in 1 .. Len(conds) : conds[i] \in {1, 2}
        /\ \A i, j \in 1 .. Len(conds) : conds[i] = conds[j] => i = j
    <3>1. 1 \in Conditions /\ 2 \in Conditions
      BY ConditionFacts
    <3>2. CASE conds = <<1>>
      BY <3>1, <3>2
    <3>3. CASE conds = <<1, 2>>
      BY <3>1, <3>3
    <3> QED BY <3>2, <3>3
  <2>4. \A i \in 1 .. Len(conds) : conds[i] \notin Downs
    BY <2>3, SampledConditions
  <2>5. ApartInv' /\ PrintedInv'
    BY <2>1, <2>2, <2>3, <2>4, RecordPrint DEF PrintInv
  <2> QED BY <2>2, <2>5 DEF PrintInv, SampledInv, Downs, Down
<1>3. ASSUME NEW p \in Pollers, Poll(p) PROVE PrintInv'
  <2>1. UNCHANGED <<samples, sampling, collected, printing, context>>
    BY <1>3 DEF Poll, pass
  <2>2. \/ UNCHANGED <<clock, events>>
        \/ \E c \in {Failing(p), Responding(p)} : Record(<<c>>)
    BY <1>3, PollCases DEF IInv
  <2>3. CASE UNCHANGED <<clock, events>>
    <3>1. ApartInv' /\ PrintedInv'
      BY <1>1, <2>1, <2>3, PrintKept DEF printing, context
    <3> QED BY <2>1, <3>1 DEF PrintInv, SampledInv, Downs, Down
  <2>4. ASSUME NEW c \in {Failing(p), Responding(p)}, Record(<<c>>) PROVE PrintInv'
    <3> DEFINE conds == <<c>>
    <3>1. conds \in Seq(Conditions) /\ \A i \in 1 .. Len(conds) : i = 1 /\ conds[i] = c
      BY ConditionFacts
    <3>2. c \notin Downs /\ Record(conds)
      BY <2>4, SampledConditions
    <3> HIDE DEF conds
    <3>3. ApartInv' /\ PrintedInv'
      BY <2>1, <3>1, <3>2, RecordPrint DEF PrintInv
    <3> QED BY <2>1, <3>3 DEF PrintInv, SampledInv, Downs, Down
  <2> QED BY <2>2, <2>3, <2>4
<1>4. ASSUME NEW p \in Pollers, PollSet(p) \/ PollStop(p) PROVE PrintInv'
  <2>1. UNCHANGED <<clock, events, samples, sampling, collected, last, printed, printer, ctxDone, doneAt>>
    BY <1>4 DEF PollSet, PollStop, log, pass, context, printing
  <2>2. ApartInv' /\ PrintedInv'
    BY <1>1, <2>1, PrintKept
  <2> QED BY <2>1, <2>2 DEF PrintInv, SampledInv, Downs, Down
<1>5. CASE SampleRead \/ SampleAppend
  <2>1. UNCHANGED <<events, last, printed, printer, ctxDone, doneAt>> /\ (clock' = clock \/ clock' = clock + 1)
    BY <1>5 DEF SampleRead, SampleAppend, log, context, printing
  <2>2. clock' \in Nat /\ clock <= clock'
    BY <1>1, <2>1
  <2>3. ApartInv' /\ PrintedInv'
    BY <1>1, <2>1, <2>2, PrintKept
  <2>4. SampledInv'
    BY <1>5, SampledStep DEF PrintInv
  <2> QED BY <2>3, <2>4 DEF PrintInv
<1>6. CASE PrintPass
  BY <1>6, PrintStep
<1>7. CASE Cancel \/ UNCHANGED vars
  <2>1. /\ UNCHANGED <<clock, events, samples, sampling, collected, last, printed, printer>>
        /\ \/ UNCHANGED <<ctxDone, doneAt>>
           \/ ~ctxDone /\ ctxDone' = TRUE
    BY <1>7 DEF Cancel, vars, log, pass, context, printing
  <2>2. ApartInv' /\ PrintedInv'
    <3>1. clock' \in Nat /\ clock <= clock'
      BY <1>1, <2>1
    <3>2. \/ UNCHANGED <<ctxDone, doneAt>>
          \/ ~ctxDone /\ ctxDone' = TRUE
      BY <2>1
    <3> QED BY <1>1, <2>1, <3>1, <3>2, PrintKept
  <2> QED BY <2>1, <2>2 DEF PrintInv, SampledInv, Downs, Down
<1> QED BY <1>2, <1>3, <1>4, <1>5, <1>6, <1>7 DEF Next

\* The position of run-monitor divides the events into those it printed, each once,
\* and those it did not, whatever is recorded, sampled or cancelled between its
\* turns.
THEOREM PrintInvariance == Spec => [](IInv /\ PrintInv)
<1>1. IInv /\ IInv' /\ PrintInv /\ [Next]_vars => PrintInv'
  BY PrintInvStep
<1>2. Init => PrintInv
  BY InitPrint
<1> QED BY <1>1, <1>2, Invariance, PTL DEF Spec

\* The variables have their types.
THEOREM MonitorTypes == Spec => []TypeOK
<1>1. ASSUME IInv, PrintInv PROVE TypeOK
  <2>1. last \in 0 .. MaxTime
    BY <1>1, NumbersAssumption DEF IInv, RecordType, PrintInv, PrintedInv
  <2>2. printed \in Seq(Interval)
    <3>1. {i \in Interval : i.from = i.to} \subseteq Interval
      OBVIOUS
    <3> QED BY <1>1, <3>1, SeqMonotonic DEF PrintInv, PrintedInv
  <2> QED BY <1>1, <2>1, <2>2 DEF TypeOK, IInv, RecordType, PrintInv, PrintedInv
<1> QED BY <1>1, PrintInvariance, PTL

\* run-monitor prints every event up to its position once and no other event; when
\* its loop has ended everything recorded before the interrupt was printed.
THEOREM EventsArePrintedOnce == Spec => []PrintedOnce
<1>1. ASSUME IInv, PrintInv PROVE PrintedOnce
  <2>1. ASSUME NEW i \in 1 .. Len(events) PROVE TimesPrinted(i) = IF events[i].at <= last THEN 1 ELSE 0
    <3> DEFINE e == events[i]
               K == {k \in 1 .. Len(printed) : printed[k].cond = e.cond /\ printed[k].from = e.at}
    <3>1. TimesPrinted(i) = Cardinality(K)
      BY DEF TimesPrinted
    <3>2. ASSUME NEW k \in K PROVE printed[k] = Point(e) /\ k \in 1 .. Len(printed)
      <4>1. printed[k] \in {j \in Interval : j.from = j.to}
        BY <1>1, ElementOfSeq DEF PrintInv, PrintedInv
      <4>2. printed[k] \in Interval /\ printed[k].from = printed[k].to
        BY <4>1
      <4> QED BY <4>2 DEF Interval, Point
    <3>3. e.cond \in Conditions \ Downs /\ e.at \in 1 .. MaxTime
      <4>1. e \in Event
        BY <1>1, TimeFacts DEF IInv
      <4> QED BY <1>1, <4>1 DEF Event, PrintInv, ApartInv
    <3>4. Point(e) \in Recorded
      BY <3>3 DEF Point, Recorded, Intervals
    <3>5. Occurs(printed, Point(e)) <=> e.at <= last
      BY <1>1 DEF PrintInv, PrintedInv
    <3>6. CASE e.at <= last
      <4>1. PICK k \in 1 .. Len(printed) : printed[k] = Point(e)
        BY <3>5, <3>6 DEF Occurs
      <4>2. k \in K
        BY <4>1 DEF Point
      <4>3. \A l \in K : l = k
        BY <1>1, <3>2, <3>4, <4>1 DEF PrintInv, PrintedInv, Once
      <4> HIDE DEF K
      <4>4. K = {k}
        BY <4>2, <4>3
      <4>5. Cardinality(K) = 1
        BY <4>4, FS_Singleton
      <4> QED BY <3>1, <3>6, <4>5
    <3>7. CASE ~(e.at <= last)
      <4>1. K = {}
        BY <3>2, <3>5, <3>7 DEF Occurs
      <4> HIDE DEF K
      <4>2. Cardinality(K) = 0
        BY <4>1, FS_EmptySet
      <4> QED BY <3>1, <3>7, <4>2
    <3> QED BY <3>6, <3>7
  <2>2. ASSUME NEW i \in 1 .. Len(events), printer = "done", events[i].at <= doneAt PROVE TimesPrinted(i) = 1
    <3>1. events[i].at <= last
      BY <1>1, <2>2 DEF PrintInv, PrintedInv
    <3> QED BY <2>1, <3>1
  <2> QED BY <2>1, <2>2 DEF PrintedOnce
<1> QED BY <1>1, PrintInvariance, PTL

\* Whatever was recorded and sampled in whatever order, Monitor.Events returns for
\* every window its events and the runs of its samples, nothing twice, in the order
\* of their beginning.
THEOREM EventsAreExact == Spec => [](\A from, to \in Nat : ExactEvents(events, samples, from, to))
<1>1. ASSUME IInv, PrintInv PROVE \A from, to \in Nat : ExactEvents(events, samples, from, to)
  BY <1>1, MonitorEvents DEF PrintInv
<1> QED BY <1>1, PrintInvariance, PTL

\* Whatever the pollers and the sampling goroutine do, the conditions that a query
\* of the monitor returns are the maximal runs of its samples in the window, each
\* once and in the order of their beginning.
THEOREM SampledIntervalsAreRuns == Spec => [](\A from, to \in Nat : ExactRuns(samples, from, to))
<1>1. ASSUME IInv, PrintInv PROVE \A from, to \in Nat : ExactRuns(samples, from, to)
  <2>1. ProperSamples(samples, Downs, 1 .. MaxTime)
    BY <1>1 DEF PrintInv, SampledInv
  <2> QED BY <2>1, FilterSamplesFacts
<1> QED BY <1>1, PrintInvariance, PTL
=============================================================================
