--------------------------- MODULE WatchersProofs ---------------------------
(***************************************************************************)
(* Theorems about the goroutine that follows the events of the cluster and *)
(* about the informers' stores, for any objects, changes, compactions, ends*)
(* and errors of streams; and then about what the informers' handlers      *)
(* record: the log tells which objects are there and in which state, its   *)
(* errors happened, and every outage of the API is in it once.             *)
(***************************************************************************)
EXTENDS Watchers, SequenceTheorems, DataFacts, TLAPS

-----------------------------------------------------------------------------
(* The inductive invariant *)

Snapshot == [Names -> Objects \cup {NoObj}]

\* The server has a first version, and nothing it does is undone.
ServerType == /\ kind \in Kinds
              /\ states \in Seq(Snapshot) /\ Len(states) >= 1
              /\ oldest \in 0 .. head

\* What the goroutine records.
EventRecord == [level : {"Info"}, locator : {"kube-apiserver", "event"} \X Nat,
                message : {<<"event">>, <<"error while watching">>}]

\* A list jumps from one version to another.
Jump == [from : Nat, to : Nat]

\* Its variables; it has no queue of deltas and no handlers.
EventType == /\ fifo = [n \in Names |-> << >>] /\ notices = [n \in Names |-> << >>]
             /\ pc \in {"check", "watch", "stream", "exited"}
             /\ rv \in 0 .. head /\ cursor \in 0 .. head /\ reached \in 0 .. head
             /\ log \in Seq(EventRecord) /\ lists \in Seq(Jump)

\* The versions it has recorded.
Recorded == {log[i].locator[2] : i \in {k \in 1 .. Len(log) : log[k].message = <<"event">>}}

\* A version that a list jumped over, made after the one before it expired.
JumpedBy(jumps, expired, v) ==
  \E k \in 2 .. Len(jumps) : v \in jumps[k].from + 1 .. jumps[k].to /\ jumps[k - 1].to < expired

\* All relevant changes since the first list are recorded or were jumped over.
Covered == lists # << >> =>
             \A v \in lists[1].to + 1 .. reached : Relevant(v) => v \in Recorded \/ JumpedBy(lists, oldest, v)

\* It watches from the version of its last list, and lists again only when that is
\* expired; it has recorded only relevant changes.
EventInv == /\ rv <= cursor /\ cursor <= reached
            /\ pc \in {"watch", "stream"} => lists # << >>
            /\ lists # << >> => lists[Len(lists)].to = rv /\ (pc = "check" => rv < oldest)
            /\ Covered
            /\ \A v \in Recorded : v \in 1 .. head /\ Relevant(v)

\* Every version of the server changed one object.
OneChange(s, t) == \E n \in Names : s[n] # t[n] /\ \A m \in Names \ {n} : s[m] = t[m]
ChangeInv == \A v \in 1 .. head : OneChange(At(v), At(v - 1))

Delta == [type : {"set", "delete", "tomb"}, obj : Objects \cup {NoObj}]

\* The queue and the store of an informer, and its position.
CacheType == /\ fifo \in [Names -> Seq(Delta)]
             /\ store \in [Names -> Objects \cup {NoObj}]
             /\ rv \in 0 .. head /\ cursor \in 0 .. head

\* What the store will hold of an object when its queued deltas are handled.
Outcome(d) == IF d.type = "set" THEN d.obj ELSE NoObj
Target(n) == IF fifo[n] = << >> THEN store[n] ELSE Outcome(Last(fifo[n]))

\* After a list, store and queue together hold the version the reflector has seen,
\* but for what the list got wrong; later ones that its stream has reached did not
\* change what is selected.
TrackInv == Informer /\ pc \in {"watch", "stream"} =>
              /\ rv <= cursor /\ \A n \in Selected : At(cursor)[n] = At(rv)[n]
              /\ \A n \in Selected \ blind : Target(n) = At(rv)[n]

IInv == /\ ServerType /\ ChangeInv /\ CacheType /\ TrackInv
        /\ kind = "event" => EventType /\ EventInv

-----------------------------------------------------------------------------
(* The server *)

\* A change of the server appends a version with one object changed.
LEMMA ServerChangeStep ==
  ASSUME ServerType, ServerChange
  PROVE  \E s \in Snapshot : states' = Append(states, s) /\ OneChange(s, At(head))
<1>1. head \in Nat /\ head < MaxVersion /\ MaxVersion \in Nat /\ At(head) \in Snapshot
  <2>1. Len(states) \in Nat /\ Len(states) >= 1 /\ states \in Seq(Snapshot)
    BY LenProperties DEF ServerType
  <2>2. head + 1 \in 1 .. Len(states) /\ head \in Nat
    BY <2>1 DEF head
  <2> QED BY <2>1, <2>2, ElementOfSeq, BoundsAssumption DEF At, ServerChange
<1> DEFINE Becomes(n) == IF At(head)[n] = NoObj THEN [uid : {head + 2}, bad : BOOLEAN]
                       ELSE {[At(head)[n] EXCEPT !.bad = ~At(head)[n].bad], NoObj}
<1>2. PICK n \in Names : \E new \in Becomes(n) : states' = Append(states, [At(head) EXCEPT ![n] = new])
  BY DEF ServerChange
<1>3. PICK new \in Becomes(n) : states' = Append(states, [At(head) EXCEPT ![n] = new])
  BY <1>2
<1>4. At(head)[n] \in Objects \cup {NoObj}
  BY <1>1 DEF Snapshot
<1>5. new \in Objects \cup {NoObj} /\ new # At(head)[n]
  <2>1. CASE At(head)[n] = NoObj
    BY <1>1, <1>3, <2>1 DEF Objects, NoObj
  <2>2. CASE At(head)[n] # NoObj
    BY <1>3, <1>4, <2>2 DEF Objects
  <2> QED BY <2>1, <2>2
<1> DEFINE s == [At(head) EXCEPT ![n] = new]
<1>6. s \in Snapshot
  BY <1>1, <1>5 DEF Snapshot
<1>7. s[n] = new /\ \A m \in Names \ {n} : s[m] = At(head)[m]
  BY <1>1 DEF Snapshot
<1>8. OneChange(s, At(head))
  BY <1>5, <1>7 DEF OneChange
<1> QED BY <1>3, <1>6, <1>8

\* No step takes a version of the server back.
LEMMA ServerStep ==
  ASSUME ServerType, ChangeInv, [Next]_vars
  PROVE  /\ ServerType' /\ ChangeInv' /\ kind' = kind /\ Names' = Names /\ Snapshot' = Snapshot
         /\ head \in Nat /\ head' \in Nat /\ head <= head' /\ oldest <= oldest'
         /\ \A v \in 0 .. head : At(v)' = At(v)
<1>1. kind' = kind
  BY DEF Next, ServerChange, Compact, Stop, ListFails, List, ListVersion, WatchRefused, WatchExpired,
         Watch, StreamEnds, StreamFails, EventError, StreamEvent, StreamObject, Resync, Pop, Notify, server, vars
<1>2. Names' = Names
  BY <1>1 DEF Names
<1>3. Snapshot' = Snapshot
  BY <1>2 DEF Snapshot, Objects, NoObj
<1>4. Len(states) \in Nat /\ Len(states) >= 1 /\ states \in Seq(Snapshot) /\ head \in Nat
  BY LenProperties DEF ServerType, head
<1>5. \/ UNCHANGED <<states, oldest>>
      \/ ServerChange /\ UNCHANGED oldest
      \/ UNCHANGED states /\ oldest' \in oldest + 1 .. head
  BY DEF Next, ServerChange, Compact, Stop, ListFails, List, ListVersion, WatchRefused, WatchExpired,
         Watch, StreamEnds, StreamFails, EventError, StreamEvent, StreamObject, Resync, Pop, Notify, server, vars
<1>0. oldest <= oldest'
  BY <1>4, <1>5 DEF ServerType
<1>6. CASE UNCHANGED states
  <2>1. head' = head /\ \A v \in 0 .. head : At(v)' = At(v)
    BY <1>6 DEF head, At
  <2>2. oldest' \in 0 .. head'
    <3>1. oldest \in 0 .. head
      BY DEF ServerType
    <3>2. CASE oldest' = oldest
      BY <2>1, <3>1, <3>2
    <3>3. CASE oldest' \in oldest + 1 .. head
      BY <1>4, <2>1, <3>1, <3>3
    <3> QED BY <1>5, <3>2, <3>3 DEF ServerChange
  <2>3. states' \in Seq(Snapshot') /\ Len(states') >= 1
    BY <1>3, <1>4, <1>6
  <2>4. ServerType'
    BY <1>1, <2>2, <2>3 DEF ServerType
  <2>5. ChangeInv'
    BY <1>2, <1>6, <2>1 DEF ChangeInv, OneChange, At
  <2> QED BY <1>0, <1>1, <1>2, <1>3, <1>4, <2>1, <2>4, <2>5
<1>7. CASE ServerChange
  <2>1. PICK s \in Snapshot : states' = Append(states, s) /\ OneChange(s, At(head))
    BY <1>7, ServerChangeStep
  <2>2. /\ states' \in Seq(Snapshot) /\ Len(states') = Len(states) + 1
        /\ states'[Len(states) + 1] = s
        /\ \A i \in 1 .. Len(states) : states'[i] = states[i]
    BY <1>4, <2>1, AppendProperties
  <2>3. head' = head + 1
    BY <1>4, <2>2 DEF head
  <2>4. \A v \in 0 .. head : At(v)' = At(v)
    <3>1. \A v \in 0 .. head : v + 1 \in 1 .. Len(states)
      BY <1>4 DEF head
    <3> QED BY <2>2, <3>1 DEF At
  <2>5. oldest' \in 0 .. head'
    BY <1>4, <1>7, <2>3 DEF ServerChange, ServerType
  <2>6. ServerType'
    BY <1>1, <1>3, <1>4, <2>2, <2>5 DEF ServerType
  <2>7. ASSUME NEW v \in 1 .. head' PROVE OneChange(At(v)', At(v - 1)')
    <3>1. CASE v \in 1 .. head
      <4>1. At(v)' = At(v) /\ At(v - 1)' = At(v - 1)
        BY <1>4, <2>4, <3>1
      <4> QED BY <3>1, <4>1 DEF ChangeInv
    <3>2. CASE v = head + 1
      <4>1. v + 1 = Len(states) + 1 /\ v - 1 = head
        BY <1>4, <3>2 DEF head
      <4>2. At(v)' = s
        BY <2>2, <4>1 DEF At
      <4>3. At(v - 1)' = At(head)
        BY <1>4, <2>4, <4>1
      <4> QED BY <2>1, <4>2, <4>3
    <3> QED BY <1>4, <2>3, <3>1, <3>2
  <2>8. ChangeInv'
    BY <1>2, <2>7 DEF ChangeInv, OneChange
  <2> QED BY <1>0, <1>1, <1>2, <1>3, <1>4, <2>3, <2>4, <2>6, <2>8
<1> QED BY <1>5, <1>6, <1>7

\* The first name at which two versions differ, as Changed takes it.
Difference(names, s, t) == CHOOSE n \in names : s[n] # t[n]

\* What a version changed, and whether that is relevant, is settled once it exists.
LEMMA RelevantKept ==
  ASSUME ServerType, ChangeInv, [Next]_vars
  PROVE  \A v \in 1 .. head : Relevant(v)' <=> Relevant(v)
<1> SUFFICES ASSUME NEW v \in 1 .. head PROVE Relevant(v)' <=> Relevant(v)
  OBVIOUS
<1>1. kind' = kind /\ Names' = Names /\ head \in Nat /\ \A w \in 0 .. head : At(w)' = At(w)
  BY ServerStep
<1>2. v \in 0 .. head /\ v - 1 \in 0 .. head
  BY <1>1
<1>3. At(v)' = At(v) /\ At(v - 1)' = At(v - 1)
  BY <1>1, <1>2
<1>4. Changed(v) = Difference(Names, At(v), At(v - 1))
  BY DEF Changed, Difference
<1>5. Changed(v)' = Difference(Names', At(v)', At(v - 1)')
  BY DEF Changed, Difference
<1>6. Changed(v)' = Changed(v)
  BY <1>1, <1>3, <1>4, <1>5
<1>7. Selected' = Selected
  BY <1>1 DEF Selected, filterToSystemNamespaces
<1> QED BY <1>3, <1>6, <1>7 DEF Relevant, NoObj

-----------------------------------------------------------------------------
(* The events' goroutine *)

\* The server starts with one version and nothing is queued or recorded.
LEMMA InitInv ==
  ASSUME Init
  PROVE  IInv
<1>1. PICK S \in SUBSET Names :
        states = <<[n \in Names |-> [uid |-> IF n \in S THEN 1 ELSE 0, bad |-> FALSE]]>>
  BY DEF Init
<1> DEFINE first == [n \in Names |-> [uid |-> IF n \in S THEN 1 ELSE 0, bad |-> FALSE]]
<1>2. first \in Snapshot
  <2>1. \A n \in Names : [uid |-> IF n \in S THEN 1 ELSE 0, bad |-> FALSE] \in Objects \cup {NoObj}
    <3>1. 1 \in 1 .. MaxVersion + 1
      BY BoundsAssumption
    <3> QED BY <3>1 DEF Objects, NoObj
  <2> QED BY <2>1 DEF Snapshot
<1> HIDE DEF first
<1>3. states = <<first>> /\ states \in Seq(Snapshot) /\ Len(states) = 1
  BY <1>1, <1>2 DEF first
<1>4. head = 0
  BY <1>3 DEF head
<1>5. ServerType
  BY <1>3, <1>4 DEF Init, ServerType
<1>6. EventType
  BY <1>4, EmptySeq DEF Init, EventType
<1>7. EventInv
  BY DEF Init, EventInv, Covered, Recorded
<1>8. ChangeInv
  BY <1>4 DEF ChangeInv
<1>9. CacheType /\ TrackInv
  <2>1. fifo \in [Names -> Seq(Delta)]
    BY EmptySeq DEF Init
  <2>2. store \in [Names -> Objects \cup {NoObj}]
    BY DEF Init, Nothing
  <2> QED BY <1>4, <2>1, <2>2 DEF Init, CacheType, TrackInv
<1> QED BY <1>5, <1>6, <1>7, <1>8, <1>9 DEF IInv

\* A step of the events' goroutine, or of the server: what it does to the position,
\* to the lists and to the log.
LEMMA EventCases ==
  ASSUME kind = "event", EventType, [Next]_vars
  PROVE  /\ UNCHANGED <<fifo, notices>>
         /\ \/ /\ UNCHANGED <<rv, log, lists, reached>> /\ cursor' \in {cursor, rv}
               /\ \/ pc' \in {pc, "exited"}
                  \/ pc \in {"watch", "stream"} /\ pc' \in {"watch", "stream"}
                  \/ pc' = "check" /\ UNCHANGED oldest /\ (rv < oldest \/ cursor < oldest)
            \/ /\ pc = "check" /\ pc' = "watch" /\ rv' = head /\ cursor' = head /\ reached' = head
               /\ lists' = Append(lists, [from |-> reached, to |-> head]) /\ UNCHANGED <<states, oldest, log>>
            \/ /\ pc = "stream" /\ pc' = "watch" /\ cursor' = rv /\ UNCHANGED <<states, oldest, rv, lists, reached>>
               /\ log' = Append(log, Cond("Info", <<"kube-apiserver", 0>>, <<"error while watching">>))
            \/ /\ pc = "stream" /\ cursor < head /\ cursor' = cursor + 1 /\ UNCHANGED <<states, oldest, pc, rv, lists>>
               /\ reached' = IF cursor < reached THEN reached ELSE cursor + 1
               /\ log' = IF Relevant(cursor + 1)
                         THEN Append(log, Cond("Info", <<"event", cursor + 1>>, <<"event">>)) ELSE log
<1>1. ~Informer /\ ~Wrapped
  BY DEF Informer, Wrapped
<1>2. ASSUME NEW ok, handle(ok) PROVE UNCHANGED <<receivedError, calls, log>>
  BY <1>1, <1>2 DEF handle, api
<1>3. CASE ServerChange \/ Compact \/ Stop
  BY <1>3 DEF ServerChange, Compact, Stop, api, cache, history
<1>4. CASE ListFails \/ WatchRefused \/ WatchExpired
  BY <1>1, <1>2, <1>4 DEF ListFails, WatchRefused, WatchExpired, cache, history, server
<1>5. CASE ListVersion
  BY <1>5 DEF ListVersion, server, api, cache
<1>6. CASE Watch
  BY <1>2, <1>6 DEF Watch, server, cache, history
<1>7. CASE StreamEnds \/ StreamFails
  BY <1>1, <1>7 DEF StreamEnds, StreamFails, server, api, cache, history
<1>8. CASE EventError
  BY <1>8 DEF EventError, server, cache, history
<1>9. CASE StreamEvent
  BY <1>9 DEF StreamEvent, server, cache
<1>10. CASE List \/ StreamObject \/ Resync
  BY <1>1, <1>10 DEF List, StreamObject, Resync
<1>11. ASSUME NEW n \in Names, Pop(n) \/ Notify(n) PROVE FALSE
  BY <1>11 DEF Pop, Notify, EventType
<1>12. CASE UNCHANGED vars
  BY <1>12 DEF vars, api, cache, history
<1> QED BY <1>3, <1>4, <1>5, <1>6, <1>7, <1>8, <1>9, <1>10, <1>11, <1>12 DEF Next

\* What was jumped over stays so, and so is what one more list jumps over after the
\* last one expired.
LEMMA JumpsKept ==
  ASSUME NEW jumps \in Seq(Jump), NEW a \in Nat, NEW b \in Nat, a <= b, NEW j \in Jump
  PROVE  /\ \A v : JumpedBy(jumps, a, v) => JumpedBy(jumps, b, v) /\ JumpedBy(Append(jumps, j), b, v)
         /\ jumps # << >> /\ jumps[Len(jumps)].to < a =>
              \A v \in j.from + 1 .. j.to : JumpedBy(Append(jumps, j), b, v)
<1> DEFINE more == Append(jumps, j)
<1>1. /\ Len(jumps) \in Nat /\ Len(more) = Len(jumps) + 1 /\ more[Len(jumps) + 1] = j
      /\ \A i \in 1 .. Len(jumps) : more[i] = jumps[i] /\ jumps[i] \in Jump
  BY AppendProperties, LenProperties, ElementOfSeq
<1> HIDE DEF more
<1>2. ASSUME NEW v, JumpedBy(jumps, a, v) PROVE JumpedBy(jumps, b, v) /\ JumpedBy(more, b, v)
  <2>1. PICK k \in 2 .. Len(jumps) : v \in jumps[k].from + 1 .. jumps[k].to /\ jumps[k - 1].to < a
    BY <1>2 DEF JumpedBy
  <2>2. /\ k \in 1 .. Len(jumps) /\ k - 1 \in 1 .. Len(jumps) /\ k \in 2 .. Len(more)
    BY <1>1
  <2>3. jumps[k - 1].to \in Nat
    BY <1>1, <2>2 DEF Jump
  <2>4. jumps[k - 1].to < b
    BY <2>1, <2>3
  <2>5. more[k] = jumps[k] /\ more[k - 1] = jumps[k - 1]
    BY <1>1, <2>2
  <2> QED BY <2>1, <2>2, <2>4, <2>5 DEF JumpedBy
<1>3. ASSUME jumps # << >>, jumps[Len(jumps)].to < a, NEW v \in j.from + 1 .. j.to PROVE JumpedBy(more, b, v)
  <2> DEFINE k == Len(jumps) + 1
  <2>1. Len(jumps) # 0
    BY <1>3, EmptySeq
  <2>2. k \in 2 .. Len(more) /\ k - 1 \in 1 .. Len(jumps) /\ k - 1 = Len(jumps)
    BY <1>1, <2>1
  <2>3. jumps[k - 1].to \in Nat
    BY <1>1, <2>2 DEF Jump
  <2>4. more[k] = j /\ more[k - 1] = jumps[Len(jumps)]
    BY <1>1, <2>2
  <2>5. more[k - 1].to < b
    BY <1>3, <2>2, <2>3, <2>4
  <2> HIDE DEF k
  <2> QED BY <1>3, <2>2, <2>4, <2>5 DEF JumpedBy
<1> QED BY <1>2, <1>3 DEF more

\* An entry that is appended to the log.
LEMMA LogGrows ==
  ASSUME log \in Seq(EventRecord), NEW e \in EventRecord, log' = Append(log, e)
  PROVE  /\ log' \in Seq(EventRecord)
         /\ Recorded' = IF e.message = <<"event">> THEN Recorded \cup {e.locator[2]} ELSE Recorded
<1>1. /\ log' \in Seq(EventRecord) /\ Len(log) \in Nat /\ Len(log') = Len(log) + 1
      /\ log'[Len(log) + 1] = e /\ \A i \in 1 .. Len(log) : log'[i] = log[i]
  BY AppendProperties, LenProperties
<1>2. \A i : i \in 1 .. Len(log') <=> i \in 1 .. Len(log) \/ i = Len(log) + 1
  BY <1>1
<1> QED BY <1>1, <1>2 DEF Recorded

\* The goroutine keeps its invariant, whatever the server does.
LEMMA EventStep ==
  ASSUME IInv, kind = "event", [Next]_vars
  PROVE  EventType' /\ EventInv'
<1>1. EventType /\ EventInv
  BY DEF IInv
<1>2. /\ Names' = Names /\ head \in Nat /\ head' \in Nat /\ head <= head' /\ oldest <= oldest'
      /\ oldest \in Nat /\ oldest' \in Nat
      /\ \A v \in 1 .. head : Relevant(v)' <=> Relevant(v)
  <2>1. ServerType /\ ServerType'
    BY ServerStep DEF IInv
  <2>2. oldest \in 0 .. head /\ oldest' \in 0 .. head'
    BY <2>1 DEF ServerType
  <2> QED BY <2>2, ServerStep, RelevantKept DEF IInv
<1>3. /\ rv \in 0 .. head /\ cursor \in 0 .. head /\ reached \in 0 .. head
      /\ log \in Seq(EventRecord) /\ lists \in Seq(Jump)
      /\ pc \in {"check", "watch", "stream", "exited"}
      /\ fifo' = [n \in Names' |-> << >>] /\ notices' = [n \in Names' |-> << >>]
      /\ rv <= cursor /\ cursor <= reached
      /\ pc \in {"watch", "stream"} => lists # << >>
      /\ lists # << >> => lists[Len(lists)].to = rv /\ (pc = "check" => rv < oldest)
      /\ \A v \in Recorded : v \in 1 .. head /\ Relevant(v)
  BY <1>1, <1>2, EventCases DEF EventType, EventInv
<1>4. ASSUME UNCHANGED log PROVE Recorded' = Recorded
  BY <1>4 DEF Recorded
<1>5. ASSUME Recorded' = Recorded PROVE \A v \in Recorded' : v \in 1 .. head' /\ Relevant(v)'
  BY <1>2, <1>3, <1>5
<1>6. ASSUME rv' \in 0 .. head, cursor' \in 0 .. head, reached' \in 0 .. head, log' \in Seq(EventRecord),
             lists' \in Seq(Jump), pc' \in {"check", "watch", "stream", "exited"}
      PROVE  EventType'
  <2>1. rv' \in 0 .. head' /\ cursor' \in 0 .. head' /\ reached' \in 0 .. head'
    BY <1>2, <1>6
  <2>2. EventRecord' = EventRecord /\ Jump' = Jump
    BY DEF EventRecord, Jump
  <2> QED BY <1>3, <1>6, <2>1, <2>2 DEF EventType
<1>7. ASSUME lists # << >>
      PROVE  /\ Len(lists) \in Nat /\ Len(lists) # 0 /\ lists[1] \in Jump
             /\ \A v \in lists[1].to + 1 .. reached : v \in 1 .. head
             /\ \A v \in lists[1].to + 1 .. reached : Relevant(v) => v \in Recorded \/ JumpedBy(lists, oldest, v)
  <2>1. Len(lists) \in Nat /\ Len(lists) # 0
    BY <1>3, <1>7, EmptySeq, LenProperties
  <2>2. 1 \in 1 .. Len(lists)
    BY <2>1
  <2>3. lists[1] \in Jump
    BY <1>3, <2>2, ElementOfSeq
  <2>4. lists[1].to \in Nat
    BY <2>3 DEF Jump
  <2>5. \A v \in lists[1].to + 1 .. reached : v \in 1 .. head
    BY <1>2, <1>3, <2>4
  <2> QED BY <1>1, <1>7, <2>1, <2>3, <2>5 DEF EventInv, Covered
<1>8. [from |-> reached, to |-> head] \in Jump
  BY <1>2, <1>3 DEF Jump
<1>9. /\ \A v : JumpedBy(lists, oldest, v) => JumpedBy(lists, oldest', v)
      /\ \A v : JumpedBy(lists, oldest, v) => JumpedBy(Append(lists, [from |-> reached, to |-> head]), oldest', v)
      /\ lists # << >> /\ lists[Len(lists)].to < oldest =>
           \A v \in reached + 1 .. head : JumpedBy(Append(lists, [from |-> reached, to |-> head]), oldest', v)
  <2> DEFINE j == [from |-> reached, to |-> head]
  <2>1. j.from = reached /\ j.to = head
    OBVIOUS
  <2> HIDE DEF j
  <2>2. j \in Jump
    BY <1>8 DEF j
  <2>3. /\ \A v : JumpedBy(lists, oldest, v) => JumpedBy(lists, oldest', v) /\ JumpedBy(Append(lists, j), oldest', v)
        /\ lists # << >> /\ lists[Len(lists)].to < oldest =>
             \A v \in j.from + 1 .. j.to : JumpedBy(Append(lists, j), oldest', v)
    BY <1>2, <1>3, <2>2, JumpsKept
  <2> QED BY <2>1, <2>3 DEF j
<1>10. Covered' <=> (lists' # << >> =>
                       \A v \in lists'[1].to + 1 .. reached' :
                         Relevant(v)' => v \in Recorded' \/ JumpedBy(lists', oldest', v))
  BY DEF Covered, JumpedBy
<1>11. ASSUME UNCHANGED lists, Recorded \subseteq Recorded',
              \/ reached' = reached
              \/ /\ reached' = reached + 1 /\ reached + 1 \in 1 .. head
                 /\ Relevant(reached + 1) => reached + 1 \in Recorded'
       PROVE  Covered'
  <2> SUFFICES ASSUME lists # << >>, NEW v \in lists[1].to + 1 .. reached', Relevant(v)'
               PROVE  v \in Recorded' \/ JumpedBy(lists, oldest', v)
    BY <1>10, <1>11
  <2>1. CASE v \in lists[1].to + 1 .. reached
    <3>1. v \in 1 .. head /\ (Relevant(v) => v \in Recorded \/ JumpedBy(lists, oldest, v))
      BY <1>7, <2>1
    <3> QED BY <1>2, <1>9, <1>11, <3>1
  <2>2. CASE v \notin lists[1].to + 1 .. reached
    <3>1. lists[1].to \in Nat
      BY <1>7 DEF Jump
    <3>2. reached' = reached + 1 /\ v = reached + 1
      BY <1>3, <1>11, <2>2, <3>1
    <3> QED BY <1>2, <1>11, <3>2
  <2> QED BY <2>1, <2>2
<1>12. CASE /\ UNCHANGED <<rv, log, lists, reached>> /\ cursor' \in {cursor, rv}
            /\ \/ pc' \in {pc, "exited"}
               \/ pc \in {"watch", "stream"} /\ pc' \in {"watch", "stream"}
               \/ pc' = "check" /\ UNCHANGED oldest /\ (rv < oldest \/ cursor < oldest)
  <2>1. EventType'
    BY <1>3, <1>6, <1>12
  <2>2. Covered'
    BY <1>4, <1>11, <1>12
  <2>3. rv' <= cursor' /\ cursor' <= reached'
    BY <1>3, <1>12
  <2>4. lists' # << >> => lists'[Len(lists')].to = rv' /\ (pc' = "check" => rv' < oldest')
    <3>1. rv < oldest \/ cursor < oldest => rv < oldest'
      BY <1>2, <1>3
    <3> QED BY <1>3, <1>12, <3>1
  <2>5. pc' \in {"watch", "stream"} => lists' # << >>
    BY <1>3, <1>12
  <2> QED BY <1>4, <1>5, <1>12, <2>1, <2>2, <2>3, <2>4, <2>5 DEF EventInv
<1>13. CASE /\ pc = "check" /\ pc' = "watch" /\ rv' = head /\ cursor' = head /\ reached' = head
            /\ lists' = Append(lists, [from |-> reached, to |-> head]) /\ UNCHANGED <<states, oldest, log>>
  <2> DEFINE j == [from |-> reached, to |-> head]
  <2>1. j \in Jump /\ j.to = head
    BY <1>8
  <2> HIDE DEF j
  <2>2. lists' = Append(lists, j)
    BY <1>13 DEF j
  <2>3. /\ lists' \in Seq(Jump) /\ Len(lists') = Len(lists) + 1 /\ lists'[Len(lists) + 1] = j
        /\ lists' # << >> /\ Len(lists) \in Nat /\ \A i \in 1 .. Len(lists) : lists'[i] = lists[i]
    BY <1>3, <2>1, <2>2, AppendProperties, LenProperties
  <2>4. EventType'
    BY <1>2, <1>3, <1>6, <1>13, <2>3
  <2>5. lists'[Len(lists')].to = rv'
    BY <1>13, <2>1, <2>3
  <2>6. ASSUME NEW v \in lists'[1].to + 1 .. head, Relevant(v)'
        PROVE  v \in Recorded' \/ JumpedBy(lists', oldest', v)
    <3>1. CASE lists = << >>
      <4>1. Len(lists) = 0
        BY <3>1
      <4>2. lists'[1].to = head
        BY <2>1, <2>3, <4>1
      <4> QED BY <1>2, <2>6, <4>2
    <3>2. CASE lists # << >>
      <4>1. 1 \in 1 .. Len(lists)
        BY <1>7, <3>2
      <4>2. lists'[1] = lists[1] /\ lists[1].to \in Nat
        BY <1>7, <2>3, <3>2, <4>1 DEF Jump
      <4>3. v \in lists[1].to + 1 .. reached \/ v \in reached + 1 .. head
        BY <1>2, <1>3, <2>6, <4>2
      <4>4. CASE v \in lists[1].to + 1 .. reached
        <5>1. v \in 1 .. head /\ (Relevant(v) => v \in Recorded \/ JumpedBy(lists, oldest, v))
          BY <1>7, <3>2, <4>4
        <5> QED BY <1>2, <1>4, <1>9, <1>13, <2>6, <5>1
      <4>5. CASE v \in reached + 1 .. head
        <5>1. lists[Len(lists)].to < oldest
          BY <1>3, <1>13, <3>2
        <5> QED BY <1>9, <1>13, <3>2, <4>5, <5>1
      <4> QED BY <4>3, <4>4, <4>5
    <3> QED BY <3>1, <3>2
  <2>7. Covered'
    BY <1>10, <1>13, <2>6
  <2>8. rv' <= cursor' /\ cursor' <= reached' /\ pc' # "check"
    BY <1>2, <1>13
  <2> QED BY <1>4, <1>5, <1>13, <2>3, <2>4, <2>5, <2>7, <2>8 DEF EventInv
<1>14. CASE /\ pc = "stream" /\ pc' = "watch" /\ cursor' = rv /\ UNCHANGED <<states, oldest, rv, lists, reached>>
            /\ log' = Append(log, Cond("Info", <<"kube-apiserver", 0>>, <<"error while watching">>))
  <2> DEFINE e == Cond("Info", <<"kube-apiserver", 0>>, <<"error while watching">>)
  <2>1. e \in EventRecord /\ e.message # <<"event">>
    BY DEF EventRecord, Cond
  <2> HIDE DEF e
  <2>2. log' \in Seq(EventRecord) /\ Recorded' = Recorded
    BY <1>3, <1>14, <2>1, LogGrows DEF e
  <2>3. EventType'
    BY <1>3, <1>6, <1>14, <2>2
  <2>4. Covered'
    BY <1>11, <1>14, <2>2
  <2>5. /\ rv' <= cursor' /\ cursor' <= reached' /\ lists' # << >> /\ pc' # "check"
        /\ lists'[Len(lists')].to = rv'
    <3>1. UNCHANGED <<rv, lists, reached>> /\ cursor' = rv /\ pc = "stream" /\ pc' = "watch"
      BY <1>14
    <3>2. rv <= rv /\ rv <= reached
      BY <1>2, <1>3
    <3> QED BY <1>3, <3>1, <3>2
  <2> QED BY <1>5, <2>2, <2>3, <2>4, <2>5 DEF EventInv
<1>15. CASE /\ pc = "stream" /\ cursor < head /\ cursor' = cursor + 1 /\ UNCHANGED <<states, oldest, pc, rv, lists>>
            /\ reached' = IF cursor < reached THEN reached ELSE cursor + 1
            /\ log' = IF Relevant(cursor + 1)
                      THEN Append(log, Cond("Info", <<"event", cursor + 1>>, <<"event">>)) ELSE log
  <2> DEFINE e == Cond("Info", <<"event", cursor + 1>>, <<"event">>)
  <2>1. cursor + 1 \in 1 .. head /\ cursor + 1 \in Nat
    BY <1>2, <1>3, <1>15
  <2>2. e \in EventRecord /\ e.message = <<"event">> /\ e.locator[2] = cursor + 1
    BY <2>1 DEF EventRecord, Cond
  <2> HIDE DEF e
  <2>3. /\ log' \in Seq(EventRecord)
        /\ Recorded' = IF Relevant(cursor + 1) THEN Recorded \cup {cursor + 1} ELSE Recorded
    <3>1. CASE Relevant(cursor + 1)
      BY <1>3, <1>15, <2>2, <3>1, LogGrows DEF e
    <3>2. CASE ~Relevant(cursor + 1)
      BY <1>3, <1>4, <1>15, <3>2
    <3> QED BY <3>1, <3>2
  <2>4. \/ cursor < reached /\ reached' = reached /\ cursor + 1 <= reached
        \/ cursor = reached /\ reached' = reached + 1 /\ reached + 1 \in 1 .. head
    BY <1>2, <1>3, <1>15, <2>1
  <2>5. EventType'
    <3>1. rv' \in 0 .. head /\ cursor' \in 0 .. head /\ reached' \in 0 .. head
      BY <1>2, <1>3, <1>15, <2>4
    <3>2. lists' \in Seq(Jump) /\ pc' \in {"check", "watch", "stream", "exited"}
      BY <1>3, <1>15
    <3> QED BY <1>6, <2>3, <3>1, <3>2
  <2>6. \A v \in Recorded' : v \in 1 .. head' /\ Relevant(v)'
    BY <1>2, <1>3, <2>1, <2>3
  <2>7. Covered'
    <3>1. Recorded \subseteq Recorded' /\ (Relevant(cursor + 1) => cursor + 1 \in Recorded') /\ UNCHANGED lists
      BY <1>15, <2>3
    <3> QED BY <1>11, <2>4, <3>1
  <2>8. rv' <= cursor' /\ cursor' <= reached' /\ lists' # << >> /\ pc' # "check" /\ lists'[Len(lists')].to = rv'
    BY <1>3, <1>15, <2>4
  <2> QED BY <2>5, <2>6, <2>7, <2>8 DEF EventInv
<1> QED BY <1>12, <1>13, <1>14, <1>15, EventCases, <1>1

-----------------------------------------------------------------------------
(* The informers *)

\* A delta that is queued decides what the store will hold, also where it is joined
\* with the one before.
LEMMA EnqueueFacts ==
  ASSUME NEW s \in Seq(Delta), NEW d \in Delta
  PROVE  /\ Enqueue(s, d) \in Seq(Delta) /\ Enqueue(s, d) # << >>
         /\ Outcome(Last(Enqueue(s, d))) = Outcome(d)
<1>1. ASSUME NEW t \in Seq(Delta), NEW e \in Delta
      PROVE  Append(t, e) \in Seq(Delta) /\ Append(t, e) # << >> /\ Last(Append(t, e)) = e
  BY <1>1, AppendProperties, LenProperties DEF Last
<1>2. CASE s # << >> /\ {Last(s).type, d.type} \subseteq {"delete", "tomb"}
  <2>1. Last(s) \in Delta /\ Front(s) \in Seq(Delta)
    <3>1. Len(s) \in Nat /\ Len(s) # 0 /\ \A i \in 1 .. Len(s) : s[i] \in Delta
      BY <1>2, LenProperties, EmptySeq, ElementOfSeq
    <3>2. Last(s) \in Delta
      BY <3>1 DEF Last
    <3>3. \A i \in 1 .. Len(s) - 1 : s[i] \in Delta
      BY <3>1
    <3>4. SubSeq(s, 1, Len(s) - 1) \in Seq(Delta)
      BY <3>1, <3>3, SubSeqProperties
    <3> QED BY <3>2, <3>4 DEF Front
  <2> DEFINE e == IF Last(s).type = "tomb" THEN d ELSE Last(s)
  <2>2. e \in Delta /\ Outcome(e) = Outcome(d)
    BY <1>2, <2>1 DEF Outcome
  <2>3. Enqueue(s, d) = Append(Front(s), e)
    BY <1>2 DEF Enqueue
  <2> HIDE DEF e
  <2> QED BY <1>1, <2>1, <2>2, <2>3
<1>3. CASE ~(s # << >> /\ {Last(s).type, d.type} \subseteq {"delete", "tomb"})
  <2>1. Enqueue(s, d) = Append(s, d)
    BY <1>3 DEF Enqueue
  <2> QED BY <1>1, <2>1
<1> QED BY <1>2, <1>3

\* The positions in the server's history.
LEMMA Positions ==
  ASSUME ServerType
  PROVE  head \in Nat /\ \A v \in 0 .. head : At(v) \in Snapshot
<1>1. Len(states) \in Nat /\ Len(states) >= 1 /\ states \in Seq(Snapshot)
  BY LenProperties DEF ServerType
<1>2. head \in Nat /\ \A v \in 0 .. head : v + 1 \in 1 .. Len(states)
  BY <1>1 DEF head
<1> QED BY <1>1, <1>2, ElementOfSeq DEF At

\* The steps that leave the queue and the store alone: an informer that goes on
\* watching keeps its position or goes back to the version it will watch from.
LEMMA QuietStep ==
  ASSUME IInv, [Next]_vars, ~List, ~StreamObject, ~Resync, \A n \in Names : ~Pop(n)
  PROVE  /\ UNCHANGED <<fifo, store, blind>>
         /\ rv' \in {rv, head}
         /\ cursor' \in {cursor, rv, head} \/ (cursor' = cursor + 1 /\ cursor < head)
         /\ Informer /\ pc' \in {"watch", "stream"} =>
              pc \in {"watch", "stream"} /\ rv' = rv /\ cursor' \in {cursor, rv}
<1>1. CASE ServerChange \/ Compact \/ Stop \/ ListFails \/ ListVersion
  BY <1>1 DEF ServerChange, Compact, Stop, ListFails, ListVersion, cache, history
<1>2. CASE WatchRefused \/ WatchExpired \/ Watch
  BY <1>2 DEF WatchRefused, WatchExpired, Watch, cache, history
<1>3. CASE StreamEnds \/ StreamFails \/ EventError \/ StreamEvent
  BY <1>3 DEF StreamEnds, StreamFails, EventError, StreamEvent, cache, history
<1>4. ASSUME NEW n \in Names, Notify(n) PROVE UNCHANGED <<fifo, store, blind, rv, cursor, pc>>
  BY <1>4 DEF Notify
<1>5. CASE UNCHANGED vars
  BY <1>5 DEF vars, cache, history
<1> QED BY <1>1, <1>2, <1>3, <1>4, <1>5 DEF Next

\* What the store will hold of an object, for a given queue and store.
Holds(deltas, obj) == IF deltas = << >> THEN obj ELSE Outcome(Last(deltas))

\* A list: store and queue together hold what it answered.
LEMMA ListStep ==
  ASSUME ServerType, CacheType, List
  PROVE  /\ fifo' \in [Names -> Seq(Delta)] /\ UNCHANGED store
         /\ rv' \in 0 .. head /\ cursor' = rv'
         /\ \A n \in Selected \ blind' : Holds(fifo'[n], store[n]) = At(rv')[n]
<1>1. /\ UNCHANGED store /\ fifo \in [Names -> Seq(Delta)] /\ store \in [Names -> Objects \cup {NoObj}]
      /\ \E v \in 0 .. head : rv' = v /\ cursor' = v /\ Replace(v) /\ blind' = Misread(v)
  BY DEF List, CacheType
<1>2. PICK v \in 0 .. head : rv' = v /\ cursor' = v /\ Replace(v) /\ blind' = Misread(v)
  BY <1>1
<1>3. At(v) \in Snapshot
  BY Positions
<1> DEFINE set(n) == [type |-> "set", obj |-> At(v)[n]]
           tomb(n) == [type |-> "tomb", obj |-> store[n]]
<1>4. \A n \in Names : set(n) \in Delta /\ Outcome(set(n)) = At(v)[n]
  BY <1>3 DEF Snapshot, Delta, Outcome
<1>5. \A n \in Names : tomb(n) \in Delta /\ Outcome(tomb(n)) = NoObj
  BY <1>1 DEF Delta, Outcome
<1>6. fifo' = [n \in Names |-> IF n \in Listed(v) THEN Enqueue(fifo[n], set(n))
                               ELSE IF store[n] # NoObj THEN Enqueue(fifo[n], tomb(n)) ELSE fifo[n]]
  BY <1>2 DEF Replace
<1> HIDE DEF set, tomb
<1>7. \A n \in Names : fifo[n] \in Seq(Delta)
  BY <1>1
<1>8. ASSUME NEW n \in Names
      PROVE  /\ fifo'[n] \in Seq(Delta)
             /\ n \in Listed(v) => Holds(fifo'[n], store[n]) = At(v)[n]
             /\ n \notin Listed(v) /\ store[n] # NoObj => Holds(fifo'[n], store[n]) = NoObj
             /\ n \notin Listed(v) /\ store[n] = NoObj => fifo'[n] = fifo[n]
  <2>1. CASE n \in Listed(v)
    <3>1. fifo'[n] = Enqueue(fifo[n], set(n))
      BY <1>6, <2>1
    <3> QED BY <1>4, <1>7, <2>1, <3>1, EnqueueFacts DEF Holds
  <2>2. CASE n \notin Listed(v) /\ store[n] # NoObj
    <3>1. fifo'[n] = Enqueue(fifo[n], tomb(n))
      BY <1>6, <2>2
    <3> QED BY <1>5, <1>7, <2>2, <3>1, EnqueueFacts DEF Holds
  <2>3. CASE n \notin Listed(v) /\ store[n] = NoObj
    BY <1>6, <1>7, <2>3
  <2> QED BY <2>1, <2>2, <2>3
<1>9. fifo' \in [Names -> Seq(Delta)]
  <2>1. \A n \in Names : fifo'[n] \in Seq(Delta)
    BY <1>8
  <2>2. fifo' = [n \in Names |-> fifo'[n]]
    BY <1>6
  <2> QED BY <2>1, <2>2
<1>10. ASSUME NEW n \in Selected \ blind' PROVE Holds(fifo'[n], store[n]) = At(v)[n]
  <2>1. n \in Names
    BY DEF Selected
  <2>2. CASE n \in Listed(v)
    BY <1>8, <2>1, <2>2
  <2>3. CASE n \notin Listed(v)
    <3>1. /\ At(v)[n] = NoObj
          /\ store[n] = NoObj /\ fifo[n] # << >> => Last(fifo[n]).type # "set"
      BY <1>2, <2>3 DEF Misread
    <3>2. CASE store[n] # NoObj
      BY <1>8, <2>1, <2>3, <3>1, <3>2
    <3>3. CASE store[n] = NoObj
      BY <1>8, <2>1, <2>3, <3>1, <3>3 DEF Holds, Outcome
    <3> QED BY <3>2, <3>3
  <2> QED BY <2>2, <2>3
<1> QED BY <1>1, <1>2, <1>9, <1>10

\* A change on the stream: store and queue follow.
LEMMA StreamStep ==
  ASSUME IInv, StreamObject
  PROVE  /\ fifo' \in [Names -> Seq(Delta)] /\ UNCHANGED store
         /\ rv' \in 0 .. head /\ cursor' \in 0 .. head /\ rv' <= cursor'
         /\ \A n \in Selected : At(cursor')[n] = At(rv')[n]
         /\ \A n \in Selected \ blind' : Holds(fifo'[n], store[n]) = At(rv')[n]
<1> DEFINE n == Changed(cursor + 1)
           o == At(cursor + 1)[n]
           d == IF o = NoObj THEN [type |-> "delete", obj |-> At(cursor)[n]] ELSE [type |-> "set", obj |-> o]
<1>1. /\ Informer /\ pc = "stream" /\ cursor < head
      /\ fifo' = IF n \notin Selected \/ (o = NoObj /\ store[n] = NoObj /\ fifo[n] = << >>) THEN fifo
                 ELSE [fifo EXCEPT ![n] = Enqueue(@, d)]
      /\ blind' = blind \ {n} /\ cursor' = cursor + 1 /\ rv' = (IF n \in Selected THEN cursor + 1 ELSE rv) /\ UNCHANGED store
  BY DEF StreamObject
<1>2. /\ fifo \in [Names -> Seq(Delta)] /\ store \in [Names -> Objects \cup {NoObj}]
      /\ cursor \in 0 .. head /\ head \in Nat /\ \A v \in 0 .. head : At(v) \in Snapshot
      /\ rv \in 0 .. head /\ rv <= cursor /\ \A m \in Selected : At(cursor)[m] = At(rv)[m]
      /\ \A m \in Selected \ blind : Holds(fifo[m], store[m]) = At(rv)[m]
  BY <1>1, Positions DEF IInv, CacheType, TrackInv, Target, Holds
<1>3. cursor + 1 \in 1 .. head /\ cursor + 1 \in 0 .. head /\ (cursor + 1) - 1 = cursor
  BY <1>1, <1>2
<1>4. n = CHOOSE m \in Names : At(cursor + 1)[m] # At(cursor)[m]
  BY <1>3 DEF Changed
<1>5. PICK k \in Names : /\ At(cursor + 1)[k] # At(cursor)[k]
                         /\ \A m \in Names \ {k} : At(cursor + 1)[m] = At(cursor)[m]
  BY <1>3 DEF IInv, ChangeInv, OneChange
<1>6. n \in Names /\ \A m \in Names \ {n} : At(cursor + 1)[m] = At(cursor)[m]
  <2> HIDE DEF n
  <2> QED BY <1>4, <1>5
<1> HIDE DEF n
<1>7. o \in Objects \cup {NoObj} /\ At(cursor)[n] \in Objects \cup {NoObj}
  BY <1>2, <1>3, <1>6 DEF Snapshot
<1>8. d \in Delta /\ Outcome(d) = o
  BY <1>7 DEF Delta, Outcome
<1> HIDE DEF o, d
<1>9. fifo[n] \in Seq(Delta)
  BY <1>2, <1>6
<1>10. Enqueue(fifo[n], d) \in Seq(Delta) /\ \A obj : Holds(Enqueue(fifo[n], d), obj) = o
  BY <1>8, <1>9, EnqueueFacts DEF Holds
<1>11. /\ fifo' \in [Names -> Seq(Delta)]
       /\ \A m \in Names \ {n} : fifo'[m] = fifo[m]
       /\ n \in Selected => Holds(fifo'[n], store[n]) = o
  <2>1. CASE n \notin Selected \/ (o = NoObj /\ store[n] = NoObj /\ fifo[n] = << >>)
    BY <1>1, <1>2, <2>1 DEF Holds
  <2>2. CASE ~(n \notin Selected \/ (o = NoObj /\ store[n] = NoObj /\ fifo[n] = << >>))
    <3>1. fifo' = [fifo EXCEPT ![n] = Enqueue(fifo[n], d)]
      BY <1>1, <2>2
    <3> QED BY <1>2, <1>6, <1>10, <3>1
  <2> QED BY <2>1, <2>2
<1>12. ASSUME NEW m \in Selected
       PROVE  /\ At(cursor + 1)[m] = At(rv')[m]
              /\ m \notin blind' => Holds(fifo'[m], store[m]) = At(rv')[m]
  <2>1. m \in Names
    BY DEF Selected
  <2>2. CASE m = n
    BY <1>1, <1>11, <2>2 DEF o
  <2>3. CASE m # n
    <3>1. At(cursor + 1)[m] = At(rv)[m]
      BY <1>2, <1>6, <2>1, <2>3
    <3>2. At(rv')[m] = At(rv)[m]
      BY <1>1, <3>1
    <3> QED BY <1>1, <1>2, <1>11, <2>1, <2>3, <3>1, <3>2
  <2> QED BY <2>2, <2>3
<1>13. rv' \in 0 .. head /\ rv' <= cursor + 1
  BY <1>1, <1>2, <1>3
<1> QED BY <1>1, <1>3, <1>11, <1>12, <1>13

\* A resynchronisation, and the handling of an object's deltas, change what is
\* queued and what is stored, but not what they come to.
LEMMA DrainStep ==
  ASSUME CacheType, Resync \/ \E n \in Names : Pop(n)
  PROVE  /\ fifo' \in [Names -> Seq(Delta)] /\ store' \in [Names -> Objects \cup {NoObj}]
         /\ UNCHANGED <<pc, rv, cursor, blind>>
         /\ \A n \in Names : Holds(fifo'[n], store'[n]) = Holds(fifo[n], store[n])
<1>1. fifo \in [Names -> Seq(Delta)] /\ store \in [Names -> Objects \cup {NoObj}]
  BY DEF CacheType
<1>2. CASE Resync
  <2> DEFINE d(n) == [type |-> "set", obj |-> store[n]]
             one(n) == <<d(n)>>
  <2>1. \A n \in Names : /\ one(n) \in Seq(Delta) /\ one(n) # << >> /\ Last(one(n)) = d(n)
                         /\ Outcome(d(n)) = store[n]
    <3>1. \A n \in Names : d(n) \in Delta /\ Outcome(d(n)) = store[n]
      BY <1>1 DEF Delta, Outcome
    <3> HIDE DEF d
    <3> QED BY <3>1 DEF Last
  <2>2. /\ fifo' = [n \in Names |-> IF store[n] # NoObj /\ fifo[n] = << >> THEN one(n) ELSE fifo[n]]
        /\ UNCHANGED <<store, pc, rv, cursor, blind>>
    BY <1>2 DEF Resync, history
  <2> HIDE DEF d, one
  <2>3. ASSUME NEW n \in Names PROVE Holds(fifo'[n], store[n]) = Holds(fifo[n], store[n])
    BY <2>1, <2>2 DEF Holds
  <2>4. fifo' \in [Names -> Seq(Delta)]
    BY <1>1, <2>1, <2>2
  <2> QED BY <1>1, <2>2, <2>3, <2>4
<1>3. ASSUME NEW n \in Names, Pop(n)
      PROVE  /\ fifo' \in [Names -> Seq(Delta)] /\ store' \in [Names -> Objects \cup {NoObj}]
             /\ UNCHANGED <<pc, rv, cursor, blind>>
             /\ \A m \in Names : Holds(fifo'[m], store'[m]) = Holds(fifo[m], store[m])
  <2>1. /\ fifo[n] # << >> /\ store' = [store EXCEPT ![n] = After(n, Len(fifo[n]))]
        /\ fifo' = [fifo EXCEPT ![n] = << >>] /\ UNCHANGED <<pc, rv, cursor, blind>>
    BY <1>3 DEF Pop, history
  <2>2. fifo[n] \in Seq(Delta)
    BY <1>1
  <2>3. After(n, Len(fifo[n])) = Outcome(Last(fifo[n]))
    <3>1. Len(fifo[n]) # 0
      BY <2>1, <2>2, EmptySeq, LenProperties
    <3> QED BY <3>1 DEF After, Outcome, Last
  <2>4. Last(fifo[n]) \in Delta
    <3>1. Len(fifo[n]) \in Nat /\ Len(fifo[n]) # 0
      BY <2>1, <2>2, EmptySeq, LenProperties
    <3>2. Len(fifo[n]) \in 1 .. Len(fifo[n])
      BY <3>1
    <3> QED BY <2>2, <3>2, ElementOfSeq DEF Last
  <2>5. Outcome(Last(fifo[n])) \in Objects \cup {NoObj}
    BY <2>4 DEF Outcome, Delta
  <2>6. << >> \in Seq(Delta)
    BY EmptySeq
  <2>7. ASSUME NEW m \in Names PROVE Holds(fifo'[m], store'[m]) = Holds(fifo[m], store[m])
    BY <1>1, <2>1, <2>3 DEF Holds
  <2> QED BY <1>1, <2>1, <2>3, <2>5, <2>6, <2>7
<1> QED BY <1>2, <1>3

\* Store and queue together keep following the server.
LEMMA CacheStep ==
  ASSUME IInv, [Next]_vars
  PROVE  CacheType' /\ TrackInv'
<1>1. /\ ServerType /\ CacheType /\ TrackInv /\ head \in Nat
      /\ rv \in 0 .. head /\ cursor \in 0 .. head
  BY Positions DEF IInv, CacheType
<1>2. /\ kind' = kind /\ Names' = Names /\ head' \in Nat /\ head <= head'
      /\ \A v \in 0 .. head : At(v)' = At(v)
  BY ServerStep DEF IInv
<1>3. (Informer <=> Informer') /\ Selected' = Selected /\ Selected \subseteq Names
  BY <1>2 DEF Informer, Selected, filterToSystemNamespaces
<1>4. \A n : Target(n) = Holds(fifo[n], store[n]) /\ Target(n)' = Holds(fifo'[n], store'[n])
  BY DEF Target, Holds, Outcome, NoObj
<1>5. ASSUME /\ fifo' \in [Names -> Seq(Delta)] /\ store' \in [Names -> Objects \cup {NoObj}]
             /\ rv' \in 0 .. head /\ cursor' \in 0 .. head
             /\ Informer /\ pc' \in {"watch", "stream"} =>
                  /\ rv' <= cursor' /\ \A n \in Selected : At(cursor')[n] = At(rv')[n]
                  /\ \A n \in Selected \ blind' : Holds(fifo'[n], store'[n]) = At(rv')[n]
      PROVE  CacheType' /\ TrackInv'
  <2>1. rv' \in 0 .. head' /\ cursor' \in 0 .. head'
    BY <1>1, <1>2, <1>5
  <2>2. CacheType'
    BY <1>2, <1>5, <2>1 DEF CacheType, Delta, Objects, NoObj
  <2>3. \A n : states'[cursor' + 1][n] = At(cursor')[n] /\ states'[rv' + 1][n] = At(rv')[n]
    BY <1>2, <1>5 DEF At
  <2>4. TrackInv'
    BY <1>3, <1>4, <1>5, <2>3 DEF TrackInv, At
  <2> QED BY <2>2, <2>4
<1>6. CASE List
  <2>1. /\ fifo' \in [Names -> Seq(Delta)] /\ UNCHANGED store
        /\ rv' \in 0 .. head /\ cursor' = rv'
        /\ \A n \in Selected \ blind' : Holds(fifo'[n], store[n]) = At(rv')[n]
    BY <1>1, <1>6, ListStep
  <2>2. rv' <= rv'
    BY <2>1
  <2> QED BY <1>1, <1>5, <2>1, <2>2 DEF CacheType
<1>7. CASE StreamObject
  BY <1>1, <1>5, <1>7, StreamStep DEF CacheType
<1>8. CASE Resync \/ \E n \in Names : Pop(n)
  <2>1. /\ fifo' \in [Names -> Seq(Delta)] /\ store' \in [Names -> Objects \cup {NoObj}]
        /\ UNCHANGED <<pc, rv, cursor, blind>>
        /\ \A n \in Names : Holds(fifo'[n], store'[n]) = Holds(fifo[n], store[n])
    BY <1>1, <1>8, DrainStep
  <2>2. Informer /\ pc' \in {"watch", "stream"} =>
          /\ rv' <= cursor' /\ \A n \in Selected : At(cursor')[n] = At(rv')[n]
          /\ \A n \in Selected \ blind' : Holds(fifo'[n], store'[n]) = At(rv')[n]
    BY <1>1, <1>3, <1>4, <2>1 DEF TrackInv
  <2> QED BY <1>1, <1>5, <2>1, <2>2
<1>9. CASE ~(List \/ StreamObject \/ Resync \/ \E n \in Names : Pop(n))
  <2>1. /\ UNCHANGED <<fifo, store, blind>>
        /\ rv' \in {rv, head}
        /\ cursor' \in {cursor, rv, head} \/ (cursor' = cursor + 1 /\ cursor < head)
        /\ Informer /\ pc' \in {"watch", "stream"} =>
             pc \in {"watch", "stream"} /\ rv' = rv /\ cursor' \in {cursor, rv}
    BY <1>9, QuietStep
  <2>2. rv' \in 0 .. head /\ cursor' \in 0 .. head
    BY <1>1, <2>1
  <2>3. Informer /\ pc' \in {"watch", "stream"} =>
          /\ rv' <= cursor' /\ \A n \in Selected : At(cursor')[n] = At(rv')[n]
          /\ \A n \in Selected \ blind' : Holds(fifo'[n], store'[n]) = At(rv')[n]
    BY <1>1, <1>4, <2>1 DEF TrackInv
  <2> QED BY <1>1, <1>5, <2>1, <2>2, <2>3 DEF CacheType
<1> QED BY <1>6, <1>7, <1>8, <1>9

-----------------------------------------------------------------------------
(* The theorems *)

\* Every step of the server, of the informers and of the events' goroutine keeps
\* the invariant.
THEOREM Invariance == Spec => []IInv
<1>1. ASSUME IInv, [Next]_vars PROVE IInv'
  <2>1. ServerType' /\ ChangeInv' /\ kind' = kind
    BY <1>1, ServerStep DEF IInv
  <2>2. kind = "event" => EventType' /\ EventInv'
    BY <1>1, EventStep
  <2>3. CacheType' /\ TrackInv'
    BY <1>1, CacheStep
  <2> QED BY <2>1, <2>2, <2>3 DEF IInv
<1> QED BY InitInv, <1>1, PTL DEF Spec

\* However its streams end, fail and are renewed, the events' goroutine has recorded
\* every relevant event since its first list, up to the furthest version it got to,
\* but for those between what it had read when the version of its list expired and
\* the next list; and nothing of another namespace or of a deletion.
THEOREM NothingIsMissed == Spec => []NoGap
<1>1. ASSUME IInv, kind = "event"
      PROVE  /\ lists # << >> => \A v \in lists[1].to + 1 .. reached :
                                   Relevant(v) => v \in Recorded \/ JumpedBy(lists, oldest, v)
             /\ \A v \in Recorded : Changed(v) \in System /\ At(v)[Changed(v)] # NoObj
  <2>1. EventInv
    BY <1>1 DEF IInv
  <2>2. \A v \in Recorded : Changed(v) \in Selected /\ At(v)[Changed(v)] # NoObj
    BY <2>1 DEF EventInv, Relevant
  <2>3. Selected \subseteq System
    BY <1>1 DEF Selected, filterToSystemNamespaces
  <2> QED BY <2>1, <2>2, <2>3 DEF EventInv, Covered
<1>2. ASSUME IInv, kind = "event" PROVE DOMAIN log = 1 .. Len(log)
  BY <1>2, LenProperties DEF IInv, EventType
<1>3. IInv => NoGap
  BY <1>1, <1>2 DEF NoGap, Recorded, JumpedBy
<1> QED BY <1>3, Invariance, PTL

\* An informer whose stream has caught up holds what the server has, whatever was
\* cut, missed, expired or listed too old before, but for what its last list got
\* wrong and has not changed since.
THEOREM StoresCatchUp == Spec => []StoreTracks
<1>1. ASSUME IInv, Informer, CaughtUp, NEW n \in Selected \ blind PROVE store[n] = At(head)[n]
  <2>1. pc = "stream" /\ cursor = head /\ fifo[n] = << >>
    BY <1>1 DEF CaughtUp, Selected
  <2>2. At(cursor)[n] = At(rv)[n] /\ Target(n) = At(rv)[n]
    BY <1>1, <2>1 DEF IInv, TrackInv
  <2> QED BY <2>1, <2>2 DEF Target
<1>2. IInv => StoreTracks
  BY <1>1 DEF StoreTracks
<1> QED BY <1>2, Invariance, PTL

-----------------------------------------------------------------------------
(* What the informers record: the invariant of the log *)

\* What is queued is an object that was there, and a notification is of one.
KnownDelta == [type : {"set", "delete", "tomb"}, obj : Objects]
KnownNotice == {c \in [type : {"set", "delete", "tomb"}, old : Objects \cup {NoObj}, new : Objects \cup {NoObj}] :
                  IF c.type = "set" THEN c.new \in Objects ELSE c.old \in Objects /\ c.new = NoObj}

\* Queue, store and what the log tells: only selected objects are queued, stored or
\* notified of, and the log tells about those the handler was told of.
QueueInv == /\ pc \in {"check", "watch", "stream", "exited"}
            /\ fifo \in [Names -> Seq(KnownDelta)] /\ notices \in [Names -> Seq(KnownNotice)]
            /\ told \in [Names -> Objects \cup {NoObj}] /\ seen \in [Names -> Objects \cup {NoObj}]
            /\ \A n \in Names : fifo[n] # << >> \/ store[n] # NoObj \/ notices[n] # << >> => Informer /\ n \in Selected
            /\ \A n \in Names : seen[n] # NoObj => told[n] # NoObj

\* The object that the i-th of some notifications starts from.
Prior(pending, obj, i) == IF i = 1 THEN obj ELSE pending[i - 1].new

\* Each notification of a set carries on where the one before ends, from the object
\* the handler knows to the one that is stored.
Chained(pending, obj, last) ==
  /\ \A i \in 1 .. Len(pending) : pending[i].type = "set" => pending[i].old = Prior(pending, obj, i)
  /\ last = Prior(pending, obj, Len(pending) + 1)

ChainInv == \A n \in Names : Chained(notices[n], seen[n], store[n])

\* What the log tells about an object agrees with the object: for a pod it may tell
\* that it is pending when it is not any more, for the cluster version that an
\* update is reached when another one has begun.
Agrees(t, o) == /\ t.uid = o.uid
                /\ o # NoObj => CASE kind \in {"node", "clusteroperator"} -> t.bad = o.bad
                                  [] kind = "pod" -> o.bad => t.bad
                                  [] kind = "clusterversion" -> t.bad => o.bad

ToldInv == \A n \in Names \ lost : Agrees(told[n], seen[n])

\* What is recorded.
Messages == {<<"created">>, <<"deleted">>, <<"may not transition">>, <<"condition changed", "Ready">>,
             <<"deleted and recreated">>, <<"changed", "Degraded", "True">>, <<"changed", "Degraded", "False">>,
             <<"reached", "v">>, <<"event">>, <<"error while watching">>}
Record == [level : {"Info", "Warning", "Error"}, locator : (Names \cup {"event", "kube-apiserver"}) \X Nat,
           message : Messages]
Outages(s) == {i \in DOMAIN s : s[i].message = <<"failed contacting the API">>}
Starts(s) == {i \in DOMAIN s : ~s[i] /\ (i = 1 \/ s[i - 1])}

\* The flag of the list watcher is up while the last request failed.
CallsInv == /\ log \in Seq(Record \cup {Unreachable}) /\ calls \in Seq(BOOLEAN)
            /\ receivedError = (calls # << >> /\ ~Last(calls))
            /\ Cardinality(Outages(log)) = Cardinality(Starts(calls))

\* The successive contents of the store as queued deltas are handled.
Stage(deltas, obj, i) == IF i = 0 THEN obj ELSE Outcome(deltas[i])

\* At the first versions of the server, an object was in a state, or in one and then
\* in another.
WasIn(s, n, o, last) == \E v \in 0 .. last : s[v + 1][n] = o
WasInBoth(s, n, o, p, last) == \E v, w \in 0 .. last : v <= w /\ s[v + 1][n] = o /\ s[w + 1][n] = p

\* What is stored and queued of an object are states it was in, one after the other.
Seen(s, n, deltas, obj, last) ==
  /\ \A i \in 0 .. Len(deltas) : Stage(deltas, obj, i) # NoObj => WasIn(s, n, Stage(deltas, obj, i), last)
  /\ \A i \in 1 .. Len(deltas) : Stage(deltas, obj, i - 1) # NoObj /\ Stage(deltas, obj, i) # NoObj =>
       WasInBoth(s, n, Stage(deltas, obj, i - 1), Stage(deltas, obj, i), last)

\* So are the old and the new object of a notification.
Shown(s, n, c, last) == c.type = "set" /\ c.old # NoObj => WasInBoth(s, n, c.old, c.new, last)

\* So it is as long as no list was older than what had been seen.
SeenInv == ~rewound => \A n \in Names :
             /\ Seen(states, n, fifo[n], store[n], rv)
             /\ \A i \in 1 .. Len(notices[n]) : Shown(states, n, notices[n][i], rv)

LogInv == QueueInv /\ ChainInv /\ ToldInv /\ CallsInv /\ SeenInv /\ ErrorsReal

-----------------------------------------------------------------------------
(* The list *)

\* The function in the definition of ListFilter stays in the items' sequences.
LEMMA ListFilterType ==
  ASSUME NEW S, NEW items \in Seq(S), NEW system
  PROVE  ListFilter(items, system) \in Seq(S)
<1> DEFINE n == Len(items)
           A == Seq(S)
           Kept(a, i) == IF items[i] \in system /\ i - 1 # Len(a) THEN Append(a, items[i]) ELSE a
           step == [p \in A \X (1 .. n) |-> Kept(p[1], p[2])]
           none == << >>
           Is(f) == f = [i \in 0 .. n |-> IF i = 0 THEN none ELSE Kept(f[i - 1], i)]
           g == CHOOSE h : Is(h)
<1>1. n \in Nat /\ \A i \in 1 .. n : items[i] \in S
  BY LenProperties, ElementOfSeq
<1>2. ASSUME NEW a \in A, NEW i \in 1 .. n PROVE Kept(a, i) \in A
  BY <1>1, AppendProperties
<1>3. none \in A
  BY EmptySeq
<1>4. ListFilter(items, system) = g[n]
  BY DEF ListFilter
<1> HIDE DEF n, A, Kept, none
<1>5. step \in [A \X (1 .. n) -> A]
  BY <1>2
<1>6. PICK f \in [0 .. n -> A] : IsRecursion(f, n, none, step)
  <2> HIDE DEF step
  <2> QED BY <1>1, <1>3, <1>5, BoundedRecursion
<1>7. Is(f)
  <2>1. \A i \in 0 .. n : i # 0 => i - 1 \in 0 .. n /\ i \in 1 .. n
    BY <1>1
  <2>2. \A i \in 0 .. n : i # 0 => step[<<f[i - 1], i>>] = Kept(f[i - 1], i)
    BY <2>1
  <2> HIDE DEF step
  <2> QED BY <1>6, <2>2 DEF IsRecursion
<1>8. Is(g)
  BY <1>7
<1> HIDE DEF g, step
<1>9. \A i \in 0 .. n : g[i] = IF i = 0 THEN none ELSE Kept(g[i - 1], i)
  BY <1>8
<1> HIDE DEF Is
<1>10. \A i \in 0 .. n : g[i] \in A
  <2> DEFINE U == {k \in 0 .. n : g[k] \in A}
  <2>1. 0 \in U
    BY <1>1, <1>3, <1>9
  <2>2. ASSUME NEW i \in 1 .. n, i - 1 \in U PROVE i \in U
    <3>1. i \in 0 .. n /\ i # 0 /\ g[i - 1] \in A
      BY <1>1, <2>2
    <3> QED BY <1>2, <1>9, <3>1
  <2> HIDE DEF U
  <2>3. \A i \in 0 .. n : i \in U
    BY <1>1, <2>1, <2>2, BoundedInduction
  <2> QED BY <2>3 DEF U
<1>11. g[n] \in A
  BY <1>1, <1>10
<1> QED BY <1>4, <1>11 DEF A

\* What is in the answer to a list is selected, and on the server.
LEMMA ListedFacts ==
  ASSUME ServerType, NEW v, NEW n \in Listed(v)
  PROVE  n \in Selected /\ n \in Names /\ At(v)[n] # NoObj
<1> DEFINE present == {m \in Names : At(v)[m] # NoObj}
           items == Filter(Order[kind], present)
           T == Names \cap present
<1>1. Order[kind] \in Seq(Names)
  BY KindsAssumption DEF ServerType, Names
<1>2. items \in Seq(T)
  <2> HIDE DEF present
  <2> QED BY <1>1, FilterType
<1>3. ListFilter(items, System) \in Seq(T)
  <2> HIDE DEF items, T
  <2> QED BY <1>2, ListFilterType
<1> DEFINE answer == IF kind = "pod" THEN ListFilter(items, System) ELSE items
<1>4. answer \in Seq(T) /\ n \in ToSet(answer) \cap Selected
  BY <1>2, <1>3 DEF Listed
<1> HIDE DEF answer, T
<1>5. n \in T
  <2>1. PICK i \in DOMAIN answer : n = answer[i]
    BY <1>4 DEF ToSet
  <2> QED BY <1>4, <2>1, LenProperties, ElementOfSeq
<1> QED BY <1>4, <1>5 DEF T

-----------------------------------------------------------------------------
(* The change functions *)

\* The messages differ.
LEMMA MessagesDiffer ==
  /\ <<"deleted">> \notin {<<"may not transition">>, <<"condition changed", "Ready">>, <<"deleted and recreated">>,
                           <<"changed", "Degraded", "True">>, <<"changed", "Degraded", "False">>, <<"reached", "v">>}
  /\ <<"deleted and recreated">> \notin {<<"may not transition">>, <<"condition changed", "Ready">>,
                           <<"changed", "Degraded", "True">>, <<"changed", "Degraded", "False">>, <<"reached", "v">>}
  /\ <<"condition changed", "Ready">> \notin {<<"may not transition">>,
                           <<"changed", "Degraded", "True">>, <<"changed", "Degraded", "False">>, <<"reached", "v">>}
  /\ <<"changed", "Degraded", "True">> \notin {<<"may not transition">>,
                                               <<"changed", "Degraded", "False">>, <<"reached", "v">>}
  /\ <<"changed", "Degraded", "False">> \notin {<<"may not transition">>, <<"reached", "v">>}
  /\ <<"may not transition">> # <<"reached", "v">>
  /\ <<"failed contacting the API">> \notin Messages
  BY DEF Messages

\* The conditions that the change functions of a kind return.
PodConds(n, old, new) == IF new.bad /\ ~old.bad THEN {Cond("Error", <<n, new.uid>>, <<"may not transition">>)} ELSE {}
NodeConds(n, old, new) ==
  (IF new.bad # old.bad THEN {Cond("Warning", <<n, new.uid>>, <<"condition changed", "Ready">>)} ELSE {})
    \cup (IF new.uid # old.uid THEN {Cond("Error", <<n, new.uid>>, <<"deleted and recreated">>)} ELSE {})
OperatorConds(n, old, new) ==
  IF new.bad = old.bad THEN {}
  ELSE IF new.bad THEN {Cond("Error", <<n, new.uid>>, <<"changed", "Degraded", "True">>)}
  ELSE {Cond("Warning", <<n, new.uid>>, <<"changed", "Degraded", "False">>)}
VersionConds(n, old, new) == IF old.bad /\ ~new.bad THEN {Cond("Warning", <<n, new.uid>>, <<"reached", "v">>)} ELSE {}

\* A pod that becomes pending.
LEMMA PodChange ==
  ASSUME NEW n, NEW old \in Objects, NEW new \in Objects, kind = "pod"
  PROVE  ChangeFunctions(n, old, new) = <<PodConds(n, old, new), {}, {}>>
<1> DEFINE p == Expand(n, new)
           q == Expand(n, old)
<1>1. /\ p.id = <<n, new.uid>> /\ p.phase = (IF new.bad THEN "Pending" ELSE "Running") /\ ~p.deleting /\ ~p.mirror
      /\ p.grace = FALSE /\ p.conts = << >> /\ p.inits = << >>
      /\ q.phase = (IF old.bad THEN "Pending" ELSE "Running") /\ q.grace = FALSE /\ q.conts = << >> /\ q.inits = << >>
  BY DEF Expand
<1>2. ChangeFunctions(n, old, new) = podChangeFns(p, q)
  BY DEF ChangeFunctions
<1> HIDE DEF p, q
<1>3. PhaseChange(p, q) = PodConds(n, old, new)
  BY <1>1 DEF PhaseChange, PodConds, Objects
<1>4. DeletionChange(p, q) = {}
  BY <1>1 DEF DeletionChange
<1>5. ContainerChange(p, q) = {}
  BY <1>1 DEF ContainerChange, StatusChanges
<1> QED BY <1>2, <1>3, <1>4, <1>5 DEF podChangeFns

\* A node whose condition changes, or that is another one.
LEMMA NodeChange ==
  ASSUME NEW n, NEW old \in Objects, NEW new \in Objects, kind = "node"
  PROVE  ChangeFunctions(n, old, new) = <<NodeConds(n, old, new)>>
<1> DEFINE p == Expand(n, new)
           q == Expand(n, old)
           Status(o) == IF o.bad THEN "False" ELSE "True"
           conds(o) == <<[name |-> "Ready", status |-> Status(o)]>>
<1>1. /\ p.id = <<n, new.uid>> /\ q.id = <<n, old.uid>>
      /\ p.conds = conds(new) /\ q.conds = conds(old)
  BY DEF Expand
<1>2. \A o : DOMAIN conds(o) = {1} /\ conds(o)[1].name = "Ready" /\ conds(o)[1].status = Status(o)
  OBVIOUS
<1>3. ChangeFunctions(n, old, new) = nodeChangeFns(p, q)
  BY DEF ChangeFunctions
<1> HIDE DEF p, q, conds
<1>4. findStatus(q.conds, p.conds[1].name, 1) = 1
  BY <1>1, <1>2 DEF findStatus
<1>5. p.conds[1].status # q.conds[1].status <=> new.bad # old.bad
  BY <1>1, <1>2 DEF Objects
<1> DEFINE Differs(i) == LET k == findStatus(q.conds, p.conds[i].name, i)
                         IN  k # 0 /\ p.conds[i].status # q.conds[k].status
           changed == {i \in DOMAIN p.conds : Differs(i)}
<1>6. changed = IF new.bad # old.bad THEN {1} ELSE {}
  <2>1. DOMAIN p.conds = {1}
    BY <1>1, <1>2
  <2>2. Differs(1) <=> new.bad # old.bad
    BY <1>4, <1>5
  <2> HIDE DEF Differs
  <2> QED BY <2>1, <2>2
<1>7. nodeChangeFns(p, q) =
        <<{Cond("Warning", p.id, <<"condition changed", p.conds[i].name>>) : i \in changed}
            \cup (IF p.id # q.id THEN {Cond("Error", p.id, <<"deleted and recreated">>)} ELSE {})>>
  BY DEF nodeChangeFns
<1> HIDE DEF changed
<1>8. {Cond("Warning", p.id, <<"condition changed", p.conds[i].name>>) : i \in changed} =
        IF new.bad # old.bad THEN {Cond("Warning", <<n, new.uid>>, <<"condition changed", "Ready">>)} ELSE {}
  BY <1>1, <1>2, <1>6
<1>9. p.id # q.id <=> new.uid # old.uid
  BY <1>1
<1> QED BY <1>1, <1>3, <1>7, <1>8, <1>9 DEF NodeConds

\* An operator that becomes degraded, or is not any more.
LEMMA OperatorChange ==
  ASSUME NEW n, NEW old \in Objects, NEW new \in Objects, kind = "clusteroperator"
  PROVE  ChangeFunctions(n, old, new) = <<OperatorConds(n, old, new)>>
<1> DEFINE p == Expand(n, new)
           q == Expand(n, old)
           Status(o) == IF o.bad THEN "True" ELSE "False"
           conds(o) == <<[name |-> "Degraded", status |-> Status(o)]>>
<1>1. /\ p.id = <<n, new.uid>> /\ q.id = <<n, old.uid>> /\ p.versions = << >> /\ q.versions = << >>
      /\ p.conds = conds(new) /\ q.conds = conds(old)
  BY DEF Expand
<1>2. \A o : DOMAIN conds(o) = {1} /\ Len(conds(o)) = 1 /\ conds(o)[1].name = "Degraded" /\ conds(o)[1].status = Status(o)
  OBVIOUS
<1>3. ChangeFunctions(n, old, new) = coChangeFns(p, q)
  BY DEF ChangeFunctions
<1> HIDE DEF p, q, conds
<1>4. FirstNamed(q.conds, p.conds[1].name) = 1
  <2> DEFINE I == {i \in 1 .. Len(q.conds) : q.conds[i].name = p.conds[1].name}
  <2>1. I = {1}
    <3>1. Len(q.conds) = 1 /\ q.conds[1].name = p.conds[1].name
      BY <1>1, <1>2
    <3> QED BY <3>1
  <2>2. FirstNamed(q.conds, p.conds[1].name) = IF I # {} THEN Min(I) ELSE 0
    BY DEF FirstNamed, SelectInSeq
  <2> HIDE DEF I
  <2> QED BY <2>1, <2>2 DEF Min
<1>5. p.conds[1].status # q.conds[1].status <=> new.bad # old.bad
  BY <1>1, <1>2 DEF Objects
<1>6. ConditionChange(p, q) = OperatorConds(n, old, new)
  <2> DEFINE Differs(i) == LET k == FirstNamed(q.conds, p.conds[i].name)
                           IN  k # 0 /\ p.conds[i].status # q.conds[k].status
             changed == {i \in DOMAIN p.conds : Differs(i)}
             Level(c) == IF c.name \in {"Degraded", "Failing"} /\ c.status = "True" THEN "Error" ELSE "Warning"
             Of(i) == Cond(Level(p.conds[i]), p.id, <<"changed", p.conds[i].name, p.conds[i].status>>)
  <2>1. changed = IF new.bad # old.bad THEN {1} ELSE {}
    <3>1. DOMAIN p.conds = {1}
      BY <1>1, <1>2
    <3>2. Differs(1) <=> new.bad # old.bad
      BY <1>4, <1>5
    <3> HIDE DEF Differs
    <3> QED BY <3>1, <3>2
  <2>2. ConditionChange(p, q) = {Of(i) : i \in changed}
    BY DEF ConditionChange
  <2>3. Of(1) = IF new.bad THEN Cond("Error", <<n, new.uid>>, <<"changed", "Degraded", "True">>)
                ELSE Cond("Warning", <<n, new.uid>>, <<"changed", "Degraded", "False">>)
    BY <1>1, <1>2
  <2> HIDE DEF changed, Of
  <2>4. {Of(i) : i \in changed} = IF new.bad # old.bad THEN {Of(1)} ELSE {}
    BY <2>1
  <2> QED BY <2>2, <2>3, <2>4 DEF OperatorConds
<1>7. findOperatorVersionChange(q.versions, p.versions) = << >>
  <2> DEFINE was == q.versions
             now == p.versions
             From(i) == was[RotatedSearch(was, now[i].name, i)].version
             Step(a, i) == IF RotatedSearch(was, now[i].name, i) # 0 /\ From(i) # now[i].version
                           THEN Append(a, <<now[i].name, From(i), now[i].version>>) ELSE a
             none == << >>
             Is(f) == f = [i \in 0 .. Len(now) |-> IF i = 0 THEN none ELSE Step(f[i - 1], i)]
             g == CHOOSE h : Is(h)
  <2>1. findOperatorVersionChange(was, now) = g[Len(now)]
    BY DEF findOperatorVersionChange
  <2>2. Len(now) = 0
    BY <1>1
  <2> HIDE DEF was, now, Step, none
  <2>3. Is([i \in 0 .. 0 |-> none])
    BY <2>2
  <2>4. Is(g)
    BY <2>3
  <2> HIDE DEF g
  <2>5. g[0] = none
    BY <2>2, <2>4
  <2> QED BY <2>1, <2>2, <2>5 DEF was, now, none
<1> QED BY <1>3, <1>6, <1>7 DEF coChangeFns

\* An update that is reached.
LEMMA VersionChange ==
  ASSUME NEW n, NEW old \in Objects, NEW new \in Objects, kind = "clusterversion"
  PROVE  ChangeFunctions(n, old, new) = <<VersionConds(n, old, new), {}>>
<1> DEFINE p == Expand(n, new)
           q == Expand(n, old)
           State(o) == IF o.bad THEN "Partial" ELSE "Completed"
           entries(o) == <<[state |-> State(o), image |-> "i", version |-> "v"]>>
<1>1. /\ p.id = <<n, new.uid>> /\ p.conds = << >> /\ q.conds = << >>
      /\ p.history = entries(new) /\ q.history = entries(old)
  BY DEF Expand
<1>2. \A o : /\ entries(o) # << >> /\ entries(o)[1].state = State(o)
             /\ entries(o)[1].image = "i" /\ entries(o)[1].version = "v"
  OBVIOUS
<1>3. ChangeFunctions(n, old, new) = cvChangeFns(p, q)
  BY DEF ChangeFunctions
<1> HIDE DEF p, q, entries
<1>4. HistoryChange(p, q) = VersionConds(n, old, new)
  BY <1>1, <1>2 DEF HistoryChange, VersionConds, Objects
<1>5. ConditionChange(p, q) = {}
  BY <1>1 DEF ConditionChange
<1> QED BY <1>3, <1>4, <1>5 DEF cvChangeFns

-----------------------------------------------------------------------------
(* The handlers *)

\* The sets of conditions of one call of a handler, of which only one has elements.
Finite(S) == {T \in SUBSET S : IsFiniteSet(T)}

LEMMA SetsOfCall ==
  ASSUME NEW S, IsFiniteSet(S)
  PROVE  /\ << >> \in Seq(Finite(S)) /\ UNION ToSet(<< >>) = {}
         /\ \A s \in {<<S>>, <<S, {}>>, <<S, {}, {}>>} : s \in Seq(Finite(S)) /\ UNION ToSet(s) = S
<1>1. S \in Finite(S) /\ {} \in Finite(S)
  BY FS_EmptySet DEF Finite
<1> DEFINE e == {}
<1>2. \A s \in {<<S>>, <<S, e>>, <<S, e, e>>} :
         s \in Seq(Finite(S)) /\ UNION ToSet(s) = S
  <2> HIDE DEF e
  <2>1. e = {}
    BY DEF e
  <2>2. ToSet(<<S>>) = {S} /\ ToSet(<<S, e>>) = {S, e} /\ ToSet(<<S, e, e>>) = {S, e}
    BY DEF ToSet
  <2>3. UNION {S} = S /\ UNION {S, e} = S
    BY <2>1
  <2>4. e \in Finite(S)
    BY <1>1, <2>1
  <2>5. <<S>> \in Seq(Finite(S)) /\ <<S, e>> \in Seq(Finite(S)) /\ <<S, e, e>> \in Seq(Finite(S))
    BY <1>1, <2>4
  <2>6. UNION ToSet(<<S>>) = S /\ UNION ToSet(<<S, e>>) = S /\ UNION ToSet(<<S, e, e>>) = S
    BY <2>2, <2>3
  <2> QED BY <2>5, <2>6
<1>3. ToSet(<< >>) = {} /\ << >> \in Seq(Finite(S))
  BY EmptySeq DEF ToSet
<1> QED BY <1>2, <1>3

\* The conditions that an update records.
UpdateConds(n, old, new) ==
  CASE kind # "node" /\ old.uid # new.uid -> {}
    [] kind = "node" -> NodeConds(n, old, new)
    [] kind = "pod" /\ old.uid = new.uid -> PodConds(n, old, new)
    [] kind = "clusteroperator" /\ old.uid = new.uid -> OperatorConds(n, old, new)
    [] kind = "clusterversion" /\ old.uid = new.uid -> VersionConds(n, old, new)

InformerKind == kind \in {"pod", "node", "clusteroperator", "clusterversion"}

LEMMA UpdateSets ==
  ASSUME NEW n, NEW old \in Objects, NEW new \in Objects, InformerKind
  PROVE  /\ UpdateFunc(n, old, new) \in Seq(Finite(UpdateConds(n, old, new)))
         /\ UNION ToSet(UpdateFunc(n, old, new)) = UpdateConds(n, old, new)
<1>1. \A c, d : IsFiniteSet({}) /\ IsFiniteSet({c}) /\ IsFiniteSet({c} \cup {d})
  BY FS_EmptySet, FS_Singleton, FS_Union
<1>2. CASE kind # "node" /\ old.uid # new.uid
  <2> DEFINE S == {}
  <2>1. UpdateFunc(n, old, new) = << >> /\ UpdateConds(n, old, new) = S
    BY <1>2 DEF UpdateFunc, UpdateConds
  <2>2. IsFiniteSet(S)
    BY <1>1
  <2>3. UNION ToSet(<< >>) = S
    BY <2>2, SetsOfCall
  <2> HIDE DEF S
  <2> QED BY <2>1, <2>2, <2>3, SetsOfCall
<1>3. CASE kind = "node"
  <2> DEFINE S == NodeConds(n, old, new)
  <2>1. UpdateFunc(n, old, new) = <<S>> /\ UpdateConds(n, old, new) = S
    BY <1>3, NodeChange DEF UpdateFunc, UpdateConds
  <2>2. IsFiniteSet(S)
    <3> DEFINE c == Cond("Warning", <<n, new.uid>>, <<"condition changed", "Ready">>)
               d == Cond("Error", <<n, new.uid>>, <<"deleted and recreated">>)
    <3>1. S = {} \/ S = {c} \/ S = {d} \/ S = {c} \cup {d}
      <4>1. S = (IF new.bad # old.bad THEN {c} ELSE {}) \cup (IF new.uid # old.uid THEN {d} ELSE {})
        BY DEF NodeConds
      <4> HIDE DEF c, d, S
      <4> QED BY <4>1
    <3> HIDE DEF c, d, S
    <3> QED BY <1>1, <3>1
  <2> HIDE DEF S
  <2> QED BY <2>1, <2>2, SetsOfCall
<1>4. CASE kind = "pod" /\ old.uid = new.uid
  <2> DEFINE S == PodConds(n, old, new)
  <2>1. UpdateFunc(n, old, new) = <<S, {}, {}>> /\ UpdateConds(n, old, new) = S
    BY <1>4, PodChange DEF UpdateFunc, UpdateConds
  <2>2. IsFiniteSet(S)
    BY <1>1 DEF PodConds
  <2> HIDE DEF S
  <2> QED BY <2>1, <2>2, SetsOfCall
<1>5. CASE kind = "clusteroperator" /\ old.uid = new.uid
  <2> DEFINE S == OperatorConds(n, old, new)
  <2>1. UpdateFunc(n, old, new) = <<S>> /\ UpdateConds(n, old, new) = S
    BY <1>5, OperatorChange DEF UpdateFunc, UpdateConds
  <2>2. IsFiniteSet(S)
    BY <1>1 DEF OperatorConds
  <2> HIDE DEF S
  <2> QED BY <2>1, <2>2, SetsOfCall
<1>6. CASE kind = "clusterversion" /\ old.uid = new.uid
  <2> DEFINE S == VersionConds(n, old, new)
  <2>1. UpdateFunc(n, old, new) = <<S, {}>> /\ UpdateConds(n, old, new) = S
    BY <1>6, VersionChange DEF UpdateFunc, UpdateConds
  <2>2. IsFiniteSet(S)
    BY <1>1 DEF VersionConds
  <2> HIDE DEF S
  <2> QED BY <2>1, <2>2, SetsOfCall
<1> QED BY <1>2, <1>3, <1>4, <1>5, <1>6 DEF InformerKind

\* What the handling of one delta may record: an error only when the object became
\* another one (a node) or got worse.
Caused(n, old, new) ==
  {r \in Record : r.level = "Error" =>
     /\ r.locator = <<n, new.uid>> /\ old # NoObj /\ new # NoObj
     /\ IF kind = "node" THEN old.uid # new.uid ELSE old.uid = new.uid /\ ~old.bad /\ new.bad}

LEMMA CausedFacts ==
  ASSUME NEW n \in Names, NEW old \in Objects \cup {NoObj}, NEW new \in Objects \cup {NoObj}, InformerKind
  PROVE  /\ old \in Objects /\ new \in Objects => UpdateConds(n, old, new) \subseteq Caused(n, old, new)
         /\ \A uid \in Nat : \A c \in {Cond("Info", <<n, uid>>, <<"created">>), Cond("Warning", <<n, uid>>, <<"deleted">>)} :
              c \in Caused(n, old, new)
<1>1. \A uid \in Nat : <<n, uid>> \in (Names \cup {"event", "kube-apiserver"}) \X Nat
  OBVIOUS
<1>2. Objects \cap {NoObj} = {} /\ \A o \in Objects : o.uid \in Nat /\ o.bad \in BOOLEAN
  BY DEF Objects, NoObj
<1>3. \A level \in {"Info", "Warning", "Error"}, l \in (Names \cup {"event", "kube-apiserver"}) \X Nat, m \in Messages :
        /\ Cond(level, l, m) \in Record
        /\ Cond(level, l, m).level = level /\ Cond(level, l, m).locator = l
  BY DEF Cond, Record
<1>4. ASSUME NEW uid \in Nat
      PROVE  /\ Cond("Info", <<n, uid>>, <<"created">>) \in Caused(n, old, new)
             /\ Cond("Warning", <<n, uid>>, <<"deleted">>) \in Caused(n, old, new)
  <2>1. <<"created">> \in Messages /\ <<"deleted">> \in Messages
    BY DEF Messages
  <2> QED BY <1>1, <1>3, <2>1 DEF Caused
<1>5. ASSUME old \in Objects, new \in Objects PROVE UpdateConds(n, old, new) \subseteq Caused(n, old, new)
  <2> DEFINE l == <<n, new.uid>>
  <2>1. l \in (Names \cup {"event", "kube-apiserver"}) \X Nat /\ old # NoObj /\ new # NoObj
    BY <1>1, <1>2, <1>5
  <2> HIDE DEF l
  <2>2. CASE kind = "node"
    <3> DEFINE ready == <<"condition changed", "Ready">>
               other == <<"deleted and recreated">>
               c == Cond("Warning", l, ready)
               d == Cond("Error", l, other)
    <3>1. ready \in Messages /\ other \in Messages
      BY DEF Messages
    <3>2. c \in Record /\ c.level = "Warning" /\ d \in Record /\ d.locator = l
      <4> HIDE DEF ready, other
      <4> QED BY <1>3, <2>1, <3>1
    <3>3. \A e \in UpdateConds(n, old, new) : e = c \/ (e = d /\ old.uid # new.uid)
      BY <2>2 DEF UpdateConds, NodeConds, l
    <3> HIDE DEF c, d
    <3> QED BY <2>1, <2>2, <3>2, <3>3 DEF Caused, l
  <2>3. CASE kind = "pod"
    <3> DEFINE d == Cond("Error", l, <<"may not transition">>)
    <3>1. <<"may not transition">> \in Messages
      BY DEF Messages
    <3>2. d \in Record /\ d.locator = l
      BY <1>3, <2>1, <3>1
    <3>3. \A e \in UpdateConds(n, old, new) : e = d /\ old.uid = new.uid /\ ~old.bad /\ new.bad
      BY <2>3 DEF UpdateConds, PodConds, l
    <3> HIDE DEF d
    <3> QED BY <2>1, <2>3, <3>2, <3>3 DEF Caused, l
  <2>4. CASE kind = "clusteroperator"
    <3> DEFINE worse == <<"changed", "Degraded", "True">>
               better == <<"changed", "Degraded", "False">>
               c == Cond("Warning", l, better)
               d == Cond("Error", l, worse)
    <3>1. worse \in Messages /\ better \in Messages
      BY DEF Messages
    <3>2. c \in Record /\ c.level = "Warning" /\ d \in Record /\ d.locator = l
      <4> HIDE DEF worse, better
      <4> QED BY <1>3, <2>1, <3>1
    <3>3. \A e \in UpdateConds(n, old, new) :
            e = c \/ (e = d /\ old.uid = new.uid /\ ~old.bad /\ new.bad)
      BY <1>2, <1>5, <2>4 DEF UpdateConds, OperatorConds, l
    <3> HIDE DEF c, d
    <3> QED BY <2>1, <2>4, <3>2, <3>3 DEF Caused, l
  <2>5. CASE kind = "clusterversion"
    <3> DEFINE arrived == <<"reached", "v">>
               c == Cond("Warning", l, arrived)
    <3>1. arrived \in Messages
      BY DEF Messages
    <3>2. c \in Record /\ c.level = "Warning"
      <4> HIDE DEF arrived
      <4> QED BY <1>3, <2>1, <3>1
    <3>3. \A e \in UpdateConds(n, old, new) : e = c
      BY <2>5 DEF UpdateConds, VersionConds, l
    <3> HIDE DEF c
    <3> QED BY <3>2, <3>3 DEF Caused
  <2> QED BY <2>2, <2>3, <2>4, <2>5 DEF InformerKind
<1> QED BY <1>4, <1>5

\* What is recorded for a notification is caused by it.
LEMMA NoticeLog ==
  ASSUME NEW n \in Names, NEW c \in KnownNotice, InformerKind
  PROVE  LET sets == Conditions(n, c)
         IN  FlattenSeq([i \in DOMAIN sets |-> SetToSeq(sets[i])]) \in Seq(Caused(n, c.old, c.new))
<1> DEFINE sets == Conditions(n, c)
           X == Caused(n, c.old, c.new)
           t == FlattenSeq([i \in DOMAIN sets |-> SetToSeq(sets[i])])
<1>1. /\ c.type \in {"set", "delete", "tomb"} /\ c.old \in Objects \cup {NoObj} /\ c.new \in Objects \cup {NoObj}
      /\ c.old.uid \in Nat /\ c.new.uid \in Nat /\ (c.type = "set" => c.new \in Objects)
  BY DEF KnownNotice, Objects, NoObj
<1>2. \E C \in SUBSET X : sets \in Seq(Finite(C))
  <2>1. IsFiniteSet({}) /\ \A d : IsFiniteSet({d})
    BY FS_EmptySet, FS_Singleton
  <2>2. << >> \in Seq(Finite({}))
    BY <2>1, SetsOfCall
  <2>3. \A d : <<{d}>> \in Seq(Finite({d}))
    BY <2>1, SetsOfCall
  <2> DEFINE created == Cond("Info", <<n, c.new.uid>>, <<"created">>)
             deleted == Cond("Warning", <<n, c.old.uid>>, <<"deleted">>)
  <2>4. created \in X /\ deleted \in X
    BY <1>1, CausedFacts
  <2>5. CASE c.type # "set"
    <3>1. sets = << >> \/ sets = <<{deleted}>>
      BY <2>5 DEF Conditions, DeleteFunc
    <3> HIDE DEF created, deleted, sets, X
    <3>2. {} \in SUBSET X /\ {deleted} \in SUBSET X
      BY <2>4
    <3> QED BY <2>2, <2>3, <3>1, <3>2
  <2>6. CASE c.type = "set" /\ c.old = NoObj
    <3>1. sets = << >> \/ sets = <<{created}>>
      BY <2>6 DEF Conditions, AddFunc
    <3> HIDE DEF created, deleted, sets, X
    <3>2. {} \in SUBSET X /\ {created} \in SUBSET X
      BY <2>4
    <3> QED BY <2>2, <2>3, <3>1, <3>2
  <2>7. CASE c.type = "set" /\ c.old # NoObj
    <3>1. sets = UpdateFunc(n, c.old, c.new) /\ c.old \in Objects /\ c.new \in Objects
      BY <1>1, <2>7 DEF Conditions
    <3>2. sets \in Seq(Finite(UpdateConds(n, c.old, c.new)))
      <4>1. UpdateFunc(n, c.old, c.new) \in Seq(Finite(UpdateConds(n, c.old, c.new)))
        BY <3>1, UpdateSets
      <4> QED BY <3>1, <4>1
    <3>3. UpdateConds(n, c.old, c.new) \in SUBSET X
      BY <1>1, <3>1, CausedFacts
    <3> HIDE DEF sets, X
    <3> QED BY <3>2, <3>3
  <2> QED BY <1>1, <2>5, <2>6, <2>7
<1> HIDE DEF X, sets
<1>3. PICK C \in SUBSET X : sets \in Seq(Finite(C))
  BY <1>2
<1>4. t \in Seq(C)
  BY <1>3, FlattenSets DEF Finite
<1> HIDE DEF t
<1>5. t \in Seq(X)
  BY <1>3, <1>4, SeqMonotonic
<1> QED BY <1>5 DEF X, t, sets

\* What a reader knows agrees with the object, before and after a notification, unless
\* its departure was not recorded.
Known(t, o, gone) == /\ t \in Objects \cup {NoObj} /\ gone \in BOOLEAN
                     /\ o # NoObj => t # NoObj
                     /\ ~gone => Agrees(t, o)

LEMMA UpdateTold ==
  ASSUME NEW n, NEW old \in Objects, NEW new \in Objects, NEW was, NEW gone, InformerKind,
         Known(was, old, gone), ~gone => kind = "node" \/ old.uid = new.uid
  PROVE  Known(Told(was, old, new, UpdateConds(n, old, new)), new, gone)
<1> DEFINE conds == UpdateConds(n, old, new)
           Says(message) == \E c \in conds : c.message = message
           t == Told(was, old, new, conds)
<1>1. /\ was \in Objects /\ old # NoObj /\ new # NoObj /\ was # NoObj
      /\ was.uid \in 1 .. MaxVersion + 1 /\ was.bad \in BOOLEAN
      /\ old.uid \in 1 .. MaxVersion + 1 /\ old.bad \in BOOLEAN
      /\ new.uid \in 1 .. MaxVersion + 1 /\ new.bad \in BOOLEAN
      /\ \A u \in 1 .. MaxVersion + 1, b \in BOOLEAN : [uid |-> u, bad |-> b] \in Objects /\ [uid |-> u, bad |-> b] # NoObj
  BY DEF Known, Objects, NoObj
<1>2. \A level, l, m : Cond(level, l, m).message = m
  BY DEF Cond
<1> DEFINE away == <<"deleted">>
           other == <<"deleted and recreated">>
           ready == <<"condition changed", "Ready">>
           worse == <<"changed", "Degraded", "True">>
           better == <<"changed", "Degraded", "False">>
           pending == <<"may not transition">>
           arrived == <<"reached", "v">>
           l == <<n, new.uid>>
           uid == IF Says(other) THEN new.uid ELSE was.uid
           bad == CASE Says(ready) -> ~was.bad
                    [] Says(worse) -> TRUE
                    [] Says(better) -> FALSE
                    [] Says(pending) -> TRUE
                    [] Says(arrived) -> FALSE
                    [] OTHER -> was.bad
<1>3. /\ away \notin {other, ready, worse, better, pending, arrived}
      /\ other \notin {ready, worse, better, pending, arrived}
      /\ ready \notin {worse, better, pending, arrived} /\ worse \notin {better, pending, arrived}
      /\ better \notin {pending, arrived} /\ pending # arrived
  BY MessagesDiffer
<1>4. ~Says(away) => t = [was EXCEPT !.uid = uid, !.bad = bad]
  BY <1>1 DEF Told
<1>5. CASE kind = "node"
  <2>1. conds = (IF new.bad # old.bad THEN {Cond("Warning", l, ready)} ELSE {})
                  \cup (IF new.uid # old.uid THEN {Cond("Error", l, other)} ELSE {})
    BY <1>5 DEF UpdateConds, NodeConds
  <2> HIDE DEF conds, away, other, ready, worse, better, pending, arrived, l
  <2>2. Says(other) <=> new.uid # old.uid
    BY <1>2, <1>3, <2>1
  <2>3. Says(ready) <=> new.bad # old.bad
    BY <1>2, <1>3, <2>1
  <2>4. ~Says(worse) /\ ~Says(better) /\ ~Says(pending) /\ ~Says(arrived) /\ ~Says(away)
    BY <1>2, <1>3, <2>1
  <2> HIDE DEF Says
  <2>5. bad = IF new.bad # old.bad THEN ~was.bad ELSE was.bad
    BY <2>3, <2>4
  <2>6. uid = IF new.uid # old.uid THEN new.uid ELSE was.uid
    BY <2>2
  <2> HIDE DEF bad, uid
  <2>7. t.uid = uid /\ t.bad = bad /\ t \in Objects
    BY <1>1, <1>4, <2>4, <2>5, <2>6 DEF Objects
  <2> HIDE DEF t
  <2>8. t # NoObj
    BY <2>7 DEF Objects, NoObj
  <2>9. ~gone => Agrees(t, new)
    BY <1>1, <1>5, <2>5, <2>6, <2>7 DEF Known, Agrees
  <2> QED BY <2>7, <2>8, <2>9 DEF Known, t, conds
<1>6. CASE kind = "pod"
  <2>1. conds = IF old.uid = new.uid /\ new.bad /\ ~old.bad THEN {Cond("Error", l, pending)} ELSE {}
    BY <1>6 DEF UpdateConds, PodConds
  <2> HIDE DEF conds, away, other, ready, worse, better, pending, arrived, l
  <2>2. Says(pending) <=> old.uid = new.uid /\ new.bad /\ ~old.bad
    BY <1>2, <1>3, <2>1
  <2>3. ~Says(worse) /\ ~Says(better) /\ ~Says(ready) /\ ~Says(arrived) /\ ~Says(other) /\ ~Says(away)
    BY <1>2, <1>3, <2>1
  <2> HIDE DEF Says
  <2>4. bad = (IF old.uid = new.uid /\ new.bad /\ ~old.bad THEN TRUE ELSE was.bad)
    BY <2>2, <2>3
  <2>5. uid = was.uid
    BY <2>3
  <2> HIDE DEF bad, uid
  <2>6. t.uid = uid /\ t.bad = bad /\ t \in Objects
    BY <1>1, <1>4, <2>3, <2>4, <2>5 DEF Objects
  <2> HIDE DEF t
  <2>7. t # NoObj
    BY <2>6 DEF Objects, NoObj
  <2>8. ~gone => Agrees(t, new)
    BY <1>1, <1>6, <2>4, <2>5, <2>6 DEF Known, Agrees
  <2> QED BY <2>6, <2>7, <2>8 DEF Known, t, conds
<1>7. CASE kind = "clusteroperator"
  <2>1. conds = IF old.uid # new.uid \/ new.bad = old.bad THEN {}
                ELSE IF new.bad THEN {Cond("Error", l, worse)} ELSE {Cond("Warning", l, better)}
    BY <1>7 DEF UpdateConds, OperatorConds
  <2> HIDE DEF conds, away, other, ready, worse, better, pending, arrived, l
  <2>2. /\ Says(worse) <=> old.uid = new.uid /\ new.bad /\ ~old.bad
        /\ Says(better) <=> old.uid = new.uid /\ ~new.bad /\ old.bad
    BY <1>1, <1>2, <1>3, <2>1
  <2>3. ~Says(pending) /\ ~Says(ready) /\ ~Says(arrived) /\ ~Says(other) /\ ~Says(away)
    BY <1>2, <1>3, <2>1
  <2> HIDE DEF Says
  <2>4. bad = IF old.uid = new.uid /\ new.bad # old.bad THEN new.bad ELSE was.bad
    BY <1>1, <2>2, <2>3
  <2>5. uid = was.uid
    BY <2>3
  <2> HIDE DEF bad, uid
  <2>6. t.uid = uid /\ t.bad = bad /\ t \in Objects
    BY <1>1, <1>4, <2>3, <2>4, <2>5 DEF Objects
  <2> HIDE DEF t
  <2>7. t # NoObj
    BY <2>6 DEF Objects, NoObj
  <2>8. ~gone => Agrees(t, new)
    BY <1>1, <1>7, <2>4, <2>5, <2>6 DEF Known, Agrees
  <2> QED BY <2>6, <2>7, <2>8 DEF Known, t, conds
<1>8. CASE kind = "clusterversion"
  <2>1. conds = IF old.uid = new.uid /\ old.bad /\ ~new.bad THEN {Cond("Warning", l, arrived)} ELSE {}
    BY <1>8 DEF UpdateConds, VersionConds
  <2> HIDE DEF conds, away, other, ready, worse, better, pending, arrived, l
  <2>2. Says(arrived) <=> old.uid = new.uid /\ old.bad /\ ~new.bad
    BY <1>2, <1>3, <2>1
  <2>3. ~Says(worse) /\ ~Says(better) /\ ~Says(ready) /\ ~Says(pending) /\ ~Says(other) /\ ~Says(away)
    BY <1>2, <1>3, <2>1
  <2> HIDE DEF Says
  <2>4. bad = (IF old.uid = new.uid /\ old.bad /\ ~new.bad THEN FALSE ELSE was.bad)
    BY <2>2, <2>3
  <2>5. uid = was.uid
    BY <2>3
  <2> HIDE DEF bad, uid
  <2>6. t.uid = uid /\ t.bad = bad /\ t \in Objects
    BY <1>1, <1>4, <2>3, <2>4, <2>5 DEF Objects
  <2> HIDE DEF t
  <2>7. t # NoObj
    BY <2>6 DEF Objects, NoObj
  <2>8. ~gone => Agrees(t, new)
    BY <1>1, <1>8, <2>4, <2>5, <2>6 DEF Known, Agrees
  <2> QED BY <2>6, <2>7, <2>8 DEF Known, t, conds
<1> QED BY <1>5, <1>6, <1>7, <1>8 DEF InformerKind

\* The handling of a notification keeps what a reader knows.
LEMMA NoticeTold ==
  ASSUME NEW n, NEW c \in KnownNotice, NEW was, NEW obj, Known(was, obj, n \in lost), InformerKind,
         c.type = "set" => c.old = obj
  PROVE  Known(Told(was, c.old, c.new, UNION ToSet(Conditions(n, c))), c.new, Unrecorded(n, c))
<1> DEFINE sets == Conditions(n, c)
           old == c.old
           new == c.new
           t == Told(was, old, new, UNION ToSet(sets))
           gone == Unrecorded(n, c)
<1>1. /\ c.type \in {"set", "delete", "tomb"} /\ old \in Objects \cup {NoObj}
      /\ IF c.type = "set" THEN new \in Objects ELSE old \in Objects /\ new = NoObj
      /\ NoObj \notin Objects
  BY DEF KnownNotice, Objects, NoObj
<1>2. /\ gone \in BOOLEAN
      /\ gone <=> /\ old # NoObj
                  /\ c.type = "tomb" \/ n \in lost \/ (new # NoObj /\ kind # "node" /\ old.uid # new.uid)
  BY DEF Unrecorded
<1> HIDE DEF sets, gone
<1>3. CASE c.type = "set" /\ old = NoObj
  <2>1. t = new /\ new \in Objects /\ ~gone
    BY <1>1, <1>2, <1>3 DEF Told
  <2>2. Agrees(new, new)
    BY <1>1 DEF Agrees, InformerKind
  <2> QED BY <1>1, <1>2, <2>1, <2>2 DEF Known, gone, sets
<1>4. CASE c.type = "set" /\ old # NoObj
  <2>1. old \in Objects /\ new \in Objects /\ new # NoObj /\ Known(was, old, n \in lost)
    BY <1>1, <1>4
  <2>2. UNION ToSet(sets) = UpdateConds(n, old, new)
    <3>1. sets = UpdateFunc(n, old, new)
      BY <1>4 DEF Conditions, sets
    <3> QED BY <2>1, <3>1, UpdateSets
  <2>3. gone <=> n \in lost \/ (kind # "node" /\ old.uid # new.uid)
    BY <1>2, <1>4, <2>1
  <2>4. Known(was, old, gone) /\ (~gone => kind = "node" \/ old.uid = new.uid)
    BY <1>2, <2>1, <2>3 DEF Known
  <2> HIDE DEF old, new
  <2>5. Known(Told(was, old, new, UpdateConds(n, old, new)), new, gone)
    BY <2>1, <2>4, UpdateTold
  <2> QED BY <2>2, <2>5 DEF gone, sets, old, new
<1>5. CASE c.type = "delete"
  <2>1. old # NoObj /\ new = NoObj
    BY <1>1, <1>5
  <2>2. t = NoObj
    <3> DEFINE d == Cond("Warning", <<n, old.uid>>, <<"deleted">>)
    <3>1. sets = <<{d}>>
      BY <1>5 DEF sets, Conditions, DeleteFunc
    <3>2. d.message = <<"deleted">>
      BY DEF Cond
    <3> HIDE DEF d
    <3>3. UNION ToSet(sets) = {d}
      BY <3>1, FS_Singleton, SetsOfCall
    <3> QED BY <2>1, <3>2, <3>3 DEF Told
  <2>3. Agrees(NoObj, NoObj)
    BY DEF Agrees
  <2> QED BY <1>2, <2>1, <2>2, <2>3 DEF Known, gone, sets
<1>6. CASE c.type = "tomb"
  <2>1. old # NoObj /\ new = NoObj /\ gone
    BY <1>1, <1>2, <1>6
  <2>2. UNION ToSet(sets) = {}
    <3>1. sets = << >>
      BY <1>6 DEF sets, Conditions, DeleteFunc
    <3> QED BY <3>1, FS_EmptySet, SetsOfCall
  <2>3. t = [was EXCEPT !.uid = was.uid, !.bad = was.bad]
    BY <2>1, <2>2 DEF Told
  <2>4. t \in Objects \cup {NoObj}
    BY <2>3 DEF Known, Objects, NoObj
  <2> QED BY <1>2, <2>1, <2>4 DEF Known, gone, sets
<1> QED BY <1>1, <1>3, <1>4, <1>5, <1>6

-----------------------------------------------------------------------------
(* Requests and the log *)

\* Positions in a sequence are finitely many.
LEMMA FinitePositions ==
  ASSUME NEW S, NEW s \in Seq(S), NEW T \in SUBSET (DOMAIN s)
  PROVE  IsFiniteSet(T) /\ Len(s) + 1 \notin T /\ Len(s) \in Nat
<1>1. Len(s) \in Nat /\ DOMAIN s = 1 .. Len(s)
  BY LenProperties
<1>2. IsFiniteSet(1 .. Len(s))
  BY <1>1, FS_Interval
<1>3. IsFiniteSet(T)
  BY <1>1, <1>2, FS_Subset
<1>4. Len(s) + 1 \notin 1 .. Len(s)
  BY <1>1
<1> QED BY <1>1, <1>3, <1>4

\* Records of other things are not taken for outages.
LEMMA OutagesKept ==
  ASSUME NEW s \in Seq(Record \cup {Unreachable}), NEW t \in Seq(Record)
  PROVE  s \o t \in Seq(Record \cup {Unreachable}) /\ Outages(s \o t) = Outages(s)
<1> DEFINE R == Record \cup {Unreachable}
           outage == <<"failed contacting the API">>
           st == s \o t
<1>1. \A r \in Record : r.message # outage
  BY MessagesDiffer DEF Record
<1>2. s \in Seq(R) /\ t \in Seq(R) /\ t \in Seq(Record)
  BY SeqMonotonic
<1>3. Outages(s) = {i \in DOMAIN s : s[i].message = outage} /\ Outages(st) = {i \in DOMAIN st : st[i].message = outage}
  BY DEF Outages
<1> HIDE DEF R, outage
<1>4. /\ st \in Seq(R) /\ Len(st) = Len(s) + Len(t)
      /\ \A i \in 1 .. Len(s) + Len(t) : st[i] = IF i <= Len(s) THEN s[i] ELSE t[i - Len(s)]
  BY <1>2, ConcatProperties
<1>5. /\ Len(s) \in Nat /\ Len(t) \in Nat /\ DOMAIN s = 1 .. Len(s) /\ DOMAIN st = 1 .. Len(s) + Len(t)
      /\ \A i \in 1 .. Len(t) : t[i] \in Record
  <2>1. DOMAIN st = 1 .. Len(st)
    BY <1>4, LenProperties
  <2> QED BY <1>2, <1>4, <2>1, LenProperties, ElementOfSeq
<1> HIDE DEF st
<1>6. ASSUME NEW i \in 1 .. Len(s) PROVE i \in 1 .. Len(s) + Len(t) /\ st[i] = s[i]
  BY <1>4, <1>5
<1>7. ASSUME NEW i \in 1 .. Len(s) + Len(t), i \notin 1 .. Len(s) PROVE st[i].message # outage
  <2>1. i - Len(s) \in 1 .. Len(t) /\ ~(i <= Len(s))
    BY <1>5, <1>7
  <2> QED BY <1>1, <1>4, <1>5, <2>1
<1>8. Outages(st) = Outages(s)
  BY <1>3, <1>5, <1>6, <1>7
<1> QED BY <1>4, <1>8 DEF R, st

\* The record of an outage.
LEMMA OutageAdded ==
  ASSUME NEW s \in Seq(Record \cup {Unreachable})
  PROVE  /\ Append(s, Unreachable) \in Seq(Record \cup {Unreachable})
         /\ Outages(Append(s, Unreachable)) = Outages(s) \cup {Len(s) + 1}
         /\ Cardinality(Outages(Append(s, Unreachable))) = Cardinality(Outages(s)) + 1
<1> DEFINE R == Record \cup {Unreachable}
           outage == <<"failed contacting the API">>
           st == Append(s, Unreachable)
<1>1. Unreachable.message = outage /\ Unreachable \in R /\ s \in Seq(R)
  BY DEF Unreachable, Cond
<1>2. Outages(s) = {i \in DOMAIN s : s[i].message = outage} /\ Outages(st) = {i \in DOMAIN st : st[i].message = outage}
  BY DEF Outages
<1> HIDE DEF R, outage
<1>3. /\ st \in Seq(R) /\ Len(st) = Len(s) + 1 /\ st[Len(s) + 1] = Unreachable
      /\ \A i \in 1 .. Len(s) : st[i] = s[i]
  BY <1>1, AppendProperties
<1>4. Len(s) \in Nat /\ DOMAIN s = 1 .. Len(s) /\ DOMAIN st = 1 .. Len(s) + 1
  BY <1>1, <1>3, LenProperties
<1> HIDE DEF st
<1>5. \A i : i \in 1 .. Len(s) + 1 <=> i \in 1 .. Len(s) \/ i = Len(s) + 1
  BY <1>4
<1>6. Outages(st) = Outages(s) \cup {Len(s) + 1}
  BY <1>1, <1>2, <1>3, <1>4, <1>5
<1>7. Outages(s) \in SUBSET (DOMAIN s)
  BY <1>2
<1>8. IsFiniteSet(Outages(s)) /\ Len(s) + 1 \notin Outages(s)
  BY <1>1, <1>7, FinitePositions
<1>9. Cardinality(Outages(st)) = Cardinality(Outages(s)) + 1
  BY <1>6, <1>8, FS_AddElement
<1> QED BY <1>3, <1>6, <1>9 DEF R, st

\* The outcome of one more request: a failure after a success starts an outage.
LEMMA StartsAfter ==
  ASSUME NEW c \in Seq(BOOLEAN), NEW b \in BOOLEAN
  PROVE  /\ Append(c, b) \in Seq(BOOLEAN) /\ Append(c, b) # << >> /\ Last(Append(c, b)) = b
         /\ Cardinality(Starts(Append(c, b))) =
              IF ~b /\ (c = << >> \/ Last(c)) THEN Cardinality(Starts(c)) + 1 ELSE Cardinality(Starts(c))
<1> DEFINE d == Append(c, b)
           new == Len(c) + 1
<1>1. /\ d \in Seq(BOOLEAN) /\ Len(d) = Len(c) + 1 /\ d[Len(c) + 1] = b
      /\ \A i \in 1 .. Len(c) : d[i] = c[i]
  BY AppendProperties
<1>2. Len(c) \in Nat /\ DOMAIN c = 1 .. Len(c) /\ DOMAIN d = 1 .. Len(c) + 1
  BY <1>1, LenProperties
<1>3. c = << >> <=> Len(c) = 0
  BY EmptySeq
<1>4. d # << >> /\ Last(d) = b
  <2>1. d # << >>
    BY AppendProperties
  <2> HIDE DEF d
  <2> QED BY <1>1, <2>1 DEF Last
<1> HIDE DEF d
<1>5. ASSUME NEW i \in 1 .. Len(c) PROVE i \in Starts(d) <=> i \in Starts(c)
  <2>1. i # 1 => i - 1 \in 1 .. Len(c)
    BY <1>2
  <2>2. i \in 1 .. Len(c) + 1
    BY <1>2
  <2> QED BY <1>1, <1>2, <2>1, <2>2 DEF Starts
<1>6. new \in Starts(d) <=> ~b /\ (c = << >> \/ Last(c))
  <2>1. new = 1 <=> c = << >>
    BY <1>2, <1>3
  <2>2. new # 1 => new - 1 = Len(c) /\ new - 1 \in 1 .. Len(c)
    BY <1>2
  <2>3. new \in DOMAIN d
    BY <1>2
  <2>4. new \in Starts(d) <=> ~d[new] /\ (new = 1 \/ d[new - 1])
    BY <2>3 DEF Starts
  <2> QED BY <1>1, <2>1, <2>2, <2>4 DEF Last
<1>7. Starts(c) \in SUBSET (DOMAIN c) /\ \A i \in Starts(d) : i \in 1 .. Len(c) \/ i = new
  BY <1>2 DEF Starts
<1>8. IsFiniteSet(Starts(c)) /\ new \notin Starts(c)
  BY <1>7, FinitePositions
<1>9. CASE ~b /\ (c = << >> \/ Last(c))
  <2>1. Starts(d) = Starts(c) \cup {new}
    BY <1>2, <1>5, <1>6, <1>7, <1>9
  <2> QED BY <1>1, <1>4, <1>8, <1>9, <2>1, FS_AddElement DEF d
<1>10. CASE ~(~b /\ (c = << >> \/ Last(c)))
  <2>1. Starts(d) = Starts(c)
    BY <1>2, <1>5, <1>6, <1>7, <1>10
  <2> QED BY <1>1, <1>4, <1>10, <2>1 DEF d
<1> QED BY <1>9, <1>10

\* How a step may change the requests and the log.
LEMMA ApiCases ==
  ASSUME ServerType, CacheType, [Next]_vars
  PROVE  \/ UNCHANGED <<receivedError, calls, log>>
         \/ \E ok \in BOOLEAN : handle(ok)
         \/ /\ UNCHANGED <<receivedError, calls>>
            /\ \E e \in Record : log' = Append(log, e) /\ e.level # "Error"
         \/ \E n \in Names : Notify(n)
<1>1. CASE ServerChange \/ Compact \/ Stop \/ ListVersion
  BY <1>1 DEF ServerChange, Compact, Stop, ListVersion, api
<1>2. CASE ListFails \/ List
  BY <1>2 DEF ListFails, List
<1>3. CASE WatchRefused \/ WatchExpired \/ Watch
  BY <1>3 DEF WatchRefused, WatchExpired, Watch
<1>4. CASE StreamEnds \/ StreamFails \/ StreamObject \/ Resync
  BY <1>4 DEF StreamEnds, StreamFails, StreamObject, Resync, api
<1>5. \A k \in Nat : /\ Cond("Info", <<"event", k>>, <<"event">>) \in Record
                     /\ Cond("Info", <<"kube-apiserver", k>>, <<"error while watching">>) \in Record
  <2>1. <<"event">> \in Messages /\ <<"error while watching">> \in Messages
    BY DEF Messages
  <2> QED BY <2>1 DEF Cond, Record
<1>6. CASE EventError
  <2> DEFINE e == Cond("Info", <<"kube-apiserver", 0>>, <<"error while watching">>)
  <2>1. e \in Record /\ e.level # "Error"
    BY <1>5 DEF Cond
  <2>2. UNCHANGED <<receivedError, calls>> /\ log' = Append(log, e)
    BY <1>6 DEF EventError
  <2> HIDE DEF e
  <2> QED BY <2>1, <2>2
<1>7. CASE StreamEvent
  <2> DEFINE e == Cond("Info", <<"event", cursor + 1>>, <<"event">>)
  <2>1. e \in Record /\ e.level # "Error"
    <3>1. cursor + 1 \in Nat
      BY Positions DEF CacheType
    <3> QED BY <1>5, <3>1 DEF Cond
  <2>2. UNCHANGED <<receivedError, calls>> /\ log' \in {log, Append(log, e)}
    BY <1>7 DEF StreamEvent
  <2> HIDE DEF e
  <2> QED BY <2>1, <2>2
<1>8. ASSUME NEW n \in Names, Pop(n) PROVE UNCHANGED <<receivedError, calls, log>>
  BY <1>8 DEF Pop, api
<1>9. CASE UNCHANGED vars
  BY <1>9 DEF vars, api
<1> QED BY <1>1, <1>2, <1>3, <1>4, <1>6, <1>7, <1>8, <1>9 DEF Next

\* The records of one notification are of what became of its object.
LEMMA NotifyLog ==
  ASSUME ServerType, LogInv, NEW n \in Names, Notify(n)
  PROVE  /\ UNCHANGED <<receivedError, calls>> /\ InformerKind
         /\ Head(notices[n]) \in KnownNotice /\ 1 \in 1 .. Len(notices[n])
         /\ \E t \in Seq(Record) :
              /\ log' = log \o t
              /\ \A i \in 1 .. Len(t) : t[i] \in Caused(n, Head(notices[n]).old, Head(notices[n]).new)
<1>1. InformerKind
  BY KindsAssumption DEF Notify, LogInv, QueueInv, ServerType, Informer, InformerKind, AllKinds
<1>2. notices[n] \in Seq(KnownNotice) /\ notices[n] # << >>
  BY DEF LogInv, QueueInv, Notify
<1> DEFINE c == Head(notices[n])
           sets == Conditions(n, c)
           t == FlattenSeq([i \in DOMAIN sets |-> SetToSeq(sets[i])])
           X == Caused(n, c.old, c.new)
<1>3. c \in KnownNotice /\ 1 \in 1 .. Len(notices[n])
  <2>1. Len(notices[n]) \in Nat /\ Len(notices[n]) # 0 /\ \A i \in 1 .. Len(notices[n]) : notices[n][i] \in KnownNotice
    BY <1>2, LenProperties, EmptySeq, ElementOfSeq
  <2>2. 1 \in 1 .. Len(notices[n])
    BY <2>1
  <2> QED BY <1>2, <2>2, HeadTailProperties
<1>4. log' = log \o t /\ UNCHANGED <<receivedError, calls>>
  BY DEF Notify
<1>5. t \in Seq(X)
  <2> HIDE DEF c
  <2> QED BY <1>1, <1>3, NoticeLog
<1>6. X \subseteq Record
  BY DEF Caused
<1> HIDE DEF X, t, c
<1>7. t \in Seq(Record) /\ \A i \in 1 .. Len(t) : t[i] \in X
  BY <1>5, <1>6, SeqMonotonic, ElementOfSeq
<1> QED BY <1>1, <1>3, <1>4, <1>7 DEF X, c

\* Every outage is recorded once, whatever else is recorded.
LEMMA CallsStep ==
  ASSUME ServerType, ChangeInv, CacheType, LogInv, [Next]_vars
  PROVE  CallsInv'
<1> DEFINE R == Record \cup {Unreachable}
<1>1. Record' = Record /\ Unreachable' = Unreachable
  BY ServerStep DEF Record, Messages, Unreachable, Cond
<1>2. /\ log \in Seq(R) /\ calls \in Seq(BOOLEAN)
      /\ receivedError = (calls # << >> /\ ~Last(calls))
      /\ Cardinality(Outages(log)) = Cardinality(Starts(calls))
  BY DEF LogInv, CallsInv
<1>3. SUFFICES /\ log' \in Seq(R) /\ calls' \in Seq(BOOLEAN)
               /\ receivedError' = (calls' # << >> /\ ~Last(calls'))
               /\ Cardinality(Outages(log')) = Cardinality(Starts(calls'))
  BY <1>1 DEF CallsInv, Outages, Starts, Last
<1>4. CASE UNCHANGED <<receivedError, calls, log>>
  BY <1>2, <1>4
<1>5. ASSUME NEW ok \in BOOLEAN, handle(ok)
      PROVE  /\ log' \in Seq(R) /\ calls' \in Seq(BOOLEAN)
             /\ receivedError' = (calls' # << >> /\ ~Last(calls'))
             /\ Cardinality(Outages(log')) = Cardinality(Starts(calls'))
  <2>1. CASE ~Wrapped
    BY <1>2, <1>5, <2>1 DEF handle, api
  <2>2. CASE Wrapped
    <3>1. /\ receivedError' = ~ok
          /\ log' = IF ok \/ receivedError THEN log ELSE Append(log, Unreachable)
          /\ IF ok = (calls = << >> \/ Last(calls)) THEN calls' = calls ELSE calls' = Append(calls, ok)
      BY <1>5, <2>2 DEF handle, Request
    <3>2. CASE ok = (calls = << >> \/ Last(calls))
      <4>1. receivedError = ~ok /\ log' = log
        BY <1>2, <3>1, <3>2
      <4> QED BY <1>2, <3>1, <3>2, <4>1
    <3>3. CASE ~(ok = (calls = << >> \/ Last(calls)))
      <4>0. calls' = Append(calls, ok)
        BY <3>1, <3>3
      <4>1. /\ calls' \in Seq(BOOLEAN) /\ calls' # << >> /\ Last(calls') = ok
            /\ Cardinality(Starts(calls')) = IF ~ok /\ (calls = << >> \/ Last(calls))
                                             THEN Cardinality(Starts(calls)) + 1 ELSE Cardinality(Starts(calls))
        BY <1>2, <4>0, StartsAfter
      <4>2. /\ Append(log, Unreachable) \in Seq(R)
            /\ Cardinality(Outages(Append(log, Unreachable))) = Cardinality(Outages(log)) + 1
        BY <1>2, OutageAdded
      <4> HIDE DEF R
      <4>3. receivedError' = (calls' # << >> /\ ~Last(calls'))
        BY <3>1, <4>1
      <4>4. CASE ok \/ receivedError
        BY <1>2, <3>1, <4>1, <4>3, <4>4
      <4>5. CASE ~ok /\ ~receivedError
        BY <1>2, <3>1, <4>1, <4>2, <4>3, <4>5
      <4> QED BY <4>4, <4>5
    <3> QED BY <3>2, <3>3
  <2> QED BY <2>1, <2>2
<1>6. ASSUME UNCHANGED <<receivedError, calls>>, NEW t \in Seq(Record), log' = log \o t
      PROVE  /\ log' \in Seq(R) /\ calls' \in Seq(BOOLEAN)
             /\ receivedError' = (calls' # << >> /\ ~Last(calls'))
             /\ Cardinality(Outages(log')) = Cardinality(Starts(calls'))
  <2>1. log \o t \in Seq(R) /\ Outages(log \o t) = Outages(log)
    BY <1>2, OutagesKept
  <2> QED BY <1>2, <1>6, <2>1
<1>7. ASSUME NEW e \in Record, log' = Append(log, e)
      PROVE  <<e>> \in Seq(Record) /\ log' = log \o <<e>>
  <2>1. e \in R
    OBVIOUS
  <2> HIDE DEF R
  <2>2. Append(log, e) = log \o <<e>>
    BY <1>2, <2>1, AppendIsConcat
  <2> QED BY <1>7, <2>2
<1> HIDE DEF R
<1> QED BY <1>4, <1>5, <1>6, <1>7, ApiCases, NotifyLog

-----------------------------------------------------------------------------
(* The queue and the store *)

\* A queue that got a delta: it, or the one before that it is joined with, is the
\* last; what comes before is left.
Extended(e, s, d, obj) ==
  /\ Len(e) \in Nat /\ Len(s) \in Nat /\ Len(e) # 0 /\ Len(e) - 1 <= Len(s)
  /\ \A i \in 0 .. Len(e) - 1 : Stage(e, obj, i) = Stage(s, obj, i)
  /\ Stage(e, obj, Len(e)) = Outcome(d)

LEMMA EnqueueStages ==
  ASSUME NEW s \in Seq(KnownDelta), NEW d \in KnownDelta, NEW obj
  PROVE  /\ Enqueue(s, d) \in Seq(KnownDelta) /\ Enqueue(s, d) # << >>
         /\ Extended(Enqueue(s, d), s, d, obj)
<1> DEFINE e == Enqueue(s, d)
<1>1. ASSUME NEW t \in Seq(KnownDelta), NEW x \in KnownDelta,
             \A i \in 1 .. Len(t) : t[i] = s[i], Len(t) <= Len(s), e = Append(t, x), Outcome(x) = Outcome(d)
      PROVE  e \in Seq(KnownDelta) /\ e # << >> /\ Extended(e, s, d, obj)
  <2> HIDE DEF e
  <2>1. /\ e \in Seq(KnownDelta) /\ e # << >> /\ Len(e) = Len(t) + 1 /\ e[Len(t) + 1] = x
        /\ \A i \in 1 .. Len(t) : e[i] = t[i]
    BY <1>1, AppendProperties
  <2>2. Len(t) \in Nat /\ Len(s) \in Nat
    BY LenProperties
  <2>3. Len(e) \in Nat /\ Len(e) # 0 /\ Len(e) - 1 = Len(t)
    BY <2>1, <2>2
  <2>4. ASSUME NEW i \in 0 .. Len(t) PROVE Stage(e, obj, i) = Stage(s, obj, i)
    <3>1. i # 0 => i \in 1 .. Len(t)
      BY <2>2
    <3> QED BY <1>1, <2>1, <3>1 DEF Stage
  <2>5. Stage(e, obj, Len(e)) = Outcome(d)
    BY <1>1, <2>1, <2>3 DEF Stage
  <2> QED BY <1>1, <2>1, <2>2, <2>3, <2>4, <2>5 DEF Extended
<1>2. CASE s # << >> /\ {Last(s).type, d.type} \subseteq {"delete", "tomb"}
  <2> DEFINE x == IF Last(s).type = "tomb" THEN d ELSE Last(s)
             t == Front(s)
  <2>1. Len(s) \in Nat /\ Len(s) # 0 /\ \A i \in 1 .. Len(s) : s[i] \in KnownDelta
    BY <1>2, LenProperties, EmptySeq, ElementOfSeq
  <2>2. Last(s) \in KnownDelta
    BY <2>1 DEF Last
  <2>3. x \in KnownDelta /\ Outcome(x) = Outcome(d)
    BY <1>2, <2>2 DEF Outcome
  <2>4. t \in Seq(KnownDelta) /\ Len(t) = Len(s) - 1 /\ \A i \in 1 .. Len(t) : t[i] = s[i]
    <3>1. t = SubSeq(s, 1, Len(s) - 1)
      BY DEF Front
    <3> DEFINE m == Len(s) - 1
    <3>2. m \in Int /\ m >= 0 /\ 1 \in Int /\ \A i \in 1 .. m : s[i] \in KnownDelta
      BY <2>1
    <3> HIDE DEF m
    <3>3. /\ SubSeq(s, 1, m) \in Seq(KnownDelta) /\ Len(SubSeq(s, 1, m)) = IF 1 <= m THEN m - 1 + 1 ELSE 0
          /\ \A i \in 1 .. m - 1 + 1 : SubSeq(s, 1, m)[i] = s[1 + i - 1]
      BY <3>2, SubSeqProperties
    <3>4. Len(SubSeq(s, 1, m)) = m /\ \A i \in 1 .. m : SubSeq(s, 1, m)[i] = s[i]
      <4>1. \A i \in 1 .. m : 1 + i - 1 = i /\ i \in 1 .. m - 1 + 1
        BY <3>2
      <4>2. Len(SubSeq(s, 1, m)) = m
        BY <3>2, <3>3
      <4> QED BY <3>3, <4>1, <4>2
    <3> HIDE DEF t
    <3> QED BY <3>1, <3>3, <3>4 DEF m
  <2>5. e = Append(t, x)
    BY <1>2 DEF Enqueue
  <2>6. Len(t) <= Len(s)
    BY <2>1, <2>4
  <2> HIDE DEF t, x, e
  <2> QED BY <1>1, <2>3, <2>4, <2>5, <2>6 DEF e
<1>3. CASE ~(s # << >> /\ {Last(s).type, d.type} \subseteq {"delete", "tomb"})
  <2>1. e = Append(s, d) /\ Len(s) <= Len(s)
    BY <1>3, LenProperties DEF Enqueue
  <2> HIDE DEF e
  <2> QED BY <1>1, <2>1 DEF e
<1> QED BY <1>2, <1>3

\* What happened to an object stays so when versions are added, and the more of them
\* are looked at.
LEMMA WasKept ==
  ASSUME NEW s, NEW t, NEW n, NEW a, NEW b, \A v \in 0 .. a : v \in 0 .. b /\ t[v + 1] = s[v + 1]
  PROVE  /\ \A o : WasIn(s, n, o, a) => WasIn(t, n, o, b)
         /\ \A o, p : WasInBoth(s, n, o, p, a) => WasInBoth(t, n, o, p, b)
<1>1. \A o : WasIn(s, n, o, a) => WasIn(t, n, o, b)
  BY DEF WasIn
<1>2. \A o, p : WasInBoth(s, n, o, p, a) => WasInBoth(t, n, o, p, b)
  BY DEF WasInBoth
<1> QED BY <1>1, <1>2

\* What was seen by one version was seen by a later one.
LEMMA SeenLater ==
  ASSUME NEW s, NEW n, NEW deltas, NEW obj, NEW a \in Nat, NEW b \in Nat, a <= b, Seen(s, n, deltas, obj, a)
  PROVE  Seen(s, n, deltas, obj, b)
<1>1. \A v \in 0 .. a : v \in 0 .. b
  OBVIOUS
<1> QED BY <1>1, WasKept DEF Seen

\* A delta with a later state, or without one, is queued.
LEMMA SeenMore ==
  ASSUME NEW s, NEW n, NEW q \in Seq(KnownDelta), NEW d \in KnownDelta, NEW obj, NEW a \in Nat, NEW b \in Nat, a <= b,
         Seen(s, n, q, obj, a), Outcome(d) # NoObj => s[b + 1][n] = Outcome(d)
  PROVE  Seen(s, n, Enqueue(q, d), obj, b)
<1> DEFINE e == Enqueue(q, d)
<1>1. /\ Len(e) \in Nat /\ Len(e) # 0 /\ Len(e) - 1 <= Len(q) /\ Len(q) \in Nat
      /\ \A i \in 0 .. Len(e) - 1 : Stage(e, obj, i) = Stage(q, obj, i)
      /\ Stage(e, obj, Len(e)) = Outcome(d)
  <2>1. Extended(e, q, d, obj)
    BY EnqueueStages
  <2> QED BY <2>1 DEF Extended
<1> HIDE DEF e
<1>2. Seen(s, n, q, obj, b)
  BY SeenLater
<1>3. Outcome(d) # NoObj => WasIn(s, n, Outcome(d), b)
  <2>1. b \in 0 .. b
    OBVIOUS
  <2> QED BY <2>1 DEF WasIn
<1>4. ASSUME NEW i \in 0 .. Len(e), Stage(e, obj, i) # NoObj PROVE WasIn(s, n, Stage(e, obj, i), b)
  <2>1. CASE i = Len(e)
    BY <1>1, <1>3, <1>4, <2>1
  <2>2. CASE i # Len(e)
    <3>1. i \in 0 .. Len(e) - 1 /\ i \in 0 .. Len(q)
      BY <1>1, <2>2
    <3> QED BY <1>1, <1>2, <1>4, <3>1 DEF Seen
  <2> QED BY <2>1, <2>2
<1>5. ASSUME NEW i \in 1 .. Len(e), Stage(e, obj, i - 1) # NoObj, Stage(e, obj, i) # NoObj
      PROVE  WasInBoth(s, n, Stage(e, obj, i - 1), Stage(e, obj, i), b)
  <2>1. CASE i = Len(e)
    <3>1. Stage(e, obj, i) = Outcome(d) /\ s[b + 1][n] = Outcome(d)
      BY <1>1, <1>5, <2>1
    <3>2. i - 1 \in 0 .. Len(e) - 1 /\ i - 1 \in 0 .. Len(q)
      BY <1>1, <2>1
    <3>3. WasIn(s, n, Stage(e, obj, i - 1), b)
      BY <1>1, <1>2, <1>5, <3>2 DEF Seen
    <3>4. PICK v \in 0 .. b : s[v + 1][n] = Stage(e, obj, i - 1)
      BY <3>3 DEF WasIn
    <3>5. b \in 0 .. b /\ v <= b
      OBVIOUS
    <3> QED BY <3>1, <3>4, <3>5 DEF WasInBoth
  <2>2. CASE i # Len(e)
    <3>1. i \in 0 .. Len(e) - 1 /\ i - 1 \in 0 .. Len(e) - 1 /\ i \in 1 .. Len(q)
      BY <1>1, <2>2
    <3>2. Stage(e, obj, i) = Stage(q, obj, i) /\ Stage(e, obj, i - 1) = Stage(q, obj, i - 1)
      BY <1>1, <3>1
    <3> QED BY <1>2, <1>5, <3>1, <3>2 DEF Seen
  <2> QED BY <2>1, <2>2
<1>6. Seen(s, n, e, obj, b)
  BY <1>4, <1>5 DEF Seen
<1> QED BY <1>6 DEF e

\* What a step leaves in the queue and in the store.
QueueNext == /\ fifo' \in [Names -> Seq(KnownDelta)]
             /\ \A n \in Names : fifo'[n] # << >> \/ store'[n] # NoObj => Informer /\ n \in Selected
             /\ ~rewound' => /\ ~rewound /\ rv <= rv'
                             /\ \A n \in Names : Seen(states, n, fifo'[n], store'[n], rv')

\* A list.
LEMMA ListQueue ==
  ASSUME ServerType, CacheType, LogInv, List
  PROVE  QueueNext
<1>1. PICK v \in 0 .. head : /\ rv' = v /\ rewound' = (rewound \/ v < rv) /\ Replace(v)
  BY DEF List
<1>2. /\ UNCHANGED store /\ Informer /\ head \in Nat /\ At(v) \in Snapshot /\ v \in Nat /\ rv \in Nat
      /\ store \in [Names -> Objects \cup {NoObj}]
  BY <1>1, Positions DEF List, CacheType
<1> DEFINE set(n) == [type |-> "set", obj |-> At(v)[n]]
           tomb(n) == [type |-> "tomb", obj |-> store[n]]
<1>3. ASSUME NEW n \in Listed(v)
      PROVE  n \in Selected /\ n \in Names /\ set(n) \in KnownDelta /\ Outcome(set(n)) = At(v)[n]
  <2>1. n \in Selected /\ n \in Names /\ At(v)[n] # NoObj
    BY <1>3, ListedFacts
  <2>2. At(v)[n] \in Objects
    BY <1>2, <2>1 DEF Snapshot
  <2> QED BY <2>1, <2>2 DEF KnownDelta, Outcome
<1>4. ASSUME NEW n \in Names, store[n] # NoObj
      PROVE  n \in Selected /\ tomb(n) \in KnownDelta /\ Outcome(tomb(n)) = NoObj
  BY <1>2, <1>4 DEF LogInv, QueueInv, KnownDelta, Outcome
<1>5. fifo' = [n \in Names |-> IF n \in Listed(v) THEN Enqueue(fifo[n], set(n))
                               ELSE IF store[n] # NoObj THEN Enqueue(fifo[n], tomb(n)) ELSE fifo[n]]
  BY <1>1 DEF Replace
<1> HIDE DEF set, tomb
<1>6. \A n \in Names : fifo[n] \in Seq(KnownDelta) /\ (fifo[n] # << >> => n \in Selected)
  BY DEF LogInv, QueueInv
<1>7. ASSUME NEW n \in Names
      PROVE  /\ fifo'[n] \in Seq(KnownDelta) /\ (fifo'[n] # << >> \/ store'[n] # NoObj => n \in Selected)
             /\ ~rewound' => Seen(states, n, fifo'[n], store'[n], rv')
  <2>1. ~rewound' => Seen(states, n, fifo[n], store[n], rv) /\ rv <= v
    <3>1. ~rewound' => ~rewound /\ ~(v < rv)
      BY <1>1
    <3>2. ~(v < rv) => rv <= v
      BY <1>2
    <3>3. ~rewound => Seen(states, n, fifo[n], store[n], rv)
      BY DEF LogInv, SeenInv
    <3> QED BY <3>1, <3>2, <3>3
  <2>2. CASE n \in Listed(v)
    <3>1. fifo'[n] = Enqueue(fifo[n], set(n)) /\ set(n) \in KnownDelta /\ n \in Selected
      BY <1>3, <1>5, <2>2
    <3>2. Enqueue(fifo[n], set(n)) \in Seq(KnownDelta)
      BY <1>6, <3>1, EnqueueStages
    <3>3. states[v + 1][n] = Outcome(set(n))
      BY <1>3, <2>2 DEF At
    <3>4. ~rewound' => Seen(states, n, Enqueue(fifo[n], set(n)), store[n], v)
      BY <1>2, <1>6, <2>1, <3>1, <3>3, SeenMore
    <3> QED BY <1>1, <1>2, <3>1, <3>2, <3>4
  <2>3. CASE n \notin Listed(v) /\ store[n] # NoObj
    <3>1. /\ fifo'[n] = Enqueue(fifo[n], tomb(n)) /\ tomb(n) \in KnownDelta /\ n \in Selected
          /\ Outcome(tomb(n)) = NoObj
      BY <1>4, <1>5, <2>3
    <3>2. Enqueue(fifo[n], tomb(n)) \in Seq(KnownDelta)
      BY <1>6, <3>1, EnqueueStages
    <3>3. ~rewound' => Seen(states, n, Enqueue(fifo[n], tomb(n)), store[n], v)
      BY <1>2, <1>6, <2>1, <3>1, SeenMore
    <3> QED BY <1>1, <1>2, <3>1, <3>2, <3>3
  <2>4. CASE n \notin Listed(v) /\ store[n] = NoObj
    <3>1. fifo'[n] = fifo[n]
      BY <1>5, <2>4
    <3>2. ~rewound' => Seen(states, n, fifo[n], store[n], v)
      BY <1>2, <2>1, SeenLater
    <3> QED BY <1>1, <1>2, <1>6, <2>4, <3>1, <3>2
  <2> QED BY <2>2, <2>3, <2>4
<1>8. fifo' \in [Names -> Seq(KnownDelta)]
  <2>1. fifo' = [n \in Names |-> fifo'[n]]
    BY <1>5
  <2> QED BY <1>7, <2>1
<1>9. ~rewound' => ~rewound /\ rv <= rv'
  <2>1. ~rewound' => ~rewound /\ ~(v < rv)
    BY <1>1
  <2>2. ~(v < rv) => rv <= rv'
    BY <1>1, <1>2
  <2> QED BY <2>1, <2>2
<1> QED BY <1>2, <1>7, <1>8, <1>9 DEF QueueNext

\* A change on the stream.
LEMMA StreamQueue ==
  ASSUME IInv, LogInv, StreamObject
  PROVE  QueueNext
<1> DEFINE n == Changed(cursor + 1)
           o == At(cursor + 1)[n]
           d == IF o = NoObj THEN [type |-> "delete", obj |-> At(cursor)[n]] ELSE [type |-> "set", obj |-> o]
<1>1. /\ Informer /\ pc = "stream" /\ cursor < head
      /\ fifo' = IF n \notin Selected \/ (o = NoObj /\ store[n] = NoObj /\ fifo[n] = << >>) THEN fifo
                 ELSE [fifo EXCEPT ![n] = Enqueue(@, d)]
      /\ rv' = (IF n \in Selected THEN cursor + 1 ELSE rv) /\ UNCHANGED <<store, rewound>>
  BY DEF StreamObject
<1>2. /\ fifo \in [Names -> Seq(KnownDelta)]
      /\ cursor \in 0 .. head /\ head \in Nat /\ \A v \in 0 .. head : At(v) \in Snapshot
      /\ \A m \in Names : fifo[m] # << >> \/ store[m] # NoObj => m \in Selected
      /\ ~rewound => \A m \in Names : Seen(states, m, fifo[m], store[m], rv)
      /\ rv <= cursor /\ rv \in Nat
  BY <1>1, Positions DEF IInv, CacheType, TrackInv, LogInv, QueueInv, SeenInv
<1>3. /\ cursor + 1 \in 1 .. head /\ cursor + 1 \in 0 .. head /\ (cursor + 1) - 1 = cursor
      /\ cursor \in Nat /\ cursor + 1 \in Nat /\ rv <= cursor + 1 /\ rv <= rv
  BY <1>1, <1>2
<1>4. n = CHOOSE m \in Names : At(cursor + 1)[m] # At(cursor)[m]
  BY <1>3 DEF Changed
<1>5. PICK k \in Names : At(cursor + 1)[k] # At(cursor)[k]
  BY <1>3 DEF IInv, ChangeInv, OneChange
<1>6. n \in Names /\ At(cursor + 1)[n] # At(cursor)[n]
  <2> HIDE DEF n
  <2> QED BY <1>4, <1>5
<1> HIDE DEF n
<1>7. o \in Objects \cup {NoObj} /\ At(cursor)[n] \in Objects \cup {NoObj} /\ o # At(cursor)[n]
  BY <1>2, <1>3, <1>6 DEF Snapshot
<1>8. d \in KnownDelta /\ Outcome(d) = o /\ states[(cursor + 1) + 1][n] = o
  BY <1>7 DEF KnownDelta, Outcome, At
<1> HIDE DEF o, d
<1>9. fifo[n] \in Seq(KnownDelta)
  BY <1>2, <1>6
<1>10. Enqueue(fifo[n], d) \in Seq(KnownDelta)
  BY <1>8, <1>9, EnqueueStages
<1>11. ~rewound => Seen(states, n, Enqueue(fifo[n], d), store[n], cursor + 1)
  BY <1>2, <1>3, <1>6, <1>8, <1>9, SeenMore
<1>12. rv <= rv' /\ (~rewound => \A m \in Names : Seen(states, m, fifo[m], store[m], rv'))
  BY <1>1, <1>2, <1>3, SeenLater
<1>13. CASE fifo' = fifo
  BY <1>1, <1>2, <1>12, <1>13 DEF QueueNext
<1>14. CASE n \in Selected /\ fifo' = [fifo EXCEPT ![n] = Enqueue(fifo[n], d)]
  <2>1. fifo' \in [Names -> Seq(KnownDelta)]
    BY <1>2, <1>10, <1>14
  <2>2. fifo'[n] = Enqueue(fifo[n], d) /\ \A m \in Names \ {n} : fifo'[m] = fifo[m]
    BY <1>2, <1>6, <1>14
  <2>3. \A m \in Names : fifo'[m] # << >> \/ store[m] # NoObj => m \in Selected
    BY <1>2, <1>14, <2>2
  <2>4. ~rewound => \A m \in Names : Seen(states, m, fifo'[m], store[m], rv')
    BY <1>1, <1>11, <1>12, <1>14, <2>2
  <2> QED BY <1>1, <1>12, <2>1, <2>3, <2>4 DEF QueueNext
<1> QED BY <1>1, <1>13, <1>14

\* A resynchronisation.
LEMMA ResyncQueue ==
  ASSUME CacheType, LogInv, Resync
  PROVE  QueueNext
<1> DEFINE d(n) == [type |-> "set", obj |-> store[n]]
           one(n) == <<d(n)>>
<1>1. /\ fifo \in [Names -> Seq(KnownDelta)] /\ store \in [Names -> Objects \cup {NoObj}]
      /\ \A n \in Names : fifo[n] # << >> \/ store[n] # NoObj => n \in Selected
      /\ ~rewound => \A n \in Names : Seen(states, n, fifo[n], store[n], rv)
      /\ rv <= rv
  BY DEF CacheType, LogInv, QueueInv, SeenInv
<1>2. /\ fifo' = [n \in Names |-> IF store[n] # NoObj /\ fifo[n] = << >> THEN one(n) ELSE fifo[n]]
      /\ UNCHANGED <<store, rv, rewound>> /\ Informer
  BY DEF Resync, history
<1>3. ASSUME NEW n \in Names, store[n] # NoObj
      PROVE  d(n) \in KnownDelta /\ Outcome(d(n)) = store[n]
  BY <1>1, <1>3 DEF KnownDelta, Outcome
<1> HIDE DEF d
<1>4. ASSUME NEW n \in Names, store[n] # NoObj
      PROVE  one(n) \in Seq(KnownDelta) /\ Len(one(n)) = 1 /\ one(n)[1] = d(n)
  BY <1>3, <1>4
<1> HIDE DEF one
<1>5. ASSUME NEW n \in Names, store[n] # NoObj, fifo[n] = << >>, ~rewound
      PROVE  Seen(states, n, one(n), store[n], rv)
  <2> DEFINE s == one(n)
  <2>1. Len(s) = 1 /\ Stage(s, store[n], 0) = store[n] /\ Stage(s, store[n], 1) = store[n]
    BY <1>3, <1>4, <1>5 DEF Stage
  <2>2. WasIn(states, n, store[n], rv)
    <3>1. 0 \in 0 .. Len(fifo[n]) /\ Stage(fifo[n], store[n], 0) = store[n]
      BY <1>5 DEF Stage
    <3> QED BY <1>1, <1>5, <3>1 DEF Seen
  <2>3. WasInBoth(states, n, store[n], store[n], rv)
    <3>1. PICK v \in 0 .. rv : states[v + 1][n] = store[n]
      BY <2>2 DEF WasIn
    <3>2. v <= v
      OBVIOUS
    <3> QED BY <3>1, <3>2 DEF WasInBoth
  <2>4. (\A i \in 0 .. 1 : i = 0 \/ i = 1) /\ (\A i \in 1 .. 1 : i = 1 /\ i - 1 = 0)
    OBVIOUS
  <2> HIDE DEF s
  <2>5. Seen(states, n, s, store[n], rv)
    BY <2>1, <2>2, <2>3, <2>4 DEF Seen
  <2> QED BY <2>5 DEF s
<1>6. ASSUME NEW n \in Names
      PROVE  /\ fifo'[n] \in Seq(KnownDelta) /\ (fifo'[n] # << >> => n \in Selected)
             /\ ~rewound => Seen(states, n, fifo'[n], store[n], rv)
  <2>1. CASE store[n] # NoObj /\ fifo[n] = << >>
    <3>1. fifo'[n] = one(n)
      BY <1>2, <2>1
    <3> QED BY <1>1, <1>4, <1>5, <2>1, <3>1
  <2>2. CASE ~(store[n] # NoObj /\ fifo[n] = << >>)
    <3>1. fifo'[n] = fifo[n]
      BY <1>2, <2>2
    <3> QED BY <1>1, <3>1
  <2> QED BY <2>1, <2>2
<1>7. fifo' \in [Names -> Seq(KnownDelta)]
  <2>1. fifo' = [n \in Names |-> fifo'[n]]
    BY <1>2
  <2> QED BY <1>6, <2>1
<1> QED BY <1>1, <1>2, <1>6, <1>7 DEF QueueNext

\* The deltas of an object are stored.
LEMMA PopQueue ==
  ASSUME ServerType, CacheType, LogInv, NEW n \in Names, Pop(n)
  PROVE  QueueNext
<1>1. /\ fifo \in [Names -> Seq(KnownDelta)] /\ store \in [Names -> Objects \cup {NoObj}]
      /\ \A m \in Names : fifo[m] # << >> \/ store[m] # NoObj => Informer /\ m \in Selected
      /\ ~rewound => \A m \in Names : Seen(states, m, fifo[m], store[m], rv)
      /\ fifo[n] \in Seq(KnownDelta) /\ rv <= rv
  BY DEF CacheType, LogInv, QueueInv, SeenInv
<1>2. /\ fifo[n] # << >> /\ store' = [store EXCEPT ![n] = After(n, Len(fifo[n]))]
      /\ fifo' = [fifo EXCEPT ![n] = << >>] /\ UNCHANGED <<rv, rewound>>
  BY DEF Pop, history
<1>3. After(n, Len(fifo[n])) = Stage(fifo[n], store[n], Len(fifo[n]))
  BY DEF After, Stage, Outcome
<1>4. /\ store'[n] = Stage(fifo[n], store[n], Len(fifo[n])) /\ fifo'[n] = << >>
      /\ \A m \in Names \ {n} : fifo'[m] = fifo[m] /\ store'[m] = store[m]
  BY <1>1, <1>2, <1>3
<1>5. fifo' \in [Names -> Seq(KnownDelta)]
  BY <1>1, <1>2, EmptySeq
<1>6. ~rewound => Seen(states, n, << >>, store'[n], rv)
  <2>1. Len(fifo[n]) \in 0 .. Len(fifo[n])
    BY <1>1, LenProperties
  <2>2. ~rewound /\ store'[n] # NoObj => WasIn(states, n, store'[n], rv)
    BY <1>1, <1>4, <2>1 DEF Seen
  <2>3. \A obj : Stage(<< >>, obj, 0) = obj
    BY DEF Stage
  <2>4. Len(<< >>) = 0 /\ (\A i \in 0 .. 0 : i = 0) /\ 1 .. 0 = {}
    OBVIOUS
  <2> QED BY <2>2, <2>3, <2>4 DEF Seen
<1>7. ~rewound => \A m \in Names : Seen(states, m, fifo'[m], store'[m], rv)
  BY <1>1, <1>4, <1>6
<1>8. \A m \in Names : fifo'[m] # << >> \/ store'[m] # NoObj => Informer /\ m \in Selected
  BY <1>1, <1>2, <1>4
<1> QED BY <1>1, <1>2, <1>5, <1>7, <1>8 DEF QueueNext

\* The other steps leave the queue and the store alone, and an informer where it is.
LEMMA QueueCases ==
  ASSUME IInv, LogInv, [Next]_vars
  PROVE  \/ QueueNext /\ UNCHANGED states
         \/ UNCHANGED <<fifo, store, rewound>> /\ (Informer => rv' = rv)
<1>1. CASE List
  BY <1>1, ListQueue DEF IInv, List, server
<1>2. CASE StreamObject
  BY <1>2, StreamQueue DEF StreamObject, server
<1>3. CASE Resync
  BY <1>3, ResyncQueue DEF IInv, Resync, server
<1>4. ASSUME NEW n \in Names, Pop(n) PROVE QueueNext /\ UNCHANGED states
  BY <1>4, PopQueue DEF IInv, Pop, server
<1>5. CASE ServerChange \/ Compact \/ Stop \/ ListFails \/ ListVersion
  BY <1>5 DEF ServerChange, Compact, Stop, ListFails, ListVersion, cache, history
<1>6. CASE WatchRefused \/ WatchExpired \/ Watch
  BY <1>6 DEF WatchRefused, WatchExpired, Watch, cache, history
<1>7. ASSUME NEW n \in Names, Notify(n) PROVE UNCHANGED <<fifo, store, rewound, rv>>
  BY <1>7 DEF Notify
<1>8. CASE StreamEnds \/ StreamFails \/ EventError \/ StreamEvent
  BY <1>8 DEF StreamEnds, StreamFails, EventError, StreamEvent, cache, history
<1>9. CASE UNCHANGED vars
  BY <1>9 DEF vars, cache, history
<1> QED BY <1>1, <1>2, <1>3, <1>4, <1>5, <1>6, <1>7, <1>8, <1>9 DEF Next

\* Notifications that carry on where others end.
LEMMA ChainJoined ==
  ASSUME NEW S, NEW q \in Seq(S), NEW r \in Seq(S), NEW o, NEW mid, NEW last, Chained(q, o, mid), Chained(r, mid, last)
  PROVE  Chained(q \o r, o, last)
<1> DEFINE qr == q \o r
<1>1. /\ Len(q) \in Nat /\ Len(r) \in Nat /\ Len(qr) = Len(q) + Len(r)
      /\ \A i \in 1 .. Len(q) + Len(r) : qr[i] = IF i <= Len(q) THEN q[i] ELSE r[i - Len(q)]
  BY ConcatProperties, LenProperties
<1> HIDE DEF qr
<1>2. \A i \in 1 .. Len(q) : qr[i] = q[i]
  BY <1>1
<1>3. ASSUME NEW i \in 1 .. Len(r) PROVE qr[Len(q) + i] = r[i]
  <2>1. Len(q) + i \in 1 .. Len(q) + Len(r) /\ ~(Len(q) + i <= Len(q)) /\ (Len(q) + i) - Len(q) = i
    BY <1>1
  <2> QED BY <1>1, <2>1
<1>4. ASSUME NEW i \in 1 .. Len(q) + 1 PROVE Prior(qr, o, i) = Prior(q, o, i)
  <2>1. i = 1 \/ i - 1 \in 1 .. Len(q)
    BY <1>1
  <2> QED BY <1>2, <2>1 DEF Prior
<1>5. ASSUME NEW i \in 1 .. Len(r) + 1 PROVE Prior(qr, o, Len(q) + i) = Prior(r, mid, i)
  <2>1. CASE i = 1
    <3>1. Len(q) + 1 \in 1 .. Len(q) + 1
      BY <1>1
    <3>2. Prior(qr, o, Len(q) + 1) = mid
      BY <1>4, <3>1 DEF Chained
    <3> QED BY <2>1, <3>2 DEF Prior
  <2>2. CASE i # 1
    <3>1. i - 1 \in 1 .. Len(r) /\ Len(q) + i # 1 /\ (Len(q) + i) - 1 = Len(q) + (i - 1)
      BY <1>1, <2>2
    <3> QED BY <1>3, <2>2, <3>1 DEF Prior
  <2> QED BY <2>1, <2>2
<1>6. ASSUME NEW i \in 1 .. Len(qr), qr[i].type = "set" PROVE qr[i].old = Prior(qr, o, i)
  <2>1. CASE i \in 1 .. Len(q)
    <3>1. i \in 1 .. Len(q) + 1
      BY <1>1, <2>1
    <3> QED BY <1>2, <1>4, <1>6, <2>1, <3>1 DEF Chained
  <2>2. CASE i \notin 1 .. Len(q)
    <3> DEFINE j == i - Len(q)
    <3>1. j \in 1 .. Len(r) /\ j \in 1 .. Len(r) + 1 /\ Len(q) + j = i
      BY <1>1, <2>2
    <3> HIDE DEF j
    <3> QED BY <1>3, <1>5, <1>6, <3>1 DEF Chained
  <2> QED BY <2>1, <2>2
<1>7. last = Prior(qr, o, Len(qr) + 1)
  <2>1. Len(r) + 1 \in 1 .. Len(r) + 1 /\ Len(qr) + 1 = Len(q) + (Len(r) + 1)
    BY <1>1
  <2> QED BY <1>5, <2>1 DEF Chained
<1>8. Chained(qr, o, last)
  BY <1>6, <1>7 DEF Chained
<1> QED BY <1>8 DEF qr

\* The oldest of them is handled.
LEMMA ChainRest ==
  ASSUME NEW S, NEW q \in Seq(S), q # << >>, NEW o, NEW last, Chained(q, o, last)
  PROVE  Chained(Tail(q), Head(q).new, last) /\ (Head(q).type = "set" => Head(q).old = o)
<1> DEFINE r == Tail(q)
<1>1. /\ Len(q) \in Nat /\ Len(q) # 0 /\ Len(r) = Len(q) - 1 /\ \A i \in 1 .. Len(r) : r[i] = q[i + 1]
  BY HeadTailProperties, LenProperties, EmptySeq
<1>2. Head(q) = q[1]
  OBVIOUS
<1> HIDE DEF r
<1>3. 1 \in 1 .. Len(q)
  BY <1>1
<1>4. Head(q).type = "set" => Head(q).old = o
  BY <1>2, <1>3 DEF Chained, Prior
<1>5. ASSUME NEW i \in 1 .. Len(q) PROVE Prior(r, Head(q).new, i) = Prior(q, o, i + 1)
  <2>1. i + 1 # 1 /\ (i + 1) - 1 = i /\ (i # 1 => i - 1 \in 1 .. Len(r) /\ (i - 1) + 1 = i)
    BY <1>1
  <2> QED BY <1>1, <1>2, <2>1 DEF Prior
<1>6. ASSUME NEW i \in 1 .. Len(r), r[i].type = "set" PROVE r[i].old = Prior(r, Head(q).new, i)
  <2>1. i \in 1 .. Len(q) /\ i + 1 \in 1 .. Len(q)
    BY <1>1
  <2> QED BY <1>1, <1>5, <1>6, <2>1 DEF Chained
<1>7. last = Prior(r, Head(q).new, Len(r) + 1)
  <2>1. Len(r) + 1 \in 1 .. Len(q) /\ Len(r) + 1 = Len(q)
    BY <1>1
  <2> QED BY <1>5, <2>1 DEF Chained
<1> QED BY <1>4, <1>6, <1>7 DEF Chained, r

\* What a step leaves of the notifications and of what a reader knows.
NoticeNext ==
  /\ notices' \in [Names -> Seq(KnownNotice)]
  /\ told' \in [Names -> Objects \cup {NoObj}] /\ seen' \in [Names -> Objects \cup {NoObj}]
  /\ \A n \in Names : notices'[n] # << >> => Informer /\ n \in Selected
  /\ \A n \in Names : Known(told'[n], seen'[n], n \in lost')
  /\ \A n \in Names : Chained(notices'[n], seen'[n], store'[n])
  /\ ~rewound => \A n \in Names : \A i \in 1 .. Len(notices'[n]) : Shown(states, n, notices'[n][i], rv)

\* It is so before the step.
LEMMA NoticeFacts ==
  ASSUME LogInv
  PROVE  /\ notices \in [Names -> Seq(KnownNotice)]
         /\ told \in [Names -> Objects \cup {NoObj}] /\ seen \in [Names -> Objects \cup {NoObj}]
         /\ \A n \in Names : notices[n] # << >> => Informer /\ n \in Selected
         /\ \A n \in Names : Known(told[n], seen[n], n \in lost)
         /\ \A n \in Names : Chained(notices[n], seen[n], store[n])
         /\ ~rewound => \A n \in Names : \A i \in 1 .. Len(notices[n]) : Shown(states, n, notices[n][i], rv)
<1>1. \A n \in Names : Known(told[n], seen[n], n \in lost)
  BY DEF LogInv, QueueInv, ToldInv, Known
<1> QED BY <1>1 DEF LogInv, QueueInv, ChainInv, SeenInv

\* The notifications that are handed over with the deltas of an object.
LEMMA PopNotices ==
  ASSUME ServerType, CacheType, LogInv, NEW n \in Names, Pop(n)
  PROVE  NoticeNext
<1> DEFINE q == notices[n]
           r == [i \in DOMAIN fifo[n] |-> Notice(n, i)]
           S(i) == Stage(fifo[n], store[n], i)
           N == Len(fifo[n])
<1>1. /\ fifo[n] \in Seq(KnownDelta) /\ fifo[n] # << >> /\ store \in [Names -> Objects \cup {NoObj}]
      /\ Informer /\ n \in Selected
      /\ ~rewound => Seen(states, n, fifo[n], store[n], rv)
  BY DEF Pop, CacheType, LogInv, QueueInv, SeenInv
<1>2. N \in Nat /\ N # 0 /\ DOMAIN fifo[n] = 1 .. N /\ \A i \in 1 .. N : fifo[n][i] \in KnownDelta
  BY <1>1, LenProperties, EmptySeq, ElementOfSeq
<1>3. \A i : After(n, i) = S(i)
  BY DEF After, Stage, Outcome
<1>4. /\ notices' = [notices EXCEPT ![n] = q \o r] /\ store' = [store EXCEPT ![n] = S(N)]
      /\ UNCHANGED <<seen, told, lost, rewound>>
  BY <1>3 DEF Pop, history
<1>5. ASSUME NEW i \in 1 .. N
      PROVE  /\ S(i) \in Objects \cup {NoObj} /\ (fifo[n][i].type = "set" => S(i) \in Objects)
             /\ fifo[n][i].type # "set" => S(i) = NoObj
             /\ fifo[n][i].type \in {"set", "delete", "tomb"} /\ fifo[n][i].obj \in Objects /\ i # 0
  BY <1>2 DEF Stage, Outcome, KnownDelta
<1>6. ASSUME NEW i \in 1 .. N
      PROVE  /\ r[i].type = fifo[n][i].type /\ r[i].new = S(i)
             /\ r[i].old = IF fifo[n][i].type = "set" THEN S(i - 1) ELSE fifo[n][i].obj
             /\ r[i] = [type |-> r[i].type, old |-> r[i].old, new |-> r[i].new]
  BY <1>2, <1>3 DEF Notice
<1>7. ASSUME NEW i \in 1 .. N PROVE S(i - 1) \in Objects \cup {NoObj}
  <2>1. CASE i = 1
    BY <1>1, <2>1 DEF Stage
  <2>2. CASE i # 1
    <3>1. i - 1 \in 1 .. N
      BY <1>2, <2>2
    <3> QED BY <1>5, <3>1
  <2> QED BY <2>1, <2>2
<1>8. r = [i \in 1 .. N |-> r[i]]
  BY <1>2
<1> HIDE DEF r, S, N
<1>9. ASSUME NEW i \in 1 .. N PROVE r[i] \in KnownNotice
  <2>1. /\ r[i].type \in {"set", "delete", "tomb"} /\ r[i].old \in Objects \cup {NoObj} /\ r[i].new \in Objects \cup {NoObj}
        /\ IF r[i].type = "set" THEN r[i].new \in Objects ELSE r[i].old \in Objects /\ r[i].new = NoObj
    BY <1>5, <1>6, <1>7
  <2>2. r[i] \in [type : {"set", "delete", "tomb"}, old : Objects \cup {NoObj}, new : Objects \cup {NoObj}]
    <3> DEFINE type == r[i].type
               old == r[i].old
               new == r[i].new
               Object == Objects \cup {NoObj}
    <3>1. r[i] = [type |-> type, old |-> old, new |-> new]
      BY <1>6
    <3>2. type \in {"set", "delete", "tomb"} /\ old \in Object /\ new \in Object
      BY <2>1
    <3> HIDE DEF type, old, new, Object
    <3>3. [type |-> type, old |-> old, new |-> new] \in [type : {"set", "delete", "tomb"}, old : Object, new : Object]
      BY <3>2
    <3> QED BY <3>1, <3>3 DEF Object
  <2> QED BY <2>1, <2>2 DEF KnownNotice
<1>10. r \in Seq(KnownNotice) /\ Len(r) = N
  <2>1. r \in [1 .. N -> KnownNotice]
    BY <1>8, <1>9
  <2>2. r \in Seq(KnownNotice)
    BY <1>2, <2>1, IsASeq
  <2> QED BY <1>2, <2>1, <2>2, LenProperties
<1>11. Chained(r, store[n], S(N))
  <2>1. ASSUME NEW i \in 1 .. N PROVE Prior(r, store[n], i) = S(i - 1)
    <3>1. CASE i = 1
      BY <3>1 DEF Prior, S, Stage
    <3>2. CASE i # 1
      <4>1. i - 1 \in 1 .. N
        BY <1>2, <3>2
      <4> QED BY <1>6, <3>2, <4>1 DEF Prior
    <3> QED BY <3>1, <3>2
  <2>2. \A i \in 1 .. N : r[i].type = "set" => r[i].old = Prior(r, store[n], i)
    BY <1>6, <2>1
  <2>3. S(N) = Prior(r, store[n], N + 1)
    <3>1. N \in 1 .. N /\ N + 1 # 1 /\ (N + 1) - 1 = N
      BY <1>2
    <3> QED BY <1>6, <3>1 DEF Prior
  <2> QED BY <1>10, <2>2, <2>3 DEF Chained
<1>12. ASSUME ~rewound, NEW i \in 1 .. N PROVE Shown(states, n, r[i], rv)
  <2> SUFFICES ASSUME r[i].type = "set", r[i].old # NoObj PROVE WasInBoth(states, n, r[i].old, r[i].new, rv)
    BY DEF Shown
  <2>1. r[i].old = S(i - 1) /\ r[i].new = S(i) /\ S(i) # NoObj
    <3>1. fifo[n][i].type = "set"
      BY <1>6
    <3>2. NoObj \notin Objects
      BY DEF Objects, NoObj
    <3> QED BY <1>5, <1>6, <3>1, <3>2
  <2> QED BY <1>1, <1>12, <2>1 DEF Seen, S, N
<1>13. /\ notices \in [Names -> Seq(KnownNotice)] /\ q \in Seq(KnownNotice)
       /\ told \in [Names -> Objects \cup {NoObj}] /\ seen \in [Names -> Objects \cup {NoObj}]
       /\ \A m \in Names : notices[m] # << >> => Informer /\ m \in Selected
       /\ \A m \in Names : Known(told[m], seen[m], m \in lost)
       /\ \A m \in Names : Chained(notices[m], seen[m], store[m])
       /\ ~rewound => \A m \in Names : \A i \in 1 .. Len(notices[m]) : Shown(states, m, notices[m][i], rv)
  BY NoticeFacts
<1>14. /\ q \o r \in Seq(KnownNotice) /\ Len(q \o r) = Len(q) + Len(r) /\ Len(q) \in Nat
       /\ \A i \in 1 .. Len(q) + Len(r) : (q \o r)[i] = IF i <= Len(q) THEN q[i] ELSE r[i - Len(q)]
  BY <1>10, <1>13, ConcatProperties, LenProperties
<1>15. Chained(q \o r, seen[n], S(N))
  BY <1>10, <1>11, <1>13, ChainJoined
<1>16. ASSUME ~rewound, NEW i \in 1 .. Len(q \o r) PROVE Shown(states, n, (q \o r)[i], rv)
  <2>1. CASE i <= Len(q)
    <3>1. i \in 1 .. Len(q) /\ (q \o r)[i] = q[i]
      BY <1>14, <2>1
    <3> QED BY <1>13, <1>16, <3>1
  <2>2. CASE ~(i <= Len(q))
    <3>1. i - Len(q) \in 1 .. N /\ (q \o r)[i] = r[i - Len(q)]
      BY <1>2, <1>10, <1>14, <2>2
    <3> QED BY <1>12, <1>16, <3>1
  <2> QED BY <2>1, <2>2
<1> DEFINE qr == q \o r
<1>17. qr \in Seq(KnownNotice) /\ Chained(qr, seen[n], S(N)) /\ (~rewound => \A i \in 1 .. Len(qr) : Shown(states, n, qr[i], rv))
  BY <1>14, <1>15, <1>16
<1>18. notices' = [notices EXCEPT ![n] = qr]
  BY <1>4
<1> HIDE DEF qr
<1>19. /\ notices'[n] = qr /\ store'[n] = S(N)
       /\ \A m \in Names \ {n} : notices'[m] = notices[m] /\ store'[m] = store[m]
  BY <1>1, <1>4, <1>13, <1>18
<1>20. notices' \in [Names -> Seq(KnownNotice)]
  BY <1>13, <1>17, <1>18
<1>21. \A m \in Names : Chained(notices'[m], seen'[m], store'[m])
  BY <1>4, <1>13, <1>17, <1>19
<1>22. ~rewound => \A m \in Names : \A i \in 1 .. Len(notices'[m]) : Shown(states, m, notices'[m][i], rv)
  BY <1>13, <1>17, <1>19
<1>23. \A m \in Names : notices'[m] # << >> => Informer /\ m \in Selected
  BY <1>1, <1>13, <1>19
<1> QED BY <1>4, <1>13, <1>20, <1>21, <1>22, <1>23 DEF NoticeNext

\* What a handler leaves a reader with.
LEMMA NotifyNotices ==
  ASSUME ServerType, LogInv, NEW n \in Names, Notify(n)
  PROVE  NoticeNext
<1> DEFINE q == notices[n]
           c == Head(q)
           rest == Tail(q)
           gone == Unrecorded(n, c)
           t == Told(told[n], c.old, c.new, UNION ToSet(Conditions(n, c)))
<1>1. /\ notices \in [Names -> Seq(KnownNotice)] /\ q \in Seq(KnownNotice)
      /\ told \in [Names -> Objects \cup {NoObj}] /\ seen \in [Names -> Objects \cup {NoObj}]
      /\ \A m \in Names : notices[m] # << >> => Informer /\ m \in Selected
      /\ \A m \in Names : Known(told[m], seen[m], m \in lost)
      /\ \A m \in Names : Chained(notices[m], seen[m], store[m])
      /\ ~rewound => \A m \in Names : \A i \in 1 .. Len(notices[m]) : Shown(states, m, notices[m][i], rv)
  BY NoticeFacts
<1>2. /\ q # << >> /\ told' = [told EXCEPT ![n] = t] /\ seen' = [seen EXCEPT ![n] = c.new]
      /\ lost' = (IF gone THEN lost \cup {n} ELSE lost \ {n})
      /\ notices' = [notices EXCEPT ![n] = rest] /\ UNCHANGED <<store, rewound>>
  BY DEF Notify
<1>3. InformerKind /\ c \in KnownNotice
  BY NotifyLog
<1>4. /\ rest \in Seq(KnownNotice) /\ Len(rest) = Len(q) - 1 /\ Len(q) \in Nat
      /\ \A i \in 1 .. Len(rest) : rest[i] = q[i + 1]
  BY <1>1, <1>2, HeadTailProperties, LenProperties
<1>5. Chained(rest, c.new, store[n]) /\ (c.type = "set" => c.old = seen[n])
  BY <1>1, <1>2, ChainRest
<1>6. Known(told[n], seen[n], n \in lost)
  BY <1>1
<1> HIDE DEF c, rest
<1>7. Known(t, c.new, gone)
  BY <1>3, <1>5, <1>6, NoticeTold
<1>8. c.new \in Objects \cup {NoObj}
  BY <1>3 DEF KnownNotice
<1>9. t \in Objects \cup {NoObj} /\ gone \in BOOLEAN
  BY <1>7 DEF Known
<1> HIDE DEF gone, t, q
<1>10. /\ told'[n] = t /\ seen'[n] = c.new /\ notices'[n] = rest /\ (n \in lost' <=> gone)
       /\ \A m \in Names \ {n} : /\ told'[m] = told[m] /\ seen'[m] = seen[m] /\ notices'[m] = notices[m]
                                 /\ m \in lost' <=> m \in lost
  BY <1>1, <1>2, <1>9
<1>11. /\ told' \in [Names -> Objects \cup {NoObj}] /\ seen' \in [Names -> Objects \cup {NoObj}]
       /\ notices' \in [Names -> Seq(KnownNotice)]
  BY <1>1, <1>2, <1>4, <1>8, <1>9
<1>12. \A m \in Names : Known(told'[m], seen'[m], m \in lost')
  <2>1. Known(told'[n], seen'[n], n \in lost')
    BY <1>7, <1>10 DEF Known
  <2>2. \A m \in Names \ {n} : Known(told'[m], seen'[m], m \in lost')
    BY <1>1, <1>10 DEF Known
  <2> QED BY <2>1, <2>2
<1>13. \A m \in Names : Chained(notices'[m], seen'[m], store'[m])
  BY <1>1, <1>2, <1>5, <1>10
<1>14. ~rewound => \A i \in 1 .. Len(rest) : Shown(states, n, rest[i], rv)
  <2>1. \A i \in 1 .. Len(rest) : i + 1 \in 1 .. Len(notices[n]) /\ rest[i] = notices[n][i + 1]
    BY <1>4 DEF q
  <2> QED BY <1>1, <2>1
<1>15. ~rewound => \A m \in Names : \A i \in 1 .. Len(notices'[m]) : Shown(states, m, notices'[m][i], rv)
  BY <1>1, <1>10, <1>14
<1>16. \A m \in Names : notices'[m] # << >> => Informer /\ m \in Selected
  BY <1>1, <1>2, <1>10 DEF q
<1> QED BY <1>2, <1>11, <1>12, <1>13, <1>15, <1>16 DEF NoticeNext

\* Only the store's and the handlers' steps change the notifications.
LEMMA NoticeCases ==
  ASSUME IInv, LogInv, [Next]_vars
  PROVE  NoticeNext /\ pc' \in {"check", "watch", "stream", "exited"}
<1>0. pc \in {"check", "watch", "stream", "exited"}
  BY DEF LogInv, QueueInv
<1>1. ASSUME UNCHANGED <<store, notices, seen, told, lost>> PROVE NoticeNext
  BY <1>1, NoticeFacts DEF NoticeNext
<1>2. CASE ServerChange \/ Compact \/ Stop \/ ListFails \/ ListVersion \/ List
  BY <1>0, <1>1, <1>2 DEF ServerChange, Compact, Stop, ListFails, ListVersion, List, cache, history
<1>3. CASE WatchRefused \/ WatchExpired \/ Watch
  BY <1>0, <1>1, <1>3 DEF WatchRefused, WatchExpired, Watch, cache, history
<1>4. CASE StreamEnds \/ StreamFails \/ EventError \/ StreamEvent
  BY <1>0, <1>1, <1>4 DEF StreamEnds, StreamFails, EventError, StreamEvent, cache, history
<1>5. CASE StreamObject \/ Resync
  BY <1>0, <1>1, <1>5 DEF StreamObject, Resync, cache, history
<1>6. ASSUME NEW n \in Names, Pop(n) PROVE NoticeNext /\ pc' = pc
  BY <1>6, PopNotices DEF IInv, Pop
<1>7. ASSUME NEW n \in Names, Notify(n) PROVE NoticeNext /\ pc' = pc
  BY <1>7, NotifyNotices DEF IInv, Notify
<1>8. CASE UNCHANGED vars
  BY <1>0, <1>1, <1>8 DEF vars, cache, history
<1> QED BY <1>0, <1>2, <1>3, <1>4, <1>5, <1>6, <1>7, <1>8 DEF Next

\* Every step keeps the types, and the log tells the state.
LEMMA QueueStep ==
  ASSUME IInv, LogInv, [Next]_vars
  PROVE  QueueInv' /\ ChainInv' /\ ToldInv' /\ SeenInv'
<1>1. /\ kind' = kind /\ Names' = Names /\ head \in Nat /\ \A v \in 0 .. head : At(v)' = At(v)
      /\ ServerType /\ CacheType
  BY ServerStep DEF IInv
<1>2. Selected' = Selected /\ (Informer' <=> Informer)
  BY <1>1 DEF Selected, Informer, filterToSystemNamespaces
<1>3. /\ notices' \in [Names -> Seq(KnownNotice)]
      /\ told' \in [Names -> Objects \cup {NoObj}] /\ seen' \in [Names -> Objects \cup {NoObj}]
      /\ \A n \in Names : notices'[n] # << >> => Informer /\ n \in Selected
      /\ \A n \in Names : Known(told'[n], seen'[n], n \in lost')
      /\ \A n \in Names : Chained(notices'[n], seen'[n], store'[n])
      /\ ~rewound => \A n \in Names : \A i \in 1 .. Len(notices'[n]) : Shown(states, n, notices'[n][i], rv)
      /\ pc' \in {"check", "watch", "stream", "exited"}
  BY NoticeCases DEF NoticeNext
<1>4. /\ \A n \in Names : seen'[n] # NoObj => told'[n] # NoObj
      /\ \A n \in Names \ lost' : Agrees(told'[n], seen'[n])
  BY <1>3 DEF Known
<1>5. ToldInv'
  BY <1>1, <1>4 DEF ToldInv, Agrees, NoObj
<1>6. ChainInv'
  BY <1>1, <1>3 DEF ChainInv, Chained, Prior
<1>7. \A v \in 0 .. rv : states'[v + 1] = states[v + 1]
  <2>1. \A v \in 0 .. rv : v \in 0 .. head
    BY <1>1 DEF CacheType
  <2> QED BY <1>1, <2>1 DEF At
<1>8. /\ fifo' \in [Names -> Seq(KnownDelta)]
      /\ \A n \in Names : fifo'[n] # << >> \/ store'[n] # NoObj => Informer /\ n \in Selected
      /\ ~rewound' => ~rewound /\ \A n \in Names : Seen(states', n, fifo'[n], store'[n], rv')
      /\ ~rewound' /\ Informer => \A v \in 0 .. rv : v \in 0 .. rv'
  <2>1. CASE QueueNext /\ UNCHANGED states
    <3>1. \A v \in 0 .. rv : rv <= rv' => v \in 0 .. rv'
      <4>1. rv \in Nat /\ rv' \in Int
        BY ServerStep, CacheStep DEF IInv, CacheType
      <4> QED BY <4>1
    <3> QED BY <2>1, <3>1 DEF QueueNext
  <2>2. CASE UNCHANGED <<fifo, store, rewound>> /\ (Informer => rv' = rv)
    <3>0. /\ fifo \in [Names -> Seq(KnownDelta)]
          /\ \A n \in Names : fifo[n] # << >> \/ store[n] # NoObj => Informer /\ n \in Selected
          /\ ~rewound => \A n \in Names : Seen(states, n, fifo[n], store[n], rv)
      BY DEF LogInv, QueueInv, SeenInv
    <3>1. ASSUME NEW n \in Names, ~rewound PROVE Seen(states', n, fifo[n], store[n], rv)
      <4>1. /\ \A o : WasIn(states, n, o, rv) => WasIn(states', n, o, rv)
            /\ \A o, p : WasInBoth(states, n, o, p, rv) => WasInBoth(states', n, o, p, rv)
        BY <1>7, WasKept
      <4>2. Seen(states, n, fifo[n], store[n], rv)
        BY <3>0, <3>1
      <4> QED BY <4>1, <4>2 DEF Seen
    <3>2. ASSUME NEW n \in Names, ~Informer PROVE Seen(states', n, fifo[n], store[n], rv')
      <4>1. fifo[n] = << >> /\ store[n] = NoObj
        BY <3>0, <3>2
      <4>2. Len(<< >>) = 0 /\ (\A i \in 0 .. 0 : i = 0) /\ 1 .. 0 = {}
        OBVIOUS
      <4>3. Stage(<< >>, NoObj, 0) = NoObj
        BY DEF Stage
      <4> QED BY <4>1, <4>2, <4>3 DEF Seen
    <3> QED BY <2>2, <3>0, <3>1, <3>2
  <2> QED BY <2>1, <2>2, QueueCases
<1>9. ASSUME ~rewound', NEW n \in Names, NEW i \in 1 .. Len(notices'[n]) PROVE Shown(states', n, notices'[n][i], rv')
  <2>1. ~rewound /\ notices'[n] # << >>
    BY <1>8, <1>9
  <2>2. Informer /\ Shown(states, n, notices'[n][i], rv)
    BY <1>3, <1>9, <2>1
  <2>3. \A v \in 0 .. rv : v \in 0 .. rv' /\ states'[v + 1] = states[v + 1]
    BY <1>7, <1>8, <1>9, <2>2
  <2> QED BY <2>2, <2>3, WasKept DEF Shown
<1>10. KnownDelta' = KnownDelta /\ KnownNotice' = KnownNotice /\ Objects' = Objects /\ NoObj' = NoObj
  BY DEF KnownDelta, KnownNotice, Objects, NoObj
<1>11. QueueInv'
  BY <1>1, <1>2, <1>3, <1>4, <1>8, <1>10 DEF QueueInv
<1>12. SeenInv'
  BY <1>1, <1>8, <1>9 DEF SeenInv, Seen, Shown, Stage, Outcome, NoObj, WasIn, WasInBoth
<1> QED BY <1>5, <1>6, <1>11, <1>12

-----------------------------------------------------------------------------
(* The errors *)

\* What an error says happened, at the first versions of a server.
Happened(k, s, last, n, u) ==
  \E v, w \in 0 .. last :
    /\ v < w /\ s[w + 1][n].uid = u
    /\ IF k = "node" THEN s[v + 1][n].uid \notin {0, u}
       ELSE s[v + 1][n].uid = u /\ ~s[v + 1][n].bad /\ s[w + 1][n].bad

Justified(k, s, last, r) ==
  r.level = "Error" /\ r.message # <<"failed contacting the API">> => Happened(k, s, last, r.locator[1], r.locator[2])

LEMMA ErrorsRealIs ==
  ErrorsReal <=> (~rewound => \A i \in DOMAIN log : Justified(kind, states, head, log[i]))
  BY DEF ErrorsReal, Justified, Happened, At

\* What a handler records as an error happened, if no list was too old.
LEMMA NotifyJustified ==
  ASSUME ServerType, CacheType, LogInv, InformerKind, ~rewound, NEW n \in Names, NEW k \in 1 .. Len(notices[n]),
         notices[n][k] \in KnownNotice, NEW r \in Caused(n, notices[n][k].old, notices[n][k].new)
  PROVE  Justified(kind, states, head, r)
<1> SUFFICES ASSUME r.level = "Error" PROVE Happened(kind, states, head, r.locator[1], r.locator[2])
  BY DEF Justified
<1> DEFINE old == notices[n][k].old
           new == notices[n][k].new
<1>1. /\ r.locator = <<n, new.uid>> /\ old # NoObj /\ new # NoObj
      /\ IF kind = "node" THEN old.uid # new.uid ELSE old.uid = new.uid /\ ~old.bad /\ new.bad
  BY DEF Caused
<1>2. WasInBoth(states, n, old, new, rv)
  <2>1. notices[n][k].type = "set"
    BY <1>1 DEF KnownNotice
  <2>2. Shown(states, n, notices[n][k], rv)
    BY DEF LogInv, SeenInv
  <2> QED BY <1>1, <2>1, <2>2 DEF Shown
<1> HIDE DEF old, new
<1>3. PICK v, w \in 0 .. rv : v <= w /\ states[v + 1][n] = old /\ states[w + 1][n] = new
  BY <1>2 DEF WasInBoth
<1>4. v \in 0 .. head /\ w \in 0 .. head
  BY <1>3, Positions DEF CacheType
<1>5. v # w
  <2>1. old # new
    BY <1>1
  <2> QED BY <1>3, <2>1
<1>6. v < w
  BY <1>3, <1>5
<1>7. old.uid # 0
  <2>1. old \in Objects \cup {NoObj}
    BY <1>3, <1>4, Positions DEF At, Snapshot
  <2> QED BY <1>1, <2>1 DEF Objects
<1>8. r.locator[1] = n /\ r.locator[2] = new.uid
  BY <1>1
<1>9. Happened(kind, states, head, n, new.uid)
  BY <1>1, <1>3, <1>4, <1>6, <1>7 DEF Happened
<1> QED BY <1>8, <1>9

\* What happened stays so when versions are added.
LEMMA HappenedKept ==
  ASSUME NEW k, NEW s, NEW t, NEW a, NEW b, NEW n, NEW u, Happened(k, s, a, n, u),
         \A v \in 0 .. a : v \in 0 .. b /\ t[v + 1] = s[v + 1]
  PROVE  Happened(k, t, b, n, u)
<1>1. PICK v \in 0 .. a, w \in 0 .. a :
        /\ v < w /\ s[w + 1][n].uid = u
        /\ IF k = "node" THEN s[v + 1][n].uid \notin {0, u}
           ELSE s[v + 1][n].uid = u /\ ~s[v + 1][n].bad /\ s[w + 1][n].bad
  BY DEF Happened
<1>2. v \in 0 .. b /\ w \in 0 .. b /\ t[v + 1] = s[v + 1] /\ t[w + 1] = s[w + 1]
  OBVIOUS
<1> QED BY <1>1, <1>2 DEF Happened

\* Every error in the log keeps its reason.
LEMMA ErrorsStep ==
  ASSUME IInv, LogInv, [Next]_vars
  PROVE  ErrorsReal'
<1> DEFINE R == Record \cup {Unreachable}
           J(r) == Justified(kind, states, head, r)
           G == {r \in R : J(r)}
<1>1. /\ kind' = kind /\ head \in Nat /\ head' \in Nat /\ head <= head' /\ \A v \in 0 .. head : At(v)' = At(v)
      /\ ServerType /\ CacheType /\ ChangeInv
  BY ServerStep DEF IInv
<1>2. \A r : J(r) => Justified(kind', states', head', r)
  <2>1. \A v \in 0 .. head : v \in 0 .. head' /\ states'[v + 1] = states[v + 1]
    BY <1>1 DEF At
  <2>2. \A n, u : Happened(kind, states, head, n, u) => Happened(kind', states', head', n, u)
    BY <1>1, <2>1, HappenedKept
  <2> QED BY <2>2 DEF Justified
<1>3. ErrorsReal' <=> (~rewound' => \A i \in DOMAIN log' : Justified(kind', states', head', log'[i]))
  BY DEF ErrorsReal, Justified, Happened, At, head
<1>4. SUFFICES ASSUME ~rewound' PROVE \A i \in DOMAIN log' : J(log'[i])
  BY <1>2, <1>3
<1>5. ~rewound
  BY <1>4, QueueCases DEF QueueNext
<1>6. log \in Seq(R) /\ \A i \in DOMAIN log : J(log[i])
  BY <1>5, ErrorsRealIs DEF LogInv, CallsInv
<1> HIDE DEF J
<1>7. ASSUME NEW s \in Seq(R), \A i \in 1 .. Len(s) : J(s[i]) PROVE s \in Seq(G)
  <2> HIDE DEF R
  <2>1. Len(s) \in Nat /\ s \in [1 .. Len(s) -> R]
    BY LenProperties
  <2>2. s \in [1 .. Len(s) -> G]
    BY <1>7, <2>1
  <2> QED BY <2>1, <2>2, IsASeq
<1>8. log \in Seq(G)
  <2>1. DOMAIN log = 1 .. Len(log)
    BY <1>6, LenProperties
  <2> QED BY <1>6, <1>7, <2>1
<1>9. ASSUME NEW e \in G, log' = Append(log, e) PROVE log' \in Seq(G)
  <2> HIDE DEF G
  <2> QED BY <1>8, <1>9, AppendProperties
<1>10. log' \in Seq(G)
  <2>1. CASE UNCHANGED log
    BY <1>8, <2>1
  <2>2. ASSUME NEW ok \in BOOLEAN, handle(ok) PROVE log' \in Seq(G)
    <3>1. log' = log \/ log' = Append(log, Unreachable)
      BY <2>2 DEF handle, api
    <3>2. Unreachable \in G
      BY DEF J, Justified, Unreachable, Cond
    <3> HIDE DEF G
    <3> QED BY <1>8, <1>9, <3>1, <3>2
  <2>3. ASSUME NEW e \in Record, log' = Append(log, e), e.level # "Error" PROVE log' \in Seq(G)
    <3>1. e \in G
      BY <2>3 DEF J, Justified
    <3> QED BY <1>9, <2>3, <3>1
  <2>4. ASSUME NEW n \in Names, Notify(n) PROVE log' \in Seq(G)
    <3> DEFINE c == Head(notices[n])
    <3>1. InformerKind /\ c \in KnownNotice /\ 1 \in 1 .. Len(notices[n]) /\ c = notices[n][1]
      BY <1>1, <2>4, NotifyLog
    <3>2. PICK t \in Seq(Record) : log' = log \o t /\ \A i \in 1 .. Len(t) : t[i] \in Caused(n, c.old, c.new)
      BY <1>1, <2>4, NotifyLog
    <3> HIDE DEF c
    <3>3. ASSUME NEW r \in Caused(n, c.old, c.new) PROVE J(r)
      BY <1>1, <1>5, <3>1, NotifyJustified DEF J
    <3>4. \A i \in 1 .. Len(t) : J(t[i])
      BY <3>2, <3>3
    <3>5. t \in Seq(R)
      BY <3>2, SeqMonotonic
    <3>6. t \in Seq(G)
      BY <1>7, <3>4, <3>5
    <3> HIDE DEF G
    <3> QED BY <1>8, <3>2, <3>6, ConcatProperties
  <2> HIDE DEF G
  <2> QED BY <1>1, <2>1, <2>2, <2>3, <2>4, ApiCases
<1>11. \A i \in DOMAIN log' : log'[i] \in G
  <2> HIDE DEF G
  <2> QED BY <1>10, LenProperties, ElementOfSeq
<1> QED BY <1>11

-----------------------------------------------------------------------------
(* The theorems *)

\* Nothing is stored, told or recorded at first.
LEMMA InitLog ==
  ASSUME Init
  PROVE  LogInv
<1>1. QueueInv
  BY EmptySeq DEF Init, QueueInv, Nothing
<1>2. ToldInv /\ ChainInv
  <2>1. ToldInv
    BY DEF Init, ToldInv, Nothing, Agrees
  <2>2. \A n \in Names : notices[n] = << >> /\ seen[n] = NoObj /\ store[n] = NoObj
    BY DEF Init, Nothing
  <2>3. Len(<< >>) = 0 /\ 1 .. 0 = {} /\ 0 + 1 = 1
    OBVIOUS
  <2> QED BY <2>1, <2>2, <2>3 DEF ChainInv, Chained, Prior
<1>3. CallsInv
  <2>1. Outages(log) = {} /\ Starts(calls) = {}
    BY DEF Init, Outages, Starts
  <2> QED BY <2>1, EmptySeq DEF Init, CallsInv
<1>4. SeenInv
  <2>1. \A n \in Names : fifo[n] = << >> /\ store[n] = NoObj /\ notices[n] = << >>
    BY DEF Init, Nothing
  <2>2. Len(<< >>) = 0 /\ (\A i \in 0 .. 0 : i = 0) /\ 1 .. 0 = {}
    OBVIOUS
  <2>3. Stage(<< >>, NoObj, 0) = NoObj
    BY DEF Stage
  <2> QED BY <2>1, <2>2, <2>3 DEF SeenInv, Seen
<1>5. ErrorsReal
  <2>1. DOMAIN log = {}
    BY DEF Init
  <2> QED BY <2>1, ErrorsRealIs
<1> QED BY <1>1, <1>2, <1>3, <1>4, <1>5 DEF LogInv

\* Every step of the server, of the informers and of their handlers keeps what is
\* queued, stored and recorded in agreement.
THEOREM LogInvariance == Spec => [](IInv /\ LogInv)
<1>1. ASSUME IInv, LogInv, [Next]_vars PROVE LogInv'
  BY <1>1, CallsStep, QueueStep, ErrorsStep DEF IInv, LogInv
<1> QED BY Invariance, InitLog, <1>1, PTL DEF Spec

\* The variables have their types; in particular no delta is queued without an
\* object and only objects the informer selects are stored.
THEOREM WatchersTypes == Spec => []TypeOK
<1>1. ASSUME IInv, LogInv PROVE TypeOK
  <2> DEFINE Pending == [type : {"set", "delete", "tomb"}, old : Objects \cup {NoObj}, new : Objects \cup {NoObj}]
  <2>1. notices \in [Names -> Seq(Pending)]
    <3>1. KnownNotice \subseteq Pending /\ notices \in [Names -> Seq(KnownNotice)]
      BY <1>1 DEF KnownNotice, LogInv, QueueInv
    <3> HIDE DEF Pending
    <3>2. Seq(KnownNotice) \subseteq Seq(Pending)
      BY <3>1, SeqMonotonic
    <3> QED BY <3>1, <3>2
  <2> QED BY <1>1, <2>1 DEF IInv, LogInv, ServerType, CacheType, QueueInv, KnownDelta, Snapshot, TypeOK
<1> QED BY <1>1, LogInvariance, PTL

\* What the samplers make of an object.
LEMMA Samples ==
  ASSUME NEW n, NEW o \in Objects
  PROVE  /\ kind = "node" => (SampleNode(Expand(n, o)) # {} <=> o.bad)
         /\ kind = "pod" => (SamplePod(Expand(n, o), TRUE) # {} <=> o.bad)
         /\ kind = "clusterversion" => (SampleVersion(Expand(n, o)) # {} <=> o.bad)
<1> DEFINE p == Expand(n, o)
<1>1. CASE kind = "node"
  <2> DEFINE c == [name |-> "Ready", status |-> IF o.bad THEN "False" ELSE "True"]
  <2>1. p.conds = <<c>> /\ c.name = "Ready" /\ (c.status = "True" <=> ~o.bad)
    BY <1>1 DEF Expand
  <2> HIDE DEF c, p
  <2>2. DOMAIN p.conds = {1} /\ p.conds[1] = c
    BY <2>1
  <2>3. findStatus(p.conds, "Ready", 1) = 1
    BY <2>1, <2>2 DEF findStatus
  <2>4. SampleNode(p) # {} <=> o.bad
    <3> DEFINE k == findStatus(p.conds, "Ready", 1)
               notReady == Cond("Warning", p.id, <<"not ready">>)
    <3>1. SampleNode(p) = IF k # 0 /\ p.conds[k].status = "True" THEN {} ELSE {notReady}
      BY DEF SampleNode
    <3> HIDE DEF notReady
    <3> QED BY <2>1, <2>2, <2>3, <3>1
  <2> QED BY <1>1, <2>4 DEF p
<1>2. CASE kind = "pod"
  BY <1>2 DEF Expand, SamplePod
<1>3. CASE kind = "clusterversion"
  <2> DEFINE h == [state |-> IF o.bad THEN "Partial" ELSE "Completed", image |-> "i", version |-> "v"]
  <2>1. p.history = <<h>> /\ (h.state = "Completed" <=> ~o.bad)
    BY <1>3 DEF Expand
  <2> HIDE DEF h, p
  <2>2. p.history # << >> /\ p.history[1] = h
    BY <2>1
  <2>3. SampleVersion(p) # {} <=> o.bad
    BY <2>1, <2>2 DEF SampleVersion
  <2> QED BY <1>3, <2>3 DEF p
<1> QED BY <1>1, <1>2, <1>3

\* Who reads the log knows which incarnation of each object the handler was told of
\* and whether the sampler finds it wanting, unless it went as a tombstone or was
\* replaced under its name; and the handler was told of all that is stored, however
\* many deltas and notifications went before.
THEOREM LogTellsTheState == Spec => []LogTellsState
<1>1. ASSUME IInv, LogInv, NEW n \in Names \ lost
      PROVE  LET obj == Expand(n, seen[n])
             IN  /\ told[n].uid = seen[n].uid
                 /\ seen[n] # NoObj =>
                      CASE kind = "node" -> told[n].bad = (SampleNode(obj) # {})
                        [] kind = "clusteroperator" -> told[n].bad = seen[n].bad
                        [] kind = "pod" -> SamplePod(obj, TRUE) # {} => told[n].bad
                        [] kind = "clusterversion" -> told[n].bad => SampleVersion(obj) # {}
  <2>1. Agrees(told[n], seen[n])
    BY <1>1 DEF LogInv, ToldInv
  <2>2. CASE seen[n] = NoObj
    BY <2>1, <2>2 DEF Agrees
  <2>3. CASE seen[n] # NoObj
    <3>1. seen[n] \in Objects /\ told[n] \in Objects
      BY <1>1, <2>3 DEF LogInv, QueueInv
    <3>2. seen[n].bad \in BOOLEAN /\ told[n].bad \in BOOLEAN
      BY <3>1 DEF Objects
    <3>3. InformerKind
      <4>1. notices[n] # << >> \/ store[n] # NoObj
        <5>1. CASE notices[n] = << >>
          <6>1. Len(notices[n]) + 1 = 1
            BY <5>1
          <6> QED BY <1>1, <2>3, <6>1 DEF LogInv, ChainInv, Chained, Prior
        <5> QED BY <5>1
      <4> QED BY <1>1, <4>1, KindsAssumption DEF IInv, LogInv, QueueInv, ServerType, Informer, InformerKind, AllKinds
    <3> QED BY <2>1, <2>3, <3>1, <3>2, <3>3, Samples DEF Agrees, InformerKind
  <2> QED BY <2>2, <2>3
<1>2. ASSUME LogInv, NEW n \in Names, notices[n] = << >> PROVE seen[n] = store[n]
  <2>1. Len(notices[n]) + 1 = 1
    BY <1>2
  <2> QED BY <1>2, <2>1 DEF LogInv, ChainInv, Chained, Prior
<1>3. IInv /\ LogInv => LogTellsState
  BY <1>1, <1>2 DEF LogTellsState
<1> QED BY <1>3, LogInvariance, PTL

\* An error in the log is about something the object did, unless a list was older
\* than what the informer had seen.
THEOREM ErrorsAreReal == Spec => []ErrorsReal
<1>1. LogInv => ErrorsReal
  BY DEF LogInv
<1> QED BY <1>1, LogInvariance, PTL

\* The log holds one record for every maximal run of failed requests.
THEOREM OutagesRecordedOnce == Spec => []OutageRecordedOnce
<1>1. LogInv => OutageRecordedOnce
  BY DEF LogInv, CallsInv, Outages, Starts, OutageRecordedOnce
<1> QED BY <1>1, LogInvariance, PTL
=============================================================================
