------------------------------ MODULE Watchers ------------------------------
(***************************************************************************)
(* The parts of the monitor that follow the cluster by listing and         *)
(* watching: the informers for pods, nodes, cluster operators and the      *)
(* cluster version (pod.go, node.go, operator.go) with the wrapper that    *)
(* records failing requests (errorRecordingListWatcher in api.go), and the *)
(* goroutine that follows the events (event.go).                           *)
(*                                                                         *)
(* A behaviour is about one of them, its kind.  The API server is an       *)
(* environment: a sequence of versions of its objects whose older part may *)
(* be compacted away; a list may be served from a cache, and so be older   *)
(* than what was seen before (the reflector asks for version "0"); streams *)
(* are cut, fail and expire.  Between the reflector and the handlers are   *)
(* the queue of deltas, the store and the pending notifications of the     *)
(* vendored client-go informer: an object is stored first and its handler  *)
(* is called by another goroutine later.  The order in which the keys of   *)
(* the queue are popped, and that in which notifications of different      *)
(* objects are handled, are left open: no handler looks at two objects.    *)
(***************************************************************************)
EXTENDS ChangeFns, FiniteSets

CONSTANTS Kinds,       \* the kinds to choose from
          Order,       \* for each kind the names of the objects, in the order of a list
          System,      \* those in system namespaces, or named "version"
          MaxVersion,  \* bound on the changes of the server
          MaxCalls,    \* bound on the history of a wrapped kind's requests
          MaxDeltas,   \* bound on the queued deltas and pending notifications of an object
          MaxLog       \* bound on the records

AllKinds == {"pod", "node", "clusteroperator", "clusterversion", "event"}

ASSUME KindsAssumption == /\ Kinds \subseteq AllKinds
                          /\ \A k \in Kinds : Order[k] \in Seq(ToSet(Order[k])) \ {<< >>}
ASSUME BoundsAssumption == {MaxVersion, MaxCalls, MaxDeltas, MaxLog} \subseteq Nat

\* An object: its uid and whether it is in the worse of two states.  Those with
\* uid 1 were created before startTime, a minute before the monitor starts; a uid
\* of 0 is no object.
Objects == [uid : 1 .. MaxVersion + 1, bad : BOOLEAN]
NoObj == [uid |-> 0, bad |-> FALSE]

VARIABLES kind,
          states,     \* the server's objects at versions 0, 1, ...
          oldest,     \* watches from before this version are expired
          pc,         \* where the reflector or the goroutine is
          rv,         \* the version it will watch from
          cursor,     \* the version its stream has reached, rv when there is none
          receivedError,  \* of the errorRecordingListWatcher
          calls,      \* history: the outcomes of its requests, equal ones in a row as one
          log,        \* the conditions recorded with the monitor
          fifo,       \* the queued deltas of each object
          store,      \* the informer's store
          notices,    \* the notifications of each object that wait for its handler
          seen,       \* history: each object as the handler was last told
          told,       \* history: what the log tells about each object
          lost,       \* history: objects whose departure was not recorded
          blind,      \* history: objects the last list got wrong
          rewound,    \* history: a list was older than what had been seen
          lists,      \* history: the lists of the events' goroutine, from where to where each jumped
          reached     \* history: the furthest version that it listed or read

server == <<kind, states, oldest>>
api == <<receivedError, calls, log>>
cache == <<fifo, store, notices>>
history == <<seen, told, lost, blind, rewound, lists, reached>>
vars == <<server, pc, rv, cursor, api, cache, history>>

Names == ToSet(Order[kind])
Nothing == [n \in Names |-> NoObj]
head == Len(states) - 1
At(v) == states[v + 1]

Init == /\ kind \in Kinds
        /\ states \in {<<[n \in Names |-> [uid |-> IF n \in S THEN 1 ELSE 0, bad |-> FALSE]]>> : S \in SUBSET Names}
        /\ oldest = 0
        /\ pc = "check" /\ rv = 0 /\ cursor = 0
        /\ receivedError = FALSE /\ calls = << >> /\ log = << >>
        /\ fifo = [n \in Names |-> << >>] /\ store = Nothing /\ notices = [n \in Names |-> << >>]
        /\ seen = Nothing /\ told = Nothing /\ lost = {} /\ blind = {} /\ rewound = FALSE
        /\ lists = << >> /\ reached = 0

-----------------------------------------------------------------------------
(* The server *)

\* An object is created, changes, or is deleted.
ServerChange ==
  /\ head < MaxVersion
  /\ \E n \in Names :
       LET o == At(head)[n]
       IN  \E new \in IF o = NoObj THEN [uid : {head + 2}, bad : BOOLEAN]
                      ELSE {[o EXCEPT !.bad = ~o.bad], NoObj} :
             states' = Append(states, [At(head) EXCEPT ![n] = new])
  /\ UNCHANGED <<kind, oldest, pc, rv, cursor, api, cache, history>>

Compact ==
  /\ oldest < head
  /\ oldest' \in oldest + 1 .. head
  /\ UNCHANGED <<kind, states, pc, rv, cursor, api, cache, history>>

\* The object that version v changed.
Changed(v) == CHOOSE n \in Names : At(v)[n] # At(v - 1)[n]

-----------------------------------------------------------------------------
(* Requests *)

filterToSystemNamespaces(n) == n \in System

\* Pods and events are filtered, and the cluster version has a field selector.
Selected == {n \in Names : kind \in {"pod", "event", "clusterversion"} => filterToSystemNamespaces(n)}

Wrapped == kind \in {"pod", "clusteroperator", "clusterversion"}
Informer == kind # "event"

Unreachable == Cond("Error", <<"kube-apiserver", 0>>, <<"failed contacting the API">>)

\* The history of the requests.
Request(ok) == IF ok = (calls = << >> \/ Last(calls)) THEN UNCHANGED calls
               ELSE Len(calls) < MaxCalls /\ calls' = Append(calls, ok)

\* Seeded fault: every failure is recorded.
HandleAlways(ok) ==
  IF ~Wrapped THEN UNCHANGED api
  ELSE /\ Request(ok)
       /\ receivedError' = ~ok
       /\ log' = IF ok THEN log ELSE Append(log, Unreachable)

\* errorRecordingListWatcher.handle: the first failure of a streak is recorded.
handle(ok) ==
  IF ~Wrapped THEN UNCHANGED api
  ELSE /\ Request(ok)
       /\ receivedError' = ~ok
       /\ log' = IF ok \/ receivedError THEN log ELSE Append(log, Unreachable)

\* The context is done, which may happen at any time.  The reflector looks for it
\* everywhere, the events' goroutine only before it lists.
Stop ==
  /\ pc # "exited" /\ (Informer \/ pc = "check")
  /\ pc' = "exited" /\ cursor' = rv
  /\ UNCHANGED <<server, rv, api, cache, history>>

ListFails ==
  /\ pc = "check"
  /\ handle(FALSE)
  /\ UNCHANGED <<server, pc, rv, cursor, cache, history>>

\* What the bound on the deltas of an object is about.
Backlog(n) == Len(fifo[n]) + Len(notices[n])

\* DeltaFIFO.queueActionLocked: two deletions in a row are joined, the one that
\* knows the final state is kept.
Enqueue(deltas, d) ==
  IF deltas # << >> /\ {Last(deltas).type, d.type} \subseteq {"delete", "tomb"}
  THEN Append(Front(deltas), IF Last(deltas).type = "tomb" THEN d ELSE Last(deltas))
  ELSE Append(deltas, d)

\* The names in the answer to a list of version v.
Listed(v) ==
  LET items == Filter(Order[kind], {n \in Names : At(v)[n] # NoObj})
  IN  ToSet(IF kind = "pod" THEN ListFilter(items, System) ELSE items) \cap Selected

\* Seeded fault: what is not in the list stays in the store.
ReplaceKeepsMissing(v) ==
  fifo' = [n \in Names |-> IF n \in Listed(v) THEN Enqueue(fifo[n], [type |-> "set", obj |-> At(v)[n]])
                           ELSE fifo[n]]

\* DeltaFIFO.Replace: what is listed is set; what is stored and not listed is
\* deleted, its final state unknown.  Queued deltas of other objects are left.
Replace(v) ==
  fifo' = [n \in Names |-> IF n \in Listed(v) THEN Enqueue(fifo[n], [type |-> "set", obj |-> At(v)[n]])
                           ELSE IF store[n] # NoObj THEN Enqueue(fifo[n], [type |-> "tomb", obj |-> store[n]])
                           ELSE fifo[n]]

\* The objects such a list leaves wrong in the store: those the filter dropped,
\* and those whose addition is queued although they are gone.
Misread(v) ==
  {n \in Selected \ Listed(v) : \/ At(v)[n] # NoObj
                                \/ store[n] = NoObj /\ fifo[n] # << >> /\ Last(fifo[n]).type = "set"}

\* The informer lists what the server, or a cache of it, has.
List ==
  /\ Informer /\ pc = "check"
  /\ \A n \in Names : Backlog(n) < MaxDeltas
  /\ handle(TRUE)
  /\ \E v \in 0 .. head :
       /\ rv' = v /\ cursor' = v
       /\ rewound' = (rewound \/ v < rv)
       /\ Replace(v)
       /\ blind' = Misread(v)
  /\ pc' = "watch"
  /\ UNCHANGED <<server, store, notices, seen, told, lost, lists, reached>>

\* The events' goroutine asks only for the version, and so jumps over what it has
\* not read.
ListVersion ==
  /\ ~Informer /\ pc = "check"
  /\ rv' = head /\ cursor' = head
  /\ lists' = Append(lists, [from |-> reached, to |-> head]) /\ reached' = head
  /\ pc' = "watch"
  /\ UNCHANGED <<server, api, cache, seen, told, lost, blind, rewound>>

\* The connection is refused: the same watch again.
WatchRefused ==
  /\ pc = "watch"
  /\ handle(FALSE)
  /\ UNCHANGED <<server, pc, rv, cursor, cache, history>>

\* Seeded fault: an expired version is tried again.
WatchExpiredRetries == pc = "watch" /\ rv < oldest /\ UNCHANGED vars

\* Seeded fault: the events' goroutine too lists again after any failure.
WatchExpiredAny ==
  /\ pc = "watch"
  /\ handle(FALSE)
  /\ pc' = "check"
  /\ UNCHANGED <<server, rv, cursor, cache, history>>

\* The watch fails because its version is expired, or, which only the reflector
\* takes as a reason to list, otherwise.
WatchExpired ==
  /\ pc = "watch"
  /\ rv < oldest \/ Informer
  /\ handle(FALSE)
  /\ pc' = "check"
  /\ UNCHANGED <<server, rv, cursor, cache, history>>

\* Seeded fault: the watch asks for the version after the one it has.
WatchSkips ==
  /\ pc = "watch" /\ rv >= oldest
  /\ handle(TRUE)
  /\ cursor' = rv + 1
  /\ pc' = "stream"
  /\ UNCHANGED <<server, rv, cache, history>>

Watch ==
  /\ pc = "watch" /\ rv >= oldest
  /\ handle(TRUE)
  /\ pc' = "stream"
  /\ UNCHANGED <<server, rv, cursor, cache, history>>

\* The stream is closed: it is watched again.
StreamEnds ==
  /\ pc = "stream"
  /\ pc' = "watch" /\ cursor' = rv
  /\ UNCHANGED <<server, rv, api, cache, history>>

\* The stream reports that the version is expired, or, to the reflector, another
\* error: the list is made again.
StreamFails ==
  /\ pc = "stream"
  /\ cursor < oldest \/ Informer
  /\ pc' = "check" /\ cursor' = rv
  /\ UNCHANGED <<server, rv, api, cache, history>>

\* Any other error is recorded by the events' goroutine, which watches again.
EventError ==
  /\ ~Informer /\ pc = "stream" /\ Len(log) < MaxLog
  /\ log' = Append(log, Cond("Info", <<"kube-apiserver", 0>>, <<"error while watching">>))
  /\ pc' = "watch" /\ cursor' = rv
  /\ UNCHANGED <<server, rv, receivedError, calls, cache, history>>

-----------------------------------------------------------------------------
(* Changes on the stream *)

\* The changes the events' goroutine records.
Relevant(v) == Changed(v) \in Selected /\ At(v)[Changed(v)] # NoObj

StreamEvent ==
  /\ ~Informer /\ pc = "stream" /\ cursor < head /\ Len(log) < MaxLog
  /\ cursor' = cursor + 1
  /\ reached' = IF cursor < reached THEN reached ELSE cursor + 1
  /\ log' = IF Relevant(cursor + 1)
            THEN Append(log, Cond("Info", <<"event", cursor + 1>>, <<"event">>)) ELSE log
  /\ UNCHANGED <<server, pc, rv, receivedError, calls, cache, seen, told, lost, blind, rewound, lists>>

\* The reflector queues a change of a selected object and moves its version on; it
\* gets no others.  A deletion of an object neither stored nor queued is dropped.
StreamObject ==
  /\ Informer /\ pc = "stream" /\ cursor < head
  /\ LET n == Changed(cursor + 1)
         o == At(cursor + 1)[n]
         d == IF o = NoObj THEN [type |-> "delete", obj |-> At(cursor)[n]] ELSE [type |-> "set", obj |-> o]
     IN  /\ n \in Selected => Backlog(n) < MaxDeltas
         /\ fifo' = IF n \notin Selected \/ (o = NoObj /\ store[n] = NoObj /\ fifo[n] = << >>) THEN fifo
                    ELSE [fifo EXCEPT ![n] = Enqueue(@, d)]
         /\ blind' = blind \ {n}
         /\ rv' = IF n \in Selected THEN cursor + 1 ELSE rv
  /\ cursor' = cursor + 1
  /\ UNCHANGED <<server, pc, api, store, notices, seen, told, lost, rewound, lists, reached>>

\* DeltaFIFO.Resync, every hour: objects without queued deltas are set again.
Resync ==
  /\ Informer /\ pc \in {"watch", "stream"}
  /\ \E n \in Names : store[n] # NoObj /\ fifo[n] = << >>
  /\ \A n \in Names : Backlog(n) < MaxDeltas
  /\ fifo' = [n \in Names |-> IF store[n] # NoObj /\ fifo[n] = << >>
                              THEN <<[type |-> "set", obj |-> store[n]]>> ELSE fifo[n]]
  /\ UNCHANGED <<server, pc, rv, cursor, api, store, notices, history>>

-----------------------------------------------------------------------------
(* The store and the handlers *)

\* The API object behind an object of the model.
Expand(n, o) ==
  LET id == <<n, o.uid>>
  IN  CASE kind = "pod" -> [id |-> id, phase |-> IF o.bad THEN "Pending" ELSE "Running", deleting |-> FALSE,
                            mirror |-> FALSE, reason |-> "none", grace |-> FALSE, conts |-> << >>, inits |-> << >>]
        [] kind = "node" -> [id |-> id, conds |-> <<[name |-> "Ready", status |-> IF o.bad THEN "False" ELSE "True"]>>]
        [] kind = "clusteroperator" ->
             [id |-> id, versions |-> << >>,
              conds |-> <<[name |-> "Degraded", status |-> IF o.bad THEN "True" ELSE "False"]>>]
        [] kind = "clusterversion" ->
             [id |-> id, conds |-> << >>, history |-> <<[state |-> IF o.bad THEN "Partial" ELSE "Completed",
                                                         image |-> "i", version |-> "v"]>>]

AddFunc(n, o) == IF kind = "node" \/ o.uid = 1 THEN << >> ELSE <<{Cond("Info", <<n, o.uid>>, <<"created">>)}>>

ChangeFunctions(n, old, new) ==
  LET Apply(fns(_, _)) == fns(Expand(n, new), Expand(n, old))
  IN  CASE kind = "pod" -> Apply(podChangeFns)
        [] kind = "node" -> Apply(nodeChangeFns)
        [] kind = "clusteroperator" -> Apply(coChangeFns)
        [] kind = "clusterversion" -> Apply(cvChangeFns)

\* Seeded fault: no handler looks at an object with another uid.
UpdateSameUid(n, old, new) == IF old.uid # new.uid THEN << >> ELSE ChangeFunctions(n, old, new)

\* Only the nodes' handler looks at an object with another uid.
UpdateFunc(n, old, new) == IF kind # "node" /\ old.uid # new.uid THEN << >> ELSE ChangeFunctions(n, old, new)

\* A tombstone is not of the expected type and is passed over.
DeleteFunc(n, old, type) == IF type = "tomb" THEN << >>
                            ELSE <<{Cond("Warning", <<n, old.uid>>, <<"deleted">>)}>>

\* What a reader of the log knows about an object after its conditions: he has the
\* list of the objects when they are first seen, and then only the records.
Told(was, old, new, conds) ==
  LET Says(message) == \E c \in conds : c.message = message
  IN  CASE old = NoObj -> new
        [] old # NoObj /\ Says(<<"deleted">>) -> NoObj
        [] OTHER -> [was EXCEPT !.uid = IF Says(<<"deleted and recreated">>) THEN new.uid ELSE was.uid,
                                !.bad = CASE Says(<<"condition changed", "Ready">>) -> ~was.bad
                                          [] Says(<<"changed", "Degraded", "True">>) -> TRUE
                                          [] Says(<<"changed", "Degraded", "False">>) -> FALSE
                                          [] Says(<<"may not transition">>) -> TRUE
                                          [] Says(<<"reached", "v">>) -> FALSE
                                          [] OTHER -> was.bad]

\* An object after the first i of its queued deltas, and the notification for the
\* i-th (sharedIndexInformer.HandleDeltas).  A deletion is announced whether the
\* object was stored or not.
After(n, i) == IF i = 0 THEN store[n] ELSE IF fifo[n][i].type = "set" THEN fifo[n][i].obj ELSE NoObj
Notice(n, i) == [type |-> fifo[n][i].type,
                 old |-> IF fifo[n][i].type = "set" THEN After(n, i - 1) ELSE fifo[n][i].obj,
                 new |-> After(n, i)]

\* Pop: all deltas of one object are handled together under the queue's lock, which
\* stores the object and hands the notifications to another goroutine.
Pop(n) ==
  /\ fifo[n] # << >>
  /\ store' = [store EXCEPT ![n] = After(n, Len(fifo[n]))]
  /\ notices' = [notices EXCEPT ![n] = @ \o [i \in DOMAIN fifo[n] |-> Notice(n, i)]]
  /\ fifo' = [fifo EXCEPT ![n] = << >>]
  /\ UNCHANGED <<server, pc, rv, cursor, api, history>>

\* The sets of conditions that a notification's handler records.
Conditions(n, notice) ==
  CASE notice.type # "set" -> DeleteFunc(n, notice.old, notice.type)
    [] notice.type = "set" /\ notice.old = NoObj -> AddFunc(n, notice.new)
    [] notice.type = "set" /\ notice.old # NoObj -> UpdateFunc(n, notice.old, notice.new)

\* It has not recorded that an object is gone: this one, or an earlier one.
Unrecorded(n, notice) ==
  /\ notice.old # NoObj
  /\ \/ notice.type = "tomb" \/ n \in lost
     \/ notice.new # NoObj /\ kind # "node" /\ notice.old.uid # notice.new.uid

\* processorListener.run: the handler of the oldest notification of an object is
\* called.  Every change function's conditions are one call of Record.
Notify(n) ==
  /\ notices[n] # << >> /\ Len(log) < MaxLog
  /\ LET notice == Head(notices[n])
         sets == Conditions(n, notice)
     IN  /\ log' = log \o FlattenSeq([i \in DOMAIN sets |-> SetToSeq(sets[i])])
         /\ told' = [told EXCEPT ![n] = Told(@, notice.old, notice.new, UNION ToSet(sets))]
         /\ lost' = IF Unrecorded(n, notice) THEN lost \cup {n} ELSE lost \ {n}
         /\ seen' = [seen EXCEPT ![n] = notice.new]
  /\ notices' = [notices EXCEPT ![n] = Tail(@)]
  /\ UNCHANGED <<server, pc, rv, cursor, receivedError, calls, fifo, store, blind, rewound, lists, reached>>

Next == \/ ServerChange \/ Compact \/ Stop
        \/ ListFails \/ List \/ ListVersion
        \/ WatchRefused \/ WatchExpired \/ Watch
        \/ StreamEnds \/ StreamFails \/ EventError \/ StreamEvent \/ StreamObject
        \/ Resync \/ (\E n \in Names : Pop(n) \/ Notify(n))

Spec == Init /\ [][Next]_vars

\* The reflector runs, requests are answered, and the server closes every stream
\* after a while.
FairSpec == /\ Spec
            /\ WF_vars(WatchExpired) /\ WF_vars(StreamEnds)

-----------------------------------------------------------------------------
(* Properties *)

\* The variables have their types.
TypeOK ==
  LET Types == {"set", "delete", "tomb"}
      Object == Objects \cup {NoObj}
  IN  /\ kind \in Kinds /\ states \in Seq([Names -> Object])
      /\ oldest \in 0 .. head /\ rv \in 0 .. head /\ cursor \in 0 .. head
      /\ pc \in {"check", "watch", "stream", "exited"}
      /\ fifo \in [Names -> Seq([type : Types, obj : Objects])]
      /\ notices \in [Names -> Seq([type : Types, old : Object, new : Object])]
      /\ store \in [Names -> Object] /\ seen \in [Names -> Object] /\ told \in [Names -> Object]
      /\ {n \in Names : store[n] # NoObj} \subseteq Selected

\* However streams end, fail and are renewed, every relevant event after the first
\* list, up to the furthest version the events' goroutine got to, is recorded,
\* unless a later list jumped over it: it lies between what had been read by then
\* and that list, which was made because the version of the list before had been
\* compacted away.  Nothing of another namespace and no deletion is recorded.
NoGap ==
  kind = "event" =>
    LET recorded == {log[i].locator[2] : i \in {k \in DOMAIN log : log[k].message = <<"event">>}}
        Jumped(v) == \E k \in 2 .. Len(lists) : /\ v \in lists[k].from + 1 .. lists[k].to
                                                /\ lists[k - 1].to < oldest
    IN  /\ lists # << >> => \A v \in lists[1].to + 1 .. reached : Relevant(v) => v \in recorded \/ Jumped(v)
        /\ \A v \in recorded : Changed(v) \in System /\ At(v)[Changed(v)] # NoObj

\* Whoever watches from an expired version gets back to the list: it does not ask
\* for ever for a version the server has compacted away.  (An informer's stream
\* may catch up first.)
ExpiredRelists ==
  (pc \in {"watch", "stream"} /\ rv < oldest)
    ~> (pc \in {"check", "exited"} \/ rv >= oldest)

CaughtUp == pc = "stream" /\ cursor = head /\ \A n \in Names : fifo[n] = << >>

\* An informer whose stream has caught up holds what the server has, whatever was
\* cut, missed, expired or listed too old before, apart from the objects that its
\* last list got wrong and that have not changed since.
StoreTracks == Informer /\ CaughtUp => \A n \in Selected \ blind : store[n] = At(head)[n]

\* Who reads the log knows which incarnation of each object the handler was last
\* told of, which cluster operators are degraded, and which nodes a sampler finds
\* not ready; a pod the sampler can report as pending was seen or recorded as such,
\* and an update is sampled until the log says it is reached.  Only departures that
\* came as a tombstone, or (nodes apart) as a replacement under the same name, are
\* missing.  When no notification waits, that is what the samplers find in the
\* store: no change of the store goes past the handlers.
LogTellsState ==
  /\ \A n \in Names \ lost :
       LET obj == Expand(n, seen[n])
       IN  /\ told[n].uid = seen[n].uid
           /\ seen[n] # NoObj =>
                CASE kind = "node" -> told[n].bad = (SampleNode(obj) # {})
                  [] kind = "clusteroperator" -> told[n].bad = seen[n].bad
                  [] kind = "pod" -> SamplePod(obj, TRUE) # {} => told[n].bad
                  [] kind = "clusterversion" -> told[n].bad => SampleVersion(obj) # {}
  /\ \A n \in Names : notices[n] = << >> => seen[n] = store[n]

\* An error in the log, which fails the run's report, is about something the
\* object did: it was well and then was not, or (a node) it replaced another one.
\* Only a list that is older than what was seen before can make one up.
ErrorsReal ==
  ~rewound => \A i \in DOMAIN log :
    log[i].level = "Error" /\ log[i].message # <<"failed contacting the API">> =>
      LET n == log[i].locator[1]
          u == log[i].locator[2]
      IN  \E v, w \in 0 .. head :
            /\ v < w /\ At(w)[n].uid = u
            /\ IF kind = "node" THEN At(v)[n].uid \notin {0, u}
               ELSE At(v)[n].uid = u /\ ~At(v)[n].bad /\ At(w)[n].bad

\* The log holds one record for every outage of the API, as the requests of a
\* wrapped informer met it: for every maximal run of failed lists and watches.
OutageRecordedOnce ==
  Cardinality({i \in DOMAIN log : log[i].message = <<"failed contacting the API">>}) =
    Cardinality({i \in DOMAIN calls : ~calls[i] /\ (i = 1 \/ calls[i - 1])})

\* Monitor.Events: "EventIntervals are returned in order of their occurrence"
\* (monitor.go): the cluster's events are recorded in the order they happened.
RecordedInOrder ==
  \A i, j \in DOMAIN log : i < j /\ log[i].message = <<"event">> /\ log[j].message = <<"event">> =>
    log[i].locator[2] < log[j].locator[2]
=============================================================================
