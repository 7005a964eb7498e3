------------------------------- MODULE Monitor -------------------------------
(***************************************************************************)
(* The cluster monitor (pkg/monitor): recorders append events, the sampling*)
(* goroutine appends samples, pollers of the two APIs do both (sampler.go, *)
(* api.go), and run-monitor prints new events as they come (cmd.go).       *)
(*                                                                         *)
(* A critical section under m.lock is one action; it reads the clock inside*)
(* and the clock moves on at every reading.                                *)
(***************************************************************************)
EXTENDS MonitorIntervals, FiniteSets

CONSTANTS NumPollers,  \* the number of API pollers
          MaxTime      \* bound on the number of clock readings

ASSUME NumbersAssumption == NumPollers \in Nat \ {0} /\ MaxTime \in Nat

\* The pollers, in the order they were added to the samplers.
Pollers == 1 .. NumPollers

\* The conditions: an API is down (sampled), it started failing, it started
\* responding (recorded), and something another recorder saw.
Down(p) == 3 * p
Failing(p) == 3 * p + 1
Responding(p) == 3 * p + 2
Others == {1, 2}
Conditions == Others \cup UNION {{Down(p), Failing(p), Responding(p)} : p \in Pollers}

VARIABLES clock,      \* the last time read
          events,     \* m.events
          samples,    \* m.samples
          available,  \* sampler.available of each poller
          poll,       \* what a poller is about to store there, idle, or stopped
          sampling,   \* sampler functions called in the current pass
          ticker,     \* the sampling goroutine: on, in its last pass, off
          collected,  \* the conditions its current pass has found
          late,       \* history: the context was done when that pass began
          lastPass,   \* history: what the latest pass found, and whether it was late
          ctxDone,    \* the context is done
          doneAt,     \* the time it was
          outage,     \* history: the pollers of the APIs that were down when it ended
                      \* and have stayed so
          last,       \* run-monitor's position
          printed,    \* what it printed
          printer     \* its goroutine

log == <<clock, events, samples>>
api == <<available, poll>>
pass == <<sampling, ticker, collected, late, lastPass>>
context == <<ctxDone, doneAt, outage>>
printing == <<last, printed, printer>>
vars == <<log, api, pass, context, printing>>

Init == /\ clock = 0
        /\ events = << >>
        /\ samples = << >>
        /\ available = [p \in Pollers |-> TRUE]
        /\ poll = [p \in Pollers |-> "idle"]
        /\ sampling = 0
        /\ ticker = "on"
        /\ collected = << >>
        /\ late = FALSE
        /\ lastPass = [conds |-> << >>, late |-> FALSE]
        /\ ctxDone = FALSE
        /\ doneAt = 0
        /\ outage = {}
        /\ last = 0
        /\ printed = << >>
        /\ printer = "looping"

-----------------------------------------------------------------------------
(* Recording *)

\* Monitor.Record: all conditions of one call get the same time.
Record(conds) ==
  /\ clock < MaxTime
  /\ clock' = clock + 1
  /\ events' = events \o [i \in 1 .. Len(conds) |-> [at |-> clock + 1, cond |-> conds[i]]]

\* An informer or the event watcher records one or several conditions.
RecordOthers ==
  /\ \E conds \in {<<1>>, <<1, 2>>} : Record(conds)
  /\ UNCHANGED <<samples, api, pass, context, printing>>

\* Seeded fault: the change is recorded for the next API.
EdgeOfNext(p, ok) == CASE ok /\ ~available[p] -> <<Responding(p + 1)>>
                       [] ~ok /\ available[p] -> <<Failing(p + 1)>>
                       [] OTHER -> << >>

\* Seeded fault: the condition is recorded on every failure.
EdgeLevel(p, ok) == CASE ok /\ ~available[p] -> <<Responding(p)>>
                      [] ~ok -> <<Failing(p)>>
                      [] OTHER -> << >>

\* The condition sampleFn returns: only the changes are recorded.
Edge(p, ok) == CASE ok /\ ~available[p] -> <<Responding(p)>>
                 [] ~ok /\ available[p] -> <<Failing(p)>>
                 [] OTHER -> << >>

\* A tick of a poller: the API answers or not, a change is recorded ...  (The
\* select may see the tick although the context is done.)
Poll(p) ==
  /\ poll[p] = "idle"
  /\ \E ok \in BOOLEAN :
       /\ IF Edge(p, ok) = << >> THEN UNCHANGED <<clock, events>> ELSE Record(Edge(p, ok))
       /\ poll' = [poll EXCEPT ![p] = IF ok THEN "up" ELSE "down"]
  /\ UNCHANGED <<samples, available, pass, context, printing>>

\* ... and then s.available is set, which the sampling goroutine reads.
PollSet(p) ==
  /\ poll[p] \in {"up", "down"}
  /\ available' = [available EXCEPT ![p] = poll[p] = "up"]
  /\ poll' = [poll EXCEPT ![p] = "idle"]
  /\ outage' = IF poll[p] = "up" THEN outage \ {p} ELSE outage
  /\ UNCHANGED <<log, pass, ctxDone, doneAt, printing>>

\* The select of the poller's loop sees the context done.
PollStop(p) ==
  /\ poll[p] = "idle"
  /\ ctxDone
  /\ poll' = [poll EXCEPT ![p] = "stopped"]
  /\ UNCHANGED <<log, available, pass, context, printing>>

-----------------------------------------------------------------------------
(* Sampling *)

\* The sampler function of a poller.
ConditionWhenFailing(p) == IF available[p] THEN << >> ELSE <<Down(p)>>

\* The select of StartSampling: a pass that begins because the context is done is
\* the last one; the select may see the tick although the context is done.
BeginPass == /\ ticker' \in (IF ctxDone THEN {"on", "last"} ELSE {"on"})
             /\ late' = ctxDone

\* One sampler function of a pass of Monitor.sample, outside the lock.
SampleRead ==
  /\ ticker # "off"
  /\ sampling < NumPollers
  /\ sampling' = sampling + 1
  /\ IF sampling = 0 THEN BeginPass ELSE UNCHANGED <<ticker, late>>
  /\ collected' = collected \o ConditionWhenFailing(sampling + 1)
  /\ UNCHANGED <<log, api, lastPass, context, printing>>

\* Seeded fault: the goroutine returns when the context is done by the end of a pass.
SampleAppendReturns ==
  /\ sampling = NumPollers
  /\ clock < MaxTime
  /\ clock' = clock + 1
  /\ samples' = IF collected = << >> THEN samples
                ELSE Append(samples, [at |-> clock + 1, conds |-> collected])
  /\ lastPass' = [conds |-> collected, late |-> late]
  /\ collected' = << >>
  /\ sampling' = 0
  /\ ticker' = IF ctxDone THEN "off" ELSE "on"
  /\ UNCHANGED <<events, api, late, context, printing>>

\* The end of a pass: a sample without conditions is not kept.
SampleAppend ==
  /\ sampling = NumPollers
  /\ clock < MaxTime
  /\ clock' = clock + 1
  /\ samples' = IF collected = << >> THEN samples
                ELSE Append(samples, [at |-> clock + 1, conds |-> collected])
  /\ lastPass' = [conds |-> collected, late |-> late]
  /\ collected' = << >>
  /\ sampling' = 0
  /\ ticker' = IF ticker = "last" THEN "off" ELSE "on"
  /\ UNCHANGED <<events, api, late, context, printing>>

-----------------------------------------------------------------------------
(* run-monitor *)

\* Prints the intervals that are points in time and moves the position to the
\* start of the last interval.
PrintNew(all) ==
  /\ printed' = printed \o Filter(all, {i \in ToSet(all) : i.from = i.to})
  /\ last' = IF all = << >> THEN last ELSE all[Len(all)].from

\* Seeded fault: the loop ends without a last look.
PrintPassNoFinal ==
  /\ printer = "looping"
  /\ IF ctxDone THEN UNCHANGED <<printed, last>> ELSE PrintNew(EventsBetween(events, samples, last, 0))
  /\ printer' = IF ctxDone THEN "done" ELSE "looping"
  /\ UNCHANGED <<log, api, pass, context>>

\* One turn of the loop; the turn that sees the context done is the last one.
\* The select may also see the ticker although the context is done.
PrintPass ==
  /\ printer = "looping"
  /\ PrintNew(EventsBetween(events, samples, last, 0))
  /\ printer' \in (IF ctxDone THEN {"looping", "done"} ELSE {"looping"})
  /\ UNCHANGED <<log, api, pass, context>>

Cancel ==
  /\ ~ctxDone
  /\ ctxDone' = TRUE
  /\ doneAt' = clock
  /\ outage' = {p \in Pollers : ~available[p]}
  /\ UNCHANGED <<log, api, pass, printing>>

Next == \/ RecordOthers
        \/ \E p \in Pollers : Poll(p) \/ PollSet(p) \/ PollStop(p)
        \/ SampleRead \/ SampleAppend
        \/ PrintPass
        \/ Cancel

Spec == Init /\ [][Next]_vars

-----------------------------------------------------------------------------
(* Properties *)

Event == [at : 1 .. MaxTime, cond : Conditions]
Sample == [at : 1 .. MaxTime, conds : Seq(Conditions)]
Pass == [conds : Seq(Conditions), late : BOOLEAN]
Interval == [cond : Conditions, from : 1 .. MaxTime, to : 1 .. MaxTime]

\* The variables have their types.
TypeOK ==
  /\ clock \in 0 .. MaxTime
  /\ events \in Seq(Event) /\ samples \in Seq(Sample) /\ lastPass \in Pass
  /\ available \in [Pollers -> BOOLEAN]
  /\ poll \in [Pollers -> {"idle", "up", "down", "stopped"}]
  /\ sampling \in 0 .. NumPollers
  /\ ticker \in {"on", "last", "off"}
  /\ collected \in Seq(Conditions) /\ late \in BOOLEAN
  /\ ctxDone \in BOOLEAN /\ doneAt \in 0 .. MaxTime /\ outage \subseteq Pollers
  /\ last \in 0 .. MaxTime
  /\ printed \in Seq(Interval)
  /\ printer \in {"looping", "done"}

\* How often run-monitor printed the i-th event.
TimesPrinted(i) ==
  Cardinality({k \in 1 .. Len(printed) : printed[k].cond = events[i].cond
                                          /\ printed[k].from = events[i].at})

\* run-monitor prints every event once and none twice, although it asks for the
\* events by time and events keep arriving between its turns; what was recorded
\* before the interrupt is printed before the loop ends.
PrintedOnce == \A i \in 1 .. Len(events) :
  /\ TimesPrinted(i) = IF events[i].at <= last THEN 1 ELSE 0
  /\ printer = "done" /\ events[i].at <= doneAt => TimesPrinted(i) = 1

\* StartSampling: "A sample is captured when the context is closed": when the
\* sampling goroutine is gone, the last pass it made began after the cancellation,
\* even if that came in the middle of another pass, and found every API that was
\* down then and has stayed down: an outage that lasts to the end is in the last
\* sample, though the pass is no snapshot.
FinalPass ==
  ticker = "off" =>
    /\ lastPass.late
    /\ \A p \in outage : Down(p) \in Range(lastPass.conds)

\* The positions of the recorded changes of an API.
Changes(p) == {i \in 1 .. Len(events) : events[i].cond \in {Failing(p), Responding(p)}}

\* The recorded changes of an API alternate, beginning with a failure, and an API
\* is only sampled as down after its failure was recorded: whoever reads the
\* timeline sees the cause before the condition.
FailureBeforeDown == \A p \in Pollers :
  /\ \A j \in Changes(p) : (\A i \in Changes(p) : j <= i) => events[j].cond = Failing(p)
  /\ \A i, j \in Changes(p) : i < j /\ (\A k \in Changes(p) : k <= i \/ j <= k) =>
       events[i].cond # events[j].cond
  /\ \A i \in 1 .. Len(samples) : Down(p) \in Range(samples[i].conds) =>
       \E j \in Changes(p) : events[j].cond = Failing(p) /\ events[j].at < samples[i].at

=============================================================================
