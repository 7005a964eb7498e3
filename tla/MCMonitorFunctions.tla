------------------------- MODULE MCMonitorFunctions -------------------------
(***************************************************************************)
(* The pure functions of the monitor against their reference definitions:  *)
(* the queries of MonitorIntervals on every log of events and samples with *)
(* up to MaxTime entries, and the searches of ChangeFns on every pair of   *)
(* lists of named statuses.  A behaviour grows a log, or has two lists.    *)
(***************************************************************************)
EXTENDS MonitorIntervals, ChangeFns, FiniteSets

CONSTANTS MaxTime,   \* number of entries of the log
          NumConds,  \* number of conditions
          Statuses   \* the names in a list of statuses

ASSUME SizesAssumption == MaxTime \in Nat /\ NumConds \in Nat /\ IsFiniteSet(Statuses)

VARIABLES clock, events, samples, old, new
vars == <<clock, events, samples, old, new>>

Conds == 1 .. NumConds
Times == 0 .. MaxTime

\* The conditions of one sample, in the order of the samplers that found them.
SampleConds == UNION {{s \in [1 .. n -> Conds] : \A i, j \in 1 .. n : i # j => s[i] # s[j]} :
                        n \in 1 .. NumConds}

\* The lists of statuses with different names, in any order.
Lists == {[i \in DOMAIN names |-> [name |-> names[i], bad |-> bad[names[i]]]] :
            names \in UNION {SetToSeqs(S) : S \in SUBSET Statuses}, bad \in [Statuses -> BOOLEAN]}

Init == /\ clock = 0 /\ events = << >> /\ samples = << >>
        /\ old \in Lists /\ new \in Lists

AddEvent == /\ clock < MaxTime /\ old = << >> /\ new = << >>
            /\ clock' = clock + 1
            /\ \E c \in Conds : events' = Append(events, [at |-> clock + 1, cond |-> c])
            /\ UNCHANGED <<samples, old, new>>

AddSample == /\ clock < MaxTime /\ old = << >> /\ new = << >>
             /\ clock' = clock + 1
             /\ \E s \in SampleConds : samples' = Append(samples, [at |-> clock + 1, conds |-> s])
             /\ UNCHANGED <<events, old, new>>

Spec == Init /\ [][AddEvent \/ AddSample]_vars

\* Conditions, for every window: one interval for every maximal run of recorded
\* samples with a condition, no duplicates, in the order of their beginning.
IntervalsAreRuns == \A from, to \in Times :
  LET out == filterSamples(samples, from, to)
  IN  /\ Range(out) = SampleRuns(samples, from, to)
      /\ Cardinality(Range(out)) = Len(out)
      /\ \A i \in 1 .. Len(out) - 1 : out[i].from <= out[i + 1].from

\* Events, for every window: exactly the events after from and up to to, and the
\* intervals, each once, in the order of their beginning.
EventsInWindow == \A from, to \in Times :
  LET out == EventsBetween(events, samples, from, to)
      points == {[cond |-> events[i].cond, from |-> events[i].at, to |-> events[i].at] :
                   i \in {k \in 1 .. Len(events) : InWindow(events[k].at, from, to)}}
  IN  /\ Range(out) = points \cup SampleRuns(samples, from, to)
      /\ Cardinality(Range(out)) = Len(out)
      /\ \A i \in 1 .. Len(out) - 1 : out[i].from <= out[i + 1].from

\* The names that are in both lists with different statuses.
ChangedNames == {n \in Statuses : \E i \in DOMAIN old, j \in DOMAIN new :
                                    old[i].name = n /\ new[j].name = n /\ old[i].bad # new[j].bad}

\* The changes of containers, nodes and operators, and the versions of an operator,
\* are found by name: an entry that moved in the list, appeared or went away makes
\* no record and hides none, wherever a search begins, and an object that an hourly
\* resync delivers unchanged makes none.
ChangesByName ==
  LET Pod(list) == [id |-> <<"p">>, inits |-> << >>,
                    conts |-> [i \in DOMAIN list |-> [name |-> list[i].name, restarts |-> 0, ready |-> ~list[i].bad,
                                                      exit |-> "up"]]]
      Obj(list) == [id |-> <<"n">>,
                    conds |-> [i \in DOMAIN list |-> [name |-> list[i].name,
                                                      status |-> IF list[i].bad THEN "False" ELSE "True"]]]
      Versions(list) == [i \in DOMAIN list |-> [name |-> list[i].name, version |-> list[i].bad]]
      changed == Filter(new, {s \in ToSet(new) : s.name \in ChangedNames})
      turnedBad == {s.name : s \in {c \in ToSet(changed) : c.bad}}
  IN  /\ {c.locator : c \in ContainerChange(Pod(new), Pod(old))} = {<<"p", n>> : n \in turnedBad}
      /\ {c.message[2] : c \in nodeChangeFns(Obj(new), Obj(old))[1]} = ChangedNames
      /\ {c.message[2] : c \in ConditionChange(Obj(new), Obj(old))} = ChangedNames
      /\ findOperatorVersionChange(Versions(old), Versions(new))
           = [i \in DOMAIN changed |-> <<changed[i].name, ~changed[i].bad, changed[i].bad>>]
=============================================================================
