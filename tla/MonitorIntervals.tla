-------------------------- MODULE MonitorIntervals --------------------------
(***************************************************************************)
(* The queries of pkg/monitor/monitor.go as functions of the recorded      *)
(* events and samples: filterSamples, filterEvents and their merge.        *)
(*                                                                         *)
(* A time is a number, 0 being the zero time.Time that leaves a side of the*)
(* window open.  A condition is a number too, in the order of the messages *)
(* that the sort falls back on.  An event is [at, cond], a sample          *)
(* [at, conds] with conds a sequence, an interval [cond, from, to].        *)
(***************************************************************************)
EXTENDS Filters, SequencesExt

\* sort.Search for the first element after from (times do not decrease).
FirstAfter(s, from) ==
  LET past == {i \in 1 .. Len(s) : s[i].at > from}
  IN  IF past = {} THEN Len(s) + 1 ELSE Min(past)

\* The elements of s after from and up to and including to.
Window(s, from, to) ==
  LET tail == IF from = 0 THEN s ELSE SubSeq(s, FirstAfter(s, from), Len(s))
  IN  IF to = 0 THEN tail ELSE SubSeq(tail, 1, FirstAfter(tail, to) - 1)

\* One condition of a sample taken at time at: extends the interval that the
\* previous sample left in last, or opens one.  last and next map conditions to
\* positions of out.
SampleCondition(acc, at, c) ==
  IF c \in DOMAIN acc.last
  THEN [acc EXCEPT !.out[acc.last[c]].to = at,
                   !.next = [d \in DOMAIN acc.next \cup {c} |->
                               IF d = c THEN acc.last[c] ELSE acc.next[d]]]
  ELSE [acc EXCEPT !.out = Append(acc.out, [cond |-> c, from |-> at, to |-> at]),
                   !.next = [d \in DOMAIN acc.next \cup {c} |->
                               IF d = c THEN Len(acc.out) + 1 ELSE acc.next[d]]]

\* The conditions of one sample, in their order.
SampleConditions(acc, s) ==
  LET after[i \in 0 .. Len(s.conds)] ==
        IF i = 0 THEN acc ELSE SampleCondition(after[i - 1], s.at, s.conds[i])
  IN  after[Len(s.conds)]

\* Seeded fault: the intervals of earlier samples stay open.
SampleStepKeepsLast(acc, s) ==
  LET done == SampleConditions(acc, s)
  IN  [done EXCEPT !.last = [c \in DOMAIN done.last \cup DOMAIN done.next |->
                               IF c \in DOMAIN done.next THEN done.next[c] ELSE done.last[c]],
                   !.next = << >>]

\* One sample; afterwards next becomes last and the old last is cleared.
SampleStep(acc, s) ==
  LET done == SampleConditions(acc, s)
  IN  [done EXCEPT !.last = done.next, !.next = << >>]

filterSamples(samples, from, to) ==
  LET w == Window(samples, from, to)
      after[i \in 0 .. Len(w)] ==
        IF i = 0 THEN [last |-> << >>, next |-> << >>, out |-> << >>]
        ELSE SampleStep(after[i - 1], w[i])
  IN  after[Len(w)].out

\* filterEvents differs from the above in one case: with only to given, a zero
\* from is before every event, which is the same window.
filterEvents(events, from, to) == Window(events, from, to)

\* EventIntervals.Less
Less(i, j) == \/ i.from < j.from
              \/ i.from = j.from /\ i.to < j.to
              \/ i.from = j.from /\ i.to = j.to /\ i.cond < j.cond

\* The intervals of s, and i before the first that it is less than.
Insert(s, i) ==
  LET greater == {k \in 1 .. Len(s) : Less(i, s[k])}
  IN  InsertAt(s, IF greater = {} THEN Len(s) + 1 ELSE Min(greater), i)

\* sort.Sort.  Less tells all intervals apart that differ, so the order is
\* determined, whichever algorithm finds it.
Sorted(s) ==
  LET sorted[i \in 0 .. Len(s)] == IF i = 0 THEN << >> ELSE Insert(sorted[i - 1], s[i])
  IN  sorted[Len(s)]

\* Seeded fault: sorts only when there is more than one interval to merge.
MergeLazy(intervals, points) ==
  IF Len(intervals) > 1 THEN Sorted(intervals \o points) ELSE intervals \o points

\* Sampled intervals and events together, sorted only if there are intervals.
Merge(intervals, points) ==
  IF intervals # << >> THEN Sorted(intervals \o points) ELSE points

\* Monitor.Events
EventsBetween(events, samples, from, to) ==
  Merge(filterSamples(samples, from, to),
        [i \in 1 .. Len(filterEvents(events, from, to)) |->
           LET e == filterEvents(events, from, to)[i]
           IN  [cond |-> e.cond, from |-> e.at, to |-> e.at]])

-----------------------------------------------------------------------------
(* What the queries should return, said without the algorithm *)

InWindow(at, from, to) == (from = 0 \/ at > from) /\ (to = 0 \/ at <= to)

\* The maximal runs of consecutive samples of the window with a condition.
SampleRuns(samples, from, to) ==
  LET Has(k, c) == /\ k \in 1 .. Len(samples) /\ InWindow(samples[k].at, from, to)
                   /\ c \in Range(samples[k].conds)
      IsRun(c, i, j) == i <= j /\ (\A k \in i .. j : Has(k, c)) /\ ~Has(i - 1, c) /\ ~Has(j + 1, c)
      All == UNION {Range(samples[k].conds) : k \in 1 .. Len(samples)}
  IN  {[cond |-> r[1], from |-> samples[r[2]].at, to |-> samples[r[3]].at] :
         r \in {q \in All \X (1 .. Len(samples)) \X (1 .. Len(samples)) : IsRun(q[1], q[2], q[3])}}
=============================================================================
