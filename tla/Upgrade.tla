------------------------------ MODULE Upgrade ------------------------------
(***************************************************************************)
(* The cluster upgrade test: the run-upgrade command and its options       *)
(* (cmd/extended-platform-tests), and the test in its own process          *)
(* (test/e2e/upgrade), which asks the cluster version operator for an      *)
(* update, watches it, may roll it back, and reboots masters meanwhile.    *)
(*                                                                         *)
(* The cluster version operator and other users of the cluster version are *)
(* an environment.  An update is its image, and whether it is asked for    *)
(* exactly as the test does.  Any request may fail; a write needs what was *)
(* read to be unchanged.  The wait for the machine config pools is one     *)
(* step: they enter no property.                                           *)
(***************************************************************************)
EXTENDS Integers, Sequences, SequencesExt, FiniteSets

CONSTANTS Commands,    \* the command lines: [suite, image, options]
          Clusters,    \* the cluster versions to begin with
          Ops,         \* the cluster operators
          Percents,    \* the percentages that "random" may pick
          Steps,       \* attempts of retry.RetryOnConflict
          MaxForeign,  \* bound on the updates others ask for
          MaxReboots   \* bound on the reboots after the test

ASSUME UpgradeAssumption == /\ Percents \subseteq 1 .. 100 /\ IsFiniteSet(Ops)
                            /\ {Steps, MaxForeign, MaxReboots} \subseteq Nat /\ Steps > 0

Images == {"cur", "new", "other"}

\* A cluster version: its generation and the observed one, the image in its spec
\* or "none", and whether that has the other fields the test gives an update, no
\* version and force; the image in its status, the update history, latest first,
\* and whether its conditions are good.
ClusterVersion == [gen : Nat, obs : Nat, spec : Images \cup {"none"}, exact : BOOLEAN, desired : Images,
                   history : Seq([image : Images, done : BOOLEAN]), good : BOOLEAN]

ASSUME CommandsAssumption == \A c \in Commands : c.suite \in BOOLEAN /\ c.image \in Images \cup {"none"}

\* The cluster is at "cur", which the status and the latest entry of the history
\* name.  A spec that asks for nothing leaves nothing to observe, and an unfinished
\* entry is then the installation; a spec that was observed is the status.
ASSUME ClustersAssumption ==
  \A c \in Clusters :
    /\ c \in ClusterVersion /\ c.obs <= c.gen
    /\ c.desired = "cur" /\ c.history # << >> /\ c.history[1].image = "cur"
    /\ c.spec = "none" => c.obs = c.gen /\ (c.history[1].done \/ Len(c.history) = 1)
    /\ c.obs = c.gen => c.spec \in {"none", c.desired}

VARIABLES cmd,       \* the command line
          pc,        \* where the command, and then the test, is
          settings,  \* upgradeAbortAt, upgradeDisruptRebootPolicy and the image
          cv,        \* the cluster version
          ops,       \* the version each operator reports, or "none"
          foreign,   \* updates asked for by others
          desired,   \* the update the test wants, "none" before it asks
          old,       \* oldImage
          updated,   \* the generation of its last write
          seen,      \* the cluster version as it was last read
          aborted, tries, expired,
          rebooter,  \* the goroutine of Disrupt
          late,      \* history: reboots triggered after the test
          before,    \* history: length of the update history at the beginning
          unlisted   \* history: the operators could not be listed in the last poll

cluster == <<cv, ops, foreign>>
request == <<desired, old, updated, aborted>>
wait == <<tries, expired>>
disrupt == <<rebooter, late>>
aux == <<before, unlisted>>
test == <<cmd, settings, request, seen, wait, disrupt, aux>>
vars == <<pc, test, cluster>>

Over == pc \in {"rejected", "failed", "passed"}

Init == /\ cmd \in Commands /\ pc = "command"
        /\ settings = [image |-> "none", abortAt |-> 0, reboot |-> << >>]
        /\ cv \in Clusters /\ ops \in [Ops -> {"cur", "none"}] /\ foreign = 0
        /\ desired = "none" /\ old = "none" /\ updated = 0 /\ aborted = FALSE
        /\ seen = cv /\ tries = 0 /\ expired = FALSE
        /\ rebooter = "off" /\ late = 0 /\ before = 0 /\ unlisted = FALSE

-----------------------------------------------------------------------------
(* The command line.  An option is [key, value], its key "malformed" if not of the
   form KEY=VALUE; a value is << >>, <<word>> or, for a number, <<"#", n>>. *)

\* OptionsMap
OptionsMap(options) ==
  [ok |-> \A i \in DOMAIN options : options[i].key # "malformed" /\ \A j \in 1 .. i - 1 : options[j].key # options[i].key,
   map |-> {options[i] : i \in DOMAIN options}]

\* Seeded fault: a percentage above 100 is accepted.
AcceptedUnbounded(o) == CASE o.key = "abort-at" -> o.value = <<"random">> \/ (Len(o.value) = 2 /\ o.value[2] \in Nat)
                          [] o.key = "disrupt-reboot" -> o.value \in {<<"graceful">>, <<"force">>}
                          [] OTHER -> FALSE

\* SetUpgradeAbortAt and SetUpgradeDisruptReboot accept the value, which is never
\* the empty one.
Accepted(o) == CASE o.key = "abort-at" -> o.value = <<"random">> \/ (Len(o.value) = 2 /\ o.value[2] \in 0 .. 100)
                 [] o.key = "disrupt-reboot" -> o.value \in {<<"graceful">>, <<"force">>}
                 [] OTHER -> FALSE

\* Seeded fault: 0, the value for no abort, is taken as it is.
AbortAtUnchecked(value) == IF Len(value) = 1 THEN -1 ELSE value[2]

\* What SetUpgradeAbortAt stores: -1 for random, 1 for 0, which means no abort.
AbortAt(value) == IF Len(value) = 1 THEN -1 ELSE IF value[2] = 0 THEN 1 ELSE value[2]

ValueOf(map, key, default) == IF \E o \in map : o.key = key THEN (CHOOSE o \in map : o.key = key).value ELSE default

\* initUpgrade, in the command and again in the process of the test.
initUpgrade(c) ==
  LET parsed == OptionsMap(c.options)
      value == ValueOf(parsed.map, "abort-at", << >>)
  IN  [ok |-> parsed.ok /\ \A o \in parsed.map : Accepted(o),
       image |-> c.image, reboot |-> ValueOf(parsed.map, "disrupt-reboot", << >>),
       abortAt |-> IF value = << >> THEN 0 ELSE AbortAt(value)]

\* run-upgrade: the suite named on the command line takes the options, which are
\* passed on in the environment.  Without one nothing is passed on.
RunUpgrade ==
  /\ pc = "command"
  /\ pc' = IF cmd.image = "none" \/ (cmd.suite /\ ~initUpgrade(cmd).ok) THEN "rejected" ELSE "child"
  /\ UNCHANGED <<test, cluster>>

\* run-test
RunTest ==
  /\ pc = "child"
  /\ LET opt == initUpgrade(cmd)
     IN  settings' = IF cmd.suite THEN [image |-> opt.image, abortAt |-> opt.abortAt, reboot |-> opt.reboot]
                     ELSE settings
  /\ pc' = "context"
  /\ UNCHANGED <<cmd, cluster, request, seen, wait, disrupt, aux>>

-----------------------------------------------------------------------------
(* The cluster *)

\* A write raises the generation if any field of the update differs.
Write(image, exact) == [cv EXCEPT !.gen = IF cv.spec = image /\ cv.exact = exact THEN @ ELSE @ + 1,
                                  !.spec = image, !.exact = exact]

\* Someone else asks for an update, maybe for the image that is asked for already.
ForeignUpdate ==
  /\ foreign < MaxForeign /\ ~Over
  /\ foreign' = foreign + 1
  /\ \E exact \in BOOLEAN : ~(cv.spec = "other" /\ cv.exact = exact) /\ cv' = Write("other", exact)
  /\ UNCHANGED <<pc, test, ops>>

\* The operator takes up the spec ...
Observe ==
  /\ cv.obs < cv.gen
  /\ cv' = [cv EXCEPT !.obs = cv.gen, !.desired = cv.spec,
                      !.history = IF @[1].image = cv.spec THEN @ ELSE <<[image |-> cv.spec, done |-> FALSE]>> \o @]
  /\ UNCHANGED <<pc, test, ops, foreign>>

\* ... updates the operators ...
Roll(o) ==
  /\ ops[o] \notin {cv.desired, "none"}
  /\ ops' = [ops EXCEPT ![o] = cv.desired]
  /\ UNCHANGED <<pc, test, cv, foreign>>

\* ... completes the update, and reports good or bad conditions.
Complete ==
  /\ ~cv.history[1].done /\ \A o \in Ops : ops[o] \in {cv.desired, "none"}
  /\ cv' = [cv EXCEPT !.history[1].done = TRUE]
  /\ UNCHANGED <<pc, test, ops, foreign>>

Health ==
  /\ cv' = [cv EXCEPT !.good = ~@]
  /\ UNCHANGED <<pc, test, ops, foreign>>

-----------------------------------------------------------------------------
(* The test *)

latestCompleted(history) == SelectInSeq(history, LAMBDA h : h.done)

\* A request on whose failure the test fails.
Fatal ==
  /\ pc \in {"context", "request", "update", "abort", "rollback"}
  /\ pc' = "failed"
  /\ UNCHANGED <<test, cluster>>

\* getUpgradeContext: the cluster is settled, well, and not at the image.  Without
\* an image the context has one version only, and the test panics on the second.
Context ==
  /\ pc = "context"
  /\ LET current == latestCompleted(cv.history)
         ready == /\ cv.spec # "none" => cv.obs = cv.gen /\ cv.history[1].done
                  /\ cv.good /\ current # 0
                  /\ settings.image \notin {"none", cv.history[current].image}
     IN  pc' = IF ready THEN "request" ELSE "failed"
  /\ before' = Len(cv.history)
  /\ UNCHANGED <<cmd, settings, cluster, request, seen, wait, disrupt, unlisted>>

\* clusterUpgrade reads the cluster version ...
GetVersion ==
  /\ pc = "request"
  /\ seen' = cv /\ old' = cv.desired
  /\ \E p \in (IF settings.abortAt = -1 THEN Percents ELSE {settings.abortAt}) :
       settings' = [settings EXCEPT !.abortAt = p]
  /\ pc' = "update"
  /\ UNCHANGED <<cmd, cluster, desired, updated, aborted, wait, disrupt, aux>>

\* ... and asks for the update, if nobody has changed it since.
Update ==
  /\ pc = "update"
  /\ IF cv = seen
     THEN /\ cv' = Write(settings.image, TRUE)
          /\ desired' = settings.image /\ updated' = cv'.gen
          /\ pc' = "ack"
     ELSE pc' = "failed" /\ UNCHANGED <<cv, desired, updated>>
  /\ UNCHANGED <<cmd, settings, ops, foreign, old, aborted, seen, wait, disrupt, aux>>

\* The spec asks for the update that the test wants, whole structs compared.
Wanted == cv.spec = desired /\ cv.exact

\* Seeded fault: the check begins one generation late.
ChangedLate == cv.obs > updated + 1 /\ ~Wanted

\* versionMonitor.Check: the operator follows an update the test did not ask for.
ChangedByOthers == cv.obs > updated /\ ~Wanted

\* Seeded fault: the time of a poll is never over.
AgainForever(next) == next

\* The poll goes on, unless its time is over.  (PollImmediate polls once more.)
Again(next) == IF expired THEN "failed" ELSE next

\* The request of a poll fails.
PollFails ==
  /\ pc \in {"ack", "observe"}
  /\ pc' = Again(pc)
  /\ UNCHANGED <<test, cluster>>

Ack ==
  /\ pc = "ack"
  /\ pc' = IF ChangedByOthers THEN "failed" ELSE IF cv.obs >= updated THEN "observe" ELSE Again(pc)
  /\ seen' = cv
  /\ expired' = (expired /\ pc' # "observe")
  /\ rebooter' = IF pc' = "observe" /\ settings.reboot # << >> THEN "asleep" ELSE rebooter
  /\ UNCHANGED <<cmd, settings, cluster, request, tries, late, aux>>

\* A poll of the update reads the cluster version ...
Check ==
  /\ pc = "observe"
  /\ seen' = cv
  /\ pc' = IF ChangedByOthers THEN "failed" ELSE "decide"
  /\ UNCHANGED <<cmd, settings, cluster, request, wait, disrupt, aux>>

\* ShouldUpgradeAbort: an operator that reports no version counts as updated, and
\* without operators the quotient is not a number, which is not below abortAt.
ShouldUpgradeAbort(listed) ==
  /\ ~aborted /\ settings.abortAt # 0 /\ listed
  /\ 100 * Cardinality({o \in Ops : ops[o] # old}) >= settings.abortAt * Cardinality(Ops)

\* ... then the operators ...
Decide ==
  /\ pc = "decide"
  /\ \E listed \in BOOLEAN :
       /\ unlisted' = ~listed
       /\ IF ShouldUpgradeAbort(listed) THEN pc' = "abort" /\ desired' = old /\ tries' = 0
          ELSE pc' = "reached" /\ UNCHANGED <<desired, tries>>
  /\ UNCHANGED <<cmd, settings, cluster, old, updated, aborted, seen, expired, disrupt, before>>

\* versionMonitor.Reached, of what was read before the operators.
Reached == seen.desired = desired /\ seen.history[1] = [image |-> desired, done |-> TRUE]

\* ... and may find the update completed.
Finish ==
  /\ pc = "reached"
  /\ pc' = CASE Reached /\ seen.good -> "pools"
              [] Reached /\ ~seen.good -> "failed"
              [] ~Reached -> Again("observe")
  /\ expired' = (expired /\ ~Reached)
  /\ UNCHANGED <<cmd, settings, cluster, request, seen, tries, disrupt, aux>>

\* The rollback writes over whatever was asked for, and reads again on a conflict.
AbortGet ==
  /\ pc = "abort"
  /\ seen' = cv
  /\ pc' = "rollback"
  /\ UNCHANGED <<cmd, settings, cluster, request, wait, disrupt, aux>>

AbortUpdate ==
  /\ pc = "rollback"
  /\ tries' = tries + 1
  /\ IF cv = seen
     THEN /\ cv' = Write(desired, TRUE)
          /\ updated' = cv'.gen /\ aborted' = TRUE
          /\ pc' = Again("observe")
     ELSE pc' = (IF tries + 1 < Steps THEN "abort" ELSE "failed") /\ UNCHANGED <<cv, updated, aborted>>
  /\ UNCHANGED <<cmd, settings, ops, foreign, desired, old, seen, expired, disrupt, aux>>

\* The pools are updated, or their time is over.
Pools ==
  /\ pc = "pools"
  /\ pc' \in {"passed", "failed"}
  /\ UNCHANGED <<test, cluster>>

\* The time of a poll is over.
Expire ==
  /\ pc \in {"ack", "observe", "decide", "reached", "abort", "rollback"} /\ ~expired
  /\ expired' = TRUE
  /\ UNCHANGED <<cmd, pc, settings, cluster, request, seen, tries, disrupt, aux>>

-----------------------------------------------------------------------------
(* Disrupt.  Its context ends with clusterUpgrade. *)

\* Seeded fault: the end of the context is not looked for.
WakeAlways ==
  /\ rebooter = "asleep"
  /\ rebooter' = "awake"
  /\ UNCHANGED <<cmd, pc, settings, cluster, request, seen, wait, late, aux>>

Wake ==
  /\ rebooter = "asleep"
  /\ rebooter' = IF Over THEN "off" ELSE "awake"
  /\ UNCHANGED <<cmd, pc, settings, cluster, request, seen, wait, late, aux>>

\* A master is rebooted, or none found or the pod not created.
Reboot ==
  /\ rebooter = "awake" /\ late < MaxReboots
  /\ rebooter' = "asleep"
  /\ late' \in {late, IF Over THEN late + 1 ELSE late}
  /\ UNCHANGED <<cmd, pc, settings, cluster, request, seen, wait, aux>>

Step == \/ RunUpgrade \/ RunTest \/ Fatal \/ Context \/ GetVersion \/ Update \/ PollFails \/ Ack
        \/ Check \/ Decide \/ Finish \/ AbortGet \/ AbortUpdate \/ Pools

Next == \/ Step \/ Expire \/ Wake \/ Reboot
        \/ ForeignUpdate \/ Observe \/ (\E o \in Ops : Roll(o)) \/ Complete \/ Health

Spec == Init /\ [][Next]_vars

\* The process of the test runs and time passes.
FairSpec == Spec /\ WF_vars(Step) /\ WF_vars(Expire)

-----------------------------------------------------------------------------
(* Properties *)

\* The variables have their types.
TypeOK ==
  /\ cmd \in Commands /\ foreign \in 0 .. MaxForeign /\ late \in 0 .. MaxReboots
  /\ pc \in {"command", "child", "context", "request", "update", "ack", "observe", "decide", "reached", "abort",
             "rollback", "pools", "passed", "failed", "rejected"}
  /\ settings.abortAt \in -1 .. 100 /\ tries \in 0 .. Steps
  /\ \A c \in {cv, seen} : c \in ClusterVersion /\ c.obs <= c.gen
  /\ ops \in [Ops -> Images \cup {"none"}] /\ {desired, old} \subseteq Images \cup {"none"}
  /\ updated <= cv.gen /\ rebooter \in {"off", "asleep", "awake"}

AbortAsked == \E i \in DOMAIN cmd.options : cmd.options[i].key = "abort-at"

\* A test that passes has upgraded the cluster as the command line said: since it
\* began, the image of --to-image was completed or, after a rollback, the one the
\* test had found; and where abort-at was given it rolled back, unless it could not
\* list the operators when it saw the update completed, or it had found an update
\* of somebody else, to which the operators may be back when it lists them.
PassIsEarned ==
  pc \in {"pools", "passed"} =>
    /\ \E i \in 1 .. Len(cv.history) - before :
         cv.history[i] = [image |-> IF aborted THEN old ELSE cmd.image, done |-> TRUE]
    /\ aborted => AbortAsked
    /\ AbortAsked => aborted \/ unlisted \/ old = "other"

\* A poll that finds the operator following an update the test did not ask for is
\* the last one, and the test fails; whatever was written or rolled back before.
ForeignStops ==
  [][pc = "observe" /\ cv.obs = cv.gen /\ ~Wanted /\ pc' # pc => pc' = "failed"]_vars

\* At most one master is rebooted after the test is over, although the goroutine
\* looks at its context only before it asks for the nodes.
OneLateReboot == late <= 1

\* The command ends: every wait of the test has a deadline, whatever the cluster
\* does, and the rollback has a bounded number of attempts.
UpgradeEnds == <>Over

\* newRunUpgradeCommand: "abort-at=NUMBER - Set to a number between 0 and 100 to
\* control the percent of operators at which to stop the current upgrade and roll
\* back to the current version" (openshift-tests.go): a test that was to be aborted
\* does not pass without a rollback.
AbortHonoured == pc = "passed" /\ AbortAsked => aborted
=============================================================================
