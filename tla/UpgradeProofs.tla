---------------------------- MODULE UpgradeProofs ----------------------------
(***************************************************************************)
(* Theorems about Upgrade, for any command lines, any cluster to begin     *)
(* with, any operators and any number of updates asked for by others.      *)
(***************************************************************************)
EXTENDS Upgrade, FiniteSetTheorems, TLAPS

-----------------------------------------------------------------------------
(* The inductive invariant *)

\* The phases of the test once it knows that the cluster is fit for the update,
\* those in which it waits for one that it asked for, and those of the rollback.
Asked == {"ack", "observe", "decide", "reached"}
RollingBack == {"abort", "rollback"}
Ready == {"request", "update"} \cup Asked \cup RollingBack \cup {"pools", "passed"}

\* What the property TypeOK does not say and the steps need.
TypeInv == /\ TypeOK
           /\ DOMAIN settings = {"image", "abortAt", "reboot"} /\ settings.image \in Images \cup {"none"}
           /\ updated \in Nat /\ before \in Nat /\ {aborted, expired, unlisted} \subseteq BOOLEAN

\* The cluster version operator keeps status and history together, and completes
\* an update only when the operators have it.
ClusterInv ==
  /\ cv.history # << >> /\ cv.desired = cv.history[1].image
  /\ cv.spec = "none" => cv.obs = cv.gen /\ (cv.history[1].done \/ Len(cv.history) = 1)
  /\ cv.obs = cv.gen => cv.spec \in {"none", cv.desired}
  /\ cv.history[1].done => \A o \in Ops : ops[o] \in {cv.desired, "none"}

\* The settings are those of the command line, and abortAt is 0 exactly when no
\* abort was asked for.
CommandInv ==
  /\ pc \in {"command", "child"} => settings.image = "none" /\ settings.abortAt = 0
  /\ pc = "child" /\ cmd.suite => initUpgrade(cmd).ok
  /\ settings.image # "none" => settings.image = cmd.image /\ (AbortAsked => settings.abortAt # 0)
  /\ settings.abortAt # 0 => AbortAsked
  /\ pc \in Ready => settings.image # "none"

\* The history since the test began.  Until the operator follows the update there
\* may be nothing new in it, and then its latest entry is not the wanted image.
HistoryInv ==
  /\ pc \in {"request", "update"} =>
       /\ before <= Len(cv.history)
       /\ Len(cv.history) = before => cv.history[1].image # settings.image
  /\ pc = "ack" =>
       /\ before <= Len(cv.history)
       /\ Len(cv.history) = before =>
            /\ cv.history[1].image # settings.image
            /\ cv.obs >= updated => cv.obs > updated /\ cv.spec # desired
  /\ pc \in {"observe", "decide", "reached", "pools", "passed"} \cup RollingBack => Len(cv.history) > before

\* The image to roll back to: another one than the wanted one, unless others have
\* asked for the same.
OldInv ==
  /\ pc = "request" => /\ cv.desired # settings.image \/ cv.desired = "other"
                       /\ cv.obs < cv.gen => cv.spec = "other"
  /\ pc \in Ready \ {"request"} => old \in Images /\ (old # settings.image \/ old = "other")

\* The request.  The generation of its write has its image, and only others change
\* the spec afterwards.
RequestInv ==
  /\ pc \in Asked => /\ cv.gen = updated => Wanted
                     /\ cv.spec \in {desired, "other"}
  /\ pc \in (Asked \cup {"pools", "passed"}) => desired = IF aborted THEN old ELSE settings.image
  /\ pc \in RollingBack => settings.abortAt # 0 /\ desired = old /\ tries < Steps
  /\ aborted => AbortAsked /\ pc \in {"observe", "decide", "reached", "pools", "passed", "failed", "rejected"}

\* The cluster version that a poll read is behind the cluster: its latest entry is
\* still there, and completed if it was.
SeenInv ==
  pc \in {"decide", "reached"} =>
    /\ seen.history # << >> /\ before < Len(seen.history) /\ Len(seen.history) <= Len(cv.history)
    /\ LET entry == cv.history[Len(cv.history) - Len(seen.history) + 1]
       IN  entry.image = seen.history[1].image /\ (seen.history[1].done => entry.done)

\* Between reading the cluster version and listing the operators others may move
\* the operators on; once they are listed, an update that is reached was to be
\* rolled back only in the cases that PassIsEarned excepts.
DecideInv ==
  /\ pc = "decide" /\ seen.desired = desired /\ seen.history[1].done =>
       cv.desired \in {desired, "other"} /\ \A o \in Ops : ops[o] \in {desired, "other", "none"}
  /\ pc = "reached" /\ Reached /\ AbortAsked => aborted \/ unlisted \/ old = "other"

\* A reboot after the test puts the goroutine back to sleep for the last time.
RebootInv == late <= 1 /\ (late > 0 => Over /\ rebooter # "awake")

IInv == /\ TypeInv /\ ClusterInv /\ CommandInv /\ HistoryInv /\ OldInv /\ RequestInv
        /\ SeenInv /\ DecideInv /\ PassIsEarned /\ RebootInv

-----------------------------------------------------------------------------
(* The operators of the model *)

\* The cluster version and the one that was read are cluster versions.
LEMMA VersionTypes ==
  ASSUME TypeInv
  PROVE  /\ cv \in ClusterVersion /\ cv.obs <= cv.gen
         /\ seen \in ClusterVersion /\ seen.obs <= seen.gen
         /\ updated \in Nat /\ updated <= cv.gen
BY DEF TypeInv, TypeOK

\* The fields of a cluster version.
LEMMA VersionFields ==
  ASSUME NEW c \in ClusterVersion
  PROVE  /\ c.gen \in Nat /\ c.obs \in Nat /\ c.spec \in Images \cup {"none"} /\ c.exact \in BOOLEAN /\ c.desired \in Images
         /\ c.history \in Seq([image : Images, done : BOOLEAN]) /\ c.good \in BOOLEAN
         /\ Len(c.history) \in Nat /\ (c.history # << >> <=> Len(c.history) # 0)
         /\ \A i \in 1 .. Len(c.history) : c.history[i] \in [image : Images, done : BOOLEAN]
<1>1. /\ c.gen \in Nat /\ c.obs \in Nat /\ c.spec \in Images \cup {"none"} /\ c.exact \in BOOLEAN /\ c.desired \in Images
      /\ c.history \in Seq([image : Images, done : BOOLEAN]) /\ c.good \in BOOLEAN
  BY DEF ClusterVersion
<1>2. \A S, h : h \in Seq(S) => /\ Len(h) \in Nat /\ (h # << >> <=> Len(h) # 0)
                                /\ \A i \in 1 .. Len(h) : h[i] \in S
  OBVIOUS
<1> QED BY <1>1, <1>2

\* What a write to the spec of the cluster version leaves behind.
LEMMA WriteFacts ==
  ASSUME TypeInv, ClusterInv, NEW image \in Images, NEW exact \in BOOLEAN, cv' = Write(image, exact)
  PROVE  /\ cv' \in ClusterVersion /\ cv'.spec = image /\ cv'.exact = exact
         /\ cv'.gen \in {cv.gen, cv.gen + 1} /\ (cv'.gen = cv.gen => cv.spec = image /\ cv.exact = exact)
         /\ cv'.obs = cv.obs /\ cv'.desired = cv.desired /\ cv'.history = cv.history /\ cv'.good = cv.good
<1>1. cv \in ClusterVersion
  BY VersionTypes
<1>2. PICK g : g = IF cv.spec = image /\ cv.exact = exact THEN cv.gen ELSE cv.gen + 1
  OBVIOUS
<1>3. g \in Nat
  BY <1>1, <1>2, VersionFields
<1>4. cv' = [cv EXCEPT !.gen = g, !.spec = image, !.exact = exact]
  BY <1>2 DEF Write
<1>5. /\ cv' \in ClusterVersion /\ cv'.spec = image /\ cv'.exact = exact /\ cv'.gen = g
      /\ cv'.obs = cv.obs /\ cv'.desired = cv.desired /\ cv'.history = cv.history /\ cv'.good = cv.good
  BY <1>1, <1>3, <1>4 DEF ClusterVersion
<1>6. cv.gen \in Nat /\ cv.gen + 1 # cv.gen
  BY <1>1, VersionFields
<1> QED BY <1>2, <1>5, <1>6

\* The status changes with the history: one entry more, or none.
LEMMA ObserveFacts ==
  ASSUME TypeInv, ClusterInv, Observe
  PROVE  /\ cv.spec \in Images
         /\ cv' \in ClusterVersion
         /\ cv'.obs = cv.gen /\ cv'.gen = cv.gen /\ cv'.spec = cv.spec /\ cv'.exact = cv.exact /\ cv'.good = cv.good
         /\ cv'.desired = cv.spec /\ cv'.history # << >> /\ cv'.history[1].image = cv.spec
         /\ \/ cv.history[1].image = cv.spec /\ cv'.history = cv.history
            \/ /\ cv.history[1].image # cv.spec
               /\ Len(cv'.history) = Len(cv.history) + 1 /\ ~cv'.history[1].done
               /\ \A i \in 1 .. Len(cv.history) : cv'.history[i + 1] = cv.history[i]
<1> DEFINE new == [image |-> cv.spec, done |-> FALSE]
           Entries == [image : Images, done : BOOLEAN]
<1>1. cv \in ClusterVersion /\ cv.obs # cv.gen
  BY VersionTypes, VersionFields DEF Observe
<1>2. cv.spec \in Images /\ cv.history \in Seq(Entries) /\ Len(cv.history) \in Nat \ {0}
  BY <1>1, VersionFields DEF ClusterInv
<1>3. new \in Entries
  BY <1>2
<1>4. /\ <<new>> \o cv.history \in Seq(Entries)
      /\ Len(<<new>> \o cv.history) = Len(cv.history) + 1
      /\ (<<new>> \o cv.history)[1] = new
      /\ \A i \in 1 .. Len(cv.history) : (<<new>> \o cv.history)[i + 1] = cv.history[i]
  BY <1>2, <1>3
<1>5. cv' = [cv EXCEPT !.obs = cv.gen, !.desired = cv.spec,
                       !.history = IF cv.history[1].image = cv.spec THEN cv.history ELSE <<new>> \o cv.history]
  BY DEF Observe
<1> HIDE DEF new
<1>6. /\ cv' \in ClusterVersion
      /\ cv'.obs = cv.gen /\ cv'.gen = cv.gen /\ cv'.spec = cv.spec /\ cv'.exact = cv.exact /\ cv'.good = cv.good
      /\ cv'.desired = cv.spec
      /\ cv'.history = IF cv.history[1].image = cv.spec THEN cv.history ELSE <<new>> \o cv.history
  BY <1>1, <1>2, <1>4, <1>5 DEF ClusterVersion
<1>7. CASE cv.history[1].image = cv.spec
  BY <1>2, <1>6, <1>7
<1>8. CASE cv.history[1].image # cv.spec
  <2>1. cv'.history = <<new>> \o cv.history
    BY <1>6, <1>8
  <2>2. cv'.history[1] = new /\ Len(cv'.history) = Len(cv.history) + 1
    BY <1>4, <2>1
  <2>3. cv'.history # << >>
    BY <1>2, <2>2
  <2> QED BY <1>2, <1>4, <1>6, <1>8, <2>1, <2>2, <2>3 DEF new
<1> QED BY <1>7, <1>8

\* Completing an update changes nothing but the mark of the latest entry.
LEMMA CompleteFacts ==
  ASSUME TypeInv, ClusterInv, Complete
  PROVE  /\ cv' \in ClusterVersion
         /\ cv'.obs = cv.obs /\ cv'.gen = cv.gen /\ cv'.spec = cv.spec /\ cv'.exact = cv.exact /\ cv'.good = cv.good
         /\ cv'.desired = cv.desired /\ cv'.history # << >> /\ Len(cv'.history) = Len(cv.history)
         /\ cv'.history[1].image = cv.history[1].image /\ cv'.history[1].done = TRUE
         /\ \A i \in 2 .. Len(cv.history) : cv'.history[i] = cv.history[i]
<1> DEFINE Entries == [image : Images, done : BOOLEAN]
<1>1. cv \in ClusterVersion /\ cv.history \in Seq(Entries) /\ Len(cv.history) \in Nat \ {0}
  BY VersionTypes, VersionFields DEF ClusterInv
<1>2. cv.history[1] \in Entries
  BY <1>1, \A S, h : h \in Seq(S) /\ Len(h) \in Nat \ {0} => h[1] \in S
<1>3. PICK e : e = [cv.history[1] EXCEPT !.done = TRUE]
  OBVIOUS
<1>4. e \in Entries /\ e.image = cv.history[1].image /\ e.done = TRUE
  BY <1>2, <1>3
<1>5. PICK h : h = [cv.history EXCEPT ![1] = e]
  OBVIOUS
<1>6. /\ h \in Seq(Entries) /\ Len(h) = Len(cv.history) /\ h[1] = e
      /\ \A i \in 2 .. Len(cv.history) : h[i] = cv.history[i]
  BY <1>1, <1>4, <1>5
<1>7. h # << >>
  BY <1>1, <1>6
<1>8. cv' = [cv EXCEPT !.history = h]
  BY <1>3, <1>5 DEF Complete
<1>9. /\ cv' \in ClusterVersion /\ cv'.history = h
      /\ cv'.obs = cv.obs /\ cv'.gen = cv.gen /\ cv'.spec = cv.spec /\ cv'.exact = cv.exact /\ cv'.good = cv.good /\ cv'.desired = cv.desired
  BY <1>1, <1>6, <1>8 DEF ClusterVersion
<1> QED BY <1>4, <1>6, <1>7, <1>9

\* The last completed update is the latest one, if that is completed.
LEMMA LatestCompleted ==
  ASSUME NEW S, NEW history \in Seq(S), history # << >>
  PROVE  /\ history[1].done => latestCompleted(history) = 1
         /\ ~history[1].done /\ Len(history) = 1 => latestCompleted(history) = 0
<1> DEFINE I == {i \in 1 .. Len(history) : history[i].done}
<1>1. latestCompleted(history) = IF I # {} THEN CHOOSE x \in I : \A y \in I : x <= y ELSE 0
  BY DEF latestCompleted, SelectInSeq, Min
<1>2. Len(history) \in Nat \ {0}
  OBVIOUS
<1>3. ASSUME history[1].done PROVE latestCompleted(history) = 1
  <2>1. 1 \in I /\ \A y \in I : 1 <= y
    BY <1>2, <1>3
  <2>2. \A x \in I : (\A y \in I : x <= y) => x = 1
    BY <1>2, <2>1
  <2> QED BY <1>1, <2>1, <2>2
<1>4. ASSUME ~history[1].done, Len(history) = 1 PROVE latestCompleted(history) = 0
  <2>1. I = {}
    BY <1>4
  <2> QED BY <1>1, <2>1
<1> QED BY <1>3, <1>4

\* Without an operator at the old image the threshold of ShouldUpgradeAbort is met.
LEMMA ThresholdMet ==
  ASSUME settings.abortAt \in -1 .. 100, \A o \in Ops : ops[o] # old
  PROVE  100 * Cardinality({o \in Ops : ops[o] # old}) >= settings.abortAt * Cardinality(Ops)
<1>1. {o \in Ops : ops[o] # old} = Ops
  OBVIOUS
<1>2. Cardinality(Ops) \in Nat
  BY UpgradeAssumption, FS_CardinalityType
<1>3. \A n \in Nat, a \in -1 .. 100 : 100 * n >= a * n
  OBVIOUS
<1> QED BY <1>1, <1>2, <1>3

\* An accepted command line: abortAt is 0 exactly when abort-at was not given.
LEMMA CommandLine ==
  ASSUME NEW c \in Commands, initUpgrade(c).ok
  PROVE  /\ initUpgrade(c).abortAt \in -1 .. 100 /\ initUpgrade(c).image = c.image
         /\ initUpgrade(c).abortAt # 0 <=> \E i \in DOMAIN c.options : c.options[i].key = "abort-at"
<1> DEFINE map == {c.options[i] : i \in DOMAIN c.options}
           value == ValueOf(map, "abort-at", << >>)
<1>1. /\ initUpgrade(c).image = c.image
      /\ initUpgrade(c).abortAt = IF value = << >> THEN 0 ELSE AbortAt(value)
      /\ \A o \in map : Accepted(o)
  BY DEF initUpgrade, OptionsMap
<1>2. CASE \E o \in map : o.key = "abort-at"
  <2>1. PICK o \in map : o.key = "abort-at" /\ value = o.value
    BY <1>2 DEF ValueOf
  <2>2. o.value = <<"random">> \/ (Len(o.value) = 2 /\ o.value[2] \in 0 .. 100)
    BY <1>1, <2>1 DEF Accepted
  <2>3. CASE value = <<"random">>
    <3>1. Len(value) = 1 /\ value # << >>
      BY <2>3
    <3> QED BY <1>1, <1>2, <3>1 DEF AbortAt
  <2>4. CASE Len(value) = 2 /\ value[2] \in 0 .. 100
    <3>1. value # << >>
      BY <2>4
    <3> QED BY <1>1, <1>2, <2>4, <3>1 DEF AbortAt
  <2> QED BY <2>1, <2>2, <2>3, <2>4
<1>3. CASE ~ \E o \in map : o.key = "abort-at"
  BY <1>1, <1>3 DEF ValueOf
<1> QED BY <1>2, <1>3

-----------------------------------------------------------------------------
(* The steps of the cluster *)

\* The numbers and values that the steps compare.
LEMMA Basics ==
  ASSUME IInv
  PROVE  /\ cv.gen \in Nat /\ cv.obs \in Nat /\ cv.obs <= cv.gen /\ Len(cv.history) \in Nat \ {0}
         /\ updated \in Nat /\ updated <= cv.gen /\ before \in Nat
         /\ cv.spec \in Images \cup {"none"} /\ cv.desired \in Images
         /\ "other" \in Images /\ "none" \notin Images
<1>1. cv \in ClusterVersion /\ cv.obs <= cv.gen /\ updated \in Nat /\ updated <= cv.gen
  BY VersionTypes DEF IInv
<1>2. cv.gen \in Nat /\ cv.obs \in Nat /\ cv.spec \in Images \cup {"none"} /\ cv.desired \in Images
  BY <1>1 DEF ClusterVersion
<1>3. Len(cv.history) \in Nat \ {0}
  BY <1>1, VersionFields DEF IInv, ClusterInv
<1>4. before \in Nat /\ "other" \in Images /\ "none" \notin Images
  BY DEF IInv, TypeInv, Images
<1> QED BY <1>1, <1>2, <1>3, <1>4

\* The variables of the test, which the cluster does not touch.
LEMMA TestKept ==
  ASSUME IInv, UNCHANGED <<pc, test>>, cv' \in ClusterVersion, cv'.obs <= cv'.gen, cv'.gen >= cv.gen,
         ops' \in [Ops -> Images \cup {"none"}], foreign' \in 0 .. MaxForeign
  PROVE  TypeInv' /\ CommandInv' /\ RebootInv'
<1>1. UNCHANGED <<pc, cmd, settings, desired, old, updated, aborted, seen, tries, expired, rebooter, late, before, unlisted>>
  BY DEF test, request, wait, disrupt, aux
<1>2. seen \in ClusterVersion /\ seen.obs <= seen.gen /\ cv.gen \in Nat /\ updated \in Nat /\ updated <= cv.gen
  BY VersionTypes, Basics DEF IInv
<1>3. cv'.gen \in Nat
  BY DEF ClusterVersion
<1>4. updated' <= cv'.gen
  BY <1>1, <1>2, <1>3
<1>5. TypeOK'
  BY <1>1, <1>2, <1>4 DEF IInv, TypeInv, TypeOK
<1>6. TypeInv'
  BY <1>1, <1>5 DEF IInv, TypeInv
<1>7. CommandInv'
  BY <1>1 DEF IInv, CommandInv, AbortAsked
<1>8. RebootInv'
  BY <1>1 DEF IInv, RebootInv, Over
<1> QED BY <1>6, <1>7, <1>8

\* Somebody else asks for an update.
LEMMA ForeignUpdateStep ==
  ASSUME IInv, ForeignUpdate
  PROVE  IInv'
<1>1. /\ cv.gen \in Nat /\ cv.obs \in Nat /\ cv.obs <= cv.gen /\ updated \in Nat /\ updated <= cv.gen
      /\ "other" \in Images /\ "none" \notin Images
  BY Basics
<1>2. /\ cv' \in ClusterVersion /\ cv'.spec = "other" /\ cv'.gen = cv.gen + 1
      /\ cv'.obs = cv.obs /\ cv'.desired = cv.desired /\ cv'.history = cv.history
  <2>1. PICK exact \in BOOLEAN : ~(cv.spec = "other" /\ cv.exact = exact) /\ cv' = Write("other", exact)
    BY DEF ForeignUpdate
  <2> QED BY <1>1, <2>1, WriteFacts DEF IInv
<1>3. UNCHANGED <<pc, cmd, settings, desired, old, updated, aborted, seen, tries, expired, rebooter, late, before, unlisted, ops>>
  BY DEF ForeignUpdate, test, request, wait, disrupt, aux
<1>5. TypeInv' /\ CommandInv' /\ RebootInv'
  <2>1. foreign' \in 0 .. MaxForeign
    <3>1. MaxForeign \in Nat /\ foreign \in 0 .. MaxForeign /\ foreign < MaxForeign /\ foreign' = foreign + 1
      BY UpgradeAssumption DEF IInv, TypeInv, TypeOK, ForeignUpdate
    <3> QED BY <3>1
  <2>2. ops' \in [Ops -> Images \cup {"none"}] /\ UNCHANGED <<pc, test>>
    BY <1>3 DEF IInv, TypeInv, TypeOK, ForeignUpdate
  <2>3. cv'.obs <= cv'.gen /\ cv'.gen >= cv.gen
    BY <1>1, <1>2
  <2> QED BY <1>2, <2>1, <2>2, <2>3, TestKept
<1>6. ClusterInv'
  BY <1>1, <1>2, <1>3 DEF IInv, ClusterInv
<1>7. HistoryInv'
  BY <1>1, <1>2, <1>3 DEF IInv, HistoryInv, RequestInv, Asked, RollingBack
<1>8. OldInv'
  BY <1>2, <1>3 DEF IInv, OldInv
<1>9. RequestInv'
  BY <1>1, <1>2, <1>3 DEF IInv, RequestInv, Wanted, AbortAsked
<1>10. SeenInv' /\ DecideInv' /\ PassIsEarned'
  BY <1>2, <1>3 DEF IInv, SeenInv, DecideInv, PassIsEarned, Reached, AbortAsked
<1> QED BY <1>5, <1>6, <1>7, <1>8, <1>9, <1>10 DEF IInv

\* The operator takes up the spec.
LEMMA ObserveStep ==
  ASSUME IInv, Observe
  PROVE  IInv'
<1>1. /\ cv.gen \in Nat /\ cv.obs \in Nat /\ cv.obs < cv.gen /\ updated \in Nat /\ updated <= cv.gen
      /\ Len(cv.history) \in Nat \ {0} /\ before \in Nat /\ "none" \notin Images
  BY Basics DEF Observe
<1>2. /\ cv.spec \in Images /\ cv' \in ClusterVersion
      /\ cv'.obs = cv.gen /\ cv'.gen = cv.gen /\ cv'.spec = cv.spec /\ cv'.exact = cv.exact
      /\ cv'.desired = cv.spec /\ cv'.history # << >> /\ cv'.history[1].image = cv.spec
      /\ \/ cv.history[1].image = cv.spec /\ cv'.history = cv.history
         \/ /\ cv.history[1].image # cv.spec
            /\ Len(cv'.history) = Len(cv.history) + 1 /\ ~cv'.history[1].done
            /\ \A i \in 1 .. Len(cv.history) : cv'.history[i + 1] = cv.history[i]
  BY ObserveFacts DEF IInv
<1>3. UNCHANGED <<pc, cmd, settings, desired, old, updated, aborted, seen, tries, expired, rebooter, late, before, unlisted, ops, foreign>>
  BY DEF Observe, test, request, wait, disrupt, aux
<1>4. TypeInv' /\ CommandInv' /\ RebootInv'
  <2>1. ops' \in [Ops -> Images \cup {"none"}] /\ foreign' \in 0 .. MaxForeign /\ UNCHANGED <<pc, test>>
    BY <1>3 DEF IInv, TypeInv, TypeOK, Observe
  <2>2. cv'.obs <= cv'.gen /\ cv'.gen >= cv.gen
    BY <1>1, <1>2
  <2> QED BY <1>2, <2>1, <2>2, TestKept
<1>5. Len(cv'.history) \in {Len(cv.history), Len(cv.history) + 1}
  BY <1>2
<1>6. ClusterInv'
  BY <1>1, <1>2, <1>3 DEF IInv, ClusterInv
<1>7. HistoryInv'
  <2>1. CASE pc \in {"request", "update"}
    BY <1>1, <1>2, <1>3, <1>5, <2>1 DEF IInv, HistoryInv, RollingBack
  <2>2. CASE pc = "ack"
    <3>1. cv.gen = updated => cv.spec = settings.image
      BY <2>2 DEF IInv, RequestInv, Wanted, Asked, Ready, RollingBack
    <3>2. before <= Len(cv.history) /\ desired = settings.image
      BY <2>2 DEF IInv, HistoryInv, RequestInv, Asked, Ready, RollingBack
    <3>3. ASSUME Len(cv'.history) = before
          PROVE  cv.spec # settings.image /\ cv'.history[1].image # settings.image /\ cv.gen > updated
      <4>1. Len(cv.history) = before /\ cv.history[1].image = cv.spec
        BY <1>1, <1>2, <3>2, <3>3
      <4>2. cv.spec # settings.image
        BY <2>2, <4>1 DEF IInv, HistoryInv
      <4> QED BY <1>1, <1>2, <3>1, <4>2
    <3>4. before <= Len(cv'.history)
      BY <1>1, <1>5, <3>2
    <3> QED BY <1>2, <1>3, <2>2, <3>2, <3>3, <3>4 DEF HistoryInv, RollingBack
  <2>3. CASE pc \notin {"request", "update", "ack"}
    BY <1>1, <1>3, <1>5, <2>3 DEF IInv, HistoryInv
  <2> QED BY <2>1, <2>2, <2>3
<1>8. OldInv'
  BY <1>1, <1>2, <1>3 DEF IInv, OldInv
<1>9. RequestInv'
  BY <1>1, <1>2, <1>3 DEF IInv, RequestInv, Wanted, AbortAsked
<1>10. SeenInv'
  <2> SUFFICES ASSUME pc \in {"decide", "reached"} PROVE SeenInv'
    BY <1>3 DEF SeenInv
  <2>1. /\ seen.history # << >> /\ before < Len(seen.history) /\ Len(seen.history) <= Len(cv.history)
        /\ cv.history[Len(cv.history) - Len(seen.history) + 1].image = seen.history[1].image
        /\ seen.history[1].done => cv.history[Len(cv.history) - Len(seen.history) + 1].done
    BY DEF IInv, SeenInv
  <2>2. /\ Len(seen.history) \in Nat \ {0} /\ Len(seen.history) <= Len(cv.history) /\ before < Len(seen.history)
        /\ Len(cv.history) \in Nat
    BY <1>1, <2>1, VersionTypes, VersionFields DEF IInv
  <2>3. Len(cv.history) - Len(seen.history) + 1 \in 1 .. Len(cv.history)
    BY <2>2, \A m \in Nat \ {0}, n \in Nat : m <= n => n - m + 1 \in 1 .. n
  <2>4. cv'.history[Len(cv'.history) - Len(seen.history) + 1] = cv.history[Len(cv.history) - Len(seen.history) + 1]
    <3>1. CASE cv'.history = cv.history
      BY <3>1
    <3>2. CASE Len(cv'.history) = Len(cv.history) + 1 /\ \A i \in 1 .. Len(cv.history) : cv'.history[i + 1] = cv.history[i]
      <4>1. Len(cv'.history) = Len(cv.history) + 1
        BY <3>2
      <4>2. Len(cv'.history) - Len(seen.history) + 1 = (Len(cv.history) - Len(seen.history) + 1) + 1
        BY <2>2, <4>1
      <4>3. PICK k \in 1 .. Len(cv.history) : /\ k = Len(cv.history) - Len(seen.history) + 1
                                              /\ Len(cv'.history) - Len(seen.history) + 1 = k + 1
        BY <2>3, <4>2
      <4>4. cv'.history[k + 1] = cv.history[k]
        BY <3>2
      <4> QED BY <4>3, <4>4
    <3> QED BY <1>2, <3>1, <3>2
  <2>5. Len(seen.history) <= Len(cv'.history)
    BY <1>5, <2>2
  <2> QED BY <1>3, <2>1, <2>4, <2>5 DEF SeenInv
<1>11. DecideInv'
  BY <1>2, <1>3 DEF IInv, DecideInv, RequestInv, Asked, Reached, AbortAsked
<1>12. PassIsEarned'
  <2> SUFFICES ASSUME pc \in {"pools", "passed"} PROVE PassIsEarned'
    BY <1>3 DEF PassIsEarned
  <2>1. PICK i \in 1 .. Len(cv.history) - before :
              cv.history[i] = [image |-> IF aborted THEN old ELSE cmd.image, done |-> TRUE]
    BY DEF IInv, PassIsEarned
  <2>2. \E j \in 1 .. Len(cv'.history) - before : cv'.history[j] = cv.history[i]
    <3>1. CASE cv'.history = cv.history
      BY <3>1
    <3>2. CASE Len(cv'.history) = Len(cv.history) + 1 /\ \A k \in 1 .. Len(cv.history) : cv'.history[k + 1] = cv.history[k]
      <4>1. i \in 1 .. Len(cv.history) /\ i + 1 \in 1 .. Len(cv'.history) - before
        BY <1>1, <3>2
      <4> QED BY <3>2, <4>1
    <3> QED BY <1>2, <3>1, <3>2
  <2> QED BY <1>3, <2>1, <2>2 DEF IInv, PassIsEarned, AbortAsked
<1> QED BY <1>4, <1>6, <1>7, <1>8, <1>9, <1>10, <1>11, <1>12 DEF IInv

\* It updates a cluster operator.
LEMMA RollStep ==
  ASSUME IInv, NEW o \in Ops, Roll(o)
  PROVE  IInv'
<1>1. UNCHANGED <<pc, cmd, settings, desired, old, updated, aborted, seen, tries, expired, rebooter, late, before, unlisted, cv, foreign>>
  BY DEF Roll, test, request, wait, disrupt, aux
<1>2. /\ ops \in [Ops -> Images \cup {"none"}] /\ cv.desired \in Images
      /\ ops' = [ops EXCEPT ![o] = cv.desired] /\ ops[o] \notin {cv.desired, "none"}
  BY Basics DEF IInv, TypeInv, TypeOK, Roll
<1>3. ops' \in [Ops -> Images \cup {"none"}]
  BY <1>2
<1>4. TypeInv' /\ CommandInv' /\ RebootInv'
  <2>1. foreign' \in 0 .. MaxForeign /\ UNCHANGED <<pc, test>>
    BY <1>1 DEF IInv, TypeInv, TypeOK, Roll
  <2>2. cv' \in ClusterVersion /\ cv'.obs <= cv'.gen /\ cv'.gen >= cv.gen
    BY <1>1, VersionTypes, Basics DEF IInv
  <2> QED BY <1>3, <2>1, <2>2, TestKept
<1>5. ClusterInv'
  BY <1>1, <1>2 DEF IInv, ClusterInv
<1>6. HistoryInv' /\ OldInv'
  BY <1>1 DEF IInv, HistoryInv, OldInv
<1>7. RequestInv' /\ SeenInv'
  BY <1>1 DEF IInv, RequestInv, Wanted, SeenInv, AbortAsked
<1>8. DecideInv'
  BY <1>1, <1>2 DEF IInv, DecideInv, Reached, AbortAsked
<1>9. PassIsEarned'
  BY <1>1 DEF IInv, PassIsEarned, AbortAsked
<1> QED BY <1>4, <1>5, <1>6, <1>7, <1>8, <1>9 DEF IInv

\* It completes the update, or its conditions change.
LEMMA CompleteStep ==
  ASSUME IInv, Complete \/ Health
  PROVE  IInv'
<1>1. /\ cv.gen \in Nat /\ cv.obs \in Nat /\ cv.obs <= cv.gen /\ updated \in Nat /\ updated <= cv.gen
      /\ Len(cv.history) \in Nat \ {0} /\ before \in Nat
  BY Basics
<1>2. /\ cv' \in ClusterVersion
      /\ cv'.obs = cv.obs /\ cv'.gen = cv.gen /\ cv'.spec = cv.spec /\ cv'.exact = cv.exact /\ cv'.desired = cv.desired
      /\ cv'.history # << >> /\ Len(cv'.history) = Len(cv.history)
      /\ \A i \in 1 .. Len(cv.history) : /\ cv'.history[i].image = cv.history[i].image
                                         /\ cv.history[i].done => cv'.history[i].done
                                         /\ cv.history[i].done => cv'.history[i] = cv.history[i]
      /\ cv'.history[1].done => \A o \in Ops : ops[o] \in {cv.desired, "none"}
  <2>1. CASE Complete
    <3>1. \A i \in 1 .. Len(cv.history) : i = 1 \/ i \in 2 .. Len(cv.history)
      BY <1>1
    <3>2. ~cv.history[1].done /\ \A o \in Ops : ops[o] \in {cv.desired, "none"}
      BY <2>1 DEF Complete
    <3> QED BY <2>1, <3>1, <3>2, CompleteFacts DEF IInv
  <2>2. CASE Health
    <3>1. cv \in ClusterVersion /\ cv' = [cv EXCEPT !.good = ~cv.good]
      BY <2>2, VersionTypes DEF IInv, Health
    <3>2. /\ cv' \in ClusterVersion /\ cv'.history = cv.history
          /\ cv'.obs = cv.obs /\ cv'.gen = cv.gen /\ cv'.spec = cv.spec /\ cv'.exact = cv.exact /\ cv'.desired = cv.desired
      BY <3>1 DEF ClusterVersion
    <3> QED BY <3>2 DEF IInv, ClusterInv
  <2> QED BY <2>1, <2>2
<1>3. UNCHANGED <<pc, cmd, settings, desired, old, updated, aborted, seen, tries, expired, rebooter, late, before, unlisted, ops, foreign>>
  BY DEF Complete, Health, test, request, wait, disrupt, aux
<1>4. TypeInv' /\ CommandInv' /\ RebootInv'
  <2>1. ops' \in [Ops -> Images \cup {"none"}] /\ foreign' \in 0 .. MaxForeign /\ UNCHANGED <<pc, test>>
    BY <1>3 DEF IInv, TypeInv, TypeOK, Complete, Health
  <2>2. cv'.obs <= cv'.gen /\ cv'.gen >= cv.gen
    BY <1>1, <1>2
  <2> QED BY <1>2, <2>1, <2>2, TestKept
<1>5. 1 \in 1 .. Len(cv.history)
  BY <1>1
<1>6. ClusterInv'
  BY <1>2, <1>3, <1>5 DEF IInv, ClusterInv
<1>7. HistoryInv'
  BY <1>2, <1>3, <1>5 DEF IInv, HistoryInv
<1>8. OldInv' /\ RequestInv'
  BY <1>2, <1>3 DEF IInv, OldInv, RequestInv, Wanted, AbortAsked
<1>9. SeenInv'
  <2> SUFFICES ASSUME pc \in {"decide", "reached"} PROVE SeenInv'
    BY <1>3 DEF SeenInv
  <2>1. /\ seen.history # << >> /\ before < Len(seen.history) /\ Len(seen.history) <= Len(cv.history)
        /\ cv.history[Len(cv.history) - Len(seen.history) + 1].image = seen.history[1].image
        /\ seen.history[1].done => cv.history[Len(cv.history) - Len(seen.history) + 1].done
    BY DEF IInv, SeenInv
  <2>2. /\ Len(seen.history) \in Nat \ {0} /\ Len(seen.history) <= Len(cv.history) /\ before < Len(seen.history)
        /\ Len(cv.history) \in Nat
    BY <1>1, <2>1, VersionTypes, VersionFields DEF IInv
  <2>3. Len(cv.history) - Len(seen.history) + 1 \in 1 .. Len(cv.history)
    BY <2>2, \A m \in Nat \ {0}, n \in Nat : m <= n => n - m + 1 \in 1 .. n
  <2> QED BY <1>2, <1>3, <2>1, <2>3 DEF SeenInv
<1>10. DecideInv'
  BY <1>2, <1>3 DEF IInv, DecideInv, Reached, AbortAsked
<1>11. PassIsEarned'
  <2> SUFFICES ASSUME pc \in {"pools", "passed"} PROVE PassIsEarned'
    BY <1>3 DEF PassIsEarned
  <2>1. PICK i \in 1 .. Len(cv.history) - before :
              cv.history[i] = [image |-> IF aborted THEN old ELSE cmd.image, done |-> TRUE]
    BY DEF IInv, PassIsEarned
  <2>2. i \in 1 .. Len(cv.history) /\ cv.history[i].done
    BY <1>1, <2>1
  <2>3. cv'.history[i] = cv.history[i]
    BY <1>2, <2>2
  <2> QED BY <1>2, <1>3, <2>1, <2>3 DEF IInv, PassIsEarned, AbortAsked
<1> QED BY <1>4, <1>6, <1>7, <1>8, <1>9, <1>10, <1>11 DEF IInv

-----------------------------------------------------------------------------
(* The steps of the test *)

\* A test that is not over has rebooted nobody after its end.
LEMMA NotLate ==
  ASSUME IInv, ~Over, late' = late
  PROVE  RebootInv'
<1>1. late = 0
  BY DEF IInv, TypeInv, TypeOK, RebootInv
<1> QED BY <1>1 DEF RebootInv

\* A step that ends the test without a pass.
LEMMA StopStep ==
  ASSUME IInv, ~Over, pc' \in {"failed", "rejected"}, TypeInv',
         UNCHANGED <<cmd, settings, aborted, late, cv, ops>>
  PROVE  IInv'
<1>1. ClusterInv'
  BY DEF IInv, ClusterInv
<1>2. CommandInv'
  BY DEF IInv, CommandInv, AbortAsked, Ready, Asked, RollingBack
<1>3. HistoryInv' /\ OldInv' /\ SeenInv' /\ DecideInv' /\ PassIsEarned'
  BY DEF HistoryInv, OldInv, SeenInv, DecideInv, PassIsEarned, Ready, Asked, RollingBack
<1>4. RequestInv'
  BY DEF IInv, RequestInv, Wanted, AbortAsked, Ready, Asked, RollingBack
<1> QED BY <1>1, <1>2, <1>3, <1>4, NotLate DEF IInv

\* The command takes its options.
LEMMA RunUpgradeStep ==
  ASSUME IInv, RunUpgrade
  PROVE  IInv'
<1>1. /\ pc = "command" /\ ~Over
      /\ UNCHANGED <<cmd, settings, desired, old, updated, aborted, seen, tries, expired, rebooter, late, before, unlisted, cv, ops, foreign>>
  BY DEF RunUpgrade, test, request, wait, disrupt, aux, cluster, Over
<1>2. TypeInv'
  BY <1>1 DEF RunUpgrade, IInv, TypeInv, TypeOK
<1>3. CASE pc' = "rejected"
  BY <1>1, <1>2, <1>3, StopStep
<1>4. CASE pc' = "child" /\ (cmd.suite => initUpgrade(cmd).ok)
  <2>1. CommandInv'
    BY <1>1, <1>4 DEF IInv, CommandInv, AbortAsked, Ready, Asked, RollingBack
  <2>2. HistoryInv' /\ OldInv' /\ SeenInv' /\ DecideInv' /\ PassIsEarned'
    BY <1>4 DEF HistoryInv, OldInv, SeenInv, DecideInv, PassIsEarned, Ready, Asked, RollingBack
  <2>3. ClusterInv' /\ RequestInv'
    BY <1>1, <1>4 DEF IInv, ClusterInv, RequestInv, AbortAsked, Ready, Asked, RollingBack
  <2> QED BY <1>1, <1>2, <2>1, <2>2, <2>3, NotLate DEF IInv
<1> QED BY <1>3, <1>4 DEF RunUpgrade

\* The process of the test takes them again.
LEMMA RunTestStep ==
  ASSUME IInv, RunTest
  PROVE  IInv'
<1>1. /\ pc = "child" /\ pc' = "context" /\ ~Over
      /\ UNCHANGED <<cmd, desired, old, updated, aborted, seen, tries, expired, rebooter, late, before, unlisted, cv, ops, foreign>>
  BY DEF RunTest, request, wait, disrupt, aux, cluster, Over
<1>2. settings.image = "none" /\ settings.abortAt = 0 /\ (cmd.suite => initUpgrade(cmd).ok) /\ cmd \in Commands
  BY <1>1 DEF IInv, CommandInv, TypeInv, TypeOK
<1>3. /\ DOMAIN settings' = {"image", "abortAt", "reboot"}
      /\ settings'.image \in Images \cup {"none"} /\ settings'.abortAt \in -1 .. 100
      /\ settings'.image # "none" => settings'.image = cmd.image /\ (AbortAsked => settings'.abortAt # 0)
      /\ settings'.abortAt # 0 => AbortAsked
  <2>1. CASE cmd.suite
    <3>1. /\ settings'.image = cmd.image /\ settings'.abortAt = initUpgrade(cmd).abortAt
          /\ DOMAIN settings' = {"image", "abortAt", "reboot"}
      BY <1>2, <2>1, CommandLine DEF RunTest
    <3>2. cmd.image \in Images \cup {"none"}
      BY <1>2, CommandsAssumption
    <3> QED BY <1>2, <2>1, <3>1, <3>2, CommandLine DEF AbortAsked
  <2>2. CASE ~cmd.suite
    BY <1>2, <2>2 DEF RunTest, IInv, TypeInv
  <2> QED BY <2>1, <2>2
<1>4. TypeInv'
  BY <1>1, <1>3 DEF IInv, TypeInv, TypeOK
<1>5. CommandInv'
  BY <1>1, <1>3 DEF CommandInv, AbortAsked, Ready, Asked, RollingBack
<1>6. HistoryInv' /\ OldInv' /\ SeenInv' /\ DecideInv' /\ PassIsEarned'
  BY <1>1 DEF HistoryInv, OldInv, SeenInv, DecideInv, PassIsEarned, Ready, Asked, RollingBack
<1>7. ClusterInv' /\ RequestInv'
  BY <1>1 DEF IInv, ClusterInv, RequestInv, AbortAsked, Ready, Asked, RollingBack
<1> QED BY <1>1, <1>4, <1>5, <1>6, <1>7, NotLate DEF IInv

\* A request fails for good.
LEMMA FatalStep ==
  ASSUME IInv, Fatal
  PROVE  IInv'
<1>1. /\ ~Over /\ pc' = "failed"
      /\ UNCHANGED <<cmd, settings, desired, old, updated, aborted, seen, tries, expired, rebooter, late, before, unlisted, cv, ops, foreign>>
  BY DEF Fatal, test, request, wait, disrupt, aux, cluster, Over
<1>2. TypeInv'
  BY <1>1 DEF IInv, TypeInv, TypeOK
<1> QED BY <1>1, <1>2, StopStep

\* The cluster is found fit for the update: then nothing is left to observe in it,
\* and its latest update is not the wanted one.
LEMMA ContextStep ==
  ASSUME IInv, Context
  PROVE  IInv'
<1>1. /\ pc = "context" /\ ~Over /\ pc' \in {"request", "failed"} /\ before' = Len(cv.history)
      /\ UNCHANGED <<cmd, settings, desired, old, updated, aborted, seen, tries, expired, rebooter, late, unlisted, cv, ops, foreign>>
  BY DEF Context, request, wait, disrupt, aux, cluster, Over
<1>2. Len(cv.history) \in Nat \ {0}
  BY Basics
<1>3. TypeInv'
  BY <1>1, <1>2 DEF IInv, TypeInv, TypeOK
<1>4. CASE pc' = "failed"
  BY <1>1, <1>3, <1>4, StopStep
<1>5. CASE pc' = "request"
  <2>1. /\ cv.spec # "none" => cv.obs = cv.gen /\ cv.history[1].done
        /\ latestCompleted(cv.history) # 0
        /\ settings.image \notin {"none", cv.history[latestCompleted(cv.history)].image}
    BY <1>5 DEF Context
  <2>2. cv.obs = cv.gen /\ cv.history # << >> /\ (cv.history[1].done \/ Len(cv.history) = 1)
    BY <2>1 DEF IInv, ClusterInv
  <2>3. cv.history \in Seq([image : Images, done : BOOLEAN])
    BY VersionTypes, VersionFields DEF IInv
  <2>4. latestCompleted(cv.history) = 1
    BY <2>1, <2>2, <2>3, LatestCompleted
  <2>5. cv.history[1].image # settings.image /\ cv.desired # settings.image /\ settings.image # "none"
    BY <2>1, <2>4 DEF IInv, ClusterInv
  <2>6. HistoryInv'
    BY <1>1, <1>2, <1>5, <2>5 DEF HistoryInv, RollingBack
  <2>7. OldInv'
    <3>1. ~(cv.obs < cv.gen)
      BY <2>2, Basics
    <3> QED BY <1>1, <1>5, <2>5, <3>1 DEF OldInv
  <2>8. CommandInv'
    BY <1>1, <1>5, <2>5 DEF IInv, CommandInv, AbortAsked
  <2>9. ClusterInv' /\ SeenInv' /\ DecideInv' /\ PassIsEarned'
    BY <1>1, <1>5 DEF IInv, ClusterInv, SeenInv, DecideInv, PassIsEarned
  <2>10. RequestInv'
    BY <1>1, <1>5 DEF IInv, RequestInv, Wanted, AbortAsked, Asked, RollingBack, Ready
  <2> QED BY <1>1, <1>3, <2>6, <2>7, <2>8, <2>9, <2>10, NotLate DEF IInv
<1> QED BY <1>1, <1>4, <1>5

\* clusterUpgrade reads the cluster version and picks the percentage.
LEMMA GetVersionStep ==
  ASSUME IInv, GetVersion
  PROVE  IInv'
<1>1. /\ pc = "request" /\ pc' = "update" /\ ~Over /\ seen' = cv /\ old' = cv.desired
      /\ UNCHANGED <<cmd, desired, updated, aborted, tries, expired, rebooter, late, before, unlisted, cv, ops, foreign>>
  BY DEF GetVersion, request, wait, disrupt, aux, cluster, Over
<1>2. PICK p : /\ p \in (IF settings.abortAt = -1 THEN Percents ELSE {settings.abortAt})
               /\ settings' = [settings EXCEPT !.abortAt = p]
  BY DEF GetVersion
<1>3. p \in -1 .. 100 /\ (p = 0 <=> settings.abortAt = 0)
  BY <1>2, UpgradeAssumption DEF IInv, TypeInv, TypeOK
<1>4. /\ DOMAIN settings' = {"image", "abortAt", "reboot"} /\ settings'.image = settings.image
      /\ settings'.abortAt = p
  BY <1>2 DEF IInv, TypeInv
<1>5. cv.desired \in Images /\ cv \in ClusterVersion /\ cv.obs <= cv.gen
  BY Basics, VersionTypes DEF IInv
<1>6. TypeInv'
  BY <1>1, <1>3, <1>4, <1>5 DEF IInv, TypeInv, TypeOK
<1>7. CommandInv'
  BY <1>1, <1>3, <1>4 DEF IInv, CommandInv, AbortAsked, Ready, Asked, RollingBack
<1>8. HistoryInv'
  BY <1>1, <1>4 DEF IInv, HistoryInv, RollingBack
<1>9. OldInv'
  BY <1>1, <1>4, <1>5 DEF IInv, OldInv
<1>10. ClusterInv' /\ SeenInv' /\ DecideInv' /\ PassIsEarned'
  BY <1>1 DEF IInv, ClusterInv, SeenInv, DecideInv, PassIsEarned
<1>11. RequestInv'
  BY <1>1 DEF IInv, RequestInv, Wanted, AbortAsked, Asked, RollingBack
<1> QED BY <1>1, <1>6, <1>7, <1>8, <1>9, <1>10, <1>11, NotLate DEF IInv

\* The update is asked for.  Where others had asked for the same and the operator
\* had taken it up, the history has it already.
LEMMA UpdateStep ==
  ASSUME IInv, Update
  PROVE  IInv'
<1>1. /\ pc = "update" /\ ~Over
      /\ UNCHANGED <<cmd, settings, old, aborted, seen, tries, expired, rebooter, late, before, unlisted, ops, foreign>>
  BY DEF Update, wait, disrupt, aux, Over
<1>2. CASE pc' = "failed" /\ UNCHANGED <<cv, desired, updated>>
  <2>1. TypeInv'
    BY <1>1, <1>2 DEF IInv, TypeInv, TypeOK
  <2> QED BY <1>1, <1>2, <2>1, StopStep
<1>3. CASE pc' = "ack" /\ cv' = Write(settings.image, TRUE) /\ desired' = settings.image /\ updated' = cv'.gen
  <2>0. pc' = "ack" /\ desired' = settings.image /\ updated' = cv'.gen
    BY <1>3
  <2>1. settings.image \in Images
    BY <1>1 DEF IInv, CommandInv, Ready, TypeInv
  <2>2. /\ cv' \in ClusterVersion
        /\ cv'.spec = settings.image /\ cv'.exact
        /\ cv'.gen \in {cv.gen, cv.gen + 1} /\ (cv'.gen = cv.gen => cv.spec = settings.image)
        /\ cv'.obs = cv.obs /\ cv'.desired = cv.desired /\ cv'.history = cv.history
    BY <1>3, <2>1, WriteFacts DEF IInv
  <2>3. /\ cv.gen \in Nat /\ cv.obs \in Nat /\ cv.obs <= cv.gen /\ "none" \notin Images
    BY Basics
  <2>4. cv'.gen \in Nat /\ cv'.obs <= cv'.gen
    BY <2>2, <2>3
  <2>5. TypeInv'
    <3>1. seen \in ClusterVersion /\ seen.obs <= seen.gen
      BY VersionTypes DEF IInv
    <3>2. \A c \in {cv', seen'} : c \in ClusterVersion /\ c.obs <= c.gen
      BY <1>1, <2>2, <2>4, <3>1
    <3> QED BY <1>1, <2>0, <2>1, <2>4, <3>2 DEF IInv, TypeInv, TypeOK
  <2>6. ClusterInv'
    BY <1>1, <2>1, <2>2, <2>3 DEF IInv, ClusterInv
  <2>7. CommandInv'
    BY <1>1, <2>0 DEF IInv, CommandInv, AbortAsked, Ready, Asked, RollingBack
  <2>8. HistoryInv'
    <3>1. before <= Len(cv.history) /\ (Len(cv.history) = before => cv.history[1].image # settings.image)
      BY <1>1 DEF IInv, HistoryInv
    <3>2. ASSUME cv.history[1].image # settings.image PROVE cv.obs < updated'
      <4>1. CASE cv'.gen = cv.gen
        <5>1. cv.obs # cv.gen
          BY <2>1, <2>2, <2>3, <3>2, <4>1 DEF IInv, ClusterInv
        <5> QED BY <2>0, <2>3, <4>1, <5>1
      <4>2. CASE cv'.gen = cv.gen + 1
        BY <2>0, <2>3, <4>2
      <4> QED BY <2>2, <4>1, <4>2
    <3>3. cv.history[1].image # settings.image => ~(cv'.obs >= updated')
      BY <2>0, <2>2, <2>3, <2>4, <3>2
    <3> QED BY <1>1, <2>0, <2>2, <3>1, <3>3 DEF HistoryInv, RollingBack
  <2>9. OldInv'
    BY <1>1, <2>0 DEF IInv, OldInv, Ready, Asked
  <2>10. RequestInv'
    BY <1>1, <2>0, <2>2 DEF IInv, RequestInv, Wanted, AbortAsked, Asked, RollingBack
  <2>11. SeenInv' /\ DecideInv' /\ PassIsEarned'
    BY <2>0 DEF SeenInv, DecideInv, PassIsEarned
  <2> QED BY <1>1, <2>5, <2>6, <2>7, <2>8, <2>9, <2>10, <2>11, NotLate DEF IInv
<1> QED BY <1>2, <1>3 DEF Update

\* A poll fails, which stops the test when its time is over.
LEMMA PollFailsStep ==
  ASSUME IInv, PollFails
  PROVE  IInv'
<1>1. /\ ~Over /\ pc' \in {pc, "failed"}
      /\ UNCHANGED <<cmd, settings, desired, old, updated, aborted, seen, tries, expired, rebooter, late, before, unlisted, cv, ops, foreign>>
  BY DEF PollFails, Again, test, request, wait, disrupt, aux, cluster, Over
<1>2. TypeInv'
  BY <1>1 DEF IInv, TypeInv, TypeOK
<1>3. CASE pc' = pc
  <2>1. ClusterInv' /\ CommandInv' /\ HistoryInv' /\ OldInv'
    BY <1>1, <1>3 DEF IInv, ClusterInv, CommandInv, HistoryInv, OldInv, AbortAsked
  <2>2. RequestInv' /\ SeenInv' /\ DecideInv' /\ PassIsEarned'
    BY <1>1, <1>3 DEF IInv, RequestInv, Wanted, SeenInv, DecideInv, PassIsEarned, Reached, AbortAsked
  <2> QED BY <1>1, <1>2, <2>1, <2>2, NotLate DEF IInv
<1> QED BY <1>1, <1>2, <1>3, StopStep

\* The operator follows the update, which is then in the history.
LEMMA AckStep ==
  ASSUME IInv, Ack
  PROVE  IInv'
<1>1. /\ pc = "ack" /\ ~Over /\ seen' = cv
      /\ UNCHANGED <<cmd, settings, desired, old, updated, aborted, tries, late, before, unlisted, cv, ops, foreign>>
  BY DEF Ack, request, aux, cluster, Over
<1>2. cv.gen \in Nat /\ cv.obs \in Nat /\ cv.obs <= cv.gen /\ updated \in Nat /\ Len(cv.history) \in Nat /\ before \in Nat
  BY Basics
<1>3. /\ pc' \in {"failed", "observe", "ack"}
      /\ pc' = "observe" => ~ChangedByOthers /\ cv.obs >= updated
  BY <1>1 DEF Ack, Again
<1>4. TypeInv'
  <2>1. expired' \in BOOLEAN /\ rebooter' \in {"off", "asleep", "awake"}
    BY DEF Ack, IInv, TypeInv, TypeOK
  <2>2. cv \in ClusterVersion /\ cv.obs <= cv.gen
    BY VersionTypes DEF IInv
  <2> QED BY <1>1, <1>3, <2>1, <2>2 DEF IInv, TypeInv, TypeOK
<1>5. CASE pc' = "failed"
  BY <1>1, <1>4, <1>5, StopStep
<1>6. CASE pc' # "failed"
  <2>1. ClusterInv' /\ CommandInv'
    BY <1>1, <1>3 DEF IInv, ClusterInv, CommandInv, AbortAsked, Ready, Asked, RollingBack
  <2>2. HistoryInv'
    <3>1. CASE pc' = "ack"
      BY <1>1, <3>1 DEF IInv, HistoryInv, RollingBack
    <3>2. CASE pc' = "observe"
      <4>1. before <= Len(cv.history) /\ Len(cv.history) # before
        BY <1>1, <1>3, <3>2 DEF IInv, HistoryInv, ChangedByOthers, Wanted
      <4> QED BY <1>1, <1>2, <3>2, <4>1 DEF HistoryInv
    <3> QED BY <1>3, <1>6, <3>1, <3>2
  <2>3. OldInv'
    BY <1>1, <1>3, <1>6 DEF IInv, OldInv, Ready, Asked
  <2>4. RequestInv'
    BY <1>1, <1>3, <1>6 DEF IInv, RequestInv, Wanted, AbortAsked, Asked, RollingBack
  <2>5. SeenInv' /\ DecideInv' /\ PassIsEarned'
    BY <1>3 DEF SeenInv, DecideInv, PassIsEarned
  <2> QED BY <1>1, <1>4, <2>1, <2>2, <2>3, <2>4, <2>5, NotLate DEF IInv
<1> QED BY <1>5, <1>6

\* A poll reads the cluster version.
LEMMA CheckStep ==
  ASSUME IInv, Check
  PROVE  IInv'
<1>1. /\ pc = "observe" /\ ~Over /\ seen' = cv /\ pc' \in {"failed", "decide"}
      /\ UNCHANGED <<cmd, settings, desired, old, updated, aborted, tries, expired, rebooter, late, before, unlisted, cv, ops, foreign>>
  BY DEF Check, request, wait, disrupt, aux, cluster, Over
<1>2. cv \in ClusterVersion /\ cv.obs <= cv.gen
  BY VersionTypes DEF IInv
<1>3. TypeInv'
  BY <1>1, <1>2 DEF IInv, TypeInv, TypeOK
<1>4. CASE pc' = "failed"
  BY <1>1, <1>3, <1>4, StopStep
<1>5. CASE pc' = "decide"
  <2>1. ClusterInv' /\ CommandInv'
    BY <1>1, <1>5 DEF IInv, ClusterInv, CommandInv, AbortAsked, Ready, Asked, RollingBack
  <2>2. HistoryInv' /\ OldInv'
    BY <1>1, <1>5 DEF IInv, HistoryInv, OldInv, Ready, Asked
  <2>3. RequestInv'
    BY <1>1, <1>5 DEF IInv, RequestInv, Wanted, AbortAsked, Asked, RollingBack
  <2>4. SeenInv'
    <3>1. before < Len(cv.history) /\ Len(cv.history) \in Nat /\ cv.history # << >>
      BY <1>1, Basics DEF IInv, HistoryInv, ClusterInv
    <3>2. Len(cv.history) - Len(cv.history) + 1 = 1 /\ Len(cv.history) <= Len(cv.history)
      BY <3>1
    <3> QED BY <1>1, <3>1, <3>2 DEF SeenInv
  <2>5. DecideInv'
    BY <1>1, <1>5 DEF IInv, DecideInv, ClusterInv
  <2>6. PassIsEarned'
    BY <1>5 DEF PassIsEarned
  <2> QED BY <1>1, <1>3, <2>1, <2>2, <2>3, <2>4, <2>5, <2>6, NotLate DEF IInv
<1> QED BY <1>1, <1>4, <1>5

\* The operators are listed, and the test decides whether to roll back.  When it
\* could list them, was to abort and does not, some operator is still at the old
\* image, so that what the poll read cannot have been the completed update.
LEMMA DecideStep ==
  ASSUME IInv, Decide
  PROVE  IInv'
<1>1. /\ pc = "decide" /\ ~Over
      /\ UNCHANGED <<cmd, settings, old, updated, aborted, seen, expired, rebooter, late, before, cv, ops, foreign>>
  BY DEF Decide, disrupt, cluster, Over
<1>2. PICK listed \in BOOLEAN :
         /\ unlisted' = ~listed
         /\ IF ShouldUpgradeAbort(listed) THEN pc' = "abort" /\ desired' = old /\ tries' = 0
            ELSE pc' = "reached" /\ UNCHANGED <<desired, tries>>
  BY DEF Decide
<1>3. old \in Images /\ (old # settings.image \/ old = "other")
  BY <1>1 DEF IInv, OldInv, Ready, Asked
<1>4. TypeInv'
  <2>1. {desired', old'} \subseteq Images \cup {"none"} /\ tries' \in 0 .. Steps /\ pc' \in {"abort", "reached"}
    BY <1>1, <1>2, <1>3, UpgradeAssumption DEF IInv, TypeInv, TypeOK
  <2>2. unlisted' \in BOOLEAN
    BY <1>2
  <2> QED BY <1>1, <2>1, <2>2 DEF IInv, TypeInv, TypeOK
<1>5. ClusterInv' /\ CommandInv'
  BY <1>1, <1>2 DEF IInv, ClusterInv, CommandInv, AbortAsked, Ready, Asked, RollingBack
<1>6. HistoryInv' /\ OldInv'
  BY <1>1, <1>2 DEF IInv, HistoryInv, OldInv, Ready, Asked, RollingBack
<1>7. PassIsEarned'
  BY <1>2 DEF PassIsEarned
<1>8. CASE ShouldUpgradeAbort(listed)
  <2>1. RequestInv'
    BY <1>1, <1>2, <1>8, UpgradeAssumption DEF IInv, RequestInv, Wanted, ShouldUpgradeAbort, Asked, RollingBack
  <2>2. SeenInv' /\ DecideInv'
    BY <1>2, <1>8 DEF SeenInv, DecideInv
  <2> QED BY <1>1, <1>4, <1>5, <1>6, <1>7, <2>1, <2>2, NotLate DEF IInv
<1>9. CASE ~ShouldUpgradeAbort(listed)
  <2>1. RequestInv'
    BY <1>1, <1>2, <1>9 DEF IInv, RequestInv, Wanted, AbortAsked, Asked, RollingBack
  <2>2. SeenInv'
    BY <1>1, <1>2, <1>9 DEF IInv, SeenInv
  <2>3. ASSUME Reached, AbortAsked, ~aborted, listed, old # "other" PROVE FALSE
    <3>1. settings.abortAt \in -1 .. 100 /\ settings.abortAt # 0
      BY <1>1, <2>3 DEF IInv, TypeInv, TypeOK, CommandInv, Ready, Asked
    <3>2. desired = settings.image /\ old # desired
      BY <1>1, <1>3, <2>3 DEF IInv, RequestInv, Wanted, Asked
    <3>3. \A o \in Ops : ops[o] \in {desired, "other", "none"}
      BY <1>1, <2>3 DEF IInv, DecideInv, Reached
    <3>4. \A o \in Ops : ops[o] # old
      BY <1>3, <2>3, <3>2, <3>3 DEF Images
    <3>5. 100 * Cardinality({o \in Ops : ops[o] # old}) >= settings.abortAt * Cardinality(Ops)
      BY <3>1, <3>4, ThresholdMet
    <3> QED BY <1>9, <2>3, <3>1, <3>5 DEF ShouldUpgradeAbort
  <2>4. DecideInv'
    BY <1>1, <1>2, <1>9, <2>3 DEF DecideInv, Reached, AbortAsked
  <2> QED BY <1>1, <1>4, <1>5, <1>6, <1>7, <2>1, <2>2, <2>4, NotLate DEF IInv
<1> QED BY <1>8, <1>9

\* The update that the poll read is found completed, and the history still has it.
LEMMA FinishStep ==
  ASSUME IInv, Finish
  PROVE  IInv'
<1>1. /\ pc = "reached" /\ ~Over /\ pc' \in {"pools", "failed", "observe"} /\ (pc' = "pools" => Reached)
      /\ UNCHANGED <<cmd, settings, desired, old, updated, aborted, seen, tries, rebooter, late, before, unlisted, cv, ops, foreign>>
  <2>1. seen.good \in BOOLEAN
    BY VersionTypes, VersionFields DEF IInv
  <2>2. pc' \in {"pools", "failed", "observe"} /\ (pc' = "pools" => Reached)
    <3>1. CASE Reached /\ seen.good
      BY <3>1 DEF Finish
    <3>2. CASE Reached /\ ~seen.good
      BY <3>2 DEF Finish
    <3>3. CASE ~Reached
      BY <3>3 DEF Finish, Again
    <3> QED BY <3>1, <3>2, <3>3
  <2> QED BY <2>2 DEF Finish, request, disrupt, aux, cluster, Over
<1>2. TypeInv'
  <2>1. expired' \in BOOLEAN
    BY DEF Finish, IInv, TypeInv
  <2> QED BY <1>1, <2>1 DEF IInv, TypeInv, TypeOK
<1>3. CASE pc' = "failed"
  BY <1>1, <1>2, <1>3, StopStep
<1>4. CASE pc' \in {"pools", "observe"}
  <2>1. ClusterInv' /\ CommandInv'
    BY <1>1, <1>4 DEF IInv, ClusterInv, CommandInv, AbortAsked, Ready, Asked, RollingBack
  <2>2. HistoryInv' /\ OldInv'
    BY <1>1, <1>4 DEF IInv, HistoryInv, OldInv, Ready, Asked, RollingBack
  <2>3. RequestInv'
    BY <1>1, <1>4 DEF IInv, RequestInv, Wanted, AbortAsked, Asked, RollingBack
  <2>4. SeenInv' /\ DecideInv'
    BY <1>4 DEF SeenInv, DecideInv
  <2>5. CASE pc' = "pools"
    <3>1. Reached
      BY <1>1, <2>5
    <3>2. /\ before < Len(seen.history) /\ Len(seen.history) <= Len(cv.history)
          /\ Len(seen.history) \in Nat \ {0} /\ Len(cv.history) \in Nat /\ before \in Nat
      BY <1>1, Basics, VersionTypes, VersionFields DEF IInv, SeenInv
    <3>3. PICK k : k = Len(cv.history) - Len(seen.history) + 1
      OBVIOUS
    <3>4. k \in 1 .. Len(cv.history) /\ k \in 1 .. Len(cv.history) - before
      BY <3>2, <3>3, \A m \in Nat \ {0}, n, b \in Nat :
                        b < m /\ m <= n => n - m + 1 \in 1 .. n /\ n - m + 1 \in 1 .. n - b
    <3>5. cv.history[k] \in [image : Images, done : BOOLEAN]
      BY <3>4, VersionTypes, VersionFields DEF IInv
    <3>6. cv.history[k].image = desired /\ cv.history[k].done
      <4>1. seen.history[1].image = desired /\ seen.history[1].done
        BY <3>1 DEF Reached
      <4>2. cv.history[k].image = seen.history[1].image /\ (seen.history[1].done => cv.history[k].done)
        BY <1>1, <3>3 DEF IInv, SeenInv
      <4> QED BY <4>1, <4>2
    <3>7. cv.history[k] = [image |-> desired, done |-> TRUE]
      BY <3>5, <3>6
    <3>8. desired = IF aborted THEN old ELSE cmd.image
      BY <1>1 DEF IInv, RequestInv, Wanted, CommandInv, Asked, Ready
    <3>9. aborted => AbortAsked
      BY DEF IInv, RequestInv, Wanted
    <3>10. AbortAsked => aborted \/ unlisted \/ old = "other"
      BY <1>1, <3>1 DEF IInv, DecideInv
    <3> QED BY <1>1, <1>2, <2>1, <2>2, <2>3, <2>4, <3>4, <3>7, <3>8, <3>9, <3>10, NotLate
            DEF IInv, PassIsEarned, AbortAsked
  <2>6. CASE pc' = "observe"
    BY <1>1, <1>2, <2>1, <2>2, <2>3, <2>4, <2>6, NotLate DEF IInv, PassIsEarned
  <2> QED BY <1>4, <2>5, <2>6
<1> QED BY <1>1, <1>3, <1>4

\* The rollback reads the cluster version ...
LEMMA AbortGetStep ==
  ASSUME IInv, AbortGet
  PROVE  IInv'
<1>1. /\ pc = "abort" /\ pc' = "rollback" /\ ~Over /\ seen' = cv
      /\ UNCHANGED <<cmd, settings, desired, old, updated, aborted, tries, expired, rebooter, late, before, unlisted, cv, ops, foreign>>
  BY DEF AbortGet, request, wait, disrupt, aux, cluster, Over
<1>2. cv \in ClusterVersion /\ cv.obs <= cv.gen
  BY VersionTypes DEF IInv
<1>3. TypeInv'
  BY <1>1, <1>2 DEF IInv, TypeInv, TypeOK
<1>4. ClusterInv' /\ CommandInv'
  BY <1>1 DEF IInv, ClusterInv, CommandInv, AbortAsked, Ready, Asked, RollingBack
<1>5. HistoryInv' /\ OldInv'
  BY <1>1 DEF IInv, HistoryInv, OldInv, Ready, Asked, RollingBack
<1>6. RequestInv'
  BY <1>1 DEF IInv, RequestInv, Wanted, AbortAsked, Asked, RollingBack
<1>7. SeenInv' /\ DecideInv' /\ PassIsEarned'
  BY <1>1 DEF SeenInv, DecideInv, PassIsEarned
<1> QED BY <1>1, <1>3, <1>4, <1>5, <1>6, <1>7, NotLate DEF IInv

\* ... and writes the old image into its spec, or tries again.
LEMMA AbortUpdateStep ==
  ASSUME IInv, AbortUpdate
  PROVE  IInv'
<1>1. /\ pc = "rollback" /\ ~Over /\ tries' = tries + 1
      /\ UNCHANGED <<cmd, settings, desired, old, seen, expired, rebooter, late, before, unlisted, ops, foreign>>
  BY DEF AbortUpdate, disrupt, aux, Over
<1>2. /\ desired = old /\ old \in Images /\ settings.abortAt # 0 /\ AbortAsked /\ ~aborted
      /\ tries < Steps /\ tries \in Nat /\ Steps \in Nat
  BY <1>1, UpgradeAssumption DEF IInv, RequestInv, Wanted, RollingBack, OldInv, Ready, CommandInv, TypeInv, TypeOK
<1>3. tries' \in 0 .. Steps
  BY <1>1, <1>2
<1>4. CASE /\ cv' = Write(desired, TRUE) /\ updated' = cv'.gen /\ aborted' = TRUE /\ pc' = Again("observe")
  <2>0. updated' = cv'.gen /\ aborted' = TRUE /\ pc' = Again("observe")
    BY <1>4
  <2>1. /\ cv' \in ClusterVersion
        /\ cv'.spec = desired /\ cv'.exact
        /\ cv'.gen \in {cv.gen, cv.gen + 1} /\ (cv'.gen = cv.gen => cv.spec = desired)
        /\ cv'.obs = cv.obs /\ cv'.desired = cv.desired /\ cv'.history = cv.history
    BY <1>2, <1>4, WriteFacts DEF IInv
  <2>2. cv.gen \in Nat /\ cv.obs \in Nat /\ cv.obs <= cv.gen /\ "none" \notin Images
    BY Basics
  <2>3. cv'.gen \in Nat /\ cv'.obs <= cv'.gen
    BY <2>1, <2>2
  <2>4. pc' \in {"observe", "failed"}
    BY <2>0 DEF Again
  <2>5. TypeInv'
    <3>1. seen \in ClusterVersion /\ seen.obs <= seen.gen
      BY VersionTypes DEF IInv
    <3>2. \A c \in {cv', seen'} : c \in ClusterVersion /\ c.obs <= c.gen
      BY <1>1, <2>1, <2>3, <3>1
    <3> QED BY <1>1, <1>3, <2>0, <2>3, <2>4, <3>2 DEF IInv, TypeInv, TypeOK
  <2>6. ClusterInv'
    BY <1>1, <1>2, <2>1, <2>2 DEF IInv, ClusterInv
  <2>7. CommandInv'
    BY <1>1, <2>4 DEF IInv, CommandInv, AbortAsked, Ready, Asked, RollingBack
  <2>8. HistoryInv'
    BY <1>1, <2>1, <2>4 DEF IInv, HistoryInv, RollingBack
  <2>9. OldInv'
    BY <1>1, <2>4 DEF IInv, OldInv, Ready, Asked, RollingBack
  <2>10. RequestInv'
    BY <1>1, <1>2, <2>0, <2>1, <2>4 DEF RequestInv, Wanted, AbortAsked, Asked, RollingBack
  <2>11. SeenInv' /\ DecideInv' /\ PassIsEarned'
    BY <2>4 DEF SeenInv, DecideInv, PassIsEarned
  <2> QED BY <1>1, <2>5, <2>6, <2>7, <2>8, <2>9, <2>10, <2>11, NotLate DEF IInv
<1>5. CASE /\ pc' = (IF tries + 1 < Steps THEN "abort" ELSE "failed")
           /\ UNCHANGED <<cv, updated, aborted>>
  <2>1. TypeInv'
    BY <1>1, <1>3, <1>5 DEF IInv, TypeInv, TypeOK
  <2>2. CASE pc' = "failed"
    BY <1>1, <1>5, <2>1, <2>2, StopStep
  <2>3. CASE pc' = "abort" /\ tries' < Steps
    <3>1. ClusterInv' /\ CommandInv'
      BY <1>1, <1>5, <2>3 DEF IInv, ClusterInv, CommandInv, AbortAsked, Ready, Asked, RollingBack
    <3>2. HistoryInv' /\ OldInv'
      BY <1>1, <1>5, <2>3 DEF IInv, HistoryInv, OldInv, Ready, Asked, RollingBack
    <3>3. RequestInv'
      BY <1>1, <1>2, <1>5, <2>3 DEF RequestInv, Wanted, AbortAsked, Asked, RollingBack
    <3>4. SeenInv' /\ DecideInv' /\ PassIsEarned'
      BY <2>3 DEF SeenInv, DecideInv, PassIsEarned
    <3> QED BY <1>1, <2>1, <3>1, <3>2, <3>3, <3>4, NotLate DEF IInv
  <2> QED BY <1>1, <1>5, <2>2, <2>3
<1> QED BY <1>4, <1>5 DEF AbortUpdate

\* The pools are updated, or not.
LEMMA PoolsStep ==
  ASSUME IInv, Pools
  PROVE  IInv'
<1>1. /\ pc = "pools" /\ ~Over /\ pc' \in {"passed", "failed"}
      /\ UNCHANGED <<cmd, settings, desired, old, updated, aborted, seen, tries, expired, rebooter, late, before, unlisted, cv, ops, foreign>>
  BY DEF Pools, test, request, wait, disrupt, aux, cluster, Over
<1>2. TypeInv'
  BY <1>1 DEF IInv, TypeInv, TypeOK
<1>3. CASE pc' = "failed"
  BY <1>1, <1>2, <1>3, StopStep
<1>4. CASE pc' = "passed"
  <2>1. ClusterInv' /\ CommandInv'
    BY <1>1, <1>4 DEF IInv, ClusterInv, CommandInv, AbortAsked, Ready, Asked, RollingBack
  <2>2. HistoryInv' /\ OldInv'
    BY <1>1, <1>4 DEF IInv, HistoryInv, OldInv, Ready, Asked, RollingBack
  <2>3. RequestInv'
    BY <1>1, <1>4 DEF IInv, RequestInv, Wanted, AbortAsked, Asked, RollingBack
  <2>4. SeenInv' /\ DecideInv'
    BY <1>4 DEF SeenInv, DecideInv
  <2>5. PassIsEarned'
    BY <1>1, <1>4 DEF IInv, PassIsEarned, AbortAsked
  <2> QED BY <1>1, <1>2, <2>1, <2>2, <2>3, <2>4, <2>5, NotLate DEF IInv
<1> QED BY <1>1, <1>3, <1>4

\* Time passes.
LEMMA ExpireStep ==
  ASSUME IInv, Expire \/ UNCHANGED vars
  PROVE  IInv'
<1>1. /\ expired' \in {TRUE, expired}
      /\ UNCHANGED <<pc, cmd, settings, desired, old, updated, aborted, seen, tries, rebooter, late, before, unlisted, cv, ops, foreign>>
  BY DEF Expire, vars, test, request, wait, disrupt, aux, cluster
<1>2. TypeInv'
  BY <1>1 DEF IInv, TypeInv, TypeOK
<1>3. ClusterInv' /\ CommandInv' /\ HistoryInv' /\ OldInv'
  BY <1>1 DEF IInv, ClusterInv, CommandInv, HistoryInv, OldInv, AbortAsked
<1>4. RequestInv' /\ SeenInv' /\ DecideInv'
  BY <1>1 DEF IInv, RequestInv, Wanted, SeenInv, DecideInv, Reached, AbortAsked
<1>5. PassIsEarned' /\ RebootInv'
  BY <1>1 DEF IInv, PassIsEarned, RebootInv, Over, AbortAsked
<1> QED BY <1>2, <1>3, <1>4, <1>5 DEF IInv

\* The goroutine of Disrupt wakes, reboots a master, or leaves.
LEMMA DisruptStep ==
  ASSUME IInv, Wake \/ Reboot
  PROVE  IInv'
<1>1. UNCHANGED <<pc, cmd, settings, desired, old, updated, aborted, seen, tries, expired, before, unlisted, cv, ops, foreign>>
  BY DEF Wake, Reboot, request, wait, aux, cluster
<1>2. MaxReboots \in Nat /\ late \in 0 .. MaxReboots
  BY UpgradeAssumption DEF IInv, TypeInv, TypeOK
<1>3. late' \in 0 .. MaxReboots /\ rebooter' \in {"off", "asleep", "awake"}
  BY <1>2 DEF Wake, Reboot
<1>4. TypeInv'
  BY <1>1, <1>3 DEF IInv, TypeInv, TypeOK
<1>5. RebootInv'
  <2>1. CASE Wake
    BY <1>1, <1>2, <2>1 DEF IInv, RebootInv, Wake, Over
  <2>2. CASE Reboot
    <3>1. late = 0
      BY <1>2, <2>2 DEF IInv, RebootInv, Reboot
    <3>2. late' \in {0, IF Over THEN 1 ELSE 0} /\ rebooter' = "asleep"
      BY <2>2, <3>1 DEF Reboot
    <3> QED BY <1>1, <3>2 DEF RebootInv, Over
  <2> QED BY <2>1, <2>2
<1>6. ClusterInv' /\ CommandInv' /\ HistoryInv' /\ OldInv'
  BY <1>1 DEF IInv, ClusterInv, CommandInv, HistoryInv, OldInv, AbortAsked
<1>7. RequestInv' /\ SeenInv' /\ DecideInv' /\ PassIsEarned'
  BY <1>1 DEF IInv, RequestInv, Wanted, SeenInv, DecideInv, PassIsEarned, Reached, AbortAsked
<1> QED BY <1>4, <1>5, <1>6, <1>7 DEF IInv

\* No step of the command, the test, the goroutine or the cluster breaks it.
LEMMA NextStep ==
  ASSUME IInv, [Next]_vars
  PROVE  IInv'
<1>1. CASE Step
  BY <1>1, RunUpgradeStep, RunTestStep, FatalStep, ContextStep, GetVersionStep, UpdateStep, PollFailsStep, AckStep,
     CheckStep, DecideStep, FinishStep, AbortGetStep, AbortUpdateStep, PoolsStep DEF Step
<1>2. CASE ForeignUpdate \/ Observe \/ (\E o \in Ops : Roll(o)) \/ Complete \/ Health
  BY <1>2, ForeignUpdateStep, ObserveStep, RollStep, CompleteStep
<1>3. CASE Expire \/ Wake \/ Reboot \/ UNCHANGED vars
  BY <1>3, ExpireStep, DisruptStep
<1> QED BY <1>1, <1>2, <1>3 DEF Next

\* The inductive invariant holds for any command line, cluster, operators and
\* interference.
THEOREM Invariance == Spec => []IInv
<1>1. Init => IInv
  <2> SUFFICES ASSUME Init PROVE IInv
    OBVIOUS
  <2>1. /\ cv \in ClusterVersion /\ cv.obs <= cv.gen
        /\ cv.desired = "cur" /\ cv.history # << >> /\ cv.history[1].image = "cur"
        /\ cv.spec = "none" => cv.obs = cv.gen /\ (cv.history[1].done \/ Len(cv.history) = 1)
        /\ cv.obs = cv.gen => cv.spec \in {"none", cv.desired}
    BY ClustersAssumption DEF Init
  <2>2. ops \in [Ops -> Images \cup {"none"}]
    BY DEF Init, Images
  <2>3. cv.gen \in Nat
    BY <2>1, VersionFields
  <2>4. TypeInv
    <3>1. cmd \in Commands /\ foreign \in 0 .. MaxForeign /\ late \in 0 .. MaxReboots /\ tries \in 0 .. Steps
      BY UpgradeAssumption DEF Init
    <3>2. \A c \in {cv, seen} : c \in ClusterVersion /\ c.obs <= c.gen
      BY <2>1 DEF Init
    <3>3. settings.abortAt = 0 /\ settings.image = "none" /\ DOMAIN settings = {"image", "abortAt", "reboot"}
      BY DEF Init
    <3>4. TypeOK
      BY <2>2, <2>3, <3>1, <3>2, <3>3 DEF Init, TypeOK
    <3>5. {aborted, expired, unlisted} \subseteq BOOLEAN
      BY DEF Init
    <3> QED BY <3>3, <3>4, <3>5 DEF Init, TypeInv
  <2>5. ClusterInv
    BY <2>1 DEF Init, ClusterInv
  <2>6. CommandInv
    BY DEF Init, CommandInv, Ready, Asked, RollingBack
  <2>7. HistoryInv /\ OldInv /\ RequestInv /\ SeenInv /\ DecideInv /\ PassIsEarned /\ RebootInv
    BY DEF Init, HistoryInv, OldInv, RequestInv, SeenInv, DecideInv, PassIsEarned, RebootInv, Ready, Asked, RollingBack
  <2> QED BY <2>4, <2>5, <2>6, <2>7 DEF IInv
<1>2. IInv /\ [Next]_vars => IInv'
  BY NextStep
<1> QED BY <1>1, <1>2, PTL DEF Spec

-----------------------------------------------------------------------------
(* What follows from it *)

\* The variables of Upgrade have their types in every behaviour.
THEOREM TypeCorrect == Spec => []TypeOK
<1>1. IInv => TypeOK
  BY DEF IInv, TypeInv
<1> QED BY <1>1, Invariance, PTL

\* A test that passes has done what the command line said, whatever others ask of
\* the cluster meanwhile.
THEOREM PassesAreEarned == Spec => []PassIsEarned
<1>1. IInv => PassIsEarned
  BY DEF IInv
<1> QED BY <1>1, Invariance, PTL

\* The goroutine of Disrupt reboots at most one master after the test.
THEOREM AtMostOneLateReboot == Spec => []OneLateReboot
<1>1. IInv => OneLateReboot
  BY DEF IInv, RebootInv, OneLateReboot
<1> QED BY <1>1, Invariance, PTL

\* A poll that finds the operator following somebody else's update fails the test:
\* the generation of the last write tells it apart from the test's own.
THEOREM ForeignUpdateStops == Spec => ForeignStops
<1>1. ASSUME IInv, [Next]_vars
      PROVE  [pc = "observe" /\ cv.obs = cv.gen /\ ~Wanted /\ pc' # pc => pc' = "failed"]_vars
  <2> SUFFICES ASSUME Next, pc = "observe", cv.obs = cv.gen, ~Wanted, pc' # pc
               PROVE  pc' = "failed"
    BY <1>1
  <2>1. ChangedByOthers
    <3>1. cv.gen # updated
      BY <1>1 DEF IInv, RequestInv, Asked
    <3>2. updated \in Nat /\ cv.gen \in Nat /\ updated <= cv.gen
      BY <1>1, Basics
    <3> QED BY <3>1, <3>2 DEF ChangedByOthers
  <2>2. CASE PollFails \/ Check
    BY <2>1, <2>2 DEF PollFails, Check, Again
  <2>3. ASSUME ~PollFails, ~Check PROVE FALSE
    BY <2>3 DEF Next, Step, RunUpgrade, RunTest, Fatal, Context, GetVersion, Update, Ack, Decide, Finish, AbortGet,
                AbortUpdate, Pools, Expire, Wake, Reboot, ForeignUpdate, Observe, Roll, Complete, Health
  <2> QED BY <2>2, <2>3
<1> QED BY <1>1, Invariance, PTL DEF Spec, ForeignStops
=============================================================================
