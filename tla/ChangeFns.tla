------------------------------ MODULE ChangeFns ------------------------------
(***************************************************************************)
(* What the informers' handlers make of two versions of an object          *)
(* (pkg/monitor/pod.go, node.go, operator.go): the change functions, which *)
(* return the conditions to record, and the samplers, which look at one.   *)
(*                                                                         *)
(* The conditions one function returns for one pair are a set.  A locator  *)
(* is <<name, uid>>, with the container for one of a pod; the code prints  *)
(* no uid, which is kept to tell incarnations apart.  A message is a tuple *)
(* of the words that distinguish it.  "none" stands for the empty string of*)
(* a phase or reason that is not there.                                    *)
(***************************************************************************)
EXTENDS Naturals, Sequences, SequencesExt, Filters

Cond(level, locator, message) == [level |-> level, locator |-> locator, message |-> message]

locatePodContainer(pod, container) == Append(pod.id, container)

\* The position of the first status with this name, 0 if there is none.
FirstNamed(status, name) == SelectInSeq(status, LAMBDA s : s.name = name)

\* Seeded fault: trusts the position.
FindByPosition(status, name, position) == IF position \in DOMAIN status THEN position ELSE 0

\* findContainerStatus and findNodeCondition: the position first, then a search.
findStatus(status, name, position) ==
  IF position \in DOMAIN status /\ status[position].name = name THEN position
  ELSE FirstNamed(status, name)

-----------------------------------------------------------------------------
(* Pods: [id, phase, deleting, mirror, reason, grace, conts, inits], a container
   [name, exit, restarts, ready] with exit "up" while it is not terminated. *)

Crashed(containers) == SelectSeq(containers, LAMBDA s : s.exit \notin {"up", "0"})

\* Seeded fault: a change of phase in the other direction alarms too.
PhaseChangeBothWays(pod, old) ==
  IF pod.phase # old.phase /\ "Pending" \in {pod.phase, old.phase}
  THEN {Cond("Error", pod.id, <<"may not transition">>)} ELSE {}

\* The first change function; the two messages about exited containers are
\* swapped in the code.
PhaseChange(pod, old) ==
  IF pod.phase = old.phase \/ old.phase = "none" THEN {}
  ELSE CASE pod.phase = "Pending" /\ old.phase # "Unknown" ->
              {CASE pod.deleting -> Cond("Warning", pod.id, <<"should not transition", "terminated">>)
                 [] ~pod.deleting /\ pod.mirror -> Cond("Warning", pod.id, <<"should not transition", "static">>)
                 [] OTHER -> Cond("Error", pod.id, <<"may not transition">>)}
         [] pod.phase = "Unknown" -> {Cond("Warning", pod.id, <<"moved to Unknown">>)}
         [] pod.phase = "Failed" ->
              {Cond("Error", pod.id, <<IF pod.reason \in {"Evicted", "Preempting"} THEN pod.reason ELSE "failed">>)}
                \cup {Cond("Error", locatePodContainer(pod, s.name), <<"container exited", s.exit>>) :
                        s \in ToSet(Crashed(pod.inits))}
                \cup {Cond("Error", locatePodContainer(pod, s.name), <<"init container exited", s.exit>>) :
                        s \in ToSet(Crashed(pod.conts))}
         [] OTHER -> {}

\* The second: graceful deletion begins, or is taken back.
DeletionChange(pod, old) ==
  CASE pod.grace /\ ~old.grace -> {Cond("Warning", pod.id, <<"graceful deletion">>)}
    [] ~pod.grace /\ old.grace -> {Cond("Error", pod.id, <<"grace period cleared">>)}
    [] OTHER -> {}

\* One status of a container and the previous one of the same name.
StatusChange(locator, s, previous, init) ==
  {c \in {Cond("Error", locator, <<IF init THEN "init container exited" ELSE "container exited", s.exit>>),
          Cond("Warning", locator, <<IF init THEN "init container restarted" ELSE "container restarted">>),
          Cond("Warning", locator, <<"container stopped being ready">>)} :
     CASE c.level = "Error" -> s.exit \notin {"up", "0"} /\ previous.exit = "up"
       [] c.message = <<"container stopped being ready">> ->
            ~init /\ s.exit = "up" /\ previous.ready /\ ~s.ready
       [] OTHER -> s.restarts # previous.restarts}

\* A status without a previous one of its name is passed over.
StatusChanges(pod, new, old, init) ==
  UNION {StatusChange(locatePodContainer(pod, new[i].name), new[i],
                      old[findStatus(old, new[i].name, i)], init) :
           i \in {k \in DOMAIN new : findStatus(old, new[k].name, k) # 0}}

\* The third: exits, restarts and lost readiness.
ContainerChange(pod, old) == StatusChanges(pod, pod.conts, old.conts, FALSE)
                               \cup StatusChanges(pod, pod.inits, old.inits, TRUE)

podChangeFns(pod, old) == <<PhaseChange(pod, old), DeletionChange(pod, old), ContainerChange(pod, old)>>

\* The sampler: pending for longer than a minute.
SamplePod(pod, aged) == IF pod.phase = "Pending" /\ aged
                        THEN {Cond("Warning", pod.id, <<"pending longer than a minute">>)} ELSE {}

\* The in-place filter of the list: an item is only kept when its position (from
\* 0 in the code) differs from the number of items kept so far.
ListFilter(items, system) ==
  LET kept[i \in 0 .. Len(items)] ==
        IF i = 0 THEN << >>
        ELSE IF items[i] \in system /\ i - 1 # Len(kept[i - 1]) THEN Append(kept[i - 1], items[i])
        ELSE kept[i - 1]
  IN  kept[Len(items)]

-----------------------------------------------------------------------------
(* Nodes: [id, conds], a condition [name, status]. *)

nodeChangeFns(node, old) ==
  LET changed == {i \in DOMAIN node.conds :
                    LET p == findStatus(old.conds, node.conds[i].name, i)
                    IN  p # 0 /\ node.conds[i].status # old.conds[p].status}
  IN  <<{Cond("Warning", node.id, <<"condition changed", node.conds[i].name>>) : i \in changed}
          \cup (IF node.id # old.id THEN {Cond("Error", node.id, <<"deleted and recreated">>)} ELSE {})>>

\* The sampler: a node without the condition Ready is not ready.
SampleNode(node) ==
  LET p == findStatus(node.conds, "Ready", 1)
  IN  IF p # 0 /\ node.conds[p].status = "True" THEN {}
      ELSE {Cond("Warning", node.id, <<"not ready">>)}

-----------------------------------------------------------------------------
(* Cluster operators: [id, conds, versions], a version [name, version]; the
   cluster version: [id, conds, history], an entry [state, image, version]. *)

\* Conditions of an operator or of the cluster version.
ConditionChange(obj, old) ==
  LET changed == {i \in DOMAIN obj.conds :
                    LET p == FirstNamed(old.conds, obj.conds[i].name)
                    IN  p # 0 /\ obj.conds[i].status # old.conds[p].status}
      Level(c) == IF c.name \in {"Degraded", "Failing"} /\ c.status = "True" THEN "Error" ELSE "Warning"
  IN  {Cond(Level(obj.conds[i]), obj.id, <<"changed", obj.conds[i].name, obj.conds[i].status>>) : i \in changed}

\* The search of findOperatorVersionChange for the i-th new version: it starts at
\* position i of the old ones and wraps around.
RotatedSearch(old, name, i) ==
  LET At(j) == ((j + i - 1) % Len(old)) + 1
      hits == {j \in 0 .. Len(old) - 1 : old[At(j)].name = name}
  IN  IF hits = {} THEN 0 ELSE At(Min(hits))

findOperatorVersionChange(old, new) ==
  LET From(i) == old[RotatedSearch(old, new[i].name, i)].version
      out[i \in 0 .. Len(new)] ==
        IF i = 0 THEN << >>
        ELSE IF RotatedSearch(old, new[i].name, i) # 0 /\ From(i) # new[i].version
        THEN Append(out[i - 1], <<new[i].name, From(i), new[i].version>>)
        ELSE out[i - 1]
  IN  out[Len(new)]

coChangeFns(co, old) ==
  LET versions == findOperatorVersionChange(old.versions, co.versions)
  IN  <<ConditionChange(co, old)
          \cup (IF versions # << >> THEN {Cond("Info", co.id, <<"versions", versions>>)} ELSE {})>>

\* The latest entry of the update history.
HistoryChange(cv, old) ==
  IF cv.history = << >> THEN {}
  ELSE IF old.history = << >> THEN {Cond("Warning", cv.id, <<"converging", cv.history[1].version>>)}
  ELSE LET new == cv.history[1]
           was == old.history[1]
       IN  CASE new.state = "Completed" /\ was.state # new.state ->
                  {Cond("Warning", cv.id, <<"reached", new.version>>)}
             [] new.state = "Partial" /\ was.state = "Partial" /\ was.image # new.image ->
                  {Cond("Warning", cv.id, <<"upgrading without completing", new.version, was.version>>)}
             [] OTHER -> {}

cvChangeFns(cv, old) == <<HistoryChange(cv, old), ConditionChange(cv, old)>>

\* The sampler: the latest update is not completed.
SampleVersion(cv) == IF cv.history # << >> /\ cv.history[1].state # "Completed"
                     THEN {Cond("Warning", cv.id, <<"updating", cv.history[1].version>>)} ELSE {}
=============================================================================
