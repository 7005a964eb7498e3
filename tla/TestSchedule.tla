---------------------------- MODULE TestSchedule ----------------------------
(***************************************************************************)
(* What the test queue of pkg/test/ginkgo/queue.go promises to its caller, *)
(* without workers, rings, locks or condition variables: the comment on    *)
(* parallelByFileTestQueue (queue.go:10-13) as a state machine over the    *)
(* entries handed to newParallelTestQueue.                                 *)
(***************************************************************************)
CONSTANTS Entries,      \* the tests to run, one element per slot of the list
          Serial,       \* those whose name contains "[Serial]"
          Exclusion,    \* the testExclusion of each entry
          NoExclusion   \* the empty testExclusion

VARIABLES status,       \* pending, running or finished, for each entry
          interrupted,  \* the context handed to Execute is done
          returned      \* Execute has returned

vars == <<status, interrupted, returned>>

Running == {e \in Entries : status[e] = "running"}

Init == /\ status = [e \in Entries |-> "pending"]
        /\ interrupted = FALSE
        /\ returned = FALSE

\* Two entries may not run together: same exclusion, or one of them serial.
Conflict(e, f) == \/ Exclusion[e] = Exclusion[f] /\ Exclusion[e] # NoExclusion
                  \/ e \in Serial
                  \/ f \in Serial

Start(e) == /\ ~returned
            /\ status[e] = "pending"
            /\ \A f \in Running : ~Conflict(e, f)
            /\ e \in Serial => \A f \in Entries \ Serial : status[f] = "finished"
            /\ status' = [status EXCEPT ![e] = "running"]
            /\ UNCHANGED <<interrupted, returned>>

Finish(e) == /\ status[e] = "running"
             /\ status' = [status EXCEPT ![e] = "finished"]
             /\ UNCHANGED <<interrupted, returned>>

Interrupt == /\ interrupted' = TRUE
             /\ UNCHANGED <<status, returned>>

\* Execute may return when nothing runs any more, with every entry finished
\* unless it was interrupted.
MayReturn == /\ Running = {}
             /\ interrupted \/ \A e \in Entries : status[e] = "finished"

Return == /\ MayReturn
          /\ returned' = TRUE
          /\ UNCHANGED <<status, interrupted>>

Next == \/ \E e \in Entries : Start(e) \/ Finish(e)
        \/ Interrupt
        \/ Return

Spec == Init /\ [][Next]_vars
=============================================================================
