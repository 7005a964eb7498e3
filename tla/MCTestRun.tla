----------------------------- MODULE MCTestRun -----------------------------
(***************************************************************************)
(* Instances of TestRun for TLC: two executions, of two test objects.      *)
(***************************************************************************)
EXTENDS TestRun, TLC

CONSTANTS x1, x2, t1, t2

MCTestOf == x1 :> t1 @@ x2 :> t2
=============================================================================
