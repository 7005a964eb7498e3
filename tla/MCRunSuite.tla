----------------------------- MODULE MCRunSuite -----------------------------
(***************************************************************************)
(* Instances of RunSuite for TLC: a smoke test, a serial test and two      *)
(* ordinary ones, x1 with an exclusion of its own.                         *)
(***************************************************************************)
EXTENDS RunSuite

CONSTANTS smoke1, serial1, x1, x2, fileX

MCExclusion == [t \in Tests |-> IF t = x1 THEN fileX ELSE NoExclusion]
=============================================================================
