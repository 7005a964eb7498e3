---------------------------- MODULE MCTestQueue ----------------------------
(***************************************************************************)
(* Instances of TestQueue for TLC: x1 and x2 come from one disruptive file *)
(* (the same testExclusion), p1 has no exclusion, s1 and s2 are [Serial].  *)
(***************************************************************************)
EXTENDS TestQueue

CONSTANTS x1, x2, p1, s1, s2, fileX

MCExclusion == [e \in Entries |-> IF e \in {x1, x2} THEN fileX ELSE NoExclusion]
=============================================================================
