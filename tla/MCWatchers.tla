----------------------------- MODULE MCWatchers -----------------------------
(***************************************************************************)
(* Instances of Watchers for TLC: where objects are selected, one that is  *)
(* not and, after it in the order of a list, one that is; one object where *)
(* they are all alike.                                                     *)
(***************************************************************************)
EXTENDS Watchers

MCOrder == [k \in AllKinds |-> IF k \in {"pod", "event"} THEN <<"a", "b">> ELSE <<"b">>]
=============================================================================
