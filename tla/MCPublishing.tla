---------------------------- MODULE MCPublishing ----------------------------
(***************************************************************************)
(* Instances of Publishing for TLC: two posts of one channel, their slots  *)
(* a tick apart, and one or two workers.                                   *)
(***************************************************************************)
EXTENDS Publishing

CONSTANTS s1, s2, early, late

MCSlot == [p \in Posts |-> IF p = early THEN 0 ELSE 1]
=============================================================================
