--------------------------- MODULE MCClipPipeline ---------------------------
(* An instance of ClipPipeline for TLC: two workers, each on a host of its *)
(* own, and two clips.                                                     *)
EXTENDS ClipPipeline, TLC

CONSTANTS w1, w2, p1, p2, s1, s2

MCHostOf == [w \in Workers |-> w]

MCSymmetry ==
    Permutations({w1, w2}) \union Permutations({p1, p2}) \union Permutations({s1, s2})
=============================================================================
