-------------------------- MODULE MCChannelFactory --------------------------
(***************************************************************************)
(* Instances of ChannelFactory: two channels that want more than there is. *)
(***************************************************************************)
EXTENDS ChannelFactory, TLC

CONSTANTS c1, c2, w1

MCWants == c1 :> 2 @@ c2 :> 1
=============================================================================
