---------------------------- MODULE MCFairShare ----------------------------
(***************************************************************************)
(* FairShare for every demand of four channels up to MaxWant.              *)
(***************************************************************************)
EXTENDS FairShare

MCNames == 1..4
=============================================================================
