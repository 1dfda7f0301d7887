------------------------------ MODULE MCIntake ------------------------------
(***************************************************************************)
(* Instances of Intake: two channels want one reference, and a second one  *)
(* is submitted for no channel.                                            *)
(***************************************************************************)
EXTENDS Intake

CONSTANTS c1, c2, r1, r2, w1, w2

MCSubmissions == {<<c1, r1>>, <<c2, r1>>, <<NoChannel, r2>>}
=============================================================================
