------------------------------ MODULE MCUpload ------------------------------
(* Every file of up to thirteen units, on every platform. *)
EXTENDS Upload

MCSizes == 1..13
=============================================================================
