---------------------------- MODULE MCAccounting ----------------------------
(* Instances of Accounting for TLC. *)
EXTENDS Accounting, TLC
=============================================================================
