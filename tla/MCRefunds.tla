------------------------------ MODULE MCRefunds ------------------------------
(* An instance of Refunds for TLC. *)
EXTENDS Refunds, TLC
=============================================================================
