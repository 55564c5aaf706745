------------------------------ MODULE MCDaqLife -------------------------------
(* A small instance of DaqLife for TLC. *)
EXTENDS DaqLife, TLC

=============================================================================
