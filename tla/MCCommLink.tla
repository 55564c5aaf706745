------------------------------ MODULE MCCommLink ------------------------------
(* A small instance of CommLink for TLC. *)
EXTENDS CommLink, TLC

=============================================================================
