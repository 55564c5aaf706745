------------------------------ MODULE MCDmaDriver -----------------------------
(* A small instance of DmaDriver for TLC. *)
EXTENDS DmaDriver, TLC

===============================================================================
