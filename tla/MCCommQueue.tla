---------------------------- MODULE MCCommQueue ----------------------------
(* CommQueue on a ring that holds three pointers, with one producer and two consumers.*)
EXTENDS CommQueue
=============================================================================
