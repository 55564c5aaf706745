-------------------------- MODULE MCRxRunTriggers ---------------------------
(* RxRun under the conditions of the theorems about complete events.       *)
EXTENDS MCRxRun

(* The constants of this run are an instance of those theorems.            *)
ASSUME SteadyAssumption == Steady
=============================================================================
