------------------------------ MODULE MCRxRun ------------------------------
(* RxRun with two destinations and frames of a few ticks.                  *)
EXTENDS RxRun, TLC

Setup(mode, pre, post) ==
  [blowOff |-> FALSE, pre |-> pre, post |-> post, period |-> 4, runMode |-> mode]

(* External triggers with a window of no more than a frame, ... *)
External11 == {Setup("EXTERNAL", 1, 1)}

(* ... with one that reaches further back than forward, or software *)
(* triggers with one that ends at the trigger.                      *)
External31Software20 == {Setup("EXTERNAL", 3, 1), Setup("SOFTWARE", 2, 0)}

(* What setConfig changes: the window, and the dumping of the data. *)
Reconfigs == {[blowOff |-> TRUE, pre |-> 2, post |-> 0, period |-> 3]}

AllModes == RunModes

(* The destinations are treated alike. *)
Symmetry == Permutations(Dests)
=============================================================================
