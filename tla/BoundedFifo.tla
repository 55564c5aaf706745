---------------------------- MODULE BoundedFifo ----------------------------
(***************************************************************************)
(* What the threads of the RCE server rely on when they hand a pointer to  *)
(* one another through a CommQueue: a first-in first-out queue that holds  *)
(* at most Capacity pointers.  A push that finds the queue full is refused *)
(* and a pop that finds it empty returns NULL; nothing else ever fails.    *)
(***************************************************************************)
EXTENDS Naturals, Sequences

CONSTANTS
  Values,     (* the pointers that are queued                              *)
  NULL,       (* the null pointer                                          *)
  Capacity,   (* how many pointers the queue holds                         *)
  Producers,  (* threads that push                                         *)
  Consumers   (* threads that pop                                          *)

VARIABLES
  q,          (* the queued pointers, oldest first                         *)
  pushed,     (* what the last push of each producer returned              *)
  popped      (* what the last pop of each consumer returned               *)

fvars == <<q, pushed, popped>>

Init ==
  /\ q = << >>
  /\ pushed = [p \in Producers |-> TRUE]
  /\ popped = [c \in Consumers |-> NULL]

Put(p, v) ==
  /\ Len(q) < Capacity
  /\ q' = Append(q, v)
  /\ pushed' = [pushed EXCEPT ![p] = TRUE]
  /\ UNCHANGED popped

Refuse(p) ==
  /\ Len(q) = Capacity
  /\ pushed' = [pushed EXCEPT ![p] = FALSE]
  /\ UNCHANGED <<q, popped>>

Take(c) ==
  /\ q # << >>
  /\ q' = Tail(q)
  /\ popped' = [popped EXCEPT ![c] = Head(q)]
  /\ UNCHANGED pushed

Miss(c) ==
  /\ q = << >>
  /\ popped' = [popped EXCEPT ![c] = NULL]
  /\ UNCHANGED <<q, pushed>>

Next ==
  \/ \E p \in Producers : Refuse(p) \/ \E v \in Values : Put(p, v)
  \/ \E c \in Consumers : Take(c) \/ Miss(c)

Spec == Init /\ [][Next]_fvars
=============================================================================
