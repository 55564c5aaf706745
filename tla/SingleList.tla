----------------------------- MODULE SingleList -----------------------------
(***************************************************************************)
(* What the operations of List-Single.hh do to a list, as seen from the    *)
(* list: the nodes a scan of the forward links meets, and whether the      *)
(* backward link of the head is loose, that is, still points at the head   *)
(* although the list holds nodes.  insert_head leaves it so when the list  *)
(* was empty; the next insert_tail then starts the list afresh.            *)
(* ListSingle shows that the pointers behave this way.                     *)
(***************************************************************************)
LOCAL INSTANCE Naturals
LOCAL INSTANCE Sequences

EmptyList == [nodes |-> << >>, loose |-> FALSE]

InsertTail(l, n) ==
  [nodes |-> Append(IF l.loose THEN << >> ELSE l.nodes, n), loose |-> FALSE]

InsertHead(l, n) ==
  [nodes |-> <<n>> \o l.nodes, loose |-> l.loose \/ l.nodes = << >>]

(* The list that remove_head leaves when there is a node to remove. *)
RemoveHead(l) ==
  [nodes |-> Tail(l.nodes), loose |-> l.loose /\ Len(l.nodes) > 1]
=============================================================================
