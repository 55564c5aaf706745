----------------------------- MODULE ListSingle -----------------------------
(***************************************************************************)
(* protoDUNE/List-Single.hh, pointer by pointer: the singly linked list    *)
(* with a backward link in its head on which the DAQ keeps the received    *)
(* frames (the latency lists and the lists of an event).  The forward link *)
(* of the last node points at the head.  The comments of the file promise  *)
(* a FIFO to the user of insert_tail and remove_head, a LIFO to the user   *)
(* of insert_head and remove_head; the latency list uses all three.        *)
(***************************************************************************)
EXTENDS Naturals, Sequences, FiniteSets

CONSTANTS
  Nodes,      (* the nodes                                                 *)
  Head0       (* the list itself, seen as a node                           *)

ASSUME HeadAssumption == Head0 \notin Nodes

ASSUME NodesAssumption == IsFiniteSet(Nodes)

VARIABLES
  flnk,       (* m_flnk of the list and of every node                      *)
  blnk,       (* m_blnk of the list                                        *)
  out,        (* the nodes in the hands of the user                        *)
  expect,     (* the nodes on the list in order, by what its user did      *)
  used        (* the ways in which its user has inserted nodes             *)

lvars == <<flnk, blnk, out, expect, used>>

Links == Nodes \union {Head0}

Init ==
  /\ flnk = [x \in Links |-> Head0]
  /\ blnk = Head0
  /\ out = Nodes
  /\ expect = << >>
  /\ used = {}

insert_tail(n) ==
  /\ n \in out
  /\ blnk' = n
  /\ flnk' = [flnk EXCEPT ![n] = Head0, ![blnk] = n]
  /\ out' = out \ {n}
  /\ expect' = Append(expect, n)
  /\ used' = used \union {"tail"}

(* Mutant: the node is linked as the first one always. *)
insert_head_lost(n) ==
  /\ n \in out
  /\ flnk' = [flnk EXCEPT ![n] = Head0, ![Head0] = n]
  /\ out' = out \ {n}
  /\ expect' = <<n>> \o expect
  /\ used' = used \union {"head"}
  /\ UNCHANGED blnk

insert_head(n) ==
  /\ n \in out
  /\ flnk' = [flnk EXCEPT ![n] = flnk[Head0], ![Head0] = n]
  /\ out' = out \ {n}
  /\ expect' = <<n>> \o expect
  /\ used' = used \union {"head"}
  /\ UNCHANGED blnk

(* Mutant: the backward link is left on the node that was removed. *)
remove_head_dangling ==
  /\ flnk[Head0] # Head0
  /\ flnk' = [flnk EXCEPT ![Head0] = flnk[flnk[Head0]]]
  /\ out' = out \union {flnk[Head0]}
  /\ expect' = IF expect = << >> THEN expect ELSE Tail(expect)
  /\ UNCHANGED <<blnk, used>>

(* remove_head of a list that holds a node; on an empty list it returns    *)
(* NULL and changes nothing.                                               *)
remove_head ==
  /\ flnk[Head0] # Head0
  /\ flnk' = [flnk EXCEPT ![Head0] = flnk[flnk[Head0]]]
  /\ blnk' = IF flnk[flnk[Head0]] = Head0 THEN Head0 ELSE blnk
  /\ out' = out \union {flnk[Head0]}
  /\ expect' = IF expect = << >> THEN expect ELSE Tail(expect)
  /\ UNCHANGED used

Next ==
  \/ \E n \in Nodes : insert_tail(n) \/ insert_head(n)
  \/ remove_head

Spec == Init /\ [][Next]_lvars

-----------------------------------------------------------------------------
(* Properties                                                              *)

TypeOK ==
  /\ flnk \in [Links -> Links]
  /\ blnk \in Links
  /\ out \subseteq Nodes
  /\ expect \in Seq(Nodes)
  /\ used \subseteq {"tail", "head"}

(* reach[k]: where a scan that starts at the head is after k steps. *)
reach[k \in 0 .. Cardinality(Nodes) + 1] ==
  IF k = 0 THEN Head0 ELSE flnk[reach[k - 1]]

(* How many nodes a scan meets before it is back at the head. *)
Length ==
  CHOOSE k \in 0 .. Cardinality(Nodes) :
    reach[k + 1] = Head0 /\ \A j \in 1 .. k : reach[j] # Head0

Scan == [k \in 1 .. Length |-> reach[k]]

(* As long as all nodes are added with insert_tail, or all of them with    *)
(* insert_head, the list holds the nodes its user put there and has not    *)
(* removed, in the order the comments of these functions promise.          *)
HoldsWhatWasPut == used # {"tail", "head"} => Scan = expect

(* The list as SingleList sees it. *)
AsList == [nodes |-> Scan, loose |-> blnk = Head0 /\ Length > 0]

Lists == INSTANCE SingleList

(* Whatever order the three operations come in, each does to the chain of  *)
(* pointers what SingleList, on which the event builder rests, says it     *)
(* does: it keeps the nodes, or loses them, in exactly those cases.        *)
BehavesAsSingleList ==
  [][ \/ \E n \in out \ out' : AsList' = Lists!InsertTail(AsList, n)
      \/ \E n \in out \ out' : AsList' = Lists!InsertHead(AsList, n)
      \/ /\ AsList.nodes # << >>
         /\ out' \ out = {Head(AsList.nodes)}
         /\ AsList' = Lists!RemoveHead(AsList) ]_lvars
=============================================================================
