---------------------------- MODULE MCListSingle ----------------------------
(* ListSingle on a handful of nodes.                                       *)
EXTENDS ListSingle
=============================================================================
