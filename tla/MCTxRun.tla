------------------------------ MODULE MCTxRun -------------------------------
(* Small instances of TxRun for TLC. *)
EXTENDS TxRun, TLC

RssiOnly == {<<FALSE, TRUE>>}
TcpOnly == {<<FALSE, FALSE>>}
AllConfigs == BOOLEAN \X BOOLEAN

Symmetry == Permutations(Buffers)
=============================================================================
