---------------------------- MODULE MCTxManager ----------------------------
(* Instances of TxManager for TLC. *)
EXTENDS TxManager

CONSTANTS v1, rival
=============================================================================
