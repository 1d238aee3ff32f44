----------------------------- MODULE MCTransfers -----------------------------
(* Instance of Transfers for TLC.                                          *)
EXTENDS Transfers
=============================================================================
