----------------------------- MODULE MCTransfer -----------------------------
(* Small instances of Transfer. *)
EXTENDS TransferInv, TLC

=============================================================================
