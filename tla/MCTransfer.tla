----------------------------- MODULE MCTransfer -----------------------------
(* Instances of Transfer for TLC. *)
EXTENDS TransferProperties

SomeSizes == {0, 5}
=============================================================================
