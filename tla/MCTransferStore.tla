-------------------------- MODULE MCTransferStore --------------------------
(* TransferStore for TLC. *)
EXTENDS TransferStore, TLC

Symmetry == Permutations(Requests) \cup Permutations(Transfers)
=============================================================================
