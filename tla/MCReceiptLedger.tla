-------------------------- MODULE MCReceiptLedger --------------------------
(* Instances of ReceiptLedger for TLC. *)
EXTENDS ReceiptLedger, TLC

SymmetricProcs == Permutations(Procs)
============================================================================
