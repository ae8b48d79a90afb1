--------------------------- MODULE MC_SPRollback ---------------------------
EXTENDS SPRollback, TLC

(* Blocks, transactions and contents only differ from one another. *)
Symmetry == Permutations(Hash) \cup Permutations(TxId) \cup Permutations(Info)
============================================================================
