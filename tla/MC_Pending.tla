----------------------------- MODULE MC_Pending -----------------------------
EXTENDS Pending

(* Transactions of 1, 2 and 3 tokens. *)
Sizes == [tx \in Tx |-> tx]
============================================================================
