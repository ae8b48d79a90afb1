------------------------------ MODULE MC_Fees ------------------------------
(* Instances of Fees for TLC. *)
EXTENDS Fees

(* TL is spread unevenly. *)
Uneven == [a \in Addr |-> [p \in Prop |-> IF p = 1 THEN a ELSE 2]]
============================================================================
