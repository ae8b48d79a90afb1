------------------------------- MODULE MC_DEx -------------------------------
(***************************************************************************)
(* Instances of the traditional exchange for TLC.                          *)
(***************************************************************************)
EXTENDS DEx, TLC

CONSTANTS s1, b1, b2, h1, h2, h3

(* One seller with three units of each property. *)
OneSeller == [a \in Addr |-> [p \in Prop |-> IF a = s1 THEN 3 ELSE 0]]

(* The buyers are interchangeable, and so are the hashes. *)
Symmetry == Permutations({b1, b2}) \cup Permutations(Txid)
=============================================================================
