----------------------------- MODULE MC_MetaDEx -----------------------------
(* Instances of MetaDEx for TLC. *)
EXTENDS MetaDEx, TLC

CONSTANTS alice, bob

(* Every trader owns Each of every property. *)
CONSTANT Each
Everyone == [a \in Addr |-> [p \in Prop |-> Each]]

TwoWay == {<<1, 3>>, <<3, 1>>}
AllPairs == {<<3, 4>>, <<4, 3>>, <<12, 13>>}
Symmetry == Permutations(Traders)
=============================================================================
