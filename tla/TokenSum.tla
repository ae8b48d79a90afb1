------------------------------ MODULE TokenSum ------------------------------
(***************************************************************************)
(* Adding up what the addresses of a ledger hold.  A holding of n units is *)
(* the set of its n units, and the sum of all holdings is the number of    *)
(* units there are.  Written this way the sum is a cardinality, so that    *)
(* facts about it follow from facts about finite sets.                     *)
(***************************************************************************)
EXTENDS Integers, FiniteSets

(* The units held under the key x of the holdings f \in [S -> Nat]. *)
UnitsOf(f, x) == {x} \X (1 .. f[x])

(* The sum of the values of f \in [S -> Nat], for a finite set S. *)
SumOf(f) == Cardinality(UNION {UnitsOf(f, x) : x \in DOMAIN f})
=============================================================================
