------------------------------- MODULE Common -------------------------------
(***************************************************************************)
(* What the components share: the identifiers of the two base properties,  *)
(* and maps as the code uses std::map and the databases.                   *)
(***************************************************************************)
TL_PROPERTY_MSC == 1
TL_PROPERTY_TMSC == 2

(* The map m with v under the key k, and the map m without the keys K. *)
Put(m, k, v) == [x \in DOMAIN m \cup {k} |-> IF x = k THEN v ELSE m[x]]
Erase(m, K) == [x \in DOMAIN m \ K |-> m[x]]
=============================================================================
