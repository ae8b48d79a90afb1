----------------------------- MODULE MC_Tokens -----------------------------
EXTENDS Tokens

(* Nothing of the managed property 3; address 1 starts with TL, address 2 *)
(* with TTL. *)
SmallEndowment == [p \in Prop |-> [a \in Addr |->
    CASE a = 1 /\ p = 1 -> 1 [] a = 2 /\ p = 2 -> 1 [] OTHER -> 0]]
============================================================================
