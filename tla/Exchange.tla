------------------------------ MODULE Exchange ------------------------------
(***************************************************************************)
(* What a token exchange promises: what an address owns changes only when  *)
(* it is swapped, in one step, for what somebody else owns.  Placing,      *)
(* resting and cancelling an order leave every holding as it is.           *)
(***************************************************************************)
EXTENDS Integers

CONSTANTS Holder, Token, Start
VARIABLE holdings

Init == holdings = Start

(* n units of q go from `seller` to `buyer` and pay units of p back.  An   *)
(* address may trade with itself.                                          *)
Swap(buyer, seller, p, q, n, pay) ==
    /\ n <= holdings[seller][q] /\ pay <= holdings[buyer][p]
    /\ holdings' = [a \in Holder |-> [r \in Token |->
           holdings[a][r]
             + (IF a = buyer /\ r = q THEN n ELSE 0)
             - (IF a = seller /\ r = q THEN n ELSE 0)
             + (IF a = seller /\ r = p THEN pay ELSE 0)
             - (IF a = buyer /\ r = p THEN pay ELSE 0)]]

Next ==
    \E buyer, seller \in Holder, p, q \in Token :
        /\ p # q
        /\ \E n \in 1 .. holdings[seller][q], pay \in 1 .. holdings[buyer][p] :
               Swap(buyer, seller, p, q, n, pay)

Spec == Init /\ [][Next]_holdings
=============================================================================
