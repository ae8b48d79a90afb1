-------------------------------- MODULE STO --------------------------------
(***************************************************************************)
(* STO_GetReceivers (sto.cpp): how an amount is split between the owners   *)
(* of a property.  The owners are served from the largest to the smallest, *)
(* each share is rounded up, and the last one served gets what is left.    *)
(***************************************************************************)
EXTENDS Tally

(* Owners of equal amounts are ordered by address; addresses are numbered  *)
(* in the order of their strings.                                          *)
ASSUME STOAssumption == IsFiniteSet(Addr) /\ Addr \subseteq Nat

(* What counts as owned: available, offered on either exchange, accepted. *)
OwnedTypes ==
    TallyType \cap {"BALANCE", "SELLOFFER_RESERVE", "ACCEPT_RESERVE", "METADEX_RESERVE"}

Owned(t, a, p) == SumOf([tt \in OwnedTypes |-> t[a][p][tt]])

(* Mutant: shares are rounded down. *)
DivideAndRoundUp_Down(n, d) == n \div d

DivideAndRoundUp(n, d) == IF n = 0 THEN 0 ELSE 1 + (n - 1) \div d

Lesser(m, n) == IF m <= n THEN m ELSE n

(* Mutant: the smallest owners are served first. *)
Precedes_Reversed(t, p, a, b) ==
    \/ Owned(t, a, p) < Owned(t, b, p)
    \/ Owned(t, a, p) = Owned(t, b, p) /\ a < b

(* The order in which owners are served. *)
Precedes(t, p, a, b) ==
    \/ Owned(t, a, p) > Owned(t, b, p)
    \/ Owned(t, a, p) = Owned(t, b, p) /\ a < b

OwnersBut(t, sender, p) == {a \in Addr \ {sender} : Owned(t, a, p) > 0}

TotalBut(t, sender, p) == SumOf([a \in OwnersBut(t, sender, p) |-> Owned(t, a, p)])

should_receive(t, sender, p, amount, a) ==
    DivideAndRoundUp(Owned(t, a, p) * amount, TotalBut(t, sender, p))

(* sent_so_far when the owners S have been served: no more than available  *)
(* is distributed.                                                         *)
sent_so_far(t, sender, p, amount, S) ==
    Lesser(amount, SumOf([a \in S |-> should_receive(t, sender, p, amount, a)]))

(* What the owner a adds to it after those that are served before.         *)
will_really_receive(t, sender, p, amount, a) ==
    LET before == {b \in OwnersBut(t, sender, p) : Precedes(t, p, b, a)}
    IN  sent_so_far(t, sender, p, amount, before \cup {a})
          - sent_so_far(t, sender, p, amount, before)

(* Who gets how much of the amount when it is sent to the owners of p. *)
STO_GetReceivers(t, sender, p, amount) ==
    [a \in {b \in OwnersBut(t, sender, p) : will_really_receive(t, sender, p, amount, b) > 0} |->
        will_really_receive(t, sender, p, amount, a)]
=============================================================================
