---------------------------- MODULE Distribution ----------------------------
(***************************************************************************)
(* The split of an amount between owners (module STO) on its own, for      *)
(* every small ledger and amount.                                          *)
(***************************************************************************)
EXTENDS STO

CONSTANTS
    Property,   \* the property whose owners are looked for
    Holdings,   \* what an address may own of each kind
    MaxAmount   \* bound on the amount sent

VARIABLES
    sender,     \* who sends
    amount,     \* how much, to the owners of Property
    receivers,  \* who gets what
    settled     \* whether that has been worked out

ASSUME DistributionAssumption ==
    /\ Holdings \subseteq Nat /\ MaxAmount \in Nat
    /\ Property \in Prop

dvars == <<tally, setFrozenAddresses, halted, sender, amount, receivers, settled>>

DInit ==
    /\ tally \in [Addr -> [Prop -> [TallyType -> Holdings]]]
    /\ setFrozenAddresses = {}
    /\ halted = "no"
    /\ sender \in Addr
    /\ amount \in 1 .. MaxAmount
    /\ receivers = << >>
    /\ settled = FALSE

Distribute ==
    /\ ~settled
    /\ settled' = TRUE
    /\ receivers' = STO_GetReceivers(tally, sender, Property, amount)
    /\ UNCHANGED <<tally, setFrozenAddresses, halted, sender, amount>>

DSpec == DInit /\ [][Distribute]_dvars
-----------------------------------------------------------------------------
Owns(a) == Owned(tally, a, Property)

(* "sent_so_far must equal nValue here" (SendToOwners): as soon as the     *)
(* sender is not the only owner, the shares add up to the amount, rounding *)
(* included, and the sender gets none of them.                             *)
WholeAmountSent ==
    settled =>
        /\ sender \notin DOMAIN receivers
        /\ SumOf(receivers) = IF \A a \in Addr \ {sender} : Owns(a) = 0 THEN 0 ELSE amount

(* Nobody receives more than their share of the amount, rounded up, and    *)
(* whoever owns more never receives less.                                  *)
SharesInOrder ==
    settled =>
        LET others == Addr \ {sender}
            total == SumOf([a \in others |-> Owns(a)])
            got == [a \in others |-> IF a \in DOMAIN receivers THEN receivers[a] ELSE 0]
        IN  /\ \A a \in others : got[a] = 0 \/ (got[a] - 1) * total < Owns(a) * amount
            /\ \A a, b \in others : Owns(a) > Owns(b) => got[a] >= got[b]
=============================================================================
