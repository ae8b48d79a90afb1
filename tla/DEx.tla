--------------------------------- MODULE DEx ---------------------------------
(***************************************************************************)
(* The traditional distributed exchange (dex.cpp and the handlers of       *)
(* transactions 20, 22 and 117 in tx.cpp): a seller reserves tokens in an  *)
(* offer, a buyer accepts a part of it and then has a window of blocks to  *)
(* pay in coins of the base chain.                                         *)
(***************************************************************************)
EXTENDS Tally

CONSTANTS
    Sellers,       \* the addresses that offer tokens
    Buyers,        \* the addresses that accept and pay
    Freezable,     \* bound: the addresses an issuer freezes
    Txid,          \* transaction hashes
    Endowment,     \* the balances the exchange starts from
    Amounts,       \* amounts offered and accepted
    Desired,       \* amounts of base coins asked for a whole offer
    Fees,          \* fees of a transaction, minimum fees of an offer
    Windows,       \* payment windows, in blocks
    Payments,      \* amounts of base coins paid
    FreeDExBlock,  \* the block from which FEATURE_FREEDEX is active
    MaxBlock       \* bound on the height

VARIABLES
    my_offers,   \* <<seller, property>> -> offer
    my_accepts,  \* <<seller, property, buyer>> -> accept
    block        \* the height of the block being processed

DExTypes == {"BALANCE", "SELLOFFER_RESERVE", "ACCEPT_RESERVE"}

ASSUME DExAssumption ==
    /\ TallyType = DExTypes
    /\ IsFiniteSet(Addr) /\ Sellers \subseteq Addr /\ Buyers \subseteq Addr
    /\ Endowment \in [Addr -> [Prop -> Nat]]
    /\ Amounts \subseteq Nat /\ Desired \subseteq Int /\ Fees \subseteq Nat
    /\ Windows \subseteq Nat /\ Payments \subseteq Nat
    /\ FreeDExBlock \in Nat /\ MaxBlock \in Nat \ {0}

vars == <<tally, setFrozenAddresses, halted, my_offers, my_accepts, block>>

Offer == [amount : Nat \ {0}, desired : Int \ {0}, minFee : Nat,
          window : Nat \ {0}, txid : Txid]

Accept == [remaining : Nat, block : Nat, window : Nat \ {0},
           amount : Nat \ {0}, desired : Int \ {0}, txid : Txid]

(* IsFeatureActivated(FEATURE_FREEDEX, block) *)
FreeDEx == block >= FreeDExBlock

(* Transaction hashes are unique: a new transaction has none of the hashes *)
(* the exchange still refers to.                                           *)
FreshTxid ==
    {h \in Txid : /\ \A k \in DOMAIN my_offers : my_offers[k].txid # h
                  /\ \A k \in DOMAIN my_accepts : my_accepts[k].txid # h}

(* A failed assert, or a dereferenced null pointer, ends the process. *)
Halt(why) ==
    /\ halted' = why
    /\ UNCHANGED <<tally, setFrozenAddresses, my_offers, my_accepts, block>>

Init ==
    /\ tally = [a \in Addr |-> [p \in Prop |-> [tt \in TallyType |->
                   IF tt = "BALANCE" THEN Endowment[a][p] ELSE 0]]]
    /\ setFrozenAddresses = {}
    /\ halted = "no"
    /\ my_offers = <<>>
    /\ my_accepts = <<>>
    /\ block = 1

-----------------------------------------------------------------------------
(* Offers *)

(* Variant: an offer without a payment window is let through. *)
Creatable_NoWindowCheck(t, offers, s, p, amount, desired, window) ==
    /\ desired # 0
    /\ <<s, p>> \notin DOMAIN offers
    /\ amount \in 1 .. t[s][p]["BALANCE"]

(* The conditions under which DEx_offerCreate returns 0. *)
Creatable(t, offers, s, p, amount, desired, window) ==
    /\ window # 0
    /\ desired # 0
    /\ <<s, p>> \notin DOMAIN offers
    /\ amount <= t[s][p]["BALANCE"]
    /\ amount > 0

(* DEx_offerCreate, from the tally t and the offers it is called with. *)
DEx_offerCreate(t, offers, s, p, amount, desired, fee, window, h) ==
    IF Movable(t, p, amount, s, "BALANCE", s, "SELLOFFER_RESERVE")
    THEN /\ tally' = Moved(t, p, amount, s, "BALANCE", s, "SELLOFFER_RESERVE")
         /\ my_offers' = Put(offers, <<s, p>>,
                [amount |-> amount, desired |-> desired, minFee |-> fee,
                 window |-> window, txid |-> h])
         /\ UNCHANGED <<setFrozenAddresses, halted, my_accepts, block>>
    ELSE Halt("assert")

(* What DEx_offerDestroy does to the tally: all of SELLOFFER_RESERVE is    *)
(* returned to the seller, whichever offer put it there.                   *)
Returnable(t, s, p) ==
    t[s][p]["SELLOFFER_RESERVE"] > 0 =>
        Movable(t, p, t[s][p]["SELLOFFER_RESERVE"],
                s, "SELLOFFER_RESERVE", s, "BALANCE")

(* Variant: the seller is credited, the reserve is not debited. *)
Returned_NotDebited(t, s, p) ==
    Updated(t, s, p, t[s][p]["SELLOFFER_RESERVE"], "BALANCE")

Returned(t, s, p) ==
    IF t[s][p]["SELLOFFER_RESERVE"] > 0
    THEN Moved(t, p, t[s][p]["SELLOFFER_RESERVE"],
               s, "SELLOFFER_RESERVE", s, "BALANCE")
    ELSE t

DEx_offerDestroy(s, p) ==
    /\ <<s, p>> \in DOMAIN my_offers
    /\ IF Returnable(tally, s, p)
       THEN /\ tally' = Returned(tally, s, p)
            /\ my_offers' = Erase(my_offers, {<<s, p>>})
            /\ UNCHANGED <<setFrozenAddresses, halted, my_accepts, block>>
       ELSE Halt("assert")

(* The old offer is destroyed first; when the new one is then refused, the *)
(* seller is left without an offer.                                        *)
DEx_offerUpdate(s, p, amount, desired, fee, window, h) ==
    LET t == Returned(tally, s, p)
        offers == Erase(my_offers, {<<s, p>>})
    IN  /\ <<s, p>> \in DOMAIN my_offers
        /\ IF ~Returnable(tally, s, p) THEN Halt("assert")
           ELSE IF Creatable(t, offers, s, p, amount, desired, window)
           THEN DEx_offerCreate(t, offers, s, p, amount, desired, fee, window, h)
           ELSE /\ tally' = t
                /\ my_offers' = offers
                /\ UNCHANGED <<setFrozenAddresses, halted, my_accepts, block>>

(* Transaction 20.  Version 0 derives the action from the amount and the   *)
(* existing offer, version 1 names it; either way an offer is created when *)
(* there is none, and replaced or cancelled when there is one.             *)
TradeOffer(s, p) ==
    /\ ~isAddressFrozen(s, p)
    /\ FreeDEx \/ p \in {TL_PROPERTY_MSC, TL_PROPERTY_TMSC}
    /\ \/ \E amount \in Amounts, desired \in Desired, fee \in Fees,
             window \in Windows, h \in FreshTxid :
            \/ /\ Creatable(tally, my_offers, s, p, amount, desired, window)
               /\ DEx_offerCreate(tally, my_offers, s, p, amount, desired,
                                  fee, window, h)
            \/ DEx_offerUpdate(s, p, amount, desired, fee, window, h)
       \/ DEx_offerDestroy(s, p)

-----------------------------------------------------------------------------
(* Accepts *)

(* Variant: a second accept of the same buyer replaces the first. *)
Acceptable_Again(b, s, p, amountAccepted, feePaid) ==
    /\ ~isAddressFrozen(b, p)
    /\ amountAccepted > 0
    /\ <<s, p>> \in DOMAIN my_offers
    /\ feePaid >= my_offers[<<s, p>>].minFee

(* The conditions under which DEx_acceptCreate gets to reserving tokens.   *)
(* The older accept is the valid one: a second one is refused.             *)
Acceptable(b, s, p, amountAccepted, feePaid) ==
    /\ ~isAddressFrozen(b, p)
    /\ amountAccepted > 0
    /\ <<s, p>> \in DOMAIN my_offers
    /\ <<s, p, b>> \notin DOMAIN my_accepts
    /\ feePaid >= my_offers[<<s, p>>].minFee

(* Variant: the buyer reserves what it asks for. *)
AmountReserved_Uncapped(s, p, amountAccepted) == amountAccepted

(* The buyer reserves what it asks for, or whatever is left of the offer. *)
AmountReserved(s, p, amountAccepted) ==
    LET left == GetTokenBalance(tally, s, p, "SELLOFFER_RESERVE")
    IN  IF left >= amountAccepted THEN amountAccepted ELSE left

(* Transaction 22, DEx_acceptCreate: buyer b accepts the offer of s. *)
AcceptOffer_BTC(b, s, p, amountAccepted, feePaid) ==
    LET n == AmountReserved(s, p, amountAccepted)
        offer == my_offers[<<s, p>>]
    IN  /\ Acceptable(b, s, p, amountAccepted, feePaid)
        /\ n > 0
        /\ IF Movable(tally, p, n, s, "SELLOFFER_RESERVE", s, "ACCEPT_RESERVE")
           THEN /\ tally' = Moved(tally, p, n, s, "SELLOFFER_RESERVE",
                                  s, "ACCEPT_RESERVE")
                /\ my_accepts' = Put(my_accepts, <<s, p, b>>,
                       [remaining |-> n, block |-> block,
                        window |-> offer.window, amount |-> offer.amount,
                        desired |-> offer.desired, txid |-> offer.txid])
                /\ UNCHANGED <<setFrozenAddresses, halted, my_offers, block>>
           ELSE Halt("assert")

(* Variants: the offer is not looked up; its hash is not compared. *)
ReturnType_NoLookup(k) == "SELLOFFER_RESERVE"

ReturnType_AnyOffer(k) ==
    IF <<k[1], k[2]>> \in DOMAIN my_offers THEN "SELLOFFER_RESERVE" ELSE "BALANCE"

(* Where DEx_acceptDestroy puts what an accept still holds: back under the *)
(* offer it was taken from, or, when that one is gone, into the balance.   *)
ReturnType(k) ==
    IF /\ <<k[1], k[2]>> \in DOMAIN my_offers
       /\ my_offers[<<k[1], k[2]>>].txid = my_accepts[k].txid
    THEN "SELLOFFER_RESERVE" ELSE "BALANCE"

(* Variant: one block too late. *)
Expired_Late ==
    {k \in DOMAIN my_accepts :
        block - my_accepts[k].block > my_accepts[k].window}

(* eraseExpiredAccepts: the accepts whose window has passed. *)
Expired ==
    {k \in DOMAIN my_accepts :
        block - my_accepts[k].block >= my_accepts[k].window}

(* What the expired accepts of s and p that go back to type tt still hold. *)
ExpiredSum(s, p, tt) ==
    SumOf([b \in {x \in Addr : /\ <<s, p, x>> \in Expired
                               /\ ReturnType(<<s, p, x>>) = tt}
             |-> my_accepts[<<s, p, b>>].remaining])

(* The ledger after the expired accepts are dissolved one after the other, *)
(* none of them changing where another one goes.                           *)
DissolvedEntry(s, p, tt) ==
    CASE tt = "BALANCE" -> tally[s][p][tt] + ExpiredSum(s, p, tt)
      [] tt = "SELLOFFER_RESERVE" -> tally[s][p][tt] + ExpiredSum(s, p, tt)
      [] tt = "ACCEPT_RESERVE" ->
             tally[s][p][tt] - ExpiredSum(s, p, "BALANCE")
                             - ExpiredSum(s, p, "SELLOFFER_RESERVE")

Dissolved ==
    [s \in Addr |-> [p \in Prop |-> [tt \in TallyType |-> DissolvedEntry(s, p, tt)]]]

(* block_end, then the next block begins.  Each single update succeeds     *)
(* when their sum does.                                                    *)
eraseExpiredAccepts ==
    /\ block < MaxBlock
    /\ IF \A s \in Addr, p \in Prop, tt \in TallyType :
             Dissolved[s][p][tt] \in 0 .. MaxInt
       THEN /\ tally' = Dissolved
            /\ my_accepts' = Erase(my_accepts, Expired)
            /\ block' = block + 1
            /\ UNCHANGED <<setFrozenAddresses, halted, my_offers>>
       ELSE Halt("assert")

-----------------------------------------------------------------------------
(* Payments *)

(* ceil(numerator / denominator) of natural numbers *)
DivideAndRoundUp(numerator, denominator) ==
    IF numerator = 0 THEN 0 ELSE 1 + (numerator - 1) \div denominator

(* The tokens bought for the coins paid, rounded up. *)
calculateDExPurchase(offered, desired, paid) ==
    DivideAndRoundUp(paid * offered, desired)

Least(S) == CHOOSE x \in S : \A y \in S : x <= y

(* The accept between s and b in either role that the scan at the start of *)
(* DEx_payment stops at: the one for the lowest property, own role first.  *)
ScanHit(s, b) ==
    LET hits == {k \in DOMAIN my_accepts : {k[1], k[3]} = {s, b}}
    IN  {k \in hits : \A j \in hits \ {k} :
            k[2] < j[2] \/ (k[2] = j[2] /\ k[1] = s)}

(* Variant: only accepts for TL are looked for. *)
PayableAccepts_OnlyTL(s, b) ==
    {<<s, TL_PROPERTY_MSC, b>>} \cap DOMAIN my_accepts

(* The keys of the accept a payment may be applied to.  Before             *)
(* FEATURE_FREEDEX it is the accept for TL, or else the one for TTL.       *)
(* After it, the accept for the token the seller has on sale; when the     *)
(* seller has no offer at all, whatever the scan has found.  The scan      *)
(* reads its bound through a null pointer, so it may find nothing.         *)
PayableAccepts(s, b) ==
    LET own(P) == {<<s, p, b>> : p \in P} \cap DOMAIN my_accepts
        onSale == {p \in Prop : <<s, p>> \in DOMAIN my_offers}
        msc == own({TL_PROPERTY_MSC})
    IN  IF ~FreeDEx THEN IF msc # {} THEN msc ELSE own({TL_PROPERTY_TMSC})
        ELSE IF onSale # {} THEN own({Least(onSale)})
        ELSE ScanHit(s, b)

(* Variant: what other buyers have accepted is ignored. *)
SoldOut_IgnoresAccepts(t, s, p) ==
    GetTokenBalance(t, s, p, "SELLOFFER_RESERVE") = 0

(* Whether nothing is left in the reserves of the offer of s for p. *)
SoldOut(t, s, p) ==
    /\ GetTokenBalance(t, s, p, "SELLOFFER_RESERVE") = 0
    /\ GetTokenBalance(t, s, p, "ACCEPT_RESERVE") = 0

(* DEx_payment for the accept under key k: the buyer b gets the tokens its *)
(* coins pay for, at most what the accept still holds.  An accept that is  *)
(* paid up is erased, and with it the offer when that is sold out.         *)
PayAccept(k, s, b, paid) ==
    LET accept == my_accepts[k]
        p == k[2]
        bought == calculateDExPurchase(accept.amount, accept.desired, paid)
        n == IF accept.remaining < bought THEN accept.remaining ELSE bought
        t == IF n > 0 THEN Moved(tally, p, n, s, "ACCEPT_RESERVE", b, "BALANCE")
             ELSE tally
        paidUp == n >= accept.remaining
        reduced == [my_accepts EXCEPT ![k].remaining = @ - n]
    IN  IF \/ accept.desired < 0
           \/ bought > MaxInt
           \/ n > 0 /\ ~Movable(tally, p, n, s, "ACCEPT_RESERVE", b, "BALANCE")
        THEN Halt("assert")
        ELSE /\ tally' = t
             /\ my_accepts' = IF paidUp THEN Erase(reduced, {<<s, p, b>>})
                              ELSE reduced
             /\ my_offers' = IF paidUp /\ SoldOut(t, s, p)
                             THEN Erase(my_offers, {<<s, p>>}) ELSE my_offers
             /\ UNCHANGED <<setFrozenAddresses, halted, block>>

(* Transaction 117 and HandleDExPayments: an output of the transaction     *)
(* pays another address, s.  DEx_payment shadows the property database     *)
(* with a null pointer and dereferences it, so the process may end there.  *)
DEx_payment(s, b, paid) ==
    /\ s # b
    /\ \/ Halt("null")
       \/ \E k \in PayableAccepts(s, b) : PayAccept(k, s, b, paid)

-----------------------------------------------------------------------------
(* The issuer of a managed token freezes and unfreezes addresses; TL and   *)
(* TTL are not managed.  (Module Freezing has the handlers in full.)       *)
FreezeTokens(a, p) ==
    /\ p > TL_PROPERTY_TMSC /\ a \in Freezable
    /\ setFrozenAddresses' = setFrozenAddresses \cup {<<a, p>>}
    /\ UNCHANGED <<tally, halted, my_offers, my_accepts, block>>

UnfreezeTokens(a, p) ==
    /\ <<a, p>> \in setFrozenAddresses
    /\ setFrozenAddresses' = setFrozenAddresses \ {<<a, p>>}
    /\ UNCHANGED <<tally, halted, my_offers, my_accepts, block>>

Next ==
    /\ halted = "no"
    /\ \/ \E s \in Sellers, p \in Prop : TradeOffer(s, p)
       \/ \E b \in Buyers, s \in Addr, p \in Prop, amount \in Amounts, fee \in Fees :
            AcceptOffer_BTC(b, s, p, amount, fee)
       \/ \E s \in Addr, b \in Buyers, paid \in Payments : DEx_payment(s, b, paid)
       \/ eraseExpiredAccepts
       \/ \E a \in Addr, p \in Prop : FreezeTokens(a, p)
       \/ \E a \in Addr, p \in Prop : UnfreezeTokens(a, p)

Spec == Init /\ [][Next]_vars

-----------------------------------------------------------------------------
(* Properties *)

(* Types of the ledger, the offers and the accepts.  No balance is ever    *)
(* negative, though every handler only asserts that its own update is not. *)
TypeOK ==
    /\ tally \in [Addr -> [Prop -> [TallyType -> Nat]]]
    /\ setFrozenAddresses \subseteq Addr \X Prop
    /\ halted \in {"no", "assert", "null"}
    /\ DOMAIN my_offers \subseteq Addr \X Prop
    /\ \A k \in DOMAIN my_offers : my_offers[k] \in Offer
    /\ DOMAIN my_accepts \subseteq Addr \X Prop \X Addr
    /\ \A k \in DOMAIN my_accepts : my_accepts[k] \in Accept
    /\ block \in Nat

(* What the accepts of the offers of s for p still hold, buyer by buyer. *)
AcceptedBy(s, p) ==
    [b \in Addr |-> IF <<s, p, b>> \in DOMAIN my_accepts
                    THEN my_accepts[<<s, p, b>>].remaining ELSE 0]

(* A seller's ACCEPT_RESERVE is exactly what the buyers' accepts still     *)
(* hold: no payment, expiry or replacement of an offer takes from or       *)
(* leaves behind tokens of another buyer's accept.                         *)
AcceptReserveBacked ==
    \A s \in Addr, p \in Prop :
        tally[s][p]["ACCEPT_RESERVE"] = SumOf(AcceptedBy(s, p))

(* Tokens in SELLOFFER_RESERVE belong to an open offer: a dissolved accept *)
(* never returns tokens to an offer that is gone, where the seller could   *)
(* not get at them.                                                        *)
NoStrandedReserve ==
    \A s \in Addr, p \in Prop :
        tally[s][p]["SELLOFFER_RESERVE"] > 0 => <<s, p>> \in DOMAIN my_offers

(* An offer never has more on sale and accepted than the seller put into   *)
(* it, whatever accepts of an earlier offer of the seller are returned.    *)
OfferNotOversold ==
    \A k \in DOMAIN my_offers :
        LET s == k[1]  p == k[2]
            own == {b \in Addr : /\ <<s, p, b>> \in DOMAIN my_accepts
                                 /\ my_accepts[<<s, p, b>>].txid = my_offers[k].txid}
        IN  tally[s][p]["SELLOFFER_RESERVE"]
              + SumOf([b \in own |-> my_accepts[<<s, p, b>>].remaining])
                <= my_offers[k].amount

(* The exchange neither creates nor destroys tokens. *)
SupplyConserved ==
    \A p \in Prop :
        Supply(tally, p, TallyType) = SumOf([a \in Addr |-> Endowment[a][p]])

(* An accept is payable for its window and not a block longer. *)
WindowRespected ==
    \A k \in DOMAIN my_accepts :
        block - my_accepts[k].block <= my_accepts[k].window

(* Every accept of another address can be paid for, whatever became of the *)
(* offer, as long as the seller has not put another token on sale: with    *)
(* FEATURE_FREEDEX a payment is for the first token the seller has on sale. *)
AcceptCanBePaid ==
    \A k \in DOMAIN my_accepts :
        /\ k[1] # k[3]
        /\ FreeDEx => \A p \in Prop \ {k[2]} : <<k[1], p>> \notin DOMAIN my_offers
        => PayableAccepts(k[1], k[3]) # {}

(* No assert of the exchange ever fails. *)
NeverAsserts == halted # "assert"

(* When a payment closes an offer of TL or TTL, everything was purchased   *)
(* and paid for: nothing is left on sale and no other buyer holds an       *)
(* accept.  (GetTokenBalance hides ACCEPT_RESERVE of issued tokens.)       *)
PaidOfferIsSoldOut ==
    [][\A k \in DOMAIN my_offers \ DOMAIN my_offers' :
          \/ my_accepts' = my_accepts
          \/ k[2] > TL_PROPERTY_TMSC
          \/ SumOf(AcceptedBy(k[1], k[2]))' = 0]_vars
=============================================================================
