------------------------------- MODULE MetaDEx -------------------------------
(***************************************************************************)
(* The token-for-token exchange (the first half of mdex.cpp and the        *)
(* handlers of transactions 25 to 28 and 65533 in tx.cpp): limit orders    *)
(* that are matched against the book when they arrive, the rest of which   *)
(* waits in the book with its tokens in METADEX_RESERVE.                   *)
(*                                                                         *)
(* The loop of x_Trade is spelled out, one step per order looked at.  While *)
(* an order is being matched (pnew) nothing else is processed, so the      *)
(* steps of one transaction are never interleaved with another one.        *)
(***************************************************************************)
EXTENDS Tally, Ecosystem

CONSTANTS
    Traders,           \* the addresses that place orders
    Endowment,         \* the balances the exchange starts from
    Pairs,             \* <<property for sale, desired property>> in use
    Amounts,           \* amounts put up for sale
    Desired,           \* amounts asked for them
    Live,              \* the features active at the start
    Switchable,        \* the features that are activated or deactivated
    Freezable,         \* the properties their issuer may freeze
    MaxOrders          \* bound on the number of orders in the book

VARIABLES
    metadex,  \* the book: place in the chain (block, idx) -> order
    pnew,     \* the order x_Trade is matching, or NoOrder
    todo,     \* the orders of the book the loops of x_Trade have yet to reach
    live      \* the features that are active

MetaDExTypes == {"BALANCE", "METADEX_RESERVE"}
Features == {"METADEX", "TRADEALLPAIRS", "FEES"}

ASSUME MetaDExAssumption ==
    /\ TallyType = MetaDExTypes
    /\ IsFiniteSet(Addr) /\ Traders \subseteq Addr
    /\ Endowment \in [Addr -> [Prop -> Nat]]
    /\ Pairs \subseteq Prop \X Prop
    /\ Amounts \subseteq Nat /\ Desired \subseteq Nat
    /\ Live \subseteq Features /\ Switchable \subseteq Features
    /\ Freezable \subseteq {p \in Prop : p > TL_PROPERTY_TMSC}
    /\ MaxOrders \in Nat \ {0}

(* No more than MAX_INT tokens of a property exist. *)
ASSUME SupplyAssumption ==
    \A p \in Prop : SumOf([a \in Addr |-> Endowment[a][p]]) <= MaxInt

vars == <<tally, setFrozenAddresses, halted, metadex, pnew, todo, live>>

(* An order is a CMPMetaDEx.  Its field `got`, what it has received so     *)
(* far, is kept in the trade list only by the code.                        *)
NoOrder == [none |-> TRUE]
Idle == pnew = NoOrder

Init ==
    /\ tally = [a \in Addr |-> [p \in Prop |-> [tt \in TallyType |->
                   IF tt = "BALANCE" THEN Endowment[a][p] ELSE 0]]]
    /\ setFrozenAddresses = {}
    /\ halted = "no"
    /\ metadex = <<>>
    /\ pnew = NoOrder
    /\ todo = {}
    /\ live = Live

(* A failed assert, a null pointer or an endless loop ends the process. *)
Halt(why) ==
    /\ halted' = why
    /\ UNCHANGED <<tally, setFrozenAddresses, metadex, pnew, todo, live>>

-----------------------------------------------------------------------------
(* Which transactions are let through *)

(* In the test ecosystem transactions are allowed without regard to height. *)
IsTransactionTypeAllowed(p) == "METADEX" \in live \/ isTestEcosystemProperty(p)

(* The checks the handlers of transactions 25, 26 and 27 share. *)
PairAllowed(s, p, dp) ==
    /\ ~isAddressFrozen(s, p)
    /\ IsTransactionTypeAllowed(p)
    /\ p # dp
    /\ isTestEcosystemProperty(p) <=> isTestEcosystemProperty(dp)

AllPair(p, dp) == p > TL_PROPERTY_TMSC /\ dp > TL_PROPERTY_TMSC

-----------------------------------------------------------------------------
(* Prices, compared as the rational numbers of the code: by cross          *)
(* multiplication, so that nothing is rounded.                             *)

(* unitPrice of x is below, or equals, unitPrice of y *)
Cheaper(x, y) == x.desired * y.forsale < y.desired * x.forsale
SamePrice(x, y) == x.desired * y.forsale = y.desired * x.forsale

(* unitPrice of old is at most inversePrice of new *)
PriceMet(new, old) == new.forsale * old.forsale >= old.desired * new.desired

DivideAndRoundUp(x, y) == (x + y - 1) \div y

(* The units of old's tokens new can buy at old's price, rounded down. *)
CouldBuy(new, old) ==
    LET n == (new.remaining * old.forsale) \div old.desired
    IN  IF n < old.remaining THEN n ELSE old.remaining

(* What new has to pay for them, rounded up. *)
WouldPay(n, old) == DivideAndRoundUp(n * old.desired, old.forsale)

(* Variant: the price as rounded is not compared with the buyer's limit. *)
TooExpensive_Unchecked(new, n, pay) == FALSE

(* Whether the rounding takes the price above the limit of new. *)
TooExpensive(new, n, pay) == pay * new.desired > new.forsale * n

(* The asserts around a trade of n units for pay. *)
TradeAsserts(new, old, n, pay) ==
    /\ 0 < old.remaining /\ 0 < new.remaining
    /\ PriceMet(new, old)
    /\ new.desired * old.desired <= old.forsale * new.forsale
    /\ pay * old.forsale >= old.desired * n
    /\ pay * new.desired <= new.forsale * n
    /\ n <= old.remaining /\ pay <= new.remaining

-----------------------------------------------------------------------------
(* Placing an order *)

(* Transaction 25: the checks of the handler, then MetaDEx_ADD up to its   *)
(* call of x_Trade.  Of the book, the loops reach the orders that sell     *)
(* what is desired and ask for what is sold, at a price that can be met.   *)
MetaDExTrade(s, p, amount, dp, desired) ==
    LET new == [addr |-> s, property |-> p, forsale |-> amount,
                desProperty |-> dp, desired |-> desired,
                remaining |-> amount, got |-> 0]
    IN  /\ Idle
        /\ MaxOrders \notin DOMAIN metadex
        /\ PairAllowed(s, p, dp)
        /\ amount \in 1 .. MaxInt /\ desired \in 1 .. MaxInt
        /\ "TRADEALLPAIRS" \in live \/ ~AllPair(p, dp)
        /\ GetTokenBalance(tally, s, p, "BALANCE") >= amount
        /\ pnew' = new
        /\ todo' = {i \in DOMAIN metadex : /\ metadex[i].property = dp
                                           /\ metadex[i].desProperty = p
                                           /\ PriceMet(new, metadex[i])}
        /\ UNCHANGED <<tally, setFrozenAddresses, halted, metadex, live>>

(* The order in which the loops visit the book: by price, then by age. *)
Best(ids) ==
    CHOOSE i \in ids : \A j \in ids \ {i} :
        \/ Cheaper(metadex[i], metadex[j])
        \/ SamePrice(metadex[i], metadex[j]) /\ i < j

(* Variant: the seller is not paid. *)
Paid_Not(t, new, old, pay) == t

(* The tally after a trade: pay goes from the buyer's balance to the       *)
(* seller's, n from the seller's reserve to the buyer's balance.           *)
Paid(t, new, old, pay) ==
    Moved(t, new.property, pay, new.addr, "BALANCE", old.addr, "BALANCE")

Settleable(t, new, old, n, pay) ==
    /\ Movable(t, new.property, pay, new.addr, "BALANCE", old.addr, "BALANCE")
    /\ Movable(Paid(t, new, old, pay), old.property, n,
               old.addr, "METADEX_RESERVE", new.addr, "BALANCE")

Settled(t, new, old, n, pay) ==
    Moved(Paid(t, new, old, pay), old.property, n,
          old.addr, "METADEX_RESERVE", new.addr, "BALANCE")

(* Variant: the order of the book is left with what the buyer has left. *)
Replaced_Swapped(book, i, n, pay) ==
    IF pnew.remaining > pay
    THEN [book EXCEPT ![i].remaining = pnew.remaining - pay, ![i].got = @ + pay]
    ELSE Erase(book, {i})

(* The order i of the book after it sold n units for pay. *)
Replaced(book, i, n, pay) ==
    IF book[i].remaining > n
    THEN [book EXCEPT ![i].remaining = @ - n, ![i].got = @ + pay]
    ELSE Erase(book, {i})

(* Variant: the iterator is not advanced. *)
Skip_NotAdvanced(i) == UNCHANGED vars

(* An order of the book is passed over. *)
Skip(i) ==
    /\ todo' = todo \ {i}
    /\ UNCHANGED <<tally, setFrozenAddresses, halted, metadex, pnew, live>>

(* One turn of the loops of x_Trade.  With FEATURE_FEES active the fee of  *)
(* a pair without TL goes through pDbFeeCache, which is never allocated.   *)
x_Trade ==
    LET i == Best(todo)
        old == metadex[i]
        n == CouldBuy(pnew, old)
        pay == WouldPay(n, old)
    IN  /\ ~Idle /\ todo # {} /\ pnew.remaining > 0
        /\ IF n = 0 \/ TooExpensive(pnew, n, pay)
           THEN Skip(i)
           ELSE IF "FEES" \in live /\ AllPair(old.property, old.desProperty)
           THEN Halt("null")
           ELSE IF /\ TradeAsserts(pnew, old, n, pay)
                   /\ Settleable(tally, pnew, old, n, pay)
           THEN /\ tally' = Settled(tally, pnew, old, n, pay)
                /\ metadex' = Replaced(metadex, i, n, pay)
                /\ pnew' = [pnew EXCEPT !.remaining = @ - pay, !.got = @ + n]
                /\ todo' = todo \ {i}
                /\ UNCHANGED <<setFrozenAddresses, halted, live>>
           ELSE Halt("assert")

(* Variant: the tokens of the rest are not moved into the reserve. *)
Reserved_Not(t, new) == t

(* The rest of an order goes to the book and its tokens to the reserve. *)
Reserved(t, new) ==
    Moved(t, new.property, new.remaining,
          new.addr, "BALANCE", new.addr, "METADEX_RESERVE")

(* A place in the chain after that of every order in the book. *)
Place == CHOOSE k \in 1 .. MaxOrders : \A i \in DOMAIN metadex : i < k

(* The end of MetaDEx_ADD, after x_Trade returned. *)
MetaDEx_INSERT ==
    /\ ~Idle /\ (todo = {} \/ pnew.remaining = 0)
    /\ IF /\ pnew.remaining > 0
          /\ ~Movable(tally, pnew.property, pnew.remaining,
                      pnew.addr, "BALANCE", pnew.addr, "METADEX_RESERVE")
       THEN Halt("assert")
       ELSE /\ IF pnew.remaining > 0
               THEN /\ metadex' = Put(metadex, Place, pnew)
                    /\ tally' = Reserved(tally, pnew)
               ELSE UNCHANGED <<metadex, tally>>
            /\ pnew' = NoOrder
            /\ todo' = {}
            /\ UNCHANGED <<setFrozenAddresses, halted, live>>

-----------------------------------------------------------------------------
(* Taking orders out of the book *)

(* What the orders ids of the book hold of a's tokens p. *)
HeldBy(ids, a, p) ==
    SumOf([i \in {j \in ids : metadex[j].addr = a /\ metadex[j].property = p}
               |-> metadex[i].remaining])

Refundable(ids) ==
    \A i \in ids : LET a == metadex[i].addr
                       p == metadex[i].property
                       n == HeldBy(ids, a, p)
                   IN  Movable(tally, p, n, a, "METADEX_RESERVE", a, "BALANCE")

Refunded(ids) ==
    [a \in Addr |-> [p \in Prop |-> [tt \in TallyType |->
        IF tt = "BALANCE" THEN tally[a][p][tt] + HeldBy(ids, a, p)
        ELSE tally[a][p][tt] - HeldBy(ids, a, p)]]]

(* The orders ids are removed and their tokens returned, one by one. *)
Cancel(ids) ==
    IF Refundable(ids)
    THEN /\ tally' = Refunded(ids)
         /\ metadex' = Erase(metadex, ids)
         /\ UNCHANGED <<setFrozenAddresses, halted, pnew, todo, live>>
    ELSE Halt("assert")

(* Transaction 26 *)
MetaDExCancelPrice(s, p, amount, dp, desired) ==
    LET mdex == [forsale |-> amount, desired |-> desired]
        ids == {i \in DOMAIN metadex : /\ metadex[i].property = p
                                       /\ SamePrice(metadex[i], mdex)
                                       /\ metadex[i].desProperty = dp
                                       /\ metadex[i].addr = s}
    IN  /\ Idle /\ ids # {}
        /\ PairAllowed(s, p, dp)
        /\ amount \in 1 .. MaxInt /\ desired \in 1 .. MaxInt
        /\ Cancel(ids)

(* Transaction 27 *)
MetaDExCancelPair(s, p, dp) ==
    LET ids == {i \in DOMAIN metadex : /\ metadex[i].property = p
                                       /\ metadex[i].desProperty = dp
                                       /\ metadex[i].addr = s}
    IN  /\ Idle /\ ids # {}
        /\ PairAllowed(s, p, dp)
        /\ Cancel(ids)

(* Transaction 28 *)
MetaDExCancelEcosystem(s, ecosystem) ==
    LET ids == {i \in DOMAIN metadex :
                    /\ isTestEcosystemProperty(metadex[i].property)
                           <=> isTestEcosystemProperty(ecosystem)
                    /\ metadex[i].addr = s}
    IN  /\ Idle /\ ids # {}
        /\ IsTransactionTypeAllowed(ecosystem)
        /\ Cancel(ids)

-----------------------------------------------------------------------------
(* Features *)

(* Variant: the book is left as it is. *)
MetaDEx_SHUTDOWN_Skipped == UNCHANGED <<tally, setFrozenAddresses, halted,
                                        metadex, pnew, todo>>

(* Every order is returned to its owner. *)
MetaDEx_SHUTDOWN ==
    IF Refundable(DOMAIN metadex)
    THEN /\ tally' = Refunded(DOMAIN metadex)
         /\ metadex' = <<>>
         /\ UNCHANGED <<setFrozenAddresses, halted, pnew, todo>>
    ELSE /\ halted' = "assert"
         /\ UNCHANGED <<tally, setFrozenAddresses, metadex, pnew, todo>>

AllPairOrders ==
    {i \in DOMAIN metadex : AllPair(metadex[i].property, metadex[i].desProperty)}

(* The iterator of the inner loop is advanced only past the orders it      *)
(* removes: at any other order the loop does not end.                      *)
MetaDEx_SHUTDOWN_ALLPAIR ==
    IF AllPairOrders = DOMAIN metadex THEN MetaDEx_SHUTDOWN
    ELSE /\ halted' = "loop"
         /\ UNCHANGED <<tally, setFrozenAddresses, metadex, pnew, todo>>

(* Transaction 65533 *)
Deactivation(feature) ==
    /\ Idle
    /\ feature \in live
    /\ live' = live \ {feature}
    /\ CASE feature = "METADEX" -> MetaDEx_SHUTDOWN
         [] feature = "TRADEALLPAIRS" -> MetaDEx_SHUTDOWN_ALLPAIR
         [] OTHER -> UNCHANGED <<tally, setFrozenAddresses, halted, metadex,
                                 pnew, todo>>

(* A feature goes live when the chain reaches its activation block. *)
Activated(feature) ==
    /\ Idle
    /\ feature \notin live
    /\ live' = live \cup {feature}
    /\ UNCHANGED <<tally, setFrozenAddresses, halted, metadex, pnew, todo>>

freezeAddress(a, p) ==
    /\ Idle
    /\ ~isAddressFrozen(a, p)
    /\ setFrozenAddresses' = setFrozenAddresses \cup {<<a, p>>}
    /\ UNCHANGED <<tally, halted, metadex, pnew, todo, live>>

Next ==
    /\ halted = "no"
    /\ \/ \E s \in Traders, pair \in Pairs, amount \in Amounts, desired \in Desired :
             \/ MetaDExTrade(s, pair[1], amount, pair[2], desired)
             \/ MetaDExCancelPrice(s, pair[1], amount, pair[2], desired)
       \/ x_Trade
       \/ MetaDEx_INSERT
       \/ \E s \in Traders, pair \in Pairs : MetaDExCancelPair(s, pair[1], pair[2])
       \/ \E s \in Traders, ecosystem \in {TL_PROPERTY_MSC, TL_PROPERTY_TMSC} :
             MetaDExCancelEcosystem(s, ecosystem)
       \/ \E feature \in Switchable : Deactivation(feature) \/ Activated(feature)
       \/ \E a \in Traders, p \in Freezable : freezeAddress(a, p)

(* A transaction once begun is processed to its end. *)
Fairness == WF_vars(halted = "no" /\ (x_Trade \/ MetaDEx_INSERT))

Spec == Init /\ [][Next]_vars /\ Fairness
-----------------------------------------------------------------------------
(* Properties *)

(* METADEX_RESERVE of an address is exactly what its orders in the book    *)
(* have left to sell, at every step of x_Trade and of every cancellation:  *)
(* so that no order sells tokens that are not there, and no tokens stay    *)
(* reserved without an order.                                              *)
ReserveIsBook ==
    \A a \in Addr, p \in Prop :
        tally[a][p]["METADEX_RESERVE"] = HeldBy(DOMAIN metadex, a, p)

(* Whatever the rounding of x_Trade over any number of partial fills, an   *)
(* order, in the book or being matched, has received at least its limit    *)
(* price for all it has sold so far.                                       *)
LimitRespected ==
    \A o \in {metadex[i] : i \in DOMAIN metadex} \cup ({pnew} \ {NoOrder}) :
        o.got * o.forsale >= (o.forsale - o.remaining) * o.desired

(* No assert of x_Trade, MetaDEx_ADD, the cancellations or the shutdown    *)
(* fails.                                                                  *)
NeverAsserts == halted # "assert"

(* Once FEATURE_METADEX is deactivated the owner of an order of the main   *)
(* ecosystem has no transaction left to cancel it with: none is in the     *)
(* book then.                                                              *)
NoOrderLockedIn ==
    "METADEX" \notin live =>
        \A i \in DOMAIN metadex : isTestEcosystemProperty(metadex[i].property)

(* x_Trade leaves its loops and MetaDEx_ADD returns. *)
MatchingEnds == ~Idle ~> (Idle \/ halted # "no")

Holdings == [a \in Addr |-> [p \in Prop |->
                tally[a][p]["BALANCE"] + tally[a][p]["METADEX_RESERVE"]]]

TheExchange == INSTANCE Exchange WITH
    Holder <- Addr, Token <- Prop, Start <- Endowment, holdings <- Holdings

(* The exchange implements its promise: tokens change hands in atomic      *)
(* swaps only.                                                             *)
ImplementsExchange == TheExchange!Spec

(* "Scans the orderbook and removes every all-pair order" (mdex.cpp:724):  *)
(* MetaDEx_SHUTDOWN_ALLPAIR comes to an end.                               *)
ShutdownEnds == halted # "loop"
=============================================================================
