------------------------------- MODULE Tokens -------------------------------
(***************************************************************************)
(* Sending, granting and revoking tokens (tx.cpp, transactions 0, 3, 4, 5, *)
(* 55 and 56) while issuers freeze addresses: the composition of the       *)
(* ledger, the distribution to owners and the freezing of addresses.       *)
(*                                                                         *)
(* Every transaction meets the freeze list twice: before the handler       *)
(* starts, and again inside each debit of the ledger, where a frozen       *)
(* balance fails an assert.  One block is modelled; heights do not matter. *)
(***************************************************************************)
EXTENDS Freezing, STO, Ecosystem

CONSTANTS
    Endowment,              \* property -> address -> balance at the start
    TRANSFER_FEE_PER_OWNER, \* fee per receiver of a "send to owners",
    TRANSFER_FEE_PER_OWNER_V1,  \* and of one of version 1
    MaxGranted,             \* bound on the tokens granted
    MaxUnvested             \* bound on the unvested tokens

VARIABLES granted, revoked  \* historicalData of a property, summed

freezing == <<setFreezingEnabledProperties, setFrozenAddresses, historicalIssuers,
              block, txlist>>

tvars == <<vars, granted, revoked>>

ASSUME TokensAssumption ==
    /\ {TL_PROPERTY_MSC, TL_PROPERTY_TMSC} \subseteq Prop \ Managed
    /\ "UNVESTED" \in TallyType
    /\ Endowment \in [Prop -> [Addr -> Nat]]
    /\ {TRANSFER_FEE_PER_OWNER, TRANSFER_FEE_PER_OWNER_V1} \subseteq Nat \ {0}
    /\ {MaxGranted, MaxUnvested} \subseteq Nat

(* A managed property is created without tokens, any other one with no     *)
(* more than fit.                                                          *)
ASSUME EndowmentAssumption ==
    /\ \A p \in Managed, a \in Addr : Endowment[p][a] = 0
    /\ \A p \in Prop : SumOf(Endowment[p]) <= MaxInt

Endowed == [a \in Addr |-> [p \in Prop |->
               [tt \in TallyType |-> IF tt = "BALANCE" THEN Endowment[p][a] ELSE 0]]]

TInit ==
    /\ tally = Endowed
    /\ setFrozenAddresses = {}
    /\ halted = "no"
    /\ setFreezingEnabledProperties = {}
    /\ historicalIssuers = [p \in Managed |-> <<[block |-> 1, issuer |-> FirstIssuer]>>]
    /\ block = 1
    /\ txlist = << >>
    /\ granted = [p \in Managed |-> 0]
    /\ revoked = [p \in Managed |-> 0]

(* The asserted updates of a handler: all succeed, or the process ends. *)
Asserted(possible, t) ==
    IF possible THEN tally' = t /\ halted' = "no"
    ELSE halted' = "assert" /\ UNCHANGED tally

(* pDbFeeCache is null, since mastercore_init does not allocate it: the    *)
(* process may end wherever the fee cache is asked.                        *)
AsksFeeCache == halted' = "null" /\ UNCHANGED tally

(* Asserted updates followed by NotifyTotalTokensChanged, which asks the   *)
(* fee cache.  With nothing cached it touches no balance.                  *)
AssertedThenNotify(possible, t) ==
    \/ Asserted(possible, t)
    \/ possible /\ AsksFeeCache

NotFrozen(sender, p) == ~isAddressFrozen(sender, p)

Affords(sender, p, n) == GetTokenBalance(tally, sender, p, "BALANCE") >= n

-----------------------------------------------------------------------------
(* Mutant: the balance is checked and the debit forgotten. *)
SimpleSend_NoDebit(sender, receiver, p, n) ==
    /\ Running /\ NotFrozen(sender, p)
    /\ n > 0 /\ Affords(sender, p, n)
    /\ Asserted(Updatable(tally, receiver, p, n, "BALANCE"),
                Updated(tally, receiver, p, n, "BALANCE"))
    /\ UNCHANGED <<freezing, granted, revoked>>

SimpleSend(sender, receiver, p, n) ==
    /\ Running /\ NotFrozen(sender, p)
    /\ n > 0 /\ Affords(sender, p, n)
    /\ Asserted(Movable(tally, p, n, sender, "BALANCE", receiver, "BALANCE"),
                Moved(tally, p, n, sender, "BALANCE", receiver, "BALANCE"))
    /\ UNCHANGED <<freezing, granted, revoked>>

(* Mutant: frozen properties are sent as well. *)
SendAllProps_Frozen(sender, ecosystem) ==
    {p \in Prop : /\ ecosystem = TL_PROPERTY_MSC => ~isTestEcosystemProperty(p)
                  /\ ecosystem = TL_PROPERTY_TMSC => ~isMainEcosystemProperty(p)
                  /\ tally[sender][p]["BALANCE"] > 0}

(* What SendAll takes: what is available and not frozen of an ecosystem. *)
SendAllProps(sender, ecosystem) ==
    {p \in Prop : /\ ecosystem = TL_PROPERTY_MSC => ~isTestEcosystemProperty(p)
                  /\ ecosystem = TL_PROPERTY_TMSC => ~isMainEcosystemProperty(p)
                  /\ ~isAddressFrozen(sender, p)
                  /\ tally[sender][p]["BALANCE"] > 0}

(* The ledger after the sender's available tokens of all properties sent.  *)
SentAll(sender, receiver, sent) ==
    [a \in Addr |-> [p \in Prop |->
        IF p \in sent /\ a = sender THEN [tally[a][p] EXCEPT !["BALANCE"] = 0]
        ELSE IF p \in sent /\ a = receiver
             THEN [tally[a][p] EXCEPT !["BALANCE"] = @ + tally[sender][p]["BALANCE"]]
        ELSE tally[a][p]]]

SendAll(sender, receiver, ecosystem) ==
    LET sent == SendAllProps(sender, ecosystem)
    IN  /\ Running /\ sent # {}
        /\ Asserted(\A p \in sent : Movable(tally, p, tally[sender][p]["BALANCE"],
                                            sender, "BALANCE", receiver, "BALANCE"),
                    IF sender = receiver THEN tally ELSE SentAll(sender, receiver, sent))
        /\ UNCHANGED <<freezing, granted, revoked>>

feeProperty(p) == IF isTestEcosystemProperty(p) THEN TL_PROPERTY_TMSC ELSE TL_PROPERTY_MSC

AffordsWithFee(sender, p, n, fee) ==
    IF feeProperty(p) # p THEN Affords(sender, feeProperty(p), fee)
    ELSE Affords(sender, p, n + fee)

(* Version 0: the fee is burned, the amount split between the owners. *)
SendToOwners(sender, p, n) ==
    LET shares == STO_GetReceivers(tally, sender, p, n)
        fee == TRANSFER_FEE_PER_OWNER * Cardinality(DOMAIN shares)
        paid == Updated(tally, sender, feeProperty(p), -fee, "BALANCE")
        debited == Updated(paid, sender, p, -n, "BALANCE")
    IN  /\ Running /\ NotFrozen(sender, p)
        /\ n > 0 /\ Affords(sender, p, n)
        /\ shares # << >>
        /\ AffordsWithFee(sender, p, n, fee)
        /\ AssertedThenNotify(
               /\ Updatable(tally, sender, feeProperty(p), -fee, "BALANCE")
               /\ Updatable(paid, sender, p, -n, "BALANCE")
               /\ \A a \in DOMAIN shares : Updatable(debited, a, p, shares[a], "BALANCE")
               /\ SumOf(shares) = n,
               [a \in Addr |-> IF a \in DOMAIN shares
                               THEN [debited[a] EXCEPT ![p]["BALANCE"] = @ + shares[a]]
                               ELSE debited[a]])
        /\ UNCHANGED <<freezing, granted, revoked>>

(* Version 1: the owners of any property receive, and the fee goes to the  *)
(* fee cache, before the amount is split: the process ends there.          *)
SendToOwnersV1(sender, p, n, distribution_property) ==
    LET shares == STO_GetReceivers(tally, sender, distribution_property, n)
        fee == TRANSFER_FEE_PER_OWNER_V1 * Cardinality(DOMAIN shares)
    IN  /\ Running /\ NotFrozen(sender, p)
        /\ n > 0 /\ Affords(sender, p, n)
        /\ shares # << >>
        /\ AffordsWithFee(sender, p, n, fee)
        /\ IF Updatable(tally, sender, feeProperty(p), -fee, "BALANCE") THEN AsksFeeCache
           ELSE halted' = "assert" /\ UNCHANGED tally
        /\ UNCHANGED <<freezing, granted, revoked>>

(* The handler checks nothing: neither the type of the transaction, nor    *)
(* the amount, nor the balance.  "vesting" is a failed assert of its own.  *)
SendVestingTokens(sender, receiver, p, n) ==
    LET sent == Moved(tally, p, n, sender, "BALANCE", receiver, "BALANCE")
        possible == /\ Movable(tally, p, n, sender, "BALANCE", receiver, "BALANCE")
                    /\ Updatable(sent, receiver, TL_PROPERTY_MSC, n, "UNVESTED")
    IN  /\ Running /\ NotFrozen(sender, p)
        /\ Supply(tally, TL_PROPERTY_MSC, {"UNVESTED"}) + n <= MaxUnvested
        /\ IF possible
           THEN tally' = Updated(sent, receiver, TL_PROPERTY_MSC, n, "UNVESTED") /\ UNCHANGED halted
           ELSE halted' = "vesting" /\ UNCHANGED tally
        /\ UNCHANGED <<freezing, granted, revoked>>

getTotalTokens(p) == Supply(tally, p, OwnedTypes)

(* Mutant: the tokens that exist already are not counted. *)
WithinLimit_Alone(p, n) == n <= MaxInt

WithinLimit(p, n) == n <= MaxInt - getTotalTokens(p)

(* The limit takes in the cached fees; the cache is asked before anything  *)
(* is recorded.                                                            *)
GrantTokens(sender, receiver, p, n) ==
    /\ Running /\ NotFrozen(sender, p)
    /\ sender = getIssuer(p, block)
    /\ n > 0 /\ granted[p] + n <= MaxGranted
    /\ \/ /\ WithinLimit(p, n)
          /\ granted' = [granted EXCEPT ![p] = @ + n]
          /\ Asserted(Updatable(tally, receiver, p, n, "BALANCE"),
                      Updated(tally, receiver, p, n, "BALANCE"))
       \/ AsksFeeCache /\ UNCHANGED granted
    /\ UNCHANGED <<freezing, revoked>>

(* Mutant: the revocation is recorded and the tokens stay. *)
RevokeTokens_Kept(sender, p, n) ==
    /\ Running /\ NotFrozen(sender, p)
    /\ n > 0 /\ Affords(sender, p, n)
    /\ revoked' = [revoked EXCEPT ![p] = @ + n]
    /\ UNCHANGED <<tally, halted, freezing, granted>>

(* Any holder may revoke; the issuer is not asked. *)
RevokeTokens(sender, p, n) ==
    /\ Running /\ NotFrozen(sender, p)
    /\ n > 0 /\ Affords(sender, p, n)
    /\ revoked' = [revoked EXCEPT ![p] = @ + n]
    /\ AssertedThenNotify(Updatable(tally, sender, p, -n, "BALANCE"),
                          Updated(tally, sender, p, -n, "BALANCE"))
    /\ UNCHANGED <<freezing, granted>>

Amounts == 1 .. MaxInt

TNext ==
    \/ \E s, r \in Addr, p \in Prop, n \in Amounts : SimpleSend(s, r, p, n)
    \/ \E s, r \in Addr, e \in {TL_PROPERTY_MSC, TL_PROPERTY_TMSC} : SendAll(s, r, e)
    \/ \E s \in Addr, p \in Prop, n \in Amounts : SendToOwners(s, p, n)
    \/ \E s \in Addr, p, q \in Prop, n \in Amounts : SendToOwnersV1(s, p, n, q)
    \/ \E s, r \in Addr, p \in Prop, n \in 0 .. MaxInt : SendVestingTokens(s, r, p, n)
    \/ \E s, r \in Addr, p \in Managed, n \in Amounts : GrantTokens(s, r, p, n)
    \/ \E s \in Addr, p \in Managed, n \in Amounts : RevokeTokens(s, p, n)
    \/ /\ \E type \in Types, s \in Addr, r \in Addr, p \in Managed :
              /\ type \in {"ENABLE", "DISABLE"} => r = s
              /\ FreezeTx(type, s, r, p)
       /\ UNCHANGED <<granted, revoked>>
    \/ /\ \E s, r \in Addr, p \in Managed : ChangeIssuer(s, r, p)
       /\ UNCHANGED <<granted, revoked>>

TSpec == TInit /\ [][TNext]_tvars
-----------------------------------------------------------------------------
(* A managed token exists exactly as often as historicalData says: granted *)
(* and not revoked since, whatever was sent, split or frozen in between.   *)
SupplyIsHistory ==
    Running => \A p \in Managed : getTotalTokens(p) = granted[p] - revoked[p]

(* "no more than MAX_INT tokens can ever exist" of a managed property, and *)
(* no balance runs out of its range.                                       *)
SupplyLimit ==
    \A p \in Prop : getTotalTokens(p) <= MaxInt

(* Tokens that are not managed are neither made nor, except for the fees   *)
(* of a "send to owners", destroyed.                                       *)
FixedSupply ==
    [][\A p \in Prop \ Managed :
          \/ getTotalTokens(p)' = getTotalTokens(p)
          \/ /\ p \in {TL_PROPERTY_MSC, TL_PROPERTY_TMSC}
             /\ getTotalTokens(p)' < getTotalTokens(p)
             /\ \E s \in Addr, q \in Prop, n \in Amounts : SendToOwners(s, q, n)]_tvars

(* What is frozen stays: no transaction of anybody lowers the balance of   *)
(* an address for a property it is frozen for.                             *)
FrozenStays ==
    [][\A f \in setFrozenAddresses :
          tally'[f[1]][f[2]]["BALANCE"] >= tally[f[1]][f[2]]["BALANCE"]]_tvars

(* The asserts of the ledger, among them the one on frozen balances that   *)
(* "should never fail if everything else is working properly", hold after  *)
(* the checks of every handler but two, which halt with values of their    *)
(* own: disableFreezing asserts after an erase, and a vesting send checks  *)
(* nothing.                                                                *)
NeverAsserts == halted # "assert"
=============================================================================
