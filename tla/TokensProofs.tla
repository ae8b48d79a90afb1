---------------------------- MODULE TokensProofs ----------------------------
(***************************************************************************)
(* Proofs about the tokens that are sent, split, granted and revoked while *)
(* issuers freeze addresses.                                               *)
(***************************************************************************)
EXTENDS Tokens, FreezingProofs, DistributionProofs

(* The provers of a step that names none, with their time limits. *)
USE SMTT(20), ZenonT(20)

-----------------------------------------------------------------------------
(* The invariant *)

(* The inductive invariant: types, FreezeInv, and the three properties of  *)
(* states.                                                                 *)
TokensInv ==
    /\ tally \in Ledger
    /\ FreezeInv
    /\ granted \in [Managed -> Nat] /\ revoked \in [Managed -> Nat]
    /\ SupplyIsHistory
    /\ SupplyLimit
    /\ NeverAsserts

LEMMA TokensState ==
  ASSUME TokensInv
  PROVE  /\ LedgerOK /\ tally \in Ledger
         /\ \A p \in Prop : Total(tally, p) \in Nat /\ Total(tally, p) <= MaxInt
         /\ \A f \in setFrozenAddresses : f \in Addr \X Prop /\ f = <<f[1], f[2]>>
         /\ \A f \in setFrozenAddresses : f[2] \in Managed
<1>1. setFrozenAddresses \subseteq Addr \X Managed
  BY DEF TokensInv, FreezeInv, State, States
<1>2. Managed \subseteq Prop
  BY FreezingAssumption
<1>3. \A p \in Prop : Total(tally, p) <= MaxInt
  BY DEF TokensInv, SupplyLimit, getTotalTokens, Total
<1>4. \A p \in Prop : Total(tally, p) \in Nat
  BY TotalType DEF TokensInv
<1>5. \A f \in Addr \X Managed : f[2] \in Managed /\ f = <<f[1], f[2]>> /\ f \in Addr \X Prop
  BY <1>2
<1>6. LedgerOK
  BY <1>1, <1>2, <1>3, Zenon DEF TokensInv, LedgerOK
<1> QED
  BY <1>1, <1>3, <1>4, <1>5, <1>6, Zenon DEF TokensInv

-----------------------------------------------------------------------------
(* Tokens: one lemma per transaction *)

(* The step leaves d more of q, passes the asserts and records what it     *)
(* grants or revokes; only managed properties gain, and what is not        *)
(* managed loses by a "send to owners" alone.                              *)
Step(q, d) ==
    /\ Becomes(tally', q, d)
    /\ UNCHANGED freezing
    /\ halted' # "assert"
    /\ granted' \in [Managed -> Nat] /\ revoked' \in [Managed -> Nat]
    /\ Running' => \A p \in Managed :
                      granted'[p] - revoked'[p]
                        = granted[p] - revoked[p] + (IF p = q THEN d ELSE 0)
    /\ \/ q \in Managed
       \/ d = 0
       \/ /\ d < 0 /\ q \in {TL_PROPERTY_MSC, TL_PROPERTY_TMSC}
          /\ \E s \in Addr, p \in Prop, n \in Amounts : SendToOwners(s, p, n)

(* A step that changes no total and records nothing. *)
LEMMA QuietStep ==
  ASSUME TokensInv, NEW q, Becomes(tally', q, 0), UNCHANGED <<freezing, granted, revoked>>,
         halted' # "assert"
  PROVE  \E d \in Int : Step(q, d)
<1>1. granted \in [Managed -> Nat] /\ revoked \in [Managed -> Nat]
  BY DEF TokensInv
<1>2. \A p \in Managed : granted[p] - revoked[p] = granted[p] - revoked[p] + 0
  BY <1>1
<1>3. Step(q, 0)
  BY <1>1, <1>2 DEF Step
<1> QED
  BY <1>3

LEMMA SimpleSendStep ==
  ASSUME TokensInv, NEW s \in Addr, NEW r \in Addr, NEW p \in Prop, NEW n \in Amounts,
         SimpleSend(s, r, p, n)
  PROVE  \E q \in Prop, d \in Int : Step(q, d)
<1>1. n \in Nat \ {0}
  BY TallyAssumption DEF Amounts
<1>2. n <= tally[s][p]["BALANCE"] /\ ~isAddressFrozen(s, p)
  BY DEF SimpleSend, Affords, GetTokenBalance, NotFrozen
<1>3. /\ Movable(tally, p, n, s, "BALANCE", r, "BALANCE")
      /\ Becomes(Moved(tally, p, n, s, "BALANCE", r, "BALANCE"), p, 0)
  BY <1>1, <1>2, TokensState, TransferBecomes, Zenon
<1>4. /\ tally' = Moved(tally, p, n, s, "BALANCE", r, "BALANCE") /\ halted' = "no"
      /\ UNCHANGED <<freezing, granted, revoked>>
  BY <1>3 DEF SimpleSend, Asserted
<1> QED
  BY <1>3, <1>4, QuietStep, Zenon

LEMMA SendAllStep ==
  ASSUME TokensInv, NEW s \in Addr, NEW r \in Addr, NEW e, SendAll(s, r, e)
  PROVE  \E q \in Prop, d \in Int : Step(q, d)
<1> DEFINE sent == SendAllProps(s, e)
           had(p) == tally[s][p]["BALANCE"]
           u == SentAll(s, r, sent)
<1>0. tally \in Ledger /\ "BALANCE" \in TallyType
  BY TallyAssumption DEF TokensInv
<1>1. ASSUME NEW p \in sent
      PROVE  /\ p \in Prop /\ ~isAddressFrozen(s, p) /\ had(p) \in Nat \ {0}
             /\ Movable(tally, p, had(p), s, "BALANCE", r, "BALANCE")
             /\ Becomes(Moved(tally, p, had(p), s, "BALANCE", r, "BALANCE"), p, 0)
  <2>1. p \in Prop /\ ~isAddressFrozen(s, p) /\ had(p) > 0
    BY DEF SendAllProps
  <2>2. had(p) \in Nat \ {0} /\ had(p) <= had(p)
    BY <1>0, <2>1, TotalType
  <2> QED
    BY <2>1, <2>2, TokensState, TransferBecomes, Zenon
<1>2. PICK p \in Prop : p \in sent
  <2>1. sent # {}
    BY DEF SendAll
  <2> QED
    BY <1>1, <2>1, Zenon
<1>3. /\ tally' = IF s = r THEN tally ELSE u
      /\ halted' = "no" /\ UNCHANGED <<freezing, granted, revoked>>
  BY <1>1, Zenon DEF SendAll, Asserted
<1>4. CASE s = r
  BY <1>3, <1>4, TokensState, StaysTheSame, QuietStep, ZenonT(30)
<1>5. CASE s # r
  <2>1. u \in [Addr -> [Prop -> [TallyType -> Int]]]
    BY <1>0, <1>5 DEF Ledger, SentAll
  <2>2. \A a \in Addr, q \in Prop, x \in TallyType :
           u[a][q][x] = IF q \in sent /\ x = "BALANCE" /\ a = s THEN 0
                        ELSE IF q \in sent /\ x = "BALANCE" /\ a = r
                        THEN tally[r][q]["BALANCE"] + had(q)
                        ELSE tally[a][q][x]
    BY <1>0, <1>5, ZenonT(30) DEF Ledger, SentAll
  <2> HIDE DEF u, sent
  <2>3. \A a \in Addr, q \in Prop, x \in TallyType : tally[a][q][x] \in Nat
    BY <1>0 DEF Ledger
  <2>4. u \in Ledger
    <3>1. \A a \in Addr, q \in Prop, x \in TallyType : u[a][q][x] \in Nat
      BY <1>0, <2>2, <2>3
    <3> QED
      BY <2>1, <3>1 DEF Ledger
  <2>5. ASSUME NEW q \in Prop PROVE Total(u, q) = Total(tally, q)
    <3>1. OwnedTypes \subseteq TallyType
      BY DEF OwnedTypes
    <3>2. CASE q \in sent
      <4> PICK n \in Nat : n = had(q)
        BY <1>1, <3>2, Zenon
      <4> PICK v : v = Moved(tally, q, n, s, "BALANCE", r, "BALANCE")
        OBVIOUS
      <4>1. ASSUME NEW a \in Addr, NEW x \in TallyType PROVE u[a][q][x] = v[a][q][x]
        <5>1. Transferred(v, tally, s, r, q, n)
          BY <1>0, <1>5, MovedEntries, Zenon
        <5>2. u[a][q][x] = IF x = "BALANCE" /\ a = s THEN 0
                           ELSE IF x = "BALANCE" /\ a = r THEN tally[r][q]["BALANCE"] + n
                           ELSE tally[a][q][x]
          BY <2>2, <3>2, Zenon
        <5>3. v[a][q][x] = IF x = "BALANCE" /\ a = s THEN tally[s][q]["BALANCE"] - n
                           ELSE IF x = "BALANCE" /\ a = r THEN tally[r][q]["BALANCE"] + n
                           ELSE tally[a][q][x]
          BY <5>1, Zenon DEF Transferred
        <5>4. tally[s][q]["BALANCE"] - n = 0
          BY <1>0, <2>3
        <5> QED
          BY <5>2, <5>3, <5>4, Zenon
      <4>2. Total(u, q) = Total(v, q)
        BY <3>1, <4>1, SameTotal, ZenonT(30)
      <4>3. Total(v, q) = Total(tally, q) + 0
        BY <1>1, <3>2, Zenon DEF Becomes
      <4> QED
        BY <4>2, <4>3, TokensState
    <3>3. CASE q \notin sent
      <4>1. \A a \in Addr, x \in OwnedTypes : u[a][q][x] = tally[a][q][x]
        BY <2>2, <3>1, <3>3, Zenon
      <4> QED
        BY <4>1, SameTotal, Zenon
    <3> QED
      BY <3>2, <3>3
  <2>6. ASSUME NEW f \in setFrozenAddresses
        PROVE  u[f[1]][f[2]]["BALANCE"] >= tally[f[1]][f[2]]["BALANCE"]
    <3>1. f[1] \in Addr /\ f[2] \in Prop /\ f = <<f[1], f[2]>>
      BY TokensState
    <3>2. f[2] \in sent => f[1] # s /\ had(f[2]) \in Nat
      <4>1. f[2] \in sent => ~isAddressFrozen(s, f[2])
        BY <1>1
      <4> QED
        BY <2>3, <1>0, <3>1, <4>1, Zenon DEF isAddressFrozen
    <3> QED
      BY <1>0, <2>2, <2>3, <3>1, <3>2
  <2>7. Becomes(u, p, 0)
    BY <2>4, <2>5, <2>6, TokensState DEF Becomes
  <2> QED
    BY <1>3, <1>5, <2>7, QuietStep, Zenon
<1> QED
  BY <1>4, <1>5

LEMMA SendToOwnersStep ==
  ASSUME TokensInv, NEW s \in Addr, NEW p \in Prop, NEW n \in Amounts, SendToOwners(s, p, n)
  PROVE  \E q \in Prop, d \in Int : Step(q, d)
<1>0. tally \in Ledger /\ n \in Nat \ {0}
  BY TallyAssumption DEF TokensInv, Amounts
<1>1. PICK sh : sh = STO_GetReceivers(tally, s, p, n)
  OBVIOUS
<1>2. PICK fee : fee = TRANSFER_FEE_PER_OWNER * Cardinality(DOMAIN sh)
  OBVIOUS
<1>3. PICK fp : fp = feeProperty(p)
  OBVIOUS
<1>4. PICK paid : paid = Updated(tally, s, fp, -fee, "BALANCE")
  OBVIOUS
<1>5. PICK deb : deb = Updated(paid, s, p, -n, "BALANCE")
  OBVIOUS
<1>6. /\ ~isAddressFrozen(s, p) /\ tally[s][p]["BALANCE"] >= n
      /\ sh # << >> /\ UNCHANGED <<freezing, granted, revoked>>
      /\ IF fp # p THEN tally[s][fp]["BALANCE"] >= fee ELSE tally[s][p]["BALANCE"] >= n + fee
  BY <1>1, <1>2, <1>3, Zenon DEF SendToOwners, NotFrozen, Affords, AffordsWithFee, GetTokenBalance
<1>7. AssertedThenNotify(
         /\ Updatable(tally, s, fp, -fee, "BALANCE")
         /\ Updatable(paid, s, p, -n, "BALANCE")
         /\ \A a \in DOMAIN sh : Updatable(deb, a, p, sh[a], "BALANCE")
         /\ SumOf(sh) = n,
         Shared(deb, p, sh))
  BY <1>1, <1>2, <1>3, <1>4, <1>5, ZenonT(30) DEF SendToOwners, Shared
<1>8. Splits(sh, tally, s, p, n)
  BY <1>0, <1>1, ReceiversSplit, Zenon
<1>9. fee \in Nat \ {0}
  <2>1. Cardinality(DOMAIN sh) \in Nat \ {0}
    BY <1>6, <1>8, SomebodyReceives, Zenon
  <2>2. TRANSFER_FEE_PER_OWNER \in Nat \ {0}
    BY TokensAssumption
  <2> QED
    BY <1>2, <2>1, <2>2
<1>10. fp \in {TL_PROPERTY_MSC, TL_PROPERTY_TMSC} /\ fp \in Prop /\ fp \notin Managed
  <2>1. fp \in {TL_PROPERTY_MSC, TL_PROPERTY_TMSC}
    BY <1>3 DEF feeProperty
  <2> QED
    BY <2>1, TokensAssumption
<1>11. \A a \in Addr : ~isAddressFrozen(a, fp)
  BY <1>10, TokensState, Zenon DEF isAddressFrozen
<1>12. PICK u : u = Shared(deb, p, sh)
  OBVIOUS
<1>13. /\ Updatable(tally, s, fp, -fee, "BALANCE")
       /\ Updatable(paid, s, p, -n, "BALANCE")
       /\ \A a \in DOMAIN sh : Updatable(deb, a, p, sh[a], "BALANCE")
       /\ SumOf(sh) = n
       /\ Becomes(u, fp, -fee)
  <2>1. SplitPaid(paid, deb, sh, s, p, n, fp, fee)
    BY <1>0, <1>4, <1>5, <1>6, <1>8, <1>9, <1>10, <1>11, TokensState, SplitBecomes, ZenonT(30)
  <2> QED
    BY <1>12, <2>1, Zenon DEF SplitPaid
<1>14. CASE tally' = u /\ halted' = "no"
  <2>1. \A q \in Managed : /\ q # fp
                           /\ granted[q] - revoked[q] = granted[q] - revoked[q] + 0
    BY <1>10 DEF TokensInv
  <2>2. -fee < 0 /\ -fee \in Int
    BY <1>9
  <2>3. Step(fp, -fee)
    BY <1>6, <1>10, <1>13, <1>14, <2>1, <2>2, Zenon DEF Step, TokensInv
  <2> QED
    BY <1>10, <2>2, <2>3, Zenon
<1>15. CASE tally' = tally /\ halted' = "null"
  <2>1. Becomes(tally', fp, 0)
    BY <1>15, TokensState, StaysTheSame, Zenon
  <2>2. halted' # "assert"
    BY <1>15
  <2> QED
    BY <1>6, <1>10, <2>1, <2>2, QuietStep, ZenonT(30)
<1>16. (tally' = u /\ halted' = "no") \/ (tally' = tally /\ halted' = "null")
  BY <1>7, <1>12, <1>13, Zenon DEF AssertedThenNotify, Asserted, AsksFeeCache
<1> QED
  BY <1>14, <1>15, <1>16, Zenon

(* A step that ends the process before it changes the ledger. *)
LEMMA EndStep ==
  ASSUME TokensInv, NEW p \in Prop, UNCHANGED <<tally, freezing, granted, revoked>>,
         halted' # "assert"
  PROVE  \E q \in Prop, d \in Int : Step(q, d)
<1>1. Becomes(tally', p, 0)
  BY TokensState, StaysTheSame, ZenonT(30)
<1> QED
  BY <1>1, QuietStep, Zenon

LEMMA SendToOwnersV1Step ==
  ASSUME TokensInv, NEW s \in Addr, NEW p \in Prop, NEW q \in Prop, NEW n \in Amounts,
         SendToOwnersV1(s, p, n, q)
  PROVE  \E r \in Prop, d \in Int : Step(r, d)
<1>0. tally \in Ledger /\ n \in Nat \ {0}
  BY TallyAssumption DEF TokensInv, Amounts
<1>1. PICK sh : sh = STO_GetReceivers(tally, s, q, n)
  OBVIOUS
<1>2. PICK fee : fee = TRANSFER_FEE_PER_OWNER_V1 * Cardinality(DOMAIN sh)
  OBVIOUS
<1>3. PICK fp : fp = feeProperty(p)
  OBVIOUS
<1>4. /\ sh # << >> /\ UNCHANGED <<tally, freezing, granted, revoked>>
      /\ IF fp # p THEN tally[s][fp]["BALANCE"] >= fee ELSE tally[s][p]["BALANCE"] >= n + fee
      /\ Updatable(tally, s, fp, -fee, "BALANCE") => halted' = "null"
  BY <1>1, <1>2, <1>3, Zenon
  DEF SendToOwnersV1, Affords, AffordsWithFee, GetTokenBalance, AsksFeeCache
<1>5. Splits(sh, tally, s, q, n)
  BY <1>0, <1>1, ReceiversSplit, Zenon
<1>6. fee \in Nat \ {0}
  <2>1. Cardinality(DOMAIN sh) \in Nat \ {0}
    BY <1>4, <1>5, SomebodyReceives, Zenon
  <2>2. TRANSFER_FEE_PER_OWNER_V1 \in Nat \ {0}
    BY TokensAssumption
  <2> QED
    BY <1>2, <2>1, <2>2
<1>7. fp \in Prop /\ fp \notin Managed
  <2>1. fp \in {TL_PROPERTY_MSC, TL_PROPERTY_TMSC}
    BY <1>3 DEF feeProperty
  <2> QED
    BY <2>1, TokensAssumption
<1>8. ~isAddressFrozen(s, fp)
  BY <1>7, TokensState DEF isAddressFrozen
<1>9. fee <= tally[s][fp]["BALANCE"]
  BY <1>0, <1>4, <1>6, <1>7, TotalType
<1>10. Updatable(tally, s, fp, -fee, "BALANCE")
  BY <1>0, <1>6, <1>7, <1>8, <1>9, TokensState, CanDebit, Zenon
<1>11. halted' # "assert"
  BY <1>4, <1>10, Zenon
<1> QED
  BY <1>4, <1>11, EndStep, Zenon

LEMMA SendVestingTokensStep ==
  ASSUME TokensInv, NEW s \in Addr, NEW r \in Addr, NEW p \in Prop, NEW n \in 0 .. MaxInt,
         SendVestingTokens(s, r, p, n)
  PROVE  \E q \in Prop, d \in Int : Step(q, d)
<1> DEFINE sent == Moved(tally, p, n, s, "BALANCE", r, "BALANCE")
           possible == /\ Movable(tally, p, n, s, "BALANCE", r, "BALANCE")
                       /\ Updatable(sent, r, TL_PROPERTY_MSC, n, "UNVESTED")
<1>1. CASE ~possible
  <2>1. UNCHANGED <<tally, freezing, granted, revoked>> /\ halted' = "vesting"
    BY <1>1, Zenon DEF SendVestingTokens
  <2> QED
    BY <2>1, EndStep
<1>2. CASE possible
  <2>1. /\ tally' = Updated(sent, r, TL_PROPERTY_MSC, n, "UNVESTED") /\ halted' = halted
        /\ UNCHANGED <<freezing, granted, revoked>> /\ ~isAddressFrozen(s, p)
    BY <1>2, Zenon DEF SendVestingTokens, NotFrozen
  <2>2. tally \in Ledger /\ n \in Nat /\ "UNVESTED" \in TallyType /\ TL_PROPERTY_MSC \in Prop
    BY TallyAssumption, TokensAssumption DEF TokensInv
  <2>3. n \in Nat \ {0} /\ n <= tally[s][p]["BALANCE"]
    <3>1. tally[s][p]["BALANCE"] \in Nat
      BY <2>2, TotalType, Zenon
    <3>2. -n # 0 /\ tally[s][p]["BALANCE"] + (-n) >= 0
      BY <1>2, Zenon DEF Movable, Updatable
    <3> QED
      BY <2>2, <3>1, <3>2
  <2>4. Becomes(sent, p, 0)
    BY <2>1, <2>3, TokensState, TransferBecomes, Zenon
  <2> HIDE DEF sent
  <2>5. sent \in Ledger
    BY <2>4 DEF Becomes
  <2>6. Added(tally', sent, r, TL_PROPERTY_MSC, "UNVESTED", n)
    <3>1. sent[r][TL_PROPERTY_MSC]["UNVESTED"] \in Nat
      BY <2>2, <2>5 DEF Ledger
    <3>2. sent[r][TL_PROPERTY_MSC]["UNVESTED"] + n >= 0 /\ n \in Int
      BY <2>2, <3>1
    <3> QED
      BY <2>1, <2>2, <2>5, <3>2, UpdatedAdds, Zenon
  <2>7. "UNVESTED" \notin OwnedTypes /\ "BALANCE" \in TallyType
    BY TallyAssumption DEF OwnedTypes
  <2>8. \A q \in Prop : Total(tally', q) = Total(sent, q)
    <3>1. \A q \in Prop : Total(tally', q) = Total(sent, q) + 0
      BY <2>6, <2>7, Zenon DEF Added
    <3>2. \A q \in Prop : Total(sent, q) \in Nat
      BY <2>5, TotalType, Zenon
    <3> QED
      BY <3>1, <3>2
  <2>9. \A a \in Addr, q \in Prop : tally'[a][q]["BALANCE"] = sent[a][q]["BALANCE"]
    <3>1. \A a \in Addr, q \in Prop : sent[a][q]["BALANCE"] \in Nat
      BY <2>5, TotalType, Zenon
    <3>2. \A a \in Addr, q \in Prop : tally'[a][q]["BALANCE"] = sent[a][q]["BALANCE"] + 0
      BY <2>6, <2>7, Zenon DEF Added
    <3> QED
      BY <3>1, <3>2
  <2>10. Becomes(tally', p, 0)
    <3>1. \A f \in setFrozenAddresses : f[1] \in Addr /\ f[2] \in Prop
      BY TokensState
    <3>2. tally' \in Ledger
      BY <2>6 DEF Added
    <3> QED
      BY <2>4, <2>8, <2>9, <3>1, <3>2, Zenon DEF Becomes
  <2>11. halted' # "assert"
    BY <2>1 DEF TokensInv, NeverAsserts
  <2> QED
    BY <2>1, <2>10, <2>11, QuietStep, ZenonT(30)
<1> QED
  BY <1>1, <1>2, Zenon

LEMMA GrantTokensStep ==
  ASSUME TokensInv, NEW s \in Addr, NEW r \in Addr, NEW p \in Managed, NEW n \in Amounts,
         GrantTokens(s, r, p, n)
  PROVE  \E q \in Prop, d \in Int : Step(q, d)
<1>0. /\ tally \in Ledger /\ n \in Nat \ {0} /\ "BALANCE" \in TallyType /\ p \in Prop
      /\ MaxInt \in Nat /\ granted \in [Managed -> Nat] /\ revoked \in [Managed -> Nat]
  BY TallyAssumption, FreezingAssumption DEF TokensInv, Amounts
<1>1. CASE WithinLimit(p, n) /\ granted' = [granted EXCEPT ![p] = @ + n]
           /\ Asserted(Updatable(tally, r, p, n, "BALANCE"), Updated(tally, r, p, n, "BALANCE"))
  <2>1. Total(tally, p) + n <= MaxInt
    <3>1. n <= MaxInt - Total(tally, p) /\ Total(tally, p) \in Nat
      BY <1>0, <1>1, TotalType, Zenon DEF WithinLimit, getTotalTokens, Total
    <3> QED
      BY <1>0, <3>1
  <2>2. Updatable(tally, r, p, n, "BALANCE")
    BY <1>0, <2>1, CanCredit, Zenon
  <2>3. tally' = Updated(tally, r, p, n, "BALANCE") /\ halted' = "no"
    BY <1>1, <2>2, Zenon DEF Asserted
  <2>4. Added(tally', tally, r, p, "BALANCE", n)
    <3>1. tally[r][p]["BALANCE"] + n >= 0 /\ n \in Int
      BY <1>0, TotalType
    <3> QED
      BY <1>0, <2>3, <3>1, UpdatedAdds, Zenon
  <2>5. Becomes(tally', p, n)
    BY <1>0, <2>1, <2>4, TokensState, UpdateBecomes
  <2>6. UNCHANGED <<freezing, revoked>>
    BY DEF GrantTokens
  <2>7. /\ granted' \in [Managed -> Nat]
        /\ \A q \in Managed : granted'[q] - revoked[q]
                                = granted[q] - revoked[q] + (IF q = p THEN n ELSE 0)
    BY <1>0, <1>1
  <2>8. Step(p, n)
    BY <1>0, <2>3, <2>5, <2>6, <2>7, Zenon DEF Step
  <2> QED
    BY <1>0, <2>8
<1>2. CASE AsksFeeCache /\ UNCHANGED granted
  <2>1. UNCHANGED <<tally, freezing, granted, revoked>> /\ halted' # "assert"
    BY <1>2 DEF GrantTokens, AsksFeeCache
  <2> QED
    BY <1>0, <2>1, EndStep, Zenon
<1> QED
  BY <1>1, <1>2, Zenon DEF GrantTokens

LEMMA RevokeTokensStep ==
  ASSUME TokensInv, NEW s \in Addr, NEW p \in Managed, NEW n \in Amounts, RevokeTokens(s, p, n)
  PROVE  \E q \in Prop, d \in Int : Step(q, d)
<1>0. /\ tally \in Ledger /\ n \in Nat \ {0} /\ "BALANCE" \in TallyType /\ p \in Prop
      /\ MaxInt \in Nat /\ granted \in [Managed -> Nat] /\ revoked \in [Managed -> Nat]
  BY TallyAssumption, FreezingAssumption DEF TokensInv, Amounts
<1>1. /\ ~isAddressFrozen(s, p) /\ tally[s][p]["BALANCE"] >= n
      /\ revoked' = [revoked EXCEPT ![p] = @ + n] /\ UNCHANGED <<freezing, granted>>
  BY DEF RevokeTokens, NotFrozen, Affords, GetTokenBalance
<1>2. n <= tally[s][p]["BALANCE"] /\ tally[s][p]["BALANCE"] \in Nat
  BY <1>0, <1>1, TotalType, Zenon
<1>3. Updatable(tally, s, p, -n, "BALANCE")
  BY <1>0, <1>1, <1>2, TokensState, CanDebit, Zenon
<1>4. revoked' \in [Managed -> Nat]
  BY <1>0, <1>1
<1>5. CASE tally' = Updated(tally, s, p, -n, "BALANCE") /\ halted' = "no"
  <2>1. -n \in Int /\ tally[s][p]["BALANCE"] + (-n) >= 0 /\ Total(tally, p) + (-n) <= MaxInt
    BY <1>0, <1>2, TokensState
  <2>2. Added(tally', tally, s, p, "BALANCE", -n)
    BY <1>0, <1>5, <2>1, UpdatedAdds, Zenon
  <2>3. Becomes(tally', p, -n)
    BY <1>0, <1>1, <2>1, <2>2, TokensState, UpdateBecomes, Zenon
  <2>4. \A q \in Managed : granted[q] - revoked'[q]
                             = granted[q] - revoked[q] + (IF q = p THEN -n ELSE 0)
    BY <1>0, <1>1
  <2>5. Step(p, -n)
    BY <1>0, <1>1, <1>4, <1>5, <2>3, <2>4, Zenon DEF Step
  <2> QED
    BY <1>0, <2>1, <2>5, Zenon
<1>6. CASE tally' = tally /\ halted' = "null"
  <2>1. Becomes(tally', p, 0)
    BY <1>6, TokensState, StaysTheSame, ZenonT(30)
  <2>2. Step(p, 0)
    BY <1>0, <1>1, <1>4, <1>6, <2>1, Zenon DEF Step, Running
  <2> QED
    BY <1>0, <2>2
<1>7. (tally' = Updated(tally, s, p, -n, "BALANCE") /\ halted' = "no")
      \/ (tally' = tally /\ halted' = "null")
  BY <1>3, Zenon DEF RevokeTokens, AssertedThenNotify, Asserted, AsksFeeCache
<1> QED
  BY <1>5, <1>6, <1>7, Zenon

-----------------------------------------------------------------------------
(* Tokens: the theorems *)

LEMMA TokensInvInit == TInit => TokensInv
<1> SUFFICES ASSUME TInit PROVE TokensInv
  OBVIOUS
<1>1. /\ tally = Endowed /\ halted = "no" /\ FreezeInv
      /\ granted = [p \in Managed |-> 0] /\ revoked = [p \in Managed |-> 0]
  BY FreezeInvInit DEF TInit
<1>2. /\ \A p \in Prop, a \in Addr : Endowment[p][a] \in Nat
      /\ \A p \in Prop : Endowment[p] \in [Addr -> Nat]
  BY TokensAssumption
<1>3. tally \in Ledger
  BY <1>1, <1>2, Zenon DEF Endowed, Ledger
<1>4. ASSUME NEW p \in Prop PROVE getTotalTokens(p) = SumOf(Endowment[p])
  <2> DEFINE ts == OwnedTypes \ {"BALANCE"}
             f == [x \in Addr \X ts |-> tally[x[1]][p][x[2]]]
  <2>0. IsFiniteSet(OwnedTypes)
    BY <1>3, OwnedType
  <2>1. /\ ts \cup {"BALANCE"} = OwnedTypes /\ ts \in SUBSET TallyType
        /\ "BALANCE" \in TallyType \ ts
    BY TallyAssumption DEF OwnedTypes
  <2>2. IsFiniteSet(ts) /\ IsFiniteSet(Addr)
    BY <2>0, STOAssumption, FS_Subset, Zenon
  <2>3. f \in [Addr \X ts -> Nat] /\ \A x \in Addr \X ts : f[x] = 0
    BY <1>1, <2>1, Zenon DEF Endowed
  <2>4. [a \in Addr |-> tally[a][p]["BALANCE"]] = Endowment[p]
    BY <1>1, <1>2, <2>1, Zenon DEF Endowed
  <2> HIDE DEF ts
  <2>5. Supply(tally, p, ts) = 0
    <3> HIDE DEF f
    <3>1. SumOf(f) = 0
      BY <2>3, SumOfZero
    <3> QED
      BY <3>1, Zenon DEF Supply, f
  <2>6. Supply(tally, p, OwnedTypes) = Supply(tally, p, ts) + SumOf(Endowment[p])
    BY <1>3, <2>1, <2>2, <2>4, SupplyAdd
  <2>7. SumOf(Endowment[p]) \in Nat
    BY <1>2, <2>2, SumOfType, Zenon
  <2> QED
    BY <2>5, <2>6, <2>7 DEF getTotalTokens
<1>5. SupplyLimit
  BY <1>4, EndowmentAssumption DEF SupplyLimit
<1>6. SupplyIsHistory
  <2>1. ASSUME NEW p \in Managed PROVE getTotalTokens(p) = 0
    <3>1. p \in Prop /\ \A a \in Addr : Endowment[p][a] = 0
      BY FreezingAssumption, EndowmentAssumption
    <3>2. SumOf(Endowment[p]) = 0
      BY <1>2, <3>1, SumOfZero, Zenon
    <3> QED
      BY <1>4, <3>1, <3>2, Zenon
  <2> QED
    BY <1>1, <2>1 DEF SupplyIsHistory
<1> QED
  BY <1>1, <1>3, <1>5, <1>6, Zenon DEF TokensInv, NeverAsserts

(* What the transactions of Freezing leave alone. *)
Bystander ==
    /\ UNCHANGED <<tally, granted, revoked>>
    /\ FreezeInv'
    /\ halted' # "assert" /\ (Running' => Running)

(* Every step of the specification is one of the two. *)
LEMMA StepOrBystander ==
  ASSUME TokensInv, [TNext]_tvars
  PROVE  Bystander \/ (Running /\ \E q \in Prop, d \in Int : Step(q, d))
<1>0. FreezeInv /\ halted # "assert"
  BY DEF TokensInv, NeverAsserts
<1>1. CASE \E s, r \in Addr, p \in Prop, n \in Amounts : SimpleSend(s, r, p, n)
  BY <1>1, SimpleSendStep, Zenon DEF SimpleSend
<1>2. CASE \E s, r \in Addr, e \in {TL_PROPERTY_MSC, TL_PROPERTY_TMSC} : SendAll(s, r, e)
  <2>1. PICK s \in Addr, r \in Addr, e \in {TL_PROPERTY_MSC, TL_PROPERTY_TMSC} : SendAll(s, r, e)
    BY <1>2
  <2>2. Running
    BY <2>1 DEF SendAll
  <2> QED
    BY <2>1, <2>2, SendAllStep, Zenon
<1>3. CASE \E s \in Addr, p \in Prop, n \in Amounts : SendToOwners(s, p, n)
  <2>1. PICK s \in Addr, p \in Prop, n \in Amounts : SendToOwners(s, p, n)
    BY <1>3
  <2>2. Running
    BY <2>1, Zenon DEF SendToOwners
  <2> QED
    BY <2>1, <2>2, SendToOwnersStep, Zenon
<1>4. CASE \E s \in Addr, p, q \in Prop, n \in Amounts : SendToOwnersV1(s, p, n, q)
  <2>1. PICK s \in Addr, p \in Prop, q \in Prop, n \in Amounts : SendToOwnersV1(s, p, n, q)
    BY <1>4
  <2>2. Running
    BY <2>1 DEF SendToOwnersV1
  <2> QED
    BY <2>1, <2>2, SendToOwnersV1Step, ZenonT(30)
<1>5. CASE \E s, r \in Addr, p \in Prop, n \in 0 .. MaxInt : SendVestingTokens(s, r, p, n)
  BY <1>5, SendVestingTokensStep, ZenonT(30) DEF SendVestingTokens
<1>6. CASE \E s, r \in Addr, p \in Managed, n \in Amounts : GrantTokens(s, r, p, n)
  BY <1>6, GrantTokensStep, ZenonT(30) DEF GrantTokens
<1>7. CASE \E s \in Addr, p \in Managed, n \in Amounts : RevokeTokens(s, p, n)
  BY <1>7, RevokeTokensStep, Zenon DEF RevokeTokens
<1>8. CASE /\ \E type \in Types, s \in Addr, r \in Addr, p \in Managed :
                  /\ type \in {"ENABLE", "DISABLE"} => r = s
                  /\ FreezeTx(type, s, r, p)
           /\ UNCHANGED <<granted, revoked>>
  <2>1. PICK type \in Types, s \in Addr, r \in Addr, p \in Managed : FreezeTx(type, s, r, p)
    BY <1>8
  <2>2. FreezeInv'
    BY <1>0, <2>1, FreezeTxKeeps, Zenon
  <2>3. Running /\ tally' = tally /\ halted' # "assert"
    BY <2>1, Zenon DEF FreezeTx, Outcomes
  <2> QED
    BY <1>8, <2>2, <2>3, Zenon DEF Bystander
<1>9. CASE /\ \E s, r \in Addr, p \in Managed : ChangeIssuer(s, r, p)
           /\ UNCHANGED <<granted, revoked>>
  BY <1>0, <1>9, Zenon DEF ChangeIssuer, Bystander, FreezeInv, State, Running
<1>10. CASE UNCHANGED tvars
  BY <1>0, <1>10, Zenon DEF tvars, vars, Bystander, FreezeInv, State, Running
<1> QED
  BY <1>1, <1>2, <1>3, <1>4, <1>5, <1>6, <1>7, <1>8, <1>9, <1>10, ZenonT(30) DEF TNext

LEMMA TokensStep ==
  ASSUME TokensInv, [TNext]_tvars
  PROVE  TokensInv'
<1>1. CASE Bystander
  BY <1>1 DEF Bystander, TokensInv, SupplyIsHistory, SupplyLimit, NeverAsserts, getTotalTokens,
              Running
<1>2. CASE Running /\ \E q \in Prop, d \in Int : Step(q, d)
  <2>1. PICK q \in Prop, d \in Int : Step(q, d)
    BY <1>2
  <2>2. tally' \in Ledger /\ SupplyLimit'
    BY <2>1, Zenon DEF Step, Becomes, SupplyLimit, getTotalTokens, Total
  <2>3. FreezeInv'
    <3>1. UNCHANGED <<setFreezingEnabledProperties, setFrozenAddresses, block, txlist>>
      BY <2>1 DEF Step, freezing
    <3> QED
      BY <1>2, <3>1, Zenon DEF TokensInv, FreezeInv, State, Running
  <2>4. SupplyIsHistory'
    <3> SUFFICES ASSUME Running', NEW p \in Managed
                 PROVE  getTotalTokens(p)' = granted'[p] - revoked'[p]
      BY DEF SupplyIsHistory
    <3>1. p \in Prop
      BY FreezingAssumption
    <3>2. Total(tally', p) = Total(tally, p) + (IF p = q THEN d ELSE 0)
      BY <2>1, <3>1, Zenon DEF Step, Becomes
    <3>3. Total(tally, p) = granted[p] - revoked[p]
      BY <1>2 DEF TokensInv, SupplyIsHistory, getTotalTokens, Total
    <3>4. granted'[p] - revoked'[p] = granted[p] - revoked[p] + (IF p = q THEN d ELSE 0)
      BY <2>1 DEF Step
    <3> QED
      BY <3>2, <3>3, <3>4, Zenon DEF getTotalTokens, Total
  <2>5. granted' \in [Managed -> Nat] /\ revoked' \in [Managed -> Nat] /\ NeverAsserts'
    BY <2>1 DEF Step, NeverAsserts
  <2> QED
    BY <2>2, <2>3, <2>4, <2>5, Zenon DEF TokensInv
<1> QED
  BY <1>1, <1>2, StepOrBystander, Zenon

LEMMA TokensInvariant == TSpec => []TokensInv
BY TokensInvInit, TokensStep, PTL DEF TSpec

(* For any addresses, properties, endowment and limits: a managed token    *)
(* exists exactly as often as historicalData of GrantTokens and            *)
(* RevokeTokens says.                                                      *)
THEOREM SupplyRecorded == TSpec => []SupplyIsHistory
<1>1. TokensInv => SupplyIsHistory
  BY DEF TokensInv
<1> QED
  BY <1>1, TokensInvariant, PTL

(* No sequence of grants, revocations, sends and splits makes more than    *)
(* MAX_INT tokens of any property.                                         *)
THEOREM NoMoreThanMaxInt == TSpec => []SupplyLimit
<1>1. TokensInv => SupplyLimit
  BY DEF TokensInv
<1> QED
  BY <1>1, TokensInvariant, PTL

(* No assert on update_tally_map fails after the checks of a handler,      *)
(* however addresses are frozen and thawed between the transactions.       *)
THEOREM LedgerAssertsHold == TSpec => []NeverAsserts
<1>1. TokensInv => NeverAsserts
  BY DEF TokensInv
<1> QED
  BY <1>1, TokensInvariant, PTL

(* No step makes tokens of a property that is not managed, and only the    *)
(* fee of a "send to owners" destroys some.                                *)
THEOREM OnlyFeesBurn == TSpec => FixedSupply
<1> DEFINE A == \A p \in Prop \ Managed :
                   \/ getTotalTokens(p)' = getTotalTokens(p)
                   \/ /\ p \in {TL_PROPERTY_MSC, TL_PROPERTY_TMSC}
                      /\ getTotalTokens(p)' < getTotalTokens(p)
                      /\ \E s \in Addr, q \in Prop, n \in Amounts : SendToOwners(s, q, n)
<1>1. TokensInv /\ [TNext]_tvars => A
  <2> SUFFICES ASSUME TokensInv, [TNext]_tvars, NEW p \in Prop \ Managed
               PROVE  \/ getTotalTokens(p)' = getTotalTokens(p)
                      \/ /\ p \in {TL_PROPERTY_MSC, TL_PROPERTY_TMSC}
                         /\ getTotalTokens(p)' < getTotalTokens(p)
                         /\ \E s \in Addr, q \in Prop, n \in Amounts : SendToOwners(s, q, n)
    OBVIOUS
  <2>1. CASE Bystander
    BY <2>1 DEF Bystander, getTotalTokens
  <2>2. CASE \E q \in Prop, d \in Int : Step(q, d)
    <3>1. PICK q \in Prop, d \in Int : Step(q, d)
      BY <2>2
    <3>2. /\ getTotalTokens(p)' = getTotalTokens(p) + (IF p = q THEN d ELSE 0)
          /\ getTotalTokens(p) \in Nat
      BY <3>1, TokensState, Zenon DEF Step, Becomes, Total, getTotalTokens
    <3>3. CASE p # q \/ d = 0
      BY <3>2, <3>3
    <3>4. CASE p = q /\ d # 0
      <4>1. /\ d < 0 /\ p \in {TL_PROPERTY_MSC, TL_PROPERTY_TMSC}
            /\ \E s \in Addr, x \in Prop, n \in Amounts : SendToOwners(s, x, n)
        BY <3>1, <3>4, Zenon DEF Step
      <4> QED
        BY <3>2, <3>4, <4>1
    <3> QED
      BY <3>3, <3>4, Zenon
  <2> QED
    BY <2>1, <2>2, StepOrBystander, Zenon
<1>2. TokensInv /\ [TNext]_tvars => [A]_tvars
  BY <1>1
<1> QED
  BY <1>2, TokensInvariant, PTL, ZenonT(30) DEF TSpec, FixedSupply

(* No transaction of anybody lowers a frozen balance. *)
THEOREM FrozenBalancesStay == TSpec => FrozenStays
<1> DEFINE A == \A f \in setFrozenAddresses :
                   tally'[f[1]][f[2]]["BALANCE"] >= tally[f[1]][f[2]]["BALANCE"]
<1>1. TokensInv /\ [TNext]_tvars => A
  <2> SUFFICES ASSUME TokensInv, [TNext]_tvars PROVE A
    OBVIOUS
  <2>1. CASE Bystander
    <3>1. Becomes(tally, 0, 0) /\ tally' = tally
      BY <2>1, TokensState, StaysTheSame, Zenon DEF Bystander
    <3> QED
      BY <3>1, Zenon DEF Becomes
  <2>2. CASE \E q \in Prop, d \in Int : Step(q, d)
    BY <2>2, Zenon DEF Step, Becomes
  <2> QED
    BY <2>1, <2>2, StepOrBystander, Zenon
<1>2. TokensInv /\ [TNext]_tvars => [A]_tvars
  BY <1>1, Zenon
<1> QED
  BY <1>2, TokensInvariant, PTL, ZenonT(30) DEF TSpec, FrozenStays
=============================================================================
