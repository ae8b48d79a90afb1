------------------------------ MODULE DExProofs ------------------------------
(***************************************************************************)
(* Theorems about the traditional exchange, for any addresses, properties, *)
(* amounts and heights.                                                    *)
(*                                                                         *)
(* What each handler does to the ledger, the offers and the accepts is     *)
(* worked out once, in the lemma Steps; the theorems are then about a      *)
(* listing, an accept, a payment and the end of a block.                   *)
(***************************************************************************)
EXTENDS DEx, LedgerTheorems

(* The provers of a step that names none, with their time limits. *)
USE SMTT(20), ZenonT(20)

-----------------------------------------------------------------------------
(* The ledger *)

LEMMA Finite ==
  /\ TallyType = {"BALANCE", "SELLOFFER_RESERVE", "ACCEPT_RESERVE"}
  /\ IsFiniteSet(TallyType) /\ IsFiniteSet(Addr)
  /\ Sellers \subseteq Addr /\ Buyers \subseteq Addr
<1>1. /\ TallyType = {"BALANCE", "SELLOFFER_RESERVE", "ACCEPT_RESERVE"}
      /\ IsFiniteSet(Addr) /\ Sellers \subseteq Addr /\ Buyers \subseteq Addr
  BY DExAssumption DEF DExTypes
<1>2. IsFiniteSet({"BALANCE", "SELLOFFER_RESERVE", "ACCEPT_RESERVE"})
  <2>1. /\ IsFiniteSet({} \cup {"BALANCE"})
        /\ {} \cup {"BALANCE"} = {"BALANCE"}
    BY FS_EmptySet, FS_AddElement
  <2>2. /\ IsFiniteSet({"BALANCE"} \cup {"SELLOFFER_RESERVE"})
        /\ {"BALANCE"} \cup {"SELLOFFER_RESERVE"} = {"BALANCE", "SELLOFFER_RESERVE"}
    BY <2>1, FS_AddElement
  <2>3. /\ IsFiniteSet({"BALANCE", "SELLOFFER_RESERVE"} \cup {"ACCEPT_RESERVE"})
        /\ {"BALANCE", "SELLOFFER_RESERVE"} \cup {"ACCEPT_RESERVE"}
             = {"BALANCE", "SELLOFFER_RESERVE", "ACCEPT_RESERVE"}
    BY <2>2, FS_AddElement
  <2> QED
    BY <2>3
<1> QED
  BY <1>1, <1>2

LEMMA Entries ==
  ASSUME NEW t \in Ledger, NEW a \in Addr, NEW q \in Prop
  PROVE  /\ t[a][q]["BALANCE"] \in Nat
         /\ t[a][q]["SELLOFFER_RESERVE"] \in Nat
         /\ t[a][q]["ACCEPT_RESERVE"] \in Nat
BY Finite DEF Ledger

(* The tokens of q that a has, available or reserved. *)
Whole(t, a, q) ==
    t[a][q]["BALANCE"] + t[a][q]["SELLOFFER_RESERVE"] + t[a][q]["ACCEPT_RESERVE"]

(* The supply is what the addresses have. *)
LEMMA SupplyByAddress ==
  ASSUME NEW t \in Ledger, NEW q \in Prop
  PROVE  Supply(t, q, TallyType) = SumOf([a \in Addr |-> Whole(t, a, q)])
<1> DEFINE f == [a \in Addr |-> t[a][q]["BALANCE"]]
           g == [a \in Addr |-> t[a][q]["SELLOFFER_RESERVE"]]
           h == [a \in Addr |-> t[a][q]["ACCEPT_RESERVE"]]
           fg == [a \in Addr |-> f[a] + g[a]]
<1>1. f \in [Addr -> Nat] /\ g \in [Addr -> Nat] /\ h \in [Addr -> Nat]
  BY Entries
<1>2. fg \in [Addr -> Nat]
  BY <1>1
<1>3. [a \in Addr |-> fg[a] + h[a]] = [a \in Addr |-> Whole(t, a, q)]
  BY DEF Whole
<1>4. /\ Supply(t, q, {"BALANCE"}) = SumOf(f)
      /\ Supply(t, q, {"BALANCE"} \cup {"SELLOFFER_RESERVE"}) = SumOf(f) + SumOf(g)
      /\ Supply(t, q, {"BALANCE", "SELLOFFER_RESERVE"} \cup {"ACCEPT_RESERVE"})
           = Supply(t, q, {"BALANCE", "SELLOFFER_RESERVE"}) + SumOf(h)
  <2>1. Supply(t, q, {"BALANCE"}) = SumOf(f)
    BY Finite, SupplyOne, Zenon
  <2>2. /\ {"BALANCE"} \in SUBSET TallyType
        /\ {"BALANCE", "SELLOFFER_RESERVE"} \in SUBSET TallyType
        /\ "SELLOFFER_RESERVE" \in TallyType \ {"BALANCE"}
        /\ "ACCEPT_RESERVE" \in TallyType \ {"BALANCE", "SELLOFFER_RESERVE"}
    BY Finite
  <2>3. IsFiniteSet({"BALANCE"}) /\ IsFiniteSet({"BALANCE", "SELLOFFER_RESERVE"})
    BY <2>2, Finite, FS_Subset, Zenon
  <2>4. Supply(t, q, {"BALANCE"} \cup {"SELLOFFER_RESERVE"})
          = Supply(t, q, {"BALANCE"}) + SumOf(g)
    BY <2>2, <2>3, Finite, SupplyAdd
  <2>5. Supply(t, q, {"BALANCE", "SELLOFFER_RESERVE"} \cup {"ACCEPT_RESERVE"})
          = Supply(t, q, {"BALANCE", "SELLOFFER_RESERVE"}) + SumOf(h)
    BY <2>2, <2>3, Finite, SupplyAdd
  <2> QED
    BY <2>1, <2>4, <2>5, Zenon
<1> HIDE DEF f, g, h
<1>5. SumOf(fg) = SumOf(f) + SumOf(g)
  BY <1>1, Finite, SumOfPlus
<1> HIDE DEF fg
<1>6. SumOf([a \in Addr |-> fg[a] + h[a]]) = SumOf(fg) + SumOf(h)
  BY <1>1, <1>2, Finite, SumOfPlus
<1>7. /\ {"BALANCE"} \cup {"SELLOFFER_RESERVE"} = {"BALANCE", "SELLOFFER_RESERVE"}
      /\ {"BALANCE", "SELLOFFER_RESERVE"} \cup {"ACCEPT_RESERVE"} = TallyType
  BY Finite
<1> QED
  BY <1>3, <1>4, <1>5, <1>6, <1>7, Zenon

(* Both ledgers hold as much of every property. *)
SameSupply(u, t) == \A q \in Prop : Supply(u, q, TallyType) = Supply(t, q, TallyType)

LEMMA WholeKept ==
  ASSUME NEW t \in Ledger, NEW u \in Ledger,
         \A a \in Addr, q \in Prop : Whole(u, a, q) = Whole(t, a, q)
  PROVE  SameSupply(u, t)
<1> SUFFICES ASSUME NEW q \in Prop
             PROVE  Supply(u, q, TallyType) = Supply(t, q, TallyType)
  BY DEF SameSupply
<1>1. [a \in Addr |-> Whole(u, a, q)] = [a \in Addr |-> Whole(t, a, q)]
  OBVIOUS
<1> QED
  BY <1>1, SupplyByAddress, Zenon

(* Within the entries of s for p: d more are on sale, e more accepted, the *)
(* rest comes from the balance.                                            *)
Shifted(u, t, s, p, d, e) ==
    /\ u \in Ledger
    /\ \A a \in Addr, q \in Prop : <<a, q>> # <<s, p>> => u[a][q] = t[a][q]
    /\ u[s][p]["SELLOFFER_RESERVE"] = t[s][p]["SELLOFFER_RESERVE"] + d
    /\ u[s][p]["ACCEPT_RESERVE"] = t[s][p]["ACCEPT_RESERVE"] + e
    /\ u[s][p]["BALANCE"] = t[s][p]["BALANCE"] - d - e

LEMMA ShiftedSupply ==
  ASSUME NEW t \in Ledger, NEW u, NEW s \in Addr, NEW p \in Prop, NEW d \in Int, NEW e \in Int,
         Shifted(u, t, s, p, d, e)
  PROVE  SameSupply(u, t)
<1>1. ASSUME NEW a \in Addr, NEW q \in Prop PROVE Whole(u, a, q) = Whole(t, a, q)
  <2>1. CASE <<a, q>> = <<s, p>>
    BY <2>1, Entries DEF Whole, Shifted
  <2>2. CASE <<a, q>> # <<s, p>>
    BY <2>2, Zenon DEF Whole, Shifted
  <2> QED
    BY <2>1, <2>2
<1>2. u \in Ledger
  BY DEF Shifted
<1> QED
  BY <1>1, <1>2, WholeKept, Zenon

(* A transfer between two types of the same address. *)
Within(m, t, s, p, n, tf, tt) ==
    /\ m \in Ledger
    /\ \A a \in Addr, q \in Prop : <<a, q>> # <<s, p>> => m[a][q] = t[a][q]
    /\ \A x \in TallyType : m[s][p][x] =
         IF x = tf THEN t[s][p][x] - n ELSE IF x = tt THEN t[s][p][x] + n ELSE t[s][p][x]

LEMMA MovedWithin ==
  ASSUME NEW t \in Ledger, NEW s \in Addr, NEW p \in Prop, NEW n \in Nat,
         NEW tf \in TallyType, NEW tt \in TallyType, tf # tt, n <= t[s][p][tf]
  PROVE  Within(Moved(t, p, n, s, tf, s, tt), t, s, p, n, tf, tt)
<1> DEFINE m == Moved(t, p, n, s, tf, s, tt)
<1>1. t[s][p][tf] \in Nat /\ n \in 0 .. t[s][p][tf]
  BY DEF Ledger
<1>2. m \in Ledger /\ EntriesMoved(m, t, p, n, s, tf, s, tt)
  <2>1. m \in Ledger
    BY <1>1, Finite, MovedSupply, Zenon
  <2>2. n \in Int
    OBVIOUS
  <2>3. EntriesMoved(m, t, p, n, s, tf, s, tt)
    BY <2>2, MovedValue, Zenon
  <2> QED
    BY <2>1, <2>3
<1> HIDE DEF m
<1>3. ASSUME NEW a \in Addr, NEW q \in Prop, NEW x \in TallyType
      PROVE  m[a][q][x] = IF <<a, q>> # <<s, p>> THEN t[a][q][x]
                          ELSE IF x = tf THEN t[s][p][x] - n
                          ELSE IF x = tt THEN t[s][p][x] + n ELSE t[s][p][x]
  <2>1. t[a][q][x] \in Nat
    BY DEF Ledger
  <2> QED
    BY <1>2, <2>1 DEF EntriesMoved, Share
<1>4. ASSUME NEW a \in Addr, NEW q \in Prop, <<a, q>> # <<s, p>> PROVE m[a][q] = t[a][q]
  <2>1. m[a][q] \in [TallyType -> Nat] /\ t[a][q] \in [TallyType -> Nat]
    BY <1>2 DEF Ledger
  <2> QED
    BY <1>3, <1>4, <2>1
<1> QED
  BY <1>2, <1>3, <1>4, Zenon DEF m, Within

(* Creating an offer. *)
LEMMA CreateShifts ==
  ASSUME NEW t \in Ledger, NEW s \in Addr, NEW p \in Prop, NEW n \in Nat,
         n <= t[s][p]["BALANCE"]
  PROVE  Shifted(Moved(t, p, n, s, "BALANCE", s, "SELLOFFER_RESERVE"), t, s, p, n, 0)
<1> DEFINE m == Moved(t, p, n, s, "BALANCE", s, "SELLOFFER_RESERVE")
<1>0. /\ "BALANCE" \in TallyType /\ "SELLOFFER_RESERVE" \in TallyType
      /\ "BALANCE" # "SELLOFFER_RESERVE"
  BY Finite
<1>1. Within(m, t, s, p, n, "BALANCE", "SELLOFFER_RESERVE")
  BY <1>0, MovedWithin, Zenon
<1> HIDE DEF m
<1>2. Shifted(m, t, s, p, n, 0)
  BY <1>1, Finite, Entries DEF Within, Shifted
<1> QED
  BY <1>2 DEF m

(* Accepting a part of an offer. *)
LEMMA AcceptShifts ==
  ASSUME NEW t \in Ledger, NEW s \in Addr, NEW p \in Prop, NEW n \in Nat,
         n <= t[s][p]["SELLOFFER_RESERVE"]
  PROVE  Shifted(Moved(t, p, n, s, "SELLOFFER_RESERVE", s, "ACCEPT_RESERVE"), t, s, p, -n, n)
<1> DEFINE m == Moved(t, p, n, s, "SELLOFFER_RESERVE", s, "ACCEPT_RESERVE")
<1>0. /\ "SELLOFFER_RESERVE" \in TallyType /\ "ACCEPT_RESERVE" \in TallyType
      /\ "SELLOFFER_RESERVE" # "ACCEPT_RESERVE"
  BY Finite
<1>1. Within(m, t, s, p, n, "SELLOFFER_RESERVE", "ACCEPT_RESERVE")
  BY <1>0, MovedWithin, Zenon
<1> HIDE DEF m
<1>2. Shifted(m, t, s, p, -n, n)
  BY <1>1, Finite, Entries DEF Within, Shifted
<1> QED
  BY <1>2 DEF m

(* Destroying an offer. *)
LEMMA ReturnShifts ==
  ASSUME NEW t \in Ledger, NEW s \in Addr, NEW p \in Prop
  PROVE  Shifted(Returned(t, s, p), t, s, p, -t[s][p]["SELLOFFER_RESERVE"], 0)
<1> DEFINE n == t[s][p]["SELLOFFER_RESERVE"]
           m == Moved(t, p, n, s, "SELLOFFER_RESERVE", s, "BALANCE")
<1>0. /\ n \in Nat /\ t[s][p]["BALANCE"] \in Nat /\ t[s][p]["ACCEPT_RESERVE"] \in Nat
      /\ n <= t[s][p]["SELLOFFER_RESERVE"]
  BY Entries
<1>1. CASE n > 0
  <2>1. Within(m, t, s, p, n, "SELLOFFER_RESERVE", "BALANCE")
    <3>1. /\ "SELLOFFER_RESERVE" \in TallyType /\ "BALANCE" \in TallyType
          /\ "SELLOFFER_RESERVE" # "BALANCE"
      BY Finite
    <3> HIDE DEF n
    <3> QED
      BY <1>0, <3>1, MovedWithin, Zenon
  <2>2. Returned(t, s, p) = m
    BY <1>1 DEF Returned
  <2> HIDE DEF m
  <2> QED
    BY <1>0, <2>1, <2>2, Finite DEF Within, Shifted
<1>2. CASE ~(n > 0)
  <2>1. Returned(t, s, p) = t /\ n = 0
    BY <1>0, <1>2 DEF Returned
  <2> QED
    BY <1>0, <2>1 DEF Shifted
<1> QED
  BY <1>1, <1>2

(* What a step is called when the process does not halt in it.             *)

(* The seller's offer is gone, or a new one is listed, and its tokens are  *)
(* what is on sale.                                                        *)
Listed(s, p) ==
    /\ UNCHANGED <<setFrozenAddresses, halted, my_accepts, block>>
    /\ FreeDEx \/ p \in {TL_PROPERTY_MSC, TL_PROPERTY_TMSC}
    /\ \/ /\ my_offers' = Erase(my_offers, {<<s, p>>})
          /\ Shifted(tally', tally, s, p, -tally[s][p]["SELLOFFER_RESERVE"], 0)
       \/ \E offer \in Offer :
            /\ offer.amount \in Amounts /\ offer.desired \in Desired
            /\ offer.txid \in FreshTxid
            /\ my_offers' = Put(my_offers, <<s, p>>, offer)
            /\ Shifted(tally', tally, s, p,
                       offer.amount - tally[s][p]["SELLOFFER_RESERVE"], 0)

(* The supply is in the range of an int64_t. *)
SupplyFits == \A q \in Prop : Supply(tally, q, TallyType) <= MaxInt

LEMMA SameSupplyFits ==
  ASSUME SupplyFits, NEW u, SameSupply(u, tally), NEW q \in Prop
  PROVE  Supply(u, q, TallyType) <= MaxInt
BY DEF SupplyFits, SameSupply

(* DEx_offerCreate fails for want of tokens or of room only. *)
LEMMA CreateStep ==
  ASSUME NEW t \in Ledger, SameSupply(t, tally), NEW offers, NEW s \in Addr, NEW p \in Prop,
         ~isAddressFrozen(s, p), NEW amount \in Amounts, NEW desired, NEW fee, NEW window,
         NEW h, Creatable(t, offers, s, p, amount, desired, window),
         DEx_offerCreate(t, offers, s, p, amount, desired, fee, window, h)
  PROVE  \/ Halt("assert") /\ ~SupplyFits
         \/ /\ UNCHANGED <<setFrozenAddresses, halted, my_accepts, block>>
            /\ my_offers' = Put(offers, <<s, p>>,
                   [amount |-> amount, desired |-> desired, minFee |-> fee,
                    window |-> window, txid |-> h])
            /\ Shifted(tally', t, s, p, amount, 0)
<1>1. /\ amount \in Nat /\ amount > 0 /\ amount <= t[s][p]["BALANCE"]
      /\ t[s][p]["BALANCE"] \in Nat
  BY DExAssumption, Entries, Zenon DEF Creatable
<1>2. CASE Movable(t, p, amount, s, "BALANCE", s, "SELLOFFER_RESERVE")
  BY <1>1, <1>2, CreateShifts, Zenon DEF DEx_offerCreate
<1>3. CASE ~Movable(t, p, amount, s, "BALANCE", s, "SELLOFFER_RESERVE")
  <2>1. Halt("assert")
    BY <1>3 DEF DEx_offerCreate
  <2>2. ASSUME SupplyFits PROVE FALSE
    <3>1. Supply(t, p, TallyType) <= MaxInt
      BY <2>2, SameSupplyFits
    <3>2. amount \in 1 .. t[s][p]["BALANCE"]
      BY <1>1
    <3> QED
      BY <1>3, <3>1, <3>2, Finite, MoveFits, Zenon
  <2> QED
    BY <2>1, <2>2
<1> QED
  BY <1>2, <1>3, Zenon

LEMMA PutErased ==
  ASSUME NEW m, NEW k, NEW v
  PROVE  Put(Erase(m, {k}), k, v) = Put(m, k, v)
BY DEF Put, Erase

LEMMA ShiftedTwice ==
  ASSUME NEW t \in Ledger, NEW s \in Addr, NEW p \in Prop, NEW u, NEW v,
         NEW d \in Int, NEW e \in Int, Shifted(u, t, s, p, d, 0), Shifted(v, u, s, p, e, 0)
  PROVE  Shifted(v, t, s, p, e + d, 0)
BY Entries DEF Shifted

(* Transaction 20 fails for want of room only. *)
LEMMA TradeOfferStep ==
  ASSUME TypeOK, NoStrandedReserve, NEW s \in Addr, NEW p \in Prop, TradeOffer(s, p)
  PROVE  Listed(s, p) \/ (Halt("assert") /\ ~SupplyFits)
<1> DEFINE t == Returned(tally, s, p)
           offers == Erase(my_offers, {<<s, p>>})
           r == tally[s][p]["SELLOFFER_RESERVE"]
           offer(amount, desired, fee, window, h) ==
               [amount |-> amount, desired |-> desired, minFee |-> fee,
                window |-> window, txid |-> h]
<1>1. tally \in Ledger /\ r \in Nat /\ -r \in Int
  BY Entries DEF TypeOK, Ledger
<1>2. Shifted(t, tally, s, p, -r, 0)
  BY <1>1, ReturnShifts
<1>3. t \in Ledger /\ SameSupply(t, tally) /\ SameSupply(tally, tally)
  <2>1. t \in Ledger
    BY <1>2, Zenon DEF Shifted
  <2>2. SameSupply(t, tally)
    BY <1>1, <1>2, ShiftedSupply
  <2> QED
    BY <2>1, <2>2 DEF SameSupply
<1>4. /\ ~isAddressFrozen(s, p)
      /\ FreeDEx \/ p \in {TL_PROPERTY_MSC, TL_PROPERTY_TMSC}
  BY DEF TradeOffer
<1>5. ASSUME ~Returnable(tally, s, p) PROVE ~SupplyFits
  <2>1. r \in 1 .. tally[s][p]["SELLOFFER_RESERVE"]
    BY <1>1, <1>5 DEF Returnable
  <2>2. ~Movable(tally, p, r, s, "SELLOFFER_RESERVE", s, "BALANCE")
    BY <1>5 DEF Returnable
  <2> HIDE DEF r
  <2> QED
    BY <1>1, <2>1, <2>2, Finite, MoveFits, Zenon DEF SupplyFits
<1> HIDE DEF t, offers, r
<1>6. ASSUME NEW amount \in Amounts, NEW desired \in Desired, NEW fee \in Fees,
             NEW window \in Windows, NEW h \in FreshTxid,
             desired # 0, window # 0, amount > 0
      PROVE  /\ offer(amount, desired, fee, window, h) \in Offer
             /\ offer(amount, desired, fee, window, h).amount = amount
             /\ offer(amount, desired, fee, window, h).desired = desired
             /\ offer(amount, desired, fee, window, h).txid = h
             /\ amount \in Nat
  BY <1>6, DExAssumption DEF Offer, FreshTxid
<1> HIDE DEF offer
<1>7. ASSUME NEW amount \in Amounts, NEW desired \in Desired, NEW fee \in Fees,
             NEW window \in Windows, NEW h \in FreshTxid,
             desired # 0, window # 0, amount > 0,
             UNCHANGED <<setFrozenAddresses, halted, my_accepts, block>>,
             my_offers' = Put(my_offers, <<s, p>>, offer(amount, desired, fee, window, h)),
             Shifted(tally', tally, s, p, amount - r, 0)
      PROVE  Listed(s, p)
  <2>1. PICK o : o = offer(amount, desired, fee, window, h)
    OBVIOUS
  <2>2. o \in Offer /\ o.amount = amount /\ o.desired = desired /\ o.txid = h
    BY <1>6, <1>7, <2>1
  <2> QED
    BY <1>4, <1>7, <2>1, <2>2, Zenon DEF Listed, r
<1>8. ASSUME NEW amount \in Amounts, NEW desired \in Desired, NEW fee \in Fees,
             NEW window \in Windows, NEW h \in FreshTxid,
             Creatable(tally, my_offers, s, p, amount, desired, window),
             DEx_offerCreate(tally, my_offers, s, p, amount, desired, fee, window, h)
      PROVE  Listed(s, p) \/ (Halt("assert") /\ ~SupplyFits)
  <2>1. r = 0
    BY <1>1, <1>8 DEF Creatable, NoStrandedReserve, r
  <2>2. CASE /\ UNCHANGED <<setFrozenAddresses, halted, my_accepts, block>>
             /\ my_offers' = Put(my_offers, <<s, p>>, offer(amount, desired, fee, window, h))
             /\ Shifted(tally', tally, s, p, amount, 0)
    <3>1. amount - r = amount /\ desired # 0 /\ window # 0 /\ amount > 0
      BY <1>8, <2>1, DExAssumption DEF Creatable
    <3> QED
      BY <1>7, <2>2, <3>1, Zenon
  <2> QED
    BY <1>1, <1>3, <1>4, <1>8, <2>2, CreateStep DEF offer
<1>9. ASSUME NEW amount \in Amounts, NEW desired \in Desired, NEW fee \in Fees,
             NEW window \in Windows, NEW h \in FreshTxid,
             DEx_offerUpdate(s, p, amount, desired, fee, window, h)
      PROVE  Listed(s, p) \/ (Halt("assert") /\ ~SupplyFits)
  <2>1. CASE ~Returnable(tally, s, p)
    BY <1>5, <1>9, <2>1, Zenon DEF DEx_offerUpdate
  <2>2. CASE /\ Creatable(t, offers, s, p, amount, desired, window)
             /\ DEx_offerCreate(t, offers, s, p, amount, desired, fee, window, h)
    <3>1. CASE /\ UNCHANGED <<setFrozenAddresses, halted, my_accepts, block>>
               /\ my_offers' = Put(offers, <<s, p>>, offer(amount, desired, fee, window, h))
               /\ Shifted(tally', t, s, p, amount, 0)
      <4>1. /\ amount + (-r) = amount - r /\ amount \in Int
            /\ desired # 0 /\ window # 0 /\ amount > 0
        BY <1>1, <2>2, DExAssumption DEF Creatable
      <4>2. Shifted(tally', tally, s, p, amount + (-r), 0)
        BY <1>1, <1>2, <3>1, <4>1, ShiftedTwice, Zenon
      <4> QED
        BY <1>7, <3>1, <4>1, <4>2, PutErased, Zenon DEF offers
    <3> QED
      BY <1>3, <1>4, <2>2, <3>1, CreateStep, ZenonT(30) DEF offer
  <2>3. CASE /\ tally' = t /\ my_offers' = offers
             /\ UNCHANGED <<setFrozenAddresses, halted, my_accepts, block>>
    BY <1>2, <1>4, <2>3, Zenon DEF Listed, offers, r
  <2> QED
    BY <1>9, <2>1, <2>2, <2>3, ZenonT(30) DEF DEx_offerUpdate, t, offers
<1>10. ASSUME DEx_offerDestroy(s, p)
       PROVE  Listed(s, p) \/ (Halt("assert") /\ ~SupplyFits)
  <2>1. CASE ~Returnable(tally, s, p)
    BY <1>5, <1>10, <2>1 DEF DEx_offerDestroy
  <2>2. CASE Returnable(tally, s, p)
    BY <1>2, <1>4, <1>10, <2>2, Zenon DEF DEx_offerDestroy, Listed, t, offers, r
  <2> QED
    BY <2>1, <2>2
<1> QED
  BY <1>8, <1>9, <1>10, Zenon DEF TradeOffer

(* The buyer b has accepted n tokens of the offer of s. *)
Taken(b, s, p, n) ==
    /\ UNCHANGED <<setFrozenAddresses, halted, my_offers, block>>
    /\ <<s, p>> \in DOMAIN my_offers
    /\ <<s, p, b>> \notin DOMAIN my_accepts
    /\ n \in Nat \ {0}
    /\ \E accept \in Accept :
         LET offer == my_offers[<<s, p>>]
         IN  /\ accept.remaining = n /\ accept.block = block
             /\ accept.amount = offer.amount /\ accept.desired = offer.desired
             /\ accept.txid = offer.txid
             /\ my_accepts' = Put(my_accepts, <<s, p, b>>, accept)
    /\ Shifted(tally', tally, s, p, -n, n)

(* Transaction 22 fails for want of room only. *)
LEMMA AcceptOfferStep ==
  ASSUME TypeOK, NEW b \in Addr, NEW s \in Addr, NEW p \in Prop,
         NEW amount \in Amounts, NEW fee \in Fees, AcceptOffer_BTC(b, s, p, amount, fee)
  PROVE  (\E n \in Nat : Taken(b, s, p, n)) \/ (Halt("assert") /\ ~SupplyFits)
<1> DEFINE n == AmountReserved(s, p, amount)
           offer == my_offers[<<s, p>>]
           accept == [remaining |-> n, block |-> block,
                      window |-> offer.window, amount |-> offer.amount,
                      desired |-> offer.desired, txid |-> offer.txid]
<1>1. tally \in Ledger /\ tally[s][p]["SELLOFFER_RESERVE"] \in Nat
  BY Entries, ZenonT(30) DEF TypeOK, Ledger
<1>2. n \in Nat /\ n <= tally[s][p]["SELLOFFER_RESERVE"]
  BY <1>1, DExAssumption DEF AmountReserved, GetTokenBalance
<1>3. /\ <<s, p>> \in DOMAIN my_offers /\ <<s, p, b>> \notin DOMAIN my_accepts
      /\ n > 0 /\ offer \in Offer
  BY Zenon DEF AcceptOffer_BTC, Acceptable, TypeOK
<1>4. \/ Halt("assert") /\ ~Movable(tally, p, n, s, "SELLOFFER_RESERVE", s, "ACCEPT_RESERVE")
      \/ /\ tally' = Moved(tally, p, n, s, "SELLOFFER_RESERVE", s, "ACCEPT_RESERVE")
         /\ my_accepts' = Put(my_accepts, <<s, p, b>>, accept)
         /\ UNCHANGED <<setFrozenAddresses, halted, my_offers, block>>
  BY Zenon DEF AcceptOffer_BTC
<1> HIDE DEF n
<1>5. /\ accept \in Accept /\ accept.remaining = n /\ accept.block = block
      /\ accept.amount = offer.amount /\ accept.desired = offer.desired
      /\ accept.txid = offer.txid
  BY <1>2, <1>3, Zenon DEF Accept, Offer, TypeOK
<1> HIDE DEF accept
<1>6. CASE Halt("assert") /\ ~Movable(tally, p, n, s, "SELLOFFER_RESERVE", s, "ACCEPT_RESERVE")
  <2>1. n \in 1 .. tally[s][p]["SELLOFFER_RESERVE"]
    BY <1>1, <1>2, <1>3
  <2> QED
    BY <1>1, <1>6, <2>1, Finite, MoveFits, Zenon DEF SupplyFits
<1>7. CASE /\ tally' = Moved(tally, p, n, s, "SELLOFFER_RESERVE", s, "ACCEPT_RESERVE")
           /\ my_accepts' = Put(my_accepts, <<s, p, b>>, accept)
           /\ UNCHANGED <<setFrozenAddresses, halted, my_offers, block>>
  <2>1. Shifted(tally', tally, s, p, -n, n)
    BY <1>1, <1>2, <1>7, AcceptShifts, Zenon
  <2> QED
    BY <1>2, <1>3, <1>5, <1>7, <2>1 DEF Taken
<1> QED
  BY <1>4, <1>6, <1>7, Zenon

(* The buyer b has got n tokens of the accept under k from s. *)
Paid(k, s, b, n) ==
    /\ UNCHANGED <<setFrozenAddresses, halted, block>>
    /\ n \in 0 .. my_accepts[k].remaining
    /\ tally' \in Ledger /\ SameSupply(tally', tally)
    /\ \A a \in Addr, q \in Prop :
         /\ tally'[a][q]["SELLOFFER_RESERVE"] = tally[a][q]["SELLOFFER_RESERVE"]
         /\ tally'[a][q]["ACCEPT_RESERVE"]
              = tally[a][q]["ACCEPT_RESERVE"] - (IF <<a, q>> = <<s, k[2]>> THEN n ELSE 0)
    /\ DOMAIN my_accepts' = IF n = my_accepts[k].remaining
                            THEN DOMAIN my_accepts \ {<<s, k[2], b>>} ELSE DOMAIN my_accepts
    /\ \A j \in DOMAIN my_accepts' :
         my_accepts'[j] = IF j = k THEN [my_accepts[k] EXCEPT !.remaining = my_accepts[k].remaining - n]
                          ELSE my_accepts[j]
    /\ \/ my_offers' = my_offers
       \/ my_offers' = Erase(my_offers, {<<s, k[2]>>}) /\ SoldOut(tally', s, k[2])

(* A payment only takes from what the paid accept holds. *)
LEMMA PaidAccepts ==
  ASSUME TypeOK, NEW k \in DOMAIN my_accepts, NEW s, NEW b, NEW n \in Nat, Paid(k, s, b, n),
         NEW j \in DOMAIN my_accepts'
  PROVE  /\ j \in DOMAIN my_accepts /\ my_accepts'[j] \in Accept
         /\ my_accepts'[j].remaining = my_accepts[j].remaining - (IF j = k THEN n ELSE 0)
         /\ my_accepts'[j].block = my_accepts[j].block
         /\ my_accepts'[j].window = my_accepts[j].window
         /\ my_accepts'[j].amount = my_accepts[j].amount
         /\ my_accepts'[j].desired = my_accepts[j].desired
         /\ my_accepts'[j].txid = my_accepts[j].txid
<1>1. j \in DOMAIN my_accepts /\ my_accepts[j] \in Accept
  BY DEF Paid, TypeOK
<1>2. n <= my_accepts[k].remaining /\ my_accepts[k].remaining \in Nat
  BY DEF Paid, TypeOK, Accept
<1>3. CASE j = k
  <2> DEFINE r == my_accepts[k]
  <2>1. my_accepts'[j] = [r EXCEPT !.remaining = r.remaining - n]
    BY <1>3 DEF Paid
  <2>2. r \in Accept /\ r.remaining \in Nat /\ r.remaining - n \in Nat
    BY <1>1, <1>2, <1>3
  <2> HIDE DEF r
  <2>3. /\ my_accepts'[j] \in Accept /\ my_accepts'[j].remaining = r.remaining - n
        /\ my_accepts'[j].block = r.block /\ my_accepts'[j].window = r.window
        /\ my_accepts'[j].amount = r.amount /\ my_accepts'[j].desired = r.desired
        /\ my_accepts'[j].txid = r.txid
    BY <2>1, <2>2 DEF Accept
  <2> QED
    BY <1>1, <1>3, <2>3, Zenon DEF r
<1>4. CASE j # k
  <2>1. my_accepts'[j] = my_accepts[j]
    BY <1>4 DEF Paid
  <2>2. my_accepts[j].remaining \in Nat
    BY <1>1 DEF Accept
  <2> QED
    BY <1>1, <1>4, <2>1, <2>2
<1> QED
  BY <1>3, <1>4, Zenon

(* The amount bought for a payment is a natural number. *)
LEMMA PurchaseType ==
  ASSUME NEW offered \in Nat, NEW desired \in Nat \ {0}, NEW paid \in Nat
  PROVE  calculateDExPurchase(offered, desired, paid) \in Nat
<1> DEFINE n == paid * offered
<1>1. n \in Nat
  OBVIOUS
<1> HIDE DEF n
<1>2. CASE n = 0
  BY <1>2 DEF calculateDExPurchase, DivideAndRoundUp, n
<1>3. CASE n # 0
  <2>1. n - 1 \in Nat
    BY <1>1, <1>3
  <2>2. (n - 1) \div desired \in Nat
    BY <2>1
  <2> QED
    BY <1>3, <2>2 DEF calculateDExPurchase, DivideAndRoundUp, n
<1> QED
  BY <1>2, <1>3

(* A transfer from the accepted tokens of s to the balance of b. *)
PaymentMoved(m, t, s, p, n) ==
    /\ m \in Ledger /\ SameSupply(m, t)
    /\ \A a \in Addr, q \in Prop :
         /\ m[a][q]["SELLOFFER_RESERVE"] = t[a][q]["SELLOFFER_RESERVE"]
         /\ m[a][q]["ACCEPT_RESERVE"]
              = t[a][q]["ACCEPT_RESERVE"] - (IF <<a, q>> = <<s, p>> THEN n ELSE 0)

LEMMA PaymentMoves ==
  ASSUME NEW t \in Ledger, NEW s \in Addr, NEW b \in Addr, NEW p \in Prop, NEW n \in Nat,
         n <= t[s][p]["ACCEPT_RESERVE"], NEW m, m = Moved(t, p, n, s, "ACCEPT_RESERVE", b, "BALANCE")
  PROVE  PaymentMoved(m, t, s, p, n)
<1>1. /\ "ACCEPT_RESERVE" \in TallyType /\ "BALANCE" \in TallyType
      /\ "SELLOFFER_RESERVE" \in TallyType
      /\ n \in 0 .. t[s][p]["ACCEPT_RESERVE"] /\ n \in Int
  BY Finite, Entries
<1>2. m \in Ledger /\ SameSupply(m, t)
  BY <1>1, Finite, MovedSupply DEF SameSupply
<1>3. EntriesMoved(m, t, p, n, s, "ACCEPT_RESERVE", b, "BALANCE")
  BY <1>1, MovedValue, Zenon
<1>4. ASSUME NEW a \in Addr, NEW q \in Prop
      PROVE  /\ m[a][q]["SELLOFFER_RESERVE"] = t[a][q]["SELLOFFER_RESERVE"]
             /\ m[a][q]["ACCEPT_RESERVE"]
                  = t[a][q]["ACCEPT_RESERVE"] - (IF <<a, q>> = <<s, p>> THEN n ELSE 0)
  BY <1>1, <1>3, Entries DEF EntriesMoved, Share
<1> QED
  BY <1>2, <1>4, Zenon DEF PaymentMoved

(* The price of the accept under k is positive and what the coins pay for  *)
(* is in the range of an int64_t.                                          *)
Priced(k, paid) ==
    /\ my_accepts[k].desired > 0
    /\ calculateDExPurchase(my_accepts[k].amount, my_accepts[k].desired, paid) <= MaxInt

(* A payment fails for want of tokens, a price or room only. *)
LEMMA PaymentStep ==
  ASSUME TypeOK, NEW s \in Addr, NEW b \in Addr, NEW paid \in Payments,
         NEW k \in DOMAIN my_accepts, PayAccept(k, s, b, paid)
  PROVE  \/ \E n \in Nat : Paid(k, s, b, n)
         \/ /\ Halt("assert")
            /\ ~(/\ SupplyFits /\ Priced(k, paid)
                 /\ my_accepts[k].remaining <= tally[s][k[2]]["ACCEPT_RESERVE"])
<1> DEFINE p == k[2]
           accept == my_accepts[k]
           bought == calculateDExPurchase(accept.amount, accept.desired, paid)
           n == IF accept.remaining < bought THEN accept.remaining ELSE bought
           t == IF n > 0 THEN Moved(tally, p, n, s, "ACCEPT_RESERVE", b, "BALANCE")
                ELSE tally
           reduced == [my_accepts EXCEPT ![k].remaining = @ - n]
<1>1. /\ tally \in Ledger /\ accept \in Accept /\ p \in Prop
      /\ accept.remaining \in Nat /\ accept.desired \in Int \ {0}
  BY DEF TypeOK, Ledger, Accept
<1>2. tally[s][p]["ACCEPT_RESERVE"] \in Nat
  BY <1>1, Entries, Zenon
<1>3. CASE accept.desired < 0
  BY <1>1, <1>3 DEF PayAccept, Priced
<1>4. CASE bought > MaxInt /\ ~(accept.desired < 0)
  <2>1. bought \in Nat /\ MaxInt \in Nat
    <3>1. accept.amount \in Nat /\ accept.desired \in Nat \ {0} /\ paid \in Nat
      BY <1>1, <1>4, DExAssumption DEF Accept
    <3> QED
      BY <3>1, PurchaseType, TallyAssumption, Zenon
  <2>2. Halt("assert")
    BY <1>4 DEF PayAccept
  <2> QED
    BY <1>4, <2>1, <2>2 DEF Priced
<1>5. CASE ~(bought > MaxInt) /\ ~(accept.desired < 0)
  <2>1. bought \in Nat
    <3>1. accept.amount \in Nat /\ accept.desired \in Nat \ {0} /\ paid \in Nat
      BY <1>1, <1>5, DExAssumption DEF Accept
    <3> QED
      BY <3>1, PurchaseType, Zenon
  <2>2. n \in Nat /\ n <= accept.remaining
    <3> HIDE DEF bought
    <3> QED
      BY <1>1, <2>1
  <2>3. CASE n > 0 /\ ~Movable(tally, p, n, s, "ACCEPT_RESERVE", b, "BALANCE")
    <3>1. Halt("assert")
      BY <2>3, Zenon DEF PayAccept
    <3>2. ASSUME SupplyFits, accept.remaining <= tally[s][p]["ACCEPT_RESERVE"] PROVE FALSE
      <4>1. n \in 1 .. tally[s][p]["ACCEPT_RESERVE"]
        <5> HIDE DEF n
        <5> QED
          BY <1>1, <1>2, <2>2, <2>3, <3>2
      <4> HIDE DEF n
      <4> QED
        BY <1>1, <2>3, <3>2, <4>1, Finite, MoveFits, Zenon DEF SupplyFits
    <3> QED
      BY <3>1, <3>2
  <2>4. CASE ~(n > 0 /\ ~Movable(tally, p, n, s, "ACCEPT_RESERVE", b, "BALANCE"))
    <3>1. /\ UNCHANGED <<setFrozenAddresses, halted, block>>
          /\ tally' = t
          /\ my_accepts' = IF n >= accept.remaining THEN Erase(reduced, {<<s, p, b>>})
                           ELSE reduced
          /\ \/ my_offers' = my_offers
             \/ my_offers' = Erase(my_offers, {<<s, p>>}) /\ SoldOut(t, s, p)
      BY <1>5, <2>4, Zenon DEF PayAccept
    <3> HIDE DEF n
    <3>2. PaymentMoved(t, tally, s, p, n)
      <4>1. CASE n > 0
        <5>1. n <= tally[s][p]["ACCEPT_RESERVE"]
          BY <1>1, <1>2, <2>2, <2>4, <4>1, Finite DEF Movable, Updatable
        <5>2. t = Moved(tally, p, n, s, "ACCEPT_RESERVE", b, "BALANCE")
          BY <4>1
        <5> HIDE DEF t
        <5> QED
          BY <1>1, <2>2, <5>1, <5>2, PaymentMoves, Zenon
      <4>2. CASE ~(n > 0)
        <5>1. n = 0 /\ t = tally
          BY <2>2, <4>2
        <5> QED
          BY <1>1, <5>1, Entries DEF PaymentMoved, SameSupply
      <4> QED
        BY <4>1, <4>2, Zenon
    <3>3. /\ DOMAIN my_accepts' = IF n = accept.remaining
               THEN DOMAIN my_accepts \ {<<s, p, b>>} ELSE DOMAIN my_accepts
          /\ \A j \in DOMAIN my_accepts' :
               my_accepts'[j] = IF j = k THEN [accept EXCEPT !.remaining = accept.remaining - n]
                                ELSE my_accepts[j]
      BY <1>1, <2>2, <3>1 DEF Erase
    <3> HIDE DEF t
    <3>4. n \in 0 .. accept.remaining
      BY <1>1, <2>2
    <3>5. Paid(k, s, b, n)
      BY <3>1, <3>2, <3>3, <3>4, ZenonT(30) DEF Paid, PaymentMoved
    <3> QED
      BY <2>2, <3>5
  <2> QED
    BY <2>3, <2>4, Zenon
<1> QED
  BY <1>3, <1>4, <1>5, Zenon

(* What the expired accepts that go back to type tt hold, buyer by buyer,  *)
(* and what the accepts that stay hold.                                    *)
Lapsing(s, p, tt) ==
    [b \in Addr |-> IF <<s, p, b>> \in Expired /\ ReturnType(<<s, p, b>>) = tt
                    THEN my_accepts[<<s, p, b>>].remaining ELSE 0]

Staying(s, p) ==
    [b \in Addr |-> IF <<s, p, b>> \in DOMAIN my_accepts \ Expired
                    THEN my_accepts[<<s, p, b>>].remaining ELSE 0]

LEMMA AcceptedByType ==
  ASSUME TypeOK, NEW s \in Addr, NEW p \in Prop
  PROVE  /\ AcceptedBy(s, p) \in [Addr -> Nat]
         /\ Staying(s, p) \in [Addr -> Nat]
         /\ \A tt : Lapsing(s, p, tt) \in [Addr -> Nat]
<1>1. \A k \in DOMAIN my_accepts : my_accepts[k].remaining \in Nat
  BY DEF TypeOK, Accept
<1>2. Expired \subseteq DOMAIN my_accepts
  BY DEF Expired
<1> QED
  BY <1>1, <1>2 DEF AcceptedBy, Staying, Lapsing

LEMMA LapsingSum ==
  ASSUME TypeOK, NEW s \in Addr, NEW p \in Prop, NEW tt
  PROVE  ExpiredSum(s, p, tt) = SumOf(Lapsing(s, p, tt)) /\ ExpiredSum(s, p, tt) \in Nat
<1> DEFINE f == Lapsing(s, p, tt)
           T == {x \in Addr : <<s, p, x>> \in Expired /\ ReturnType(<<s, p, x>>) = tt}
<1>1. f \in [Addr -> Nat]
  BY AcceptedByType
<1>2. /\ T \in SUBSET Addr /\ \A x \in Addr \ T : f[x] = 0
      /\ [x \in T |-> f[x]] = [x \in T |-> my_accepts[<<s, p, x>>].remaining]
  BY DEF Lapsing
<1>3. ExpiredSum(s, p, tt) = SumOf([x \in T |-> f[x]])
  BY <1>2, Zenon DEF ExpiredSum
<1> HIDE DEF f, T
<1>4. SumOf([x \in T |-> f[x]]) = SumOf(f) /\ SumOf(f) \in Nat
  BY <1>1, <1>2, Finite, SumOfSupport, SumOfType, Zenon
<1> QED
  BY <1>3, <1>4 DEF f

(* An accept stays, or goes back to the balance or under the offer. *)
LEMMA ExpiredSplit ==
  ASSUME TypeOK, NEW s \in Addr, NEW p \in Prop
  PROVE  /\ SumOf(AcceptedBy(s, p)) = SumOf(Staying(s, p)) + ExpiredSum(s, p, "BALANCE")
                                         + ExpiredSum(s, p, "SELLOFFER_RESERVE")
         /\ SumOf(Staying(s, p)) \in Nat
<1> DEFINE e == Staying(s, p)
           f == Lapsing(s, p, "BALANCE")
           g == Lapsing(s, p, "SELLOFFER_RESERVE")
           ef == [b \in Addr |-> e[b] + f[b]]
<1>1. e \in [Addr -> Nat] /\ f \in [Addr -> Nat] /\ g \in [Addr -> Nat]
  BY AcceptedByType
<1>2. ef \in [Addr -> Nat]
  BY <1>1
<1>3. AcceptedBy(s, p) = [b \in Addr |-> ef[b] + g[b]]
  <2>1. \A k \in DOMAIN my_accepts : my_accepts[k].remaining \in Nat
    BY DEF TypeOK, Accept
  <2>2. Expired \subseteq DOMAIN my_accepts
    BY DEF Expired
  <2> QED
    BY <2>1, <2>2 DEF AcceptedBy, Staying, Lapsing, ReturnType
<1>4. /\ ExpiredSum(s, p, "BALANCE") = SumOf(f)
      /\ ExpiredSum(s, p, "SELLOFFER_RESERVE") = SumOf(g)
  BY LapsingSum
<1> HIDE DEF e, f, g
<1>5. SumOf(ef) = SumOf(e) + SumOf(f) /\ SumOf(e) \in Nat
  BY <1>1, Finite, SumOfPlus, SumOfType, ZenonT(30)
<1> HIDE DEF ef
<1>6. SumOf([b \in Addr |-> ef[b] + g[b]]) = SumOf(ef) + SumOf(g)
  BY <1>1, <1>2, Finite, SumOfPlus, ZenonT(30)
<1> QED
  BY <1>3, <1>4, <1>5, <1>6, Zenon DEF e

(* The expired accepts are dissolved and the next block begins. *)
Lapsed ==
    /\ UNCHANGED <<setFrozenAddresses, halted, my_offers>>
    /\ block' = block + 1
    /\ my_accepts' = Erase(my_accepts, Expired)
    /\ tally' \in Ledger /\ SameSupply(tally', tally)
    /\ \A s \in Addr, p \in Prop :
         /\ tally'[s][p]["SELLOFFER_RESERVE"]
              = tally[s][p]["SELLOFFER_RESERVE"] + ExpiredSum(s, p, "SELLOFFER_RESERVE")
         /\ tally'[s][p]["ACCEPT_RESERVE"]
              = tally[s][p]["ACCEPT_RESERVE"] - ExpiredSum(s, p, "BALANCE")
                                              - ExpiredSum(s, p, "SELLOFFER_RESERVE")

(* The end of a block fails for want of accepted tokens or of room only. *)
LEMMA EraseExpiredStep ==
  ASSUME TypeOK, eraseExpiredAccepts
  PROVE  Lapsed \/ (Halt("assert") /\ ~(SupplyFits /\ AcceptReserveBacked))
<1> DEFINE ok == \A s \in Addr, p \in Prop, tt \in TallyType :
                   Dissolved[s][p][tt] \in 0 .. MaxInt
<1>0. tally \in Ledger
  BY DEF TypeOK, Ledger
<1>1. ASSUME NEW s \in Addr, NEW p \in Prop
      PROVE  /\ Dissolved[s][p]["BALANCE"]
                  = tally[s][p]["BALANCE"] + ExpiredSum(s, p, "BALANCE")
             /\ Dissolved[s][p]["SELLOFFER_RESERVE"]
                  = tally[s][p]["SELLOFFER_RESERVE"] + ExpiredSum(s, p, "SELLOFFER_RESERVE")
             /\ Dissolved[s][p]["ACCEPT_RESERVE"]
                  = tally[s][p]["ACCEPT_RESERVE"] - ExpiredSum(s, p, "BALANCE")
                                                  - ExpiredSum(s, p, "SELLOFFER_RESERVE")
             /\ ExpiredSum(s, p, "BALANCE") \in Nat
             /\ ExpiredSum(s, p, "SELLOFFER_RESERVE") \in Nat
  <2>1. /\ ExpiredSum(s, p, "BALANCE") \in Nat
        /\ ExpiredSum(s, p, "SELLOFFER_RESERVE") \in Nat
    BY LapsingSum
  <2>2. \A tt \in TallyType : Dissolved[s][p][tt] = DissolvedEntry(s, p, tt)
    BY DEF Dissolved
  <2> QED
    BY <2>1, <2>2, Finite, Zenon DEF DissolvedEntry
<1>2. CASE ok
  <2>1. /\ tally' = Dissolved /\ my_accepts' = Erase(my_accepts, Expired)
        /\ block' = block + 1 /\ UNCHANGED <<setFrozenAddresses, halted, my_offers>>
    BY <1>2 DEF eraseExpiredAccepts
  <2>2. Dissolved \in Ledger
    <3>1. Dissolved = [s \in Addr |-> [p \in Prop |-> [tt \in TallyType |->
                         Dissolved[s][p][tt]]]]
      BY DEF Dissolved
    <3> QED
      BY <1>2, <3>1 DEF Ledger
  <2>3. ASSUME NEW s \in Addr, NEW p \in Prop
        PROVE  Whole(Dissolved, s, p) = Whole(tally, s, p)
    BY <1>0, <1>1, Entries DEF Whole
  <2>4. SameSupply(Dissolved, tally)
    BY <1>0, <2>2, <2>3, WholeKept, Zenon
  <2> QED
    BY <1>1, <2>1, <2>2, <2>4, Zenon DEF Lapsed
<1>3. CASE ~ok
  <2>1. Halt("assert")
    BY <1>3 DEF eraseExpiredAccepts
  <2>2. ASSUME SupplyFits, AcceptReserveBacked PROVE ok
    <3> SUFFICES ASSUME NEW s \in Addr, NEW p \in Prop
                 PROVE  /\ Dissolved[s][p]["BALANCE"] \in 0 .. MaxInt
                        /\ Dissolved[s][p]["SELLOFFER_RESERVE"] \in 0 .. MaxInt
                        /\ Dissolved[s][p]["ACCEPT_RESERVE"] \in 0 .. MaxInt
      BY Finite, Zenon
    <3>1. /\ tally[s][p]["BALANCE"] \in Nat /\ tally[s][p]["SELLOFFER_RESERVE"] \in Nat
          /\ tally[s][p]["ACCEPT_RESERVE"] \in Nat /\ MaxInt \in Nat
      BY <1>0, Entries, TallyAssumption, Zenon
    <3>2. Whole(tally, s, p) <= MaxInt
      <4> DEFINE f == [a \in Addr |-> Whole(tally, a, p)]
      <4>1. f \in [Addr -> Nat] /\ f[s] = Whole(tally, s, p)
        BY <1>0, Entries DEF Whole
      <4>2. Supply(tally, p, TallyType) = SumOf(f) /\ Supply(tally, p, TallyType) <= MaxInt
        BY <1>0, <2>2, SupplyByAddress, Zenon DEF SupplyFits
      <4> HIDE DEF f
      <4>3. f[s] <= SumOf(f) /\ SumOf(f) \in Nat /\ f[s] \in Nat
        BY <4>1, Finite, SumOfBound, SumOfType, Zenon
      <4> QED
        BY <3>1, <4>1, <4>2, <4>3
    <3>3. /\ tally[s][p]["ACCEPT_RESERVE"]
               = SumOf(Staying(s, p)) + ExpiredSum(s, p, "BALANCE")
                                       + ExpiredSum(s, p, "SELLOFFER_RESERVE")
          /\ SumOf(Staying(s, p)) \in Nat
      BY <2>2, ExpiredSplit, Zenon DEF AcceptReserveBacked
    <3> QED
      BY <1>1, <3>1, <3>2, <3>3 DEF Whole
  <2> QED
    BY <1>3, <2>1, <2>2, Zenon
<1> QED
  BY <1>2, <1>3

-----------------------------------------------------------------------------
(* The steps of the exchange *)

(* Addresses are frozen or unfrozen, or the process halts. *)
Still ==
    /\ UNCHANGED <<tally, my_offers, my_accepts, block>>
    /\ setFrozenAddresses' \subseteq Addr \X Prop
    /\ halted' \in {"no", "assert", "null"}

Known(k, s, b) == s # b /\ k \in PayableAccepts(s, b) /\ k \in DOMAIN my_accepts

(* The only accepts a payment is applied to are existing ones. *)
LEMMA PayableExists ==
  ASSUME NEW s, NEW b, NEW k \in PayableAccepts(s, b)
  PROVE  k \in DOMAIN my_accepts
BY DEF PayableAccepts, ScanHit

LEMMA Steps ==
  ASSUME TypeOK, NoStrandedReserve, [Next]_vars
  PROVE  \/ Still
         \/ \E s \in Sellers, p \in Prop : Listed(s, p)
         \/ \E b \in Buyers, s \in Addr, p \in Prop, n \in Nat : Taken(b, s, p, n)
         \/ \E s \in Addr, b \in Buyers, k \in DOMAIN my_accepts, n \in Nat :
              Known(k, s, b) /\ Paid(k, s, b, n)
         \/ Lapsed
<1>1. ASSUME NEW why \in {"assert", "null"}, Halt(why) PROVE Still
  BY <1>1 DEF Halt, Still, TypeOK
<1>2. ASSUME NEW s \in Sellers, NEW p \in Prop, TradeOffer(s, p)
      PROVE  Listed(s, p) \/ Still
  BY <1>1, <1>2, Finite, TradeOfferStep, Zenon
<1>3. ASSUME NEW b \in Buyers, NEW s \in Addr, NEW p \in Prop,
             NEW amount \in Amounts, NEW fee \in Fees, AcceptOffer_BTC(b, s, p, amount, fee)
      PROVE  (\E n \in Nat : Taken(b, s, p, n)) \/ Still
  BY <1>1, <1>3, Finite, AcceptOfferStep, Zenon
<1>4. ASSUME NEW s \in Addr, NEW b \in Buyers, NEW paid \in Payments, DEx_payment(s, b, paid),
             ~Still
      PROVE  \E k \in DOMAIN my_accepts, n \in Nat : Known(k, s, b) /\ Paid(k, s, b, n)
  <2>1. PICK k \in PayableAccepts(s, b) : PayAccept(k, s, b, paid) /\ s # b
    BY <1>1, <1>4 DEF DEx_payment
  <2>2. Known(k, s, b) /\ k \in DOMAIN my_accepts
    BY <2>1, PayableExists DEF Known
  <2>3. \E n \in Nat : Paid(k, s, b, n)
    BY <1>1, <1>4, <2>1, <2>2, Finite, PaymentStep, Zenon
  <2> QED
    BY <2>2, <2>3
<1>5. ASSUME eraseExpiredAccepts PROVE Lapsed \/ Still
  BY <1>1, <1>5, EraseExpiredStep
<1>6. ASSUME NEW a \in Addr, NEW p \in Prop, FreezeTokens(a, p) \/ UnfreezeTokens(a, p)
      PROVE  Still
  BY <1>6 DEF FreezeTokens, UnfreezeTokens, Still, TypeOK
<1>7. ASSUME UNCHANGED vars PROVE Still
  BY <1>7 DEF vars, Still, TypeOK
<1> QED
  BY <1>2, <1>3, <1>4, <1>5, <1>6, <1>7, Zenon DEF Next

-----------------------------------------------------------------------------
(* Type correctness, and no stranded reserve *)

BasicInv == TypeOK /\ NoStrandedReserve

LEMMA BasicStep ==
  ASSUME BasicInv, [Next]_vars
  PROVE  BasicInv'
<1>0. TypeOK /\ NoStrandedReserve
  BY DEF BasicInv
<1>1. CASE Still
  BY <1>0, <1>1, Zenon DEF Still, BasicInv, TypeOK, NoStrandedReserve
<1>2. ASSUME NEW s \in Addr, NEW p \in Prop, Listed(s, p) PROVE BasicInv'
  <2>1. /\ DOMAIN my_offers' \subseteq Addr \X Prop
        /\ \A k \in DOMAIN my_offers' : my_offers'[k] \in Offer
    BY <1>0, <1>2 DEF Listed, TypeOK, Put, Erase
  <2>2. tally' \in Ledger
    BY <1>2, Zenon DEF Listed, Shifted
  <2>3. TypeOK'
    BY <1>0, <1>2, <2>1, <2>2, ZenonT(30) DEF Listed, TypeOK, Ledger
  <2>4. ASSUME NEW a \in Addr, NEW q \in Prop, <<a, q>> # <<s, p>>
        PROVE  /\ tally'[a][q] = tally[a][q]
               /\ <<a, q>> \in DOMAIN my_offers => <<a, q>> \in DOMAIN my_offers'
    BY <1>2, <2>4, Zenon DEF Listed, Shifted, Put, Erase
  <2>5. tally'[s][p]["SELLOFFER_RESERVE"] > 0 => <<s, p>> \in DOMAIN my_offers'
    <3>1. tally[s][p]["SELLOFFER_RESERVE"] \in Nat
      BY <1>0, Entries, Zenon DEF TypeOK, Ledger
    <3> QED
      BY <1>2, <3>1 DEF Listed, Shifted, Put, Erase
  <2>6. NoStrandedReserve'
    BY <1>0, <2>4, <2>5, Zenon DEF NoStrandedReserve
  <2> QED
    BY <2>3, <2>6 DEF BasicInv
<1>3. ASSUME NEW b \in Addr, NEW s \in Addr, NEW p \in Prop, NEW n \in Nat, Taken(b, s, p, n)
      PROVE  BasicInv'
  <2>1. /\ DOMAIN my_accepts' \subseteq Addr \X Prop \X Addr
        /\ \A k \in DOMAIN my_accepts' : my_accepts'[k] \in Accept
    BY <1>0, <1>3 DEF Taken, TypeOK, Put
  <2>2. tally' \in Ledger
    BY <1>3, Zenon DEF Taken, Shifted
  <2>3. TypeOK'
    BY <1>0, <1>3, <2>1, <2>2, ZenonT(30) DEF Taken, TypeOK, Ledger
  <2>4. NoStrandedReserve'
    BY <1>0, <1>3, Zenon DEF Taken, Shifted, NoStrandedReserve
  <2> QED
    BY <2>3, <2>4 DEF BasicInv
<1>4. ASSUME NEW s \in Addr, NEW b \in Addr, NEW k \in DOMAIN my_accepts, NEW n \in Nat,
             Paid(k, s, b, n)
      PROVE  BasicInv'
  <2>1. /\ DOMAIN my_accepts' \subseteq Addr \X Prop \X Addr
        /\ \A j \in DOMAIN my_accepts' : my_accepts'[j] \in Accept
    BY <1>0, <1>4, PaidAccepts, Zenon DEF TypeOK
  <2>2. /\ tally' \in Ledger /\ UNCHANGED <<setFrozenAddresses, halted, block>>
        /\ \/ my_offers' = my_offers
           \/ /\ my_offers' = Erase(my_offers, {<<s, k[2]>>})
              /\ tally'[s][k[2]]["SELLOFFER_RESERVE"] = 0
    BY <1>4, Zenon DEF Paid, SoldOut, GetTokenBalance
  <2>3. TypeOK'
    BY <1>0, <2>1, <2>2, Zenon DEF TypeOK, Ledger, Erase
  <2>4. \A a \in Addr, q \in Prop :
          tally'[a][q]["SELLOFFER_RESERVE"] = tally[a][q]["SELLOFFER_RESERVE"]
    BY <1>4, Zenon DEF Paid
  <2>5. NoStrandedReserve'
    BY <1>0, <2>2, <2>4 DEF NoStrandedReserve, Erase
  <2> QED
    BY <2>3, <2>5 DEF BasicInv
<1>5. CASE Lapsed
  <2>1. TypeOK'
    BY <1>0, <1>5 DEF Lapsed, TypeOK, Ledger, Erase
  <2>2. ASSUME NEW s \in Addr, NEW p \in Prop, <<s, p>> \notin DOMAIN my_offers
        PROVE  tally'[s][p]["SELLOFFER_RESERVE"] = tally[s][p]["SELLOFFER_RESERVE"]
    <3>1. /\ Lapsing(s, p, "SELLOFFER_RESERVE") \in [Addr -> Nat]
          /\ \A b \in Addr : Lapsing(s, p, "SELLOFFER_RESERVE")[b] = 0
      BY <1>0, <2>2, AcceptedByType, Zenon DEF Lapsing, ReturnType
    <3>2. ExpiredSum(s, p, "SELLOFFER_RESERVE") = 0
      BY <1>0, <3>1, LapsingSum, SumOfZero
    <3>3. tally[s][p]["SELLOFFER_RESERVE"] \in Nat
      BY <1>0, Entries, Zenon DEF TypeOK, Ledger
    <3> QED
      BY <1>5, <3>2, <3>3 DEF Lapsed
  <2>3. NoStrandedReserve'
    BY <1>0, <1>5, <2>2, Zenon DEF NoStrandedReserve, Lapsed
  <2> QED
    BY <2>1, <2>3 DEF BasicInv
<1> QED
  BY <1>0, <1>1, <1>2, <1>3, <1>4, <1>5, Steps, Finite, Zenon

LEMMA BasicInvariant == Spec => []BasicInv
<1>1. Init => BasicInv
  BY Finite, DExAssumption DEF Init, BasicInv, TypeOK, NoStrandedReserve
<1>2. BasicInv /\ [Next]_vars => BasicInv'
  BY BasicStep
<1> QED
  BY <1>1, <1>2, PTL DEF Spec

(* No handler of the exchange makes a balance negative, sells without a    *)
(* price or a payment window, or refers to an unknown address or property. *)
THEOREM TypeCorrect == Spec => []TypeOK
<1>1. BasicInv => TypeOK
  BY DEF BasicInv
<1> QED
  BY <1>1, BasicInvariant, PTL

(* Tokens reserved for sale belong to an open offer, whatever interleaving *)
(* of offers, replacements, accepts, payments and expiries led there.      *)
THEOREM ReserveNotStranded == Spec => []NoStrandedReserve
<1>1. BasicInv => NoStrandedReserve
  BY DEF BasicInv
<1> QED
  BY <1>1, BasicInvariant, PTL

-----------------------------------------------------------------------------
(* What the offers and accepts were made of *)

(* Offers are made by sellers and accepts by buyers, at the amounts and    *)
(* prices of the transactions, and of TL and TTL only as long as           *)
(* FEATURE_FREEDEX is inactive.                                            *)
RolesOK ==
    /\ \A k \in DOMAIN my_offers : k[1] \in Sellers
    /\ \A k \in DOMAIN my_accepts : k[1] \in Sellers /\ k[3] \in Buyers

TermsOK ==
    /\ \A k \in DOMAIN my_offers : my_offers[k].amount \in Amounts /\ my_offers[k].desired \in Desired
    /\ \A k \in DOMAIN my_accepts : my_accepts[k].amount \in Amounts /\ my_accepts[k].desired \in Desired

EarlyTokens ==
    ~FreeDEx => /\ \A k \in DOMAIN my_offers : k[2] \in {TL_PROPERTY_MSC, TL_PROPERTY_TMSC}
                /\ \A k \in DOMAIN my_accepts : k[2] \in {TL_PROPERTY_MSC, TL_PROPERTY_TMSC}

BookInv == RolesOK /\ TermsOK /\ EarlyTokens /\ WindowRespected

(* The height never falls: once active, FEATURE_FREEDEX stays active. *)
LEMMA FreeDExStays ==
  ASSUME TypeOK, TypeOK', block' = block \/ block' = block + 1, ~FreeDEx'
  PROVE  ~FreeDEx
BY DExAssumption DEF FreeDEx, TypeOK

LEMMA BookStep ==
  ASSUME BasicInv, BookInv, [Next]_vars
  PROVE  BookInv'
<1>0. /\ TypeOK /\ NoStrandedReserve /\ TypeOK'
      /\ RolesOK /\ TermsOK /\ EarlyTokens /\ WindowRespected
  BY BasicStep DEF BasicInv, BookInv
<1>1. CASE Still
  BY <1>0, <1>1, Zenon
     DEF Still, BookInv, RolesOK, TermsOK, EarlyTokens, FreeDEx, WindowRespected
<1>2. ASSUME NEW s \in Sellers, NEW p \in Prop, Listed(s, p) PROVE BookInv'
  <2>1. my_accepts' = my_accepts /\ block' = block
    BY <1>2 DEF Listed
  <2>2. FreeDEx \/ p \in {TL_PROPERTY_MSC, TL_PROPERTY_TMSC}
    BY <1>2 DEF Listed
  <2>3. ASSUME NEW k \in DOMAIN my_offers'
        PROVE  \/ k \in DOMAIN my_offers /\ my_offers'[k] = my_offers[k]
               \/ /\ k = <<s, p>>
                  /\ my_offers'[k].amount \in Amounts /\ my_offers'[k].desired \in Desired
    BY <1>2 DEF Listed, Put, Erase
  <2>4. RolesOK' /\ TermsOK'
    BY <1>0, <2>1, <2>3 DEF RolesOK, TermsOK
  <2>5. EarlyTokens' /\ WindowRespected'
    BY <1>0, <2>1, <2>2, <2>3 DEF EarlyTokens, FreeDEx, WindowRespected
  <2> QED
    BY <2>4, <2>5 DEF BookInv
<1>3. ASSUME NEW b \in Buyers, NEW s \in Addr, NEW p \in Prop, NEW n \in Nat, Taken(b, s, p, n)
      PROVE  BookInv'
  <2>1. my_offers' = my_offers /\ block' = block /\ <<s, p>> \in DOMAIN my_offers
    BY <1>3 DEF Taken
  <2>2. ASSUME NEW k \in DOMAIN my_accepts'
        PROVE  \/ k \in DOMAIN my_accepts /\ my_accepts'[k] = my_accepts[k]
               \/ /\ k = <<s, p, b>> /\ my_accepts'[k].block = block
                  /\ my_accepts'[k].amount = my_offers[<<s, p>>].amount
                  /\ my_accepts'[k].desired = my_offers[<<s, p>>].desired
                  /\ my_accepts'[k] \in Accept
    BY <1>3, ZenonT(30) DEF Taken, Put
  <2>3. RolesOK'
    BY <1>0, <2>1, <2>2 DEF RolesOK
  <2>4. TermsOK'
    BY <1>0, <2>1, <2>2, Zenon DEF TermsOK
  <2>5. EarlyTokens'
    BY <1>0, <2>1, <2>2 DEF EarlyTokens, FreeDEx
  <2>6. WindowRespected'
    <3> SUFFICES ASSUME NEW k \in DOMAIN my_accepts'
                 PROVE  block' - my_accepts'[k].block <= my_accepts'[k].window
      BY DEF WindowRespected
    <3>1. CASE k \in DOMAIN my_accepts /\ my_accepts'[k] = my_accepts[k]
      BY <1>0, <2>1, <3>1, Zenon DEF WindowRespected
    <3>2. CASE my_accepts'[k].block = block /\ my_accepts'[k] \in Accept
      <4>1. my_accepts'[k].window \in Nat /\ block \in Nat
        BY <1>0, <3>2, Zenon DEF Accept, TypeOK
      <4> QED
        BY <2>1, <3>2, <4>1
    <3> QED
      BY <2>2, <3>1, <3>2, Zenon
  <2> QED
    BY <2>3, <2>4, <2>5, <2>6, Zenon DEF BookInv
<1>4. ASSUME NEW s \in Addr, NEW b \in Buyers, NEW k \in DOMAIN my_accepts, NEW n \in Nat,
             Paid(k, s, b, n)
      PROVE  BookInv'
  <2>1. block' = block /\ (my_offers' = my_offers \/ my_offers' = Erase(my_offers, {<<s, k[2]>>}))
    BY <1>4, Zenon DEF Paid
  <2>2. ASSUME NEW j \in DOMAIN my_accepts'
        PROVE  /\ j \in DOMAIN my_accepts
               /\ my_accepts'[j].block = my_accepts[j].block
               /\ my_accepts'[j].window = my_accepts[j].window
               /\ my_accepts'[j].amount = my_accepts[j].amount
               /\ my_accepts'[j].desired = my_accepts[j].desired
    BY <1>0, <1>4, PaidAccepts, Zenon
  <2>3. \A j \in DOMAIN my_offers' : j \in DOMAIN my_offers /\ my_offers'[j] = my_offers[j]
    BY <2>1 DEF Erase
  <2> QED
    BY <1>0, <2>1, <2>2, <2>3, Zenon
       DEF BookInv, RolesOK, TermsOK, EarlyTokens, FreeDEx, WindowRespected
<1>5. CASE Lapsed
  <2>1. /\ my_offers' = my_offers /\ block' = block + 1
        /\ \A k \in DOMAIN my_accepts' :
             k \in DOMAIN my_accepts \ Expired /\ my_accepts'[k] = my_accepts[k]
    BY <1>5 DEF Lapsed, Erase
  <2>2. ~FreeDEx' => ~FreeDEx
    BY <1>0, <2>1, FreeDExStays, Zenon
  <2>3. WindowRespected'
    <3> SUFFICES ASSUME NEW k \in DOMAIN my_accepts'
                 PROVE  block' - my_accepts'[k].block <= my_accepts'[k].window
      BY DEF WindowRespected
    <3>1. my_accepts[k] \in Accept /\ block \in Nat
      BY <1>0, <2>1, Zenon DEF TypeOK
    <3>2. ~(block - my_accepts[k].block >= my_accepts[k].window)
      BY <2>1 DEF Expired
    <3> QED
      BY <2>1, <3>1, <3>2 DEF Accept
  <2>4. RolesOK' /\ TermsOK' /\ EarlyTokens'
    BY <1>0, <2>1, <2>2, Zenon DEF RolesOK, TermsOK, EarlyTokens
  <2> QED
    BY <2>3, <2>4 DEF BookInv
<1> QED
  BY <1>0, <1>1, <1>2, <1>3, <1>4, <1>5, Steps, Zenon

LEMMA BookInvariant == Spec => [](BasicInv /\ BookInv)
<1>1. Init => BookInv
  BY DEF Init, BookInv, RolesOK, TermsOK, EarlyTokens, WindowRespected
<1>2. BasicInv /\ BookInv /\ [Next]_vars => BookInv'
  BY BookStep
<1> QED
  BY <1>1, <1>2, BasicInvariant, PTL, ZenonT(30) DEF Spec

(* An accept is never kept past its window, in whatever order accepts,     *)
(* payments and blocks arrive.                                             *)
THEOREM AcceptsExpire == Spec => []WindowRespected
<1>1. BookInv => WindowRespected
  BY DEF BookInv
<1> QED
  BY <1>1, BookInvariant, PTL

-----------------------------------------------------------------------------
(* The supply *)

SupplyStill == SameSupply(tally', tally)

LEMMA SupplyStep ==
  ASSUME BasicInv, [Next]_vars
  PROVE  SupplyStill
<1>0. TypeOK /\ NoStrandedReserve /\ tally \in Ledger
  BY DEF BasicInv, TypeOK, Ledger
<1>1. CASE Still
  BY <1>1 DEF Still, SupplyStill, SameSupply
<1>2. ASSUME NEW s \in Addr, NEW p \in Prop, Listed(s, p) PROVE SupplyStill
  <2>1. tally[s][p]["SELLOFFER_RESERVE"] \in Nat
    BY <1>0, Entries, Zenon
  <2>2. PICK d \in Int : Shifted(tally', tally, s, p, d, 0)
    BY <1>2, <2>1 DEF Listed, Offer
  <2> QED
    BY <1>0, <2>2, ShiftedSupply DEF SupplyStill
<1>3. ASSUME NEW b, NEW s \in Addr, NEW p \in Prop, NEW n \in Nat, Taken(b, s, p, n)
      PROVE  SupplyStill
  <2>1. PICK d \in Int : Shifted(tally', tally, s, p, d, n) /\ n \in Int
    BY <1>3 DEF Taken
  <2> QED
    BY <1>0, <2>1, ShiftedSupply, Zenon DEF SupplyStill
<1>4. ASSUME NEW s, NEW b, NEW k, NEW n, Paid(k, s, b, n) PROVE SupplyStill
  BY <1>4, Zenon DEF Paid, SupplyStill
<1>5. CASE Lapsed
  BY <1>5 DEF Lapsed, SupplyStill
<1> QED
  BY <1>0, <1>1, <1>2, <1>3, <1>4, <1>5, Steps, Finite, Zenon

(* Offers, accepts, payments and expiries move tokens between addresses    *)
(* and reserves: none of them creates or destroys a token.                 *)
THEOREM SupplyKept == Spec => []SupplyConserved
<1>1. Init => SupplyConserved
  <2> SUFFICES ASSUME Init, NEW q \in Prop
               PROVE  Supply(tally, q, TallyType) = SumOf([a \in Addr |-> Endowment[a][q]])
    BY DEF SupplyConserved
  <2>1. tally \in Ledger
    BY DExAssumption DEF Init, Ledger
  <2>2. \A a \in Addr : Whole(tally, a, q) = Endowment[a][q]
    BY Finite, DExAssumption DEF Init, Whole
  <2>3. [a \in Addr |-> Whole(tally, a, q)] = [a \in Addr |-> Endowment[a][q]]
    BY <2>2
  <2> QED
    BY <2>1, <2>3, SupplyByAddress, Zenon
<1>2. BasicInv /\ SupplyConserved /\ [Next]_vars => SupplyConserved'
  <2> SUFFICES ASSUME BasicInv, SupplyConserved, SupplyStill PROVE SupplyConserved'
    BY SupplyStep
  <2> QED
    BY DEF SupplyStill, SameSupply, SupplyConserved
<1> QED
  BY <1>1, <1>2, BasicInvariant, PTL DEF Spec

-----------------------------------------------------------------------------
(* The reserve behind the accepts *)

(* When a payment can only be for an accept of its own seller and buyer.   *)
Direct == Sellers \cap Buyers = {} \/ ~FreeDEx

(* A payment is then for an accept of its own seller and buyer. *)
LEMMA PayableDirect ==
  ASSUME TypeOK, RolesOK, Direct, NEW s \in Addr, NEW b \in Buyers, NEW k, Known(k, s, b)
  PROVE  \E p \in Prop : k = <<s, p, b>>
<1>1. s # b /\ k \in PayableAccepts(s, b) /\ k \in DOMAIN my_accepts
  BY DEF Known
<1>2. k \in Addr \X Prop \X Addr
  BY <1>1 DEF TypeOK
<1>3. CASE \E P : k \in {<<s, p, b>> : p \in P}
  BY <1>2, <1>3
<1>4. CASE FreeDEx /\ k \in ScanHit(s, b)
  <2>1. {k[1], k[3]} = {s, b} /\ k[1] \in Sellers /\ k[1] # b
    BY <1>1, <1>4, Zenon DEF ScanHit, RolesOK, Direct
  <2> QED
    BY <1>2, <2>1
<1> QED
  BY <1>1, <1>3, <1>4, Zenon DEF PayableAccepts

(* A step that changes one accept and the reserve behind it by as much.    *)
LEMMA BackedStep ==
  ASSUME TypeOK, TypeOK', AcceptReserveBacked,
         NEW s \in Addr, NEW p \in Prop, NEW b \in Addr, NEW d \in Int,
         \A a \in Addr, q \in Prop, c \in Addr : <<a, q, c>> # <<s, p, b>> =>
           AcceptedBy(a, q)'[c] = AcceptedBy(a, q)[c],
         AcceptedBy(s, p)'[b] = AcceptedBy(s, p)[b] + d,
         \A a \in Addr, q \in Prop : <<a, q>> # <<s, p>> =>
           tally'[a][q]["ACCEPT_RESERVE"] = tally[a][q]["ACCEPT_RESERVE"],
         tally'[s][p]["ACCEPT_RESERVE"] = tally[s][p]["ACCEPT_RESERVE"] + d
  PROVE  AcceptReserveBacked'
<1> SUFFICES ASSUME NEW a \in Addr, NEW q \in Prop
             PROVE  tally'[a][q]["ACCEPT_RESERVE"] = SumOf(AcceptedBy(a, q)')
  BY DEF AcceptReserveBacked
<1> DEFINE f == AcceptedBy(a, q)
           g == AcceptedBy(a, q)'
<1>1. IsFiniteSet(Addr) /\ f \in [Addr -> Nat]
  BY Finite, AcceptedByType, Zenon
<1>2. g \in [Addr -> Nat]
  <2>1. \A k \in DOMAIN my_accepts' : my_accepts'[k].remaining \in Nat
    BY Zenon DEF TypeOK, Accept
  <2> QED
    BY <2>1, Zenon DEF AcceptedBy
<1>3. tally[a][q]["ACCEPT_RESERVE"] = SumOf(f)
  BY DEF AcceptReserveBacked
<1>4. CASE <<a, q>> = <<s, p>>
  <2>1. \A x \in Addr \ {b} : g[x] = f[x]
    BY <1>4, Zenon
  <2>2. g[b] = f[b] + d
    BY <1>4, Zenon
  <2>3. SumOf(f) \in Nat /\ f[b] \in Nat
    BY <1>1, SumOfType, Zenon
  <2> HIDE DEF f, g
  <2>4. SumOf(g) = SumOf(f) - f[b] + g[b]
    <3>1. \A F, G \in [Addr -> Nat] :
            (\A x \in Addr \ {b} : G[x] = F[x]) => SumOf(G) = SumOf(F) - F[b] + G[b]
      BY <1>1, SumOfUpdate
    <3> QED
      BY <1>1, <1>2, <2>1, <3>1, Zenon
  <2>5. SumOf(g) = SumOf(f) + d
    BY <2>2, <2>3, <2>4
  <2> QED
    BY <1>3, <1>4, <2>5, Zenon DEF g
<1>5. CASE <<a, q>> # <<s, p>>
  <2>1. \A x \in Addr : g[x] = f[x]
    BY <1>5, Zenon
  <2> HIDE DEF f, g
  <2>2. g = f
    BY <1>1, <1>2, <2>1
  <2> QED
    BY <1>3, <1>5, <2>2, Zenon DEF g
<1> QED
  BY <1>4, <1>5, Zenon

LEMMA ReserveStep ==
  ASSUME BasicInv, BookInv, AcceptReserveBacked, [Next]_vars, Direct
  PROVE  AcceptReserveBacked'
<1>0. TypeOK /\ NoStrandedReserve /\ TypeOK' /\ RolesOK /\ tally \in Ledger
  BY BasicStep, Zenon DEF BasicInv, BookInv, TypeOK, Ledger
<1>1. \A a \in Addr, q \in Prop : tally[a][q]["ACCEPT_RESERVE"] \in Nat
  BY <1>0, Entries, Zenon
<1>2. ASSUME my_accepts' = my_accepts,
             \A a \in Addr, q \in Prop :
               tally'[a][q]["ACCEPT_RESERVE"] = tally[a][q]["ACCEPT_RESERVE"]
      PROVE  AcceptReserveBacked'
  BY <1>2 DEF AcceptReserveBacked, AcceptedBy
<1>3. CASE Still
  BY <1>2, <1>3 DEF Still
<1>4. ASSUME NEW s \in Addr, NEW p \in Prop, Listed(s, p) PROVE AcceptReserveBacked'
  <2>1. my_accepts' = my_accepts
    BY <1>4 DEF Listed
  <2>2. PICK d : Shifted(tally', tally, s, p, d, 0)
    BY <1>4, Zenon DEF Listed
  <2> QED
    BY <1>1, <1>2, <2>1, <2>2 DEF Shifted
<1>5. ASSUME NEW b \in Addr, NEW s \in Addr, NEW p \in Prop, NEW n \in Nat, Taken(b, s, p, n)
      PROVE  AcceptReserveBacked'
  <2>1. PICK accept : accept.remaining = n /\ my_accepts' = Put(my_accepts, <<s, p, b>>, accept)
    BY <1>5 DEF Taken
  <2>2. <<s, p, b>> \notin DOMAIN my_accepts
    BY <1>5 DEF Taken
  <2>3. \A a \in Addr, q \in Prop, c \in Addr : <<a, q, c>> # <<s, p, b>> =>
          AcceptedBy(a, q)'[c] = AcceptedBy(a, q)[c]
    BY <2>1 DEF AcceptedBy, Put
  <2>4. AcceptedBy(s, p)'[b] = AcceptedBy(s, p)[b] + n
    BY <2>1, <2>2 DEF AcceptedBy, Put
  <2>5. /\ \A a \in Addr, q \in Prop : <<a, q>> # <<s, p>> =>
             tally'[a][q]["ACCEPT_RESERVE"] = tally[a][q]["ACCEPT_RESERVE"]
        /\ tally'[s][p]["ACCEPT_RESERVE"] = tally[s][p]["ACCEPT_RESERVE"] + n
    BY <1>5, Zenon DEF Taken, Shifted
  <2>6. n \in Int
    OBVIOUS
  <2> QED
    BY <1>0, <2>3, <2>4, <2>5, <2>6, BackedStep, ZenonT(30)
<1>6. ASSUME NEW s \in Addr, NEW b \in Addr, NEW p \in Prop, NEW n \in Nat,
             <<s, p, b>> \in DOMAIN my_accepts, Paid(<<s, p, b>>, s, b, n)
      PROVE  AcceptReserveBacked'
  <2> DEFINE k == <<s, p, b>>
  <2>1. my_accepts[k].remaining \in Nat
    BY <1>0, <1>6, Zenon DEF TypeOK, Accept
  <2>2. \A j \in DOMAIN my_accepts' : /\ j \in DOMAIN my_accepts
             /\ my_accepts'[j].remaining = my_accepts[j].remaining - (IF j = k THEN n ELSE 0)
    BY <1>0, <1>6, PaidAccepts, ZenonT(30)
  <2>3. /\ n <= my_accepts[k].remaining
        /\ DOMAIN my_accepts' = IF n = my_accepts[k].remaining
                                THEN DOMAIN my_accepts \ {k} ELSE DOMAIN my_accepts
    BY <1>6, <2>1 DEF Paid
  <2>4. \A j \in DOMAIN my_accepts : my_accepts[j].remaining \in Nat
    BY <1>0, Zenon DEF TypeOK, Accept
  <2>5. \A a \in Addr, q \in Prop, c \in Addr : <<a, q, c>> # k =>
          AcceptedBy(a, q)'[c] = AcceptedBy(a, q)[c]
    BY <2>2, <2>3, <2>4 DEF AcceptedBy
  <2>6. AcceptedBy(s, p)'[b] = AcceptedBy(s, p)[b] + (0 - n)
    BY <1>6, <2>1, <2>2, <2>3 DEF AcceptedBy
  <2>7. /\ \A a \in Addr, q \in Prop : <<a, q>> # <<s, p>> =>
             tally'[a][q]["ACCEPT_RESERVE"] = tally[a][q]["ACCEPT_RESERVE"]
        /\ tally'[s][p]["ACCEPT_RESERVE"] = tally[s][p]["ACCEPT_RESERVE"] + (0 - n)
    BY <1>1, <1>6 DEF Paid
  <2>8. 0 - n \in Int
    OBVIOUS
  <2> QED
    BY <1>0, <2>5, <2>6, <2>7, <2>8, BackedStep, ZenonT(30)
<1>7. CASE Lapsed
  <2> SUFFICES ASSUME NEW s \in Addr, NEW p \in Prop
               PROVE  tally'[s][p]["ACCEPT_RESERVE"] = SumOf(AcceptedBy(s, p)')
    BY DEF AcceptReserveBacked
  <2>1. AcceptedBy(s, p)' = Staying(s, p)
    BY <1>7, Zenon DEF Lapsed, AcceptedBy, Staying, Erase
  <2>2. tally[s][p]["ACCEPT_RESERVE"] = SumOf(AcceptedBy(s, p))
    BY DEF AcceptReserveBacked
  <2>3. /\ ExpiredSum(s, p, "BALANCE") \in Nat
        /\ ExpiredSum(s, p, "SELLOFFER_RESERVE") \in Nat
    BY <1>0, LapsingSum
  <2>4. /\ SumOf(AcceptedBy(s, p)) = SumOf(Staying(s, p)) + ExpiredSum(s, p, "BALANCE")
                                        + ExpiredSum(s, p, "SELLOFFER_RESERVE")
        /\ SumOf(Staying(s, p)) \in Nat
    BY <1>0, ExpiredSplit, Zenon
  <2>5. tally'[s][p]["ACCEPT_RESERVE"] = tally[s][p]["ACCEPT_RESERVE"]
          - ExpiredSum(s, p, "BALANCE") - ExpiredSum(s, p, "SELLOFFER_RESERVE")
    BY <1>7, Zenon DEF Lapsed
  <2> QED
    BY <2>1, <2>2, <2>3, <2>4, <2>5
<1>8. ASSUME NEW s \in Addr, NEW b \in Buyers, NEW k \in DOMAIN my_accepts, NEW n \in Nat,
             Known(k, s, b), Paid(k, s, b, n)
      PROVE  AcceptReserveBacked'
  <2>1. PICK p \in Prop : k = <<s, p, b>>
    BY <1>0, <1>8, PayableDirect, Zenon
  <2> QED
    BY <1>6, <1>8, <2>1, Finite, Zenon
<1> QED
  BY <1>0, <1>3, <1>4, <1>5, <1>7, <1>8, Steps, Finite, Zenon

ReserveInv == Direct => AcceptReserveBacked

LEMMA DirectBefore ==
  ASSUME BasicInv, [Next]_vars, Direct'
  PROVE  Direct
<1>1. TypeOK /\ NoStrandedReserve /\ TypeOK'
  BY BasicStep DEF BasicInv
<1>2. block' = block \/ block' = block + 1
  BY <1>1, Steps, ZenonT(30) DEF Still, Listed, Taken, Paid, Lapsed
<1> QED
  BY <1>1, <1>2, FreeDExStays, Zenon DEF Direct

LEMMA ReserveInvariant == Spec => [](BasicInv /\ BookInv /\ ReserveInv)
<1>1. Init => ReserveInv
  <2> SUFFICES ASSUME Init PROVE AcceptReserveBacked
    BY DEF ReserveInv
  <2>1. ASSUME NEW s \in Addr, NEW p \in Prop
        PROVE  tally[s][p]["ACCEPT_RESERVE"] = SumOf(AcceptedBy(s, p))
    <3>1. AcceptedBy(s, p) \in [Addr -> Nat] /\ \A b \in Addr : AcceptedBy(s, p)[b] = 0
      BY DEF Init, AcceptedBy
    <3>2. SumOf(AcceptedBy(s, p)) = 0
      BY <3>1, SumOfZero
    <3>3. tally[s][p]["ACCEPT_RESERVE"] = 0
      BY Finite DEF Init
    <3> QED
      BY <3>2, <3>3
  <2> QED
    BY <2>1 DEF AcceptReserveBacked
<1>2. BasicInv /\ BookInv /\ ReserveInv /\ [Next]_vars => ReserveInv'
  BY ReserveStep, DirectBefore DEF ReserveInv
<1> QED
  BY <1>1, <1>2, BookInvariant, PTL DEF Spec

(* A seller's ACCEPT_RESERVE is exactly what the accepts of its buyers     *)
(* still hold, as long as FEATURE_FREEDEX is inactive or nobody both sells *)
(* and buys: then the scan of DEx_payment cannot pick another's accept.    *)
THEOREM AcceptsBacked ==
  Spec => []((Sellers \cap Buyers = {} \/ ~FreeDEx) => AcceptReserveBacked)
<1>1. ReserveInv => ((Sellers \cap Buyers = {} \/ ~FreeDEx) => AcceptReserveBacked)
  BY DEF ReserveInv, Direct
<1> QED
  BY <1>1, ReserveInvariant, PTL

-----------------------------------------------------------------------------
(* Nothing is oversold *)

(* What the accepts of the open offer of s for p still hold. *)
OwnBy(s, p) ==
    [b \in Addr |-> IF /\ <<s, p, b>> \in DOMAIN my_accepts
                       /\ my_accepts[<<s, p, b>>].txid = my_offers[<<s, p>>].txid
                    THEN my_accepts[<<s, p, b>>].remaining ELSE 0]

Covered(s, p) ==
    tally[s][p]["SELLOFFER_RESERVE"] + SumOf(OwnBy(s, p)) <= my_offers[<<s, p>>].amount

OwnInv == \A s \in Addr, p \in Prop : <<s, p>> \in DOMAIN my_offers => Covered(s, p)

LEMMA OwnByType ==
  ASSUME TypeOK, NEW s \in Addr, NEW p \in Prop
  PROVE  OwnBy(s, p) \in [Addr -> Nat] /\ SumOf(OwnBy(s, p)) \in Nat
<1>1. OwnBy(s, p) \in [Addr -> Nat]
  BY DEF OwnBy, TypeOK, Accept
<1> QED
  BY <1>1, Finite, SumOfType, Zenon

(* The property is about the same sum, over fewer buyers. *)
LEMMA OwnSum ==
  ASSUME TypeOK, OwnInv
  PROVE  OfferNotOversold
<1> SUFFICES ASSUME NEW k \in DOMAIN my_offers, NEW s, NEW p, s = k[1], p = k[2]
             PROVE  LET own == {b \in Addr : /\ <<s, p, b>> \in DOMAIN my_accepts
                                             /\ my_accepts[<<s, p, b>>].txid = my_offers[k].txid}
                    IN  tally[s][p]["SELLOFFER_RESERVE"]
                          + SumOf([b \in own |-> my_accepts[<<s, p, b>>].remaining])
                            <= my_offers[k].amount
  BY ZenonT(30) DEF OfferNotOversold
<1>0. s \in Addr /\ p \in Prop /\ k = <<s, p>>
  BY DEF TypeOK
<1> DEFINE own == {b \in Addr : /\ <<s, p, b>> \in DOMAIN my_accepts
                                /\ my_accepts[<<s, p, b>>].txid = my_offers[k].txid}
           f == OwnBy(s, p)
<1>1. f \in [Addr -> Nat] /\ own \in SUBSET Addr
  BY <1>0, OwnByType, Zenon
<1>2. /\ [b \in own |-> f[b]] = [b \in own |-> my_accepts[<<s, p, b>>].remaining]
      /\ \A b \in Addr \ own : f[b] = 0
  BY <1>0, Zenon DEF OwnBy
<1> HIDE DEF own, f
<1>3. SumOf([b \in own |-> f[b]]) = SumOf(f)
  BY <1>1, <1>2, Finite, SumOfSupport, Zenon
<1>4. Covered(s, p)
  BY <1>0 DEF OwnInv
<1> QED
  BY <1>0, <1>2, <1>3, <1>4, ZenonT(30) DEF Covered, own, f

LEMMA OwnStep ==
  ASSUME BasicInv, OwnInv, [Next]_vars
  PROVE  OwnInv'
<1>0. TypeOK /\ NoStrandedReserve /\ TypeOK' /\ tally \in Ledger
  BY BasicStep, Zenon DEF BasicInv, TypeOK, Ledger
<1> SUFFICES ASSUME NEW a \in Addr, NEW q \in Prop, <<a, q>> \in DOMAIN my_offers'
             PROVE  Covered(a, q)'
  BY DEF OwnInv
<1> DEFINE S == tally[a][q]["SELLOFFER_RESERVE"]
           f == OwnBy(a, q)
           g == OwnBy(a, q)'
<1>1. /\ S \in Nat /\ f \in [Addr -> Nat] /\ SumOf(f) \in Nat
      /\ g \in [Addr -> Nat]
  <2>1. S \in Nat /\ f \in [Addr -> Nat] /\ SumOf(f) \in Nat
    BY <1>0, Entries, OwnByType, Zenon
  <2>2. g \in [Addr -> Nat]
    BY <1>0, Zenon DEF OwnBy, TypeOK, Accept
  <2> QED
    BY <2>1, <2>2, Zenon
<1>2. ASSUME <<a, q>> \in DOMAIN my_offers
      PROVE  /\ S + SumOf(f) <= my_offers[<<a, q>>].amount
             /\ my_offers[<<a, q>>].amount \in Nat
  BY <1>0, <1>2, ZenonT(30) DEF OwnInv, Covered, TypeOK, Offer
<1>3. ASSUME <<a, q>> \in DOMAIN my_offers, my_offers'[<<a, q>>] = my_offers[<<a, q>>],
             tally'[a][q]["SELLOFFER_RESERVE"] + SumOf(g) <= S + SumOf(f),
             tally'[a][q]["SELLOFFER_RESERVE"] + SumOf(g) \in Int
      PROVE  Covered(a, q)'
  BY <1>1, <1>2, <1>3 DEF Covered
<1>4. ASSUME <<a, q>> \in DOMAIN my_offers, my_offers'[<<a, q>>] = my_offers[<<a, q>>],
             tally'[a][q]["SELLOFFER_RESERVE"] = S, my_accepts' = my_accepts
      PROVE  Covered(a, q)'
  <2>1. g = f
    BY <1>4 DEF OwnBy
  <2> HIDE DEF f, g, S
  <2> QED
    BY <1>1, <1>3, <1>4, <2>1
<1>5. CASE Still
  BY <1>4, <1>5 DEF Still
<1>6. ASSUME NEW s \in Addr, NEW p \in Prop, Listed(s, p) PROVE Covered(a, q)'
  <2>1. CASE <<a, q>> # <<s, p>>
    BY <1>4, <1>6, <2>1, Zenon DEF Listed, Shifted, Put, Erase
  <2>2. CASE <<a, q>> = <<s, p>>
    <3>1. PICK offer \in Offer :
            /\ offer.txid \in FreshTxid /\ my_accepts' = my_accepts
            /\ my_offers' = Put(my_offers, <<s, p>>, offer)
            /\ Shifted(tally', tally, s, p, offer.amount - tally[s][p]["SELLOFFER_RESERVE"], 0)
      BY <1>6, <2>2, Zenon DEF Listed, Erase
    <3>2. tally'[a][q]["SELLOFFER_RESERVE"] = offer.amount /\ my_offers'[<<a, q>>] = offer
      <4>1. my_offers'[<<a, q>>] = offer
        BY <2>2, <3>1, Zenon DEF Put
      <4>2. tally'[a][q]["SELLOFFER_RESERVE"] = S + (offer.amount - S)
        BY <2>2, <3>1, Zenon DEF Shifted
      <4>3. offer.amount \in Nat /\ S \in Nat
        BY <1>1, Zenon DEF Offer
      <4> HIDE DEF S
      <4> QED
        BY <4>1, <4>2, <4>3
    <3>3. \A b \in Addr : g[b] = 0
      BY <2>2, <3>1, <3>2, Zenon DEF OwnBy, FreshTxid
    <3> HIDE DEF g
    <3>4. SumOf(g) = 0
      BY <1>1, <3>3, SumOfZero, Zenon
    <3>5. offer.amount \in Nat
      BY DEF Offer
    <3> QED
      BY <3>2, <3>4, <3>5 DEF Covered, g
  <2> QED
    BY <2>1, <2>2
<1>7. ASSUME NEW b \in Addr, NEW s \in Addr, NEW p \in Prop, NEW n \in Nat, Taken(b, s, p, n)
      PROVE  Covered(a, q)'
  <2>1. PICK accept : /\ accept.remaining = n /\ my_accepts' = Put(my_accepts, <<s, p, b>>, accept)
                      /\ accept.txid = my_offers[<<s, p>>].txid
    BY <1>7 DEF Taken
  <2>2. my_offers' = my_offers /\ <<s, p, b>> \notin DOMAIN my_accepts
    BY <1>7 DEF Taken
  <2>3. CASE <<a, q>> # <<s, p>>
    <3>1. tally'[a][q]["SELLOFFER_RESERVE"] = S
      BY <1>7, <2>3, Zenon DEF Taken, Shifted
    <3>2. g = f
      BY <2>1, <2>2, <2>3, Zenon DEF OwnBy, Put
    <3> HIDE DEF f, g, S
    <3> QED
      BY <1>1, <1>3, <2>2, <3>1, <3>2
  <2>4. CASE <<a, q>> = <<s, p>>
    <3>1. tally'[a][q]["SELLOFFER_RESERVE"] = S - n
      BY <1>1, <1>7, <2>4, Zenon DEF Taken, Shifted
    <3>2. f[b] = 0
      BY <2>2, <2>4, Zenon DEF OwnBy
    <3>3. g[b] = n
      BY <2>1, <2>2, <2>4, Zenon DEF OwnBy, Put
    <3>4. \A x \in Addr \ {b} : g[x] = f[x]
      BY <2>1, <2>2, <2>4, Zenon DEF OwnBy, Put
    <3> HIDE DEF f, g, S
    <3>5. SumOf(g) = SumOf(f) - f[b] + g[b]
      BY <1>1, <3>4, Finite, SumOfUpdate, ZenonT(30)
    <3>6. (S - n) + SumOf(g) = S + SumOf(f)
      BY <1>1, <3>2, <3>3, <3>5
    <3>7. S + SumOf(f) <= S + SumOf(f) /\ S + SumOf(f) \in Int
      BY <1>1
    <3> QED
      BY <1>3, <2>2, <3>1, <3>6, <3>7, Zenon
  <2> QED
    BY <2>3, <2>4
<1>8. ASSUME NEW s \in Addr, NEW b \in Addr, NEW k \in DOMAIN my_accepts, NEW n \in Nat,
             Paid(k, s, b, n)
      PROVE  Covered(a, q)'
  <2>1. tally'[a][q]["SELLOFFER_RESERVE"] = S
    BY <1>8, Zenon DEF Paid
  <2>2. <<a, q>> \in DOMAIN my_offers /\ my_offers'[<<a, q>>] = my_offers[<<a, q>>]
    BY <1>8 DEF Paid, Erase
  <2>3. ASSUME NEW j \in DOMAIN my_accepts'
        PROVE  /\ j \in DOMAIN my_accepts /\ my_accepts'[j].txid = my_accepts[j].txid
               /\ my_accepts'[j].remaining <= my_accepts[j].remaining
    <3>1. /\ j \in DOMAIN my_accepts /\ my_accepts'[j].txid = my_accepts[j].txid
          /\ my_accepts'[j].remaining = my_accepts[j].remaining - (IF j = k THEN n ELSE 0)
      BY <1>0, <1>8, PaidAccepts, ZenonT(30)
    <3>2. my_accepts[j].remaining \in Nat
      BY <1>0, <3>1, Zenon DEF TypeOK, Accept
    <3> QED
      BY <3>1, <3>2
  <2>4. \A x \in Addr : g[x] <= f[x]
    <3> SUFFICES ASSUME NEW x \in Addr PROVE g[x] <= f[x]
      OBVIOUS
    <3>1. CASE <<a, q, x>> \in DOMAIN my_accepts'
      <4> DEFINE j == <<a, q, x>>
      <4>1. CASE my_accepts[j].txid = my_offers[<<a, q>>].txid
        <5>1. f[x] = my_accepts[j].remaining
          BY <2>3, <3>1, <4>1, Zenon DEF OwnBy
        <5>2. g[x] = my_accepts'[j].remaining
          BY <2>2, <2>3, <3>1, <4>1, Zenon DEF OwnBy
        <5> QED
          BY <2>3, <3>1, <5>1, <5>2, Zenon
      <4>2. CASE my_accepts[j].txid # my_offers[<<a, q>>].txid
        <5>1. g[x] = 0 /\ f[x] \in Nat
          BY <1>1, <2>2, <2>3, <3>1, <4>2, Zenon DEF OwnBy
        <5> QED
          BY <5>1
      <4> QED
        BY <4>1, <4>2, Zenon
    <3>2. CASE <<a, q, x>> \notin DOMAIN my_accepts'
      <4>1. g[x] = 0 /\ f[x] \in Nat
        BY <1>1, <3>2, Zenon DEF OwnBy
      <4> QED
        BY <4>1
    <3> QED
      BY <3>1, <3>2, Zenon
  <2> HIDE DEF f, g, S
  <2>5. SumOf(g) <= SumOf(f)
    BY <1>1, <2>4, Finite, SumOfOrder, Zenon
  <2>6. SumOf(g) \in Nat
    BY <1>1, Finite, SumOfType, Zenon
  <2>7. S + SumOf(g) <= S + SumOf(f) /\ S + SumOf(g) \in Int
    BY <1>1, <2>5, <2>6
  <2> QED
    BY <1>3, <2>1, <2>2, <2>7, Zenon
<1>9. CASE Lapsed
  <2> DEFINE h == Lapsing(a, q, "SELLOFFER_RESERVE")
             gh == [x \in Addr |-> g[x] + h[x]]
  <2>1. /\ my_offers' = my_offers /\ my_accepts' = Erase(my_accepts, Expired)
        /\ tally'[a][q]["SELLOFFER_RESERVE"] = S + ExpiredSum(a, q, "SELLOFFER_RESERVE")
    BY <1>9, Zenon DEF Lapsed
  <2>2. h \in [Addr -> Nat] /\ ExpiredSum(a, q, "SELLOFFER_RESERVE") = SumOf(h)
    BY <1>0, AcceptedByType, LapsingSum, Zenon
  <2>3. \A x \in Addr : f[x] = g[x] + h[x]
    <3> SUFFICES ASSUME NEW x \in Addr PROVE f[x] = g[x] + h[x]
      OBVIOUS
    <3>1. f[x] \in Nat
      BY <1>1
    <3>2. CASE <<a, q, x>> \in Expired
      <4>1. g[x] = 0
        BY <2>1, <3>2, Zenon DEF OwnBy, Erase
      <4>2. h[x] = f[x]
        BY <2>1, <3>2, Zenon DEF OwnBy, Lapsing, ReturnType, Expired
      <4> QED
        BY <3>1, <4>1, <4>2
    <3>3. CASE <<a, q, x>> \notin Expired
      <4>1. g[x] = f[x]
        BY <2>1, <3>3, Zenon DEF OwnBy, Erase
      <4>2. h[x] = 0
        BY <3>3 DEF Lapsing
      <4> QED
        BY <3>1, <4>1, <4>2
    <3> QED
      BY <3>2, <3>3, Zenon
  <2> HIDE DEF f, g, h, S
  <2>4. gh = f
    BY <1>1, <2>3
  <2>5. SumOf(gh) = SumOf(g) + SumOf(h)
    BY <1>1, <2>2, Finite, SumOfPlus, ZenonT(30)
  <2>6. SumOf(g) \in Nat /\ SumOf(h) \in Nat
    BY <1>1, <2>2, Finite, SumOfType, Zenon
  <2>7. (S + SumOf(h)) + SumOf(g) = S + SumOf(f)
    BY <1>1, <2>4, <2>5, <2>6
  <2>8. S + SumOf(f) <= S + SumOf(f) /\ S + SumOf(f) \in Int
    BY <1>1
  <2>9. <<a, q>> \in DOMAIN my_offers
    BY <2>1, Zenon
  <2> QED
    BY <1>3, <2>1, <2>2, <2>7, <2>8, <2>9, Zenon
<1> QED
  BY <1>0, <1>5, <1>6, <1>7, <1>8, <1>9, Steps, Finite, Zenon

(* An open offer never has more on sale and accepted than its seller put   *)
(* into it, though accepts of earlier offers of the same seller and token  *)
(* are still being paid for or returned.                                   *)
THEOREM NothingOversold == Spec => []OfferNotOversold
<1>1. Init => OwnInv
  BY DEF Init, OwnInv
<1>2. BasicInv /\ OwnInv /\ [Next]_vars => OwnInv'
  BY OwnStep
<1>3. BasicInv /\ OwnInv => OfferNotOversold
  BY OwnSum DEF BasicInv
<1> QED
  BY <1>1, <1>2, <1>3, BasicInvariant, PTL DEF Spec

-----------------------------------------------------------------------------
(* Every accept can be paid for *)

(* The scan of DEx_payment stops somewhere when there is an accept. *)
LEMMA ScanHits ==
  ASSUME TypeOK, NEW s \in Addr, NEW b \in Addr, NEW p \in Prop, <<s, p, b>> \in DOMAIN my_accepts
  PROVE  ScanHit(s, b) # {}
<1> DEFINE hits == {k \in DOMAIN my_accepts : {k[1], k[3]} = {s, b}}
           props == {k[2] : k \in hits}
<1>1. hits \subseteq Addr \X Prop \X Addr /\ <<s, p, b>> \in hits
  BY DEF TypeOK
<1>2. props \in SUBSET Nat /\ props # {}
  <2>1. \A k \in hits : k[2] \in Nat
    BY <1>1, TallyAssumption, Zenon
  <2> QED
    BY <1>1, <2>1, ZenonT(30)
<1>3. PICK m \in props : \A y \in props : m <= y
  BY <1>2, LeastNatural, Zenon
<1>4. \A k \in hits : k[2] \in props /\ m <= k[2]
  BY <1>3
<1>5. ASSUME NEW k \in hits, k[2] = m PROVE k = <<s, m, b>> \/ k = <<b, m, s>>
  <2>1. {k[1], k[3]} = {s, b} /\ k \in Addr \X Prop \X Addr
    BY <1>1
  <2> QED
    BY <1>5, <2>1
<1>6. PICK k0 \in hits : k0[2] = m
  BY <1>3
<1>7. m \in Nat /\ \A k \in hits : k[2] \in Nat
  BY <1>2, <1>3, <1>4, Zenon
<1>8. CASE <<s, m, b>> \in hits
  <2> DEFINE k == <<s, m, b>>
  <2>1. k \in hits /\ k[2] = m /\ k[1] = s
    BY <1>8
  <2>2. \A j \in hits : k[2] < j[2] \/ k[2] = j[2]
    <3> HIDE DEF hits, props, k
    <3> QED
      BY <1>4, <1>7, <2>1
  <2> QED
    BY <2>1, <2>2, Zenon DEF ScanHit
<1>9. CASE <<s, m, b>> \notin hits
  <2> DEFINE k == <<b, m, s>>
  <2>1. k \in hits /\ k[2] = m
    BY <1>5, <1>6, <1>9, Zenon
  <2>2. \A j \in hits \ {k} : j[2] # m
    BY <1>5, <1>9, Zenon
  <2>3. \A j \in hits \ {k} : k[2] < j[2] \/ (k[2] = j[2] /\ k[1] = s)
    BY <1>4, <1>7, <2>1, <2>2
  <2> QED
    BY <2>1, <2>3, Zenon DEF ScanHit
<1> QED
  BY <1>8, <1>9, Zenon

LEMMA PayableFound ==
  ASSUME TypeOK, EarlyTokens, NEW s \in Addr, NEW b \in Addr, NEW p \in Prop,
         <<s, p, b>> \in DOMAIN my_accepts,
         FreeDEx => \A q \in Prop \ {p} : <<s, q>> \notin DOMAIN my_offers
  PROVE  PayableAccepts(s, b) # {}
<1> DEFINE own(P) == {<<s, q, b>> : q \in P} \cap DOMAIN my_accepts
           onSale == {q \in Prop : <<s, q>> \in DOMAIN my_offers}
           msc == own({TL_PROPERTY_MSC})
<1>1. <<s, p, b>> \in own({p})
  OBVIOUS
<1>2. CASE ~FreeDEx
  <2>1. p \in {TL_PROPERTY_MSC, TL_PROPERTY_TMSC}
    BY <1>2 DEF EarlyTokens
  <2>2. PayableAccepts(s, b) = IF msc # {} THEN msc ELSE own({TL_PROPERTY_TMSC})
    BY <1>2 DEF PayableAccepts
  <2> QED
    BY <1>1, <2>1, <2>2, Zenon
<1>3. CASE FreeDEx /\ onSale = {}
  <2>1. PayableAccepts(s, b) = ScanHit(s, b)
    BY <1>3, Zenon DEF PayableAccepts
  <2> QED
    BY <2>1, ScanHits
<1>4. CASE FreeDEx /\ onSale # {}
  <2>1. onSale = {p}
    BY <1>4, Zenon
  <2>2. Least({p}) = p
    BY TallyAssumption DEF Least
  <2>3. PayableAccepts(s, b) = own({Least(onSale)})
    BY <1>4 DEF PayableAccepts
  <2> QED
    BY <1>1, <2>1, <2>2, <2>3, Zenon
<1> QED
  BY <1>2, <1>3, <1>4, Zenon

(* Every accept can be paid for until it expires, whatever became of the   *)
(* offer it was taken from, unless FEATURE_FREEDEX lets the seller put     *)
(* another token on sale.                                                  *)
THEOREM AcceptsPayable == Spec => []AcceptCanBePaid
<1>1. BasicInv /\ BookInv => AcceptCanBePaid
  <2> SUFFICES ASSUME TypeOK, EarlyTokens, NEW k \in DOMAIN my_accepts,
                      FreeDEx => \A p \in Prop \ {k[2]} : <<k[1], p>> \notin DOMAIN my_offers
               PROVE  PayableAccepts(k[1], k[3]) # {}
    BY DEF BasicInv, BookInv, AcceptCanBePaid
  <2>1. k[1] \in Addr /\ k[2] \in Prop /\ k[3] \in Addr /\ k = <<k[1], k[2], k[3]>>
    BY DEF TypeOK
  <2>2. <<k[1], k[2], k[3]>> \in DOMAIN my_accepts
    BY <2>1
  <2> QED
    BY <2>1, <2>2, PayableFound, Zenon
<1> QED
  BY <1>1, BookInvariant, PTL, ZenonT(30)

-----------------------------------------------------------------------------
(* The asserts *)

(* Terms of trade that int64_t amounts hold: the prices are positive, and  *)
(* no payment buys more tokens than can exist.                             *)
TermsFit ==
    /\ \A q \in Prop : SumOf([a \in Addr |-> Endowment[a][q]]) <= MaxInt
    /\ \A amount \in Amounts \ {0}, desired \in Desired \ {0}, paid \in Payments :
         desired > 0 /\ calculateDExPurchase(amount, desired, paid) <= MaxInt

LEMMA AssertStep ==
  ASSUME TermsFit, BasicInv, BookInv, AcceptReserveBacked, SupplyConserved, Direct,
         halted # "assert", [Next]_vars
  PROVE  halted' # "assert"
<1>0. TypeOK /\ NoStrandedReserve /\ RolesOK /\ TermsOK
  BY DEF BasicInv, BookInv
<1>1. SupplyFits
  BY Zenon DEF SupplyFits, SupplyConserved, TermsFit
<1>2. ASSUME NEW s \in Addr, NEW p \in Prop, TradeOffer(s, p) PROVE halted' # "assert"
  BY <1>0, <1>1, <1>2, TradeOfferStep, Zenon DEF Listed
<1>3. ASSUME NEW b \in Addr, NEW s \in Addr, NEW p \in Prop,
             NEW amount \in Amounts, NEW fee \in Fees, AcceptOffer_BTC(b, s, p, amount, fee)
      PROVE  halted' # "assert"
  BY <1>0, <1>1, <1>3, AcceptOfferStep, Zenon DEF Taken
<1>4. ASSUME NEW s \in Addr, NEW b \in Buyers, NEW paid \in Payments, DEx_payment(s, b, paid)
      PROVE  halted' # "assert"
  <2>1. CASE Halt("null")
    BY <2>1 DEF Halt
  <2>2. ASSUME NEW k \in PayableAccepts(s, b), PayAccept(k, s, b, paid)
        PROVE  halted' # "assert"
    <3>1. k \in DOMAIN my_accepts /\ Known(k, s, b)
      BY <1>4, PayableExists, Zenon DEF Known, DEx_payment
    <3>2. PICK p \in Prop : k = <<s, p, b>>
      BY <1>0, <3>1, PayableDirect, Zenon
    <3>3. my_accepts[k].remaining <= tally[s][k[2]]["ACCEPT_RESERVE"]
      <4> DEFINE f == AcceptedBy(s, p)
      <4>1. f \in [Addr -> Nat] /\ b \in Addr
        BY <1>0, AcceptedByType, Finite, Zenon
      <4>2. f[b] = my_accepts[k].remaining
        BY <3>1, <3>2, <4>1, Zenon DEF AcceptedBy
      <4>3. tally[s][p]["ACCEPT_RESERVE"] = SumOf(f)
        BY DEF AcceptReserveBacked
      <4> HIDE DEF f
      <4>4. f[b] <= SumOf(f)
        BY <4>1, Finite, SumOfBound, Zenon
      <4> QED
        BY <3>2, <4>2, <4>3, <4>4, Zenon
    <3>4. Priced(k, paid)
      <4>1. my_accepts[k].amount \in Amounts \ {0} /\ my_accepts[k].desired \in Desired \ {0}
        BY <1>0, <3>1, ZenonT(30) DEF TermsOK, TypeOK, Accept
      <4> QED
        BY <4>1, ZenonT(30) DEF TermsFit, Priced
    <3> QED
      BY <1>0, <1>1, <2>2, <3>1, <3>3, <3>4, PaymentStep, Finite, Zenon DEF Paid
  <2> QED
    BY <1>4, <2>1, <2>2, Zenon DEF DEx_payment
<1>5. CASE eraseExpiredAccepts
  BY <1>0, <1>1, <1>5, EraseExpiredStep, Zenon DEF Lapsed
<1>6. CASE UNCHANGED halted
  BY <1>6
<1> QED
  BY <1>2, <1>3, <1>4, <1>5, <1>6, Finite, Zenon DEF Next, FreezeTokens, UnfreezeTokens, vars

AssertInv == Direct => NeverAsserts

(* No assert of the exchange fails, when the terms of trade and the supply *)
(* fit an int64_t and a payment can only be for the payer's own accept.    *)
THEOREM ExchangeAssertsHold ==
  ASSUME TermsFit
  PROVE  Spec => []((Sellers \cap Buyers = {} \/ ~FreeDEx) => NeverAsserts)
<1>1. Init => AssertInv
  BY DEF Init, AssertInv, NeverAsserts
<1>2. (BasicInv /\ BookInv /\ ReserveInv /\ SupplyConserved /\ AssertInv)
        /\ [Next]_vars => AssertInv'
  BY AssertStep, DirectBefore DEF AssertInv, NeverAsserts, ReserveInv
<1>3. AssertInv => ((Sellers \cap Buyers = {} \/ ~FreeDEx) => NeverAsserts)
  BY DEF AssertInv, Direct
<1> QED
  BY <1>1, <1>2, <1>3, ReserveInvariant, SupplyKept, PTL DEF Spec

-----------------------------------------------------------------------------
(* The offers a payment closes *)

(* When nobody both sells and buys, a payment only closes an offer of TL   *)
(* or TTL of which nothing is left, neither on sale nor in another accept. *)
THEOREM ClosedIsSoldOut ==
  ASSUME Sellers \cap Buyers = {}
  PROVE  Spec => PaidOfferIsSoldOut
<1> DEFINE A == \A k \in DOMAIN my_offers \ DOMAIN my_offers' :
                  \/ my_accepts' = my_accepts
                  \/ k[2] > TL_PROPERTY_TMSC
                  \/ SumOf(AcceptedBy(k[1], k[2]))' = 0
<1>1. BasicInv /\ BookInv /\ ReserveInv /\ [Next]_vars => [A]_vars
  <2> SUFFICES ASSUME BasicInv, BookInv, ReserveInv, [Next]_vars,
                      NEW k \in DOMAIN my_offers \ DOMAIN my_offers'
               PROVE  \/ my_accepts' = my_accepts
                      \/ k[2] > TL_PROPERTY_TMSC
                      \/ SumOf(AcceptedBy(k[1], k[2]))' = 0
    OBVIOUS
  <2>1. TypeOK /\ NoStrandedReserve /\ AcceptReserveBacked'
    BY ReserveStep DEF BasicInv, ReserveInv, Direct
  <2>2. ASSUME NEW s \in Addr, NEW b \in Addr, NEW j \in DOMAIN my_accepts, NEW n,
               Paid(j, s, b, n), ~(k[2] > TL_PROPERTY_TMSC)
        PROVE  SumOf(AcceptedBy(k[1], k[2]))' = 0
    <3>1. k = <<s, j[2]>> /\ SoldOut(tally', s, j[2])
      BY <2>2, Zenon DEF Paid, Erase
    <3>2. k[1] = s /\ k[2] = j[2] /\ k[2] \in Prop
      BY <2>1, <3>1, Zenon DEF TypeOK
    <3>3. tally'[k[1]][k[2]]["ACCEPT_RESERVE"] = 0
      BY <2>2, <3>1, <3>2, Zenon DEF SoldOut, GetTokenBalance
    <3> QED
      BY <2>1, <3>2, <3>3, Zenon DEF AcceptReserveBacked
  <2> QED
    BY <2>1, <2>2, Steps, Finite, Zenon DEF Still, Listed, Taken, Lapsed
<1>2. Spec => [][A]_vars
  BY <1>1, ReserveInvariant, PTL DEF Spec
<1> QED
  BY <1>2 DEF PaidOfferIsSoldOut
=============================================================================
