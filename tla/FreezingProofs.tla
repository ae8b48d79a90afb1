---------------------------- MODULE FreezingProofs ----------------------------
(***************************************************************************)
(* Theorems about the freezing of addresses, for any number of properties, *)
(* issuers, blocks and transactions: who is frozen is frozen for a         *)
(* property that is enabled, and a replay of the valid transactions        *)
(* restores the two sets.                                                  *)
(***************************************************************************)
EXTENDS Freezing, LedgerTheorems

(* The provers of a step that names none, with their time limits. *)
USE SMTT(20), ZenonT(20)

FreezeTxs == [type : Types, sender : Addr, receiver : Addr, property : Managed, block : Nat]

States == [enabled : SUBSET (Managed \X Nat), frozen : SUBSET (Addr \X Managed)]

(* FrozenOnlyWhileEnabled of any two sets s, at height b. *)
OnlyEnabled(s, b) == \A f \in s.frozen : isFreezingEnabled(s, f[2], b)

(* Every handler keeps the types of the two sets. *)
LEMMA AfterType ==
  ASSUME NEW s \in States, NEW tx \in FreezeTxs
  PROVE  After(s, tx) \in States
<1>1. LiveBlock(tx.block) \in Nat
  BY FreezingAssumption DEF LiveBlock, FreezeTxs
<1>2. tx.property \in Managed /\ tx.receiver \in Addr /\ tx.type \in Types
  BY DEF FreezeTxs
<1>3. CASE tx.type = "ENABLE"
  BY <1>1, <1>2, <1>3 DEF After, States
<1>4. CASE tx.type = "DISABLE"
  BY <1>4 DEF After, States
<1>5. CASE tx.type = "FREEZE"
  BY <1>2, <1>5 DEF After, States
<1>6. CASE tx.type = "UNFREEZE"
  BY <1>6 DEF After, States
<1> QED
  BY <1>2, <1>3, <1>4, <1>5, <1>6 DEF Types

(* An accepted transaction leaves no address frozen for a property that    *)
(* is not enabled: disabling thaws the addresses of the property, and it   *)
(* does not touch what enables another one.                                *)
LEMMA AfterOnlyEnabled ==
  ASSUME NEW s \in States, NEW tx \in FreezeTxs, NEW b \in Nat, tx.block <= b,
         Accepted(s, tx), OnlyEnabled(s, b)
  PROVE  OnlyEnabled(After(s, tx), b)
<1> DEFINE p == tx.property
<1>1. tx.type \in Types /\ tx.block \in Nat
  BY DEF FreezeTxs
<1>2. \A e \in s.enabled : e[2] \in Nat
  BY DEF States
<1>3. CASE tx.type = "ENABLE"
  <2>1. After(s, tx).frozen = s.frozen /\ s.enabled \subseteq After(s, tx).enabled
    BY <1>3 DEF After, States
  <2> QED
    BY <2>1 DEF OnlyEnabled, isFreezingEnabled
<1>4. CASE tx.type = "DISABLE"
  <2>1. /\ After(s, tx).frozen = {f \in s.frozen : f[2] # p}
        /\ \A e \in s.enabled : e[1] # p => e \in After(s, tx).enabled
    BY <1>4 DEF After, FrozenFor
  <2> QED
    BY <2>1 DEF OnlyEnabled, isFreezingEnabled
<1>5. CASE tx.type = "FREEZE"
  <2>1. /\ After(s, tx).frozen = s.frozen \cup {<<tx.receiver, p>>}
        /\ After(s, tx).enabled = s.enabled
    BY <1>5 DEF After, States
  <2>2. PICK e \in s.enabled : e[1] = p /\ tx.block >= e[2]
    BY <1>5 DEF Accepted, isFreezingEnabled
  <2>3. b >= e[2]
    BY <1>1, <1>2, <2>2
  <2> QED
    BY <2>1, <2>2, <2>3 DEF OnlyEnabled, isFreezingEnabled
<1>6. CASE tx.type = "UNFREEZE"
  <2>1. After(s, tx).frozen \subseteq s.frozen /\ After(s, tx).enabled = s.enabled
    BY <1>6 DEF After, States
  <2> QED
    BY <2>1 DEF OnlyEnabled, isFreezingEnabled
<1> QED
  BY <1>1, <1>3, <1>4, <1>5, <1>6 DEF Types

(* What is enabled stays enabled at later heights. *)
LEMMA EnabledLater ==
  ASSUME NEW s \in States, NEW b \in Nat, NEW c \in Nat, b <= c, OnlyEnabled(s, b)
  PROVE  OnlyEnabled(s, c)
<1>1. \A e \in s.enabled : e[2] \in Nat
  BY DEF States
<1>2. ASSUME NEW f \in s.frozen PROVE isFreezingEnabled(s, f[2], c)
  <2>1. PICK e \in s.enabled : e[1] = f[2] /\ b >= e[2]
    BY DEF OnlyEnabled, isFreezingEnabled
  <2>2. c >= e[2]
    BY <1>1, <2>1
  <2> QED
    BY <2>1, <2>2 DEF isFreezingEnabled
<1> QED
  BY <1>2 DEF OnlyEnabled

-----------------------------------------------------------------------------
(* One step of LoadFreezeState, and the whole replay as a function. *)
Replayed(r, tx) ==
    IF r.halted # "no" THEN r
    ELSE IF ~Accepted(r.state, tx) THEN [r EXCEPT !.halted = "abort"]
    ELSE IF "no" \notin Outcomes(r.state, tx) THEN [r EXCEPT !.halted = "disable"]
    ELSE [r EXCEPT !.state = After(r.state, tx)]

IsReplay(g, k) ==
    g = [i \in 0 .. k |-> IF i = 0 THEN [state |-> Empty, halted |-> "no"]
                          ELSE Replayed(g[i - 1], txlist[i])]

(* There is a replay of any length: each extends the one before. *)
LEMMA ReplayExists == \A k \in Nat : \E g : IsReplay(g, k)
<1> DEFINE S == {k \in Nat : \E g : IsReplay(g, k)}
           first == [state |-> Empty, halted |-> "no"]
<1>1. 0 \in S
  <2> DEFINE g == [i \in 0 .. 0 |-> first]
  <2>1. IsReplay(g, 0)
    BY DEF IsReplay
  <2> QED
    BY <2>1
<1>2. ASSUME NEW k \in Nat, k \in S PROVE k + 1 \in S
  <2>1. PICK g : IsReplay(g, k)
    BY <1>2
  <2> DEFINE h == [i \in 0 .. k + 1 |-> IF i = k + 1 THEN Replayed(g[k], txlist[i]) ELSE g[i]]
  <2>2. \A i \in 0 .. k : h[i] = g[i]
    OBVIOUS
  <2>3. ASSUME NEW i \in 0 .. k + 1
        PROVE  h[i] = IF i = 0 THEN first ELSE Replayed(h[i - 1], txlist[i])
    <3>1. CASE i = k + 1
      <4>1. h[i] = Replayed(g[k], txlist[i]) /\ i # 0 /\ i - 1 = k
        BY <3>1
      <4>2. h[k] = g[k]
        BY <2>2
      <4> HIDE DEF h
      <4> QED
        BY <4>1, <4>2
    <3>2. CASE i \in 0 .. k
      <4>1. h[i] = g[i]
        BY <2>2, <3>2
      <4>2. i # 0 => h[i - 1] = g[i - 1]
        BY <2>2, <3>2, i # 0 => i - 1 \in 0 .. k
      <4>3. g[i] = IF i = 0 THEN first ELSE Replayed(g[i - 1], txlist[i])
        BY <2>1, <3>2 DEF IsReplay
      <4> HIDE DEF h
      <4> QED
        BY <4>1, <4>2, <4>3
    <3> QED
      BY <3>1, <3>2
  <2>4. h = [i \in 0 .. k + 1 |-> h[i]]
    OBVIOUS
  <2> HIDE DEF h
  <2>5. IsReplay(h, k + 1)
    BY <2>3, <2>4, Zenon DEF IsReplay
  <2> QED
    BY <2>5
<1> HIDE DEF S
<1>3. \A k \in Nat : k \in S
  BY <1>1, <1>2, SetInduction, Zenon
<1> QED
  BY <1>3 DEF S

(* Reloaded is the last value of the replay. *)
LEMMA ReloadedIs ==
  ASSUME NEW k \in Nat
  PROVE  \E g : IsReplay(g, k) /\ Reloaded(k) = g[k]
<1> DEFINE g == CHOOSE g : IsReplay(g, k)
<1>1. IsReplay(g, k)
  BY ReplayExists, Zenon
<1>2. Reloaded(k) = g[k]
  BY DEF Reloaded, IsReplay, Replayed
<1> QED
  BY <1>1, <1>2, Zenon

(* As long as the replay goes on, its sets are well formed and nobody is   *)
(* frozen for a property that is not enabled.                              *)
LEMMA ReplayOnlyEnabled ==
  ASSUME NEW g, NEW k \in Nat, IsReplay(g, k), NEW b \in Nat,
         \A i \in 1 .. k : txlist[i] \in FreezeTxs /\ txlist[i].block <= b
  PROVE  /\ g[k].state \in States
         /\ g[k].halted = "no" => OnlyEnabled(g[k].state, b)
<1> DEFINE Results == [state : States, halted : {"no", "abort", "disable"}]
           Good(r) == r \in Results /\ (r.halted = "no" => OnlyEnabled(r.state, b))
           S == {i \in Nat : i \in 0 .. k => Good(g[i])}
<1>1. 0 \in S
  <2>1. g[0] = [state |-> Empty, halted |-> "no"]
    BY DEF IsReplay
  <2>2. Empty \in States /\ OnlyEnabled(Empty, b)
    BY DEF Empty, States, OnlyEnabled
  <2> QED
    BY <2>1, <2>2
<1>2. ASSUME NEW i \in Nat, i \in S PROVE i + 1 \in S
  <2> SUFFICES ASSUME i + 1 \in 0 .. k PROVE Good(g[i + 1])
    OBVIOUS
  <2>1. Good(g[i])
    BY <1>2
  <2> PICK tx \in FreezeTxs : tx = txlist[i + 1] /\ tx.block <= b
    OBVIOUS
  <2> PICK r \in Results : r = g[i] /\ Good(r)
    BY <2>1
  <2>2. g[i + 1] = Replayed(r, tx)
    <3>1. i + 1 # 0 /\ i + 1 - 1 = i
      OBVIOUS
    <3> QED
      BY <3>1 DEF IsReplay
  <2>3. r.state \in States
    OBVIOUS
  <2>4. After(r.state, tx) \in States
    BY <2>3, AfterType
  <2>5. CASE r.halted # "no"
    BY <2>2, <2>5 DEF Replayed
  <2>6. CASE r.halted = "no" /\ Accepted(r.state, tx) /\ "no" \in Outcomes(r.state, tx)
    <3>1. g[i + 1] = [r EXCEPT !.state = After(r.state, tx)]
      BY <2>2, <2>6 DEF Replayed
    <3>2. OnlyEnabled(After(r.state, tx), b)
      BY <2>3, <2>6, AfterOnlyEnabled
    <3> QED
      BY <2>4, <3>1, <3>2
  <2>7. CASE r.halted = "no" /\ ~(Accepted(r.state, tx) /\ "no" \in Outcomes(r.state, tx))
    <3>1. \E w \in {"abort", "disable"} : g[i + 1] = [r EXCEPT !.halted = w]
      BY <2>2, <2>7 DEF Replayed
    <3> QED
      BY <3>1
  <2> QED
    BY <2>5, <2>6, <2>7, Zenon
<1> HIDE DEF S
<1>3. k \in S
  BY <1>1, <1>2, SetInduction, Zenon
<1> QED
  BY <1>3 DEF S

-----------------------------------------------------------------------------
(* The inductive invariant of the freezing of addresses: types, heights    *)
(* that only grow, and FrozenOnlyWhileEnabled.                             *)
FreezeInv ==
    /\ block \in Nat
    /\ txlist \in Seq(FreezeTxs)
    /\ \A i \in 1 .. Len(txlist) : txlist[i].block <= block
    /\ State \in States
    /\ Running => OnlyEnabled(State, block)

LEMMA FreezeInvInit ==
  ASSUME setFrozenAddresses = {}, setFreezingEnabledProperties = {}, block = 1, txlist = << >>
  PROVE  FreezeInv
BY DEF FreezeInv, State, States, OnlyEnabled

LEMMA FreezeTxKeeps ==
  ASSUME FreezeInv, NEW type \in Types, NEW s \in Addr, NEW r \in Addr, NEW p \in Managed,
         FreezeTx(type, s, r, p)
  PROVE  FreezeInv'
<1> DEFINE tx == [type |-> type, sender |-> s, receiver |-> r, property |-> p, block |-> block]
<1>1. tx \in FreezeTxs /\ tx.block <= block
  BY DEF FreezeInv, FreezeTxs
<1>2. /\ Running /\ Accepted(State, tx) /\ block' = block
      /\ \/ halted' = "no" /\ Become(After(State, tx)) /\ txlist' = Append(txlist, tx)
         \/ /\ halted' # "no"
            /\ UNCHANGED <<setFreezingEnabledProperties, setFrozenAddresses, txlist>>
  BY Zenon DEF FreezeTx
<1> HIDE DEF tx
<1>3. CASE halted' = "no" /\ Become(After(State, tx)) /\ txlist' = Append(txlist, tx)
  <2>1. After(State, tx) \in States
    BY <1>1, AfterType DEF FreezeInv
  <2>2. OnlyEnabled(After(State, tx), block)
    BY <1>1, <1>2, AfterOnlyEnabled DEF FreezeInv
  <2>3. State' = After(State, tx)
    BY <1>3, <2>1 DEF Become, State, States
  <2>4. txlist' \in Seq(FreezeTxs) /\ \A i \in 1 .. Len(txlist') : txlist'[i].block <= block
    BY <1>1, <1>3 DEF FreezeInv
  <2> QED
    BY <1>2, <2>1, <2>2, <2>3, <2>4, Zenon DEF FreezeInv
<1>4. CASE /\ halted' # "no"
           /\ UNCHANGED <<setFreezingEnabledProperties, setFrozenAddresses, txlist>>
  BY <1>2, <1>4 DEF FreezeInv, State, Running
<1> QED
  BY <1>2, <1>3, <1>4

LEMMA FreezeStep ==
  ASSUME FreezeInv, [Next]_vars
  PROVE  FreezeInv'
<1>1. CASE \E type \in Types, s \in Addr, r \in Addr, p \in Managed : FreezeTx(type, s, r, p)
  BY <1>1, FreezeTxKeeps
<1>2. CASE \E s, r \in Addr, p \in Managed : ChangeIssuer(s, r, p)
  BY <1>2 DEF ChangeIssuer, FreezeInv, State, Running
<1>3. CASE NextBlock
  <2>1. block + 1 \in Nat /\ block <= block + 1
    BY DEF FreezeInv
  <2>2. State' = State /\ txlist' = txlist /\ block' = block + 1 /\ halted' = halted
    BY <1>3 DEF NextBlock, State
  <2>3. Running => OnlyEnabled(State, block + 1)
    BY <2>1, EnabledLater DEF FreezeInv
  <2>4. ASSUME NEW i \in 1 .. Len(txlist) PROVE txlist[i].block <= block + 1
    <3>1. txlist[i] \in FreezeTxs /\ txlist[i].block <= block
      BY DEF FreezeInv
    <3>2. txlist[i].block \in Nat
      BY <3>1 DEF FreezeTxs
    <3> QED
      BY <3>1, <3>2 DEF FreezeInv
  <2> QED
    BY <2>1, <2>2, <2>3, <2>4 DEF FreezeInv, Running
<1>4. CASE Restart
  <2> DEFINE k == Len(txlist)
  <2>1. k \in Nat /\ \A i \in 1 .. k : txlist[i] \in FreezeTxs /\ txlist[i].block <= block
    BY DEF FreezeInv
  <2>2. PICK g : IsReplay(g, k) /\ Reloaded(k) = g[k]
    BY <2>1, ReloadedIs
  <2>3. /\ g[k].state \in States
        /\ g[k].halted = "no" => OnlyEnabled(g[k].state, block)
    BY <2>1, <2>2, ReplayOnlyEnabled, Zenon DEF FreezeInv
  <2>4. halted' = g[k].halted /\ Become(g[k].state) /\ UNCHANGED <<block, txlist>>
    BY <1>4, <2>2, Zenon DEF Restart
  <2>5. State' = g[k].state
    BY <2>3, <2>4 DEF Become, State, States
  <2> QED
    BY <2>3, <2>4, <2>5 DEF FreezeInv, Running
<1>5. CASE UNCHANGED vars
  BY <1>5 DEF vars, FreezeInv, State, Running
<1> QED
  BY <1>1, <1>2, <1>3, <1>4, <1>5 DEF Next

(* No address is frozen for a property unless freezing is enabled for it,  *)
(* for any number of properties, issuers, blocks and transactions, and     *)
(* whatever the replay of a restart makes of them.                         *)
THEOREM FrozenWhileEnabled == Spec => []FrozenOnlyWhileEnabled
<1>1. Init => FreezeInv
  BY FreezeInvInit DEF Init
<1>2. FreezeInv => FrozenOnlyWhileEnabled
  BY DEF FreezeInv, FrozenOnlyWhileEnabled, OnlyEnabled, State
<1> QED
  BY <1>1, <1>2, FreezeStep, PTL DEF Spec

-----------------------------------------------------------------------------
(* getIssuer and Accepted over any history h of issuers. *)
Known(h, p, b) == {i \in DOMAIN h[p] : h[p][i].block <= b}

IssuerIn(h, p, b) ==
    h[p][CHOOSE i \in Known(h, p, b) : \A j \in Known(h, p, b) : j <= i].issuer

Histories == [Managed -> Seq([block : Nat, issuer : Addr])]

(* H is h with the entry e for q, of a height above b. *)
EnteredLater(H, h, q, e, b) ==
    /\ e \in [block : Nat, issuer : Addr] /\ b < e.block
    /\ H = [h EXCEPT ![q] = Append(@, e)]

IssuedBy(h, p, b) == Len(h[p]) >= 1 /\ h[p][1].block <= b

(* A later entry does not change who was the issuer at an earlier height,  *)
(* since every property has an issuer from the first block on.             *)
LEMMA IssuerStays ==
  ASSUME NEW h \in Histories, NEW H, NEW q \in Managed, NEW e, NEW p \in Managed, NEW b \in Nat,
         EnteredLater(H, h, q, e, b), IssuedBy(h, p, b)
  PROVE  IssuerIn(H, p, b) = IssuerIn(h, p, b)
<1> USE DEF EnteredLater, IssuedBy
<1> DEFINE K == Known(h, p, b)
           L == Len(h[p])
<1>1. h[p] \in Seq([block : Nat, issuer : Addr]) /\ L \in Nat /\ DOMAIN h[p] = 1 .. L
  <2>1. h[p] \in Seq([block : Nat, issuer : Addr])
    BY Zenon DEF Histories
  <2> QED
    BY <2>1
<1>2. H[p] = IF p = q THEN Append(h[p], e) ELSE h[p]
  BY DEF Histories
<1>3. \A i \in 1 .. L : H[p][i] = h[p][i]
  BY <1>1, <1>2
<1>4. Known(H, p, b) = K
  <2>1. CASE p = q
    <3>1. H[p] = Append(h[p], e) /\ DOMAIN H[p] = 1 .. L + 1 /\ H[p][L + 1] = e
      BY <1>1, <1>2, <2>1
    <3>2. ~(e.block <= b)
      OBVIOUS
    <3>3. \A i \in 1 .. L + 1 : i \in 1 .. L \/ i = L + 1
      BY <1>1
    <3>4. \A i \in 1 .. L : i \in 1 .. L + 1
      BY <1>1
    <3> QED
      BY <1>1, <1>3, <3>1, <3>2, <3>3, <3>4, Zenon DEF Known
  <2>2. CASE p # q
    BY <1>2, <2>2 DEF Known
  <2> QED
    BY <2>1, <2>2
<1>5. K \subseteq 1 .. L /\ 1 \in K
  BY <1>1 DEF Known
<1> HIDE DEF K, L
<1>6. \E i \in K : \A j \in K : j <= i
  <2> DEFINE T == {L - i : i \in K}
  <2>1. T \in SUBSET Nat /\ T # {}
    BY <1>1, <1>5
  <2>2. PICK x \in T : \A y \in T : x <= y
    BY <2>1, LeastNatural, Zenon
  <2>3. PICK i \in K : x = L - i
    BY <2>2
  <2>4. ASSUME NEW j \in K PROVE j <= i
    <3>1. x <= L - j
      BY <2>2
    <3>2. i \in Nat /\ j \in Nat
      BY <1>5
    <3> QED
      BY <1>1, <2>3, <3>1, <3>2
  <2> QED
    BY <2>4
<1> DEFINE m == CHOOSE i \in K : \A j \in K : j <= i
<1>7. m \in 1 .. L
  BY <1>5, <1>6, Zenon
<1>8. IssuerIn(h, p, b) = h[p][m].issuer /\ IssuerIn(H, p, b) = H[p][m].issuer
  BY <1>4, Zenon DEF IssuerIn, K
<1> HIDE DEF m
<1>9. H[p][m] = h[p][m]
  BY <1>3, <1>7, Zenon
<1> QED
  BY <1>8, <1>9, Zenon

(* The states the node went through: the sets before and after each valid  *)
(* transaction, each of which a replay accepts and can get through.        *)
Trace(g) ==
    /\ g[0] = Empty
    /\ \A i \in 1 .. Len(txlist) :
          /\ Accepted(g[i - 1], txlist[i])
          /\ "no" \in Outcomes(g[i - 1], txlist[i])
          /\ g[i] = After(g[i - 1], txlist[i])

(* A replay follows the trace. *)
LEMMA ReplayFollows ==
  ASSUME NEW k \in Nat, k = Len(txlist), NEW g, Trace(g), NEW h, IsReplay(h, k)
  PROVE  h[k] = [state |-> g[k], halted |-> "no"]
<1> DEFINE S == {i \in Nat : i \in 0 .. k => h[i] = [state |-> g[i], halted |-> "no"]}
<1>1. 0 \in S
  BY DEF IsReplay, Trace
<1>2. ASSUME NEW i \in Nat, i \in S PROVE i + 1 \in S
  <2> SUFFICES ASSUME i + 1 \in 0 .. k
               PROVE  h[i + 1] = [state |-> g[i + 1], halted |-> "no"]
    OBVIOUS
  <2>1. h[i] = [state |-> g[i], halted |-> "no"]
    BY <1>2
  <2>2. h[i + 1] = Replayed(h[i], txlist[i + 1])
    BY i + 1 # 0, i + 1 - 1 = i DEF IsReplay
  <2>3. /\ Accepted(g[i], txlist[i + 1])
        /\ "no" \in Outcomes(g[i], txlist[i + 1])
        /\ g[i + 1] = After(g[i], txlist[i + 1])
    BY i + 1 \in 1 .. Len(txlist), i + 1 - 1 = i DEF Trace
  <2> QED
    BY <2>1, <2>2, <2>3 DEF Replayed
<1> HIDE DEF S
<1>3. k \in S
  BY <1>1, <1>2, SetInduction, Zenon
<1> QED
  BY <1>3 DEF S

(* The inductive invariant of restarts: every property has had an issuer   *)
(* since the first block, and the node's sets are the last of a trace.     *)
RestartInv ==
    /\ FreezeInv
    /\ historicalIssuers \in Histories
    /\ \A p \in Managed : Len(historicalIssuers[p]) >= 1 /\ historicalIssuers[p][1].block = 1
    /\ block >= 1
    /\ \A i \in 1 .. Len(txlist) : txlist[i].block >= 1
    /\ Running => \E g : Trace(g) /\ g[Len(txlist)] = State

LEMMA RestartInvInit ==
  ASSUME Init
  PROVE  RestartInv
<1>1. FreezeInv
  BY FreezeInvInit DEF Init
<1>2. historicalIssuers \in Histories
  BY FreezingAssumption DEF Init, Histories
<1>3. ASSUME NEW p \in Managed
      PROVE  Len(historicalIssuers[p]) >= 1 /\ historicalIssuers[p][1].block = 1
  BY DEF Init
<1>4. block >= 1 /\ txlist = << >> /\ State = Empty
  BY DEF Init, State, Empty
<1>5. Trace([i \in {0} |-> Empty])
  BY <1>4 DEF Trace
<1>6. \E g : Trace(g) /\ g[Len(txlist)] = State
  BY <1>4, <1>5
<1> QED
  BY <1>1, <1>2, <1>3, <1>4, <1>6 DEF RestartInv

(* A restart of a node that runs brings its sets back. *)
LEMMA RestartKeeps ==
  ASSUME RestartInv, Restart
  PROVE  halted' = "no" /\ State' = State
<1> DEFINE k == Len(txlist)
<1>1. k \in Nat /\ State \in States
  BY DEF RestartInv, FreezeInv
<1>2. PICK g : Trace(g) /\ g[k] = State
  BY DEF RestartInv, Restart
<1>3. PICK h : IsReplay(h, k) /\ Reloaded(k) = h[k]
  BY <1>1, ReloadedIs
<1>4. h[k] = [state |-> State, halted |-> "no"]
  BY <1>1, <1>2, <1>3, ReplayFollows, Zenon
<1>5. halted' = Reloaded(k).halted /\ Become(Reloaded(k).state)
  BY Zenon DEF Restart
<1> QED
  BY <1>1, <1>3, <1>4, <1>5 DEF Become, State, States

(* A transaction extends the trace by one state. *)
LEMMA TraceExtends ==
  ASSUME RestartInv, NEW type \in Types, NEW s \in Addr, NEW r \in Addr, NEW p \in Managed,
         FreezeTx(type, s, r, p), halted' = "no"
  PROVE  \E g : Trace(g)' /\ g[Len(txlist')] = State'
<1> DEFINE tx == [type |-> type, sender |-> s, receiver |-> r, property |-> p, block |-> block]
           k == Len(txlist)
<1>1. /\ Running /\ Accepted(State, tx) /\ "no" \in Outcomes(State, tx)
      /\ Become(After(State, tx)) /\ txlist' = Append(txlist, tx)
      /\ historicalIssuers' = historicalIssuers
  BY Zenon DEF FreezeTx
<1>2. k \in Nat /\ State \in States /\ tx \in FreezeTxs /\ txlist \in Seq(FreezeTxs)
  BY DEF RestartInv, FreezeInv, FreezeTxs
<1> HIDE DEF tx
<1>3. State' = After(State, tx)
  <2>1. After(State, tx) \in States
    BY <1>2, AfterType
  <2> QED
    BY <1>1, <2>1 DEF Become, State, States
<1>4. PICK g : Trace(g) /\ g[k] = State
  BY <1>1 DEF RestartInv
<1> PICK f : f = [i \in 0 .. k + 1 |-> IF i = k + 1 THEN State' ELSE g[i]]
  BY Zenon
<1>5. Len(txlist') = k + 1 /\ txlist'[k + 1] = tx /\ \A i \in 1 .. k : txlist'[i] = txlist[i]
  BY <1>1, <1>2
<1>6. f[0] = g[0] /\ f[k] = g[k] /\ f[k + 1] = State' /\ \A i \in 0 .. k : f[i] = g[i]
  BY <1>2
<1> HIDE DEF k
<1>7. ASSUME NEW u, NEW x PROVE Accepted(u, x)' <=> Accepted(u, x)
  BY <1>1, Zenon DEF Accepted, getIssuer, isFreezingEnabled
<1>8. ASSUME NEW i \in 1 .. k + 1
      PROVE  /\ Accepted(f[i - 1], txlist'[i])
             /\ "no" \in Outcomes(f[i - 1], txlist'[i])
             /\ f[i] = After(f[i - 1], txlist'[i])
  <2>1. CASE i = k + 1
    <3>1. f[i - 1] = State /\ txlist'[i] = tx /\ f[i] = State'
      BY <1>2, <1>4, <1>5, <1>6, <2>1
    <3> QED
      BY <1>1, <1>3, <3>1, Zenon
  <2>2. CASE i \in 1 .. k
    <3>1. f[i - 1] = g[i - 1] /\ txlist'[i] = txlist[i] /\ f[i] = g[i]
      BY <1>2, <1>5, <1>6, <2>2, i - 1 \in 0 .. k
    <3> QED
      BY <1>4, <2>2, <3>1, Zenon DEF Trace, k
  <2> QED
    BY <1>2, <2>1, <2>2
<1>9. Trace(f)'
  BY <1>4, <1>5, <1>6, <1>7, <1>8, Zenon DEF Trace
<1> QED
  BY <1>5, <1>6, <1>9

(* A step that touches neither list keeps the trace. *)
LEMMA SameTrace ==
  ASSUME UNCHANGED <<historicalIssuers, txlist>>, NEW g, Trace(g)
  PROVE  Trace(g)'
<1>1. ASSUME NEW u, NEW x PROVE Accepted(u, x)' <=> Accepted(u, x)
  BY DEF Accepted, getIssuer, isFreezingEnabled
<1> QED
  BY <1>1 DEF Trace

(* A change of issuer leaves the trace acceptable: all its transactions    *)
(* are of earlier blocks.                                                  *)
LEMMA TraceOutlivesIssuer ==
  ASSUME RestartInv, NEW s \in Addr, NEW r \in Addr, NEW q \in Managed, ChangeIssuer(s, r, q),
         \A i \in DOMAIN txlist : txlist[i].block < block, NEW g, Trace(g)
  PROVE  Trace(g)'
<1> DEFINE e == [block |-> block, issuer |-> r]
<1>1. /\ historicalIssuers' = [historicalIssuers EXCEPT ![q] = Append(@, e)]
      /\ txlist' = txlist
  BY DEF ChangeIssuer
<1>2. e \in [block : Nat, issuer : Addr] /\ e.block = block /\ historicalIssuers \in Histories
  BY DEF RestartInv, FreezeInv
<1> HIDE DEF e
<1>3. ASSUME NEW i \in 1 .. Len(txlist)
      PROVE  Accepted(g[i - 1], txlist[i])'
  <2> PICK tx \in FreezeTxs : tx = txlist[i]
    BY DEF RestartInv, FreezeInv
  <2>1. tx.property \in Managed /\ tx.block \in Nat
    BY DEF FreezeTxs
  <2>2. tx.block < e.block /\ 1 <= tx.block
    <3>1. i \in DOMAIN txlist
      BY DEF RestartInv, FreezeInv
    <3> QED
      BY <1>2, <2>1, <3>1 DEF RestartInv
  <2>3. /\ Len(historicalIssuers[tx.property]) >= 1
        /\ historicalIssuers[tx.property][1].block <= tx.block
    BY <2>1, <2>2, Zenon DEF RestartInv
  <2>4. IssuerIn(historicalIssuers', tx.property, tx.block)
          = IssuerIn(historicalIssuers, tx.property, tx.block)
    <3>1. EnteredLater(historicalIssuers', historicalIssuers, q, e, tx.block)
      BY <1>1, <1>2, <2>2 DEF EnteredLater
    <3>2. IssuedBy(historicalIssuers, tx.property, tx.block)
      BY <2>3 DEF IssuedBy
    <3> QED
      BY <1>2, <2>1, <3>1, <3>2, IssuerStays, SMT, Zenon
  <2>5. getIssuer(tx.property, tx.block)' = getIssuer(tx.property, tx.block)
    BY <2>4, Zenon DEF getIssuer, IssuerIn, Known
  <2>6. Accepted(g[i - 1], tx)
    BY DEF Trace
  <2>7. txlist'[i] = tx
    BY <1>1
  <2> QED
    BY <2>5, <2>6, <2>7, Zenon DEF Accepted, isFreezingEnabled
<1> QED
  BY <1>1, <1>3 DEF Trace

LEMMA RestartStep ==
  ASSUME ~ChangesAfterFreezes, RestartInv, [Next]_vars
  PROVE  RestartInv'
<1>1. FreezeInv'
  BY FreezeStep DEF RestartInv
<1>2. CASE \E type \in Types, s \in Addr, r \in Addr, p \in Managed : FreezeTx(type, s, r, p)
  <2>1. PICK type \in Types, s \in Addr, r \in Addr, p \in Managed : FreezeTx(type, s, r, p)
    BY <1>2
  <2>2. Running' => \E g : Trace(g)' /\ g[Len(txlist')] = State'
    BY <2>1, TraceExtends DEF Running
  <2>3. UNCHANGED <<historicalIssuers, block>>
    BY <2>1 DEF FreezeTx
  <2>4. \A i \in 1 .. Len(txlist') : txlist'[i].block >= 1
    <3>1. \/ txlist' = txlist
          \/ \E x : txlist' = Append(txlist, x) /\ x.block = block
      BY <2>1 DEF FreezeTx
    <3> QED
      BY <3>1 DEF RestartInv, FreezeInv
  <2> QED
    BY <1>1, <2>2, <2>3, <2>4, Zenon DEF RestartInv
<1>3. CASE \E s, r \in Addr, p \in Managed : ChangeIssuer(s, r, p)
  <2>1. PICK s \in Addr, r \in Addr, q \in Managed : ChangeIssuer(s, r, q)
    BY <1>3
  <2> DEFINE e == [block |-> block, issuer |-> r]
  <2>2. /\ historicalIssuers' = [historicalIssuers EXCEPT ![q] = Append(@, e)]
        /\ UNCHANGED <<block, txlist, halted>> /\ State' = State
        /\ \A i \in DOMAIN txlist : txlist[i].block < block
    BY <2>1, Zenon DEF ChangeIssuer, State
  <2>3. e \in [block : Nat, issuer : Addr]
    BY DEF RestartInv, FreezeInv
  <2> HIDE DEF e
  <2>4. Running' => \E g : Trace(g)' /\ g[Len(txlist')] = State'
    BY <2>1, <2>2, TraceOutlivesIssuer, Zenon DEF RestartInv, Running
  <2>5. ASSUME NEW p \in Managed
        PROVE  /\ historicalIssuers'[p] \in Seq([block : Nat, issuer : Addr])
               /\ Len(historicalIssuers'[p]) >= 1 /\ historicalIssuers'[p][1].block = 1
    <3>1. historicalIssuers[p] \in Seq([block : Nat, issuer : Addr])
      BY Zenon DEF RestartInv, Histories
    <3>2. Len(historicalIssuers[p]) >= 1 /\ historicalIssuers[p][1].block = 1
      BY DEF RestartInv
    <3>3. historicalIssuers'[p] = IF p = q THEN Append(historicalIssuers[p], e)
                                  ELSE historicalIssuers[p]
      BY <2>2 DEF RestartInv, Histories
    <3> QED
      BY <2>3, <3>1, <3>2, <3>3
  <2>6. historicalIssuers' \in Histories
    BY <2>2, <2>5, Zenon DEF RestartInv, Histories
  <2> QED
    BY <1>1, <2>2, <2>4, <2>5, <2>6, Zenon DEF RestartInv
<1>4. CASE NextBlock
  <2>1. UNCHANGED <<historicalIssuers, txlist, halted>> /\ State' = State /\ block' = block + 1
    BY <1>4 DEF NextBlock, State
  <2>2. block + 1 >= 1
    BY DEF RestartInv, FreezeInv
  <2> QED
    BY <1>1, <2>1, <2>2, SameTrace, Zenon DEF RestartInv, Running
<1>5. CASE Restart
  <2>1. UNCHANGED <<historicalIssuers, txlist, block>> /\ Running
    BY <1>5 DEF Restart
  <2>2. State' = State
    BY <1>5, RestartKeeps
  <2> QED
    BY <1>1, <2>1, <2>2, SameTrace DEF RestartInv, Running
<1>6. CASE UNCHANGED vars
  <2>1. UNCHANGED <<historicalIssuers, txlist, halted, block>> /\ State' = State
    BY <1>6 DEF vars, State
  <2> QED
    BY <1>1, <2>1, SameTrace DEF RestartInv, Running
<1> QED
  BY <1>2, <1>3, <1>4, <1>5, <1>6, Zenon DEF Next

(* LoadFreezeState accepts every valid transaction again and arrives at    *)
(* the sets the node had, for any number of transactions and of changes of *)
(* issuer, if no issuer hands over in a block in which a freeze            *)
(* transaction has been processed before.                                  *)
THEOREM ReplayRestores ==
  ASSUME ~ChangesAfterFreezes
  PROVE  Spec => RestartRestores
<1>1. RestartInv /\ [Next]_vars => RestartInv'
  BY RestartStep
<1>2. RestartInv /\ [Next]_vars => [Restart => halted' = "no" /\ State' = State]_vars
  BY RestartKeeps
<1> QED
  BY <1>1, <1>2, RestartInvInit, PTL DEF Spec, RestartRestores
=============================================================================
