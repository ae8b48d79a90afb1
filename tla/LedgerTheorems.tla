--------------------------- MODULE LedgerTheorems ---------------------------
(***************************************************************************)
(* What the proofs use of sums and of the ledger: facts about SumOf, which *)
(* hold for every finite set of keys, and about a transfer, which changes  *)
(* two entries, keeps the supply, and passes the asserts of                *)
(* update_tally_map when what it takes is there.                           *)
(***************************************************************************)
EXTENDS Tally, FiniteSetTheorems, WellFoundedInduction, TLAPS

(* All units of the holdings f. *)
AllUnits(f) == UNION {UnitsOf(f, x) : x \in DOMAIN f}

(* A unit of f is a key with a number up to the holding of the key. *)
LEMMA AllUnitsMember ==
  ASSUME NEW S, NEW f \in [S -> Nat], NEW u
  PROVE  u \in AllUnits(f) <=>
           \E x \in S : \E i \in 1 .. f[x] : u = <<x, i>>
<1>1. u \in AllUnits(f) <=> \E x \in S : u \in UnitsOf(f, x)
  BY DEF AllUnits
<1>2. \A x \in S : u \in UnitsOf(f, x) <=> \E i \in 1 .. f[x] : u = <<x, i>>
  BY DEF UnitsOf
<1> QED
  BY <1>1, <1>2

(* A holding of n units has n units. *)
LEMMA UnitsOfCardinality ==
  ASSUME NEW S, NEW f \in [S -> Nat], NEW x \in S
  PROVE  /\ IsFiniteSet(UnitsOf(f, x))
         /\ Cardinality(UnitsOf(f, x)) = f[x]
<1>1. f[x] \in Nat
  OBVIOUS
<1>2. IsFiniteSet(1 .. f[x]) /\ Cardinality(1 .. f[x]) = f[x]
  BY <1>1, FS_Interval
<1>3. IsFiniteSet({x}) /\ Cardinality({x}) = 1
  BY FS_Singleton, Zenon
<1>4. /\ IsFiniteSet({x} \X (1 .. f[x]))
      /\ Cardinality({x} \X (1 .. f[x])) = Cardinality({x}) * Cardinality(1 .. f[x])
  BY <1>2, <1>3, FS_Product, Zenon
<1> QED
  BY <1>1, <1>2, <1>3, <1>4 DEF UnitsOf

(* The holdings of finitely many keys have finitely many units. *)
LEMMA AllUnitsFinite ==
  ASSUME NEW S, IsFiniteSet(S), NEW f \in [S -> Nat]
  PROVE  IsFiniteSet(AllUnits(f))
<1> DEFINE T == {UnitsOf(f, x) : x \in S}
           g == [x \in S |-> UnitsOf(f, x)]
<1>1. g \in Surjection(S, T)
  BY DEF Surjection
<1>2. IsFiniteSet(T)
  BY <1>1, FS_Surjection
<1>3. \A U \in T : IsFiniteSet(U)
  BY UnitsOfCardinality
<1>4. IsFiniteSet(UNION T)
  BY <1>2, <1>3, FS_UNION
<1> QED
  BY <1>4 DEF AllUnits

(* The sum of holdings is a natural number. *)
LEMMA SumOfType ==
  ASSUME NEW S, IsFiniteSet(S), NEW f \in [S -> Nat]
  PROVE  SumOf(f) \in Nat
BY AllUnitsFinite, FS_CardinalityType DEF SumOf, AllUnits

(* Splitting the keys in two splits the sum. *)
LEMMA SumOfSplit ==
  ASSUME NEW S, IsFiniteSet(S), NEW f \in [S -> Nat], NEW T \in SUBSET S
  PROVE  SumOf(f) = SumOf([x \in T |-> f[x]]) + SumOf([x \in S \ T |-> f[x]])
<1> DEFINE g == [x \in T |-> f[x]]
           h == [x \in S \ T |-> f[x]]
<1>1. IsFiniteSet(T) /\ IsFiniteSet(S \ T)
  BY FS_Subset
<1>2. g \in [T -> Nat] /\ h \in [S \ T -> Nat]
  OBVIOUS
<1>3. AllUnits(f) = AllUnits(g) \cup AllUnits(h)
  <2>1. ASSUME NEW u PROVE u \in AllUnits(f) <=> u \in AllUnits(g) \/ u \in AllUnits(h)
    <3>1. u \in AllUnits(f) <=> \E x \in S : \E i \in 1 .. f[x] : u = <<x, i>>
      BY AllUnitsMember
    <3>2. u \in AllUnits(g) <=> \E x \in T : \E i \in 1 .. f[x] : u = <<x, i>>
      BY <1>2, AllUnitsMember
    <3>3. u \in AllUnits(h) <=> \E x \in S \ T : \E i \in 1 .. f[x] : u = <<x, i>>
      BY <1>2, AllUnitsMember
    <3> QED
      BY <3>1, <3>2, <3>3
  <2> QED
    BY <2>1
<1>4. AllUnits(g) \cap AllUnits(h) = {}
  <2>1. ASSUME NEW u \in AllUnits(g), u \in AllUnits(h) PROVE FALSE
    <3>1. PICK x \in T : \E i \in 1 .. g[x] : u = <<x, i>>
      BY <1>2, AllUnitsMember
    <3>2. PICK y \in S \ T : \E i \in 1 .. h[y] : u = <<y, i>>
      BY <1>2, <2>1, AllUnitsMember
    <3> QED
      BY <3>1, <3>2
  <2> QED
    BY <2>1
<1>5. IsFiniteSet(AllUnits(g)) /\ IsFiniteSet(AllUnits(h))
  BY <1>1, <1>2, AllUnitsFinite
<1>6. Cardinality(AllUnits(f)) = Cardinality(AllUnits(g)) + Cardinality(AllUnits(h)) - 0
  <2>1. Cardinality(AllUnits(g) \cup AllUnits(h)) =
          Cardinality(AllUnits(g)) + Cardinality(AllUnits(h))
            - Cardinality(AllUnits(g) \cap AllUnits(h))
    BY <1>5, FS_Union, Zenon
  <2> QED
    BY <1>3, <1>4, <2>1, FS_EmptySet, Zenon
<1>7. Cardinality(AllUnits(g)) \in Nat /\ Cardinality(AllUnits(h)) \in Nat
  BY <1>5, FS_CardinalityType
<1> QED
  BY <1>6, <1>7 DEF SumOf, AllUnits

(* The sum of a single holding. *)
LEMMA SumOfSingleton ==
  ASSUME NEW d, NEW f \in [{d} -> Nat]
  PROVE  SumOf(f) = f[d]
<1>1. UNION {UnitsOf(f, x) : x \in DOMAIN f} = UnitsOf(f, d)
  OBVIOUS
<1> QED
  BY <1>1, UnitsOfCardinality, Zenon DEF SumOf

(* One changed holding changes the sum by as much. *)
LEMMA SumOfUpdate ==
  ASSUME NEW S, IsFiniteSet(S), NEW f \in [S -> Nat], NEW g \in [S -> Nat],
         NEW d \in S, \A x \in S \ {d} : g[x] = f[x]
  PROVE  SumOf(g) = SumOf(f) - f[d] + g[d]
<1> DEFINE R(e) == [x \in S \ {d} |-> e[x]]
           D(e) == [x \in {d} |-> e[x]]
<1>0. \A e \in [S -> Nat], T \in SUBSET S :
        SumOf(e) = SumOf([x \in T |-> e[x]]) + SumOf([x \in S \ T |-> e[x]])
  BY SumOfSplit, Zenon
<1>1. SumOf(f) = SumOf(D(f)) + SumOf(R(f))
  BY <1>0, {d} \in SUBSET S, Zenon
<1>2. SumOf(g) = SumOf(D(g)) + SumOf(R(g))
  BY <1>0, {d} \in SUBSET S, Zenon
<1>3. R(f) = R(g)
  OBVIOUS
<1>4. SumOf(D(f)) = f[d] /\ SumOf(D(g)) = g[d]
  <2>1. D(f) \in [{d} -> Nat] /\ D(g) \in [{d} -> Nat]
    OBVIOUS
  <2> QED
    BY <2>1, SumOfSingleton
<1>5. SumOf(R(f)) \in Nat
  <2>1. IsFiniteSet(S \ {d}) /\ R(f) \in [S \ {d} -> Nat]
    BY FS_RemoveElement
  <2> QED
    BY <2>1, SumOfType
<1> QED
  BY <1>1, <1>2, <1>3, <1>4, <1>5

(* Each holding is at most the sum. *)
LEMMA SumOfBound ==
  ASSUME NEW S, IsFiniteSet(S), NEW f \in [S -> Nat], NEW d \in S
  PROVE  f[d] <= SumOf(f)
<1> DEFINE g == [f EXCEPT ![d] = 0]
<1>1. g \in [S -> Nat] /\ g[d] = 0 /\ \A x \in S \ {d} : g[x] = f[x]
  OBVIOUS
<1> HIDE DEF g
<1>2. SumOf(g) = SumOf(f) - f[d] + g[d]
  BY <1>1, SumOfUpdate
<1>3. SumOf(g) \in Nat /\ SumOf(f) \in Nat /\ f[d] \in Nat
  BY <1>1, SumOfType
<1> QED
  BY <1>1, <1>2, <1>3

(* Holdings of nothing sum up to nothing. *)
LEMMA SumOfZero ==
  ASSUME NEW S, NEW f \in [S -> Nat], \A x \in S : f[x] = 0
  PROVE  SumOf(f) = 0
<1>1. ASSUME NEW x \in S PROVE UnitsOf(f, x) = {}
  <2>1. 1 .. f[x] = {}
    BY f[x] = 0
  <2> QED
    BY <2>1 DEF UnitsOf
<1>2. UNION {UnitsOf(f, x) : x \in DOMAIN f} = {}
  BY <1>1
<1> QED
  BY <1>2, FS_EmptySet DEF SumOf

(* Some of the holdings are at most all of them. *)
LEMMA SumOfPart ==
  ASSUME NEW S, IsFiniteSet(S), NEW f \in [S -> Nat], NEW T \in SUBSET S
  PROVE  /\ SumOf([x \in T |-> f[x]]) \in Nat
         /\ SumOf([x \in T |-> f[x]]) <= SumOf(f)
<1>1. SumOf(f) = SumOf([x \in T |-> f[x]]) + SumOf([x \in S \ T |-> f[x]])
  BY SumOfSplit
<1>2. IsFiniteSet(T) /\ IsFiniteSet(S \ T)
  BY FS_Subset
<1>3. [x \in T |-> f[x]] \in [T -> Nat] /\ [x \in S \ T |-> f[x]] \in [S \ T -> Nat]
  OBVIOUS
<1>4. SumOf([x \in T |-> f[x]]) \in Nat /\ SumOf([x \in S \ T |-> f[x]]) \in Nat
  BY <1>2, <1>3, SumOfType
<1> QED
  BY <1>1, <1>4

(* Renaming the keys does not change the sum. *)
LEMMA SumOfRename ==
  ASSUME NEW S, NEW T, IsFiniteSet(S), NEW f \in [S -> Nat], NEW g \in [T -> Nat],
         NEW b \in Bijection(S, T), \A x \in S : g[b[x]] = f[x]
  PROVE  SumOf(g) = SumOf(f)
<1> DEFINE F == AllUnits(f)
           G == AllUnits(g)
           c == [u \in F |-> <<b[u[1]], u[2]>>]
<1>0. /\ b \in [S -> T]
      /\ \A x, y \in S : b[x] = b[y] => x = y
      /\ \A y \in T : \E x \in S : b[x] = y
  BY DEF Bijection, Injection, Surjection, IsInjective
<1>1. \A u : u \in F <=> \E x \in S : \E i \in 1 .. f[x] : u = <<x, i>>
  BY AllUnitsMember
<1>2. \A u : u \in G <=> \E y \in T : \E i \in 1 .. g[y] : u = <<y, i>>
  BY AllUnitsMember
<1> HIDE DEF F, G
<1>3. c \in [F -> G]
  <2> SUFFICES ASSUME NEW u \in F PROVE <<b[u[1]], u[2]>> \in G
    OBVIOUS
  <2>1. PICK x \in S, i \in Nat : i \in 1 .. f[x] /\ u = <<x, i>>
    BY <1>1
  <2>2. b[x] \in T /\ i \in 1 .. g[b[x]]
    BY <1>0, <2>1
  <2> QED
    BY <1>2, <2>1, <2>2
<1>4. ASSUME NEW u \in F, NEW v \in F, c[u] = c[v] PROVE u = v
  <2>1. PICK x \in S, i \in Nat : i \in 1 .. f[x] /\ u = <<x, i>>
    BY <1>1
  <2>2. PICK y \in S, j \in Nat : j \in 1 .. f[y] /\ v = <<y, j>>
    BY <1>1
  <2>3. b[x] = b[y] /\ i = j
    BY <1>4, <2>1, <2>2
  <2> QED
    BY <1>0, <2>1, <2>2, <2>3
<1>5. ASSUME NEW v \in G PROVE \E u \in F : c[u] = v
  <2>1. PICK y \in T, i \in Nat : i \in 1 .. g[y] /\ v = <<y, i>>
    BY <1>2
  <2>2. PICK x \in S : b[x] = y
    BY <1>0
  <2>3. <<x, i>> \in F
    BY <1>1, <2>1, <2>2
  <2>4. c[<<x, i>>] = v
    BY <2>1, <2>2, <2>3
  <2> QED
    BY <2>3, <2>4
<1>6. c \in Bijection(F, G)
  BY <1>3, <1>4, <1>5, Zenon DEF Bijection, Injection, Surjection, IsInjective
<1>7. IsFiniteSet(F)
  BY AllUnitsFinite DEF F
<1>8. Cardinality(G) = Cardinality(F)
  BY <1>6, <1>7, FS_Bijection DEF ExistsBijection
<1> QED
  BY <1>8 DEF SumOf, AllUnits, F, G

(* Two holdings under every key sum up to the sum of both. *)
LEMMA SumOfPlus ==
  ASSUME NEW S, IsFiniteSet(S), NEW f \in [S -> Nat], NEW g \in [S -> Nat]
  PROVE  SumOf([x \in S |-> f[x] + g[x]]) = SumOf(f) + SumOf(g)
<1> DEFINE h == [x \in S |-> f[x] + g[x]]
           F == AllUnits(f)
           G == AllUnits(g)
           H == AllUnits(h)
           K == H \ F
           c == [u \in G |-> <<u[1], f[u[1]] + u[2]>>]
<1>0. h \in [S -> Nat] /\ \A x \in S : f[x] \in Nat /\ g[x] \in Nat /\ h[x] = f[x] + g[x]
  OBVIOUS
<1>1. \A u : u \in F <=> \E x \in S : \E i \in 1 .. f[x] : u = <<x, i>>
  BY AllUnitsMember
<1>2. \A u : u \in G <=> \E x \in S : \E i \in 1 .. g[x] : u = <<x, i>>
  BY AllUnitsMember
<1>3. \A u : u \in H <=> \E x \in S : \E i \in 1 .. h[x] : u = <<x, i>>
  BY <1>0, AllUnitsMember
<1>4. IsFiniteSet(F) /\ IsFiniteSet(G) /\ IsFiniteSet(H)
  BY <1>0, AllUnitsFinite
<1>5. SumOf(f) = Cardinality(F) /\ SumOf(g) = Cardinality(G) /\ SumOf(h) = Cardinality(H)
  BY DEF SumOf, AllUnits
<1> HIDE DEF F, G, H, h
<1>6. F \subseteq H
  <2> SUFFICES ASSUME NEW u \in F PROVE u \in H
    OBVIOUS
  <2>1. PICK x \in S, i \in Nat : i \in 1 .. f[x] /\ u = <<x, i>>
    BY <1>1
  <2>2. i \in 1 .. h[x]
    BY <1>0, <2>1
  <2> QED
    BY <1>3, <2>1, <2>2
<1>7. \A u : u \in K <=> \E x \in S : \E i \in f[x] + 1 .. h[x] : u = <<x, i>>
  <2>1. ASSUME NEW u \in K PROVE \E x \in S : \E i \in f[x] + 1 .. h[x] : u = <<x, i>>
    <3>1. PICK x \in S, i \in Nat : i \in 1 .. h[x] /\ u = <<x, i>>
      BY <1>3
    <3>2. i \notin 1 .. f[x]
      BY <1>1, <3>1
    <3>3. i \in f[x] + 1 .. h[x]
      BY <1>0, <3>1, <3>2
    <3> QED
      BY <3>1, <3>3
  <2>2. ASSUME NEW u, NEW x \in S, NEW i \in f[x] + 1 .. h[x], u = <<x, i>> PROVE u \in K
    <3>1. i \in 1 .. h[x] /\ i \notin 1 .. f[x]
      BY <1>0
    <3>2. u \notin F
      BY <1>1, <2>2, <3>1
    <3> QED
      BY <1>3, <2>2, <3>1, <3>2
  <2> QED
    BY <2>1, <2>2
<1> HIDE DEF K
<1>8. c \in [G -> K]
  <2> SUFFICES ASSUME NEW u \in G PROVE <<u[1], f[u[1]] + u[2]>> \in K
    OBVIOUS
  <2>1. PICK x \in S, i \in Nat : i \in 1 .. g[x] /\ u = <<x, i>>
    BY <1>2
  <2>2. f[x] + i \in f[x] + 1 .. h[x]
    BY <1>0, <2>1
  <2> QED
    BY <1>7, <2>1, <2>2
<1>9. ASSUME NEW u \in G, NEW v \in G, c[u] = c[v] PROVE u = v
  <2>1. PICK x \in S, i \in Nat : i \in 1 .. g[x] /\ u = <<x, i>>
    BY <1>2
  <2>2. PICK y \in S, j \in Nat : j \in 1 .. g[y] /\ v = <<y, j>>
    BY <1>2
  <2>3. x = y /\ f[x] + i = f[y] + j
    BY <1>9, <2>1, <2>2
  <2> QED
    BY <1>0, <2>1, <2>2, <2>3
<1>10. ASSUME NEW v \in K PROVE \E u \in G : c[u] = v
  <2>1. PICK x \in S, i \in Nat : i \in f[x] + 1 .. h[x] /\ v = <<x, i>>
    BY <1>7
  <2>2. i - f[x] \in 1 .. g[x] /\ f[x] + (i - f[x]) = i
    BY <1>0, <2>1
  <2>3. <<x, i - f[x]>> \in G
    BY <1>2, <2>2
  <2>4. c[<<x, i - f[x]>>] = v
    BY <2>1, <2>2, <2>3
  <2> QED
    BY <2>3, <2>4
<1>11. c \in Bijection(G, K)
  BY <1>8, <1>9, <1>10 DEF Bijection, Injection, Surjection, IsInjective
<1>12. Cardinality(K) = Cardinality(G)
  BY <1>4, <1>11, FS_Bijection DEF ExistsBijection
<1>13. Cardinality(K) = Cardinality(H) - Cardinality(F)
  <2>1. H \cap F = F
    BY <1>6
  <2> QED
    BY <1>4, <2>1, FS_Difference, Zenon DEF K
<1>14. Cardinality(F) \in Nat /\ Cardinality(G) \in Nat /\ Cardinality(H) \in Nat
  BY <1>4, FS_CardinalityType
<1> QED
  BY <1>5, <1>12, <1>13, <1>14 DEF h

(* Only the holdings that are not empty count. *)
LEMMA SumOfSupport ==
  ASSUME NEW S, IsFiniteSet(S), NEW f \in [S -> Nat], NEW T \in SUBSET S,
         \A x \in S \ T : f[x] = 0
  PROVE  SumOf([x \in T |-> f[x]]) = SumOf(f)
<1> DEFINE g == [x \in T |-> f[x]]
           h == [x \in S \ T |-> f[x]]
<1>1. SumOf(f) = SumOf(g) + SumOf(h)
  BY SumOfSplit
<1>2. g \in [T -> Nat] /\ IsFiniteSet(T)
  BY FS_Subset
<1>3. h \in [S \ T -> Nat] /\ \A x \in S \ T : h[x] = 0
  OBVIOUS
<1> HIDE DEF g, h
<1>4. SumOf(h) = 0 /\ SumOf(g) \in Nat
  BY <1>2, <1>3, SumOfZero, SumOfType
<1>5. SumOf(g) = SumOf(f)
  BY <1>1, <1>4
<1> QED
  BY <1>5 DEF g

(* Smaller holdings have a smaller sum. *)
LEMMA SumOfOrder ==
  ASSUME NEW S, IsFiniteSet(S), NEW f \in [S -> Nat], NEW g \in [S -> Nat],
         \A x \in S : f[x] <= g[x]
  PROVE  SumOf(f) <= SumOf(g)
<1> DEFINE h == [x \in S |-> g[x] - f[x]]
<1>1. h \in [S -> Nat]
  OBVIOUS
<1>2. [x \in S |-> f[x] + h[x]] = g
  OBVIOUS
<1> HIDE DEF h
<1>3. SumOf([x \in S |-> f[x] + h[x]]) = SumOf(f) + SumOf(h)
  BY <1>1, SumOfPlus
<1>4. SumOf(f) \in Nat /\ SumOf(h) \in Nat
  BY <1>1, SumOfType
<1> QED
  BY <1>2, <1>3, <1>4

-----------------------------------------------------------------------------
(* Induction, as facts about sets *)

(* A set of natural numbers has a least element. *)
LEMMA LeastNatural ==
  ASSUME NEW T \in SUBSET Nat, T # {}
  PROVE  \E x \in T : \A y \in T : x <= y
<1> DEFINE R == {ss \in Nat \X Nat : ss[1] < ss[2]}
<1>1. IsWellFoundedOn(R, Nat)
  BY NatLessThanWellFounded DEF OpToRel
<1>2. \A x, y \in Nat : <<y, x>> \in R <=> y < x
  OBVIOUS
<1> HIDE DEF R
<1>3. PICK x \in T : \A y \in T : ~ (<<y, x>> \in R)
  BY <1>1, WFMin, Zenon
<1>4. ASSUME NEW y \in T PROVE x <= y
  <2>1. x \in Nat /\ y \in Nat
    OBVIOUS
  <2>2. ~(y < x)
    BY <1>2, <1>3, <2>1, Zenon
  <2> QED
    BY <2>1, <2>2
<1> QED
  BY <1>4

(* A set with 0 and with the successor of each of its numbers has all. *)
LEMMA SetInduction ==
  ASSUME NEW S, 0 \in S, \A n \in Nat : n \in S => n + 1 \in S
  PROVE  \A n \in Nat : n \in S
<1> DEFINE T == {n \in Nat : n \notin S}
<1>1. ASSUME T # {} PROVE FALSE
  <2>1. PICK x \in T : \A y \in T : x <= y
    BY <1>1, LeastNatural, Zenon
  <2>2. x \in Nat \ {0} /\ x - 1 \in Nat /\ x - 1 + 1 = x /\ ~(x <= x - 1)
    OBVIOUS
  <2>3. x - 1 \in S
    BY <2>1, <2>2
  <2> QED
    BY <2>2, <2>3
<1> QED
  BY <1>1

-----------------------------------------------------------------------------
(* The ledger *)

(* The ledgers without a negative balance. *)
Ledger == [Addr -> [Prop -> [TallyType -> Nat]]]

(* What n units are worth to an entry when <<a, q, x>> is the entry moved. *)
Share(n, a, q, x, b, p, tt) == IF a = b /\ q = p /\ x = tt THEN n ELSE 0

(* The entries of the ledger m are those of t after a transfer. *)
EntriesMoved(m, t, p, n, from, tf, to, tt) ==
    \A a \in Addr, q \in Prop, x \in TallyType :
        m[a][q][x] = t[a][q][x] - Share(n, a, q, x, from, p, tf)
                                + Share(n, a, q, x, to, p, tt)

(* A transfer changes the entry it leaves and the entry it arrives at. *)
LEMMA MovedValue ==
  ASSUME NEW t \in Ledger, NEW from \in Addr, NEW to \in Addr, NEW p \in Prop,
         NEW tf \in TallyType, NEW tt \in TallyType, NEW n \in Int
  PROVE  /\ DOMAIN Moved(t, p, n, from, tf, to, tt) = Addr
         /\ Moved(t, p, n, from, tf, to, tt) \in [Addr -> [Prop -> [TallyType -> Int]]]
         /\ EntriesMoved(Moved(t, p, n, from, tf, to, tt), t, p, n, from, tf, to, tt)
<1> DEFINE u == Updated(t, from, p, -n, tf)
<1>1. /\ u \in [Addr -> [Prop -> [TallyType -> Int]]]
      /\ \A a \in Addr, q \in Prop, x \in TallyType :
           u[a][q][x] = t[a][q][x] - Share(n, a, q, x, from, p, tf)
  BY DEF Updated, Ledger, Share
<1> HIDE DEF u
<1>2. /\ Updated(u, to, p, n, tt) \in [Addr -> [Prop -> [TallyType -> Int]]]
      /\ \A a \in Addr, q \in Prop, x \in TallyType :
           Updated(u, to, p, n, tt)[a][q][x] =
             u[a][q][x] + Share(n, a, q, x, to, p, tt)
  BY <1>1 DEF Updated, Share
<1>3. Updated(u, to, p, n, tt) = Moved(t, p, n, from, tf, to, tt)
  BY DEF u, Moved
<1> QED
  BY <1>1, <1>2, <1>3 DEF Ledger, Share, EntriesMoved

-----------------------------------------------------------------------------
(* Supply *)

(* What the supply adds up, entry by entry. *)
EntriesOf(t, p, ts) == [x \in Addr \X ts |-> t[x[1]][p][x[2]]]

LEMMA SupplyEntries ==
  ASSUME NEW t \in Ledger, NEW p \in Prop, NEW ts \in SUBSET TallyType
  PROVE  /\ EntriesOf(t, p, ts) \in [Addr \X ts -> Nat]
         /\ \A a \in Addr, tt \in ts : EntriesOf(t, p, ts)[<<a, tt>>] = t[a][p][tt]
         /\ Supply(t, p, ts) = SumOf(EntriesOf(t, p, ts))
BY DEF Ledger, EntriesOf, Supply

(* The supply is a natural number and no balance is above it. *)
LEMMA SupplyBound ==
  ASSUME IsFiniteSet(Addr), NEW t \in Ledger, NEW p \in Prop,
         NEW ts \in SUBSET TallyType, IsFiniteSet(ts)
  PROVE  /\ Supply(t, p, ts) \in Nat
         /\ \A a \in Addr, tt \in ts : t[a][p][tt] <= Supply(t, p, ts)
<1> DEFINE f == EntriesOf(t, p, ts)
<1>1. f \in [Addr \X ts -> Nat] /\ \A a \in Addr, tt \in ts : f[<<a, tt>>] = t[a][p][tt]
  BY SupplyEntries
<1>2. IsFiniteSet(Addr \X ts)
  BY FS_Product
<1>3. Supply(t, p, ts) = SumOf(f)
  BY SupplyEntries, Zenon
<1> HIDE DEF f
<1>4. SumOf(f) \in Nat /\ \A d \in Addr \X ts : f[d] <= SumOf(f)
  BY <1>1, <1>2, SumOfType, SumOfBound
<1> QED
  BY <1>1, <1>3, <1>4, Zenon

(* One changed balance changes the supply by as much. *)
LEMMA SupplyUpdate ==
  ASSUME IsFiniteSet(Addr), NEW t \in Ledger, NEW u \in Ledger, NEW p \in Prop,
         NEW ts \in SUBSET TallyType, IsFiniteSet(ts), NEW who \in Addr, NEW type \in ts,
         \A a \in Addr, tt \in ts :
             <<a, tt>> # <<who, type>> => u[a][p][tt] = t[a][p][tt]
  PROVE  Supply(u, p, ts) = Supply(t, p, ts) - t[who][p][type] + u[who][p][type]
<1> DEFINE S == Addr \X ts
           f == EntriesOf(t, p, ts)
           g == EntriesOf(u, p, ts)
           d == <<who, type>>
<1>1. f \in [Addr \X ts -> Nat] /\ \A a \in Addr, tt \in ts : f[<<a, tt>>] = t[a][p][tt]
  BY SupplyEntries, Zenon
<1>2. g \in [Addr \X ts -> Nat] /\ \A a \in Addr, tt \in ts : g[<<a, tt>>] = u[a][p][tt]
  BY SupplyEntries, Zenon
<1>3. IsFiniteSet(Addr \X ts)
  BY FS_Product
<1>4. Supply(t, p, ts) = SumOf(f) /\ Supply(u, p, ts) = SumOf(g)
  BY SupplyEntries, Zenon
<1> HIDE DEF f, g
<1>5. d \in S /\ \A x \in S \ {d} : g[x] = f[x]
  BY <1>1, <1>2
<1>6. f[d] = t[who][p][type] /\ g[d] = u[who][p][type]
  BY <1>1, <1>2
<1> HIDE DEF S, d
<1>7. SumOf(g) = SumOf(f) - f[d] + g[d]
  BY <1>1, <1>2, <1>3, <1>5, SumOfUpdate DEF S
<1> QED
  BY <1>4, <1>6, <1>7

(* A transfer of what is there keeps the balances natural numbers and the  *)
(* supply of every property as it is.                                      *)
LEMMA MovedSupply ==
  ASSUME IsFiniteSet(Addr), IsFiniteSet(TallyType),
         NEW t \in Ledger, NEW from \in Addr, NEW to \in Addr, NEW p \in Prop,
         NEW tf \in TallyType, NEW tt \in TallyType, NEW n \in 0 .. t[from][p][tf]
  PROVE  /\ Moved(t, p, n, from, tf, to, tt) \in Ledger
         /\ \A q \in Prop :
              Supply(Moved(t, p, n, from, tf, to, tt), q, TallyType) = Supply(t, q, TallyType)
<1> DEFINE u == Updated(t, from, p, -n, tf)
           v == Updated(u, to, p, n, tt)
<1>0. t[from][p][tf] \in Nat /\ n \in Nat
  BY DEF Ledger
<1>1. /\ u \in Ledger
      /\ \A a \in Addr, q \in Prop, x \in TallyType :
           u[a][q][x] = IF <<a, q, x>> = <<from, p, tf>> THEN t[a][q][x] - n ELSE t[a][q][x]
  BY <1>0 DEF Updated, Ledger
<1>2. v = Moved(t, p, n, from, tf, to, tt)
  BY DEF Moved
<1> HIDE DEF u
<1>3. /\ v \in Ledger
      /\ \A a \in Addr, q \in Prop, x \in TallyType :
           v[a][q][x] = IF <<a, q, x>> = <<to, p, tt>> THEN u[a][q][x] + n ELSE u[a][q][x]
  BY <1>0, <1>1 DEF Updated, Ledger
<1> HIDE DEF v
<1>4. ASSUME NEW q \in Prop
      PROVE  Supply(v, q, TallyType) = Supply(t, q, TallyType)
  <2>1. Supply(u, q, TallyType) = Supply(t, q, TallyType) - t[from][q][tf] + u[from][q][tf]
    BY <1>1, SupplyUpdate
  <2>2. Supply(v, q, TallyType) = Supply(u, q, TallyType) - u[to][q][tt] + v[to][q][tt]
    BY <1>1, <1>3, SupplyUpdate
  <2>3. Supply(t, q, TallyType) \in Nat
    BY SupplyBound
  <2>4. /\ t[from][q][tf] \in Nat /\ u[from][q][tf] \in Nat
        /\ u[to][q][tt] \in Nat /\ v[to][q][tt] \in Nat
    BY <1>1, <1>3 DEF Ledger
  <2>5. CASE q = p
    BY <1>0, <1>1, <1>3, <2>1, <2>2, <2>3, <2>4, <2>5
  <2>6. CASE q # p
    BY <1>1, <1>3, <2>1, <2>2, <2>3, <2>4, <2>6
  <2> QED
    BY <2>5, <2>6
<1> QED
  BY <1>2, <1>3, <1>4

(* While the supply is in the range of an int64_t the asserts of a         *)
(* transfer hold if what it takes is there and not frozen.                 *)
LEMMA MoveFits ==
  ASSUME IsFiniteSet(Addr), IsFiniteSet(TallyType),
         NEW t \in Ledger, NEW from \in Addr, NEW to \in Addr, NEW p \in Prop,
         NEW tf \in TallyType, NEW tt \in TallyType, NEW n \in 1 .. t[from][p][tf],
         tf = "BALANCE" => ~isAddressFrozen(from, p),
         Supply(t, p, TallyType) <= MaxInt
  PROVE  Movable(t, p, n, from, tf, to, tt)
<1> DEFINE u == Updated(t, from, p, -n, tf)
<1>0. t[from][p][tf] \in Nat /\ n \in Nat /\ n > 0 /\ MaxInt \in Nat
  BY TallyAssumption DEF Ledger
<1>1. /\ u \in Ledger
      /\ \A a \in Addr, q \in Prop, x \in TallyType :
           u[a][q][x] = IF <<a, q, x>> = <<from, p, tf>> THEN t[a][q][x] - n ELSE t[a][q][x]
  BY <1>0 DEF Updated, Ledger
<1>2. Updatable(t, from, p, -n, tf)
  BY <1>0 DEF Updatable, isOverflow
<1> HIDE DEF u
<1>3. Supply(u, p, TallyType) = Supply(t, p, TallyType) - t[from][p][tf] + u[from][p][tf]
  BY <1>1, SupplyUpdate
<1>4. /\ Supply(t, p, TallyType) \in Nat
      /\ Supply(u, p, TallyType) \in Nat
      /\ u[to][p][tt] <= Supply(u, p, TallyType)
  BY <1>1, SupplyBound
<1>5. u[to][p][tt] \in Nat /\ u[to][p][tt] + n <= MaxInt
  <2>1. u[to][p][tt] \in Nat
    BY <1>1 DEF Ledger
  <2>2. u[from][p][tf] = t[from][p][tf] - n
    BY <1>1
  <2> QED
    BY <1>0, <1>3, <1>4, <2>1, <2>2
<1>6. Updatable(u, to, p, n, tt)
  BY <1>0, <1>5 DEF Updatable, isOverflow
<1> QED
  BY <1>2, <1>6 DEF Movable, u

(* The supply in one type, and in one type more. *)
LEMMA SupplyOne ==
  ASSUME IsFiniteSet(Addr), NEW t \in Ledger, NEW p \in Prop, NEW tt \in TallyType
  PROVE  Supply(t, p, {tt}) = SumOf([a \in Addr |-> t[a][p][tt]])
<1> DEFINE S == Addr \X {tt}
           f == [a \in Addr |-> t[a][p][tt]]
           g == EntriesOf(t, p, {tt})
           b == [a \in Addr |-> <<a, tt>>]
<1>1. f \in [Addr -> Nat] /\ \A a \in Addr : f[a] = t[a][p][tt]
  BY DEF Ledger
<1>2. /\ g \in [S -> Nat] /\ \A a \in Addr : g[<<a, tt>>] = t[a][p][tt]
      /\ Supply(t, p, {tt}) = SumOf(g)
  BY SupplyEntries, {tt} \in SUBSET TallyType, tt \in {tt}, Zenon
<1>3. b \in [Addr -> S] /\ \A a \in Addr : b[a] = <<a, tt>>
  OBVIOUS
<1>4. \A x \in S : \E a \in Addr : x = <<a, tt>>
  OBVIOUS
<1> HIDE DEF f, g, b, S
<1>5. b \in Injection(Addr, S)
  BY <1>3 DEF Injection, IsInjective
<1>6. b \in Surjection(Addr, S)
  BY <1>3, <1>4 DEF Surjection
<1>7. b \in Bijection(Addr, S)
  BY <1>5, <1>6 DEF Bijection
<1>8. \A a \in Addr : g[b[a]] = f[a]
  BY <1>1, <1>2, <1>3
<1>9. SumOf(g) = SumOf(f)
  BY <1>1, <1>2, <1>7, <1>8, SumOfRename
<1> QED
  BY <1>2, <1>9 DEF f

LEMMA SupplyAdd ==
  ASSUME IsFiniteSet(Addr), NEW t \in Ledger, NEW p \in Prop,
         NEW ts \in SUBSET TallyType, IsFiniteSet(ts), NEW tt \in TallyType \ ts
  PROVE  Supply(t, p, ts \cup {tt}) = Supply(t, p, ts) + SumOf([a \in Addr |-> t[a][p][tt]])
<1> DEFINE S == Addr \X (ts \cup {tt})
           T == Addr \X ts
           f == EntriesOf(t, p, ts \cup {tt})
<1>1. IsFiniteSet(ts \cup {tt})
  BY FS_AddElement
<1>2. IsFiniteSet(S)
  BY <1>1, FS_Product
<1>3. T \in SUBSET S /\ S \ T = Addr \X {tt}
  OBVIOUS
<1>4. f \in [S -> Nat] /\ Supply(t, p, ts \cup {tt}) = SumOf(f)
  BY SupplyEntries, Zenon
<1>5. [x \in T |-> f[x]] = EntriesOf(t, p, ts)
  BY <1>3 DEF EntriesOf
<1>6. [x \in S \ T |-> f[x]] = EntriesOf(t, p, {tt})
  BY <1>3 DEF EntriesOf
<1> HIDE DEF S, T, f
<1>7. SumOf(f) = SumOf([x \in T |-> f[x]]) + SumOf([x \in S \ T |-> f[x]])
  BY <1>2, <1>3, <1>4, SumOfSplit
<1>8. /\ Supply(t, p, ts) = SumOf(EntriesOf(t, p, ts))
      /\ Supply(t, p, {tt}) = SumOf(EntriesOf(t, p, {tt}))
  BY SupplyEntries, Zenon
<1> QED
  BY <1>4, <1>5, <1>6, <1>7, <1>8, SupplyOne

-----------------------------------------------------------------------------
(* Ranges and products of natural numbers *)

LEMMA RangeMember ==
  ASSUME NEW m, NEW x \in 1 .. m
  PROVE  x \in Nat /\ x > 0
OBVIOUS

LEMMA RangeWithin ==
  ASSUME NEW m \in Nat, NEW k \in Nat, m <= k, NEW x \in 1 .. m
  PROVE  x \in 1 .. k
OBVIOUS

LEMMA LessWithin ==
  ASSUME NEW x \in Nat, NEW y \in Nat, NEW z \in Nat, NEW n \in Nat, x <= y, y - n <= z
  PROVE  x - n <= z
OBVIOUS

LEMMA ProductMonotone ==
  ASSUME NEW x \in Nat, NEW y \in Nat, NEW z \in Nat, x <= y
  PROVE  x * z <= y * z
OBVIOUS

LEMMA ProductType ==
  ASSUME NEW x \in Nat, NEW y \in Nat
  PROVE  x * y \in Nat
OBVIOUS

LEMMA ProductStrict ==
  ASSUME NEW x \in Nat, NEW y \in Nat, NEW z \in Nat \ {0}
  PROVE  x < y <=> x * z < y * z
<1>1. ASSUME x < y PROVE x * z < y * z
  <2>1. (x + 1) * z <= y * z
    BY <1>1, ProductMonotone
  <2>2. (x + 1) * z = x * z + z /\ x * z \in Nat /\ y * z \in Nat
    OBVIOUS
  <2> QED
    BY <2>1, <2>2
<1>2. ASSUME x * z < y * z, ~(x < y) PROVE FALSE
  <2>1. y * z <= x * z
    BY <1>2, ProductMonotone
  <2>2. x * z \in Nat /\ y * z \in Nat
    OBVIOUS
  <2> QED
    BY <1>2, <2>1, <2>2
<1> QED
  BY <1>1, <1>2

LEMMA ProductOrder ==
  ASSUME NEW x \in Nat, NEW y \in Nat, NEW z \in Nat
  PROVE  (x * y) * z = (x * z) * y /\ (x * y) * z = (y * z) * x
OBVIOUS
=============================================================================
