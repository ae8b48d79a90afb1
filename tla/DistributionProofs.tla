------------------------- MODULE DistributionProofs -------------------------
(***************************************************************************)
(* Proofs about the split of an amount between the owners of a property    *)
(* (STO, Distribution), and about what sends and splits do to the ledger:  *)
(* to getTotalTokens, to the asserts and to what is frozen.                *)
(***************************************************************************)
EXTENDS Distribution, LedgerTheorems

(* The provers of a step that names none, with their time limits. *)
USE SMTT(20), ZenonT(20)

-----------------------------------------------------------------------------
(* Finite sets, orders and sums *)

(* What holds for a subset as soon as it holds for all smaller ones holds  *)
(* for the whole set.                                                      *)
LEMMA SubsetInduction ==
  ASSUME NEW S, IsFiniteSet(S), NEW Q,
         \A T \in SUBSET S : (\A U \in SUBSET T : U # T => U \in Q) => T \in Q
  PROVE  S \in Q
<1> DEFINE G == {n \in Nat : \A T \in SUBSET S : Cardinality(T) < n => T \in Q}
<1>1. \A T \in SUBSET S : IsFiniteSet(T) /\ Cardinality(T) \in Nat
  BY FS_Subset, FS_CardinalityType
<1>2. 0 \in G
  BY <1>1
<1>3. ASSUME NEW n \in Nat, n \in G PROVE n + 1 \in G
  <2> SUFFICES ASSUME NEW T \in SUBSET S, Cardinality(T) < n + 1 PROVE T \in Q
    BY <1>3
  <2>1. ASSUME NEW U \in SUBSET T, U # T PROVE U \in Q
    <3>1. IsFiniteSet(T) /\ U \in SUBSET S
      BY <1>1
    <3>2. Cardinality(U) <= Cardinality(T) /\ Cardinality(T) # Cardinality(U)
      BY <2>1, <3>1, FS_Subset
    <3>3. Cardinality(U) < n
      BY <1>1, <3>1, <3>2
    <3> QED
      BY <1>3, <3>1, <3>3
  <2> QED
    BY <2>1
<1> HIDE DEF G
<1>4. \A n \in Nat : n \in G
  BY <1>2, <1>3, SetInduction
<1>5. Cardinality(S) \in Nat /\ S \in SUBSET S
  BY <1>1
<1>6. Cardinality(S) + 1 \in G
  BY <1>4, <1>5
<1> QED
  BY <1>5, <1>6 DEF G

LEMMA SumOfInsert ==
  ASSUME NEW S, IsFiniteSet(S), NEW x, x \notin S, NEW f \in [S \cup {x} -> Nat]
  PROVE  SumOf(f) = SumOf([y \in S |-> f[y]]) + f[x]
<1>1. IsFiniteSet(S \cup {x}) /\ S \in SUBSET (S \cup {x}) /\ (S \cup {x}) \ S = {x}
  BY FS_AddElement
<1>2. SumOf(f) = SumOf([y \in S |-> f[y]]) + SumOf([y \in {x} |-> f[y]])
  BY <1>1, SumOfSplit
<1>3. [y \in {x} |-> f[y]] \in [{x} -> Nat]
  OBVIOUS
<1>4. SumOf([y \in {x} |-> f[y]]) = f[x]
  BY <1>3, SumOfSingleton
<1> QED
  BY <1>2, <1>4

(* R is a strict total order of O. *)
IsOrder(R, O) ==
    /\ \A a \in O : <<a, a>> \notin R
    /\ \A a, b, c \in O : <<a, b>> \in R /\ <<b, c>> \in R => <<a, c>> \in R
    /\ \A a, b \in O : a # b => <<a, b>> \in R \/ <<b, a>> \in R

LEMMA LastOf ==
  ASSUME NEW O, NEW R, IsOrder(R, O), NEW S \in SUBSET O, IsFiniteSet(S), S # {}
  PROVE  \E m \in S : \A b \in S \ {m} : <<b, m>> \in R
<1> DEFINE Q == {T \in SUBSET O : T # {} => \E m \in T : \A b \in T \ {m} : <<b, m>> \in R}
<1>1. ASSUME NEW T \in SUBSET S, \A U \in SUBSET T : U # T => U \in Q PROVE T \in Q
  <2> SUFFICES ASSUME T # {} PROVE \E m \in T : \A b \in T \ {m} : <<b, m>> \in R
    OBVIOUS
  <2>1. PICK x \in T : TRUE
    OBVIOUS
  <2>2. CASE T \ {x} = {}
    BY <2>2
  <2>3. CASE T \ {x} # {}
    <3>1. T \ {x} \in Q
      BY <1>1, Zenon
    <3>2. PICK m \in T \ {x} : \A b \in (T \ {x}) \ {m} : <<b, m>> \in R
      BY <2>3, <3>1
    <3>3. CASE <<m, x>> \in R
      <4>1. \A b \in T \ {x} : <<b, x>> \in R
        BY <3>2, <3>3, Zenon DEF IsOrder
      <4> QED
        BY <4>1
    <3>4. CASE <<x, m>> \in R
      BY <3>2, <3>4
    <3> QED
      BY <3>3, <3>4 DEF IsOrder
  <2> QED
    BY <2>2, <2>3
<1> HIDE DEF Q
<1>2. S \in Q
  BY <1>1, SubsetInduction
<1> QED
  BY <1>2 DEF Q

-----------------------------------------------------------------------------
(* Serving one owner after another *)

(* What the owners S get together, who is served before a, and what a      *)
(* gets.                                                                   *)
AtMost(A, n) == IF A <= n THEN A ELSE n

Together(A, due, S) == AtMost(A, SumOf([a \in S |-> due[a]]))

Prior(O, R, a) == {b \in O : <<b, a>> \in R}

Get(A, due, O, R, a) ==
    Together(A, due, Prior(O, R, a) \cup {a}) - Together(A, due, Prior(O, R, a))

LEMMA DueTo ==
  ASSUME NEW O, IsFiniteSet(O), NEW due \in [O -> Nat], NEW S \in SUBSET O
  PROVE  /\ IsFiniteSet(S)
         /\ SumOf([a \in S |-> due[a]]) \in Nat
         /\ \A x \in O \ S : SumOf([a \in S \cup {x} |-> due[a]])
                               = SumOf([a \in S |-> due[a]]) + due[x]
         /\ \A T \in SUBSET S : SumOf([a \in T |-> due[a]]) <= SumOf([a \in S |-> due[a]])
<1>1. IsFiniteSet(S)
  BY FS_Subset
<1>2. SumOf([a \in S |-> due[a]]) \in Nat
  BY <1>1, SumOfType
<1>3. ASSUME NEW x \in O \ S
      PROVE  SumOf([a \in S \cup {x} |-> due[a]]) = SumOf([a \in S |-> due[a]]) + due[x]
  <2> DEFINE f == [a \in S \cup {x} |-> due[a]]
  <2>1. f \in [S \cup {x} -> Nat] /\ f[x] = due[x]
    OBVIOUS
  <2>2. [y \in S |-> f[y]] = [a \in S |-> due[a]]
    OBVIOUS
  <2> HIDE DEF f
  <2>3. SumOf(f) = SumOf([y \in S |-> f[y]]) + f[x]
    BY <1>1, <2>1, SumOfInsert
  <2> QED
    BY <2>1, <2>2, <2>3 DEF f
<1>4. ASSUME NEW T \in SUBSET S
      PROVE  SumOf([a \in T |-> due[a]]) <= SumOf([a \in S |-> due[a]])
  <2> DEFINE f == [a \in S |-> due[a]]
  <2>1. f \in [S -> Nat] /\ [y \in T |-> f[y]] = [a \in T |-> due[a]]
    OBVIOUS
  <2> HIDE DEF f
  <2>2. SumOf([y \in T |-> f[y]]) <= SumOf(f)
    BY <1>1, <2>1, SumOfPart
  <2> QED
    BY <2>1, <2>2 DEF f
<1> QED
  BY <1>1, <1>2, <1>3, <1>4

OneMore(due, S, x) ==
    /\ SumOf([a \in S |-> due[a]]) \in Nat
    /\ SumOf([a \in S \cup {x} |-> due[a]]) = SumOf([a \in S |-> due[a]]) + due[x]

LEMMA DueToOneMore ==
  ASSUME NEW O, IsFiniteSet(O), NEW due \in [O -> Nat], NEW S \in SUBSET O, NEW x \in O \ S
  PROVE  OneMore(due, S, x)
BY DueTo DEF OneMore

(* Nobody gets more than what is due, and a later owner to whom no more is *)
(* due gets no more.                                                       *)
LEMMA GetBound ==
  ASSUME NEW O, IsFiniteSet(O), NEW R, IsOrder(R, O), NEW due \in [O -> Nat],
         NEW A \in Nat, NEW a \in O
  PROVE  /\ Get(A, due, O, R, a) \in 0 .. due[a]
         /\ \A b \in O : <<a, b>> \in R /\ due[b] <= due[a] =>
              Get(A, due, O, R, b) <= Get(A, due, O, R, a)
<1> DEFINE P(b) == SumOf([c \in Prior(O, R, b) |-> due[c]])
<1>1. ASSUME NEW b \in O
      PROVE  /\ P(b) \in Nat /\ due[b] \in Nat
             /\ Get(A, due, O, R, b) = AtMost(A, P(b) + due[b]) - AtMost(A, P(b))
  <2>1. Prior(O, R, b) \in SUBSET O /\ b \in O \ Prior(O, R, b)
    BY DEF IsOrder, Prior
  <2>2. /\ P(b) \in Nat
        /\ SumOf([c \in Prior(O, R, b) \cup {b} |-> due[c]]) = P(b) + due[b]
    BY <2>1, DueTo
  <2> QED
    BY <2>2 DEF Get, Together
<1>2. ASSUME NEW b \in O, <<a, b>> \in R PROVE P(a) + due[a] <= P(b)
  <2>1. /\ Prior(O, R, b) \in SUBSET O /\ Prior(O, R, a) \in SUBSET O
        /\ Prior(O, R, a) \cup {a} \in SUBSET Prior(O, R, b)
        /\ a \in O \ Prior(O, R, a)
    BY <1>2 DEF IsOrder, Prior
  <2>2. SumOf([c \in Prior(O, R, a) \cup {a} |-> due[c]]) = P(a) + due[a]
    <3>1. PICK S \in SUBSET O : S = Prior(O, R, a) /\ a \in O \ S
      BY <2>1
    <3>2. SumOf([c \in S \cup {a} |-> due[c]]) = SumOf([c \in S |-> due[c]]) + due[a]
      BY <3>1, DueTo
    <3> QED
      BY <3>1, <3>2
  <2>3. SumOf([c \in Prior(O, R, a) \cup {a} |-> due[c]]) <= P(b)
    BY <2>1, DueTo
  <2> QED
    BY <2>2, <2>3
<1> HIDE DEF P
<1>3. Get(A, due, O, R, a) \in 0 .. due[a]
  BY <1>1 DEF AtMost
<1>4. ASSUME NEW b \in O, <<a, b>> \in R, due[b] <= due[a]
      PROVE  Get(A, due, O, R, b) <= Get(A, due, O, R, a)
  BY <1>1, <1>2, <1>4 DEF AtMost
<1> QED
  BY <1>3, <1>4

(* What everybody gets adds up to what they get together. *)
LEMMA Telescope ==
  ASSUME NEW O, IsFiniteSet(O), NEW R, IsOrder(R, O), NEW due \in [O -> Nat],
         NEW A \in Nat
  PROVE  SumOf([a \in O |-> Get(A, due, O, R, a)]) = Together(A, due, O)
<1> DEFINE got == [a \in O |-> Get(A, due, O, R, a)]
           Closed(T) == \A a \in T : Prior(O, R, a) \subseteq T
           Q == {T \in SUBSET O : Closed(T) => SumOf([a \in T |-> got[a]]) = Together(A, due, T)}
<1>1. got \in [O -> Nat]
  BY GetBound
<1>2. ASSUME NEW T \in SUBSET O, \A U \in SUBSET T : U # T => U \in Q PROVE T \in Q
  <2> SUFFICES ASSUME Closed(T) PROVE SumOf([a \in T |-> got[a]]) = Together(A, due, T)
    OBVIOUS
  <2>1. CASE T = {}
    <3>1. SumOf([a \in T |-> got[a]]) = 0 /\ SumOf([a \in T |-> due[a]]) = 0
      BY <2>1, SumOfZero, Zenon
    <3> QED
      BY <3>1 DEF Together, AtMost
  <2>2. CASE T # {}
    <3>1. IsFiniteSet(T)
      BY FS_Subset
    <3>2. PICK m \in T : \A b \in T \ {m} : <<b, m>> \in R
      BY <2>2, <3>1, LastOf
    <3>3. Prior(O, R, m) = T \ {m}
      BY <3>2 DEF Prior, IsOrder
    <3>4. PICK U \in SUBSET O : U = T \ {m} /\ m \in O \ U
      BY Zenon
    <3>5. SumOf([a \in U |-> got[a]]) = Together(A, due, U)
      <4>1. Closed(U)
        BY <3>2, <3>4, Zenon DEF Prior, IsOrder
      <4> QED
        BY <1>2, <3>4, <4>1
    <3> HIDE DEF got
    <3>6. /\ SumOf([a \in U |-> due[a]]) \in Nat
          /\ SumOf([a \in U \cup {m} |-> due[a]]) = SumOf([a \in U |-> due[a]]) + due[m]
      BY <3>4, DueToOneMore DEF OneMore
    <3>7. SumOf([a \in U \cup {m} |-> got[a]]) = SumOf([a \in U |-> got[a]]) + got[m]
      BY <1>1, <3>4, DueToOneMore DEF OneMore
    <3>8. U \cup {m} = T
      BY <3>4
    <3>9. got[m] = Together(A, due, T) - Together(A, due, U)
      BY <3>3, <3>4, <3>8 DEF Get, got
    <3>10. Together(A, due, T) \in Int /\ Together(A, due, U) \in Int
      BY <3>6, <3>8 DEF Together, AtMost
    <3> QED
      BY <3>5, <3>7, <3>8, <3>9, <3>10
  <2> QED
    BY <2>1, <2>2
<1>3. Closed(O)
  BY DEF Prior
<1> HIDE DEF Q
<1>4. O \in Q
  BY <1>2, SubsetInduction
<1>5. [a \in O |-> got[a]] = got
  OBVIOUS
<1> QED
  BY <1>3, <1>4, <1>5 DEF Q

(* If everybody is due at least their part of A, all of A is due. *)
LEMMA DueEnough ==
  ASSUME NEW O, IsFiniteSet(O), NEW own \in [O -> Nat], NEW due \in [O -> Nat],
         NEW A \in Nat, SumOf(own) > 0,
         \A a \in O : own[a] * A <= due[a] * SumOf(own)
  PROVE  A <= SumOf(due)
<1> DEFINE total == SumOf(own)
           Own(T) == SumOf([a \in T |-> own[a]])
           Due(T) == SumOf([a \in T |-> due[a]])
           Q == {T \in SUBSET O : Own(T) * A <= Due(T) * total}
<1>0. total \in Nat \ {0}
  BY SumOfType
<1> HIDE DEF total
<1>1. ASSUME NEW T \in SUBSET O, \A U \in SUBSET T : U # T => U \in Q PROVE T \in Q
  <2>1. CASE T = {}
    <3>1. Own(T) = 0 /\ Due(T) = 0
      BY <2>1, SumOfZero, Zenon
    <3>2. 0 * A = 0 /\ 0 * total = 0
      BY <1>0
    <3> QED
      BY <3>1, <3>2
  <2>2. CASE T # {}
    <3>1. PICK x \in T : TRUE
      BY <2>2
    <3>2. PICK U \in SUBSET O : U = T \ {x} /\ x \in O \ U
      BY Zenon
    <3>3. U \in Q /\ U \cup {x} = T
      BY <1>1, <3>2
    <3>4. Own(U) * A <= Due(U) * total
      BY <3>3
    <3>5. OneMore(own, U, x) /\ OneMore(due, U, x)
      BY <3>2, DueToOneMore
    <3>6. /\ Own(U) \in Nat /\ Own(U \cup {x}) = Own(U) + own[x]
          /\ Due(U) \in Nat /\ Due(U \cup {x}) = Due(U) + due[x]
      BY <3>5 DEF OneMore
    <3> HIDE DEF Own, Due
    <3>7. own[x] \in Nat /\ due[x] \in Nat /\ own[x] * A <= due[x] * total
      BY DEF total
    <3>8. /\ (Own(U) + own[x]) * A = Own(U) * A + own[x] * A
          /\ (Due(U) + due[x]) * total = Due(U) * total + due[x] * total
      BY <1>0, <3>6, <3>7
    <3>9. /\ Own(U) * A \in Nat /\ own[x] * A \in Nat
          /\ Due(U) * total \in Nat /\ due[x] * total \in Nat
      BY <1>0, <3>6, <3>7, ProductType
    <3>10. (Own(U) + own[x]) * A <= (Due(U) + due[x]) * total
      BY <3>4, <3>7, <3>8, <3>9
    <3>11. Own(T) * A <= Due(T) * total
      BY <3>3, <3>6, <3>10, Zenon
    <3> QED
      BY <3>11
  <2> QED
    BY <2>1, <2>2
<1> HIDE DEF Q
<1>2. O \in Q
  BY <1>1, SubsetInduction
<1>3. [a \in O |-> own[a]] = own /\ [a \in O |-> due[a]] = due
  OBVIOUS
<1>4. total * A <= SumOf(due) * total
  BY <1>2, <1>3 DEF Q, total
<1>5. SumOf(due) \in Nat
  BY SumOfType
<1>6. ASSUME SumOf(due) < A PROVE FALSE
  <2>1. SumOf(due) * total < A * total
    BY <1>0, <1>5, <1>6, ProductStrict
  <2>2. A * total = total * A
    BY <1>0
  <2> QED
    BY <1>0, <1>4, <1>5, <2>1, <2>2
<1> QED
  BY <1>5, <1>6

Enough(own, due, O, A) ==
    SumOf(own) > 0 /\ \A a \in O : own[a] * A <= due[a] * SumOf(own)

(* What everybody gets adds up to A as soon as somebody owns something. *)
LEMMA AllServed ==
  ASSUME NEW O, IsFiniteSet(O), NEW R, IsOrder(R, O),
         NEW own \in [O -> Nat], NEW due \in [O -> Nat],
         NEW A \in Nat, Enough(own, due, O, A)
  PROVE  SumOf([a \in O |-> Get(A, due, O, R, a)]) = A
<1>1. [a \in O |-> due[a]] = due /\ SumOf(due) \in Nat
  BY SumOfType
<1>2. A <= SumOf(due)
  BY DueEnough DEF Enough
<1>3. Together(A, due, O) = A
  BY <1>1, <1>2 DEF Together, AtMost
<1> QED
  BY <1>3, Telescope

-----------------------------------------------------------------------------
(* The split between the owners of a property *)

(* Division that rounds up: enough, and one less is not. *)
LEMMA RoundsUp ==
  ASSUME NEW n \in Nat, NEW d \in Nat \ {0}
  PROVE  /\ DivideAndRoundUp(n, d) \in Nat
         /\ n <= DivideAndRoundUp(n, d) * d
         /\ DivideAndRoundUp(n, d) = 0 \/ (DivideAndRoundUp(n, d) - 1) * d < n
<1>1. CASE n = 0
  BY <1>1 DEF DivideAndRoundUp
<1>2. CASE n # 0
  <2> DEFINE q == (n - 1) \div d
  <2>1. /\ q \in Nat /\ d * q <= n - 1 /\ n - 1 < d * (q + 1)
    BY <1>2
  <2>2. (1 + q) * d = d * (q + 1) /\ ((1 + q) - 1) * d = d * q
    BY <2>1
  <2>3. DivideAndRoundUp(n, d) = 1 + q
    BY <1>2 DEF DivideAndRoundUp
  <2> HIDE DEF q
  <2> QED
    BY <2>1, <2>2, <2>3
<1> QED
  BY <1>1, <1>2

LEMMA RoundsUpMonotone ==
  ASSUME NEW m \in Nat, NEW n \in Nat, NEW d \in Nat \ {0}, m <= n
  PROVE  DivideAndRoundUp(m, d) <= DivideAndRoundUp(n, d)
<1> DEFINE x == DivideAndRoundUp(m, d)
           y == DivideAndRoundUp(n, d)
<1>1. x \in Nat /\ y \in Nat /\ n <= y * d /\ (x = 0 \/ (x - 1) * d < m)
  BY RoundsUp
<1> HIDE DEF x, y
<1>2. ASSUME y < x PROVE FALSE
  <2>1. x - 1 \in Nat /\ y <= x - 1
    BY <1>1, <1>2
  <2>2. y * d <= (x - 1) * d
    BY <1>1, <2>1, ProductMonotone
  <2>3. y * d \in Nat /\ (x - 1) * d \in Nat
    BY <1>1, <2>1, ProductType
  <2> QED
    BY <1>1, <1>2, <2>2, <2>3
<1> QED
  BY <1>1, <1>2 DEF x, y

LEMMA OwnedType ==
  ASSUME NEW t \in Ledger, NEW p \in Prop
  PROVE  /\ IsFiniteSet(OwnedTypes)
         /\ \A a \in Addr : Owned(t, a, p) \in Nat
<1> DEFINE B == {"BALANCE", "SELLOFFER_RESERVE"}
           C == {"ACCEPT_RESERVE", "METADEX_RESERVE"}
<1>1. IsFiniteSet(B) /\ IsFiniteSet(C)
  <2>1. B = {"BALANCE"} \cup {"SELLOFFER_RESERVE"} /\ C = {"ACCEPT_RESERVE"} \cup {"METADEX_RESERVE"}
    OBVIOUS
  <2>2. /\ IsFiniteSet({"BALANCE"}) /\ IsFiniteSet({"SELLOFFER_RESERVE"})
        /\ IsFiniteSet({"ACCEPT_RESERVE"}) /\ IsFiniteSet({"METADEX_RESERVE"})
    BY FS_Singleton, Zenon
  <2> HIDE DEF B, C
  <2> QED
    BY <2>1, <2>2, FS_Union, Zenon
<1>2. OwnedTypes \in SUBSET (B \cup C) /\ OwnedTypes \subseteq TallyType
  BY DEF OwnedTypes
<1> HIDE DEF B, C
<1>3. IsFiniteSet(B \cup C)
  BY <1>1, FS_Union, Zenon
<1>4. IsFiniteSet(OwnedTypes)
  BY <1>2, <1>3, FS_Subset
<1>5. ASSUME NEW a \in Addr PROVE Owned(t, a, p) \in Nat
  <2>1. [tt \in OwnedTypes |-> t[a][p][tt]] \in [OwnedTypes -> Nat]
    BY <1>2 DEF Ledger
  <2> QED
    BY <1>4, <2>1, SumOfType DEF Owned
<1> QED
  BY <1>4, <1>5

OrderOf(t, p, O) == {x \in O \X O : Precedes(t, p, x[1], x[2])}

OwnOf(t, p, O) == [a \in O |-> Owned(t, a, p)]

DueOf(t, s, p, n) == [a \in OwnersBut(t, s, p) |-> should_receive(t, s, p, n, a)]

(* The split is a service of the owners, the largest first. *)
LEMMA OwnersServed ==
  ASSUME NEW t \in Ledger, NEW s \in Addr, NEW p \in Prop, NEW n \in Nat,
         NEW O, O = OwnersBut(t, s, p)
  PROVE  /\ IsFiniteSet(O) /\ O \subseteq Addr
         /\ IsOrder(OrderOf(t, p, O), O)
         /\ OwnOf(t, p, O) \in [O -> Nat]
         /\ SumOf(OwnOf(t, p, O)) = TotalBut(t, s, p)
         /\ \A a \in O : will_really_receive(t, s, p, n, a)
                           = Get(n, DueOf(t, s, p, n), O, OrderOf(t, p, O), a)
<1>1. O \in SUBSET Addr /\ \A a \in Addr : Owned(t, a, p) \in Nat /\ a \in Nat
  BY OwnedType, STOAssumption DEF OwnersBut
<1>2. IsFiniteSet(O)
  BY <1>1, STOAssumption, FS_Subset
<1>3. IsOrder(OrderOf(t, p, O), O)
  BY <1>1 DEF IsOrder, OrderOf, Precedes
<1>4. OwnOf(t, p, O) \in [O -> Nat]
  BY <1>1 DEF OwnOf
<1>5. SumOf(OwnOf(t, p, O)) = TotalBut(t, s, p)
  BY DEF OwnOf, TotalBut
<1>6. ASSUME NEW a \in O
      PROVE  will_really_receive(t, s, p, n, a)
               = Get(n, DueOf(t, s, p, n), O, OrderOf(t, p, O), a)
  <2>1. PICK P \in SUBSET O : P = {b \in O : Precedes(t, p, b, a)}
    BY Zenon
  <2>2. Prior(O, OrderOf(t, p, O), a) = P
    BY <2>1 DEF Prior, OrderOf
  <2>3. ASSUME NEW S \in SUBSET O
        PROVE  sent_so_far(t, s, p, n, S) = Together(n, DueOf(t, s, p, n), S)
    <3>1. [b \in S |-> should_receive(t, s, p, n, b)] = [b \in S |-> DueOf(t, s, p, n)[b]]
      BY DEF DueOf
    <3> QED
      BY <3>1 DEF sent_so_far, Together, AtMost, Lesser
  <2>4. P \cup {a} \in SUBSET O
    BY <2>1
  <2>5. will_really_receive(t, s, p, n, a)
          = sent_so_far(t, s, p, n, P \cup {a}) - sent_so_far(t, s, p, n, P)
    BY <2>1 DEF will_really_receive
  <2> QED
    BY <2>2, <2>3, <2>4, <2>5 DEF Get
<1> QED
  BY <1>1, <1>2, <1>3, <1>4, <1>5, <1>6, Zenon

(* What an owner is due: their part, rounded up. *)
LEMMA OwnersDue ==
  ASSUME NEW t \in Ledger, NEW s \in Addr, NEW p \in Prop, NEW n \in Nat,
         NEW O, O = OwnersBut(t, s, p), O # {}
  PROVE  /\ TotalBut(t, s, p) \in Nat \ {0}
         /\ DueOf(t, s, p, n) \in [O -> Nat]
         /\ \A a \in O :
              /\ Owned(t, a, p) * n <= DueOf(t, s, p, n)[a] * TotalBut(t, s, p)
              /\ \/ DueOf(t, s, p, n)[a] = 0
                 \/ (DueOf(t, s, p, n)[a] - 1) * TotalBut(t, s, p) < Owned(t, a, p) * n
              /\ \A b \in O : Owned(t, b, p) <= Owned(t, a, p) =>
                                DueOf(t, s, p, n)[b] <= DueOf(t, s, p, n)[a]
<1>1. /\ IsFiniteSet(O) /\ OwnOf(t, p, O) \in [O -> Nat]
      /\ SumOf(OwnOf(t, p, O)) = TotalBut(t, s, p)
  BY OwnersServed
<1>2. \A a \in O : Owned(t, a, p) \in Nat /\ Owned(t, a, p) > 0
  BY OwnedType DEF OwnersBut
<1>3. TotalBut(t, s, p) \in Nat \ {0}
  <2>1. PICK a \in O : TRUE
    OBVIOUS
  <2>2. OwnOf(t, p, O)[a] <= SumOf(OwnOf(t, p, O)) /\ SumOf(OwnOf(t, p, O)) \in Nat
    BY <1>1, SumOfBound, SumOfType
  <2>3. OwnOf(t, p, O)[a] = Owned(t, a, p)
    BY DEF OwnOf
  <2> QED
    BY <1>1, <1>2, <2>2, <2>3
<1>4. PICK d \in Nat \ {0} : d = TotalBut(t, s, p)
  BY <1>3
<1>5. ASSUME NEW a \in O
      PROVE  /\ Owned(t, a, p) * n \in Nat
             /\ DueOf(t, s, p, n)[a] = DivideAndRoundUp(Owned(t, a, p) * n, d)
  BY <1>2, <1>4, ProductType DEF DueOf, should_receive
<1>6. ASSUME NEW a \in O
      PROVE  /\ DueOf(t, s, p, n)[a] \in Nat
             /\ Owned(t, a, p) * n <= DueOf(t, s, p, n)[a] * d
             /\ \/ DueOf(t, s, p, n)[a] = 0
                \/ (DueOf(t, s, p, n)[a] - 1) * d < Owned(t, a, p) * n
  BY <1>5, RoundsUp
<1>7. ASSUME NEW a \in O, NEW b \in O, Owned(t, b, p) <= Owned(t, a, p)
      PROVE  DueOf(t, s, p, n)[b] <= DueOf(t, s, p, n)[a]
  <2>1. Owned(t, b, p) * n <= Owned(t, a, p) * n
    BY <1>2, <1>7, ProductMonotone
  <2> QED
    BY <1>5, <2>1, RoundsUpMonotone
<1>8. DueOf(t, s, p, n) \in [O -> Nat]
  BY <1>6 DEF DueOf
<1> QED
  BY <1>3, <1>4, <1>6, <1>7, <1>8, Zenon

(* The map sh splits n between owners of p other than s. *)
Splits(sh, t, s, p, n) ==
    /\ DOMAIN sh \subseteq OwnersBut(t, s, p)
    /\ sh \in [DOMAIN sh -> Nat \ {0}]
    /\ IsFiniteSet(DOMAIN sh)
    /\ SumOf(sh) = IF OwnersBut(t, s, p) = {} THEN 0 ELSE n

(* "sent_so_far must equal nValue here" (SendToOwners): whatever the       *)
(* ledger, the shares add up to the amount.                                *)
LEMMA ReceiversSplit ==
  ASSUME NEW t \in Ledger, NEW s \in Addr, NEW p \in Prop, NEW n \in Nat
  PROVE  Splits(STO_GetReceivers(t, s, p, n), t, s, p, n)
<1> DEFINE sh == STO_GetReceivers(t, s, p, n)
           w(a) == will_really_receive(t, s, p, n, a)
<1>1. PICK O : O = OwnersBut(t, s, p)
  OBVIOUS
<1>2. /\ IsFiniteSet(O) /\ IsOrder(OrderOf(t, p, O), O)
      /\ OwnOf(t, p, O) \in [O -> Nat] /\ SumOf(OwnOf(t, p, O)) = TotalBut(t, s, p)
      /\ \A a \in O : w(a) = Get(n, DueOf(t, s, p, n), O, OrderOf(t, p, O), a)
  BY <1>1, OwnersServed
<1>3. DOMAIN sh = {b \in O : w(b) > 0} /\ \A a \in DOMAIN sh : sh[a] = w(a)
  BY <1>1 DEF STO_GetReceivers
<1>4. sh = [a \in DOMAIN sh |-> sh[a]]
  BY DEF STO_GetReceivers
<1> HIDE DEF sh
<1>5. CASE O = {}
  <2>1. DOMAIN sh = {} /\ sh \in [DOMAIN sh -> Nat]
    BY <1>3, <1>4, <1>5
  <2>2. SumOf(sh) = 0
    BY <2>1, SumOfZero, Zenon
  <2>3. IsFiniteSet(DOMAIN sh)
    BY <2>1, FS_EmptySet
  <2> QED
    BY <1>1, <1>4, <1>5, <2>1, <2>2, <2>3, Zenon DEF Splits, sh
<1>6. CASE O # {}
  <2>1. PICK due \in [O -> Nat] : due = DueOf(t, s, p, n)
    BY <1>1, <1>6, OwnersDue
  <2>2. PICK own \in [O -> Nat] : own = OwnOf(t, p, O)
    BY <1>2
  <2>3. Enough(own, due, O, n)
    <3>1. PICK d \in Nat \ {0} :
            /\ d = SumOf(own)
            /\ \A a \in O : Owned(t, a, p) * n <= due[a] * d
      BY <1>1, <1>2, <1>6, <2>1, <2>2, OwnersDue, Zenon
    <3>2. \A a \in O : own[a] = Owned(t, a, p)
      BY <2>2 DEF OwnOf
    <3> QED
      BY <3>1, <3>2 DEF Enough
  <2>4. PICK got : got = [a \in O |-> Get(n, due, O, OrderOf(t, p, O), a)]
    BY Zenon
  <2>5. \A a \in O : got[a] = w(a) /\ got[a] \in Nat
    <3>1. \A a \in O : Get(n, due, O, OrderOf(t, p, O), a) \in 0 .. due[a]
      BY <1>2, GetBound
    <3> QED
      BY <1>2, <2>1, <2>4, <3>1
  <2>6. got \in [O -> Nat]
    BY <2>4, <2>5
  <2>7. SumOf(got) = n
    <3>1. SumOf([a \in O |-> Get(n, due, O, OrderOf(t, p, O), a)]) = n
      BY <1>2, <2>3, AllServed
    <3> QED
      BY <2>4, <3>1
  <2>8. /\ DOMAIN sh \in SUBSET O
        /\ sh = [a \in DOMAIN sh |-> got[a]]
        /\ \A a \in DOMAIN sh : got[a] \in Nat \ {0}
        /\ \A a \in O \ DOMAIN sh : got[a] = 0
    BY <1>3, <1>4, <2>5
  <2>9. SumOf(got) = SumOf(sh) + SumOf([a \in O \ DOMAIN sh |-> got[a]])
    BY <1>2, <2>6, <2>8, SumOfSplit
  <2>10. SumOf([a \in O \ DOMAIN sh |-> got[a]]) = 0
    <3>1. [a \in O \ DOMAIN sh |-> got[a]] \in [O \ DOMAIN sh -> Nat]
      BY <2>5
    <3> QED
      BY <2>8, <3>1, SumOfZero
  <2>11. IsFiniteSet(DOMAIN sh) /\ sh \in [DOMAIN sh -> Nat \ {0}]
    BY <1>2, <2>8, FS_Subset
  <2>12. SumOf(sh) \in Nat
    BY <2>8, <2>11, SumOfType
  <2>13. SumOf(sh) = n
    BY <2>7, <2>9, <2>10, <2>12
  <2> QED
    BY <1>1, <1>6, <2>8, <2>11, <2>13, Zenon DEF Splits, sh
<1> QED
  BY <1>5, <1>6

-----------------------------------------------------------------------------
(* The theorems *)

DistributionInv ==
    /\ tally \in Ledger
    /\ sender \in Addr
    /\ amount \in Nat
    /\ settled => receivers = STO_GetReceivers(tally, sender, Property, amount)

LEMMA DistributionInvariant == DSpec => []DistributionInv
<1>1. DInit => DistributionInv
  <2> SUFFICES ASSUME DInit PROVE DistributionInv
    OBVIOUS
  <2>1. \A a \in Addr, p \in Prop, tt \in TallyType : tally[a][p][tt] \in Nat
    <3> SUFFICES ASSUME NEW a \in Addr, NEW p \in Prop, NEW tt \in TallyType
                 PROVE  tally[a][p][tt] \in Nat
      OBVIOUS
    <3>1. tally[a] \in [Prop -> [TallyType -> Holdings]]
      BY DEF DInit
    <3>2. tally[a][p] \in [TallyType -> Holdings]
      BY <3>1
    <3> QED
      BY <3>2, DistributionAssumption, Zenon
  <2>2. tally = [a \in Addr |-> [p \in Prop |-> [tt \in TallyType |-> tally[a][p][tt]]]]
    BY DEF DInit
  <2>3. tally \in Ledger
    BY <2>1, <2>2 DEF Ledger
  <2> QED
    BY <2>3, DistributionAssumption DEF DInit, DistributionInv
<1>2. DistributionInv /\ [Distribute]_dvars => DistributionInv'
  <2>1. CASE UNCHANGED dvars
    BY <2>1 DEF dvars, DistributionInv
  <2>2. CASE Distribute
    BY <2>2 DEF Distribute, DistributionInv
  <2> QED
    BY <2>1, <2>2
<1> QED
  BY <1>1, <1>2, PTL DEF DSpec

(* For any ledger, sender and amount: as soon as the sender is not the     *)
(* only owner, STO_GetReceivers distributes the whole amount, rounding     *)
(* included, and nothing to the sender.                                    *)
THEOREM WholeAmount == DSpec => []WholeAmountSent
<1>1. ASSUME DistributionInv, settled PROVE WholeAmountSent
  <2>1. /\ Splits(receivers, tally, sender, Property, amount)
    BY <1>1, ReceiversSplit, DistributionAssumption DEF DistributionInv
  <2>2. \A a \in Addr : Owns(a) \in Nat
    BY <1>1, OwnedType, DistributionAssumption DEF Owns, DistributionInv
  <2>3. OwnersBut(tally, sender, Property) = {} <=> \A a \in Addr \ {sender} : Owns(a) = 0
    BY <2>2 DEF OwnersBut, Owns
  <2>4. sender \notin DOMAIN receivers
    BY <2>1 DEF Splits, OwnersBut
  <2> QED
    BY <2>1, <2>3, <2>4 DEF Splits, WholeAmountSent
<1>2. DistributionInv => WholeAmountSent
  BY <1>1 DEF WholeAmountSent
<1> QED
  BY <1>2, DistributionInvariant, PTL

(* What an owner gets, with those who get nothing. *)
GotInOrder(got, due, O, t, s, p) ==
    /\ \A a \in (Addr \ {s}) \ O : got[a] = 0 /\ Owned(t, a, p) = 0
    /\ \A a \in O : got[a] \in 0 .. due[a]
    /\ \A a, b \in O : Owned(t, a, p) > Owned(t, b, p) => got[a] >= got[b]

LEMMA GotOf ==
  ASSUME NEW t \in Ledger, NEW s \in Addr, NEW p \in Prop, NEW n \in Nat,
         NEW sh, sh = STO_GetReceivers(t, s, p, n),
         NEW got, got = [a \in Addr \ {s} |-> IF a \in DOMAIN sh THEN sh[a] ELSE 0],
         NEW O, O = OwnersBut(t, s, p), O # {},
         NEW due, due = DueOf(t, s, p, n)
  PROVE  GotInOrder(got, due, O, t, s, p)
<1> DEFINE w(a) == will_really_receive(t, s, p, n, a)
           R == OrderOf(t, p, O)
<1>1. /\ IsFiniteSet(O) /\ O \subseteq Addr \ {s} /\ IsOrder(R, O)
      /\ \A a \in O : w(a) = Get(n, due, O, R, a)
  BY OwnersServed DEF OwnersBut
<1>2. /\ due \in [O -> Nat]
      /\ \A a, b \in O : Owned(t, b, p) <= Owned(t, a, p) => due[b] <= due[a]
  BY OwnersDue
<1>3. \A a \in Addr : Owned(t, a, p) \in Nat
  BY OwnedType
<1>4. ASSUME NEW a \in O
      PROVE  /\ Get(n, due, O, R, a) \in 0 .. due[a]
             /\ \A b \in O : <<a, b>> \in R /\ due[b] <= due[a] =>
                  Get(n, due, O, R, b) <= Get(n, due, O, R, a)
  BY <1>1, <1>2, GetBound, Zenon
<1>5. ASSUME NEW a \in O PROVE got[a] = Get(n, due, O, R, a)
  <2>1. a \in DOMAIN sh <=> w(a) > 0
    BY DEF STO_GetReceivers
  <2>2. a \in DOMAIN sh => sh[a] = w(a)
    BY DEF STO_GetReceivers
  <2>3. due[a] \in Nat /\ w(a) \in 0 .. due[a]
    BY <1>1, <1>2, <1>4
  <2> QED
    BY <1>1, <2>1, <2>2, <2>3
<1>6. ASSUME NEW a \in (Addr \ {s}) \ O PROVE got[a] = 0 /\ Owned(t, a, p) = 0
  BY <1>3 DEF OwnersBut, STO_GetReceivers
<1>7. ASSUME NEW a \in O, NEW b \in O, Owned(t, a, p) > Owned(t, b, p)
      PROVE  got[a] >= got[b]
  <2>1. Owned(t, b, p) <= Owned(t, a, p) /\ <<a, b>> \in R
    BY <1>1, <1>3, <1>7 DEF OrderOf, Precedes
  <2>2. due[b] <= due[a]
    BY <1>2, <2>1
  <2>3. /\ Get(n, due, O, R, b) <= Get(n, due, O, R, a)
        /\ Get(n, due, O, R, b) \in Int /\ Get(n, due, O, R, a) \in Int
    BY <1>2, <1>4, <2>1, <2>2
  <2> QED
    BY <1>5, <2>3
<1> QED
  BY <1>4, <1>5, <1>6, <1>7, ZenonT(30) DEF GotInOrder

(* The total of the owners is that of all other addresses. *)
LEMMA TotalOfOthers ==
  ASSUME NEW t \in Ledger, NEW s \in Addr, NEW p \in Prop
  PROVE  SumOf([a \in Addr \ {s} |-> Owned(t, a, p)]) = TotalBut(t, s, p)
<1> DEFINE f == [a \in Addr \ {s} |-> Owned(t, a, p)]
           O == OwnersBut(t, s, p)
<1>1. /\ f \in [Addr \ {s} -> Nat] /\ O \in SUBSET (Addr \ {s})
      /\ [a \in O |-> f[a]] = [a \in O |-> Owned(t, a, p)]
      /\ \A a \in (Addr \ {s}) \ O : f[a] = 0
  BY OwnedType DEF OwnersBut
<1>2. IsFiniteSet(Addr \ {s})
  BY STOAssumption, FS_Difference, Zenon
<1> HIDE DEF f, O
<1>3. SumOf(f) = SumOf([a \in O |-> f[a]]) + SumOf([a \in (Addr \ {s}) \ O |-> f[a]])
  BY <1>1, <1>2, SumOfSplit
<1>4. SumOf([a \in (Addr \ {s}) \ O |-> f[a]]) = 0
  <2>1. [a \in (Addr \ {s}) \ O |-> f[a]] \in [(Addr \ {s}) \ O -> Nat]
    BY <1>1
  <2> QED
    BY <1>1, <2>1, SumOfZero
<1>5. SumOf([a \in O |-> f[a]]) \in Nat
  BY <1>1, <1>2, SumOfPart
<1>6. SumOf([a \in O |-> f[a]]) = TotalBut(t, s, p)
  BY <1>1 DEF TotalBut, O
<1> QED
  BY <1>3, <1>4, <1>5, <1>6 DEF f

(* For any ledger, sender and amount: nobody receives more than their part *)
(* of the amount, rounded up, and whoever owns more never receives less.   *)
THEOREM LargerOwnersFirst == DSpec => []SharesInOrder
<1>1. ASSUME DistributionInv, settled PROVE SharesInOrder
  <2> DEFINE others == Addr \ {sender}
             total == SumOf([a \in others |-> Owns(a)])
             got == [a \in others |-> IF a \in DOMAIN receivers THEN receivers[a] ELSE 0]
             due == DueOf(tally, sender, Property, amount)
  <2>1. /\ tally \in Ledger /\ sender \in Addr /\ Property \in Prop /\ amount \in Nat
        /\ receivers = STO_GetReceivers(tally, sender, Property, amount)
    BY <1>1, DistributionAssumption DEF DistributionInv
  <2>2. PICK O : O = OwnersBut(tally, sender, Property)
    OBVIOUS
  <2>3. total = TotalBut(tally, sender, Property)
    BY <2>1, TotalOfOthers DEF Owns
  <2>4. CASE O = {}
    <3>1. \A a \in others : got[a] = 0 /\ ~(Owns(a) > 0)
      BY <2>1, <2>2, <2>4 DEF STO_GetReceivers, OwnersBut, Owns
    <3>2. \A a, b \in others : Owns(a) > Owns(b) => got[a] >= got[b]
      BY <3>1
    <3> QED
      BY <3>1, <3>2 DEF SharesInOrder
  <2>5. CASE O # {}
    <3>1. /\ \A a \in others \ O : got[a] = 0 /\ Owns(a) = 0
          /\ \A a \in O : got[a] \in 0 .. due[a]
          /\ \A a, b \in O : Owns(a) > Owns(b) => got[a] >= got[b]
      <4>1. PICK g, d : /\ g = [a \in Addr \ {sender} |->
                                   IF a \in DOMAIN receivers THEN receivers[a] ELSE 0]
                        /\ d = DueOf(tally, sender, Property, amount)
        BY Zenon
      <4>2. GotInOrder(g, d, O, tally, sender, Property)
        BY <2>1, <2>2, <2>5, <4>1, GotOf, Zenon
      <4> QED
        BY <4>1, <4>2, Zenon DEF GotInOrder, Owns
    <3>2. /\ total \in Nat \ {0} /\ due \in [O -> Nat]
          /\ \A a \in O : due[a] = 0 \/ (due[a] - 1) * total < Owns(a) * amount
      BY <2>1, <2>2, <2>3, <2>5, OwnersDue, Zenon DEF Owns
    <3>3. \A a \in others : Owns(a) \in Nat
      BY <2>1, OwnedType DEF Owns
    <3> HIDE DEF got, total, due
    <3>4. ASSUME NEW a \in others PROVE got[a] = 0 \/ (got[a] - 1) * total < Owns(a) * amount
      <4>1. CASE a \in O /\ got[a] # 0
        <5>1. /\ got[a] - 1 \in Nat /\ due[a] - 1 \in Nat /\ got[a] - 1 <= due[a] - 1
              /\ due[a] # 0
          BY <3>1, <3>2, <4>1
        <5>2. (got[a] - 1) * total <= (due[a] - 1) * total
          BY <3>2, <5>1, ProductMonotone
        <5>3. /\ (got[a] - 1) * total \in Nat /\ (due[a] - 1) * total \in Nat
              /\ Owns(a) * amount \in Nat
          BY <2>1, <3>2, <3>3, <5>1, ProductType, Zenon
        <5>4. (due[a] - 1) * total < Owns(a) * amount
          BY <3>2, <4>1, <5>1
        <5> QED
          BY <5>2, <5>3, <5>4
      <4> QED
        BY <3>1, <4>1
    <3>5. ASSUME NEW a \in others, NEW b \in others, Owns(a) > Owns(b) PROVE got[a] >= got[b]
      <4>1. a \in O
        BY <3>1, <3>3, <3>5
      <4>2. got[a] \in Nat
        BY <3>1, <3>2, <4>1
      <4> QED
        BY <3>1, <3>5, <4>1, <4>2
    <3> QED
      BY <3>4, <3>5 DEF SharesInOrder, got, total
  <2> QED
    BY <2>4, <2>5
<1>2. DistributionInv => SharesInOrder
  BY <1>1 DEF SharesInOrder
<1> QED
  BY <1>2, DistributionInvariant, PTL

-----------------------------------------------------------------------------
(* What the updates of the ledger do to getTotalTokens *)

Total(t, p) == Supply(t, p, OwnedTypes)

(* u is t with n more of type tt of the property q at the address who. *)
Added(u, t, who, q, tt, n) ==
    /\ u \in Ledger
    /\ \A a \in Addr, p \in Prop, x \in TallyType :
          u[a][p][x] = t[a][p][x] + (IF <<a, p, x>> = <<who, q, tt>> THEN n ELSE 0)
    /\ \A p \in Prop :
          Total(u, p) = Total(t, p) + (IF p = q /\ tt \in OwnedTypes THEN n ELSE 0)

LEMMA TotalType ==
  ASSUME NEW t \in Ledger, NEW p \in Prop
  PROVE  /\ Total(t, p) \in Nat
         /\ \A a \in Addr : t[a][p]["BALANCE"] \in Nat /\ t[a][p]["BALANCE"] <= Total(t, p)
<1>1. IsFiniteSet(OwnedTypes) /\ OwnedTypes \in SUBSET TallyType /\ IsFiniteSet(Addr)
  BY OwnedType, STOAssumption DEF OwnedTypes
<1>2. "BALANCE" \in OwnedTypes
  BY TallyAssumption DEF OwnedTypes
<1>3. \A a \in Addr : t[a][p]["BALANCE"] \in Nat
  BY TallyAssumption DEF Ledger
<1> QED
  BY <1>1, <1>2, <1>3, SupplyBound DEF Total

(* Equal entries, equal totals. *)
LEMMA SameTotal ==
  ASSUME NEW t, NEW u, NEW p,
         \A a \in Addr, tt \in OwnedTypes : u[a][p][tt] = t[a][p][tt]
  PROVE  Total(u, p) = Total(t, p)
<1>1. [x \in Addr \X OwnedTypes |-> u[x[1]][p][x[2]]]
        = [x \in Addr \X OwnedTypes |-> t[x[1]][p][x[2]]]
  OBVIOUS
<1> QED
  BY <1>1, Zenon DEF Total, Supply

(* update_tally_map adds what it is asked to add, and nothing else. *)
LEMMA UpdatedAdds ==
  ASSUME NEW t \in Ledger, NEW who \in Addr, NEW q \in Prop, NEW tt \in TallyType, NEW n \in Int,
         t[who][q][tt] + n >= 0
  PROVE  Added(Updated(t, who, q, n, tt), t, who, q, tt, n)
<1> DEFINE u == Updated(t, who, q, n, tt)
<1>1. \A a \in Addr, p \in Prop, x \in TallyType :
         /\ t[a][p][x] \in Nat
         /\ u[a][p][x] = t[a][p][x] + (IF <<a, p, x>> = <<who, q, tt>> THEN n ELSE 0)
  BY DEF Updated, Ledger
<1>2. u \in [Addr -> [Prop -> [TallyType -> Int]]]
  BY DEF Updated, Ledger
<1> HIDE DEF u
<1>3. \A a \in Addr, p \in Prop, x \in TallyType : u[a][p][x] \in Nat
  BY <1>1
<1>4. u \in Ledger
  BY <1>2, <1>3 DEF Ledger
<1>5. ASSUME NEW p \in Prop
      PROVE  Total(u, p) = Total(t, p) + (IF p = q /\ tt \in OwnedTypes THEN n ELSE 0)
  <2>1. Total(t, p) \in Nat
    BY TotalType
  <2>2. CASE p = q /\ tt \in OwnedTypes
    <3>1. IsFiniteSet(OwnedTypes) /\ OwnedTypes \in SUBSET TallyType /\ IsFiniteSet(Addr)
      <4>1. IsFiniteSet(OwnedTypes)
        BY OwnedType
      <4>2. OwnedTypes \in SUBSET TallyType
        BY DEF OwnedTypes
      <4> QED
        BY <4>1, <4>2, STOAssumption
    <3>2. \A a \in Addr, x \in OwnedTypes : <<a, x>> # <<who, tt>> => u[a][p][x] = t[a][p][x]
      BY <1>1, <3>1
    <3>3. Total(u, p) = Total(t, p) - t[who][p][tt] + u[who][p][tt]
      BY <1>4, <2>2, <3>1, <3>2, SupplyUpdate, ZenonT(30) DEF Total
    <3>4. t[who][p][tt] \in Nat /\ u[who][p][tt] = t[who][p][tt] + n
      BY <1>1, <2>2
    <3> QED
      BY <2>1, <2>2, <3>3, <3>4
  <2>3. CASE ~(p = q /\ tt \in OwnedTypes)
    <3>1. OwnedTypes \subseteq TallyType
      BY DEF OwnedTypes
    <3>2. \A a \in Addr, x \in OwnedTypes : u[a][p][x] = t[a][p][x]
      BY <1>1, <2>3, <3>1
    <3>3. Total(u, p) = Total(t, p)
      BY <3>2, SameTotal
    <3> QED
      BY <2>1, <2>3, <3>3
  <2> QED
    BY <2>2, <2>3
<1> QED
  BY <1>1, <1>4, <1>5, Zenon DEF Added, u

(* The asserts hold for a debit that is covered and not frozen, and for a  *)
(* credit the limit leaves room for.                                       *)
LEMMA CanDebit ==
  ASSUME NEW t \in Ledger, NEW p \in Prop, NEW s \in Addr, NEW n \in Nat \ {0},
         Total(t, p) <= MaxInt, n <= t[s][p]["BALANCE"], ~isAddressFrozen(s, p)
  PROVE  Updatable(t, s, p, -n, "BALANCE")
<1>1. /\ t[s][p]["BALANCE"] \in Nat /\ MaxInt \in Nat /\ Total(t, p) \in Nat
      /\ t[s][p]["BALANCE"] <= Total(t, p)
  BY TotalType, TallyAssumption
<1> QED
  BY <1>1 DEF Updatable, isOverflow

LEMMA CanCredit ==
  ASSUME NEW t \in Ledger, NEW p \in Prop, NEW r \in Addr, NEW n \in Nat \ {0},
         Total(t, p) + n <= MaxInt
  PROVE  Updatable(t, r, p, n, "BALANCE")
<1>1. /\ t[r][p]["BALANCE"] \in Nat /\ MaxInt \in Nat /\ Total(t, p) \in Nat
      /\ t[r][p]["BALANCE"] <= Total(t, p)
  BY TotalType, TallyAssumption
<1> QED
  BY <1>1 DEF Updatable, isOverflow

(* u holds d more of q than tally, as much of any other property, and no   *)
(* less of what is frozen.                                                 *)
Becomes(u, q, d) ==
    /\ u \in Ledger
    /\ \A p \in Prop : Total(u, p) = Total(tally, p) + (IF p = q THEN d ELSE 0)
    /\ \A p \in Prop : Total(u, p) <= MaxInt
    /\ \A f \in setFrozenAddresses : u[f[1]][f[2]]["BALANCE"] >= tally[f[1]][f[2]]["BALANCE"]

(* What sends and splits start from. *)
LedgerOK ==
    /\ tally \in Ledger
    /\ \A p \in Prop : Total(tally, p) <= MaxInt
    /\ setFrozenAddresses \subseteq Addr \X Prop

LEMMA LedgerState ==
  ASSUME LedgerOK
  PROVE  /\ tally \in Ledger
         /\ \A p \in Prop : Total(tally, p) \in Nat /\ Total(tally, p) <= MaxInt
         /\ \A f \in setFrozenAddresses : f \in Addr \X Prop /\ f = <<f[1], f[2]>>
<1>1. \A p \in Prop : Total(tally, p) \in Nat
  BY TotalType DEF LedgerOK
<1>2. \A f \in Addr \X Prop : f = <<f[1], f[2]>>
  OBVIOUS
<1> QED
  BY <1>1, <1>2 DEF LedgerOK

LEMMA StaysTheSame ==
  ASSUME LedgerOK, NEW q
  PROVE  Becomes(tally, q, 0)
<1>1. ASSUME NEW f \in setFrozenAddresses
      PROVE  tally[f[1]][f[2]]["BALANCE"] >= tally[f[1]][f[2]]["BALANCE"]
  <2>1. f[1] \in Addr /\ f[2] \in Prop
    BY LedgerState
  <2>2. tally[f[1]][f[2]]["BALANCE"] \in Nat
    BY <2>1, LedgerState, TotalType
  <2> QED
    BY <2>2
<1> QED
  BY <1>1, LedgerState DEF Becomes

(* One update: what it adds is added, unless it takes from what is frozen  *)
(* or exceeds the limit.                                                   *)
LEMMA UpdateBecomes ==
  ASSUME LedgerOK, NEW a \in Addr, NEW p \in Prop, NEW n \in Int, NEW u,
         Added(u, tally, a, p, "BALANCE", n),
         n >= 0 \/ ~isAddressFrozen(a, p), Total(tally, p) + n <= MaxInt
  PROVE  Becomes(u, p, n)
<1>1. "BALANCE" \in TallyType /\ "BALANCE" \in OwnedTypes
  BY TallyAssumption DEF OwnedTypes
<1>2. ASSUME NEW f \in setFrozenAddresses
      PROVE  u[f[1]][f[2]]["BALANCE"] >= tally[f[1]][f[2]]["BALANCE"]
  <2>1. f[1] \in Addr /\ f[2] \in Prop /\ f = <<f[1], f[2]>>
    BY LedgerState
  <2>2. tally[f[1]][f[2]]["BALANCE"] \in Nat
    BY <2>1, LedgerState, TotalType
  <2>3. u[f[1]][f[2]]["BALANCE"] = tally[f[1]][f[2]]["BALANCE"]
          + (IF <<f[1], f[2], "BALANCE">> = <<a, p, "BALANCE">> THEN n ELSE 0)
    BY <1>1, <2>1 DEF Added
  <2>4. CASE n >= 0
    BY <2>2, <2>3, <2>4
  <2>5. CASE ~isAddressFrozen(a, p)
    BY <2>1, <2>2, <2>3, <2>5 DEF isAddressFrozen
  <2> QED
    BY <2>4, <2>5, Zenon
<1>3. \A q \in Prop : Total(u, q) = Total(tally, q) + (IF q = p THEN n ELSE 0)
  BY <1>1 DEF Added
<1>4. \A q \in Prop : Total(u, q) <= MaxInt
  BY <1>3, LedgerState
<1> QED
  BY <1>2, <1>3, <1>4, Zenon DEF Becomes, Added

(* A transfer of what is there and not frozen passes the asserts and       *)
(* changes no total.                                                       *)
LEMMA TransferBecomes ==
  ASSUME LedgerOK, NEW s \in Addr, NEW r \in Addr, NEW p \in Prop, NEW n \in Nat \ {0},
         n <= tally[s][p]["BALANCE"], ~isAddressFrozen(s, p)
  PROVE  /\ Movable(tally, p, n, s, "BALANCE", r, "BALANCE")
         /\ Becomes(Moved(tally, p, n, s, "BALANCE", r, "BALANCE"), p, 0)
<1>0. tally \in Ledger /\ "BALANCE" \in TallyType /\ "BALANCE" \in OwnedTypes
  BY TallyAssumption DEF LedgerOK, OwnedTypes
<1>1. PICK u : u = Updated(tally, s, p, -n, "BALANCE")
  OBVIOUS
<1>2. PICK v : v = Updated(u, r, p, n, "BALANCE")
  OBVIOUS
<1>3. Updatable(tally, s, p, -n, "BALANCE")
  BY <1>0, LedgerState, CanDebit
<1>4. Added(u, tally, s, p, "BALANCE", -n)
  <2>1. -n \in Int /\ tally[s][p]["BALANCE"] + (-n) >= 0
    BY <1>0, TotalType
  <2> QED
    BY <1>0, <1>1, <2>1, UpdatedAdds, Zenon
<1>5. u \in Ledger /\ \A q \in Prop : Total(u, q) = Total(tally, q) + (IF q = p THEN -n ELSE 0)
  BY <1>0, <1>4 DEF Added
<1>6. Updatable(u, r, p, n, "BALANCE")
  <2>1. Total(u, p) + n <= MaxInt
    BY <1>5, LedgerState
  <2> QED
    BY <1>5, <2>1, CanCredit
<1>7. Added(v, u, r, p, "BALANCE", n)
  <2>1. u[r][p]["BALANCE"] + n >= 0
    BY <1>5, TotalType
  <2> QED
    BY <1>0, <1>2, <1>5, <2>1, UpdatedAdds
<1>8. ASSUME NEW f \in setFrozenAddresses
      PROVE  v[f[1]][f[2]]["BALANCE"] >= tally[f[1]][f[2]]["BALANCE"]
  <2>1. f[1] \in Addr /\ f[2] \in Prop /\ f # <<s, p>> /\ f = <<f[1], f[2]>>
    BY LedgerState DEF isAddressFrozen
  <2>2. tally[f[1]][f[2]]["BALANCE"] \in Nat
    BY <2>1, LedgerState, TotalType, Zenon
  <2>3. u[f[1]][f[2]]["BALANCE"] = tally[f[1]][f[2]]["BALANCE"]
    BY <1>0, <1>4, <2>1, <2>2 DEF Added
  <2>4. v[f[1]][f[2]]["BALANCE"] = u[f[1]][f[2]]["BALANCE"]
          + (IF <<f[1], f[2], "BALANCE">> = <<r, p, "BALANCE">> THEN n ELSE 0)
    BY <1>0, <1>7, <2>1, Zenon DEF Added
  <2> QED
    BY <2>2, <2>3, <2>4
<1>9. \A q \in Prop : Total(v, q) = Total(tally, q)
  <2>1. \A q \in Prop : Total(v, q) = Total(u, q) + (IF q = p THEN n ELSE 0)
    BY <1>0, <1>7 DEF Added
  <2> QED
    BY <1>5, <2>1, LedgerState
<1>10. v \in Ledger
  BY <1>7 DEF Added
<1>11. Becomes(v, p, 0)
  BY <1>8, <1>9, <1>10, LedgerState DEF Becomes
<1> QED
  BY <1>1, <1>2, <1>3, <1>6, <1>11, Zenon DEF Movable, Moved

(* What a transfer leaves in each entry of p. *)
Transferred(v, t, s, r, p, n) ==
    \A a \in Addr, x \in TallyType :
        v[a][p][x] = IF x = "BALANCE" /\ a = s THEN t[s][p]["BALANCE"] - n
                     ELSE IF x = "BALANCE" /\ a = r THEN t[r][p]["BALANCE"] + n
                     ELSE t[a][p][x]

LEMMA MovedEntries ==
  ASSUME NEW t \in Ledger, NEW s \in Addr, NEW r \in Addr, s # r, NEW p \in Prop, NEW n \in Nat
  PROVE  Transferred(Moved(t, p, n, s, "BALANCE", r, "BALANCE"), t, s, r, p, n)
<1>1. "BALANCE" \in TallyType
  BY TallyAssumption
<1>2. t[s][p]["BALANCE"] \in Nat
  BY <1>1 DEF Ledger
<1> QED
  BY <1>1, <1>2, Zenon DEF Transferred, Moved, Updated, Ledger

(* The shares sh of p on top of the ledger t. *)
Shared(t, p, sh) ==
    [a \in Addr |-> IF a \in DOMAIN sh THEN [t[a] EXCEPT ![p]["BALANCE"] = @ + sh[a]] ELSE t[a]]

SharesGiven(u, t, p, sh) ==
    /\ u \in Ledger
    /\ \A a \in Addr, q \in Prop, x \in TallyType :
          u[a][q][x] = t[a][q][x]
                         + (IF q = p /\ x = "BALANCE" /\ a \in DOMAIN sh THEN sh[a] ELSE 0)
    /\ \A q \in Prop : Total(u, q) = Total(t, q) + (IF q = p THEN SumOf(sh) ELSE 0)

(* Giving shares adds their sum to the total. *)
LEMMA SharedAdds ==
  ASSUME NEW t \in Ledger, NEW p \in Prop, NEW D \in SUBSET Addr, NEW sh \in [D -> Nat]
  PROVE  SharesGiven(Shared(t, p, sh), t, p, sh)
<1> DEFINE u == Shared(t, p, sh)
           g == [a \in Addr |-> IF a \in D THEN sh[a] ELSE 0]
           B(w) == [a \in Addr |-> w[a][p]["BALANCE"]]
           ts == OwnedTypes \ {"BALANCE"}
<1>0. "BALANCE" \in TallyType /\ IsFiniteSet(Addr) /\ IsFiniteSet(D)
  <2>1. "BALANCE" \in TallyType
    BY TallyAssumption
  <2>2. IsFiniteSet(Addr)
    BY STOAssumption
  <2> QED
    BY <2>1, <2>2, FS_Subset
<1>1. \A a \in Addr, q \in Prop, x \in TallyType :
         /\ t[a][q][x] \in Nat
         /\ u[a][q][x] = t[a][q][x]
                           + (IF q = p /\ x = "BALANCE" /\ a \in DOMAIN sh THEN sh[a] ELSE 0)
  BY DEF Shared, Ledger
<1>2. u \in Ledger
  BY <1>0 DEF Shared, Ledger
<1> HIDE DEF u
<1>3. OwnedTypes \subseteq TallyType /\ ts \in SUBSET TallyType /\ "BALANCE" \notin ts
  BY DEF OwnedTypes
<1>4. ts \cup {"BALANCE"} = OwnedTypes /\ IsFiniteSet(ts)
  <2>1. "BALANCE" \in OwnedTypes
    BY <1>0 DEF OwnedTypes
  <2>2. IsFiniteSet(OwnedTypes)
    BY OwnedType
  <2> QED
    BY <2>1, <2>2, FS_Subset
<1> HIDE DEF ts
<1>5. Total(u, p) = Total(t, p) + SumOf(sh)
  <2>1. Total(t, p) = Supply(t, p, ts) + SumOf(B(t))
    BY <1>0, <1>3, <1>4, SupplyAdd DEF Total
  <2>2. Total(u, p) = Supply(u, p, ts) + SumOf(B(u))
    BY <1>0, <1>2, <1>3, <1>4, SupplyAdd DEF Total
  <2>3. Supply(u, p, ts) = Supply(t, p, ts)
    <3>1. \A a \in Addr, x \in ts : u[a][p][x] = t[a][p][x]
      BY <1>1, <1>3
    <3>2. [x \in Addr \X ts |-> u[x[1]][p][x[2]]] = [x \in Addr \X ts |-> t[x[1]][p][x[2]]]
      BY <3>1
    <3> QED
      BY <3>2, Zenon DEF Supply
  <2>4. Supply(t, p, ts) \in Nat
    BY <1>0, <1>3, <1>4, SupplyBound
  <2>5. B(t) \in [Addr -> Nat] /\ g \in [Addr -> Nat]
    BY <1>0, <1>1
  <2>6. B(u) = [a \in Addr |-> B(t)[a] + g[a]]
    BY <1>0, <1>1
  <2>7. SumOf(g) = SumOf(sh)
    <3>1. /\ [a \in D |-> g[a]] = sh
          /\ [a \in Addr \ D |-> g[a]] \in [Addr \ D -> Nat]
          /\ \A a \in Addr \ D : [b \in Addr \ D |-> g[b]][a] = 0
      OBVIOUS
    <3> HIDE DEF g
    <3>2. SumOf(g) = SumOf([a \in D |-> g[a]]) + SumOf([a \in Addr \ D |-> g[a]])
      <4> PICK f \in [Addr -> Nat] : f = g
        BY <2>5
      <4>1. SumOf(f) = SumOf([a \in D |-> f[a]]) + SumOf([a \in Addr \ D |-> f[a]])
        BY <1>0, SumOfSplit
      <4> QED
        BY <4>1
    <3>3. SumOf([a \in Addr \ D |-> g[a]]) = 0
      BY <3>1, SumOfZero
    <3>4. SumOf(sh) \in Nat
      BY <1>0, SumOfType
    <3> QED
      BY <3>1, <3>2, <3>3, <3>4
  <2>8. SumOf(B(t)) \in Nat /\ SumOf(sh) \in Nat
    BY <1>0, <2>5, SumOfType
  <2> HIDE DEF g, B
  <2>9. SumOf(B(u)) = SumOf(B(t)) + SumOf(g)
    BY <1>0, <2>5, <2>6, SumOfPlus
  <2> QED
    BY <2>1, <2>2, <2>3, <2>4, <2>7, <2>8, <2>9
<1>6. ASSUME NEW q \in Prop, q # p PROVE Total(u, q) = Total(t, q)
  <2>1. \A a \in Addr, x \in OwnedTypes : u[a][q][x] = t[a][q][x]
    BY <1>1, <1>3, <1>6
  <2> QED
    BY <2>1, SameTotal
<1>7. \A q \in Prop : Total(t, q) \in Nat
  BY TotalType
<1> QED
  BY <1>1, <1>2, <1>5, <1>6, <1>7 DEF SharesGiven, u

(* Who passes the check for "no recipients" has recipients. *)
LEMMA SomebodyReceives ==
  ASSUME NEW sh, NEW t, NEW s, NEW p, NEW n, Splits(sh, t, s, p, n), sh # << >>
  PROVE  DOMAIN sh # {} /\ Cardinality(DOMAIN sh) \in Nat \ {0}
<1>1. IsFiniteSet(DOMAIN sh) /\ sh = [i \in DOMAIN sh |-> sh[i]]
  BY DEF Splits
<1>2. ASSUME DOMAIN sh = {} PROVE FALSE
  <2>1. << >> = [i \in {} |-> 0]
    OBVIOUS
  <2>2. sh = [i \in {} |-> 0]
    BY <1>1, <1>2
  <2> QED
    BY <2>1, <2>2
<1>3. PICK D : D = DOMAIN sh
  OBVIOUS
<1>4. Cardinality(D) \in Nat \ {0}
  BY <1>1, <1>2, <1>3, FS_CardinalityType, FS_EmptySet, Zenon
<1> QED
  BY <1>2, <1>3, <1>4, Zenon

(* A split whose sender can pay n and a fee that nobody is frozen for      *)
(* passes the asserts; the fee is burned and nothing else is made or lost. *)
SplitPaid(paid, deb, sh, s, p, n, fp, fee) ==
    /\ Updatable(tally, s, fp, -fee, "BALANCE")
    /\ Updatable(paid, s, p, -n, "BALANCE")
    /\ \A a \in DOMAIN sh : Updatable(deb, a, p, sh[a], "BALANCE")
    /\ SumOf(sh) = n
    /\ Becomes(Shared(deb, p, sh), fp, -fee)

LEMMA SplitBecomes ==
  ASSUME LedgerOK, NEW s \in Addr, NEW p \in Prop, NEW n \in Nat \ {0},
         NEW sh, Splits(sh, tally, s, p, n), sh # << >>,
         NEW fp \in Prop, NEW fee \in Nat \ {0}, \A a \in Addr : ~isAddressFrozen(a, fp),
         ~isAddressFrozen(s, p), tally[s][p]["BALANCE"] >= n,
         IF fp # p THEN tally[s][fp]["BALANCE"] >= fee ELSE tally[s][p]["BALANCE"] >= n + fee,
         NEW paid, paid = Updated(tally, s, fp, -fee, "BALANCE"),
         NEW deb, deb = Updated(paid, s, p, -n, "BALANCE")
  PROVE  SplitPaid(paid, deb, sh, s, p, n, fp, fee)
<1>0. /\ tally \in Ledger /\ "BALANCE" \in TallyType /\ "BALANCE" \in OwnedTypes /\ MaxInt \in Nat
  BY TallyAssumption DEF LedgerOK, OwnedTypes
<1>1. /\ DOMAIN sh \in SUBSET Addr /\ sh \in [DOMAIN sh -> Nat \ {0}] /\ IsFiniteSet(DOMAIN sh)
      /\ DOMAIN sh # {} /\ SumOf(sh) = n
  <2>1. DOMAIN sh # {}
    BY SomebodyReceives
  <2>2. PICK O : O = OwnersBut(tally, s, p)
    BY Zenon
  <2>3. O \subseteq Addr
    BY <2>2 DEF OwnersBut
  <2>4. /\ DOMAIN sh \subseteq O /\ IsFiniteSet(DOMAIN sh) /\ sh \in [DOMAIN sh -> Nat \ {0}]
        /\ SumOf(sh) = IF O = {} THEN 0 ELSE n
    BY <2>2, Zenon DEF Splits
  <2>5. O # {} /\ DOMAIN sh \in SUBSET Addr
    BY <2>1, <2>3, <2>4, Zenon
  <2>6. SumOf(sh) = n
    BY <2>4, <2>5, ZenonT(30)
  <2> QED
    BY <2>1, <2>4, <2>5, <2>6, ZenonT(30)
<1>2. /\ Added(paid, tally, s, fp, "BALANCE", -fee)
       /\ Updatable(tally, s, fp, -fee, "BALANCE")
  <2>1. tally[s][fp]["BALANCE"] \in Nat /\ fee <= tally[s][fp]["BALANCE"]
    BY <1>0, TotalType
  <2>2. tally[s][fp]["BALANCE"] + (-fee) >= 0 /\ -fee \in Int
    BY <2>1
  <2>3. Updatable(tally, s, fp, -fee, "BALANCE")
    BY <1>0, <2>1, LedgerState, CanDebit, Zenon
  <2>4. Added(paid, tally, s, fp, "BALANCE", -fee)
    BY <1>0, <2>2, UpdatedAdds, Zenon
  <2> QED
    BY <2>3, <2>4
<1>3. /\ paid \in Ledger
       /\ \A q \in Prop : Total(paid, q) = Total(tally, q) + (IF q = fp THEN -fee ELSE 0)
  BY <1>0, <1>2, Zenon DEF Added
<1>4. \A q \in Prop : Total(paid, q) <= MaxInt
  BY <1>0, <1>3, LedgerState
<1>5. n <= paid[s][p]["BALANCE"] /\ paid[s][p]["BALANCE"] \in Nat
  <2>1. tally[s][p]["BALANCE"] \in Nat /\ paid[s][p]["BALANCE"] \in Nat
    BY <1>0, <1>3, TotalType, Zenon
  <2>2. paid[s][p]["BALANCE"] = tally[s][p]["BALANCE"]
          + (IF <<s, p, "BALANCE">> = <<s, fp, "BALANCE">> THEN -fee ELSE 0)
    BY <1>0, <1>2, Zenon DEF Added
  <2> QED
    BY <1>0, <2>1, <2>2
<1>6. Updatable(paid, s, p, -n, "BALANCE")
  BY <1>0, <1>3, <1>4, <1>5, CanDebit, Zenon
<1>7. Added(deb, paid, s, p, "BALANCE", -n)
  <2>1. paid[s][p]["BALANCE"] + (-n) >= 0 /\ -n \in Int
    BY <1>0, <1>5
  <2> QED
    BY <1>0, <1>3, <2>1, UpdatedAdds, Zenon
<1>8. /\ deb \in Ledger
       /\ \A q \in Prop : Total(deb, q) = Total(paid, q) + (IF q = p THEN -n ELSE 0)
  BY <1>0, <1>7, Zenon DEF Added
<1>9. ASSUME NEW a \in DOMAIN sh PROVE Updatable(deb, a, p, sh[a], "BALANCE")
  <2>1. sh[a] <= n /\ sh[a] \in Nat \ {0} /\ a \in Addr
    BY <1>1, SumOfBound
  <2>2. Total(deb, p) + sh[a] <= MaxInt
    BY <1>0, <1>3, <1>4, <1>8, <2>1, TotalType
  <2> QED
    BY <1>8, <2>1, <2>2, CanCredit, Zenon
<1>10. PICK u : u = Shared(deb, p, sh)
  BY Zenon
<1>11. SharesGiven(u, deb, p, sh)
  BY <1>1, <1>8, <1>10, SharedAdds, Zenon
<1>12. Becomes(u, fp, -fee)
  <2>1. \A q \in Prop : Total(u, q) = Total(deb, q) + (IF q = p THEN n ELSE 0)
    BY <1>1, <1>11, Zenon DEF SharesGiven
  <2>2. \A q \in Prop : Total(tally, q) \in Nat /\ Total(paid, q) \in Nat
    BY <1>0, <1>3, TotalType, Zenon
  <2>3. \A q \in Prop : Total(u, q) = Total(paid, q)
    BY <1>0, <1>8, <2>1, <2>2
  <2>4. ASSUME NEW f \in setFrozenAddresses
        PROVE  u[f[1]][f[2]]["BALANCE"] >= tally[f[1]][f[2]]["BALANCE"]
    <3>1. f[1] \in Addr /\ f[2] \in Prop /\ f # <<s, p>> /\ f[2] # fp /\ f = <<f[1], f[2]>>
      BY LedgerState DEF isAddressFrozen
    <3>2. tally[f[1]][f[2]]["BALANCE"] \in Nat
      BY <1>0, <3>1, TotalType, Zenon
    <3>0. \A i \in Nat : i + 0 = i
      OBVIOUS
    <3>3. paid[f[1]][f[2]]["BALANCE"] = tally[f[1]][f[2]]["BALANCE"]
      BY <1>0, <1>2, <3>0, <3>1, <3>2, Zenon DEF Added
    <3>4. deb[f[1]][f[2]]["BALANCE"] = paid[f[1]][f[2]]["BALANCE"]
      <4>1. <<f[1], f[2], "BALANCE">> # <<s, p, "BALANCE">>
        BY <3>1
      <4>2. deb[f[1]][f[2]]["BALANCE"] = paid[f[1]][f[2]]["BALANCE"] + 0
        BY <1>0, <1>7, <3>1, <4>1, Zenon DEF Added
      <4> QED
        BY <3>0, <3>2, <3>3, <4>2, Zenon
    <3>5. u[f[1]][f[2]]["BALANCE"] = deb[f[1]][f[2]]["BALANCE"]
            + (IF f[2] = p /\ f[1] \in DOMAIN sh THEN sh[f[1]] ELSE 0)
      BY <1>0, <1>11, <3>1, ZenonT(30) DEF SharesGiven
    <3>6. f[1] \in DOMAIN sh => sh[f[1]] \in Nat
      BY <1>1
    <3>7. \A i, e \in Nat : i + e >= i /\ i + 0 >= i
      OBVIOUS
    <3> QED
      BY <3>2, <3>3, <3>4, <3>5, <3>6, <3>7, Zenon
  <2>5. u \in Ledger
    BY <1>11 DEF SharesGiven
  <2> QED
    BY <1>3, <1>4, <2>3, <2>4, <2>5, Zenon DEF Becomes
<1> QED
  BY <1>1, <1>2, <1>6, <1>9, <1>10, <1>12, Zenon DEF SplitPaid
=============================================================================
