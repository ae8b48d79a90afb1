---------------------------- MODULE MetaDExProofs ----------------------------
(***************************************************************************)
(* Theorems about the token-for-token exchange, for any traders, orders    *)
(* and amounts: the reserve is the book, every order gets its limit price, *)
(* no assert fails, and tokens change hands in swaps only.  First what     *)
(* they rest on: what a trade at a rounded price is worth to both sides,   *)
(* what the orders of an address hold together, and which order is visited *)
(* first.                                                                  *)
(***************************************************************************)
EXTENDS MetaDEx, LedgerTheorems

(* The provers of a step that names none, with their time limits. *)
USE SMTT(20), ZenonT(20)

-----------------------------------------------------------------------------
(* Arithmetic of a trade *)

(* Division that rounds up is the least natural number that is enough. *)
LEMMA RoundUp ==
  ASSUME NEW x \in Nat, NEW y \in Nat \ {0}
  PROVE  /\ DivideAndRoundUp(x, y) \in Nat
         /\ x <= DivideAndRoundUp(x, y) * y
         /\ \A m \in Nat : x <= m * y => DivideAndRoundUp(x, y) <= m
<1> DEFINE q == (x + y - 1) \div y
<1>1. q \in Int /\ y * q <= x + y - 1 /\ x + y - 1 < y * (q + 1)
  OBVIOUS
<1>2. y * (q + 1) = y * q + y /\ q * y = y * q
  BY <1>1
<1>3. q \in Nat
  OBVIOUS
<1>4. x <= q * y
  BY <1>1, <1>2
<1>5. ASSUME NEW m \in Nat, x <= m * y PROVE q <= m
  <2>1. ASSUME m + 1 <= q PROVE FALSE
    <3>1. (m + 1) * y <= q * y
      BY <1>3, <2>1, ProductMonotone
    <3>2. (m + 1) * y = m * y + y
      OBVIOUS
    <3> QED
      BY <1>1, <1>2, <1>3, <1>5, <3>1, <3>2
  <2> QED
    BY <1>3, <2>1
<1> QED
  BY <1>3, <1>4, <1>5 DEF DivideAndRoundUp

(* An order of the book sells n units for pay: what x_Trade computes.      *)
Trades(new, old, n, pay) ==
    /\ n = CouldBuy(new, old) /\ n # 0
    /\ pay = WouldPay(n, old)
    /\ ~TooExpensive(new, n, pay)

(* What the orders of the book and the one being matched are. *)
Order == [addr : Addr, property : Prop, forsale : Nat \ {0}, desProperty : Prop,
          desired : Nat \ {0}, remaining : Nat, got : Nat]

(* The units traded are there on both sides, and neither side is worse off *)
(* than its limit price, however the price was rounded.                    *)
LEMMA TradeBounds ==
  ASSUME NEW new \in Order, NEW old \in Order, NEW n, NEW pay,
         Trades(new, old, n, pay)
  PROVE  /\ n \in 1 .. old.remaining
         /\ pay \in 1 .. new.remaining
         /\ pay * old.forsale >= old.desired * n
         /\ pay * new.desired <= new.forsale * n
<1> DEFINE r == new.remaining
           f == old.forsale
           d == old.desired
           k == (r * f) \div d
<1>1. /\ r \in Nat /\ f \in Nat \ {0} /\ d \in Nat \ {0} /\ old.remaining \in Nat
      /\ new.desired \in Nat /\ new.forsale \in Nat
  BY DEF Order
<1>2. r * f \in Nat
  BY <1>1
<1>3. k \in Nat /\ d * k <= r * f
  <2> DEFINE x == r * f
  <2> HIDE DEF x, r, f, d
  <2>1. x \div d \in Nat /\ d * (x \div d) <= x
    BY <1>1, <1>2 DEF x
  <2> QED
    BY <2>1 DEF x
<1>4. n = IF k < old.remaining THEN k ELSE old.remaining
  BY DEF Trades, CouldBuy
<1> HIDE DEF k
<1>5. n \in Nat /\ n # 0 /\ n <= old.remaining /\ n <= k
  BY <1>1, <1>3, <1>4 DEF Trades
<1>6. n * d <= r * f
  <2>1. n * d <= k * d
    BY <1>1, <1>3, <1>5, ProductMonotone
  <2> QED
    BY <1>1, <1>2, <1>3, <1>5, <2>1
<1>7. n * d \in Nat
  BY <1>1, <1>5
<1>8. pay = DivideAndRoundUp(n * d, f)
  BY DEF Trades, WouldPay
<1> HIDE DEF r, f, d
<1>9. pay \in Nat /\ n * d <= pay * f /\ pay <= r
  BY <1>1, <1>6, <1>7, <1>8, RoundUp, Zenon
<1>10. pay # 0
  <2>1. 1 * d <= n * d
    BY <1>1, <1>5, ProductMonotone
  <2> QED
    BY <1>1, <1>7, <1>9, <2>1
<1>11. pay * new.desired <= new.forsale * n
  <2>1. pay * new.desired \in Nat /\ new.forsale * n \in Nat
    BY <1>1, <1>5, <1>9
  <2> QED
    BY <2>1 DEF Trades, TooExpensive
<1>12. pay * f >= d * n
  BY <1>1, <1>5, <1>7, <1>9
<1> QED
  BY <1>1, <1>5, <1>9, <1>10, <1>11, <1>12 DEF r, f, d

(* An order at its limit price or better stays there when it sells more at *)
(* its limit price or better.                                              *)
AtLimit(o) == o.got * o.forsale >= (o.forsale - o.remaining) * o.desired

LEMMA LimitKept ==
  ASSUME NEW got \in Nat, NEW forsale \in Nat, NEW remaining \in Nat, NEW desired \in Nat,
         NEW in \in Nat, NEW out \in Nat,
         got * forsale >= (forsale - remaining) * desired,
         in * forsale >= out * desired
  PROVE  (got + in) * forsale >= (forsale - (remaining - out)) * desired
<1>1. (got + in) * forsale = got * forsale + in * forsale
  OBVIOUS
<1>2. (forsale - (remaining - out)) * desired = (forsale - remaining) * desired + out * desired
  OBVIOUS
<1>3. /\ got * forsale \in Int /\ in * forsale \in Int
      /\ (forsale - remaining) * desired \in Int /\ out * desired \in Int
  OBVIOUS
<1> QED
  BY <1>1, <1>2, <1>3

(* Every order of the book has something left to sell and has received its *)
(* limit price for what it has sold.                                       *)
BookOK(book) ==
    /\ DOMAIN book \subseteq 1 .. MaxOrders
    /\ book \in [DOMAIN book -> Order]
    /\ \A i \in DOMAIN book : book[i].remaining > 0 /\ AtLimit(book[i])

-----------------------------------------------------------------------------
(* What the book holds *)

(* What the orders ids of a book hold of a's tokens p, and the same as a   *)
(* sum over all places of the book.                                        *)
Held(book, ids, a, p) ==
    SumOf([i \in {j \in ids : book[j].addr = a /\ book[j].property = p}
               |-> book[i].remaining])

OwnRest(book, ids, a, p, i) ==
    IF i \in ids /\ book[i].addr = a /\ book[i].property = p THEN book[i].remaining ELSE 0

Rest(book, ids, a, p) == [i \in 1 .. MaxOrders |-> OwnRest(book, ids, a, p, i)]

LEMMA PlacesFinite == IsFiniteSet(1 .. MaxOrders)
<1>1. \A x, y \in Int : IsFiniteSet(x .. y)
  BY FS_Interval
<1> QED
  BY <1>1, MetaDExAssumption

LEMMA RestType ==
  ASSUME NEW book, BookOK(book), NEW ids, ids \subseteq DOMAIN book, NEW a, NEW p
  PROVE  /\ Rest(book, ids, a, p) \in [1 .. MaxOrders -> Nat]
         /\ \A i \in 1 .. MaxOrders : Rest(book, ids, a, p)[i] = OwnRest(book, ids, a, p, i)
<1>1. \A i \in DOMAIN book : book[i].remaining \in Nat
  BY DEF BookOK, Order
<1> QED
  BY <1>1 DEF Rest, OwnRest

LEMMA BookRestType ==
  ASSUME NEW book, BookOK(book), NEW a, NEW p
  PROVE  /\ Rest(book, DOMAIN book, a, p) \in [1 .. MaxOrders -> Nat]
         /\ \A i \in 1 .. MaxOrders :
              Rest(book, DOMAIN book, a, p)[i] = OwnRest(book, DOMAIN book, a, p, i)
<1>1. PICK ids : ids = DOMAIN book
  OBVIOUS
<1>2. /\ Rest(book, ids, a, p) \in [1 .. MaxOrders -> Nat]
      /\ \A i \in 1 .. MaxOrders : Rest(book, ids, a, p)[i] = OwnRest(book, ids, a, p, i)
  BY <1>1, RestType
<1> QED
  BY <1>1, <1>2

LEMMA HeldIsRest ==
  ASSUME NEW book, BookOK(book), NEW ids, ids \subseteq DOMAIN book, NEW a, NEW p
  PROVE  /\ Held(book, ids, a, p) = SumOf(Rest(book, ids, a, p))
         /\ Held(book, ids, a, p) \in Nat
<1> DEFINE S == 1 .. MaxOrders
           T == {j \in ids : book[j].addr = a /\ book[j].property = p}
           f == Rest(book, ids, a, p)
<1>1. f \in [S -> Nat] /\ \A i \in S : f[i] = OwnRest(book, ids, a, p, i)
  BY RestType, Zenon
<1>2. T \in SUBSET S
  BY DEF BookOK
<1>3. \A i \in T : f[i] = book[i].remaining
  BY <1>1, <1>2 DEF OwnRest
<1>4. \A i \in S \ T : f[i] = 0
  BY <1>1 DEF OwnRest
<1>5. Held(book, ids, a, p) = SumOf([i \in T |-> f[i]])
  BY <1>3 DEF Held
<1>6. IsFiniteSet(S)
  BY PlacesFinite
<1> HIDE DEF S, T, f
<1>7. SumOf(f) = SumOf([i \in T |-> f[i]]) + SumOf([i \in S \ T |-> f[i]])
  BY <1>1, <1>2, <1>6, SumOfSplit, ZenonT(30)
<1>8. SumOf([i \in T |-> f[i]]) \in Nat
  BY <1>1, <1>2, <1>6, SumOfPart
<1>9. SumOf([i \in S \ T |-> f[i]]) = 0
  <2> DEFINE R == S \ T
             g == [i \in R |-> f[i]]
  <2>1. g \in [R -> Nat] /\ \A i \in R : g[i] = 0
    BY <1>1, <1>4
  <2> HIDE DEF g, R
  <2>2. SumOf(g) = 0
    BY <2>1, SumOfZero
  <2> QED
    BY <2>2 DEF g, R
<1> QED
  BY <1>5, <1>7, <1>8, <1>9 DEF f

LEMMA BookHeldType ==
  ASSUME NEW book, BookOK(book), NEW a, NEW p
  PROVE  Held(book, DOMAIN book, a, p) \in Nat
<1>1. PICK all : all = DOMAIN book
  OBVIOUS
<1>2. Held(book, all, a, p) \in Nat
  BY <1>1, HeldIsRest
<1> QED
  BY <1>1, <1>2

(* Two books that differ in one place hold the same but for that place. *)
LEMMA HeldUpdate ==
  ASSUME NEW book, BookOK(book), NEW next, BookOK(next), NEW k \in 1 .. MaxOrders, NEW a, NEW p,
         \A i \in 1 .. MaxOrders : i # k =>
             OwnRest(next, DOMAIN next, a, p, i) = OwnRest(book, DOMAIN book, a, p, i)
  PROVE  Held(next, DOMAIN next, a, p) =
           Held(book, DOMAIN book, a, p) - OwnRest(book, DOMAIN book, a, p, k)
                                         + OwnRest(next, DOMAIN next, a, p, k)
<1> DEFINE f == Rest(book, DOMAIN book, a, p)
           g == Rest(next, DOMAIN next, a, p)
<1>1. f \in [1 .. MaxOrders -> Nat] /\ \A i \in 1 .. MaxOrders : f[i] = OwnRest(book, DOMAIN book, a, p, i)
  BY RestType
<1>2. g \in [1 .. MaxOrders -> Nat] /\ \A i \in 1 .. MaxOrders : g[i] = OwnRest(next, DOMAIN next, a, p, i)
  BY RestType
<1>3. Held(book, DOMAIN book, a, p) = SumOf(f) /\ Held(next, DOMAIN next, a, p) = SumOf(g)
  BY HeldIsRest
<1> HIDE DEF f, g
<1> DEFINE S == 1 .. MaxOrders
<1>4. k \in S /\ f \in [S -> Nat] /\ g \in [S -> Nat] /\ \A i \in S \ {k} : g[i] = f[i]
  BY <1>1, <1>2
<1> HIDE DEF S
<1>5. SumOf(g) = SumOf(f) - f[k] + g[k]
  BY <1>4, PlacesFinite, SumOfUpdate, ZenonT(30) DEF S
<1> QED
  BY <1>1, <1>2, <1>3, <1>5, Zenon

(* The reserve of an address covers each of its orders. *)
LEMMA HeldAtLeast ==
  ASSUME NEW book, BookOK(book), NEW ids, ids \subseteq DOMAIN book, NEW i \in ids
  PROVE  book[i].remaining <= Held(book, ids, book[i].addr, book[i].property)
<1>1. PICK a \in Addr, p \in Prop : a = book[i].addr /\ p = book[i].property
  BY DEF BookOK, Order
<1> DEFINE f == Rest(book, ids, a, p)
<1>2. i \in 1 .. MaxOrders
  BY DEF BookOK
<1>3. OwnRest(book, ids, a, p, i) = book[i].remaining
  BY <1>1 DEF OwnRest
<1>4. f \in [1 .. MaxOrders -> Nat] /\ f[i] = OwnRest(book, ids, a, p, i)
  BY <1>2, RestType, Zenon
<1>5. Held(book, ids, a, p) = SumOf(f)
  BY HeldIsRest
<1> HIDE DEF f
<1>6. f[i] <= SumOf(f)
  BY <1>2, <1>4, PlacesFinite, SumOfBound, Zenon
<1> QED
  BY <1>1, <1>3, <1>4, <1>5, <1>6, Zenon

(* The orders removed and the orders kept hold what the book holds. *)
LEMMA HeldErase ==
  ASSUME NEW book, BookOK(book), NEW ids, ids \subseteq DOMAIN book, NEW a, NEW p
  PROVE  /\ BookOK(Erase(book, ids))
         /\ Held(book, DOMAIN book, a, p) =
              Held(book, ids, a, p) + Held(Erase(book, ids), DOMAIN Erase(book, ids), a, p)
<1> DEFINE S == 1 .. MaxOrders
           next == Erase(book, ids)
           f == Rest(book, DOMAIN book, a, p)
           g == Rest(book, ids, a, p)
           h == Rest(next, DOMAIN next, a, p)
<1>1. /\ DOMAIN next = DOMAIN book \ ids
      /\ \A i \in DOMAIN next : next[i] = book[i]
      /\ next \in [DOMAIN next -> Order]
  BY DEF Erase, BookOK
<1> HIDE DEF next
<1>2. BookOK(next)
  BY <1>1 DEF BookOK
<1>3. f \in [1 .. MaxOrders -> Nat] /\ \A i \in 1 .. MaxOrders : f[i] = OwnRest(book, DOMAIN book, a, p, i)
  BY BookRestType
<1>4. g \in [S -> Nat] /\ \A i \in S : g[i] = OwnRest(book, ids, a, p, i)
  BY RestType, Zenon
<1>5. h \in [1 .. MaxOrders -> Nat] /\ \A i \in 1 .. MaxOrders : h[i] = OwnRest(next, DOMAIN next, a, p, i)
  BY <1>2, BookRestType
<1>6. /\ Held(book, DOMAIN book, a, p) = SumOf(f)
      /\ Held(book, ids, a, p) = SumOf(g)
      /\ Held(next, DOMAIN next, a, p) = SumOf(h)
  BY <1>2, HeldIsRest
<1> HIDE DEF f, g, h
<1>7. \A i \in S : f[i] = g[i] + h[i]
  <2> SUFFICES ASSUME NEW i \in S PROVE f[i] = g[i] + h[i]
    OBVIOUS
  <2>1. f[i] \in Nat /\ g[i] \in Nat /\ h[i] \in Nat
    BY <1>3, <1>4, <1>5
  <2>2. CASE i \in ids
    BY <1>1, <1>3, <1>4, <1>5, <2>1, <2>2 DEF OwnRest
  <2>3. CASE i \in DOMAIN book \ ids
    BY <1>1, <1>3, <1>4, <1>5, <2>1, <2>3 DEF OwnRest
  <2>4. CASE i \notin DOMAIN book
    BY <1>1, <1>3, <1>4, <1>5, <2>1, <2>4 DEF OwnRest
  <2> QED
    BY <2>2, <2>3, <2>4
<1>8. f = [i \in S |-> g[i] + h[i]]
  BY <1>3, <1>7
<1> HIDE DEF S
<1>9. SumOf(f) = SumOf(g) + SumOf(h)
  BY <1>4, <1>5, <1>8, PlacesFinite, SumOfPlus, Zenon DEF S
<1> QED
  BY <1>2, <1>6, <1>9 DEF next

-----------------------------------------------------------------------------
(* The order in which the book is visited *)

(* An order cheaper than one at most as expensive as a third is cheaper    *)
(* than the third.                                                         *)
LEMMA CheaperTransitive ==
  ASSUME NEW x \in Order, NEW y \in Order, NEW z \in Order,
         Cheaper(x, y), Cheaper(y, z) \/ SamePrice(y, z)
  PROVE  Cheaper(x, z)
<1> DEFINE xd == x.desired  xf == x.forsale
           yd == y.desired  yf == y.forsale
           zd == z.desired  zf == z.forsale
<1>1. /\ xd \in Nat \ {0} /\ yd \in Nat \ {0} /\ zd \in Nat \ {0}
      /\ xf \in Nat \ {0} /\ yf \in Nat \ {0} /\ zf \in Nat \ {0}
  BY DEF Order
<1>2. xd * yf < yd * xf
  BY DEF Cheaper
<1>3. yd * zf <= zd * yf
  BY <1>1 DEF Cheaper, SamePrice
<1>4. SUFFICES xd * zf < zd * xf
  BY DEF Cheaper
<1> HIDE DEF xd, xf, yd, yf, zd, zf
<1>5. /\ xd * yf \in Nat /\ yd * xf \in Nat /\ yd * zf \in Nat /\ zd * yf \in Nat
      /\ xd * zf \in Nat /\ zd * xf \in Nat
  BY <1>1, ProductType
<1>6. (xd * yf) * zf < (yd * xf) * zf
  BY <1>1, <1>2, <1>5, ProductStrict, Zenon
<1>7. (yd * zf) * xf <= (zd * yf) * xf
  BY <1>1, <1>3, <1>5, ProductMonotone, Zenon
<1>8. /\ (xd * yf) * zf = (xd * zf) * yf
      /\ (yd * xf) * zf = (yd * zf) * xf
      /\ (zd * yf) * xf = (zd * xf) * yf
  BY <1>1, ProductOrder
<1>9. /\ (xd * zf) * yf \in Nat /\ (yd * zf) * xf \in Nat /\ (zd * xf) * yf \in Nat
  BY <1>1, <1>5, ProductType
<1>10. (xd * zf) * yf < (zd * xf) * yf
  BY <1>6, <1>7, <1>8, <1>9
<1> QED
  BY <1>1, <1>5, <1>10, ProductStrict, Zenon

(* Of two orders one is cheaper, or their prices are the same. *)
LEMMA CheaperTotal ==
  ASSUME NEW x \in Order, NEW y \in Order, ~Cheaper(x, y)
  PROVE  Cheaper(y, x) \/ SamePrice(y, x)
<1>1. x.desired * y.forsale \in Nat /\ y.desired * x.forsale \in Nat
  BY ProductType DEF Order
<1> QED
  BY <1>1 DEF Cheaper, SamePrice

Before(i, j) ==
    \/ Cheaper(metadex[i], metadex[j])
    \/ SamePrice(metadex[i], metadex[j]) /\ i < j

First(i, ids) == \A j \in ids \ {i} : Before(i, j)

(* A part of the book that is not empty has a first order. *)
LEMMA BestIsFirst ==
  ASSUME BookOK(metadex), NEW ids, ids \subseteq DOMAIN metadex, ids # {}
  PROVE  Best(ids) \in ids
<1> DEFINE S == {k \in Nat : \A T \in SUBSET (DOMAIN metadex \cap (1 .. k)) :
                                T # {} => \E i \in T : First(i, T)}
<1>1. 0 \in S
  <2>1. 1 .. 0 = {}
    OBVIOUS
  <2> QED
    BY <2>1
<1>2. ASSUME NEW k \in Nat, k \in S PROVE k + 1 \in S
  <2> SUFFICES ASSUME NEW T \in SUBSET (DOMAIN metadex \cap (1 .. k + 1)), T # {}
               PROVE  \E i \in T : First(i, T)
    OBVIOUS
  <2> DEFINE l == k + 1
             U == T \ {l}
  <2>1. U \in SUBSET (DOMAIN metadex \cap (1 .. k))
    OBVIOUS
  <2>2. CASE l \notin T
    BY <1>2, <2>1, <2>2
  <2>3. CASE l \in T /\ U = {}
    BY <2>3 DEF First
  <2>4. CASE l \in T /\ U # {}
    <3>1. PICK i \in U : First(i, U)
      BY <1>2, <2>1, <2>4
    <3>2. /\ i \in T /\ i < l
          /\ \A j \in T : metadex[j] \in Order
      BY <2>1 DEF BookOK
    <3> HIDE DEF l
    <3>3. CASE Cheaper(metadex[l], metadex[i])
      <4>1. ASSUME NEW j \in T \ {l} PROVE Cheaper(metadex[l], metadex[j])
        <5>1. CASE j = i
          BY <3>3, <5>1
        <5>2. CASE j # i
          <6>1. Cheaper(metadex[i], metadex[j]) \/ SamePrice(metadex[i], metadex[j])
            BY <3>1, <5>2 DEF First, Before
          <6> QED
            BY <2>4, <3>2, <3>3, <6>1, CheaperTransitive, Zenon
        <5> QED
          BY <5>1, <5>2
      <4> QED
        BY <2>4, <4>1 DEF First, Before
    <3>4. CASE ~Cheaper(metadex[l], metadex[i])
      <4>1. Before(i, l)
        BY <2>4, <3>2, <3>4, CheaperTotal, Zenon DEF Before
      <4> QED
        BY <3>1, <3>2, <4>1 DEF First
    <3> QED
      BY <3>3, <3>4
  <2> QED
    BY <2>2, <2>3, <2>4
<1> HIDE DEF S
<1>3. MaxOrders \in S
  BY <1>1, <1>2, SetInduction, MetaDExAssumption, Zenon
<1>4. \E i \in ids : First(i, ids)
  BY <1>3 DEF S, BookOK
<1> QED
  BY <1>4 DEF Best, First, Before

(* A new order has a place after those of the book. *)
LEMMA PlaceIsNew ==
  ASSUME BookOK(metadex), MaxOrders \notin DOMAIN metadex
  PROVE  Place \in 1 .. MaxOrders /\ Place \notin DOMAIN metadex
<1>1. MaxOrders \in 1 .. MaxOrders /\ \A i \in DOMAIN metadex : i < MaxOrders
  BY MetaDExAssumption DEF BookOK
<1>2. Place \in 1 .. MaxOrders /\ \A i \in DOMAIN metadex : i < Place
  BY <1>1 DEF Place
<1> QED
  BY <1>2

-----------------------------------------------------------------------------
(* Changes of the book *)

(* The rest of an order goes to the book. *)
LEMMA PutOK ==
  ASSUME NEW book, BookOK(book), NEW k \in 1 .. MaxOrders, k \notin DOMAIN book,
         NEW o \in Order, o.remaining > 0, AtLimit(o)
  PROVE  /\ BookOK(Put(book, k, o))
         /\ \A a \in Addr, p \in Prop :
              Held(Put(book, k, o), DOMAIN Put(book, k, o), a, p) =
                Held(book, DOMAIN book, a, p)
                  + (IF a = o.addr /\ p = o.property THEN o.remaining ELSE 0)
<1> DEFINE next == Put(book, k, o)
<1>1. /\ DOMAIN next = DOMAIN book \cup {k}
      /\ next[k] = o /\ \A i \in DOMAIN book : next[i] = book[i]
      /\ next \in [DOMAIN next -> Order]
  BY DEF Put, BookOK
<1> HIDE DEF next
<1>2. BookOK(next)
  BY <1>1 DEF BookOK
<1>3. ASSUME NEW a \in Addr, NEW p \in Prop
      PROVE  Held(next, DOMAIN next, a, p) =
               Held(book, DOMAIN book, a, p)
                 + (IF a = o.addr /\ p = o.property THEN o.remaining ELSE 0)
  <2>1. \A i \in 1 .. MaxOrders : i # k =>
           OwnRest(next, DOMAIN next, a, p, i) = OwnRest(book, DOMAIN book, a, p, i)
    BY <1>1 DEF OwnRest
  <2>2. OwnRest(book, DOMAIN book, a, p, k) = 0
    BY DEF OwnRest
  <2>3. OwnRest(next, DOMAIN next, a, p, k) =
          IF a = o.addr /\ p = o.property THEN o.remaining ELSE 0
    BY <1>1 DEF OwnRest
  <2>4. Held(next, DOMAIN next, a, p) =
           Held(book, DOMAIN book, a, p) - OwnRest(book, DOMAIN book, a, p, k)
                                         + OwnRest(next, DOMAIN next, a, p, k)
    BY <1>2, <2>1, HeldUpdate
  <2>5. Held(book, DOMAIN book, a, p) \in Nat
    BY BookHeldType
  <2>6. o.remaining \in Nat
    BY DEF Order
  <2> QED
    BY <2>2, <2>3, <2>4, <2>5, <2>6
<1> QED
  BY <1>2, <1>3 DEF next

(* The order of the book that sold n units for pay. *)
Sold(o, n, pay) == [o EXCEPT !.remaining = @ - n, !.got = @ + pay]

LEMMA SoldOK ==
  ASSUME NEW o \in Order, AtLimit(o), NEW n \in 1 .. o.remaining, NEW pay \in Nat,
         pay * o.forsale >= o.desired * n
  PROVE  /\ Sold(o, n, pay) \in Order
         /\ AtLimit(Sold(o, n, pay))
         /\ Sold(o, n, pay).remaining = o.remaining - n
         /\ Sold(o, n, pay).addr = o.addr
         /\ Sold(o, n, pay).property = o.property
         /\ Sold(o, n, pay).desProperty = o.desProperty
         /\ Sold(o, n, pay).forsale = o.forsale
         /\ Sold(o, n, pay).desired = o.desired
<1> DEFINE s == Sold(o, n, pay)
<1>1. /\ o.remaining \in Nat /\ o.got \in Nat /\ o.forsale \in Nat /\ o.desired \in Nat /\ n \in Nat
  BY DEF Order
<1>2. /\ s \in Order
      /\ s.remaining = o.remaining - n /\ s.got = o.got + pay
      /\ s.addr = o.addr /\ s.property = o.property /\ s.desProperty = o.desProperty
      /\ s.forsale = o.forsale /\ s.desired = o.desired
  <2>1. s = [addr |-> o.addr, property |-> o.property, forsale |-> o.forsale,
             desProperty |-> o.desProperty, desired |-> o.desired,
             remaining |-> o.remaining - n, got |-> o.got + pay]
    <3> DEFINE u == [o EXCEPT !.remaining = @ - n]
    <3>1. o = [addr |-> o.addr, property |-> o.property, forsale |-> o.forsale,
               desProperty |-> o.desProperty, desired |-> o.desired,
               remaining |-> o.remaining, got |-> o.got]
      BY DEF Order
    <3>2. u = [addr |-> o.addr, property |-> o.property, forsale |-> o.forsale,
               desProperty |-> o.desProperty, desired |-> o.desired,
               remaining |-> o.remaining - n, got |-> o.got]
      BY <3>1
    <3>3. s = [u EXCEPT !.got = @ + pay]
      BY DEF Sold
    <3> HIDE DEF u
    <3> QED
      BY <3>2, <3>3
  <2>2. o.remaining - n \in Nat /\ o.got + pay \in Nat
    BY <1>1
  <2>3. /\ o.addr \in Addr /\ o.property \in Prop /\ o.desProperty \in Prop
        /\ o.forsale \in Nat \ {0} /\ o.desired \in Nat \ {0}
    BY DEF Order
  <2> HIDE DEF s
  <2> QED
    BY <2>1, <2>2, <2>3, Zenon DEF Order
<1> HIDE DEF s
<1>3. o.desired * n = n * o.desired
  BY <1>1
<1>4. (o.got + pay) * o.forsale >= (o.forsale - (o.remaining - n)) * o.desired
  BY <1>1, <1>3, LimitKept DEF AtLimit
<1>5. AtLimit(s)
  BY <1>2, <1>4 DEF AtLimit
<1> QED
  BY <1>2, <1>5 DEF s

(* The book next is book after a trade of n units of its order i. *)
AfterTrade(next, book, i, n) ==
    /\ BookOK(next)
    /\ DOMAIN next \subseteq DOMAIN book
    /\ DOMAIN book \ {i} \subseteq DOMAIN next
    /\ \A j \in DOMAIN book \ {i} : next[j] = book[j]
    /\ \A j \in DOMAIN next : next[j].property = book[j].property
    /\ \A a \in Addr, p \in Prop :
         Held(next, DOMAIN next, a, p) =
           Held(book, DOMAIN book, a, p)
             - (IF a = book[i].addr /\ p = book[i].property THEN n ELSE 0)

LEMMA ReplacedOK ==
  ASSUME NEW book, BookOK(book), NEW i \in DOMAIN book, NEW n \in 1 .. book[i].remaining,
         NEW pay \in Nat, pay * book[i].forsale >= book[i].desired * n
  PROVE  AfterTrade(Replaced(book, i, n, pay), book, i, n)
<1> DEFINE next == Replaced(book, i, n, pay)
           o == book[i]
           s == Sold(o, n, pay)
<1>1. o \in Order /\ AtLimit(o) /\ o.remaining \in Nat /\ i \in 1 .. MaxOrders /\ n \in Nat
  BY DEF BookOK, Order
<1>2. /\ s \in Order /\ AtLimit(s) /\ s.remaining = o.remaining - n
      /\ s.addr = o.addr /\ s.property = o.property
  BY <1>1, SoldOK, Zenon
<1>3. CASE o.remaining > n
  <2>1. /\ DOMAIN next = DOMAIN book /\ next[i] = s
        /\ \A j \in DOMAIN book \ {i} : next[j] = book[j]
        /\ next = [j \in DOMAIN book |-> next[j]]
    BY <1>1, <1>3, Zenon DEF Replaced, Sold, BookOK
  <2> HIDE DEF next, s
  <2>2. BookOK(next)
    <3>1. \A j \in DOMAIN book : next[j] \in Order /\ next[j].remaining > 0 /\ AtLimit(next[j])
      BY <1>1, <1>2, <1>3, <2>1 DEF BookOK
    <3> QED
      BY <2>1, <3>1 DEF BookOK
  <2>3. ASSUME NEW a \in Addr, NEW p \in Prop
        PROVE  Held(next, DOMAIN next, a, p) =
                 Held(book, DOMAIN book, a, p) - (IF a = o.addr /\ p = o.property THEN n ELSE 0)
    <3>1. \A j \in 1 .. MaxOrders : j # i =>
             OwnRest(next, DOMAIN next, a, p, j) = OwnRest(book, DOMAIN book, a, p, j)
      BY <2>1 DEF OwnRest
    <3>2. Held(next, DOMAIN next, a, p) =
             Held(book, DOMAIN book, a, p) - OwnRest(book, DOMAIN book, a, p, i)
                                           + OwnRest(next, DOMAIN next, a, p, i)
      BY <1>1, <2>2, <3>1, HeldUpdate
    <3>3. /\ OwnRest(book, DOMAIN book, a, p, i) =
               IF a = o.addr /\ p = o.property THEN o.remaining ELSE 0
          /\ OwnRest(next, DOMAIN next, a, p, i) =
               IF a = o.addr /\ p = o.property THEN o.remaining - n ELSE 0
      BY <1>2, <2>1 DEF OwnRest
    <3>4. Held(book, DOMAIN book, a, p) \in Nat
      BY BookHeldType
    <3> QED
      BY <1>1, <3>2, <3>3, <3>4
  <2> QED
    BY <1>2, <2>1, <2>2, <2>3, Zenon DEF next, AfterTrade
<1>4. CASE ~(o.remaining > n)
  <2>0. n = o.remaining
    BY <1>1, <1>4
  <2>1. next = Erase(book, {i})
    BY <1>4 DEF Replaced
  <2>2. /\ DOMAIN next = DOMAIN book \ {i}
        /\ \A j \in DOMAIN book \ {i} : next[j] = book[j]
    BY <2>1 DEF Erase
  <2>3. BookOK(next)
    BY <2>1, HeldErase
  <2> HIDE DEF next
  <2>4. ASSUME NEW a \in Addr, NEW p \in Prop
        PROVE  Held(next, DOMAIN next, a, p) =
                 Held(book, DOMAIN book, a, p) - (IF a = o.addr /\ p = o.property THEN n ELSE 0)
    <3>1. \A j \in 1 .. MaxOrders : j # i =>
             OwnRest(next, DOMAIN next, a, p, j) = OwnRest(book, DOMAIN book, a, p, j)
      BY <2>2 DEF OwnRest
    <3>2. Held(next, DOMAIN next, a, p) =
             Held(book, DOMAIN book, a, p) - OwnRest(book, DOMAIN book, a, p, i)
                                           + OwnRest(next, DOMAIN next, a, p, i)
      BY <1>1, <2>3, <3>1, HeldUpdate
    <3>3. /\ OwnRest(book, DOMAIN book, a, p, i) =
               IF a = o.addr /\ p = o.property THEN n ELSE 0
          /\ OwnRest(next, DOMAIN next, a, p, i) = 0
      BY <2>0, <2>2 DEF OwnRest
    <3>4. Held(book, DOMAIN book, a, p) \in Nat
      BY BookHeldType
    <3> QED
      BY <1>1, <3>2, <3>3, <3>4
  <2> QED
    BY <2>2, <2>3, <2>4, Zenon DEF next, AfterTrade
<1> QED
  BY <1>3, <1>4, Zenon

-----------------------------------------------------------------------------
(* The ledger of the exchange *)

(* The ledger is one of the exchange, within the range of an int64_t. *)
LedgerOK(t) ==
    /\ t \in Ledger
    /\ \A p \in Prop : Supply(t, p, TallyType) <= MaxInt

Own(t, a, p) == t[a][p]["BALANCE"] + t[a][p]["METADEX_RESERVE"]

LEMMA Finite == IsFiniteSet(Addr) /\ IsFiniteSet(TallyType)
<1>1. TallyType = {"BALANCE"} \cup {"METADEX_RESERVE"}
  BY MetaDExAssumption DEF MetaDExTypes
<1>2. IsFiniteSet({"BALANCE"}) /\ IsFiniteSet({"METADEX_RESERVE"})
  BY FS_Singleton
<1>3. IsFiniteSet({"BALANCE"} \cup {"METADEX_RESERVE"})
  BY <1>2, FS_Union, Zenon
<1> QED
  BY <1>1, <1>3, MetaDExAssumption

LEMMA TwoTypes ==
  ASSUME NEW t \in Ledger
  PROVE  /\ "BALANCE" \in TallyType /\ "METADEX_RESERVE" \in TallyType
         /\ \A a \in Addr, p \in Prop : /\ t[a][p]["BALANCE"] \in Nat
                                         /\ t[a][p]["METADEX_RESERVE"] \in Nat
                                         /\ Own(t, a, p) \in Nat
<1>1. "BALANCE" \in TallyType /\ "METADEX_RESERVE" \in TallyType
  BY MetaDExAssumption DEF MetaDExTypes
<1> QED
  BY <1>1 DEF Ledger, Own

(* The supply of a property is what the addresses own of it. *)
LEMMA SupplyIsOwned ==
  ASSUME NEW t \in Ledger, NEW p \in Prop
  PROVE  Supply(t, p, TallyType) = SumOf([a \in Addr |-> Own(t, a, p)])
<1> DEFINE B == {"BALANCE"}
           f == [a \in Addr |-> t[a][p]["BALANCE"]]
           g == [a \in Addr |-> t[a][p]["METADEX_RESERVE"]]
<1>1. /\ TallyType = B \cup {"METADEX_RESERVE"} /\ B \in SUBSET TallyType
      /\ "METADEX_RESERVE" \in TallyType \ B /\ IsFiniteSet(B)
  BY MetaDExAssumption, FS_Singleton, Zenon DEF MetaDExTypes
<1>2. f \in [Addr -> Nat] /\ g \in [Addr -> Nat]
  BY TwoTypes
<1>3. [a \in Addr |-> f[a] + g[a]] = [a \in Addr |-> Own(t, a, p)]
  BY DEF Own
<1>4. Supply(t, p, B) = SumOf(f)
  BY <1>1, Finite, SupplyOne, TwoTypes, Zenon
<1> HIDE DEF B
<1>5. Supply(t, p, TallyType) = Supply(t, p, B) + SumOf(g)
  BY <1>1, Finite, SupplyAdd
<1> HIDE DEF f, g
<1>6. SumOf([a \in Addr |-> f[a] + g[a]]) = SumOf(f) + SumOf(g)
  BY <1>2, Finite, SumOfPlus
<1> QED
  BY <1>3, <1>4, <1>5, <1>6, Zenon

(* Where everybody owns the same the supply is the same. *)
LEMMA SameOwnedOK ==
  ASSUME NEW t, LedgerOK(t), NEW u \in Ledger,
         \A a \in Addr, p \in Prop : Own(u, a, p) = Own(t, a, p)
  PROVE  LedgerOK(u)
<1> SUFFICES ASSUME NEW p \in Prop PROVE Supply(u, p, TallyType) <= MaxInt
  BY DEF LedgerOK
<1>1. [a \in Addr |-> Own(t, a, p)] = [a \in Addr |-> Own(u, a, p)]
  OBVIOUS
<1>2. t \in Ledger /\ Supply(t, p, TallyType) <= MaxInt
  BY DEF LedgerOK
<1> QED
  BY <1>1, <1>2, SupplyIsOwned, Zenon

(* A transfer that is there keeps the ledger in range. *)
LEMMA MovedOK ==
  ASSUME NEW t, LedgerOK(t), NEW from \in Addr, NEW to \in Addr, NEW p \in Prop,
         NEW tf \in TallyType, NEW tt \in TallyType, NEW n \in 1 .. t[from][p][tf],
         tf = "BALANCE" => ~isAddressFrozen(from, p)
  PROVE  /\ Movable(t, p, n, from, tf, to, tt)
         /\ LedgerOK(Moved(t, p, n, from, tf, to, tt))
<1>1. t \in Ledger /\ Supply(t, p, TallyType) <= MaxInt
  BY DEF LedgerOK
<1>2. t[from][p][tf] \in Nat /\ n \in 0 .. t[from][p][tf]
  BY <1>1 DEF Ledger
<1>3. Movable(t, p, n, from, tf, to, tt)
  BY <1>1, Finite, MoveFits, Zenon
<1>4. /\ Moved(t, p, n, from, tf, to, tt) \in Ledger
      /\ \A q \in Prop :
           Supply(Moved(t, p, n, from, tf, to, tt), q, TallyType) = Supply(t, q, TallyType)
  BY <1>1, <1>2, Finite, MovedSupply
<1> QED
  BY <1>3, <1>4, Zenon DEF LedgerOK

-----------------------------------------------------------------------------
(* Removing orders *)

LEMMA HeldByIsHeld ==
  /\ \A ids, a, p : HeldBy(ids, a, p) = Held(metadex, ids, a, p)
  /\ ReserveIsBook <=> \A a \in Addr, p \in Prop :
         tally[a][p]["METADEX_RESERVE"] = Held(metadex, DOMAIN metadex, a, p)
  /\ ReserveIsBook' <=> \A a \in Addr, p \in Prop :
         tally'[a][p]["METADEX_RESERVE"] = Held(metadex', DOMAIN metadex', a, p)
BY DEF HeldBy, Held, ReserveIsBook

(* Whatever orders are removed, their tokens are in the reserve, and what  *)
(* is left in the reserve is what the other orders hold.                   *)
LEMMA RefundOK ==
  ASSUME LedgerOK(tally), BookOK(metadex), ReserveIsBook, NEW ids, ids \subseteq DOMAIN metadex
  PROVE  /\ Refundable(ids)
         /\ LedgerOK(Refunded(ids))
         /\ BookOK(Erase(metadex, ids))
         /\ \A a \in Addr, p \in Prop :
              /\ Refunded(ids)[a][p]["METADEX_RESERVE"] =
                   Held(Erase(metadex, ids), DOMAIN Erase(metadex, ids), a, p)
              /\ Own(Refunded(ids), a, p) = Own(tally, a, p)
<1> DEFINE H(a, p) == Held(metadex, ids, a, p)
           kept == Erase(metadex, ids)
           K(a, p) == Held(kept, DOMAIN kept, a, p)
<1>0. LedgerOK(tally) /\ tally \in Ledger /\ BookOK(metadex) /\ ReserveIsBook
  BY DEF LedgerOK
<1>1. BookOK(kept)
  BY <1>0, HeldErase
<1>2. \A a \in Addr, p \in Prop :
        /\ H(a, p) \in Nat /\ K(a, p) \in Nat
        /\ tally[a][p]["METADEX_RESERVE"] = H(a, p) + K(a, p)
        /\ HeldBy(ids, a, p) = H(a, p)
  <2> SUFFICES ASSUME NEW a \in Addr, NEW p \in Prop
               PROVE  /\ H(a, p) \in Nat /\ K(a, p) \in Nat
                      /\ tally[a][p]["METADEX_RESERVE"] = H(a, p) + K(a, p)
                      /\ HeldBy(ids, a, p) = H(a, p)
    OBVIOUS
  <2>1. H(a, p) \in Nat
    BY <1>0, HeldIsRest
  <2>2. K(a, p) \in Nat
    BY <1>1, BookHeldType
  <2>3. Held(metadex, DOMAIN metadex, a, p) = H(a, p) + K(a, p)
    BY <1>0, HeldErase
  <2>4. tally[a][p]["METADEX_RESERVE"] = Held(metadex, DOMAIN metadex, a, p)
    BY <1>0, HeldByIsHeld, Zenon
  <2> QED
    BY <2>1, <2>2, <2>3, <2>4, HeldByIsHeld, Zenon
<1> HIDE DEF H, K
<1>3. /\ Refunded(ids) \in Ledger
      /\ \A a \in Addr, p \in Prop :
           /\ Refunded(ids)[a][p]["METADEX_RESERVE"] = K(a, p)
           /\ Refunded(ids)[a][p]["BALANCE"] = tally[a][p]["BALANCE"] + H(a, p)
  <2>1. \A a \in Addr, p \in Prop, tt \in TallyType :
          Refunded(ids)[a][p][tt] = IF tt = "BALANCE" THEN tally[a][p][tt] + H(a, p)
                                    ELSE tally[a][p][tt] - H(a, p)
    BY <1>2, Zenon DEF Refunded
  <2>2. \A tt \in TallyType : tt = "BALANCE" \/ tt = "METADEX_RESERVE"
    BY MetaDExAssumption DEF MetaDExTypes
  <2>3. \A a \in Addr, p \in Prop :
           /\ Refunded(ids)[a][p]["METADEX_RESERVE"] = K(a, p)
           /\ Refunded(ids)[a][p]["BALANCE"] = tally[a][p]["BALANCE"] + H(a, p)
    BY <1>0, <1>2, <2>1, TwoTypes
  <2>4. \A a \in Addr, p \in Prop, tt \in TallyType : Refunded(ids)[a][p][tt] \in Nat
    <3> SUFFICES ASSUME NEW a \in Addr, NEW p \in Prop, NEW tt \in TallyType
                 PROVE  Refunded(ids)[a][p][tt] \in Nat
      OBVIOUS
    <3>1. CASE tt = "BALANCE"
      BY <1>0, <1>2, <2>3, <3>1, TwoTypes
    <3>2. CASE tt = "METADEX_RESERVE"
      BY <1>2, <2>3, <3>2, Zenon
    <3> QED
      BY <2>2, <3>1, <3>2, Zenon
  <2>5. Refunded(ids) = [a \in Addr |-> [p \in Prop |-> [tt \in TallyType |->
                             Refunded(ids)[a][p][tt]]]]
    BY ZenonT(30) DEF Refunded
  <2> QED
    BY <2>3, <2>4, <2>5 DEF Ledger
<1>4. \A a \in Addr, p \in Prop : Own(Refunded(ids), a, p) = Own(tally, a, p)
  BY <1>0, <1>2, <1>3, TwoTypes DEF Own
<1>5. LedgerOK(Refunded(ids))
  BY <1>0, <1>3, <1>4, SameOwnedOK, Zenon
<1>6. Refundable(ids)
  <2> SUFFICES ASSUME NEW i \in ids
               PROVE  Movable(tally, metadex[i].property,
                              HeldBy(ids, metadex[i].addr, metadex[i].property),
                              metadex[i].addr, "METADEX_RESERVE", metadex[i].addr, "BALANCE")
    BY DEF Refundable
  <2>1. PICK a \in Addr, p \in Prop : a = metadex[i].addr /\ p = metadex[i].property
    BY <1>0 DEF BookOK, Order
  <2>2. H(a, p) >= 1
    <3>1. metadex[i].remaining \in Nat /\ metadex[i].remaining > 0
      BY <1>0 DEF BookOK, Order
    <3>2. metadex[i].remaining <= H(a, p)
      BY <1>0, <2>1, HeldAtLeast, Zenon DEF H
    <3> QED
      BY <1>2, <3>1, <3>2
  <2>3. H(a, p) \in 1 .. tally[a][p]["METADEX_RESERVE"]
    BY <1>2, <2>2
  <2>4. Movable(tally, p, H(a, p), a, "METADEX_RESERVE", a, "BALANCE")
    BY <1>0, <2>3, MovedOK, TwoTypes, Zenon
  <2> QED
    BY <1>2, <2>1, <2>4, Zenon
<1> QED
  BY <1>1, <1>3, <1>4, <1>5, <1>6, Zenon DEF K

LEMMA EmptyBook ==
  ASSUME NEW book
  PROVE  Erase(book, DOMAIN book) = << >>
BY DEF Erase

-----------------------------------------------------------------------------
(* One trade in the ledger *)

(* What a trade changes in one entry: n units of q for pay units of p. *)
Change(a, r, buyer, seller, p, q, n, pay) ==
    (IF a = buyer /\ r = q THEN n ELSE 0) - (IF a = seller /\ r = q THEN n ELSE 0)
      + (IF a = seller /\ r = p THEN pay ELSE 0) - (IF a = buyer /\ r = p THEN pay ELSE 0)

(* The ledger v is t after a trade: the reserve of the seller falls by     *)
(* what is sold, the buyer keeps all of p but pay, and the two have        *)
(* swapped.                                                                *)
Swapped(v, t, buyer, seller, p, q, n, pay) ==
    /\ \A a \in Addr, r \in Prop :
         v[a][r]["METADEX_RESERVE"] =
           t[a][r]["METADEX_RESERVE"] - (IF a = seller /\ r = q THEN n ELSE 0)
    /\ t[buyer][p]["BALANCE"] - pay <= v[buyer][p]["BALANCE"]
    /\ \A a \in Addr, r \in Prop :
         Own(v, a, r) = Own(t, a, r) + Change(a, r, buyer, seller, p, q, n, pay)

LEMMA SwappedEntries ==
  ASSUME NEW t \in Ledger, NEW u \in Ledger, NEW v \in Ledger,
         NEW b \in Addr, NEW s \in Addr, NEW p \in Prop, NEW q \in Prop, p # q,
         NEW n \in Nat, NEW pay \in Nat,
         EntriesMoved(u, t, p, pay, b, "BALANCE", s, "BALANCE"),
         EntriesMoved(v, u, q, n, s, "METADEX_RESERVE", b, "BALANCE")
  PROVE  Swapped(v, t, b, s, p, q, n, pay)
<1>1. ASSUME NEW a \in Addr, NEW r \in Prop
      PROVE  /\ v[a][r]["METADEX_RESERVE"] =
                  t[a][r]["METADEX_RESERVE"] - (IF a = s /\ r = q THEN n ELSE 0)
             /\ v[a][r]["BALANCE"] =
                  t[a][r]["BALANCE"] - (IF a = b /\ r = p THEN pay ELSE 0)
                                     + (IF a = s /\ r = p THEN pay ELSE 0)
                                     + (IF a = b /\ r = q THEN n ELSE 0)
             /\ t[a][r]["BALANCE"] \in Nat /\ t[a][r]["METADEX_RESERVE"] \in Nat
  <2>0. "BALANCE" \in TallyType /\ "METADEX_RESERVE" \in TallyType
    BY TwoTypes
  <2>1. /\ t[a][r]["BALANCE"] \in Nat /\ t[a][r]["METADEX_RESERVE"] \in Nat
        /\ u[a][r]["BALANCE"] \in Nat /\ u[a][r]["METADEX_RESERVE"] \in Nat
    BY TwoTypes, Zenon
  <2>2. /\ u[a][r]["METADEX_RESERVE"] = t[a][r]["METADEX_RESERVE"]
        /\ u[a][r]["BALANCE"] = t[a][r]["BALANCE"] - (IF a = b /\ r = p THEN pay ELSE 0)
                                                   + (IF a = s /\ r = p THEN pay ELSE 0)
    BY <2>0, <2>1 DEF EntriesMoved, Share
  <2>3. /\ v[a][r]["METADEX_RESERVE"] =
             u[a][r]["METADEX_RESERVE"] - (IF a = s /\ r = q THEN n ELSE 0)
        /\ v[a][r]["BALANCE"] = u[a][r]["BALANCE"] + (IF a = b /\ r = q THEN n ELSE 0)
    BY <2>0, <2>1 DEF EntriesMoved, Share
  <2> QED
    BY <2>1, <2>2, <2>3, Zenon
<1>2. t[b][p]["BALANCE"] - pay <= v[b][p]["BALANCE"]
  BY <1>1
<1>3. ASSUME NEW a \in Addr, NEW r \in Prop
      PROVE  Own(v, a, r) = Own(t, a, r) + Change(a, r, b, s, p, q, n, pay)
  BY <1>1 DEF Own, Change
<1> QED
  BY <1>1, <1>2, <1>3, Zenon DEF Swapped

(* The asserts of a trade hold if both sides have what they give. *)
LEMMA SettledOK ==
  ASSUME NEW t, LedgerOK(t), NEW new \in Order, NEW old \in Order,
         new.property # old.property,
         NEW n \in 1 .. t[old.addr][old.property]["METADEX_RESERVE"],
         NEW pay \in 1 .. t[new.addr][new.property]["BALANCE"],
         ~isAddressFrozen(new.addr, new.property)
  PROVE  /\ Settleable(t, new, old, n, pay)
         /\ LedgerOK(Settled(t, new, old, n, pay))
         /\ Swapped(Settled(t, new, old, n, pay), t, new.addr, old.addr,
                    new.property, old.property, n, pay)
<1>0. PICK b \in Addr, s \in Addr, p \in Prop, q \in Prop :
        b = new.addr /\ s = old.addr /\ p = new.property /\ q = old.property
  BY DEF Order
<1> DEFINE u == Paid(t, new, old, pay)
           v == Settled(t, new, old, n, pay)
<1>1. /\ t \in Ledger /\ "BALANCE" \in TallyType /\ "METADEX_RESERVE" \in TallyType
  BY TwoTypes, Zenon DEF LedgerOK
<1>2. /\ n \in Int /\ pay \in Int /\ n \in Nat /\ pay \in Nat
  BY <1>0, <1>1, TwoTypes
<1>3. u = Moved(t, p, pay, b, "BALANCE", s, "BALANCE")
  BY <1>0, Zenon DEF Paid
<1>4. v = Moved(u, q, n, s, "METADEX_RESERVE", b, "BALANCE")
  BY <1>0, Zenon DEF Settled
<1>5. Movable(t, p, pay, b, "BALANCE", s, "BALANCE") /\ LedgerOK(u)
  BY <1>0, <1>1, <1>3, MovedOK
<1> HIDE DEF u, v
<1>6. EntriesMoved(u, t, p, pay, b, "BALANCE", s, "BALANCE") /\ u \in Ledger
  BY <1>1, <1>2, <1>3, <1>5, MovedValue, Zenon DEF LedgerOK
<1>7. u[s][q]["METADEX_RESERVE"] = t[s][q]["METADEX_RESERVE"]
  BY <1>1, <1>2, <1>6, TwoTypes DEF EntriesMoved, Share
<1>8. n \in 1 .. u[s][q]["METADEX_RESERVE"]
  BY <1>0, <1>7, Zenon
<1>9. Movable(u, q, n, s, "METADEX_RESERVE", b, "BALANCE") /\ LedgerOK(v)
  BY <1>1, <1>4, <1>5, <1>8, MovedOK, Zenon
<1>10. EntriesMoved(v, u, q, n, s, "METADEX_RESERVE", b, "BALANCE") /\ v \in Ledger
  BY <1>1, <1>2, <1>4, <1>6, <1>9, MovedValue, Zenon DEF LedgerOK
<1>11. Swapped(v, t, b, s, p, q, n, pay)
  BY <1>0, <1>1, <1>2, <1>6, <1>10, SwappedEntries, Zenon
<1>12. Settleable(t, new, old, n, pay)
  BY <1>0, <1>5, <1>9, Zenon DEF Settleable, u
<1> QED
  BY <1>0, <1>9, <1>11, <1>12, Zenon DEF v

(* A trade is a swap of the promise. *)
LEMMA TradeSwaps ==
  ASSUME tally \in Ledger, NEW b \in Addr, NEW s \in Addr, NEW p \in Prop, NEW q \in Prop,
         p # q, NEW n \in 1 .. tally[s][q]["METADEX_RESERVE"],
         NEW pay \in 1 .. tally[b][p]["BALANCE"],
         Swapped(tally', tally, b, s, p, q, n, pay)
  PROVE  TheExchange!Next
<1>1. \A a \in Addr, r \in Prop :
         /\ Holdings[a][r] = Own(tally, a, r) /\ Own(tally, a, r) \in Nat
         /\ Holdings'[a][r] = Own(tally', a, r)
  BY TwoTypes, Zenon DEF Holdings, Own
<1>2. /\ tally[s][q]["METADEX_RESERVE"] \in Nat /\ tally[s][q]["BALANCE"] \in Nat
      /\ tally[b][p]["METADEX_RESERVE"] \in Nat /\ tally[b][p]["BALANCE"] \in Nat
  BY TwoTypes, Zenon
<1>3. n \in Nat /\ pay \in Nat /\ n \in 1 .. Holdings[s][q] /\ pay \in 1 .. Holdings[b][p]
  BY <1>1, <1>2 DEF Own
<1>4. \A a \in Addr, r \in Prop :
        Holdings'[a][r] = Holdings[a][r]
           + (IF a = b /\ r = q THEN n ELSE 0)
           - (IF a = s /\ r = q THEN n ELSE 0)
           + (IF a = s /\ r = p THEN pay ELSE 0)
           - (IF a = b /\ r = p THEN pay ELSE 0)
  <2> SUFFICES ASSUME NEW a \in Addr, NEW r \in Prop
               PROVE  Holdings'[a][r] = Holdings[a][r]
                        + (IF a = b /\ r = q THEN n ELSE 0)
                        - (IF a = s /\ r = q THEN n ELSE 0)
                        + (IF a = s /\ r = p THEN pay ELSE 0)
                        - (IF a = b /\ r = p THEN pay ELSE 0)
    OBVIOUS
  <2>1. Own(tally', a, r) = Own(tally, a, r) + Change(a, r, b, s, p, q, n, pay)
    BY DEF Swapped
  <2> QED
    BY <1>1, <1>3, <2>1 DEF Change
<1>5. Holdings' = [a \in Addr |-> [r \in Prop |-> Holdings'[a][r]]]
  BY DEF Holdings
<1>6. Holdings' = [a \in Addr |-> [r \in Prop |-> Holdings[a][r]
           + (IF a = b /\ r = q THEN n ELSE 0)
           - (IF a = s /\ r = q THEN n ELSE 0)
           + (IF a = s /\ r = p THEN pay ELSE 0)
           - (IF a = b /\ r = p THEN pay ELSE 0)]]
  BY <1>4, <1>5, Zenon
<1>7. TheExchange!Swap(b, s, p, q, n, pay)
  BY <1>1, <1>3, <1>6 DEF TheExchange!Swap
<1> QED
  BY <1>3, <1>7, Zenon DEF TheExchange!Next


-----------------------------------------------------------------------------
(* The inductive invariant *)

(* The order i of the book is one the loops of x_Trade may trade with new. *)
Matches(new, old) ==
    /\ old.property = new.desProperty
    /\ old.desProperty = new.property
    /\ PriceMet(new, old)

(* While an order is matched its owner has what is left of it, unfrozen.   *)
MatchOK ==
    ~Idle => /\ pnew \in Order
             /\ AtLimit(pnew)
             /\ pnew.property # pnew.desProperty
             /\ pnew.remaining <= tally[pnew.addr][pnew.property]["BALANCE"]
             /\ ~isAddressFrozen(pnew.addr, pnew.property)
             /\ "METADEX" \notin live => isTestEcosystemProperty(pnew.property)
             /\ MaxOrders \notin DOMAIN metadex
             /\ todo \subseteq DOMAIN metadex
             /\ \A i \in todo : Matches(pnew, metadex[i])

MetaDExInv ==
    /\ LedgerOK(tally)
    /\ BookOK(metadex)
    /\ MatchOK
    /\ ReserveIsBook
    /\ NoOrderLockedIn
    /\ NeverAsserts

-----------------------------------------------------------------------------
(* Steps that remove orders, and steps that do not touch the book *)

(* Idle steps: nothing is being matched before or after. *)
LEMMA CancelOK ==
  ASSUME MetaDExInv, Idle, NEW ids, ids \subseteq DOMAIN metadex,
         tally' = Refunded(ids), metadex' = Erase(metadex, ids),
         halted' = halted, pnew' = pnew,
         \/ live' = live
         \/ metadex' = << >>
         \/ "METADEX" \in live' <=> "METADEX" \in live
  PROVE  MetaDExInv' /\ Holdings' = Holdings
<1>1. /\ LedgerOK(tally') /\ BookOK(metadex')
      /\ \A a \in Addr, p \in Prop :
           /\ tally'[a][p]["METADEX_RESERVE"] = Held(metadex', DOMAIN metadex', a, p)
           /\ Own(tally', a, p) = Own(tally, a, p)
  BY RefundOK, Zenon DEF MetaDExInv
<1>2. LedgerOK(tally)' /\ BookOK(metadex)'
  BY <1>1, Zenon DEF LedgerOK, BookOK, Supply, Ledger, AtLimit, Order
<1>3. ReserveIsBook'
  BY <1>1, HeldByIsHeld, Zenon
<1>4. MatchOK'
  BY DEF MatchOK, Idle
<1>5. NoOrderLockedIn'
  <2>1. \A i \in DOMAIN metadex' : i \in DOMAIN metadex /\ metadex'[i] = metadex[i]
    BY DEF Erase
  <2>2. CASE metadex' = << >>
    BY <2>2 DEF NoOrderLockedIn
  <2>3. CASE "METADEX" \in live' <=> "METADEX" \in live
    BY <2>1, <2>3 DEF NoOrderLockedIn, MetaDExInv
  <2> QED
    BY <2>2, <2>3
<1>6. NeverAsserts'
  BY DEF NeverAsserts, MetaDExInv
<1>7. Holdings' = Holdings
  BY <1>1, Zenon DEF Holdings, Own
<1> QED
  BY <1>2, <1>3, <1>4, <1>5, <1>6, <1>7, Zenon DEF MetaDExInv

(* What an idle step that leaves ledger and book alone has to respect. *)
LEMMA QuietOK ==
  ASSUME MetaDExInv, Idle, pnew' = pnew, tally' = tally, metadex' = metadex,
         halted' # "assert",
         "METADEX" \in live => "METADEX" \in live'
  PROVE  MetaDExInv' /\ Holdings' = Holdings
<1>1. LedgerOK(tally)' /\ BookOK(metadex)'
  BY Zenon DEF MetaDExInv, LedgerOK, BookOK, Supply, Ledger, AtLimit, Order
<1>2. ReserveIsBook'
  BY HeldByIsHeld DEF MetaDExInv
<1>3. MatchOK' /\ NeverAsserts'
  BY DEF MatchOK, Idle, NeverAsserts
<1>4. NoOrderLockedIn'
  BY DEF NoOrderLockedIn, MetaDExInv
<1> QED
  BY <1>1, <1>2, <1>3, <1>4, Zenon DEF MetaDExInv, Holdings

LEMMA DeactivationOK ==
  ASSUME MetaDExInv, halted = "no", NEW feature, Deactivation(feature)
  PROVE  MetaDExInv' /\ Holdings' = Holdings
<1>1. Idle /\ live' = live \ {feature}
  BY DEF Deactivation
<1>2. ASSUME MetaDEx_SHUTDOWN PROVE MetaDExInv' /\ Holdings' = Holdings
  <2>1. PICK ids : ids = DOMAIN metadex
    OBVIOUS
  <2>2. Refundable(ids)
    BY <2>1, RefundOK, Zenon DEF MetaDExInv
  <2>3. tally' = Refunded(ids) /\ metadex' = << >> /\ halted' = halted /\ pnew' = pnew
    BY <1>2, <2>1, <2>2, Zenon DEF MetaDEx_SHUTDOWN
  <2>4. metadex' = Erase(metadex, ids)
    BY <2>1, <2>3, EmptyBook, Zenon
  <2> QED
    BY <1>1, <2>1, <2>3, <2>4, CancelOK, Zenon
<1>3. CASE feature = "METADEX"
  BY <1>2, <1>3 DEF Deactivation
<1>4. CASE feature = "TRADEALLPAIRS"
  <2>1. MetaDEx_SHUTDOWN_ALLPAIR
    BY <1>4 DEF Deactivation
  <2>2. CASE AllPairOrders = DOMAIN metadex
    BY <1>2, <2>1, <2>2, Zenon DEF MetaDEx_SHUTDOWN_ALLPAIR
  <2>3. CASE AllPairOrders # DOMAIN metadex
    <3>1. halted' = "loop" /\ tally' = tally /\ metadex' = metadex /\ pnew' = pnew
      BY <2>1, <2>3 DEF MetaDEx_SHUTDOWN_ALLPAIR
    <3> QED
      BY <1>1, <1>4, <3>1, QuietOK, Zenon
  <2> QED
    BY <2>2, <2>3
<1>5. CASE feature \notin {"METADEX", "TRADEALLPAIRS"}
  <2>1. halted' = halted /\ tally' = tally /\ metadex' = metadex /\ pnew' = pnew
    BY <1>5 DEF Deactivation
  <2> QED
    BY <1>1, <1>5, <2>1, QuietOK, Zenon
<1> QED
  BY <1>3, <1>4, <1>5, Zenon

(* Transaction 25: the new order has all that it sells. *)
LEMMA TradeBegunOK ==
  ASSUME MetaDExInv, halted = "no", NEW s \in Traders, NEW pair \in Pairs,
         NEW amount \in Amounts, NEW desired \in Desired,
         MetaDExTrade(s, pair[1], amount, pair[2], desired)
  PROVE  MetaDExInv' /\ Holdings' = Holdings
<1> DEFINE p == pair[1]
           dp == pair[2]
           new == [addr |-> s, property |-> p, forsale |-> amount,
                   desProperty |-> dp, desired |-> desired,
                   remaining |-> amount, got |-> 0]
<1>1. /\ s \in Addr /\ p \in Prop /\ dp \in Prop /\ amount \in Nat \ {0} /\ desired \in Nat \ {0}
  BY MetaDExAssumption, TallyAssumption DEF MetaDExTrade
<1>2. new \in Order /\ AtLimit(new)
  <2>1. new \in Order
    BY <1>1 DEF Order
  <2>2. new.got * new.forsale = 0 /\ (new.forsale - new.remaining) * new.desired = 0
    BY <1>1
  <2> QED
    BY <2>1, <2>2 DEF AtLimit
<1>3. /\ pnew' = new /\ tally' = tally /\ metadex' = metadex /\ live' = live
      /\ setFrozenAddresses' = setFrozenAddresses /\ halted' = halted
      /\ MaxOrders \notin DOMAIN metadex /\ PairAllowed(s, p, dp)
      /\ todo' = {i \in DOMAIN metadex : /\ metadex[i].property = dp
                                         /\ metadex[i].desProperty = p
                                         /\ PriceMet(new, metadex[i])}
      /\ tally[s][p]["BALANCE"] >= amount
  BY Zenon DEF MetaDExTrade, GetTokenBalance
<1>4. LedgerOK(tally)' /\ BookOK(metadex)'
  BY <1>3, Zenon DEF MetaDExInv, LedgerOK, BookOK, Supply, Ledger, AtLimit, Order
<1>5. ReserveIsBook'
  BY <1>3, HeldByIsHeld, Zenon DEF MetaDExInv
<1>6. NeverAsserts' /\ NoOrderLockedIn'
  BY <1>3, Zenon DEF NeverAsserts, NoOrderLockedIn, MetaDExInv
<1>7. MatchOK'
  <2>1. /\ new.addr = s /\ new.property = p /\ new.desProperty = dp /\ new.remaining = amount
    OBVIOUS
  <2>2. p # dp /\ ~isAddressFrozen(s, p)'
    BY <1>3, Zenon DEF PairAllowed, isAddressFrozen
  <2>3. "METADEX" \notin live' => isTestEcosystemProperty(p)
    BY <1>3, Zenon DEF PairAllowed, IsTransactionTypeAllowed
  <2>4. new.remaining <= tally'[s][p]["BALANCE"]
    BY <1>1, <1>3, <2>1, TwoTypes, Zenon DEF MetaDExInv, LedgerOK
  <2> HIDE DEF new, p, dp
  <2>5. todo' \subseteq DOMAIN metadex' /\ \A i \in todo' : Matches(new, metadex'[i])
    BY <1>3, <2>1, Zenon DEF Matches
  <2> QED
    BY <1>2, <1>3, <2>1, <2>2, <2>3, <2>4, <2>5, Zenon DEF MatchOK, AtLimit, Matches, PriceMet, isAddressFrozen, Order
<1> QED
  BY <1>3, <1>4, <1>5, <1>6, <1>7, Zenon DEF MetaDExInv, Holdings

-----------------------------------------------------------------------------
(* The rest of an order goes to the book *)

LEMMA InsertOK ==
  ASSUME MetaDExInv, halted = "no", MetaDEx_INSERT
  PROVE  MetaDExInv' /\ Holdings' = Holdings
<1> DEFINE a0 == pnew.addr
           p0 == pnew.property
           n == pnew.remaining
<1>1. /\ ~Idle /\ pnew \in Order /\ AtLimit(pnew) /\ n <= tally[a0][p0]["BALANCE"]
      /\ ~isAddressFrozen(a0, p0) /\ MaxOrders \notin DOMAIN metadex
      /\ "METADEX" \notin live => isTestEcosystemProperty(p0)
  BY Zenon DEF MetaDEx_INSERT, MetaDExInv, MatchOK
<1>2. a0 \in Addr /\ p0 \in Prop /\ n \in Nat
  BY <1>1 DEF Order
<1>3. LedgerOK(tally) /\ tally \in Ledger /\ BookOK(metadex) /\ ReserveIsBook
  BY DEF MetaDExInv, LedgerOK
<1>4. CASE n = 0
  <2>1. /\ metadex' = metadex /\ tally' = tally /\ pnew' = NoOrder /\ halted' = halted /\ live' = live
    BY <1>4 DEF MetaDEx_INSERT
  <2>2. LedgerOK(tally)' /\ BookOK(metadex)'
    BY <1>3, <2>1, Zenon DEF LedgerOK, BookOK, Supply, Ledger, AtLimit, Order
  <2>3. ReserveIsBook'
    BY <1>3, <2>1, HeldByIsHeld, Zenon
  <2>4. MatchOK' /\ NeverAsserts' /\ NoOrderLockedIn'
    BY <2>1, Zenon DEF MatchOK, Idle, NeverAsserts, NoOrderLockedIn, MetaDExInv
  <2> QED
    BY <2>1, <2>2, <2>3, <2>4, Zenon DEF MetaDExInv, Holdings
<1>5. CASE n > 0
  <2>1. n \in 1 .. tally[a0][p0]["BALANCE"]
    <3>1. tally[a0][p0]["BALANCE"] \in Nat
      BY <1>2, <1>3, TwoTypes, Zenon
    <3> QED
      BY <1>1, <1>2, <1>5, <3>1
  <2> DEFINE u == Moved(tally, p0, n, a0, "BALANCE", a0, "METADEX_RESERVE")
  <2>2. Movable(tally, p0, n, a0, "BALANCE", a0, "METADEX_RESERVE") /\ LedgerOK(u)
    BY <1>1, <1>2, <1>3, <2>1, MovedOK, TwoTypes, Zenon
  <2>3. /\ metadex' = Put(metadex, Place, pnew) /\ tally' = u
        /\ pnew' = NoOrder /\ halted' = halted /\ live' = live
    BY <1>5, <2>2, Zenon DEF MetaDEx_INSERT, Reserved
  <2>4. \A a \in Addr, p \in Prop :
          /\ u[a][p]["METADEX_RESERVE"] = tally[a][p]["METADEX_RESERVE"]
                                            + (IF a = a0 /\ p = p0 THEN n ELSE 0)
          /\ Own(u, a, p) = Own(tally, a, p)
    <3> SUFFICES ASSUME NEW a \in Addr, NEW p \in Prop
                 PROVE  /\ u[a][p]["METADEX_RESERVE"] = tally[a][p]["METADEX_RESERVE"]
                                            + (IF a = a0 /\ p = p0 THEN n ELSE 0)
                        /\ Own(u, a, p) = Own(tally, a, p)
      BY Zenon
    <3> HIDE DEF u, n, a0, p0
    <3>1. EntriesMoved(u, tally, p0, n, a0, "BALANCE", a0, "METADEX_RESERVE")
      <4>1. n \in Int /\ "BALANCE" \in TallyType /\ "METADEX_RESERVE" \in TallyType
        BY <1>2, <1>3, TwoTypes
      <4> QED
        BY <1>2, <1>3, <4>1, MovedValue, Zenon DEF u
    <3> QED
      BY <1>2, <1>3, <3>1, TwoTypes DEF Share, EntriesMoved, Own
  <2>5. Place \in 1 .. MaxOrders /\ Place \notin DOMAIN metadex
    BY <1>1, <1>3, PlaceIsNew, Zenon
  <2>6. /\ BookOK(metadex')
        /\ \A a \in Addr, p \in Prop :
             Held(metadex', DOMAIN metadex', a, p) =
               Held(metadex, DOMAIN metadex, a, p) + (IF a = a0 /\ p = p0 THEN n ELSE 0)
    BY <1>1, <1>3, <1>5, <2>3, <2>5, PutOK, Zenon
  <2>7. LedgerOK(tally)' /\ BookOK(metadex)'
    BY <2>2, <2>3, <2>6, Zenon DEF LedgerOK, BookOK, Supply, Ledger, AtLimit, Order
  <2> HIDE DEF u, n, a0, p0
  <2>8. ReserveIsBook'
    BY <1>3, <2>3, <2>4, <2>6, HeldByIsHeld
  <2>9. MatchOK' /\ NeverAsserts'
    BY <2>3, Zenon DEF MatchOK, Idle, NeverAsserts, MetaDExInv
  <2>10. NoOrderLockedIn'
    BY <1>1, <2>3, Zenon DEF NoOrderLockedIn, MetaDExInv, Put, p0
  <2>11. Holdings' = Holdings
    BY <2>3, <2>4, Zenon DEF Holdings, Own
  <2> QED
    BY <2>7, <2>8, <2>9, <2>10, <2>11, Zenon DEF MetaDExInv
<1> QED
  BY <1>2, <1>4, <1>5

-----------------------------------------------------------------------------
(* One trade *)

(* What the trade of n units of the order i for pay has to itself. *)
Ready(i, n, pay) ==
    /\ n \in 1 .. metadex[i].remaining /\ pay \in 1 .. pnew.remaining
    /\ pay * metadex[i].forsale >= metadex[i].desired * n
    /\ n * pnew.forsale >= pnew.desired * pay
    /\ n \in 1 .. tally[metadex[i].addr][metadex[i].property]["METADEX_RESERVE"]
    /\ pay \in 1 .. tally[pnew.addr][pnew.property]["BALANCE"]
    /\ pnew.property # metadex[i].property

LEMMA TradeReady ==
  ASSUME MetaDExInv, ~Idle, NEW i \in todo, NEW n, NEW pay, Trades(pnew, metadex[i], n, pay)
  PROVE  Ready(i, n, pay) /\ TradeAsserts(pnew, metadex[i], n, pay)
<1>1. /\ pnew \in Order /\ pnew.property # pnew.desProperty
      /\ pnew.remaining <= tally[pnew.addr][pnew.property]["BALANCE"]
      /\ i \in DOMAIN metadex /\ Matches(pnew, metadex[i])
  BY Zenon DEF MetaDExInv, MatchOK
<1>2. PICK new \in Order : new = pnew
  BY <1>1
<1>3. PICK old \in Order : old = metadex[i] /\ old.remaining > 0
  BY <1>1 DEF MetaDExInv, BookOK
<1>4. /\ n \in 1 .. old.remaining /\ pay \in 1 .. new.remaining
      /\ pay * old.forsale >= old.desired * n
      /\ pay * new.desired <= new.forsale * n
  BY <1>2, <1>3, TradeBounds, Zenon
<1>5. /\ new.addr \in Addr /\ new.property \in Prop /\ old.addr \in Addr /\ old.property \in Prop
      /\ new.remaining \in Nat /\ old.remaining \in Nat
      /\ new.forsale \in Nat /\ new.desired \in Nat /\ old.forsale \in Nat /\ old.desired \in Nat
  BY DEF Order
<1>6. Matches(new, old) /\ new.property # old.property
  BY <1>1, <1>2, <1>3, Zenon DEF Matches
<1>7. n \in Nat /\ pay \in Nat /\ n * new.forsale >= new.desired * pay
  BY <1>4, <1>5
<1>8. new.desired * old.desired <= old.forsale * new.forsale
  BY <1>5, <1>6 DEF Matches, PriceMet
<1>9. TradeAsserts(new, old, n, pay)
  BY <1>3, <1>4, <1>5, <1>6, <1>8 DEF TradeAsserts, Matches
<1>10. old.remaining <= tally[old.addr][old.property]["METADEX_RESERVE"]
  <2>1. PICK all : all = DOMAIN metadex
    OBVIOUS
  <2>2. BookOK(metadex) /\ ReserveIsBook
    BY DEF MetaDExInv
  <2>3. old.remaining <= Held(metadex, all, old.addr, old.property)
    BY <1>1, <1>3, <2>1, <2>2, HeldAtLeast, Zenon
  <2>4. tally[old.addr][old.property]["METADEX_RESERVE"]
          = Held(metadex, all, old.addr, old.property)
    BY <1>5, <2>1, <2>2, HeldByIsHeld, Zenon
  <2> QED
    BY <2>3, <2>4, Zenon
<1>11. /\ tally[old.addr][old.property]["METADEX_RESERVE"] \in Nat
       /\ tally[new.addr][new.property]["BALANCE"] \in Nat
  BY <1>5, TwoTypes, Zenon DEF MetaDExInv, LedgerOK
<1>12. new.remaining <= tally[new.addr][new.property]["BALANCE"]
  BY <1>1, <1>2, Zenon
<1>13. n \in 1 .. tally[old.addr][old.property]["METADEX_RESERVE"]
  BY <1>4, <1>5, <1>10, <1>11, RangeWithin, Zenon
<1>14. pay \in 1 .. tally[new.addr][new.property]["BALANCE"]
  BY <1>4, <1>5, <1>11, <1>12, RangeWithin, Zenon
<1> QED
  BY <1>2, <1>3, <1>4, <1>6, <1>7, <1>9, <1>13, <1>14, Zenon DEF Ready

TradeStep(i, n, pay) ==
    /\ tally' = Settled(tally, pnew, metadex[i], n, pay)
    /\ metadex' = Replaced(metadex, i, n, pay)
    /\ pnew' = [pnew EXCEPT !.remaining = @ - pay, !.got = @ + n]
    /\ todo' = todo \ {i}
    /\ UNCHANGED <<setFrozenAddresses, halted, live>>

(* The order being matched after a trade. *)
LEMMA MatchKept ==
  ASSUME MetaDExInv, ~Idle, NEW i \in todo, NEW n, NEW pay, Ready(i, n, pay),
         TradeStep(i, n, pay),
         tally[pnew.addr][pnew.property]["BALANCE"] - pay
           <= tally'[pnew.addr][pnew.property]["BALANCE"],
         tally' \in Ledger,
         DOMAIN metadex' \subseteq DOMAIN metadex,
         DOMAIN metadex \ {i} \subseteq DOMAIN metadex',
         \A j \in DOMAIN metadex \ {i} : metadex'[j] = metadex[j]
  PROVE  MatchOK'
<1>1. /\ pnew \in Order /\ AtLimit(pnew) /\ pnew.property # pnew.desProperty
      /\ pnew.remaining <= tally[pnew.addr][pnew.property]["BALANCE"]
      /\ ~isAddressFrozen(pnew.addr, pnew.property)
      /\ "METADEX" \notin live => isTestEcosystemProperty(pnew.property)
      /\ MaxOrders \notin DOMAIN metadex
      /\ todo \subseteq DOMAIN metadex
      /\ \A j \in todo : Matches(pnew, metadex[j])
  BY Zenon DEF MetaDExInv, MatchOK
<1>2. PICK new \in Order : new = pnew
  BY <1>1, Zenon
<1>3. /\ pay \in 1 .. new.remaining /\ n \in Nat
      /\ n * new.forsale >= new.desired * pay
  BY <1>2, RangeMember, Zenon DEF Ready
<1>4. PICK s : s = Sold(new, pay, n)
  BY Zenon
<1>5. /\ s \in Order /\ AtLimit(s) /\ s.remaining = new.remaining - pay
      /\ s.addr = new.addr /\ s.property = new.property /\ s.desProperty = new.desProperty
      /\ s.forsale = new.forsale /\ s.desired = new.desired
  BY <1>1, <1>2, <1>3, <1>4, SoldOK, Zenon
<1>6. pnew' = s
  BY <1>2, <1>4, Zenon DEF Sold, TradeStep
<1>7. s.remaining <= tally'[s.addr][s.property]["BALANCE"]
  <2>1. /\ new.addr \in Addr /\ new.property \in Prop /\ new.remaining \in Nat /\ pay \in Nat
    BY <1>3, RangeMember, Zenon DEF Order
  <2>2. /\ tally[new.addr][new.property]["BALANCE"] \in Nat
        /\ tally'[new.addr][new.property]["BALANCE"] \in Nat
    BY <2>1, TwoTypes, Zenon DEF MetaDExInv, LedgerOK
  <2>3. /\ new.remaining <= tally[new.addr][new.property]["BALANCE"]
        /\ tally[new.addr][new.property]["BALANCE"] - pay
             <= tally'[new.addr][new.property]["BALANCE"]
    BY <1>1, <1>2, Zenon
  <2> QED
    <3>1. new.remaining - pay <= tally'[new.addr][new.property]["BALANCE"]
      BY <2>1, <2>2, <2>3, LessWithin, Zenon
    <3> QED
      BY <1>5, <3>1, Zenon
<1>8. todo' \subseteq DOMAIN metadex'
  BY <1>1, Zenon DEF TradeStep
<1>9. \A j \in todo' : Matches(s, metadex'[j])
  <2> SUFFICES ASSUME NEW j \in todo' PROVE Matches(s, metadex'[j])
    OBVIOUS
  <2>1. j \in todo /\ metadex'[j] = metadex[j] /\ Matches(new, metadex[j])
    BY <1>1, <1>2, Zenon DEF TradeStep
  <2> QED
    BY <1>5, <2>1, Zenon DEF Matches, PriceMet
<1>10. <<s.addr, s.property>> \notin setFrozenAddresses'
  BY <1>1, <1>2, <1>5, Zenon DEF isAddressFrozen, TradeStep
<1>11. MaxOrders \notin DOMAIN metadex'
  BY <1>1, Zenon
<1>12. "METADEX" \notin live' => isTestEcosystemProperty(s.property)
  BY <1>1, <1>2, <1>5, Zenon DEF TradeStep
<1>13. s.property # s.desProperty
  BY <1>1, <1>2, <1>5, Zenon
<1> QED
  BY <1>5, <1>6, <1>7, <1>8, <1>9, <1>10, <1>11, <1>12, <1>13, Zenon
     DEF MatchOK, AtLimit, Matches, PriceMet, isAddressFrozen, Order

LEMMA TradeKeeps ==
  ASSUME MetaDExInv, ~Idle, NEW i \in todo, NEW n, NEW pay, Ready(i, n, pay),
         TradeStep(i, n, pay), LedgerOK(tally'),
         Swapped(tally', tally, pnew.addr, metadex[i].addr, pnew.property,
                 metadex[i].property, n, pay)
  PROVE  MetaDExInv'
<1>1. BookOK(metadex) /\ ReserveIsBook /\ i \in DOMAIN metadex
  BY Zenon DEF MetaDExInv, MatchOK
<1>2. PICK old \in Order : old = metadex[i]
  BY <1>1 DEF BookOK
<1>3. /\ n \in 1 .. metadex[i].remaining /\ pay \in Nat
      /\ pay * metadex[i].forsale >= metadex[i].desired * n
  BY RangeMember, Zenon DEF Ready
<1>4. PICK book : book = Replaced(metadex, i, n, pay)
  BY Zenon
<1>5. AfterTrade(book, metadex, i, n)
  BY <1>1, <1>3, <1>4, ReplacedOK, Zenon
<1>6. /\ BookOK(book)
      /\ DOMAIN book \subseteq DOMAIN metadex
      /\ DOMAIN metadex \ {i} \subseteq DOMAIN book
      /\ \A j \in DOMAIN metadex \ {i} : book[j] = metadex[j]
      /\ \A j \in DOMAIN book : book[j].property = metadex[j].property
      /\ \A a \in Addr, p \in Prop :
           Held(book, DOMAIN book, a, p) =
             Held(metadex, DOMAIN metadex, a, p)
               - (IF a = old.addr /\ p = old.property THEN n ELSE 0)
  BY <1>2, <1>5, Zenon DEF AfterTrade
<1>7. metadex' = book
  BY <1>4, Zenon DEF TradeStep
<1>8. LedgerOK(tally)' /\ BookOK(metadex)'
  BY <1>6, <1>7, ZenonT(30) DEF LedgerOK, BookOK, Supply, Ledger, AtLimit, Order
<1>9. ReserveIsBook'
  <2>1. \A a \in Addr, r \in Prop :
          tally'[a][r]["METADEX_RESERVE"] =
            tally[a][r]["METADEX_RESERVE"] - (IF a = old.addr /\ r = old.property THEN n ELSE 0)
    BY <1>2, Zenon DEF Swapped
  <2>2. \A a \in Addr, r \in Prop :
          tally[a][r]["METADEX_RESERVE"] = Held(metadex, DOMAIN metadex, a, r)
    BY <1>1, HeldByIsHeld, Zenon
  <2>3. \A a \in Addr, r \in Prop :
          tally'[a][r]["METADEX_RESERVE"] = Held(book, DOMAIN book, a, r)
    <3> TAKE a \in Addr, r \in Prop
    <3>1. PICK d : d = IF a = old.addr /\ r = old.property THEN n ELSE 0
      BY Zenon
    <3>2. tally'[a][r]["METADEX_RESERVE"] = tally[a][r]["METADEX_RESERVE"] - d
      BY <2>1, <3>1
    <3>3. Held(book, DOMAIN book, a, r) = Held(metadex, DOMAIN metadex, a, r) - d
      BY <1>6, <3>1
    <3> QED
      BY <2>2, <3>2, <3>3, Zenon
  <2> QED
    BY <1>7, <2>3, HeldByIsHeld, Zenon
<1>10. NoOrderLockedIn' /\ NeverAsserts'
  BY <1>6, <1>7, Zenon DEF NoOrderLockedIn, NeverAsserts, MetaDExInv, TradeStep
<1>11. MatchOK'
  <2>1. /\ tally[pnew.addr][pnew.property]["BALANCE"] - pay
             <= tally'[pnew.addr][pnew.property]["BALANCE"]
        /\ tally' \in Ledger
    BY Zenon DEF Swapped, LedgerOK
  <2> QED
    BY <1>6, <1>7, <2>1, MatchKept, Zenon
<1> QED
  BY <1>8, <1>9, <1>10, <1>11, Zenon DEF MetaDExInv

(* The asserts of x_Trade hold; the trade keeps the invariant and swaps. *)
LEMMA TradeOK ==
  ASSUME MetaDExInv, ~Idle, NEW i \in todo, NEW n, NEW pay, Trades(pnew, metadex[i], n, pay)
  PROVE  /\ TradeAsserts(pnew, metadex[i], n, pay)
         /\ Settleable(tally, pnew, metadex[i], n, pay)
         /\ TradeStep(i, n, pay) => MetaDExInv' /\ TheExchange!Next
<1>1. Ready(i, n, pay) /\ TradeAsserts(pnew, metadex[i], n, pay)
  BY TradeReady
<1>2. /\ pnew \in Order /\ metadex[i] \in Order /\ LedgerOK(tally) /\ tally \in Ledger
      /\ ~isAddressFrozen(pnew.addr, pnew.property)
  BY DEF MetaDExInv, MatchOK, BookOK, LedgerOK
<1>3. PICK new \in Order, old \in Order : new = pnew /\ old = metadex[i]
  BY <1>2
<1>4. /\ n \in 1 .. tally[old.addr][old.property]["METADEX_RESERVE"]
      /\ pay \in 1 .. tally[new.addr][new.property]["BALANCE"]
      /\ new.property # old.property
  BY <1>1, <1>3, Zenon DEF Ready
<1>5. /\ Settleable(tally, new, old, n, pay)
      /\ LedgerOK(Settled(tally, new, old, n, pay))
      /\ Swapped(Settled(tally, new, old, n, pay), tally, new.addr, old.addr,
                 new.property, old.property, n, pay)
  BY <1>2, <1>3, <1>4, SettledOK, Zenon
<1>6. ASSUME TradeStep(i, n, pay) PROVE MetaDExInv' /\ TheExchange!Next
  <2>1. tally' = Settled(tally, new, old, n, pay)
    BY <1>3, <1>6 DEF TradeStep
  <2>2. /\ LedgerOK(tally')
        /\ Swapped(tally', tally, new.addr, old.addr, new.property, old.property, n, pay)
    BY <1>5, <2>1, Zenon
  <2>3. MetaDExInv'
    BY <1>1, <1>3, <1>6, <2>2, TradeKeeps, Zenon
  <2>4. /\ new.addr \in Addr /\ old.addr \in Addr /\ new.property \in Prop /\ old.property \in Prop
    BY DEF Order
  <2>5. TheExchange!Next
    BY <1>2, <1>4, <2>2, <2>4, TradeSwaps, Zenon
  <2> QED
    BY <2>3, <2>5
<1> QED
  BY <1>1, <1>3, <1>5, <1>6, Zenon

(* A step of x_Trade that passes over an order, or that ends the process. *)
LEMMA PassedOK ==
  ASSUME MetaDExInv, ~Idle, todo' \subseteq todo, halted' # "assert",
         UNCHANGED <<tally, setFrozenAddresses, metadex, pnew, live>>
  PROVE  MetaDExInv' /\ Holdings' = Holdings
<1>1. LedgerOK(tally)' /\ BookOK(metadex)'
  BY Zenon DEF MetaDExInv, LedgerOK, BookOK, Supply, Ledger, AtLimit, Order
<1>2. ReserveIsBook'
  BY HeldByIsHeld DEF MetaDExInv
<1>3. NeverAsserts' /\ NoOrderLockedIn'
  BY DEF NeverAsserts, NoOrderLockedIn, MetaDExInv
<1>4. MatchOK'
  <2>1. MatchOK
    BY DEF MetaDExInv
  <2> QED
    BY <2>1, Zenon DEF MatchOK, Idle, AtLimit, Matches, PriceMet, isAddressFrozen, Order
<1> QED
  BY <1>1, <1>2, <1>3, <1>4, Zenon DEF MetaDExInv, Holdings

LEMMA MatchingOK ==
  ASSUME MetaDExInv, halted = "no", x_Trade
  PROVE  MetaDExInv' /\ (TheExchange!Next \/ Holdings' = Holdings)
<1> DEFINE i == Best(todo)
           old == metadex[i]
           n == CouldBuy(pnew, old)
           pay == WouldPay(n, old)
<1>1. ~Idle /\ todo # {}
  BY DEF x_Trade
<1>2. i \in todo
  BY <1>1, BestIsFirst, Zenon DEF MetaDExInv, MatchOK
<1>3. CASE n = 0 \/ TooExpensive(pnew, n, pay)
  <2>1. Skip(i)
    BY <1>3, Zenon DEF x_Trade
  <2> QED
    BY <1>1, <2>1, PassedOK, Zenon DEF Skip
<1>4. CASE ~(n = 0 \/ TooExpensive(pnew, n, pay))
  <2>1. Trades(pnew, metadex[i], n, pay)
    BY <1>4 DEF Trades
  <2>2. CASE "FEES" \in live /\ AllPair(old.property, old.desProperty)
    <3>1. Halt("null")
      BY <1>4, <2>2, Zenon DEF x_Trade
    <3> QED
      BY <1>1, <3>1, PassedOK, Zenon DEF Halt
  <2>3. CASE ~("FEES" \in live /\ AllPair(old.property, old.desProperty))
    <3>1. /\ TradeAsserts(pnew, metadex[i], n, pay)
          /\ Settleable(tally, pnew, metadex[i], n, pay)
      BY <1>1, <1>2, <2>1, TradeOK, Zenon
    <3>2. TradeStep(i, n, pay)
      BY <1>4, <2>3, <3>1, Zenon DEF x_Trade, TradeStep
    <3> HIDE DEF n, pay, i
    <3> QED
      BY <1>1, <1>2, <2>1, <3>2, TradeOK, Zenon
  <2> QED
    BY <2>2, <2>3, Zenon
<1> QED
  BY <1>3, <1>4, Zenon

-----------------------------------------------------------------------------
(* The theorems *)

LEMMA InitOK == Init => MetaDExInv
<1> SUFFICES ASSUME Init PROVE MetaDExInv
  OBVIOUS
<1>1. \A a \in Addr, p \in Prop : Endowment[a][p] \in Nat
  BY MetaDExAssumption
<1>2. tally \in Ledger
  BY <1>1 DEF Init, Ledger
<1>3. \A a \in Addr, p \in Prop :
        tally[a][p]["BALANCE"] = Endowment[a][p] /\ tally[a][p]["METADEX_RESERVE"] = 0
  BY <1>2, TwoTypes, Zenon DEF Init
<1>4. LedgerOK(tally)
  <2> SUFFICES ASSUME NEW p \in Prop PROVE Supply(tally, p, TallyType) <= MaxInt
    BY <1>2 DEF LedgerOK
  <2>1. \A a \in Addr : Own(tally, a, p) = Endowment[a][p]
    BY <1>1, <1>3 DEF Own
  <2>2. [a \in Addr |-> Own(tally, a, p)] = [a \in Addr |-> Endowment[a][p]]
    BY <2>1
  <2>3. Supply(tally, p, TallyType) = SumOf([a \in Addr |-> Own(tally, a, p)])
    BY <1>2, SupplyIsOwned
  <2> QED
    BY <2>2, <2>3, SupplyAssumption, Zenon
<1>5. DOMAIN metadex = {} /\ metadex = [i \in {} |-> metadex[i]]
  BY DEF Init
<1>6. BookOK(metadex)
  BY <1>5 DEF BookOK
<1>7. ReserveIsBook
  <2> SUFFICES ASSUME NEW a \in Addr, NEW p \in Prop
               PROVE  Held(metadex, DOMAIN metadex, a, p) = 0
    BY <1>3, HeldByIsHeld, Zenon
  <2> DEFINE f == Rest(metadex, DOMAIN metadex, a, p)
  <2>1. f \in [1 .. MaxOrders -> Nat] /\ \A i \in 1 .. MaxOrders : f[i] = 0
    BY <1>5, <1>6, BookRestType DEF OwnRest
  <2>2. Held(metadex, DOMAIN metadex, a, p) = SumOf(f)
    <3>1. PICK all : all = DOMAIN metadex
      OBVIOUS
    <3>2. Held(metadex, all, a, p) = SumOf(Rest(metadex, all, a, p))
      BY <1>6, <3>1, HeldIsRest, Zenon
    <3> QED
      BY <3>1, <3>2
  <2> HIDE DEF f
  <2> QED
    BY <2>1, <2>2, SumOfZero, Zenon
<1>8. MatchOK /\ NoOrderLockedIn /\ NeverAsserts
  BY <1>5 DEF MatchOK, Init, Idle, NoOrderLockedIn, NeverAsserts
<1> QED
  BY <1>4, <1>6, <1>7, <1>8, Zenon DEF MetaDExInv

LEMMA CancelStep ==
  ASSUME MetaDExInv, Idle, NEW ids, ids \subseteq DOMAIN metadex, Cancel(ids)
  PROVE  MetaDExInv' /\ Holdings' = Holdings
<1>1. Refundable(ids)
  BY RefundOK DEF MetaDExInv
<1>2. /\ tally' = Refunded(ids) /\ metadex' = Erase(metadex, ids)
      /\ halted' = halted /\ pnew' = pnew /\ live' = live
  BY <1>1 DEF Cancel
<1> QED
  BY <1>2, CancelOK, Zenon

(* Every step keeps the invariant, and is a swap or leaves what every      *)
(* address owns as it is.                                                  *)
LEMMA StepOK ==
  ASSUME MetaDExInv, [Next]_vars
  PROVE  MetaDExInv' /\ (TheExchange!Next \/ Holdings' = Holdings)
<1>1. CASE UNCHANGED vars
  <2>1. LedgerOK(tally)' /\ BookOK(metadex)'
    BY <1>1, Zenon DEF vars, MetaDExInv, LedgerOK, BookOK, Supply, Ledger, AtLimit, Order
  <2>2. ReserveIsBook'
    BY <1>1, HeldByIsHeld, Zenon DEF vars, MetaDExInv
  <2>3. NeverAsserts' /\ NoOrderLockedIn'
    BY <1>1 DEF vars, NeverAsserts, NoOrderLockedIn, MetaDExInv
  <2>4. MatchOK'
    <3>1. MatchOK
      BY DEF MetaDExInv
    <3> QED
      BY <1>1, <3>1, Zenon DEF vars, MatchOK, Idle, AtLimit, Matches, PriceMet, isAddressFrozen, Order
  <2>5. Holdings' = Holdings
    BY <1>1 DEF vars, Holdings
  <2> QED
    BY <2>1, <2>2, <2>3, <2>4, <2>5, Zenon DEF MetaDExInv
<1>2. ASSUME halted = "no", NEW s \in Traders, NEW pair \in Pairs, NEW amount \in Amounts,
             NEW desired \in Desired, MetaDExTrade(s, pair[1], amount, pair[2], desired)
      PROVE  MetaDExInv' /\ Holdings' = Holdings
  BY <1>2, TradeBegunOK, Zenon
<1>3. ASSUME halted = "no", NEW s, NEW p, NEW dp, NEW amount, NEW desired,
             MetaDExCancelPrice(s, p, amount, dp, desired)
      PROVE  MetaDExInv' /\ Holdings' = Holdings
  <2> DEFINE mdex == [forsale |-> amount, desired |-> desired]
             ids == {i \in DOMAIN metadex : /\ metadex[i].property = p
                                            /\ SamePrice(metadex[i], mdex)
                                            /\ metadex[i].desProperty = dp
                                            /\ metadex[i].addr = s}
  <2>1. Idle /\ Cancel(ids) /\ ids \subseteq DOMAIN metadex
    BY <1>3, Zenon DEF MetaDExCancelPrice
  <2> HIDE DEF ids
  <2> QED
    BY <2>1, CancelStep
<1>4. ASSUME halted = "no", NEW s, NEW p, NEW dp, MetaDExCancelPair(s, p, dp)
      PROVE  MetaDExInv' /\ Holdings' = Holdings
  <2> DEFINE ids == {i \in DOMAIN metadex : /\ metadex[i].property = p
                                            /\ metadex[i].desProperty = dp
                                            /\ metadex[i].addr = s}
  <2>1. Idle /\ Cancel(ids) /\ ids \subseteq DOMAIN metadex
    BY <1>4, Zenon DEF MetaDExCancelPair
  <2> HIDE DEF ids
  <2> QED
    BY <2>1, CancelStep
<1>5. ASSUME halted = "no", NEW s, NEW ecosystem, MetaDExCancelEcosystem(s, ecosystem)
      PROVE  MetaDExInv' /\ Holdings' = Holdings
  <2> DEFINE ids == {i \in DOMAIN metadex :
                       /\ isTestEcosystemProperty(metadex[i].property)
                            <=> isTestEcosystemProperty(ecosystem)
                       /\ metadex[i].addr = s}
  <2>1. Idle /\ Cancel(ids) /\ ids \subseteq DOMAIN metadex
    BY <1>5 DEF MetaDExCancelEcosystem
  <2> HIDE DEF ids
  <2> QED
    BY <2>1, CancelStep
<1>6. ASSUME halted = "no", NEW feature, Activated(feature)
      PROVE  MetaDExInv' /\ Holdings' = Holdings
  BY <1>6, QuietOK, Zenon DEF Activated
<1>7. ASSUME halted = "no", NEW a, NEW p, freezeAddress(a, p)
      PROVE  MetaDExInv' /\ Holdings' = Holdings
  BY <1>7, QuietOK, Zenon DEF freezeAddress
<1> QED
  BY <1>1, <1>2, <1>3, <1>4, <1>5, <1>6, <1>7, DeactivationOK, MatchingOK, InsertOK, Zenon DEF Next

LEMMA ExchangeInvariant == Spec => []MetaDExInv
<1>1. Init => MetaDExInv
  BY InitOK
<1>2. MetaDExInv /\ [Next]_vars => MetaDExInv'
  BY StepOK
<1> QED
  BY <1>1, <1>2, PTL DEF Spec

(* For every number of traders, orders, tokens and features: what the      *)
(* METADEX_RESERVE of an address holds is what its orders in the book have *)
(* left, whatever is traded, cancelled or removed.                         *)
THEOREM ReserveIsTheBook == Spec => []ReserveIsBook
<1>1. MetaDExInv => ReserveIsBook
  BY DEF MetaDExInv
<1> QED
  BY <1>1, ExchangeInvariant, PTL

(* Every order has received its limit price for what it has sold, however  *)
(* many fills there were and however x_Trade rounded each of them.         *)
THEOREM LimitPrice == Spec => []LimitRespected
<1>1. MetaDExInv => LimitRespected
  BY DEF MetaDExInv, BookOK, MatchOK, Idle, AtLimit, LimitRespected
<1> QED
  BY <1>1, ExchangeInvariant, PTL

(* No assert of x_Trade, MetaDEx_ADD, the cancels or the shutdowns fails.  *)
THEOREM ExchangeNeverAsserts == Spec => []NeverAsserts
<1>1. MetaDExInv => NeverAsserts
  BY DEF MetaDExInv
<1> QED
  BY <1>1, ExchangeInvariant, PTL

(* No order of the main ecosystem outlives FEATURE_METADEX: there would be *)
(* no way to cancel it.                                                    *)
THEOREM NothingLockedIn == Spec => []NoOrderLockedIn
<1>1. MetaDExInv => NoOrderLockedIn
  BY DEF MetaDExInv
<1> QED
  BY <1>1, ExchangeInvariant, PTL

(* The exchange implements its promise: what an address owns, in its       *)
(* balance and in its orders, changes only in a swap with another order.   *)
THEOREM ExchangeImplements == Spec => ImplementsExchange
<1>1. Init => TheExchange!Init
  <2> SUFFICES ASSUME Init PROVE Holdings = Endowment
    BY DEF TheExchange!Init
  <2>1. \A a \in Addr, p \in Prop : Endowment[a][p] \in Nat
    BY MetaDExAssumption
  <2>2. "BALANCE" \in TallyType /\ "METADEX_RESERVE" \in TallyType
    BY MetaDExAssumption DEF MetaDExTypes
  <2>3. \A a \in Addr, p \in Prop : Holdings[a][p] = Endowment[a][p]
    BY <2>1, <2>2 DEF Init, Holdings
  <2>4. Holdings = [a \in Addr |-> [p \in Prop |-> Holdings[a][p]]]
    BY DEF Holdings
  <2>5. Endowment = [a \in Addr |-> [p \in Prop |-> Endowment[a][p]]]
    BY MetaDExAssumption
  <2> QED
    BY <2>3, <2>4, <2>5, Zenon
<1>2. MetaDExInv /\ [Next]_vars => [TheExchange!Next]_Holdings
  BY StepOK
<1> QED
  BY <1>1, <1>2, ExchangeInvariant, PTL DEF Spec, ImplementsExchange, TheExchange!Spec
=============================================================================
