--------------------------- MODULE PendingProofs ---------------------------
(***************************************************************************)
(* Proofs about pending transactions: what is held back is exactly what is *)
(* pending, and calls that do not race never spend more than the balance.  *)
(* Of LedgerTheorems only the facts about sums are used.                   *)
(***************************************************************************)
EXTENDS Pending, LedgerTheorems

(* The provers of a step that names none, with their time limits. *)
USE SMTT(20), ZenonT(20)

-----------------------------------------------------------------------------
(* Sums of amounts *)

LEMMA AmountsType ==
  ASSUME NEW T \in SUBSET Tx
  PROVE  SumAmounts(T) \in Nat /\ IsFiniteSet(T)
<1> DEFINE f == [tx \in T |-> Amount[tx]]
<1>1. IsFiniteSet(T) /\ f \in [T -> Nat]
  BY PendingAssumption, FS_Subset, Zenon
<1> HIDE DEF f
<1>2. SumOf(f) \in Nat
  BY <1>1, SumOfType
<1> QED
  BY <1>1, <1>2 DEF SumAmounts, f

LEMMA AmountsSplit ==
  ASSUME NEW T \in SUBSET Tx, NEW U \in SUBSET T
  PROVE  SumAmounts(T) = SumAmounts(U) + SumAmounts(T \ U)
<1> DEFINE f == [tx \in T |-> Amount[tx]]
<1>1. IsFiniteSet(T) /\ f \in [T -> Nat]
  BY AmountsType, PendingAssumption
<1>2. /\ [tx \in U |-> f[tx]] = [tx \in U |-> Amount[tx]]
      /\ [tx \in T \ U |-> f[tx]] = [tx \in T \ U |-> Amount[tx]]
  OBVIOUS
<1> HIDE DEF f
<1>3. SumOf(f) = SumOf([tx \in U |-> f[tx]]) + SumOf([tx \in T \ U |-> f[tx]])
  BY <1>1, SumOfSplit
<1> QED
  BY <1>2, <1>3 DEF SumAmounts, f

LEMMA AmountsWithin ==
  ASSUME NEW T \in SUBSET Tx, NEW U \in SUBSET T
  PROVE  SumAmounts(U) <= SumAmounts(T)
<1>1. U \in SUBSET Tx /\ T \ U \in SUBSET Tx
  OBVIOUS
<1>2. SumAmounts(U) \in Nat /\ SumAmounts(T \ U) \in Nat
  BY <1>1, AmountsType
<1> QED
  BY <1>2, AmountsSplit

LEMMA AmountsEmpty == SumAmounts({}) = 0
<1> DEFINE f == [tx \in {} |-> Amount[tx]]
<1>1. f \in [{} -> Nat] /\ \A x \in {} : f[x] = 0
  OBVIOUS
<1> HIDE DEF f
<1>2. SumOf(f) = 0
  BY <1>1, SumOfZero, Zenon
<1> QED
  BY <1>2 DEF SumAmounts, f

LEMMA AmountsOne ==
  ASSUME NEW x \in Tx
  PROVE  SumAmounts({x}) = Amount[x] /\ Amount[x] \in Nat \ {0}
<1> DEFINE f == [tx \in {x} |-> Amount[tx]]
<1>1. f \in [{x} -> Nat] /\ f[x] = Amount[x] /\ Amount[x] \in Nat \ {0}
  BY PendingAssumption
<1> HIDE DEF f
<1>2. SumOf(f) = f[x]
  BY <1>1, SumOfSingleton
<1> QED
  BY <1>1, <1>2 DEF SumAmounts, f

LEMMA AmountsAdd ==
  ASSUME NEW T \in SUBSET Tx, NEW x \in Tx \ T
  PROVE  SumAmounts(T \cup {x}) = SumAmounts(T) + Amount[x]
<1>1. /\ T \cup {x} \in SUBSET Tx /\ T \in SUBSET (T \cup {x})
      /\ (T \cup {x}) \ T = {x}
  OBVIOUS
<1>2. SumAmounts(T \cup {x}) = SumAmounts(T) + SumAmounts((T \cup {x}) \ T)
  BY <1>1, AmountsSplit
<1> QED
  BY <1>1, <1>2, AmountsOne

LEMMA AmountsRemove ==
  ASSUME NEW T \in SUBSET Tx, NEW x \in T
  PROVE  /\ SumAmounts(T \ {x}) = SumAmounts(T) - Amount[x]
         /\ SumAmounts(T) \in Nat /\ SumAmounts(T \ {x}) \in Nat /\ Amount[x] \in Nat \ {0}
<1>1. T \ {x} \in SUBSET Tx /\ x \in Tx \ (T \ {x}) /\ (T \ {x}) \cup {x} = T
  OBVIOUS
<1>2. SumAmounts(T) = SumAmounts(T \ {x}) + Amount[x]
  BY <1>1, AmountsAdd
<1>3. SumAmounts(T) \in Nat /\ SumAmounts(T \ {x}) \in Nat /\ Amount[x] \in Nat \ {0}
  BY <1>1, AmountsType, AmountsOne, Zenon
<1> QED
  BY <1>2, <1>3

-----------------------------------------------------------------------------
(* What a step of a thread changes *)

PCs == {"idle", "money", "pending", "commit", "subtract", "insert"}

IsCall(c) ==
    /\ c = [pc |-> c.pc, tx |-> c.tx, money |-> c.money]
    /\ c.pc \in PCs
    /\ c.tx \in Tx \cup {0}

Calls(f) == f = [t \in Thread |-> f[t]] /\ \A t \in Thread : IsCall(f[t])

(* The balance is known to be a number until a reorganisation scans the    *)
(* chain anew; what is said of it below is up to the first one.            *)
TypeInv ==
    /\ Calls(call)
    /\ unused \in SUBSET Tx /\ mempool \in SUBSET Tx
    /\ connecting \in [busy : BOOLEAN, todo : SUBSET Tx, back : SUBSET Tx]
    /\ tip.txs \in SUBSET Tx
    /\ pending \in Int
    /\ reorgs \in Nat /\ (reorgs = 0 => balance \in Int)

(* Thread t goes on to c; the other threads stay where they are. *)
Moves(t, c) == IsCall(c) /\ call' = [call EXCEPT ![t] = c]

LEMMA MovesOne ==
  ASSUME TypeInv, NEW t \in Thread, NEW c, Moves(t, c)
  PROVE  /\ Calls(call')
         /\ call'[t] = c
         /\ \A u \in Thread \ {t} : call'[u] = call[u]
<1>1. call = [u \in Thread |-> call[u]] /\ \A u \in Thread : IsCall(call[u])
  BY DEF TypeInv, Calls
<1>2. /\ call' = [u \in Thread |-> call'[u]]
      /\ call'[t] = c
      /\ \A u \in Thread \ {t} : call'[u] = call[u]
  BY <1>1 DEF Moves
<1>3. \A u \in Thread : IsCall(call'[u])
  <2> TAKE u \in Thread
  <2>1. CASE u = t
    BY <2>1, <1>2 DEF Moves
  <2>2. CASE u # t
    BY <2>2, <1>1, <1>2
  <2> QED
    BY <2>1, <2>2
<1> QED
  BY <1>2, <1>3 DEF Calls

LEMMA GotoMoves ==
  ASSUME TypeInv, NEW t \in Thread, NEW p \in PCs, Goto(t, p)
  PROVE  Moves(t, [pc |-> p, tx |-> call[t].tx, money |-> call[t].money])
<1>1. IsCall(call[t]) /\ call = [u \in Thread |-> call[u]]
  BY DEF TypeInv, Calls
<1>2. call' = [call EXCEPT ![t] = [call[t] EXCEPT !.pc = p]]
  BY <1>1 DEF Goto
<1>3. ASSUME NEW r, IsCall(r)
      PROVE  [r EXCEPT !.pc = p] = [pc |-> p, tx |-> r.tx, money |-> r.money]
  BY <1>3 DEF IsCall
<1>4. [call[t] EXCEPT !.pc = p] = [pc |-> p, tx |-> call[t].tx, money |-> call[t].money]
  BY <1>1, <1>3
<1>5. IsCall([pc |-> p, tx |-> call[t].tx, money |-> call[t].money])
  BY <1>1 DEF IsCall
<1> QED
  BY <1>2, <1>4, <1>5, Zenon DEF Moves

LEMMA ReadMoneyMoves ==
  ASSUME TypeInv, NEW t \in Thread, ReadMoney(t)
  PROVE  Moves(t, [pc |-> "pending", tx |-> call[t].tx, money |-> balance])
<1>1. IsCall(call[t]) /\ call = [u \in Thread |-> call[u]]
  BY DEF TypeInv, Calls
<1>2. call' = [call EXCEPT ![t] = [call[t] EXCEPT !.pc = "pending", !.money = balance]]
  BY <1>1, Zenon DEF ReadMoney
<1>3. ASSUME NEW r, IsCall(r), NEW b
      PROVE  [r EXCEPT !.pc = "pending", !.money = b] = [pc |-> "pending", tx |-> r.tx, money |-> b]
  <2> DEFINE s == [r EXCEPT !.pc = "pending"]
  <2>1. [r EXCEPT !.pc = "pending", !.money = b] = [s EXCEPT !.money = b]
    OBVIOUS
  <2>2. s = [pc |-> "pending", tx |-> r.tx, money |-> r.money]
    BY <1>3 DEF IsCall
  <2> HIDE DEF s
  <2>3. [s EXCEPT !.money = b] = [pc |-> "pending", tx |-> r.tx, money |-> b]
    BY <2>2
  <2> QED
    BY <2>1, <2>3
<1>4. [call[t] EXCEPT !.pc = "pending", !.money = balance]
        = [pc |-> "pending", tx |-> call[t].tx, money |-> balance]
  BY <1>1, <1>3, Zenon
<1>5. IsCall([pc |-> "pending", tx |-> call[t].tx, money |-> balance])
  BY <1>1 DEF IsCall, PCs
<1> QED
  BY <1>2, <1>4, <1>5, Zenon DEF Moves

(* What a step of a thread does to the transactions being entered. *)
LEMMA EnteringMoves ==
  ASSUME TypeInv, NEW t \in Thread, NEW c, Moves(t, c)
  PROVE  /\ ~At(t, "insert") /\ c.pc # "insert" => Entering' = Entering
         /\ ~At(t, "insert") /\ c.pc = "insert" => Entering' = Entering \cup {c.tx}
         /\ At(t, "insert") /\ c.pc # "insert" => Entering' \cup {call[t].tx} = Entering
<1>1. /\ call'[t] = c
      /\ \A u \in Thread \ {t} : call'[u] = call[u]
  BY MovesOne
<1>2. /\ Entering = {call[u].tx : u \in {v \in Thread : call[v].pc = "insert"}}
      /\ Entering' = {call'[u].tx : u \in {v \in Thread : call'[v].pc = "insert"}}
  BY DEF Entering, At
<1> QED
  BY <1>1, <1>2 DEF At

-----------------------------------------------------------------------------
(* Transactions have one owner *)

(* A transaction is made once: it is unused, or a thread works on it, or   *)
(* it has been entered; entered ones have their amounts.                   *)
OwnerInv ==
    /\ DOMAIN my_pending \subseteq Tx \ unused
    /\ \A tx \in DOMAIN my_pending : my_pending[tx] = Amount[tx]
    /\ \A t \in Thread : ~At(t, "idle") =>
         /\ call[t].tx \in Tx \ unused /\ call[t].tx \notin DOMAIN my_pending
         /\ \A u \in Thread \ {t} : ~At(u, "idle") => call[u].tx # call[t].tx

LEMMA OwnerMoves ==
  ASSUME TypeInv, OwnerInv, NEW t \in Thread, NEW c, Moves(t, c),
         ~At(t, "idle"), c.tx = call[t].tx, UNCHANGED <<my_pending, unused>>
  PROVE  OwnerInv'
<1>1. call'[t] = c /\ \A u \in Thread \ {t} : call'[u] = call[u]
  BY MovesOne
<1> QED
  BY <1>1 DEF OwnerInv, At

LEMMA OwnerShrinks ==
  ASSUME OwnerInv, UNCHANGED <<call, unused>>,
         DOMAIN my_pending' \subseteq DOMAIN my_pending,
         \A tx \in DOMAIN my_pending' : my_pending'[tx] = my_pending[tx]
  PROVE  OwnerInv'
BY DEF OwnerInv, At

LEMMA OwnerBegins ==
  ASSUME TypeInv, OwnerInv, NEW t \in Thread, NEW tx \in unused, NEW c, Moves(t, c),
         c.tx = tx, At(t, "idle"), unused' = unused \ {tx}, UNCHANGED my_pending
  PROVE  OwnerInv'
<1>1. call'[t] = c /\ \A u \in Thread \ {t} : call'[u] = call[u]
  BY MovesOne
<1>2. tx \in Tx
  BY DEF TypeInv
<1> QED
  BY <1>1, <1>2 DEF OwnerInv, At

LEMMA OwnerInserts ==
  ASSUME TypeInv, OwnerInv, NEW t \in Thread, Moves(t, NoCall), ~At(t, "idle"),
         my_pending' = Put(my_pending, call[t].tx, Amount[call[t].tx]), UNCHANGED unused
  PROVE  OwnerInv' /\ DOMAIN my_pending' = DOMAIN my_pending \cup {call[t].tx}
<1>1. call'[t].pc = "idle" /\ \A u \in Thread \ {t} : call'[u] = call[u]
  BY MovesOne DEF NoCall
<1>2. /\ DOMAIN my_pending' = DOMAIN my_pending \cup {call[t].tx}
      /\ \A tx \in DOMAIN my_pending' : my_pending'[tx] =
            IF tx = call[t].tx THEN Amount[tx] ELSE my_pending[tx]
  BY DEF Put
<1> QED
  BY <1>1, <1>2 DEF OwnerInv, At

-----------------------------------------------------------------------------
(* What is held back is what is pending *)

Held == DOMAIN my_pending \cup Entering

LEMMA HeldType ==
  ASSUME OwnerInv
  PROVE  /\ Held \in SUBSET Tx /\ Entering \in SUBSET Tx /\ DOMAIN my_pending \in SUBSET Tx
         /\ Entering \cap DOMAIN my_pending = {}
         /\ \A t \in Thread : ~At(t, "idle") /\ ~At(t, "insert") => call[t].tx \in Tx \ Held
BY DEF OwnerInv, Held, Entering, At

(* Neither the map, nor the tally, nor what is being entered changes. *)
LEMMA ExactStays ==
  ASSUME PendingExact, Cancels \subseteq unused' => Cancels \subseteq unused, ~torn' => ~torn,
         UNCHANGED <<pending, my_pending>>, Entering' = Entering
  PROVE  PendingExact'
BY DEF PendingExact, SumAmounts

LEMMA ExactSubtract ==
  ASSUME TypeInv, OwnerInv, PendingExact, NEW t \in Thread, Subtract(t)
  PROVE  PendingExact'
<1>1. Moves(t, [pc |-> "insert", tx |-> call[t].tx, money |-> call[t].money])
  BY GotoMoves, Zenon DEF Subtract, PCs
<1>2. Entering' = Entering \cup {call[t].tx}
  BY <1>1, EnteringMoves DEF Subtract, At
<1>3. call[t].tx \in Tx \ Held /\ Held \in SUBSET Tx
  BY HeldType DEF Subtract, At
<1>4. Held' = Held \cup {call[t].tx}
  BY <1>2 DEF Held, Subtract
<1>5. SumAmounts(Held \cup {call[t].tx}) = SumAmounts(Held) + Amount[call[t].tx]
  BY <1>3, AmountsAdd
<1>6. SumAmounts(Held) \in Nat /\ Amount[call[t].tx] \in Nat
  BY <1>3, AmountsType, AmountsOne, Zenon
<1>7. SumAmounts(Held)' = SumAmounts(Held')
  BY DEF SumAmounts
<1>8. SUFFICES ASSUME Cancels \subseteq unused, ~torn
               PROVE  pending' = -SumAmounts(Held)'
  BY DEF PendingExact, Held, Subtract, chainVars
<1>9. pending = -SumAmounts(Held) /\ pending' = pending - Amount[call[t].tx]
  BY <1>8 DEF PendingExact, Held, Subtract
<1> QED
  BY <1>4, <1>5, <1>6, <1>7, <1>9

LEMMA ExactInsert ==
  ASSUME TypeInv, OwnerInv, PendingExact, NEW t \in Thread, Insert(t)
  PROVE  OwnerInv' /\ PendingExact'
<1>1. Moves(t, NoCall)
  BY DEF Moves, Insert, NoCall, IsCall, PCs
<1>2. Entering' \cup {call[t].tx} = Entering
  BY <1>1, EnteringMoves DEF Insert, NoCall, At
<1>3. OwnerInv' /\ DOMAIN my_pending' = DOMAIN my_pending \cup {call[t].tx}
  BY <1>1, OwnerInserts, Zenon DEF Insert, At
<1>4. DOMAIN my_pending' \cup Entering' = DOMAIN my_pending \cup Entering
  BY <1>2, <1>3
<1>5. PendingExact'
  BY <1>4, Zenon DEF PendingExact, SumAmounts, Insert, chainVars
<1> QED
  BY <1>3, <1>5

(* What stays held back when the entries of gone are deleted: they were    *)
(* all held back, so that what is left never reaches zero before the last. *)
LEMMA ReleasedAll ==
  ASSUME TypeInv, OwnerInv, pending = -SumAmounts(Held), NEW gone \in SUBSET DOMAIN my_pending
  PROVE  Released(State, gone) = -SumAmounts(Held \ gone)
<1> DEFINE sum(txs) == SumOf([tx \in txs |-> my_pending[tx]])
<1>1. gone \in SUBSET Tx /\ Held \in SUBSET Tx /\ gone \in SUBSET Held
  BY HeldType DEF Held
<1>2. ASSUME NEW txs \in SUBSET gone PROVE sum(txs) = SumAmounts(txs)
  <2>1. [tx \in txs |-> my_pending[tx]] = [tx \in txs |-> Amount[tx]]
    BY DEF OwnerInv
  <2> QED
    BY <2>1 DEF SumAmounts
<1>3. ASSUME NEW tx \in gone PROVE pending + sum({x \in gone : x < tx}) # 0
  <2> DEFINE below == {x \in gone : x < tx}
  <2>1. below \in SUBSET Tx /\ tx \in Tx \ below /\ below \cup {tx} \in SUBSET Held
    <3>0. Tx \subseteq Nat
      BY PendingAssumption
    <3>1. tx \in Nat
      BY <1>1, <3>0, Zenon
    <3>2. below \subseteq gone /\ tx \notin below
      BY <3>1
    <3> HIDE DEF below
    <3> QED
      BY <1>1, <3>2
  <2>2. sum(below) = SumAmounts(below)
    BY <1>2
  <2> HIDE DEF below
  <2>3. SumAmounts(below \cup {tx}) = SumAmounts(below) + Amount[tx]
    BY <2>1, AmountsAdd
  <2>4. SumAmounts(below \cup {tx}) <= SumAmounts(Held)
    BY <1>1, <2>1, AmountsWithin
  <2>5. SumAmounts(below) \in Nat /\ SumAmounts(Held) \in Nat /\ Amount[tx] \in Nat \ {0}
    BY <1>1, <2>1, AmountsType, AmountsOne, Zenon
  <2>6. pending + sum(below) # 0
    BY <2>2, <2>3, <2>4, <2>5
  <2> QED
    BY <2>6 DEF below
<1>4. Released(State, gone) = pending + sum(gone)
  BY <1>3, Zenon DEF Released, State
<1>5. sum(gone) = SumAmounts(gone)
  BY <1>2
<1>6. SumAmounts(Held) = SumAmounts(gone) + SumAmounts(Held \ gone)
  BY <1>1, AmountsSplit
<1>7. SumAmounts(gone) \in Nat /\ SumAmounts(Held \ gone) \in Nat
  BY <1>1, AmountsType
<1> HIDE DEF sum
<1> QED
  BY <1>4, <1>5, <1>6, <1>7

LEMMA ExactHandleTx ==
  ASSUME TypeInv, OwnerInv, PendingExact, NEW tx \in Tx, HandleTx(tx)
  PROVE  /\ OwnerInv' /\ PendingExact'
         /\ DOMAIN my_pending' = DOMAIN my_pending \ {tx}
<1>1. CASE tx \notin DOMAIN my_pending
  <2>1. UNCHANGED <<my_pending, pending, call, unused, torn>>
    BY <1>1 DEF HandleTx, Become, PendingDelete, State, chainVars
  <2>2. Entering' = Entering
    BY <2>1 DEF Entering, At
  <2> QED
    BY <1>1, <2>1, <2>2, OwnerShrinks, ExactStays, Zenon
<1>2. CASE tx \in DOMAIN my_pending
  <2>1. /\ my_pending' = Erase(my_pending, {tx})
        /\ pending' = IF pending # 0 THEN pending + my_pending[tx] ELSE 0
        /\ UNCHANGED <<call, unused, torn>>
    BY <1>2 DEF HandleTx, Become, PendingDelete, State, chainVars
  <2>2. /\ DOMAIN my_pending' = DOMAIN my_pending \ {tx}
        /\ \A x \in DOMAIN my_pending' : my_pending'[x] = my_pending[x]
    BY <2>1 DEF Erase
  <2>3. OwnerInv'
    BY <2>1, <2>2, OwnerShrinks
  <2>4. Entering' = Entering
    BY <2>1 DEF Entering, At
  <2>5. Held' = Held \ {tx} /\ Held \in SUBSET Tx /\ tx \in Held
    BY <1>2, <2>2, <2>4, HeldType, Zenon DEF Held
  <2>6. /\ SumAmounts(Held \ {tx}) = SumAmounts(Held) - Amount[tx]
        /\ SumAmounts(Held) \in Nat /\ SumAmounts(Held \ {tx}) \in Nat /\ Amount[tx] \in Nat \ {0}
    BY <2>5, AmountsRemove, Zenon
  <2>7. my_pending[tx] = Amount[tx]
    BY <1>2 DEF OwnerInv
  <2>8. ASSUME Cancels \subseteq unused, ~torn PROVE pending' = -SumAmounts(Held \ {tx})
    <3>1. pending = -SumAmounts(Held)
      BY <2>8 DEF PendingExact, Held
    <3> QED
      BY <3>1, <2>1, <2>6, <2>7
  <2>9. PendingExact'
    BY <2>1, <2>5, <2>8, Zenon DEF PendingExact, Held, SumAmounts
  <2> QED
    BY <2>2, <2>3, <2>9
<1> QED
  BY <1>1, <1>2

LEMMA ExactEndBlock ==
  ASSUME TypeInv, OwnerInv, PendingExact, EndBlock
  PROVE  /\ OwnerInv' /\ PendingExact'
         /\ DOMAIN my_pending' = DOMAIN my_pending \cap mempool
<1> DEFINE gone == DOMAIN my_pending \ mempool
<1>1. /\ my_pending' = Erase(my_pending, gone) /\ pending' = Released(State, gone)
      /\ UNCHANGED <<call, unused, torn>>
  BY DEF EndBlock, Become, PendingCheck, Deleted, State, chainVars
<1>2. /\ DOMAIN my_pending' = DOMAIN my_pending \ gone
      /\ \A x \in DOMAIN my_pending' : my_pending'[x] = my_pending[x]
  BY <1>1 DEF Erase
<1>3. OwnerInv'
  BY <1>1, <1>2, OwnerShrinks
<1>4. Entering' = Entering
  BY <1>1 DEF Entering, At
<1>5. Held' = Held \ gone /\ gone \in SUBSET DOMAIN my_pending
  BY <1>2, <1>4, HeldType DEF Held
<1>6. DOMAIN my_pending' = DOMAIN my_pending \cap mempool
  BY <1>2
<1> HIDE DEF gone
<1>7. ASSUME Cancels \subseteq unused, ~torn PROVE pending' = -SumAmounts(Held \ gone)
  <2>1. pending = -SumAmounts(Held)
    BY <1>7 DEF PendingExact, Held
  <2> QED
    BY <2>1, <1>1, <1>5, ReleasedAll, Zenon
<1>8. PendingExact'
  BY <1>1, <1>5, <1>7, Zenon DEF PendingExact, Held, SumAmounts
<1> QED
  BY <1>3, <1>6, <1>8

LEMMA ExactReorganise ==
  ASSUME TypeInv, OwnerInv, PendingExact, NEW txs \in SUBSET Tx, Reorganise(txs)
  PROVE  OwnerInv' /\ PendingExact'
<1>1. /\ DOMAIN my_pending' = {} /\ pending' = 0
      /\ UNCHANGED <<call, unused>>
  BY DEF Reorganise
<1>2. OwnerInv'
  BY <1>1, OwnerShrinks
<1>3. ASSUME Cancels \subseteq unused', ~torn' PROVE Entering' = {}
  <2>1. \A t \in Thread : At(t, "insert") => call[t].tx \in Cancels
    BY <1>3, Zenon DEF Reorganise
  <2>2. \A t \in Thread : At(t, "insert") => call[t].tx \notin Cancels
    BY <1>1, <1>3 DEF OwnerInv, At
  <2> QED
    BY <1>1, <2>1, <2>2 DEF Entering, At
<1>4. ASSUME Cancels \subseteq unused', ~torn' PROVE DOMAIN my_pending' \cup Entering' = {}
  BY <1>1, <1>3, <1>4
<1>5. PendingExact'
  BY <1>1, <1>4, AmountsEmpty DEF PendingExact, SumAmounts
<1> QED
  BY <1>2, <1>5

(* Steps of a thread that hold nothing back. *)
LEMMA ExactMoves ==
  ASSUME TypeInv, OwnerInv, PendingExact, NEW t \in Thread, NEW c, Moves(t, c),
         ~At(t, "insert"), c.pc # "insert", ~At(t, "idle"), c.tx = call[t].tx,
         UNCHANGED <<pending, my_pending, unused, torn>>
  PROVE  OwnerInv' /\ PendingExact'
<1>1. Entering' = Entering
  BY EnteringMoves
<1> QED
  BY <1>1, OwnerMoves, ExactStays

LEMMA ExactCommit ==
  ASSUME TypeInv, OwnerInv, PendingExact, NEW t \in Thread, Commit(t)
  PROVE  OwnerInv' /\ PendingExact'
<1> DEFINE c(p) == [pc |-> p, tx |-> call[t].tx, money |-> call[t].money]
<1>1. At(t, "commit") /\ ~At(t, "insert") /\ ~At(t, "idle")
  BY DEF Commit, At
<1>2. UNCHANGED <<pending, my_pending, unused, torn>>
  BY DEF Commit, chainVars
<1>3. ASSUME NEW p \in PCs, Goto(t, p), p # "insert" PROVE OwnerInv' /\ PendingExact'
  <2>1. Moves(t, c(p)) /\ c(p).pc = p /\ c(p).tx = call[t].tx
    BY <1>3, GotoMoves
  <2> QED
    BY <1>1, <1>2, <1>3, <2>1, ExactMoves, Zenon
<1>4. ASSUME Goto(t, "insert"), call[t].tx \in Cancels PROVE OwnerInv' /\ PendingExact'
  <2>1. Moves(t, c("insert"))
    BY <1>4, GotoMoves, Zenon DEF PCs
  <2>2. OwnerInv'
    BY <1>1, <1>2, <2>1, OwnerMoves, Zenon
  <2>3. ~(Cancels \subseteq unused)
    BY <1>1, <1>4 DEF OwnerInv
  <2> QED
    BY <1>2, <2>2, <2>3 DEF PendingExact
<1>5. Goto(t, "idle") \/ Goto(t, "subtract") \/ (Goto(t, "insert") /\ call[t].tx \in Cancels)
  BY DEF Commit
<1> QED
  BY <1>3, <1>4, <1>5 DEF PCs

LEMMA ExactBegin ==
  ASSUME TypeInv, OwnerInv, PendingExact, NEW t \in Thread, NEW tx \in Tx, Begin(t, tx)
  PROVE  OwnerInv' /\ PendingExact'
<1> DEFINE c == [pc |-> IF tx \in Cancels THEN "commit" ELSE "money", tx |-> tx, money |-> 0]
<1>1. IsCall(c) /\ c.tx = tx /\ c.pc # "insert"
  BY DEF IsCall, PCs
<1>2. /\ call' = [call EXCEPT ![t] = c]
      /\ At(t, "idle") /\ ~At(t, "insert") /\ tx \in unused /\ unused' = unused \ {tx}
      /\ UNCHANGED <<pending, my_pending, torn>>
  BY DEF Begin, At, chainVars
<1> HIDE DEF c
<1>3. Moves(t, c)
  BY <1>1, <1>2 DEF Moves
<1>4. OwnerInv'
  BY <1>1, <1>2, <1>3, OwnerBegins, Zenon
<1>5. Entering' = Entering
  BY <1>1, <1>2, <1>3, EnteringMoves, Zenon
<1>6. PendingExact'
  BY <1>2, <1>5, ExactStays
<1> QED
  BY <1>4, <1>6

-----------------------------------------------------------------------------
(* Types, and what is pending, at every step *)

LEMMA TypeMoves ==
  ASSUME TypeInv, NEW t \in Thread, NEW c, Moves(t, c), unused' \in SUBSET Tx,
         mempool' \in SUBSET Tx, pending' \in Int, UNCHANGED <<balance, connecting, tip, reorgs>>
  PROVE  TypeInv'
<1>1. Calls(call')
  BY MovesOne
<1>2. Calls(call)'
  BY <1>1 DEF Calls, IsCall
<1> QED
  BY <1>2 DEF TypeInv

LEMMA TypeBlock ==
  ASSUME TypeInv, UNCHANGED <<call, unused>>, mempool' \in SUBSET Tx, pending' \in Int,
         connecting' \in [busy : BOOLEAN, todo : SUBSET Tx, back : SUBSET Tx],
         tip'.txs \in SUBSET Tx, reorgs' \in Nat, reorgs' = 0 => balance' \in Int
  PROVE  TypeInv'
<1>1. Calls(call)'
  BY DEF TypeInv, Calls, IsCall
<1> QED
  BY <1>1 DEF TypeInv

LEMMA TipType ==
  ASSUME NEW txs \in SUBSET Tx, NEW before, NEW n
  PROVE  Tip(txs, before, n).txs \in SUBSET Tx
BY DEF Tip

LEMMA ReleasedType ==
  ASSUME TypeInv, OwnerInv, NEW gone \in SUBSET DOMAIN my_pending
  PROVE  Released(State, gone) \in Int
<1>1. [tx \in gone |-> my_pending[tx]] = [tx \in gone |-> Amount[tx]] /\ gone \in SUBSET Tx
  BY DEF OwnerInv
<1>2. SumOf([tx \in gone |-> my_pending[tx]]) \in Nat
  BY <1>1, AmountsType DEF SumAmounts
<1> DEFINE all == SumOf([tx \in gone |-> my_pending[tx]])
<1>3. Released(State, gone) = 0 \/ Released(State, gone) = pending + all
  BY Zenon DEF Released, State
<1> HIDE DEF all
<1>4. all \in Nat /\ pending \in Int
  BY <1>2 DEF all, TypeInv
<1> QED
  BY <1>3, <1>4

ExactInv == TypeInv /\ OwnerInv /\ PendingExact

LEMMA ExactThread ==
  ASSUME ExactInv, NEW t \in Thread, Step(t)
  PROVE  ExactInv'
<1> USE DEF ExactInv
<1> DEFINE c(p) == [pc |-> p, tx |-> call[t].tx, money |-> call[t].money]
<1>1. CASE ReadMoney(t)
  <2> DEFINE d == [pc |-> "pending", tx |-> call[t].tx, money |-> balance]
  <2>1. Moves(t, d) /\ d.pc = "pending" /\ d.tx = call[t].tx
    BY <1>1, ReadMoneyMoves
  <2> HIDE DEF d
  <2>2. /\ ~At(t, "insert") /\ ~At(t, "idle")
        /\ UNCHANGED <<balance, pending, my_pending, mempool, unused, connecting, tip, reorgs, torn>>
    BY <1>1 DEF ReadMoney, At, chainVars
  <2>3. TypeInv'
    BY <2>1, <2>2, TypeMoves, Zenon DEF TypeInv
  <2> QED
    BY <2>1, <2>2, <2>3, ExactMoves, Zenon
<1>2. CASE ReadPending(t)
  <2>1. /\ ~At(t, "insert") /\ ~At(t, "idle")
        /\ UNCHANGED <<balance, pending, my_pending, mempool, unused, connecting, tip, reorgs, torn>>
        /\ \E p \in {"idle", "commit"} : Goto(t, p)
    BY <1>2 DEF ReadPending, At, chainVars
  <2>2. PICK p \in {"idle", "commit"} : Goto(t, p)
    BY <2>1
  <2>3. Moves(t, c(p)) /\ c(p).pc = p /\ c(p).tx = call[t].tx
    BY <2>2, GotoMoves, Zenon DEF PCs
  <2>4. TypeInv'
    BY <2>1, <2>3, TypeMoves, Zenon DEF TypeInv
  <2> QED
    BY <2>1, <2>3, <2>4, ExactMoves, Zenon
<1>3. CASE Commit(t)
  <2>1. /\ mempool' = mempool \/ mempool' = mempool \cup {call[t].tx}
        /\ UNCHANGED <<balance, pending, unused, connecting, tip, reorgs>>
        /\ \E p \in PCs : Goto(t, p)
    BY <1>3 DEF Commit, chainVars, PCs
  <2>2. PICK p \in PCs : Goto(t, p)
    BY <2>1
  <2>3. Moves(t, c(p))
    BY <2>2, GotoMoves
  <2>4. call[t].tx \in Tx
    BY <1>3 DEF OwnerInv, Commit, At
  <2>5. TypeInv'
    BY <2>1, <2>3, <2>4, TypeMoves, Zenon DEF TypeInv
  <2> QED
    BY <1>3, <2>5, ExactCommit
<1>4. CASE Subtract(t)
  <2>1. Moves(t, c("insert"))
    BY <1>4, GotoMoves, Zenon DEF Subtract, PCs
  <2>2. call[t].tx \in Tx /\ ~At(t, "idle")
    BY <1>4 DEF OwnerInv, Subtract, At
  <2>3. /\ pending' = pending - Amount[call[t].tx]
        /\ UNCHANGED <<balance, my_pending, mempool, unused, connecting, tip, reorgs>>
    BY <1>4 DEF Subtract, chainVars
  <2>4. pending' \in Int
    <3>1. Amount[call[t].tx] \in Nat \ {0} /\ pending \in Int
      BY <2>2, AmountsOne, Zenon DEF TypeInv
    <3> QED
      BY <2>3, <3>1
  <2>5. TypeInv'
    BY <2>1, <2>3, <2>4, TypeMoves, Zenon DEF TypeInv
  <2>6. OwnerInv'
    BY <2>1, <2>2, <2>3, OwnerMoves, Zenon
  <2> QED
    BY <1>4, <2>5, <2>6, ExactSubtract, Zenon
<1>5. CASE Insert(t)
  <2>1. Moves(t, NoCall)
    BY <1>5 DEF Moves, Insert, NoCall, IsCall, PCs
  <2>2. UNCHANGED <<balance, pending, mempool, unused, connecting, tip, reorgs>>
    BY <1>5 DEF Insert, chainVars
  <2>3. TypeInv'
    BY <2>1, <2>2, TypeMoves, Zenon DEF TypeInv
  <2> QED
    BY <1>5, <2>3, ExactInsert
<1> QED
  BY <1>1, <1>2, <1>3, <1>4, <1>5, Zenon DEF Step

LEMMA ExactBlock ==
  ASSUME ExactInv,
         \/ \E txs \in SUBSET Tx : ConnectBlock(txs) \/ Reorganise(txs)
         \/ \E tx \in Tx : HandleTx(tx) \/ Evict(tx)
         \/ EndBlock
  PROVE  ExactInv'
<1> USE DEF ExactInv
<1>1. ASSUME NEW txs \in SUBSET Tx, ConnectBlock(txs) PROVE ExactInv'
  <2>1. /\ UNCHANGED <<balance, pending, my_pending, call, unused, reorgs, torn>>
        /\ tip' = Tip(txs, balance, reorgs) /\ mempool' = mempool \ txs
        /\ connecting' = [busy |-> TRUE, todo |-> txs, back |-> {}]
    BY <1>1 DEF ConnectBlock
  <2>2. tip'.txs \in SUBSET Tx
    BY <2>1, TipType, Zenon
  <2>3. TypeInv'
    BY <2>1, <2>2, TypeBlock, Zenon DEF TypeInv
  <2>4. Entering' = Entering
    BY <2>1 DEF Entering, At
  <2> QED
    BY <2>1, <2>3, <2>4, OwnerShrinks, ExactStays, Zenon
<1>2. ASSUME NEW txs \in SUBSET Tx, Reorganise(txs) PROVE ExactInv'
  <2>1. /\ UNCHANGED <<call, unused>> /\ reorgs' = reorgs + 1 /\ pending' = 0
        /\ tip' = Tip(txs, tip.before, reorgs + 1) /\ mempool' = mempool \ txs
        /\ connecting' = [busy |-> TRUE, todo |-> txs, back |-> tip.txs \ txs]
    BY <1>2, Zenon DEF Reorganise
  <2>2. tip'.txs \in SUBSET Tx
    BY <2>1, TipType, Zenon
  <2>3. TypeInv'
    <3>1. reorgs' \in Nat /\ reorgs' # 0 /\ pending' \in Int
      BY <2>1 DEF TypeInv
    <3>2. mempool' \in SUBSET Tx
      BY <2>1, Zenon DEF TypeInv
    <3>3. connecting' \in [busy : BOOLEAN, todo : SUBSET Tx, back : SUBSET Tx]
      BY <2>1 DEF TypeInv
    <3> QED
      BY <2>1, <2>2, <3>1, <3>2, <3>3, TypeBlock, Zenon
  <2> QED
    BY <1>2, <2>3, ExactReorganise
<1>3. ASSUME NEW tx \in Tx, HandleTx(tx) PROVE ExactInv'
  <2>1. /\ UNCHANGED <<call, unused, mempool, tip, reorgs>>
        /\ connecting' = [connecting EXCEPT !.todo = @ \ {tx}]
        /\ balance' = Executed(balance, tx)
        /\ pending' = PendingDelete(State, tx).held
    BY <1>3 DEF HandleTx, Become, chainVars
  <2>2. connecting' \in [busy : BOOLEAN, todo : SUBSET Tx, back : SUBSET Tx]
    BY <2>1 DEF TypeInv
  <2>3. Amount[tx] \in Nat \ {0} /\ (tx \in DOMAIN my_pending => my_pending[tx] = Amount[tx])
    BY AmountsOne, Zenon DEF OwnerInv
  <2>4. pending' \in Int
    BY <2>1, <2>3 DEF TypeInv, PendingDelete, State
  <2>5. reorgs = 0 => balance' \in Int
    BY <2>1, <2>3 DEF TypeInv, Executed
  <2>6. TypeInv'
    BY <2>1, <2>2, <2>4, <2>5, TypeBlock, Zenon DEF TypeInv
  <2> QED
    BY <1>3, <2>6, ExactHandleTx, Zenon
<1>4. ASSUME NEW tx \in Tx, Evict(tx) PROVE ExactInv'
  <2>1. /\ UNCHANGED <<balance, pending, my_pending, call, unused, connecting, tip, reorgs, torn>>
        /\ mempool' = mempool \ {tx}
    BY <1>4 DEF Evict, chainVars
  <2>2. TypeInv'
    BY <2>1, TypeBlock, Zenon DEF TypeInv
  <2>3. Entering' = Entering
    BY <2>1, Zenon DEF Entering, At
  <2> QED
    BY <2>1, <2>2, <2>3, OwnerShrinks, ExactStays, Zenon
<1>5. ASSUME EndBlock PROVE ExactInv'
  <2> DEFINE gone == DOMAIN my_pending \ mempool
  <2>1. /\ UNCHANGED <<balance, call, unused, tip, reorgs>>
        /\ connecting' = [busy |-> FALSE, todo |-> {}, back |-> {}]
        /\ mempool' = mempool \cup connecting.back /\ pending' = Released(State, gone)
    BY <1>5, Zenon DEF EndBlock, Become, PendingCheck, Deleted, State, Idle, chainVars
  <2>2. pending' \in Int
    BY <2>1, ReleasedType
  <2>3. TypeInv'
    BY <2>1, <2>2, TypeBlock, Zenon DEF TypeInv
  <2> QED
    BY <1>5, <2>3, ExactEndBlock
<1> QED
  BY <1>1, <1>2, <1>3, <1>4, <1>5, Zenon

LEMMA ExactBegins ==
  ASSUME ExactInv, NEW t \in Thread, NEW tx \in Tx, Begin(t, tx)
  PROVE  ExactInv'
<1> USE DEF ExactInv
<1> DEFINE c == [pc |-> IF tx \in Cancels THEN "commit" ELSE "money", tx |-> tx, money |-> 0]
<1>1. IsCall(c)
  BY DEF IsCall, PCs
<1>2. /\ call' = [call EXCEPT ![t] = c] /\ unused' = unused \ {tx}
      /\ UNCHANGED <<balance, pending, mempool, connecting, tip, reorgs>>
  BY DEF Begin, chainVars
<1> HIDE DEF c
<1>3. Moves(t, c)
  BY <1>1, <1>2 DEF Moves
<1>4. TypeInv'
  BY <1>2, <1>3, TypeMoves, Zenon DEF TypeInv
<1> QED
  BY <1>4, ExactBegin

LEMMA ExactInit == Init => ExactInv
<1> SUFFICES ASSUME Init PROVE ExactInv
  OBVIOUS
<1>1. NoCall = [pc |-> "idle", tx |-> 0, money |-> 0] /\ IsCall(NoCall)
  BY DEF NoCall, IsCall, PCs
<1>2. call = [t \in Thread |-> NoCall]
  BY DEF Init
<1>3. Calls(call)
  BY <1>1, <1>2 DEF Calls
<1>4. Tip({}, FirstBalance, 0).txs \in SUBSET Tx
  BY TipType
<1>5. TypeInv
  BY <1>3, <1>4, PendingAssumption DEF TypeInv, Init, Idle
<1>6. DOMAIN my_pending = {} /\ \A t \in Thread : At(t, "idle")
  BY <1>1, <1>2 DEF Init, At
<1>7. OwnerInv
  BY <1>6 DEF OwnerInv
<1>8. DOMAIN my_pending \cup Entering = {}
  BY <1>6 DEF Entering, At
<1>9. pending = -SumAmounts(DOMAIN my_pending \cup Entering)
  <2>1. \A n, p \in Int : p + n = 0 => p = -n
    OBVIOUS
  <2> DEFINE sum == SumAmounts(DOMAIN my_pending \cup Entering)
  <2>2. sum \in Int /\ pending \in Int /\ pending + sum = 0
    <3>1. sum = 0 /\ pending = 0
      <4>1. sum = 0
        BY <1>8, AmountsEmpty, Zenon
      <4>2. pending = 0
        BY Zenon DEF Init
      <4> QED
        BY <4>1, <4>2, Zenon
    <3> HIDE DEF sum
    <3> QED
      BY <3>1
  <2> HIDE DEF sum
  <2>3. pending = -sum
    BY <2>1, <2>2
  <2> QED
    BY <2>3 DEF sum
<1>10. PendingExact
  BY <1>9 DEF PendingExact
<1> QED
  BY <1>5, <1>7, <1>10 DEF ExactInv

LEMMA ExactStep == ExactInv /\ [Next]_vars => ExactInv'
<1> SUFFICES ASSUME ExactInv, [Next]_vars PROVE ExactInv'
  OBVIOUS
<1>1. ASSUME UNCHANGED vars PROVE ExactInv'
  <2>1. UNCHANGED <<balance, pending, my_pending, call, unused, mempool, connecting, tip, reorgs, torn>>
    BY <1>1 DEF vars, chainVars
  <2>2. TypeInv'
    BY <2>1, TypeBlock, Zenon DEF ExactInv, TypeInv
  <2>3. Entering' = Entering
    BY <2>1 DEF Entering, At
  <2> QED
    BY <2>1, <2>2, <2>3, OwnerShrinks, ExactStays, Zenon DEF ExactInv
<1> QED
  BY <1>1, ExactBegins, ExactThread, ExactBlock, Zenon DEF Next

LEMMA ExactInvariant == Spec => []ExactInv
BY ExactInit, ExactStep, PTL DEF Spec

(* However calls, blocks, evictions and reorganisations interleave, for    *)
(* any number of threads and transactions: the tally PENDING is minus the  *)
(* sum of the amounts of the transactions pending or being entered, until  *)
(* a cancel is made or a reorganisation tears PendingAdd (pending.cpp).    *)
THEOREM HeldIsPending == Spec => []PendingExact
BY ExactInvariant, PTL DEF ExactInv

-----------------------------------------------------------------------------
(* Calls that do not race spend what there is *)

Alone == ~raced /\ reorgs = 0 /\ Cancels \subseteq unused

Coming == mempool \cup connecting.todo

BlockInv ==
    /\ reorgs = 0 => ~torn /\ connecting.back = {}
    /\ mempool \cap connecting.todo = {}
    /\ ~connecting.busy => connecting.todo = {}

(* One call at a time.  What is coming has been entered, or is the call's  *)
(* own; what a call has read is the balance; and what a call is about to   *)
(* commit is left over from what is coming.                                *)
AloneInv ==
    /\ \A t, u \in Thread : t # u => At(t, "idle") \/ At(u, "idle")
    /\ \A tx \in Coming : \/ tx \in DOMAIN my_pending
                          \/ \E t \in Thread : /\ At(t, "subtract") \/ At(t, "insert")
                                               /\ call[t].tx = tx
    /\ \A t \in Thread : At(t, "pending") => call[t].money = balance
    /\ \A t \in Thread : At(t, "commit") =>
         SumAmounts(Coming) + Amount[call[t].tx] <= balance
    /\ SumAmounts(Coming) <= balance

SpendInv == BlockInv /\ (Alone => AloneInv)

LEMMA ComingType ==
  ASSUME ExactInv
  PROVE  Coming \in SUBSET Tx /\ SumAmounts(Coming) \in Nat
<1>1. Coming \in SUBSET Tx
  BY DEF ExactInv, TypeInv, Coming
<1> QED
  BY <1>1, AmountsType

(* The only call that is under way goes on. *)
LEMMA AloneMoves ==
  ASSUME ExactInv, AloneInv, NEW t \in Thread, NEW c, Moves(t, c), ~At(t, "idle"),
         UNCHANGED balance,
         \A tx \in Coming' : \/ tx \in DOMAIN my_pending'
                             \/ (c.pc = "subtract" \/ c.pc = "insert") /\ c.tx = tx,
         c.pc = "pending" => c.money = balance,
         c.pc = "commit" => SumAmounts(Coming') + Amount[c.tx] <= balance,
         SumAmounts(Coming') <= balance
  PROVE  AloneInv'
<1>1. call'[t] = c /\ \A u \in Thread \ {t} : call'[u] = call[u]
  BY MovesOne DEF ExactInv
<1>2. \A u \in Thread \ {t} : call[u].pc = "idle" /\ call'[u].pc = "idle"
  BY <1>1 DEF AloneInv, At
<1>3. SumAmounts(Coming)' = SumAmounts(Coming')
  BY Zenon DEF SumAmounts
<1>4. \A v, u \in Thread : v # u => call'[v].pc = "idle" \/ call'[u].pc = "idle"
  BY <1>2
<1>5. \A tx \in Coming' : \/ tx \in DOMAIN my_pending'
                          \/ \E u \in Thread : /\ call'[u].pc = "subtract" \/ call'[u].pc = "insert"
                                               /\ call'[u].tx = tx
  BY <1>1
<1>6. \A u \in Thread : call'[u].pc = "pending" => call'[u].money = balance'
  BY <1>1, <1>2
<1>7. \A u \in Thread : call'[u].pc = "commit" =>
         SumAmounts(Coming') + Amount[call'[u].tx] <= balance'
  BY <1>1, <1>2, Zenon
<1> QED
  BY <1>3, <1>4, <1>5, <1>6, <1>7, Zenon DEF AloneInv, At

(* What is coming has been entered, but for the transaction of the call. *)
LEMMA AloneBefore ==
  ASSUME AloneInv, NEW t \in Thread, ~At(t, "idle")
  PROVE  \A tx \in Coming : \/ tx \in DOMAIN my_pending
                            \/ (At(t, "subtract") \/ At(t, "insert")) /\ call[t].tx = tx
BY DEF AloneInv, At

LEMMA AloneThread ==
  ASSUME ExactInv, SpendInv, NEW t \in Thread, Step(t)
  PROVE  SpendInv'
<1> DEFINE c(p) == [pc |-> p, tx |-> call[t].tx, money |-> call[t].money]
<1>1. /\ UNCHANGED <<balance, connecting, unused, raced, reorgs, torn, tip>>
      /\ ~At(t, "idle") /\ (Alone' => Alone)
      /\ mempool' = mempool \/ (mempool' = mempool \cup {call[t].tx} /\ ~connecting.busy)
  BY DEF Step, ReadMoney, ReadPending, Commit, Subtract, Insert, chainVars, At, Alone
<1>2. BlockInv'
  BY <1>1 DEF SpendInv, BlockInv
<1>3. SUFFICES ASSUME Alone, AloneInv PROVE AloneInv'
  BY <1>1, <1>2 DEF SpendInv
<1>4. Coming \in SUBSET Tx /\ SumAmounts(Coming) \in Nat
  BY ComingType
<1>5. \A tx \in Coming : \/ tx \in DOMAIN my_pending
                         \/ (At(t, "subtract") \/ At(t, "insert")) /\ call[t].tx = tx
  BY <1>1, <1>3, AloneBefore, Zenon
<1>6. TypeInv /\ OwnerInv /\ call[t].tx \in Tx /\ call[t].tx \notin Cancels
  BY <1>1, <1>3, Zenon DEF ExactInv, OwnerInv, Alone
<1>7. Amount[call[t].tx] \in Nat \ {0} /\ balance \in Int /\ SumAmounts(Coming) <= balance
  BY <1>3, <1>6, AmountsOne, Zenon DEF TypeInv, AloneInv, Alone
<1>8. CASE ReadMoney(t)
  <2> DEFINE d == [pc |-> "pending", tx |-> call[t].tx, money |-> balance]
  <2>1. Moves(t, d) /\ d.pc = "pending" /\ d.money = balance
    BY <1>6, <1>8, ReadMoneyMoves, Zenon
  <2> HIDE DEF d
  <2>2. Coming' = Coming /\ UNCHANGED my_pending /\ ~At(t, "subtract") /\ ~At(t, "insert")
    BY <1>8 DEF Coming, ReadMoney, At
  <2> QED
    BY <1>1, <1>3, <1>5, <1>7, <2>1, <2>2, AloneMoves, Zenon
<1>9. CASE ReadPending(t)
  <2>1. /\ Coming' = Coming /\ UNCHANGED my_pending /\ At(t, "pending")
        /\ ~At(t, "subtract") /\ ~At(t, "insert")
    BY <1>9 DEF Coming, ReadPending, At
  <2>2. CASE Goto(t, "idle")
    <3>1. Moves(t, c("idle")) /\ c("idle").pc = "idle"
      BY <1>6, <2>2, GotoMoves, Zenon DEF PCs
    <3> QED
      BY <1>1, <1>3, <1>5, <1>7, <2>1, <3>1, AloneMoves, Zenon
  <2>3. CASE Goto(t, "commit") /\ ~(Available(call[t].money, pending) < Amount[call[t].tx])
    <3>1. /\ Moves(t, c("commit")) /\ c("commit").pc = "commit"
          /\ c("commit").tx = call[t].tx
      BY <1>6, <2>3, GotoMoves, Zenon DEF PCs
    <3>2. pending = -SumAmounts(Held) /\ Held \in SUBSET Tx /\ Coming \in SUBSET Held
      <4>1. ~torn
        BY <1>3, Zenon DEF SpendInv, BlockInv, Alone
      <4> QED
        BY <1>3, <1>5, <1>6, <2>1, <4>1, HeldType, Zenon DEF ExactInv, PendingExact, Held, Alone
    <3>3. SumAmounts(Coming) <= SumAmounts(Held) /\ SumAmounts(Held) \in Nat
      BY <3>2, AmountsWithin, AmountsType, Zenon
    <3>4. call[t].money = balance
      BY <1>3, <2>1, Zenon DEF AloneInv
    <3>5. SumAmounts(Coming) + Amount[call[t].tx] <= balance
      BY <1>4, <1>7, <2>3, <3>2, <3>3, <3>4 DEF Available
    <3> QED
      BY <1>1, <1>3, <1>5, <1>7, <2>1, <3>1, <3>5, AloneMoves, Zenon
  <2> QED
    BY <1>9, <2>2, <2>3, Zenon DEF ReadPending
<1>10. CASE Commit(t)
  <2>1. ~At(t, "subtract") /\ ~At(t, "insert") /\ At(t, "commit") /\ UNCHANGED my_pending
    BY <1>10 DEF Commit, At
  <2>2. CASE Goto(t, "idle") /\ UNCHANGED mempool
    <3>1. Moves(t, c("idle")) /\ c("idle").pc = "idle" /\ Coming' = Coming
      BY <1>1, <1>6, <2>2, GotoMoves, Zenon DEF PCs, Coming
    <3> QED
      BY <1>1, <1>3, <1>5, <1>7, <2>1, <3>1, AloneMoves, Zenon
  <2>3. CASE Goto(t, "subtract") /\ mempool' = mempool \cup {call[t].tx}
    <3>1. /\ Moves(t, c("subtract")) /\ c("subtract").pc = "subtract"
          /\ c("subtract").tx = call[t].tx
      BY <1>6, <2>3, GotoMoves, Zenon DEF PCs
    <3>2. Coming' = Coming \cup {call[t].tx}
      BY <1>1, <2>3 DEF Coming
    <3>3. call[t].tx \notin Coming
      BY <1>1, <1>5, <1>6, <2>1, Zenon DEF OwnerInv
    <3>4. SumAmounts(Coming \cup {call[t].tx}) = SumAmounts(Coming) + Amount[call[t].tx]
      BY <1>4, <1>6, <3>3, AmountsAdd, Zenon
    <3>5. SumAmounts(Coming') <= balance
      BY <1>3, <2>1, <3>2, <3>4, Zenon DEF AloneInv
    <3>6. \A tx \in Coming' : tx \in DOMAIN my_pending' \/ call[t].tx = tx
      BY <1>5, <2>1, <3>2, Zenon
    <3> QED
      BY <1>1, <1>3, <3>1, <3>5, <3>6, AloneMoves, Zenon
  <2> QED
    BY <1>6, <1>10, <2>2, <2>3, Zenon DEF Commit
<1>11. CASE Subtract(t)
  <2>1. Coming' = Coming /\ UNCHANGED my_pending
    BY <1>11 DEF Coming, Subtract
  <2>2. /\ Moves(t, c("insert")) /\ c("insert").pc = "insert"
        /\ c("insert").tx = call[t].tx
    BY <1>6, <1>11, GotoMoves, Zenon DEF PCs, Subtract
  <2> QED
    BY <1>1, <1>3, <1>5, <1>7, <2>1, <2>2, AloneMoves, Zenon
<1>12. CASE Insert(t)
  <2>1. Coming' = Coming /\ Moves(t, NoCall) /\ NoCall.pc = "idle"
    BY <1>12 DEF Coming, Moves, Insert, NoCall, IsCall, PCs
  <2>2. DOMAIN my_pending' = DOMAIN my_pending \cup {call[t].tx}
    BY <1>12 DEF Insert, Put
  <2>3. \A tx \in Coming' : tx \in DOMAIN my_pending'
    BY <1>5, <2>1, <2>2, Zenon
  <2> QED
    BY <1>1, <1>3, <1>7, <2>1, <2>3, AloneMoves, Zenon
<1> QED
  BY <1>8, <1>9, <1>10, <1>11, <1>12, Zenon DEF Step

LEMMA AloneBegins ==
  ASSUME ExactInv, SpendInv, NEW t \in Thread, NEW tx \in Tx, Begin(t, tx)
  PROVE  SpendInv'
<1> DEFINE c == [pc |-> IF tx \in Cancels THEN "commit" ELSE "money", tx |-> tx, money |-> 0]
<1>1. /\ call' = [call EXCEPT ![t] = c] /\ unused' = unused \ {tx} /\ tx \in unused
      /\ raced' = (raced \/ \E u \in Thread : ~At(u, "idle"))
      /\ UNCHANGED <<balance, my_pending, mempool, connecting, reorgs, torn>>
  BY DEF Begin, chainVars
<1>2. BlockInv'
  BY <1>1 DEF SpendInv, BlockInv
<1>3. SUFFICES ASSUME Alone' PROVE AloneInv'
  BY <1>2 DEF SpendInv
<1>4. AloneInv /\ tx \notin Cancels /\ \A u \in Thread : call[u].pc = "idle"
  BY <1>1, <1>3, Zenon DEF SpendInv, Alone, At
<1>5. IsCall(c) /\ c.pc = "money"
  BY <1>4 DEF IsCall, PCs
<1> HIDE DEF c
<1>6. Moves(t, c)
  BY <1>1, <1>5 DEF Moves
<1>7. call'[t].pc = "money" /\ \A u \in Thread \ {t} : call'[u].pc = "idle"
  BY <1>4, <1>5, <1>6, MovesOne, Zenon DEF ExactInv
<1>8. Coming' = Coming /\ SumAmounts(Coming)' = SumAmounts(Coming)
  BY <1>1 DEF Coming, SumAmounts
<1>9. \A x \in Coming : x \in DOMAIN my_pending
  BY <1>4, Zenon DEF AloneInv, At
<1>10. SumAmounts(Coming) <= balance
  BY <1>4 DEF AloneInv
<1> QED
  BY <1>1, <1>7, <1>8, <1>9, <1>10, Zenon DEF AloneInv, At

LEMMA AloneHandleTx ==
  ASSUME ExactInv, SpendInv, NEW tx \in Tx, HandleTx(tx)
  PROVE  SpendInv'
<1>1. /\ tx \in connecting.todo /\ connecting' = [connecting EXCEPT !.todo = @ \ {tx}]
      /\ balance' = Executed(balance, tx)
      /\ raced' = (raced \/ \E t \in Thread : At(t, "pending"))
      /\ UNCHANGED <<mempool, call, unused, reorgs, torn>>
  BY DEF HandleTx, chainVars
<1>2. /\ connecting'.todo = connecting.todo \ {tx} /\ connecting'.busy = connecting.busy
      /\ connecting'.back = connecting.back
  BY <1>1 DEF ExactInv, TypeInv
<1>3. BlockInv'
  BY <1>1, <1>2 DEF SpendInv, BlockInv
<1>4. SUFFICES ASSUME Alone' PROVE AloneInv'
  BY <1>3 DEF SpendInv
<1>5. Alone /\ AloneInv /\ \A t \in Thread : call[t].pc # "pending"
  BY <1>1, <1>4, Zenon DEF SpendInv, Alone, At
<1>6. /\ Coming \in SUBSET Tx /\ tx \in Coming /\ Coming' = Coming \ {tx}
      /\ SumAmounts(Coming)' = SumAmounts(Coming')
  BY <1>1, <1>2, ComingType, Zenon DEF SpendInv, BlockInv, Coming, SumAmounts
<1>7. /\ SumAmounts(Coming \ {tx}) = SumAmounts(Coming) - Amount[tx]
      /\ SumAmounts(Coming) \in Nat /\ SumAmounts(Coming \ {tx}) \in Nat
      /\ Amount[tx] \in Nat \ {0}
  BY <1>6, AmountsRemove
<1>8. tx \notin Cancels
  BY <1>5, <1>6 DEF AloneInv, Alone, ExactInv, OwnerInv, At
<1>9. balance \in Int /\ SumAmounts(Coming) <= balance
  BY <1>5, Zenon DEF AloneInv, ExactInv, TypeInv, Alone
<1>10. balance' = balance - Amount[tx]
  BY <1>1, <1>7, <1>8, <1>9 DEF Executed
<1>11. DOMAIN my_pending' = DOMAIN my_pending \ {tx}
  BY ExactHandleTx DEF ExactInv
<1>12. \A t, u \in Thread : t # u => call[t].pc = "idle" \/ call[u].pc = "idle"
  BY <1>5 DEF AloneInv, At
<1>13. \A x \in Coming' :
         \/ x \in DOMAIN my_pending'
         \/ \E t \in Thread : /\ call[t].pc = "subtract" \/ call[t].pc = "insert"
                              /\ call[t].tx = x
  BY <1>5, <1>6, <1>11, Zenon DEF AloneInv, At
<1>14. ASSUME NEW t \in Thread, call[t].pc = "commit"
       PROVE  SumAmounts(Coming') + Amount[call[t].tx] <= balance'
  <2>1. SumAmounts(Coming) + Amount[call[t].tx] <= balance
    BY <1>5, <1>14, Zenon DEF AloneInv, At
  <2>2. Amount[call[t].tx] \in Nat
    BY <1>14, AmountsOne, Zenon DEF ExactInv, OwnerInv, At
  <2> QED
    BY <1>6, <1>7, <1>9, <1>10, <2>1, <2>2
<1>15. SumAmounts(Coming') <= balance'
  BY <1>6, <1>7, <1>9, <1>10
<1>16. \A t \in Thread : call[t].pc # "pending"
  BY <1>5
<1>17. call' = call /\ SumAmounts(Coming)' = SumAmounts(Coming')
  BY <1>1, <1>6
<1> QED
  BY <1>12, <1>13, <1>14, <1>15, <1>16, <1>17, Zenon DEF AloneInv, At

(* Less is coming, and nothing that is coming is forgotten. *)
LEMMA AloneShrinks ==
  ASSUME ExactInv, AloneInv, UNCHANGED <<call, balance>>, reorgs = 0, Coming' \in SUBSET Coming,
         Coming' \cap DOMAIN my_pending \subseteq DOMAIN my_pending'
  PROVE  AloneInv'
<1>1. SumAmounts(Coming)' = SumAmounts(Coming')
  BY DEF SumAmounts
<1>2. /\ SumAmounts(Coming') <= SumAmounts(Coming)
      /\ SumAmounts(Coming) \in Nat /\ SumAmounts(Coming') \in Nat
  BY ComingType, AmountsWithin, AmountsType
<1>3. balance \in Int /\ SumAmounts(Coming) <= balance
  BY Zenon DEF ExactInv, TypeInv, AloneInv
<1>4. ASSUME NEW t \in Thread, call[t].pc = "commit"
      PROVE  SumAmounts(Coming') + Amount[call[t].tx] <= balance
  <2>1. SumAmounts(Coming) + Amount[call[t].tx] <= balance
    BY <1>4 DEF AloneInv, At
  <2>2. Amount[call[t].tx] \in Nat
    BY <1>4, AmountsOne, Zenon DEF ExactInv, OwnerInv, At
  <2> QED
    BY <1>2, <1>3, <2>1, <2>2
<1>5. SumAmounts(Coming') <= balance
  BY <1>2, <1>3
<1>6. \A x \in Coming' :
        \/ x \in DOMAIN my_pending'
        \/ \E t \in Thread : /\ call[t].pc = "subtract" \/ call[t].pc = "insert"
                             /\ call[t].tx = x
  BY DEF AloneInv, At
<1>7. /\ \A t, u \in Thread : t # u => call[t].pc = "idle" \/ call[u].pc = "idle"
      /\ \A t \in Thread : call[t].pc = "pending" => call[t].money = balance
  BY DEF AloneInv, At
<1> QED
  BY <1>1, <1>4, <1>5, <1>6, <1>7, Zenon DEF AloneInv, At

LEMMA AloneBlock ==
  ASSUME ExactInv, SpendInv,
         \/ \E txs \in SUBSET Tx : ConnectBlock(txs) \/ Reorganise(txs)
         \/ \E tx \in Tx : HandleTx(tx) \/ Evict(tx)
         \/ EndBlock
  PROVE  SpendInv'
<1>1. ASSUME NEW txs \in SUBSET Tx, ConnectBlock(txs) PROVE SpendInv'
  <2>1. /\ UNCHANGED <<balance, my_pending, call, unused, reorgs, raced, torn>>
        /\ txs \subseteq mempool /\ mempool' = mempool \ txs /\ ~connecting.busy
        /\ connecting' = [busy |-> TRUE, todo |-> txs, back |-> {}]
    BY <1>1, Zenon DEF ConnectBlock
  <2>2. BlockInv' /\ Coming' = Coming /\ (Alone' => Alone)
    BY <2>1 DEF SpendInv, BlockInv, Coming, Alone
  <2>3. ASSUME Alone, AloneInv PROVE AloneInv'
    BY <2>1, <2>2, <2>3, AloneShrinks, Zenon DEF Alone
  <2> QED
    BY <2>2, <2>3 DEF SpendInv
<1>2. ASSUME NEW txs \in SUBSET Tx, Reorganise(txs) PROVE SpendInv'
  <2>1. /\ reorgs' = reorgs + 1 /\ reorgs \in Nat /\ mempool' = mempool \ txs
        /\ connecting' = [busy |-> TRUE, todo |-> txs, back |-> tip.txs \ txs]
    BY <1>2, Zenon DEF Reorganise, ExactInv, TypeInv
  <2>2. reorgs' # 0
    BY <2>1
  <2> QED
    BY <2>1, <2>2, Zenon DEF SpendInv, BlockInv, Alone
<1>3. ASSUME NEW tx \in Tx, Evict(tx) PROVE SpendInv'
  <2>1. /\ UNCHANGED <<balance, my_pending, call, unused, connecting, reorgs, raced, torn>>
        /\ mempool' = mempool \ {tx}
    BY <1>3 DEF Evict, chainVars
  <2>2. BlockInv' /\ Coming' \in SUBSET Coming /\ (Alone' => Alone)
    BY <2>1 DEF SpendInv, BlockInv, Coming, Alone
  <2>3. ASSUME Alone, AloneInv PROVE AloneInv'
    BY <2>1, <2>2, <2>3, AloneShrinks, Zenon DEF Alone
  <2> QED
    BY <2>2, <2>3 DEF SpendInv
<1>4. ASSUME EndBlock PROVE SpendInv'
  <2>1. /\ UNCHANGED <<balance, call, unused, reorgs, raced, torn>>
        /\ connecting.todo = {} /\ mempool' = mempool \cup connecting.back
        /\ connecting' = [busy |-> FALSE, todo |-> {}, back |-> {}]
    BY <1>4 DEF EndBlock, Idle, chainVars
  <2>2. BlockInv' /\ (Alone' => Alone)
    BY <2>1 DEF SpendInv, BlockInv, Alone
  <2>3. ASSUME Alone, AloneInv PROVE AloneInv'
    <3>1. Coming' = mempool /\ Coming = mempool
      BY <2>1, <2>3, Zenon DEF SpendInv, BlockInv, Alone, Coming
    <3>2. DOMAIN my_pending' = DOMAIN my_pending \cap mempool
      BY <1>4, ExactEndBlock DEF ExactInv
    <3> QED
      BY <2>1, <2>3, <3>1, <3>2, AloneShrinks, Zenon DEF Alone
  <2> QED
    BY <2>2, <2>3 DEF SpendInv
<1> QED
  BY <1>1, <1>2, <1>3, <1>4, AloneHandleTx, Zenon

LEMMA SpendInit == Init => SpendInv
<1> SUFFICES ASSUME Init PROVE SpendInv
  OBVIOUS
<1>1. BlockInv /\ Coming = {}
  BY DEF Init, Idle, BlockInv, Coming
<1>2. \A t \in Thread : At(t, "idle")
  BY DEF Init, NoCall, At
<1>3. SumAmounts(Coming) <= balance
  BY <1>1, AmountsEmpty, PendingAssumption DEF Init
<1> QED
  BY <1>1, <1>2, <1>3, Zenon DEF SpendInv, AloneInv, At

LEMMA SpendStep == ExactInv /\ SpendInv /\ [Next]_vars => SpendInv'
<1> SUFFICES ASSUME ExactInv, SpendInv, [Next]_vars PROVE SpendInv'
  OBVIOUS
<1>1. ASSUME UNCHANGED vars PROVE SpendInv'
  <2>1. UNCHANGED <<balance, my_pending, call, unused, mempool, connecting, raced, reorgs, torn>>
    BY <1>1 DEF vars, chainVars
  <2>2. BlockInv' /\ Coming' = Coming /\ (Alone' => Alone)
    BY <2>1 DEF SpendInv, BlockInv, Coming, Alone
  <2>3. ASSUME Alone, AloneInv PROVE AloneInv'
    BY <2>1, <2>2, <2>3, AloneShrinks, Zenon DEF Alone
  <2> QED
    BY <2>2, <2>3 DEF SpendInv
<1> QED
  BY <1>1, AloneBegins, AloneThread, AloneBlock, Zenon DEF Next

(* For any number of threads and transactions: as long as no call overlaps *)
(* with another one or with a transaction of a block between its two       *)
(* reads, and up to the first cancel and the first reorganisation, what    *)
(* the node has in the mempool and in the block being connected is covered *)
(* by the balance (RequireBalance, GetAvailableTokenBalance, PendingAdd).  *)
THEOREM NothingOverspent == Spec => []NoOverspend
<1>1. SpendInv => NoOverspend
  BY DEF SpendInv, AloneInv, Alone, Coming, NoOverspend
<1> QED
  BY <1>1, SpendInit, SpendStep, ExactInvariant, PTL DEF Spec

-----------------------------------------------------------------------------
(* PendingCheck deletes one entry after the other *)

LEMMA EntriesAbove ==
  ASSUME NEW D \in SUBSET Nat, NEW gone \in SUBSET D, NEW tx \in gone, \A x \in gone : x <= tx
  PROVE  /\ {x \in gone : x < tx} = gone \ {tx}
         /\ \A y \in gone \ {tx} : {x \in gone : x < y} = {x \in gone \ {tx} : x < y}
<1>1. \A x \in gone : x \in Nat
  OBVIOUS
<1>2. \A x \in gone : x < tx <=> x # tx
  BY <1>1
<1>3. \A y \in gone : ~(tx < y)
  BY <1>1
<1> QED
  BY <1>2, <1>3, Zenon

(* The loop of PendingCheck (pending.cpp:81): to delete the entries of     *)
(* gone together is to call PendingDelete for each, in the order of the    *)
(* map, the credits that PendingDelete leaves out included.                *)
THEOREM CheckDeletesEach ==
  ASSUME NEW D \in SUBSET Nat, IsFiniteSet(D), NEW m \in [D -> Nat], NEW h \in Int,
         NEW gone \in SUBSET D
  PROVE  LET state == [map |-> m, held |-> h]
         IN  /\ Deleted(state, {}) = state
             /\ \A tx \in gone : (\A x \in gone : x <= tx) =>
                  Deleted(state, gone) = PendingDelete(Deleted(state, gone \ {tx}), tx)
<1> DEFINE state == [map |-> m, held |-> h]
           sum(txs) == SumOf([x \in txs |-> m[x]])
<1>1. ASSUME NEW txs PROVE
        Released(state, txs) =
          IF \E y \in txs : h + sum({x \in txs : x < y}) = 0 THEN 0 ELSE h + sum(txs)
  BY DEF Released
<1>2. sum({}) = 0
  <2> DEFINE f == [x \in {} |-> m[x]]
  <2>1. f \in [{} -> Nat] /\ \A x \in {} : f[x] = 0
    OBVIOUS
  <2> HIDE DEF f
  <2>2. SumOf(f) = 0
    BY <2>1, SumOfZero, Zenon
  <2> QED
    BY <2>2 DEF f
<1>3. ASSUME NEW txs \in SUBSET D PROVE sum(txs) \in Nat
  BY <1>3, SumOfPart, Zenon
<1> HIDE DEF sum
<1>4. Deleted(state, {}) = state
  <2>1. Released(state, {}) = h
    BY <1>1, <1>2
  <2>2. Erase(m, {}) = m
    BY DEF Erase
  <2> QED
    BY <2>1, <2>2 DEF Deleted
<1>5. ASSUME NEW tx \in gone, \A x \in gone : x <= tx
      PROVE  Deleted(state, gone) = PendingDelete(Deleted(state, gone \ {tx}), tx)
  <2> DEFINE rest == gone \ {tx}
  <2>1. /\ {x \in gone : x < tx} = rest
        /\ \A y \in rest : {x \in gone : x < y} = {x \in rest : x < y}
    BY <1>5, EntriesAbove
  <2>2. sum(gone) = sum(rest) + m[tx] /\ sum(rest) \in Nat /\ m[tx] \in Nat
    <3> DEFINE g == [x \in gone |-> m[x]]
               one == [x \in {tx} |-> g[x]]
    <3>1. IsFiniteSet(gone) /\ g \in [gone -> Nat] /\ {tx} \in SUBSET gone
      <4>1. IsFiniteSet(gone)
        BY FS_Subset, Zenon
      <4>2. {tx} \in SUBSET gone
        BY Zenon
      <4>3. \A x \in gone : m[x] \in Nat
        BY Zenon
      <4> QED
        BY <4>1, <4>2, <4>3, Zenon
    <3>2. one \in [{tx} -> Nat] /\ one[tx] = m[tx] /\ [x \in rest |-> g[x]] = [x \in rest |-> m[x]]
      OBVIOUS
    <3> HIDE DEF g
    <3>3. SumOf(g) = SumOf(one) + SumOf([x \in gone \ {tx} |-> g[x]])
      <4>1. \A f \in [gone -> Nat], T \in SUBSET gone :
              SumOf(f) = SumOf([x \in T |-> f[x]]) + SumOf([x \in gone \ T |-> f[x]])
        BY <3>1, SumOfSplit, Zenon
      <4> QED
        BY <3>1, <4>1, Zenon
    <3> HIDE DEF one
    <3>4. SumOf(one) = m[tx]
      BY <3>2, SumOfSingleton
    <3>5. SumOf(g) = sum(gone)
      BY DEF g, sum
    <3>6. SumOf([x \in gone \ {tx} |-> g[x]]) = sum(rest)
      BY <3>2, Zenon DEF sum
    <3>7. sum(rest) \in Nat /\ m[tx] \in Nat
      BY <1>3
    <3> QED
      BY <3>3, <3>4, <3>5, <3>6, <3>7
  <2>3. /\ Released(state, gone) =
             IF \E y \in gone : h + sum({x \in gone : x < y}) = 0 THEN 0 ELSE h + sum(gone)
        /\ Released(state, rest) =
             IF \E y \in rest : h + sum({x \in rest : x < y}) = 0 THEN 0 ELSE h + sum(rest)
    BY <1>1, Zenon
  <2>4. (\E y \in gone : h + sum({x \in gone : x < y}) = 0)
          <=> (\E y \in rest : h + sum({x \in rest : x < y}) = 0) \/ h + sum(rest) = 0
    BY <2>1, Zenon
  <2>5. Released(state, gone) =
          IF Released(state, rest) # 0 THEN Released(state, rest) + m[tx] ELSE 0
    <3>1. CASE \E y \in rest : h + sum({x \in rest : x < y}) = 0
      <4>1. Released(state, rest) = 0 /\ Released(state, gone) = 0
        BY <2>3, <2>4, <3>1, Zenon
      <4> QED
        BY <4>1
    <3>2. CASE ~ \E y \in rest : h + sum({x \in rest : x < y}) = 0
      <4>1. /\ Released(state, rest) = h + sum(rest)
            /\ Released(state, gone) = IF h + sum(rest) = 0 THEN 0 ELSE h + sum(gone)
        BY <2>3, <2>4, <3>2, Zenon
      <4> HIDE DEF rest, state
      <4>2. h + sum(gone) = h + sum(rest) + m[tx]
        BY <2>2
      <4> QED
        BY <4>1, <4>2
    <3> QED
      BY <3>1, <3>2, Zenon
  <2>6. /\ tx \in DOMAIN Erase(m, rest) /\ Erase(m, rest)[tx] = m[tx]
        /\ Erase(Erase(m, rest), {tx}) = Erase(m, gone)
    BY DEF Erase
  <2>7. Deleted(state, rest) = [map |-> Erase(m, rest), held |-> Released(state, rest)]
    BY DEF Deleted
  <2>8. Deleted(state, gone) = [map |-> Erase(m, gone), held |-> Released(state, gone)]
    BY DEF Deleted
  <2>9. ASSUME NEW r, r = Released(state, rest), NEW e, e = Erase(m, rest)
        PROVE  PendingDelete([map |-> e, held |-> r], tx)
                 = [map |-> Erase(e, {tx}), held |-> IF r # 0 THEN r + e[tx] ELSE 0]
    BY <2>6, <2>9, Zenon DEF PendingDelete
  <2> HIDE DEF state
  <2> QED
    BY <2>5, <2>6, <2>7, <2>8, <2>9, Zenon
<1> QED
  BY <1>4, <1>5
=============================================================================
