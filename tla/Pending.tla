------------------------------ MODULE Pending ------------------------------
(***************************************************************************)
(* Pending transactions (pending.cpp): what the node has sent for its own  *)
(* addresses and not yet seen in a block is held back from the available   *)
(* balance, in the tally type PENDING and in the map my_pending.           *)
(*                                                                         *)
(* Calls of the RPC server run in several threads.  A call checks the      *)
(* balance, commits the transaction to the wallet and the mempool, and     *)
(* only then adds it to the pending ones, in two steps under two locks;    *)
(* meanwhile blocks are connected.  cs_main keeps a commit out of the      *)
(* connection of a block; cs_tally and cs_pending make single steps        *)
(* atomic.                                                                 *)
(*                                                                         *)
(* One address and one property; the ledger is reduced to that balance.    *)
(***************************************************************************)
EXTENDS Integers, TokenSum, Common, Folds

CONSTANTS
    Tx,             \* transactions, numbered in the order of their hashes
    Amount,         \* the amount of each
    Cancels,        \* those that cancel orders (fSubtract = false)
    Thread,         \* threads of the RPC server
    FirstBalance,   \* balance at the start
    MaxReorgs       \* bound on the reorganisations

VARIABLES
    balance,        \* tally type BALANCE
    pending,        \* tally type PENDING
    my_pending,     \* map: transaction -> amount
    mempool,        \* transactions in the mempool
    call,           \* what each thread does
    unused,         \* transactions nobody has made yet
    connecting,     \* transactions of the block being connected, or Idle
    tip,            \* the last block: its transactions, and the balance before;
                    \* empty once no reorganisation may come any more
    reorgs,         \* number of reorganisations
    raced,          \* whether a call has overlapped with another one, or with
                    \* a transaction of a block between its two reads
    torn            \* whether a reorganisation came between the halves of PendingAdd

chainVars == <<tip, reorgs, torn>>

vars == <<balance, pending, my_pending, mempool, call, unused, connecting, raced, chainVars>>

ASSUME PendingAssumption ==
    /\ Tx \subseteq Nat /\ IsFiniteSet(Tx) /\ Cancels \subseteq Tx
    /\ Amount \in [Tx -> Nat \ {0}]
    /\ FirstBalance \in Nat /\ MaxReorgs \in Nat

(* back: what returns to the mempool after a reorganisation *)
Idle == [busy |-> FALSE, todo |-> {}, back |-> {}]

NoCall == [pc |-> "idle", tx |-> 0, money |-> 0]

(* What has to be known of the last block. *)
Tip(txs, before, n) ==
    IF n < MaxReorgs THEN [txs |-> txs, before |-> before] ELSE [txs |-> {}, before |-> 0]

Init ==
    /\ balance = FirstBalance
    /\ pending = 0
    /\ my_pending = << >>
    /\ mempool = {}
    /\ call = [t \in Thread |-> NoCall]
    /\ unused = Tx
    /\ connecting = Idle
    /\ tip = Tip({}, FirstBalance, 0)
    /\ reorgs = 0
    /\ raced = FALSE
    /\ torn = FALSE

At(t, pc) == call[t].pc = pc

Goto(t, pc) == call' = [call EXCEPT ![t].pc = pc]

-----------------------------------------------------------------------------
(* A call arrives.  A send needs the balance (the first check of           *)
(* RequireBalance); a cancel does not.                                     *)
Begin(t, tx) ==
    /\ At(t, "idle") /\ tx \in unused
    /\ tx \in Cancels \/ balance >= Amount[tx]
    /\ unused' = unused \ {tx}
    /\ call' = [call EXCEPT ![t] = [pc |-> IF tx \in Cancels THEN "commit" ELSE "money",
                                    tx |-> tx, money |-> 0]]
    /\ raced' = (raced \/ \E u \in Thread : ~At(u, "idle"))
    /\ UNCHANGED <<balance, pending, my_pending, mempool, connecting, chainVars>>

(* GetAvailableTokenBalance reads the balance and then what is pending. *)
ReadMoney(t) ==
    /\ At(t, "money")
    /\ call' = [call EXCEPT ![t].pc = "pending", ![t].money = balance]
    /\ UNCHANGED <<balance, pending, my_pending, mempool, unused, connecting, raced, chainVars>>

(* Mutant: pending amounts are ignored. *)
Available_Gross(money, held) == money

Available(money, held) == IF held < 0 THEN money + held ELSE money

ReadPending(t) ==
    /\ At(t, "pending")
    /\ IF Available(call[t].money, pending) < Amount[call[t].tx]
       THEN Goto(t, "idle")
       ELSE Goto(t, "commit")
    /\ UNCHANGED <<balance, pending, my_pending, mempool, unused, connecting, raced, chainVars>>

(* The wallet commits the transaction, under cs_main, or refuses it. *)
Commit(t) ==
    /\ At(t, "commit") /\ ~connecting.busy
    /\ \/ /\ mempool' = mempool \cup {call[t].tx}
          /\ Goto(t, IF call[t].tx \in Cancels THEN "insert" ELSE "subtract")
       \/ /\ Goto(t, "idle")
          /\ UNCHANGED mempool
    /\ UNCHANGED <<balance, pending, my_pending, unused, connecting, raced, chainVars>>

(* PendingAdd, first half: the amount is held back. *)
Subtract(t) ==
    /\ At(t, "subtract")
    /\ pending' = pending - Amount[call[t].tx]
    /\ Goto(t, "insert")
    /\ UNCHANGED <<balance, my_pending, mempool, unused, connecting, raced, chainVars>>

(* PendingAdd, second half: the transaction is entered. *)
Insert(t) ==
    /\ At(t, "insert")
    /\ my_pending' = Put(my_pending, call[t].tx, Amount[call[t].tx])
    /\ call' = [call EXCEPT ![t] = NoCall]
    /\ UNCHANGED <<balance, pending, mempool, unused, connecting, raced, chainVars>>
-----------------------------------------------------------------------------
(* Mutant: the entry is erased and the amount stays held back. *)
PendingDelete_Kept(state, tx) ==
    [state EXCEPT !.map = Erase(state.map, {tx})]

(* The map and the amount held back after PendingDelete. *)
PendingDelete(state, tx) ==
    IF tx \notin DOMAIN state.map THEN state
    ELSE [map |-> Erase(state.map, {tx}),
          held |-> IF state.held # 0 THEN state.held + state.map[tx] ELSE 0]

State == [map |-> my_pending, held |-> pending]

Become(state) == my_pending' = state.map /\ pending' = state.held

(* Mutant: only transactions of a block are taken off. *)
PendingCheck_Never(state) == state

(* What is held back after PendingDelete for each of gone, in the order of *)
(* the hashes: once that is nothing, nothing is credited any more.         *)
Released(state, gone) ==
    LET sum(txs) == SumOf([tx \in txs |-> state.map[tx]])
    IN  IF \E tx \in gone : state.held + sum({x \in gone : x < tx}) = 0
        THEN 0 ELSE state.held + sum(gone)

Deleted(state, gone) == [map |-> Erase(state.map, gone), held |-> Released(state, gone)]

(* Every entry that is no longer in the mempool is deleted. *)
PendingCheck(state) == Deleted(state, DOMAIN state.map \ mempool)

(* A block is connected; its transactions leave the mempool first. *)
ConnectBlock(txs) ==
    /\ ~connecting.busy
    /\ txs \subseteq mempool
    /\ connecting' = [busy |-> TRUE, todo |-> txs, back |-> {}]
    /\ mempool' = mempool \ txs
    /\ tip' = Tip(txs, balance, reorgs)
    /\ UNCHANGED <<balance, pending, my_pending, call, unused, reorgs, raced, torn>>

(* The balance after the transaction: a send of too much is invalid. *)
Executed(money, tx) ==
    IF tx \in Cancels \/ money < Amount[tx] THEN money ELSE money - Amount[tx]

(* The transaction executed last: blocks here are in the order of hashes. *)
Latest(txs) == CHOOSE tx \in txs : \A x \in txs : x <= tx

(* The balance after the transactions of a block. *)
Rescanned(money, txs) ==
    MapThenFoldSet(LAMBDA tx, left : Executed(left, tx), money, LAMBDA tx : tx, Latest, txs)

(* The last block is replaced by another one.  block_begin clears the      *)
(* ledger and my_pending (clear_all_state) and scans the chain, the new    *)
(* block included, under cs_tally.  The transactions of the block that is  *)
(* gone return to the mempool when the other one is connected.             *)
Reorganise(txs) ==
    /\ ~connecting.busy
    /\ reorgs < MaxReorgs
    /\ txs \subseteq mempool \cup tip.txs
    /\ reorgs' = reorgs + 1
    /\ connecting' = [busy |-> TRUE, todo |-> txs, back |-> tip.txs \ txs]
    /\ mempool' = mempool \ txs
    /\ balance' = Rescanned(tip.before, txs)
    /\ tip' = Tip(txs, tip.before, reorgs + 1)
    /\ pending' = 0
    /\ my_pending' = << >>
    /\ torn' = (torn \/ \E t \in Thread : At(t, "insert") /\ call[t].tx \notin Cancels)
    /\ UNCHANGED <<call, unused, raced>>

(* handler_tx: pending is cleared, then the transaction is executed. *)
HandleTx(tx) ==
    /\ tx \in connecting.todo
    /\ connecting' = [connecting EXCEPT !.todo = @ \ {tx}]
    /\ Become(PendingDelete(State, tx))
    /\ balance' = Executed(balance, tx)
    /\ raced' = (raced \/ \E t \in Thread : At(t, "pending"))
    /\ UNCHANGED <<mempool, call, unused, chainVars>>

EndBlock ==
    /\ connecting.busy /\ connecting.todo = {}
    /\ connecting' = Idle
    /\ Become(PendingCheck(State))
    /\ mempool' = mempool \cup connecting.back
    /\ UNCHANGED <<balance, call, unused, raced, chainVars>>

(* A transaction is dropped from the mempool: replaced, expired, evicted. *)
Evict(tx) ==
    /\ tx \in mempool /\ ~connecting.busy
    /\ mempool' = mempool \ {tx}
    /\ UNCHANGED <<balance, pending, my_pending, call, unused, connecting, raced, chainVars>>

Step(t) == ReadMoney(t) \/ ReadPending(t) \/ Commit(t) \/ Subtract(t) \/ Insert(t)

Next ==
    \/ \E t \in Thread, tx \in Tx : Begin(t, tx)
    \/ \E t \in Thread : Step(t)
    \/ \E txs \in SUBSET Tx : ConnectBlock(txs) \/ Reorganise(txs)
    \/ \E tx \in Tx : HandleTx(tx) \/ Evict(tx)
    \/ EndBlock

Leaves(tx) == Evict(tx) \/ \E txs \in SUBSET Tx : tx \in txs /\ ConnectBlock(txs)

(* Calls run on, a block being connected gets connected, blocks keep       *)
(* coming, and no transaction stays in the mempool for ever (it is mined,  *)
(* or expires).  A commit waits for cs_main between blocks.                *)
Fairness ==
    /\ \A t \in Thread : WF_vars(Step(t)) /\ SF_vars(Commit(t))
    /\ \A tx \in Tx : WF_vars(HandleTx(tx)) /\ SF_vars(Leaves(tx))
    /\ WF_vars(EndBlock)
    /\ WF_vars(\E txs \in SUBSET Tx : ConnectBlock(txs))

Spec == Init /\ [][Next]_vars /\ Fairness
-----------------------------------------------------------------------------
SumAmounts(txs) == SumOf([tx \in txs |-> Amount[tx]])

Entering == {call[t].tx : t \in {u \in Thread : At(u, "insert")}}

(* The amount held back is exactly that of the pending transactions:       *)
(* "credited back to the pending tally" when they go.  Until a cancel is   *)
(* made: PendingDelete credits its amount too, which was never held back.  *)
(* And unless a reorganisation cleared both between the two halves of      *)
(* PendingAdd, which leaves the entry alone.                               *)
PendingExact ==
    Cancels \subseteq unused /\ ~torn => pending = -SumAmounts(DOMAIN my_pending \cup Entering)

(* A call that needs more than is left is refused with "insufficient       *)
(* balance (due to pending transactions)": what the node has in the        *)
(* mempool never exceeds the balance it will be taken from.  Calls that    *)
(* overlap may check the same tokens, and a block between the two reads of *)
(* a call hides what it spent: without such a race, and without cancels,   *)
(* it holds however calls, blocks and evictions alternate, up to the first *)
(* reorganisation, after which the node has forgotten what is pending.     *)
NoOverspend ==
    ~raced /\ reorgs = 0 /\ Cancels \subseteq unused => SumAmounts(mempool \cup connecting.todo) <= balance

(* Nothing is held back for ever: once no calls come any more every entry  *)
(* is gone, however calls, blocks and reorganisations raced, and, without  *)
(* cancels and torn entries, the whole balance is available again.         *)
EventuallyReleased ==
    /\ <>[](my_pending = << >>)
    /\ [](Cancels \subseteq unused /\ ~torn) => <>[](pending = 0)
=============================================================================
