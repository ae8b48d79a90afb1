------------------------------- MODULE Blocks -------------------------------
(***************************************************************************)
(* How blocks reach the Trade Layer: the calls ConnectTip and DisconnectTip *)
(* make (validation.cpp), the handlers and the initial scan they lead to   *)
(* (tradelayer.cpp), the list of transactions (dbtxlist.cpp), the state    *)
(* files (persistence.cpp), and what a crash or a forced shutdown leaves   *)
(* for the next start.                                                     *)
(*                                                                         *)
(* What the transactions did to the memory of the node is the sequence of  *)
(* them it has executed, from which every balance, offer and order follows, *)
(* and the record of module Activation.  The calls are spelled out as work *)
(* yet to be done, so that the node may crash between any two steps.       *)
(***************************************************************************)
EXTENDS Activation, Common, SequencesExt

CONSTANTS
    Tx,                   \* transactions that may be mined
    MaxTxs,               \* bound on the transactions of all the blocks mined
    MaxBlocks,            \* bound on the blocks mined
    MaxDisconnects,       \* bound on the blocks disconnected
    MaxCrashes,           \* bound on the crashes
    MAX_STATE_HISTORY,    \* for how many blocks state files are kept,
    STORE_EVERY_N_BLOCK   \* other than for every N-th one

VARIABLES
    mined,       \* every block ever seen: its parent (0: none) and transactions
    chain,       \* chainActive: the block at each height from GENESIS_BLOCK on
    phase,       \* "down" (not running), "starting", "up", "stopping" (a shutdown
                 \* was requested), or "restored" (from files; what they hold
                 \* is not modelled, so nothing follows)
    todo,        \* what the calls in progress have yet to do
    applied,     \* the transactions executed since the memory was cleared
    state,       \* activations and alerts
    txlist,      \* CMPTxList: transaction -> block it is recorded for
    files,       \* the blocks there are state files of
    watermark,   \* the watermark of the property registry, 0 if there is none
    reorgRecoveryMode, reorgRecoveryMaxHeight,
    recovery,    \* from a reorganisation, since the start: "none", "done" or "cut" short
    disconnects, crashes

vars == <<mined, chain, phase, todo, applied, state, txlist, files, watermark,
          reorgRecoveryMode, reorgRecoveryMaxHeight, recovery, disconnects, crashes>>

ASSUME BlocksAssumption ==
    /\ {MaxTxs, MaxBlocks, MaxDisconnects, MaxCrashes} \subseteq Nat
    /\ {MAX_STATE_HISTORY, STORE_EVERY_N_BLOCK} \subseteq Nat \ {0}

(* Work: what is to be done for the block at a height, and for which of    *)
(* its transactions.                                                       *)
Work(op, h, k) == [op |-> op, h |-> h, k |-> k]

TxsAt(h) == mined[chain[h]].txs

BlockWork(h, txs) ==
    <<Work("begin", h, 0)>> \o [k \in 1 .. Len(txs) |-> Work("tx", h, k)]
        \o <<Work("end", h, 0), Work("mark", h, 0)>>

(* msc_initial_scan, from the first block to the tip *)
ScanWork == FlattenSeq([h \in 1 .. Len(chain) |-> BlockWork(h, TxsAt(h))])

-----------------------------------------------------------------------------
(* State files *)

FileTypes == 0 .. 9   \* FILETYPES

(* statePrefix has six names for ten types. *)
NoName == "none"
statePrefix ==
    [what \in FileTypes |->
        IF what < 6 THEN <<"balances", "offers", "accepts", "globals",
                           "mdexorders", "cdexorders">>[what + 1] ELSE NoName]

(* The types PersistInMemoryState writes: all but FILETYPE_MARKETPRICES. *)
Persisted == FileTypes \ {5}

(* The files there are of a block whose state was saved: one without a     *)
(* name cannot be opened.  A crash may leave fewer, or an empty one, which *)
(* makes no difference to what can be restored.                            *)
Saved == {statePrefix[what] : what \in Persisted} \ {NoName}

(* The chain that ends with a block. *)
PathTo(b) ==
    LET path[i \in 0 .. Len(mined)] ==
            IF i = 0 THEN << >> ELSE Append(path[mined[i].parent], i)
    IN  path[b]

(* The blocks whose files prune_state_files removes when the tip is at h. *)
Outdated(h) ==
    {b \in files :
        LET height == Len(PathTo(b))
        IN  h - height > MAX_STATE_HISTORY /\ height % STORE_EVERY_N_BLOCK # 0}

IsPersistenceEnabled(h) ==
    Len(chain) <= h + MAX_STATE_HISTORY \/ h % STORE_EVERY_N_BLOCK = 0

(* LoadMostRelevantInMemoryState: the heights it may settle at.  It walks  *)
(* down from the watermark, as far as the registry can be rolled back      *)
(* (module SPRollback), to a block all of whose files can be read.         *)
Restorable(h) == chain[h] \in files /\ \A what \in FileTypes : statePrefix[what] \in Saved

LoadMostRelevantInMemoryState ==
    {-1} \cup {h \in 1 .. Len(chain) : watermark # 0 /\ Restorable(h)}

-----------------------------------------------------------------------------
Init ==
    /\ mined = << >>
    /\ chain = << >>
    /\ phase = "down"
    /\ todo = << >>
    /\ applied = << >>
    /\ state = Cleared
    /\ txlist = << >>
    /\ files = {}
    /\ watermark = 0
    /\ reorgRecoveryMode = 0
    /\ reorgRecoveryMaxHeight = 0
    /\ recovery = "none"
    /\ disconnects = 0
    /\ crashes = 0

AtRest == phase = "up" /\ todo = << >>

(* Mutant: the ledger and the books are kept. *)
clear_all_state_LedgerKept ==
    /\ state' = Cleared
    /\ watermark' = 0
    /\ txlist' = << >>
    /\ UNCHANGED applied

(* Mutant: activations and alerts are kept. *)
clear_all_state_FeaturesKept ==
    /\ applied' = << >>
    /\ watermark' = 0
    /\ txlist' = << >>
    /\ UNCHANGED state

(* Mutant: the list of transactions is kept. *)
clear_all_state_ListKept ==
    /\ applied' = << >>
    /\ state' = Cleared
    /\ watermark' = 0
    /\ UNCHANGED txlist

(* clear_all_state, of what is modelled here.  The watermark goes with the *)
(* registry.                                                               *)
clear_all_state ==
    /\ applied' = << >>
    /\ state' = Cleared
    /\ watermark' = 0
    /\ txlist' = << >>

-----------------------------------------------------------------------------
(* The chain *)

TxsOf(path) == FlattenSeq([h \in DOMAIN path |-> mined[path[h]].txs])

ChainTxs == TxsOf(chain)

Tip == IF chain = << >> THEN 0 ELSE Last(chain)

(* ConnectTip sets the tip before it calls mastercore_handler_block_begin, *)
(* which first of all recovers from a reorganisation.                      *)
ConnectTip(b, txs) ==
    /\ AtRest
    /\ chain' = Append(chain, b)
    /\ todo' = (IF reorgRecoveryMode > 0 THEN <<Work("rewind", Len(chain) + 1, 0)>> ELSE << >>)
                   \o BlockWork(Len(chain) + 1, txs)
    /\ UNCHANGED <<phase, applied, state, txlist, files, watermark, reorgRecoveryMode,
                   reorgRecoveryMaxHeight, recovery, disconnects, crashes>>

(* A new block extends the chain, or one that was disconnected comes back. *)
NewBlock(txs) ==
    /\ Len(mined) < MaxBlocks
    /\ FoldLeft(LAMBDA n, block : n + Len(block.txs), Len(txs), mined) <= MaxTxs
    /\ mined' = Append(mined, [parent |-> Tip, txs |-> txs])
    /\ ConnectTip(Len(mined) + 1, txs)

OldBlock(b) ==
    /\ mined[b].parent = Tip
    /\ ConnectTip(b, mined[b].txs)
    /\ UNCHANGED mined

(* DisconnectTip calls mastercore_handler_disc_begin. *)
DisconnectTip ==
    /\ AtRest /\ chain # << >>
    /\ disconnects < MaxDisconnects
    /\ disconnects' = disconnects + 1
    /\ chain' = Front(chain)
    /\ reorgRecoveryMode' = 1
    /\ reorgRecoveryMaxHeight' =
           IF Len(chain) > reorgRecoveryMaxHeight THEN Len(chain) ELSE reorgRecoveryMaxHeight
    /\ UNCHANGED <<mined, phase, todo, applied, state, txlist, files, watermark, recovery, crashes>>

-----------------------------------------------------------------------------
(* The steps of the handlers *)

Doing(op) == phase # "down" /\ todo # << >> /\ Head(todo).op = op

(* A start is over when its scan is. *)
Done(rest) ==
    /\ todo' = rest
    /\ phase' = IF phase = "starting" /\ rest = << >> THEN "up" ELSE phase

(* The directory of the state files is removed and a shutdown requested.   *)
(* What is in progress goes on.                                            *)
DoAbortNode(rest) ==
    /\ todo' = rest
    /\ phase' = "stopping"
    /\ files' = {}

(* The process ends, and what it had in memory with it. *)
MemoryLost ==
    /\ phase' = "down"
    /\ todo' = << >>
    /\ applied' = << >>
    /\ state' = Cleared
    /\ reorgRecoveryMode' = 0
    /\ reorgRecoveryMaxHeight' = 0
    /\ recovery' = "none"

CheckForFreezeTxs(h) == \E tx \in DOMAIN txlist : tx.kind = "freeze" /\ txlist[tx] >= h

(* RewindDBsAndState: the records of blocks that are gone are deleted; what *)
(* cannot be restored is cleared and scanned anew, up to the tip, which is *)
(* the block being connected.                                              *)
RewindDBsAndState ==
    /\ Doing("rewind")
    /\ reorgRecoveryMode' = 0
    /\ reorgRecoveryMaxHeight' = 0
    /\ recovery' = "done"
    /\ \E best \in IF CheckForFreezeTxs(Head(todo).h) THEN {-1} ELSE LoadMostRelevantInMemoryState :
           IF best < 0
           THEN /\ clear_all_state
                /\ todo' = ScanWork \o Tail(todo)
                /\ UNCHANGED phase
           ELSE /\ phase' = "restored"
                /\ todo' = << >>
                /\ watermark' = chain[best]
                /\ txlist' = Restrict(txlist, {tx \in DOMAIN txlist :
                       txlist[tx] \notin Head(todo).h .. reorgRecoveryMaxHeight})
                /\ UNCHANGED <<applied, state>>
    /\ UNCHANGED <<mined, chain, files, disconnects, crashes>>

(* A scan stops at the next block once a shutdown was requested. *)
block_begin ==
    LET h == Head(todo).h
    IN  /\ Doing("begin")
        /\ IF phase = "stopping" THEN MemoryLost /\ UNCHANGED files
           ELSE /\ state' = CheckLiveActivations(state, h)
                /\ IF MustShutDown(state, h) THEN DoAbortNode(Tail(todo))
                   ELSE Done(Tail(todo)) /\ UNCHANGED files
                /\ UNCHANGED <<applied, reorgRecoveryMode, reorgRecoveryMaxHeight, recovery>>
        /\ UNCHANGED <<mined, chain, txlist, watermark, disconnects, crashes>>

(* interpretPacket, for what module Activation is about. *)
Interpreted(s, tx, h) ==
    CASE tx.kind = "activation" -> Activation(s, tx, h)
      [] tx.kind = "deactivation" -> Deactivation(s, tx, h)
      [] tx.kind = "alert" -> Alert(s, tx)
      [] OTHER -> s

(* The transaction is executed and recorded. *)
handler_tx ==
    LET h == Head(todo).h
        tx == TxsAt(h)[Head(todo).k]
    IN  /\ Doing("tx")
        /\ applied' = Append(applied, tx)
        /\ state' = Interpreted(state, tx, h)
        /\ txlist' = Put(txlist, tx, h)
        /\ IF tx.kind = "alert" /\ ForcesUpgrade(tx) THEN DoAbortNode(Tail(todo))
           ELSE Done(Tail(todo)) /\ UNCHANGED files
        /\ UNCHANGED <<mined, chain, watermark, reorgRecoveryMode,
                       reorgRecoveryMaxHeight, recovery, disconnects, crashes>>

(* block_end, up to the watermark *)
block_end ==
    LET h == Head(todo).h
    IN  /\ Doing("end")
        /\ state' = CheckExpiredAlerts(state, h, h)
        /\ IF IsPersistenceEnabled(h)
           THEN /\ phase # "stopping" /\ Outdated(h) = {}
                /\ files' = files \cup {chain[h]}
                /\ Done(Tail(todo))
           ELSE UNCHANGED files /\ Done(Tail(Tail(todo)))
        /\ UNCHANGED <<mined, chain, applied, txlist, watermark, reorgRecoveryMode,
                       reorgRecoveryMaxHeight, recovery, disconnects, crashes>>

(* Mutant: the exception comes before any file is removed. *)
prune_state_files_NothingRemoved ==
    LET h == Head(todo).h
    IN  /\ Doing("end")
        /\ IsPersistenceEnabled(h)
        /\ \/ phase = "stopping" /\ UNCHANGED files
           \/ Outdated(h) # {} /\ files' = files \cup {chain[h]}
        /\ IF phase # "up" THEN MemoryLost
           ELSE /\ state' = CheckExpiredAlerts(state, h, h)
                /\ todo' = << >>
                /\ recovery' = IF Last(todo).h > h THEN "cut" ELSE recovery
                /\ UNCHANGED <<phase, applied, reorgRecoveryMode, reorgRecoveryMaxHeight>>
        /\ UNCHANGED <<mined, chain, txlist, watermark, disconnects, crashes>>

(* block_end when there is a block whose files are to go.  Their removal   *)
(* ends in an exception: the path of a file without a name is the          *)
(* directory itself.  So does looking for them when the directory is gone. *)
(* It unwinds all the calls in progress: a start fails with it; later the  *)
(* message loop catches it, and a node that is stopping then stops.        *)
prune_state_files ==
    LET h == Head(todo).h
    IN  /\ Doing("end")
        /\ IsPersistenceEnabled(h)
        /\ \/ phase = "stopping" /\ UNCHANGED files
           \/ \E b \in Outdated(h) : files' = (files \cup {chain[h]}) \ {b}
        /\ IF phase # "up" THEN MemoryLost
           ELSE /\ state' = CheckExpiredAlerts(state, h, h)
                /\ todo' = << >>
                /\ recovery' = IF Last(todo).h > h THEN "cut" ELSE recovery
                /\ UNCHANGED <<phase, applied, reorgRecoveryMode, reorgRecoveryMaxHeight>>
        /\ UNCHANGED <<mined, chain, txlist, watermark, disconnects, crashes>>

(* The end of PersistInMemoryState. *)
setWatermark ==
    /\ Doing("mark")
    /\ watermark' = chain[Head(todo).h]
    /\ Done(Tail(todo))
    /\ UNCHANGED <<mined, chain, applied, state, txlist, files, reorgRecoveryMode,
                   reorgRecoveryMaxHeight, recovery, disconnects, crashes>>

-----------------------------------------------------------------------------
(* Starting and stopping *)

(* The node stops, in the middle of whatever it does, and comes back with  *)
(* the chain as it was last written to disk.                               *)
Crash ==
    /\ phase # "down"
    /\ crashes < MaxCrashes
    /\ crashes' = crashes + 1
    /\ \E b \in 0 .. Len(mined) : chain' = PathTo(b)
    /\ MemoryLost
    /\ UNCHANGED <<mined, txlist, files, watermark, disconnects>>

(* mastercore_init.  The lists of activations, alerts and freezes it loads *)
(* are then empty.                                                         *)
mastercore_init ==
    /\ phase = "down"
    /\ \E best \in LoadMostRelevantInMemoryState :
           IF best < 0
           THEN /\ clear_all_state
                /\ todo' = ScanWork
                /\ phase' = IF ScanWork = << >> THEN "up" ELSE "starting"
           ELSE /\ phase' = "restored"
                /\ watermark' = chain[best]
                /\ UNCHANGED <<todo, applied, state, txlist>>
    /\ UNCHANGED <<mined, chain, files, reorgRecoveryMode, reorgRecoveryMaxHeight, recovery,
                   disconnects, crashes>>

Step == RewindDBsAndState \/ block_begin \/ handler_tx \/ block_end
        \/ prune_state_files \/ setWatermark

(* What a block may hold: transactions that are not in the chain yet. *)
Contents ==
    {txs \in UNION {[1 .. n -> Tx \ ToSet(ChainTxs)] : n \in 0 .. MaxTxs} : IsInjective(txs)}

Next ==
    \/ AtRest /\ \E txs \in Contents : NewBlock(txs)
    \/ \E b \in 1 .. Len(mined) : OldBlock(b)
    \/ DisconnectTip
    \/ Step
    \/ Crash
    \/ mastercore_init

(* The handlers run to their end, and a node that is down is started. *)
Fairness == WF_vars(Step) /\ WF_vars(mastercore_init)

Spec == Init /\ [][Next]_vars /\ Fairness
-----------------------------------------------------------------------------
(* Properties *)

(* "We should never be overwriting a tx, as that means we have redone      *)
(* something a second time" (dbtxlist.cpp:61).                             *)
NeverRedone == \A i, j \in DOMAIN applied : applied[i] = applied[j] => i = j

(* The first time each transaction was executed. *)
FirstTimes(txs) ==
    LET first == SelectSeq([k \in DOMAIN txs |-> k],
                           LAMBDA k : \A j \in 1 .. k - 1 : txs[j] # txs[k])
    IN  [i \in DOMAIN first |-> txs[first[i]]]

(* Between two blocks.  A scan that was cut short by an exception is left  *)
(* out: the node goes on without the rest of the chain, until it restarts  *)
(* or the next reorganisation.                                             *)
Settled == AtRest /\ reorgRecoveryMode = 0 /\ recovery # "cut"

(* Whatever blocks were disconnected and however often the node crashed,   *)
(* between two blocks its memory is the outcome of the transactions of the *)
(* chain, in their order, and of no others.  Unless a reorganisation was   *)
(* recovered from since the start, each of them was executed once.         *)
MemoryIsChain ==
    Settled =>
        /\ FirstTimes(applied) = ChainTxs
        /\ recovery = "none" => applied = ChainTxs

(* The list of transactions, which outlives a crash, is that of the chain: *)
(* every one is recorded for the block it is in.                           *)
ListIsChain ==
    Settled =>
        /\ DOMAIN txlist = ToSet(ChainTxs)
        /\ \A h \in 1 .. Len(chain) : \A tx \in ToSet(TxsAt(h)) : txlist[tx] = h

(* The activations and alerts a node arrives at that sees the blocks of    *)
(* the chain once and in order.                                            *)
Replayed ==
    LET after[h \in 0 .. Len(chain)] ==
            IF h = 0 THEN Cleared
            ELSE LET begun == CheckLiveActivations(after[h - 1], h)
                     done == FoldLeft(LAMBDA s, tx : Interpreted(s, tx, h), begun, TxsAt(h))
                 IN  CheckExpiredAlerts(done, h, h)
    IN  after[Len(chain)]

(* Two nodes with the same chain agree on which features are live, which   *)
(* are to come and which alerts are shown, whatever each of them went      *)
(* through, as long as no transaction was executed twice: activations are  *)
(* kept in memory only and are executed again after a restart or a         *)
(* reorganisation.                                                         *)
FeaturesFromChain ==
    Settled /\ NeverRedone =>
        /\ state.params = Replayed.params
        /\ ToSet(state.pending) = ToSet(Replayed.pending)
        /\ ToSet(state.alerts) = ToSet(Replayed.alerts)

(* "It is not permitted to activate a feature within the next 2048 blocks" *)
(* (ActivateFeature): a feature that is live, other than by default, was   *)
(* announced in the chain at least MIN_ACTIVATION_BLOCKS before.           *)
NoticeGiven ==
    Settled =>
        \A f \in Features :
            IsFeatureActivated(state, f, Len(chain)) /\ state.params[f] # Defaults[f] =>
                \E h \in 1 .. state.params[f] - MIN_ACTIVATION_BLOCKS :
                    \E tx \in ToSet(TxsAt(h)) : tx.kind = "activation" /\ tx.feature = f
                                                /\ tx.at = state.params[f]

(* A node that is down comes up again and catches up with its chain, also  *)
(* when a start fails over an outdated state file, unless it has to stop   *)
(* for a newer client.                                                     *)
ComesUp == phase = "down" ~> AtRest \/ phase = "stopping"

=============================================================================
