-------------------------------- MODULE Fees --------------------------------
(***************************************************************************)
(* CTLFeeCache (dbfees.cpp): trading and transfer fees are taken out of    *)
(* circulation and kept per property, as a history of amounts by block,    *)
(* until they reach a threshold; then the owners of TL (of TTL in the test *)
(* ecosystem) share them.  A reorganisation rolls the history back.        *)
(*                                                                         *)
(* This is the class as its callers use it.  mastercore_init has the lines *)
(* that allocate the two fee databases commented out, so the node itself   *)
(* calls it through null pointers (see MetaDEx and Tokens).                *)
(* Properties are managed ones, whose total is counted (getTotalTokens).   *)
(***************************************************************************)
EXTENDS STO, Ecosystem, Sequences

CONSTANTS
    Endowment,          \* balances at the start
    FeeProps,           \* properties fees are taken in
    FeeAmounts,         \* amounts of fees and grants
    TL_FEE_THRESHOLD,
    MAX_STATE_HISTORY,
    MaxBlock            \* bound on the height

VARIABLES
    cache,                   \* property -> (block -> amount)
    distributionThresholds,  \* property -> threshold
    msc_debug_fees,          \* the debug option for fees, chosen at the start
    block,                   \* the block being processed
    past                     \* per block, the balances and cached amounts it
                             \* started from

vars == <<tally, setFrozenAddresses, halted, cache, distributionThresholds,
          msc_debug_fees, block, past>>

ASSUME FeesAssumption ==
    /\ Endowment \in [Addr -> [Prop -> Nat]]
    /\ FeeProps \subseteq Prop
    /\ FeeAmounts \subseteq Nat \ {0}
    /\ TL_FEE_THRESHOLD \in Nat \ {0}
    /\ {MAX_STATE_HISTORY, MaxBlock} \subseteq Nat \ {0}

FEEDISTRIBUTION == -1   \* a sender that is no address

Blocks(history) == DOMAIN history
Latest(history) == CHOOSE b \in Blocks(history) : \A c \in Blocks(history) : c <= b

GetCachedAmount(c, p) == IF Blocks(c[p]) = {} THEN 0 ELSE c[p][Latest(c[p])]

Held(c) == [p \in Prop |-> GetCachedAmount(c, p)]

getTotalTokens(t, c, p) == Supply(t, p, OwnedTypes) + GetCachedAmount(c, p)

(* A node that has just started from a state file: the thresholds are kept *)
(* in memory only.                                                         *)
Init ==
    /\ tally = [a \in Addr |-> [p \in Prop |-> [tt \in TallyType |->
                   IF tt = "BALANCE" THEN Endowment[a][p] ELSE 0]]]
    /\ setFrozenAddresses = {}
    /\ halted = "no"
    /\ cache = [p \in Prop |-> << >>]
    /\ distributionThresholds = [p \in Prop |-> 0]
    /\ msc_debug_fees \in BOOLEAN
    /\ block = 1
    /\ past = <<[tally |-> tally, held |-> Held(cache)]>>

(* Mutant: an entry is kept for a block too long. *)
Pruned_Late(history, b) ==
    LET kept == {x \in Blocks(history) : msc_debug_fees => x >= b - MAX_STATE_HISTORY - 1}
    IN  [x \in kept |-> history[x]]

(* PruneCache drops the entries that are too old, but the `continue` that  *)
(* does so is inside the condition for the log message.                    *)
Pruned(history, b) ==
    LET kept == {x \in Blocks(history) : msc_debug_fees => x >= b - MAX_STATE_HISTORY}
    IN  IF kept = {} /\ history # << >>
        THEN [x \in {Latest(history)} |-> history[x]]
        ELSE [x \in kept |-> history[x]]

Written(c, p, b, amount) == [c EXCEPT ![p] = Pruned(Put(@, b, amount), b)]

(* DistributeCache, when the cached amount has reached the threshold       *)
(* (EvalCache): everybody's share is credited and the cache is emptied; a  *)
(* share that cannot be credited, or a rest, fails an assert.              *)
Base(p) == IF isTestEcosystemProperty(p) THEN TL_PROPERTY_TMSC ELSE TL_PROPERTY_MSC

Shares(t, c, p) == STO_GetReceivers(t, FEEDISTRIBUTION, Base(p), GetCachedAmount(c, p))

Distributed(t, c, p) ==
    LET shares == Shares(t, c, p)
    IN  [a \in Addr |-> IF a \in DOMAIN shares
                        THEN [t[a] EXCEPT ![p]["BALANCE"] = @ + shares[a]] ELSE t[a]]

Distributable(t, c, p) ==
    LET shares == Shares(t, c, p)
    IN  /\ \A a \in DOMAIN shares : Updatable(t, a, p, shares[a], "BALANCE")
        /\ SumOf(shares) = GetCachedAmount(c, p)

(* Mutant: the cache is not emptied. *)
EvalCache_Kept(t, c, p, thresholds) ==
    IF GetCachedAmount(c, p) < thresholds[p]
    THEN tally' = t /\ cache' = c /\ UNCHANGED halted
    ELSE IF Distributable(t, c, p)
    THEN tally' = Distributed(t, c, p) /\ cache' = c /\ UNCHANGED halted
    ELSE halted' = "assert" /\ UNCHANGED <<tally, cache>>

EvalCache(t, c, p, thresholds) ==
    IF GetCachedAmount(c, p) < thresholds[p]
    THEN tally' = t /\ cache' = c /\ UNCHANGED halted
    ELSE IF Distributable(t, c, p)
    THEN tally' = Distributed(t, c, p) /\ cache' = Written(c, p, block, 0) /\ UNCHANGED halted
    ELSE halted' = "assert" /\ UNCHANGED <<tally, cache>>

Running == halted = "no"

Added(c, p, n) == Written(c, p, block, GetCachedAmount(c, p) + n)

(* A fee of n leaves a's balance and is cached: AddFee, as x_Trade and     *)
(* version 1 of "send to owners" call it.                                  *)
AddFee(a, p, n) ==
    /\ Running
    /\ Updatable(tally, a, p, -n, "BALANCE")
    /\ EvalCache(Updated(tally, a, p, -n, "BALANCE"), Added(cache, p, n), p,
                 distributionThresholds)
    /\ UNCHANGED <<setFrozenAddresses, distributionThresholds, block, past>>

Threshold(t, c, p) ==
    LET share == getTotalTokens(t, c, p) \div TL_FEE_THRESHOLD
    IN  IF share <= 0 THEN 1 ELSE share

(* Tokens are granted, within the limit GrantTokens sets, and              *)
(* NotifyTotalTokensChanged follows: a new threshold, and an evaluation.   *)
Grant(a, p, n) ==
    /\ Running
    /\ n <= MaxInt - getTotalTokens(tally, cache, p)
    /\ LET granted == Updated(tally, a, p, n, "BALANCE")
           thresholds == [distributionThresholds EXCEPT ![p] = Threshold(granted, cache, p)]
       IN  /\ EvalCache(granted, cache, p, thresholds)
           /\ distributionThresholds' = thresholds
    /\ UNCHANGED <<setFrozenAddresses, block, past>>

NextBlock ==
    /\ Running /\ block < MaxBlock
    /\ block' = block + 1
    /\ past' = Append(past, [tally |-> tally, held |-> Held(cache)])
    /\ UNCHANGED <<tally, setFrozenAddresses, halted, cache, distributionThresholds>>

(* Mutant: the entries of block b itself survive the rollback. *)
RolledBack_Exclusive(history, b) ==
    [x \in {y \in Blocks(history) : y <= b} |-> history[x]]

RolledBack(history, b) == [x \in {y \in Blocks(history) : y < b} |-> history[x]]

(* The blocks from b on leave the chain and another block b arrives:       *)
(* RollBackCache, and the balances of the state file of the block below.   *)
RollBackCache(b) ==
    /\ Running
    /\ block' = b
    /\ cache' = [p \in Prop |-> RolledBack(cache[p], b)]
    /\ tally' = past[b].tally
    /\ past' = SubSeq(past, 1, b)
    /\ UNCHANGED <<setFrozenAddresses, halted, distributionThresholds>>

Next ==
    /\ \/ \E a \in Addr, p \in FeeProps, n \in FeeAmounts : AddFee(a, p, n)
       \/ \E a \in Addr, p \in FeeProps, n \in FeeAmounts : Grant(a, p, n)
       \/ NextBlock
       \/ \E b \in 1 .. block : RollBackCache(b)
    /\ UNCHANGED msc_debug_fees

Spec == Init /\ [][Next]_vars
-----------------------------------------------------------------------------
(* Fees are neither lost nor invented between the payer, the cache and the *)
(* owners they are shared between: whatever AddFee and the distribution it *)
(* may set off do, balances and cache together stay what they were.        *)
FeesConserved ==
    [][(\E a \in Addr, p \in FeeProps, n \in FeeAmounts : AddFee(a, p, n))
        => \A p \in Prop : getTotalTokens(tally', cache', p) = getTotalTokens(tally, cache, p)]_vars

(* RollBackCache "rolls back the cache to an earlier state": what is       *)
(* cached after it is what was cached when the block first began.  Only    *)
(* when nothing is pruned: PruneCache drops the entry that says what was   *)
(* cached when the window of MAX_STATE_HISTORY blocks began.               *)
RollbackExact ==
    [][\A b \in 1 .. block : RollBackCache(b) /\ ~msc_debug_fees
            => Held(cache') = past[b].held]_vars

(* PruneCache "prunes entries over 50 blocks old from the entry for a      *)
(* property": a history that was just written reaches no further back than *)
(* MAX_STATE_HISTORY blocks, unless it is a single entry.  Only with the   *)
(* debug option, which by default is on.                                   *)
HistoryBounded ==
    [][\A p \in Prop : /\ msc_debug_fees /\ cache'[p] # cache[p]
                       /\ block' = block /\ block \in Blocks(cache'[p])
        => \/ \A b \in Blocks(cache'[p]) : b >= block - MAX_STATE_HISTORY
           \/ Cardinality(Blocks(cache'[p])) = 1]_vars

(* DistributeCache: "there will always be addresses holding TL, so no need *)
(* to check size>0".  If there were none, the assert that everything was   *)
(* shared would fail.                                                      *)
AlwaysAnOwner == halted # "assert"
=============================================================================
