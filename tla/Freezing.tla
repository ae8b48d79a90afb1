------------------------------ MODULE Freezing ------------------------------
(***************************************************************************)
(* Freezing of addresses by the issuer of a managed property: transactions *)
(* 71, 72, 185 and 186, the change of issuer (70), the sets they work on   *)
(* (tradelayer.cpp) and LoadFreezeState (dbtxlist.cpp), which rebuilds     *)
(* those sets after a restart by executing the valid transactions again.   *)
(*                                                                         *)
(* A handler is a function of the two sets, so that a transaction means    *)
(* the same when it arrives and when it is replayed.                       *)
(***************************************************************************)
EXTENDS Tally, Sequences, FiniteSets

CONSTANTS
    Managed,                \* managed properties
    FirstIssuer,            \* their issuer at the start
    FREEZENOTICE_FEATURE_BLOCK,
    TL_FREEZE_WAIT_PERIOD,
    ChangesAfterFreezes,    \* whether an issuer may hand over after freezing
                            \* in the same block
    MaxBlock,               \* bound on the height
    MaxTxs,                 \* bound on the valid freeze transactions
    MaxIssuers              \* bound on the issuers of a property, one after another

VARIABLES
    setFreezingEnabledProperties,  \* pairs <<property, live block>>
    historicalIssuers,             \* property -> sequence of [block, issuer]
    block,                         \* the block being processed
    txlist                         \* the valid freeze transactions, in order

ASSUME FreezingAssumption ==
    /\ Managed \subseteq Prop
    /\ Addr \subseteq Nat /\ FirstIssuer \in Addr
    /\ {FREEZENOTICE_FEATURE_BLOCK, TL_FREEZE_WAIT_PERIOD, MaxBlock, MaxTxs,
        MaxIssuers} \subseteq Nat
    /\ ChangesAfterFreezes \in BOOLEAN

vars == <<tally, setFrozenAddresses, halted, setFreezingEnabledProperties,
          historicalIssuers, block, txlist>>

Types == {"ENABLE", "DISABLE", "FREEZE", "UNFREEZE"}

(* The two sets, as the handlers see them. *)
State == [enabled |-> setFreezingEnabledProperties, frozen |-> setFrozenAddresses]

Empty == [enabled |-> {}, frozen |-> {}]

isFreezingEnabled(s, p, b) == \E e \in s.enabled : e[1] = p /\ b >= e[2]

(* Mutant: the issuer of today, whatever the block. *)
getIssuer_Current(p, b) == historicalIssuers[p][Len(historicalIssuers[p])].issuer

(* The last issuer entered for block b or an earlier one. *)
getIssuer(p, b) ==
    LET known == {i \in DOMAIN historicalIssuers[p] : historicalIssuers[p][i].block <= b}
    IN  historicalIssuers[p][CHOOSE i \in known : \A j \in known : j <= i].issuer

(* The checks of interpretPacket and of the handler that let tx pass. *)
Accepted(s, tx) ==
    /\ <<tx.sender, tx.property>> \notin s.frozen
    /\ tx.sender = getIssuer(tx.property, tx.block)
    /\ isFreezingEnabled(s, tx.property, tx.block) <=> tx.type # "ENABLE"
    /\ tx.type = "FREEZE" => <<tx.receiver, tx.property>> \notin s.frozen
    /\ tx.type = "UNFREEZE" => <<tx.receiver, tx.property>> \in s.frozen

LiveBlock(b) == IF b >= FREEZENOTICE_FEATURE_BLOCK THEN b + TL_FREEZE_WAIT_PERIOD ELSE b

LiveBlocks(s, p) == {e[2] : e \in {f \in s.enabled : f[1] = p}}

(* disableFreezing erases one entry, the latest. *)
LastLiveBlock(s, p) == CHOOSE b \in LiveBlocks(s, p) : \A c \in LiveBlocks(s, p) : c <= b

FrozenFor(s, p) == {f \in s.frozen : f[2] = p}

(* The order of setFrozenAddresses. *)
Before(f, g) == f[1] < g[1] \/ (f[1] = g[1] /\ f[2] < g[2])

(* Mutant: disabling leaves the addresses frozen. *)
After_StillFrozen(s, tx) ==
    LET p == tx.property
        pair == <<tx.receiver, p>>
    IN  CASE tx.type = "ENABLE" -> [s EXCEPT !.enabled = @ \cup {<<p, LiveBlock(tx.block)>>}]
          [] tx.type = "DISABLE" -> [s EXCEPT !.enabled = @ \ {<<p, LastLiveBlock(s, p)>>}]
          [] tx.type = "FREEZE" -> [s EXCEPT !.frozen = @ \cup {pair}]
          [] tx.type = "UNFREEZE" -> [s EXCEPT !.frozen = @ \ {pair}]

(* The sets after a handler that runs to its end. *)
After(s, tx) ==
    LET p == tx.property
        pair == <<tx.receiver, p>>
    IN  CASE tx.type = "ENABLE" -> [s EXCEPT !.enabled = @ \cup {<<p, LiveBlock(tx.block)>>}]
          [] tx.type = "DISABLE" -> [enabled |-> s.enabled \ {<<p, LastLiveBlock(s, p)>>},
                                     frozen |-> s.frozen \ FrozenFor(s, p)]
          [] tx.type = "FREEZE" -> [s EXCEPT !.frozen = @ \cup {pair}]
          [] tx.type = "UNFREEZE" -> [s EXCEPT !.frozen = @ \ {pair}]

(* How the handler may end.  disableFreezing asserts that the element      *)
(* after the one it has just erased is not frozen: that fails if there is  *)
(* one, and reads past the end of the set if there is none, which may go   *)
(* well or end the process.  The last assert fails if the property has     *)
(* been enabled by a second entry.  "disable" is a failed assert of        *)
(* disableFreezing.                                                        *)
Outcomes(s, tx) ==
    LET p == tx.property
    IN  IF tx.type # "DISABLE" THEN {"no"}
        ELSE IF \E f \in FrozenFor(s, p), g \in s.frozen : Before(f, g) THEN {"disable"}
        ELSE IF isFreezingEnabled(After(s, tx), p, LastLiveBlock(s, p)) THEN {"disable"}
        ELSE IF FrozenFor(s, p) # {} THEN {"no", "end"}
        ELSE {"no"}

-----------------------------------------------------------------------------
Init ==
    /\ tally = << >>
    /\ setFrozenAddresses = {}
    /\ halted = "no"
    /\ setFreezingEnabledProperties = {}
    /\ historicalIssuers = [p \in Managed |-> <<[block |-> 1, issuer |-> FirstIssuer]>>]
    /\ block = 1
    /\ txlist = << >>

Running == halted = "no"

Become(s) ==
    /\ setFreezingEnabledProperties' = s.enabled
    /\ setFrozenAddresses' = s.frozen

(* A transaction of the block being processed; txlist records valid ones. *)
FreezeTx(type, sender, receiver, p) ==
    LET tx == [type |-> type, sender |-> sender, receiver |-> receiver,
               property |-> p, block |-> block]
    IN  /\ Running /\ Len(txlist) < MaxTxs
        /\ Accepted(State, tx)
        /\ halted' \in Outcomes(State, tx)
        /\ IF halted' = "no" THEN Become(After(State, tx)) /\ txlist' = Append(txlist, tx)
           ELSE UNCHANGED <<setFreezingEnabledProperties, setFrozenAddresses, txlist>>
        /\ UNCHANGED <<tally, historicalIssuers, block>>

ChangeIssuer(sender, receiver, p) ==
    /\ Running
    /\ ~isAddressFrozen(sender, p)
    /\ sender = getIssuer(p, block)
    /\ Len(historicalIssuers[p]) < MaxIssuers
    /\ ChangesAfterFreezes \/ \A i \in DOMAIN txlist : txlist[i].block < block
    /\ historicalIssuers' =
           [historicalIssuers EXCEPT ![p] = Append(@, [block |-> block, issuer |-> receiver])]
    /\ UNCHANGED <<tally, setFrozenAddresses, halted, setFreezingEnabledProperties, block, txlist>>

NextBlock ==
    /\ Running /\ block < MaxBlock
    /\ block' = block + 1
    /\ UNCHANGED <<tally, setFrozenAddresses, halted, setFreezingEnabledProperties,
                   historicalIssuers, txlist>>

(* LoadFreezeState: the state after the first k transactions, or why the   *)
(* process ended ("abort" when a transaction is no longer accepted).       *)
Reloaded(k) ==
    LET replay[i \in 0 .. k] ==
            IF i = 0 THEN [state |-> Empty, halted |-> "no"]
            ELSE LET r == replay[i - 1]
                     tx == txlist[i]
                 IN  IF r.halted # "no" THEN r
                     ELSE IF ~Accepted(r.state, tx) THEN [r EXCEPT !.halted = "abort"]
                     ELSE IF "no" \notin Outcomes(r.state, tx) THEN [r EXCEPT !.halted = "disable"]
                     ELSE [r EXCEPT !.state = After(r.state, tx)]
    IN  replay[k]

(* The node restarts between two blocks, its databases up to date. *)
Restart ==
    /\ Running
    /\ \A i \in DOMAIN txlist : txlist[i].block < block
    /\ LET r == Reloaded(Len(txlist))
       IN  halted' = r.halted /\ Become(r.state)
    /\ UNCHANGED <<tally, historicalIssuers, block, txlist>>

Next ==
    \/ \E type \in Types, sender \in Addr, receiver \in Addr, p \in Managed :
           /\ type \in {"ENABLE", "DISABLE"} => receiver = sender
           /\ FreezeTx(type, sender, receiver, p)
    \/ \E sender, receiver \in Addr, p \in Managed : ChangeIssuer(sender, receiver, p)
    \/ NextBlock
    \/ Restart

Spec == Init /\ [][Next]_vars
-----------------------------------------------------------------------------
(* Freezing is "only permitted for properties managed by a central issuer  *)
(* that have enabled freezing": an address is frozen only while freezing   *)
(* is enabled for the property, whoever issued it meanwhile and however    *)
(* often freezing was switched.                                            *)
FrozenOnlyWhileEnabled ==
    Running => \A f \in setFrozenAddresses : isFreezingEnabled(State, f[2], block)

(* A restart "loads the state of any freeable properties and frozen        *)
(* addresses": the replay accepts every transaction again and arrives at   *)
(* the sets the node had.                                                  *)
RestartRestores == [][Restart => halted' = "no" /\ State' = State]_vars
=============================================================================
