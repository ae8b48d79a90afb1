----------------------------- MODULE SPRollback -----------------------------
(***************************************************************************)
(* The property registry while the chain grows and is reorganised.  Blocks *)
(* are connected one at a time; their transactions create and update       *)
(* properties.  At the end of a block PersistInMemoryState writes the      *)
(* state files, next identifiers included, and sets the watermark.  When   *)
(* blocks leave the chain, LoadMostRelevantInMemoryState pops the registry *)
(* from the watermark down to the chain, and the next identifiers come     *)
(* back with the state file of the block it stops at.                      *)
(***************************************************************************)
EXTENDS SPInfo, Sequences, FiniteSets

CONSTANTS
    Info,           \* what an entry can say
    TxId,           \* creating transactions; one may return in another block
    MaxHeight,      \* bound: blocks of the chain
    Hash,           \* blocks
    TwicePerBlock   \* whether a block may update an older property twice

VARIABLES
    chain,      \* hashes of the connected blocks
    connecting, \* whether the tip's transactions are being processed
    files,      \* per block, what its end wrote: the next identifiers (the
                \* state file), and, to compare with, the registry then
    reparse     \* whether a rollback failed and all state has to be rebuilt

vars == <<spvars, chain, connecting, files, reparse>>

ASSUME RollbackAssumption ==
    /\ MaxHeight \in Nat
    /\ TwicePerBlock \in BOOLEAN

(* The main ecosystem has identifiers for the properties of all creating   *)
(* transactions: in the code, for more than 2^31 of them.                  *)
ASSUME IdentifiersSuffice ==
    IsFiniteSet(TxId) /\ Cardinality(TxId) <= TestEcoProperty1 - 3

tip == chain[Len(chain)]

Init ==
    /\ SPInit
    /\ chain = << >>
    /\ connecting = FALSE
    /\ files = << >>
    /\ reparse = FALSE

(* A block that has left the chain may come back. *)
block_begin(hash) ==
    /\ ~connecting /\ ~reparse
    /\ Len(chain) < MaxHeight
    /\ hash \notin {chain[i] : i \in DOMAIN chain}
    /\ chain' = Append(chain, hash)
    /\ connecting' = TRUE
    /\ UNCHANGED <<spvars, files, reparse>>

(* A creating transaction is in the chain at most once. *)
CreateProperty(e, info, txid) ==
    /\ connecting
    /\ txid \notin {sp[p].txid : p \in DOMAIN sp}
    /\ putSP(e, info, txid, tip)
    /\ UNCHANGED <<chain, connecting, files, reparse>>

UpdateProperty(p, info) ==
    /\ connecting
    /\ sp[p].update_block = tip /\ sp[p].creation_block # tip => TwicePerBlock
    /\ updateSP(p, info, tip)
    /\ UNCHANGED <<chain, connecting, files, reparse>>

block_end ==
    /\ connecting
    /\ connecting' = FALSE
    /\ files' = Append(files, [next |-> nextSPID, sp |-> sp])
    /\ UNCHANGED <<spvars, chain, reparse>>

(* One round of the loop that follows the chain back, and the state file   *)
(* of the block it arrives at.                                             *)
Disconnect ==
    /\ ~connecting /\ ~reparse
    /\ Len(chain) > 1
    /\ IF Poppable(tip)
       THEN /\ popBlock(tip)
            /\ nextSPID' = files[Len(files) - 1].next
            /\ UNCHANGED reparse
       ELSE reparse' = TRUE /\ UNCHANGED spvars
    /\ chain' = SubSeq(chain, 1, Len(chain) - 1)
    /\ files' = SubSeq(files, 1, Len(files) - 1)
    /\ UNCHANGED <<connecting>>

Next ==
    \/ \E hash \in Hash : block_begin(hash)
    \/ \E e \in Ecosystems, info \in Info, txid \in TxId : CreateProperty(e, info, txid)
    \/ \E p \in DOMAIN sp, info \in Info : UpdateProperty(p, info)
    \/ block_end
    \/ Disconnect

Spec == Init /\ [][Next]_vars
-----------------------------------------------------------------------------
(* putSP never meets another property under the identifier it hands out    *)
(* (its "sanity checking"), rollbacks and re-created properties included:  *)
(* every identifier in use is below the next one of its ecosystem.         *)
IdentifiersFresh ==
    \A p \in DOMAIN sp :
        p < nextSPID[IF isTestEcosystemProperty(p) THEN TL_PROPERTY_TMSC ELSE TL_PROPERTY_MSC]

(* findSPByTX names the property a transaction created, and finds it       *)
(* exactly while it exists.                                                *)
IndexExact ==
    /\ \A p \in DOMAIN sp : sp[p].txid \in DOMAIN txIndex /\ txIndex[sp[p].txid] = p
    /\ \A t \in DOMAIN txIndex : txIndex[t] \in DOMAIN sp /\ sp[txIndex[t]].txid = t

(* "failed to find a previous SP entry, trigger reparse" (popBlock) does   *)
(* not happen: every block of the chain can be rolled back.                *)
RollbackPossible == ~reparse

(* Popping a block puts the registry back as it was at the end of the      *)
(* block below: between blocks it is the one recorded for the tip.         *)
RollbackExact ==
    ~connecting /\ ~reparse /\ files # << >> => sp = files[Len(files)].sp
=============================================================================
