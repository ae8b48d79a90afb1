------------------------------- MODULE SPInfo -------------------------------
(***************************************************************************)
(* CMPSPInfo, the registry of properties: a LevelDB database whose writes  *)
(* reach the disk at once.  An entry is written when a property is created *)
(* and rewritten when it is granted, revoked or given another issuer; the  *)
(* entry it replaces is kept under the block of the update, and popBlock   *)
(* puts it back when that block leaves the chain.                          *)
(*                                                                         *)
(* Blocks are known by their hashes.  What a handler stores in an entry    *)
(* besides the bookkeeping fields is `info`.                               *)
(***************************************************************************)
EXTENDS Ecosystem

VARIABLES
    sp,         \* 's': property -> entry
    spPrev,     \* 'b': <<block of the update, property>> -> replaced entry
    txIndex,    \* 't': creating transaction -> property
    nextSPID    \* next_spid and next_test_spid, by ecosystem

spvars == <<sp, spPrev, txIndex, nextSPID>>

Ecosystems == {TL_PROPERTY_MSC, TL_PROPERTY_TMSC}

(* The identifiers init() starts from. *)
FirstSPID == [e \in Ecosystems |-> IF e = TL_PROPERTY_MSC THEN 3 ELSE TestEcoProperty1]

SPInit ==
    /\ sp = << >>
    /\ spPrev = << >>
    /\ txIndex = << >>
    /\ nextSPID = FirstSPID

hasSP(p) == p \in Ecosystems \cup DOMAIN sp

Entry(info, txid, creation, update) ==
    [info |-> info, txid |-> txid, creation_block |-> creation, update_block |-> update]

(* Mutant: the next identifier is not advanced. *)
putSP_Same(e, info, txid, hash) ==
    /\ sp' = Put(sp, nextSPID[e], Entry(info, txid, hash, hash))
    /\ txIndex' = Put(txIndex, txid, nextSPID[e])
    /\ UNCHANGED <<spPrev, nextSPID>>

(* A new property of ecosystem e, created by transaction txid of the block. *)
putSP(e, info, txid, hash) ==
    /\ sp' = Put(sp, nextSPID[e], Entry(info, txid, hash, hash))
    /\ txIndex' = Put(txIndex, txid, nextSPID[e])
    /\ nextSPID' = [nextSPID EXCEPT ![e] = @ + 1]
    /\ UNCHANGED spPrev

(* Mutant: the old entry is kept under the block that wrote it. *)
updateSP_OldKey(p, info, hash) ==
    /\ sp' = [sp EXCEPT ![p].info = info, ![p].update_block = hash]
    /\ spPrev' = Put(spPrev, <<sp[p].update_block, p>>, sp[p])
    /\ UNCHANGED <<txIndex, nextSPID>>

(* A handler of the block rewrites property p: the entry as it was moves   *)
(* to the key of the block.                                                *)
updateSP(p, info, hash) ==
    /\ sp' = [sp EXCEPT ![p].info = info, ![p].update_block = hash]
    /\ spPrev' = Put(spPrev, <<hash, p>>, sp[p])
    /\ UNCHANGED <<txIndex, nextSPID>>

Touched(hash) == {p \in DOMAIN sp : sp[p].update_block = hash}
CreatedIn(hash) == {p \in Touched(hash) : sp[p].creation_block = hash}
UpdatedIn(hash) == Touched(hash) \ CreatedIn(hash)

(* Whether popBlock finds every entry it has to put back (-3 otherwise). *)
Poppable(hash) == \A p \in UpdatedIn(hash) : <<hash, p>> \in DOMAIN spPrev

(* Mutant: the index entries of deleted properties stay. *)
popBlock_IndexKept(hash) ==
    /\ sp' = [p \in DOMAIN sp \ CreatedIn(hash) |->
                 IF p \in UpdatedIn(hash) THEN spPrev[<<hash, p>>] ELSE sp[p]]
    /\ spPrev' = Erase(spPrev, {<<hash, p>> : p \in UpdatedIn(hash)})
    /\ UNCHANGED txIndex

(* Mutant: the updated properties keep their entry. *)
popBlock_UpdatesKept(hash) ==
    /\ sp' = [p \in DOMAIN sp \ CreatedIn(hash) |-> sp[p]]
    /\ spPrev' = Erase(spPrev, {<<hash, p>> : p \in UpdatedIn(hash)})
    /\ txIndex' = Erase(txIndex, {sp[p].txid : p \in CreatedIn(hash)})

(* One batch: the properties the block created go, those it updated get    *)
(* their former entry back.                                                *)
popBlock(hash) ==
    /\ sp' = [p \in DOMAIN sp \ CreatedIn(hash) |->
                 IF p \in UpdatedIn(hash) THEN spPrev[<<hash, p>>] ELSE sp[p]]
    /\ spPrev' = Erase(spPrev, {<<hash, p>> : p \in UpdatedIn(hash)})
    /\ txIndex' = Erase(txIndex, {sp[p].txid : p \in CreatedIn(hash)})
=============================================================================
