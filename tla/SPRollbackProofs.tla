-------------------------- MODULE SPRollbackProofs --------------------------
(***************************************************************************)
(* Rolling back the property registry, for any blocks, transactions and    *)
(* height of the chain: when no block updates an older property twice,     *)
(* every block can be popped, and popping it restores the registry, its    *)
(* index and the next identifiers.                                         *)
(***************************************************************************)
EXTENDS SPRollback, FiniteSetTheorems, TLAPS

(* The provers of a step that names none, with their time limits. *)
USE SMTT(20), ZenonT(20)

Entries == [info : Info, txid : TxId, creation_block : Hash, update_block : Hash]

(* The identifiers handed out when n are the next ones. *)
Used(n) == (3 .. n[TL_PROPERTY_MSC] - 1)
              \cup (TestEcoProperty1 .. n[TL_PROPERTY_TMSC] - 1)

NextIds == {n \in [Ecosystems -> Nat] :
               /\ n[TL_PROPERTY_MSC] \in 3 .. TestEcoProperty1
               /\ n[TL_PROPERTY_TMSC] >= TestEcoProperty1}

(* A registry s and the next identifiers n that belong together: no        *)
(* identifier was skipped, and every property has its own transaction.     *)
RegistryOK(n, s) ==
    /\ n \in NextIds
    /\ s \in [Used(n) -> Entries]
    /\ \A p, q \in Used(n) : s[p].txid = s[q].txid => p = q

(* What was written at the end of block i; nothing at the end of block 0. *)
Saved(i) == IF i = 0 THEN [next |-> FirstSPID, sp |-> << >>] ELSE files[i]

(* The entries of s were written by blocks among the first i. *)
WrittenBy(i, s) ==
    \A p \in DOMAIN s : \E c, u \in 1 .. i :
        s[p].creation_block = chain[c] /\ s[p].update_block = chain[u]

(* What the registry keeps of block h suffices to get from t, the registry *)
(* after it, to s, the one before: a property is untouched, or created, or *)
(* updated, and then the entry it had is kept under the block.             *)
Untouched(h, s, t, p) == p \in DOMAIN s /\ t[p] = s[p] /\ t[p].update_block # h

Created(h, s, t, p) ==
    p \notin DOMAIN s /\ t[p].creation_block = h /\ t[p].update_block = h

Replaced(h, s, t, p) ==
    /\ p \in DOMAIN s
    /\ t[p].update_block = h /\ t[p].creation_block # h
    /\ t[p].txid = s[p].txid
    /\ <<h, p>> \in DOMAIN spPrev /\ spPrev[<<h, p>>] = s[p]

Undoable(h, s, t) ==
    /\ DOMAIN s \subseteq DOMAIN t
    /\ \A p \in DOMAIN t :
           Untouched(h, s, t, p) \/ Created(h, s, t, p) \/ Replaced(h, s, t, p)

(* The files written for the blocks of the chain. *)
FileOK(i) ==
    /\ RegistryOK(Saved(i).next, Saved(i).sp)
    /\ WrittenBy(i, Saved(i).sp)
    /\ i > 0 => Undoable(chain[i], Saved(i - 1).sp, Saved(i).sp)

Registries == UNION {[Used(n) -> Entries] : n \in NextIds}

ChainOK ==
    /\ chain \in Seq(Hash)
    /\ files \in Seq([next : NextIds, sp : Registries])
    /\ connecting \in BOOLEAN
    /\ Len(chain) = IF connecting THEN Len(files) + 1 ELSE Len(files)
    /\ \A i, j \in 1 .. Len(chain) : chain[i] = chain[j] => i = j

(* The registry, compared with the end of the last block. *)
CurrentOK ==
    /\ RegistryOK(nextSPID, sp)
    /\ WrittenBy(Len(chain), sp)
    /\ connecting => Undoable(tip, Saved(Len(files)).sp, sp)
    /\ ~connecting => /\ sp = Saved(Len(files)).sp
                      /\ nextSPID = Saved(Len(files)).next

RollbackInv ==
    /\ ChainOK
    /\ \A i \in 0 .. Len(files) : FileOK(i)
    /\ CurrentOK
    /\ IndexExact
    /\ ~reparse

-----------------------------------------------------------------------------
(* Identifiers *)

(* While a creating transaction is left the main ecosystem has an          *)
(* identifier for it below those of the test ecosystem.                    *)
LEMMA MainFits ==
  ASSUME NEW n, NEW s, RegistryOK(n, s), NEW txid \in TxId,
         txid \notin {s[p].txid : p \in DOMAIN s}
  PROVE  n[TL_PROPERTY_MSC] < TestEcoProperty1
<1> DEFINE m == n[TL_PROPERTY_MSC]
           A == 3 .. m - 1
           B == TxId \ {txid}
           f == [p \in A |-> s[p].txid]
<1>1. m \in Nat /\ m >= 3 /\ TestEcoProperty1 \in Nat
  BY EcosystemAssumption DEF RegistryOK, NextIds
<1>2. s \in [Used(n) -> Entries] /\ A \subseteq Used(n)
  BY DEF RegistryOK, Used
<1>3. f \in [A -> B]
  BY <1>2 DEF Entries
<1>4. \A p, q \in A : f[p] = f[q] => p = q
  BY <1>2 DEF RegistryOK
<1>5. f \in Injection(A, B)
  BY <1>3, <1>4, Zenon DEF Injection, IsInjective
<1>6. IsFiniteSet(B) /\ Cardinality(B) = Cardinality(TxId) - 1
  BY IdentifiersSuffice, FS_RemoveElement
<1>7. Cardinality(A) = m - 3
  <2>1. \A a, b \in Int : Cardinality(a .. b) = IF a > b THEN 0 ELSE b - a + 1
    BY FS_Interval
  <2> QED
    BY <1>1, <2>1
<1>8. Cardinality(A) <= Cardinality(B)
  BY <1>5, <1>6, FS_Injection
<1>9. Cardinality(TxId) \in Nat
  BY IdentifiersSuffice, FS_CardinalityType
<1> HIDE DEF m, A, B
<1>10. m < TestEcoProperty1
  BY <1>1, <1>6, <1>7, <1>8, <1>9, IdentifiersSuffice
<1> QED
  BY <1>10 DEF m

(* putSP hands out an identifier nobody has, and the registry stays in     *)
(* step with the next identifiers.                                         *)
LEMMA PutRegistry ==
  ASSUME NEW n, NEW s, RegistryOK(n, s), NEW e \in Ecosystems,
         NEW info \in Info, NEW txid \in TxId, NEW h \in Hash,
         txid \notin {s[p].txid : p \in DOMAIN s}
  PROVE  /\ n[e] \notin DOMAIN s
         /\ RegistryOK([n EXCEPT ![e] = @ + 1], Put(s, n[e], Entry(info, txid, h, h)))
<1> DEFINE m == [n EXCEPT ![e] = @ + 1]
           t == Put(s, n[e], Entry(info, txid, h, h))
<1>1. /\ n \in [Ecosystems -> Nat]
      /\ n[TL_PROPERTY_MSC] \in 3 .. TestEcoProperty1
      /\ n[TL_PROPERTY_TMSC] >= TestEcoProperty1
      /\ TestEcoProperty1 \in Nat
  BY EcosystemAssumption DEF RegistryOK, NextIds
<1>2. n[TL_PROPERTY_MSC] < TestEcoProperty1
  BY MainFits
<1>3. s \in [Used(n) -> Entries]
  BY DEF RegistryOK
<1>4. m \in NextIds
  BY <1>1, <1>2 DEF NextIds, Ecosystems, TL_PROPERTY_MSC, TL_PROPERTY_TMSC
<1>5. n[e] \notin Used(n)
  BY <1>1, <1>2 DEF Used, Ecosystems, TL_PROPERTY_MSC, TL_PROPERTY_TMSC
<1>6. Used(m) = Used(n) \cup {n[e]}
  BY <1>1, <1>2 DEF Used, Ecosystems, TL_PROPERTY_MSC, TL_PROPERTY_TMSC
<1>7. Entry(info, txid, h, h) \in Entries /\ Entry(info, txid, h, h).txid = txid
  BY DEF Entry, Entries
<1>8. t \in [Used(m) -> Entries]
  BY <1>3, <1>6, <1>7, Zenon DEF Put
<1>9. \A p, q \in Used(m) : t[p].txid = t[q].txid => p = q
  <2> SUFFICES ASSUME NEW p \in Used(m), NEW q \in Used(m), t[p].txid = t[q].txid
               PROVE  p = q
    BY Zenon
  <2>1. \A x \in Used(n) : t[x] = s[x] /\ s[x].txid # txid
    BY <1>3, <1>5 DEF Put
  <2>2. t[n[e]].txid = txid
    BY <1>7 DEF Put
  <2> HIDE DEF t, m
  <2> QED
    BY <1>6, <2>1, <2>2 DEF RegistryOK
<1> QED
  BY <1>3, <1>4, <1>5, <1>8, <1>9, Zenon DEF RegistryOK

(* In a registry in step with the next identifiers every identifier in use *)
(* is below the next one of its ecosystem.                                 *)
LEMMA FreshOfOK == RegistryOK(nextSPID, sp) => IdentifiersFresh
BY EcosystemAssumption
   DEF RegistryOK, NextIds, Used, IdentifiersFresh, isTestEcosystemProperty,
       TL_PROPERTY_MSC, TL_PROPERTY_TMSC, Ecosystems

-----------------------------------------------------------------------------
(* Files of finished blocks *)

(* What holds of the file of a block holds on while the blocks up to it    *)
(* and the entries kept under it stay.                                     *)
LEMMA FileKept ==
  ASSUME NEW i \in Nat, FileOK(i),
         \A j \in 1 .. i : files'[j] = files[j] /\ chain'[j] = chain[j],
         i > 0 => \A p : <<chain[i], p>> \in DOMAIN spPrev =>
                            /\ <<chain[i], p>> \in DOMAIN spPrev'
                            /\ spPrev'[<<chain[i], p>>] = spPrev[<<chain[i], p>>]
  PROVE  FileOK(i)'
<1>1. Saved(i)' = Saved(i) /\ (i > 0 => Saved(i - 1)' = Saved(i - 1))
  BY DEF Saved
<1>2. RegistryOK(Saved(i).next, Saved(i).sp)'
  BY <1>1 DEF FileOK, RegistryOK
<1>3. WrittenBy(i, Saved(i).sp)'
  BY <1>1 DEF FileOK, WrittenBy
<1>4. ASSUME i > 0 PROVE Undoable(chain[i], Saved(i - 1).sp, Saved(i).sp)'
  <2>1. chain'[i] = chain[i]
    BY <1>4
  <2> DEFINE h == chain[i]
             s == Saved(i - 1).sp
             t == Saved(i).sp
  <2>2. Undoable(h, s, t)
    BY <1>4 DEF FileOK
  <2>3. \A p : <<h, p>> \in DOMAIN spPrev =>
                  <<h, p>> \in DOMAIN spPrev' /\ spPrev'[<<h, p>>] = spPrev[<<h, p>>]
    BY <1>4
  <2>4. h' = h /\ s' = s /\ t' = t
    BY <1>1, <1>4, <2>1
  <2> HIDE DEF h, s, t
  <2>5. Undoable(h, s, t)'
    BY <2>2, <2>3, <2>4 DEF Undoable, Untouched, Created, Replaced
  <2> QED
    BY <2>5 DEF h, s, t
<1> QED
  BY <1>2, <1>3, <1>4 DEF FileOK

-----------------------------------------------------------------------------
(* The steps *)

LEMMA InitRollback == Init => RollbackInv
<1> SUFFICES ASSUME Init PROVE RollbackInv
  OBVIOUS
<1> USE DEF Init, SPInit
<1>1. ChainOK
  <2> DEFINE F == [next : NextIds, sp : Registries]
  <2> HIDE DEF F
  <2>1. files \in Seq(F) /\ chain \in Seq(Hash) /\ Len(files) = 0 /\ Len(chain) = 0
    OBVIOUS
  <2>2. connecting = FALSE /\ connecting \in BOOLEAN
    BY Zenon
  <2>3. \A i, j \in 1 .. Len(chain) : chain[i] = chain[j] => i = j
    BY <2>1
  <2> QED
    BY <2>1, <2>2, <2>3, Zenon DEF ChainOK, F
<1>2. Used(FirstSPID) = {} /\ FirstSPID \in NextIds
  BY EcosystemAssumption
     DEF Used, NextIds, FirstSPID, Ecosystems, TL_PROPERTY_MSC, TL_PROPERTY_TMSC
<1>3. RegistryOK(FirstSPID, << >>)
  BY <1>2 DEF RegistryOK
<1>4. Saved(0).next = FirstSPID /\ Saved(0).sp = << >>
  BY DEF Saved
<1>5. FileOK(0)
  BY <1>3, <1>4 DEF FileOK, WrittenBy
<1>6. CurrentOK
  BY <1>3, <1>4 DEF CurrentOK, WrittenBy
<1>7. IndexExact
  BY DEF IndexExact
<1> QED
  BY <1>1, <1>5, <1>6, <1>7 DEF RollbackInv

LEMMA BeginRollback ==
  ASSUME RollbackInv, NEW hash \in Hash, block_begin(hash)
  PROVE  RollbackInv'
<1> USE DEF RollbackInv
<1>1. /\ chain \in Seq(Hash) /\ Len(chain) = Len(files) /\ Len(files) \in Nat
      /\ chain' = Append(chain, hash) /\ connecting' = TRUE /\ ~connecting
      /\ hash \notin {chain[i] : i \in DOMAIN chain}
      /\ UNCHANGED <<sp, spPrev, txIndex, nextSPID, files, reparse>>
  BY DEF block_begin, ChainOK, spvars
<1>2. /\ chain' \in Seq(Hash) /\ Len(chain') = Len(chain) + 1
      /\ \A i \in 1 .. Len(chain) : chain'[i] = chain[i] /\ chain[i] # hash
      /\ chain'[Len(chain')] = hash
  BY <1>1
<1>3. ChainOK'
  BY <1>1, <1>2 DEF ChainOK
<1>4. ASSUME NEW i \in 0 .. Len(files') PROVE FileOK(i)'
  BY <1>1, <1>2, FileKept
<1>5. CurrentOK'
  <2>1. RegistryOK(nextSPID, sp)'
    BY <1>1 DEF CurrentOK, RegistryOK
  <2>2. WrittenBy(Len(chain), sp)'
    BY <1>1, <1>2 DEF CurrentOK, WrittenBy
  <2>3. Saved(Len(files))' = Saved(Len(files)) /\ sp = Saved(Len(files)).sp
    BY <1>1 DEF Saved, CurrentOK
  <2>4. \A p \in DOMAIN sp : sp[p].update_block # hash
    BY <1>1, <1>2 DEF CurrentOK, WrittenBy
  <2>5. Undoable(tip, Saved(Len(files)).sp, sp)'
    BY <1>1, <1>2, <2>3, <2>4 DEF tip, Undoable, Untouched
  <2> QED
    BY <1>1, <2>1, <2>2, <2>5 DEF CurrentOK
<1>6. IndexExact' /\ ~reparse'
  BY <1>1 DEF IndexExact
<1> QED
  BY <1>3, <1>4, <1>5, <1>6

LEMMA EndRollback ==
  ASSUME RollbackInv, block_end
  PROVE  RollbackInv'
<1> USE DEF RollbackInv
<1> PICK n \in Nat : n = Len(files)
  BY DEF ChainOK
<1> DEFINE F == [next : NextIds, sp : Registries]
           file == [next |-> nextSPID, sp |-> sp]
<1>1. /\ chain \in Seq(Hash) /\ Len(chain) = n + 1 /\ n \in Nat
      /\ files \in Seq(F) /\ connecting' = FALSE /\ connecting
      /\ UNCHANGED <<sp, spPrev, txIndex, nextSPID, chain, reparse>>
      /\ files' = Append(files, file)
  BY DEF block_end, ChainOK, spvars
<1>2. file \in F
  BY DEF CurrentOK, RegistryOK, Registries
<1>3. file.next = nextSPID /\ file.sp = sp
  OBVIOUS
<1> HIDE DEF F, file
<1>4. /\ files' \in Seq(F) /\ Len(files') = n + 1
      /\ \A i \in 1 .. n : files'[i] = files[i]
      /\ files'[n + 1] = file
  BY <1>1, <1>2
<1>5. ChainOK'
  BY <1>1, <1>4, Zenon DEF ChainOK, F
<1>6. ASSUME NEW i \in 0 .. n PROVE FileOK(i)'
  BY <1>1, <1>4, FileKept
<1>7. Saved(n + 1)' = file /\ Saved(n)' = Saved(n)
  BY <1>1, <1>4 DEF Saved
<1>8. FileOK(n + 1)'
  <2>1. RegistryOK(Saved(n + 1).next, Saved(n + 1).sp)'
    BY <1>1, <1>3, <1>7 DEF RegistryOK, CurrentOK
  <2>2. WrittenBy(n + 1, Saved(n + 1).sp)'
    BY <1>1, <1>3, <1>7 DEF WrittenBy, CurrentOK
  <2>3. Undoable(chain[n + 1], Saved(n).sp, Saved(n + 1).sp)'
    BY <1>1, <1>3, <1>7 DEF CurrentOK, tip, Undoable, Untouched, Created, Replaced
  <2> QED
    BY <1>1, <2>1, <2>2, <2>3 DEF FileOK
<1>9. CurrentOK'
  <2>1. RegistryOK(nextSPID, sp)' /\ WrittenBy(Len(chain), sp)'
    BY <1>1 DEF CurrentOK, RegistryOK, WrittenBy
  <2> QED
    BY <1>1, <1>3, <1>4, <1>7, <2>1 DEF CurrentOK
<1>10. IndexExact' /\ ~reparse'
  BY <1>1 DEF IndexExact
<1>11. \A i \in 0 .. Len(files') : FileOK(i)'
  BY <1>1, <1>4, <1>6, <1>8
<1> QED
  BY <1>5, <1>9, <1>10, <1>11

LEMMA CreateRollback ==
  ASSUME RollbackInv, NEW e \in Ecosystems, NEW info \in Info, NEW txid \in TxId,
         CreateProperty(e, info, txid)
  PROVE  RollbackInv'
<1> USE DEF RollbackInv
<1> DEFINE p == nextSPID[e]
           entry == Entry(info, txid, tip, tip)
<1>1. /\ chain \in Seq(Hash) /\ Len(chain) = Len(files) + 1 /\ Len(files) \in Nat
      /\ connecting
      /\ txid \notin {sp[q].txid : q \in DOMAIN sp}
      /\ sp' = Put(sp, p, entry)
      /\ txIndex' = Put(txIndex, txid, p)
      /\ nextSPID' = [nextSPID EXCEPT ![e] = @ + 1]
      /\ UNCHANGED <<spPrev, chain, connecting, files, reparse>>
  BY DEF CreateProperty, putSP, ChainOK
<1>2. tip \in Hash /\ tip = chain[Len(chain)] /\ tip' = tip /\ Len(chain) \in 1 .. Len(chain)
  BY <1>1 DEF tip
<1>3. RegistryOK(nextSPID, sp)
  BY DEF CurrentOK
<1>4. p \notin DOMAIN sp /\ RegistryOK(nextSPID', sp')
  BY <1>1, <1>2, <1>3, PutRegistry, Zenon
<1>5. /\ entry.creation_block = tip /\ entry.update_block = tip /\ entry.txid = txid
  BY DEF Entry
<1> HIDE DEF p, entry
<1>6. /\ DOMAIN sp' = DOMAIN sp \cup {p}
      /\ sp'[p] = entry
      /\ \A q \in DOMAIN sp : sp'[q] = sp[q]
  BY <1>1, <1>4 DEF Put
<1>7. ChainOK'
  BY <1>1 DEF ChainOK
<1>8. ASSUME NEW i \in 0 .. Len(files') PROVE FileOK(i)'
  BY <1>1, FileKept
<1>9. CurrentOK'
  <2>1. RegistryOK(nextSPID, sp)'
    BY <1>4 DEF RegistryOK
  <2>2. WrittenBy(Len(chain), sp)'
    BY <1>1, <1>2, <1>5, <1>6 DEF CurrentOK, WrittenBy
  <2>3. Saved(Len(files))' = Saved(Len(files))
    BY <1>1 DEF Saved
  <2> DEFINE s == Saved(Len(files)).sp
  <2>4. Undoable(tip, s, sp) /\ s' = s
    BY <1>1, <2>3 DEF CurrentOK
  <2> HIDE DEF s
  <2>5. Undoable(tip, s, sp)'
    BY <1>1, <1>2, <1>4, <1>5, <1>6, <2>4, ZenonT(30) DEF Undoable, Untouched, Created, Replaced
  <2> QED
    BY <1>1, <2>1, <2>2, <2>5, Zenon DEF CurrentOK, s
<1>10. IndexExact'
  <2>1. /\ DOMAIN txIndex' = DOMAIN txIndex \cup {txid}
        /\ txIndex'[txid] = p
        /\ \A t \in DOMAIN txIndex \ {txid} : txIndex'[t] = txIndex[t]
    BY <1>1 DEF Put
  <2> QED
    BY <1>1, <1>5, <1>6, <2>1 DEF IndexExact
<1> QED
  BY <1>1, <1>7, <1>8, <1>9, <1>10

LEMMA UpdateRollback ==
  ASSUME ~TwicePerBlock, RollbackInv, NEW p \in DOMAIN sp, NEW info \in Info,
         UpdateProperty(p, info)
  PROVE  RollbackInv'
<1> USE DEF RollbackInv
<1>1. /\ chain \in Seq(Hash) /\ Len(chain) = Len(files) + 1 /\ Len(files) \in Nat
      /\ connecting
      /\ ~(sp[p].update_block = tip /\ sp[p].creation_block # tip)
      /\ sp' = [sp EXCEPT ![p].info = info, ![p].update_block = tip]
      /\ spPrev' = Put(spPrev, <<tip, p>>, sp[p])
      /\ UNCHANGED <<nextSPID, txIndex, chain, connecting, files, reparse>>
  BY DEF UpdateProperty, updateSP, ChainOK
<1>2. tip \in Hash /\ tip = chain[Len(chain)] /\ tip' = tip /\ Len(chain) \in 1 .. Len(chain)
  BY <1>1 DEF tip
<1>3. RegistryOK(nextSPID, sp) /\ sp \in [Used(nextSPID) -> Entries]
  BY DEF CurrentOK, RegistryOK
<1>4. /\ DOMAIN sp' = DOMAIN sp /\ sp' \in [Used(nextSPID) -> Entries]
      /\ \A q \in DOMAIN sp \ {p} : sp'[q] = sp[q]
      /\ sp'[p].txid = sp[p].txid /\ sp'[p].creation_block = sp[p].creation_block
      /\ sp'[p].update_block = tip
  BY <1>1, <1>2, <1>3, Zenon DEF Entries
<1>5. /\ <<tip, p>> \in DOMAIN spPrev' /\ spPrev'[<<tip, p>>] = sp[p]
      /\ \A k \in DOMAIN spPrev : k # <<tip, p>> =>
             k \in DOMAIN spPrev' /\ spPrev'[k] = spPrev[k]
  BY <1>1 DEF Put
<1>6. ChainOK'
  BY <1>1 DEF ChainOK
<1>7. ASSUME NEW i \in 0 .. Len(files') PROVE FileOK(i)'
  <2>1. i \in Nat /\ i \in 0 .. Len(files) /\ FileOK(i)
    BY <1>1
  <2>2. ASSUME i > 0 PROVE chain[i] # tip
    <3>1. i \in 1 .. Len(chain) /\ i # Len(chain)
      BY <1>1, <2>1, <2>2
    <3> QED
      BY <1>2, <3>1 DEF ChainOK
  <2>3. i > 0 => \A q : <<chain[i], q>> \in DOMAIN spPrev =>
                          /\ <<chain[i], q>> \in DOMAIN spPrev'
                          /\ spPrev'[<<chain[i], q>>] = spPrev[<<chain[i], q>>]
    BY <1>5, <2>2
  <2>4. \A j \in 1 .. i : files'[j] = files[j] /\ chain'[j] = chain[j]
    BY <1>1
  <2> QED
    BY <2>1, <2>3, <2>4, FileKept
<1>8. CurrentOK'
  <2>1. RegistryOK(nextSPID, sp)'
    BY <1>1, <1>3, <1>4 DEF RegistryOK
  <2>2. WrittenBy(Len(chain), sp)'
    BY <1>1, <1>2, <1>4 DEF CurrentOK, WrittenBy
  <2>3. Saved(Len(files))' = Saved(Len(files))
    BY <1>1 DEF Saved
  <2> DEFINE s == Saved(Len(files)).sp
  <2>4. Undoable(tip, s, sp) /\ s' = s
    BY <1>1, <2>3 DEF CurrentOK
  <2>5. ASSUME NEW q \in DOMAIN s PROVE s[q].creation_block # tip
    <3>1. FileOK(Len(files))
      BY <1>1
    <3>2. PICK c \in 1 .. Len(files) : s[q].creation_block = chain[c]
      BY <3>1 DEF FileOK, WrittenBy
    <3>3. c \in 1 .. Len(chain) /\ c # Len(chain)
      BY <1>1
    <3> QED
      BY <1>2, <3>2, <3>3 DEF ChainOK
  <2> HIDE DEF s
  <2>6. Undoable(tip, s, sp)'
    <3>1. Untouched(tip, s, sp, p) \/ Created(tip, s, sp, p)
      BY <1>1, <2>4 DEF Undoable, Replaced
    <3>2. Untouched(tip, s, sp, p) => Replaced(tip, s, sp, p)'
      BY <1>2, <1>4, <1>5, <2>4, <2>5, Zenon DEF Untouched, Replaced
    <3>3. Created(tip, s, sp, p) => Created(tip, s, sp, p)'
      BY <1>2, <1>4, <2>4 DEF Created
    <3>4. ASSUME NEW q \in DOMAIN sp \ {p}
          PROVE  Untouched(tip, s, sp, q)' \/ Created(tip, s, sp, q)' \/ Replaced(tip, s, sp, q)'
      <4>1. sp'[q] = sp[q] /\ <<tip, q>> # <<tip, p>>
        BY <1>4
      <4> QED
        BY <1>2, <1>5, <2>4, <4>1, Zenon DEF Undoable, Untouched, Created, Replaced
    <3> QED
      BY <1>4, <2>4, <3>1, <3>2, <3>3, <3>4, Zenon DEF Undoable
  <2> QED
    BY <1>1, <2>1, <2>2, <2>6 DEF CurrentOK, s
<1>9. IndexExact'
  BY <1>1, <1>4 DEF IndexExact
<1> QED
  BY <1>1, <1>6, <1>7, <1>8, <1>9

(* The registry without the traces of the tip is the one before it. *)
LEMMA PoppedRegistry ==
  ASSUME NEW s, NEW D, s \in [D -> Entries], Undoable(tip, s, sp)
  PROVE  /\ Poppable(tip)
         /\ DOMAIN sp \ CreatedIn(tip) = D
         /\ s = [p \in DOMAIN sp \ CreatedIn(tip) |->
                    IF p \in UpdatedIn(tip) THEN spPrev[<<tip, p>>] ELSE sp[p]]
         /\ \A p \in D : s[p].txid = sp[p].txid
<1>1. ASSUME NEW p \in DOMAIN sp
      PROVE  /\ p \in CreatedIn(tip) <=> p \notin D
             /\ p \in UpdatedIn(tip) => <<tip, p>> \in DOMAIN spPrev
             /\ p \in D => /\ s[p].txid = sp[p].txid
                           /\ s[p] = IF p \in UpdatedIn(tip) THEN spPrev[<<tip, p>>]
                                     ELSE sp[p]
  BY DEF Undoable, Untouched, Created, Replaced, CreatedIn, UpdatedIn, Touched
<1>2. D \subseteq DOMAIN sp
  BY DEF Undoable
<1>3. UpdatedIn(tip) \subseteq DOMAIN sp /\ CreatedIn(tip) \subseteq DOMAIN sp
  BY DEF UpdatedIn, CreatedIn, Touched
<1>4. DOMAIN sp \ CreatedIn(tip) = D
  BY <1>1, <1>2, Zenon
<1> QED
  BY <1>1, <1>2, <1>3, <1>4, Zenon DEF Poppable

LEMMA DisconnectRollback ==
  ASSUME RollbackInv, Disconnect
  PROVE  RollbackInv'
<1> USE DEF RollbackInv
<1> PICK n \in Nat : n = Len(files)
  BY DEF ChainOK
<1> DEFINE F == [next : NextIds, sp : Registries]
           file == Saved(n - 1)
           h == tip
<1>1. /\ chain \in Seq(Hash) /\ Len(chain) = n /\ n > 1
      /\ files \in Seq(F) /\ connecting = FALSE /\ connecting' = FALSE
      /\ chain' = SubSeq(chain, 1, n - 1)
      /\ files' = SubSeq(files, 1, n - 1)
      /\ h = chain[n]
  BY DEF Disconnect, ChainOK, tip
<1> HIDE DEF F
<1>2. /\ chain' \in Seq(Hash) /\ Len(chain') = n - 1
      /\ files' \in Seq(F) /\ Len(files') = n - 1
      /\ \A i \in 1 .. n - 1 : chain'[i] = chain[i] /\ files'[i] = files[i]
  BY <1>1
<1>3. /\ Saved(n - 1) = files[n - 1] /\ Saved(n) = files[n]
      /\ Saved(n - 1)' = file
  BY <1>1, <1>2 DEF Saved
<1>4. /\ sp = Saved(n).sp /\ FileOK(n) /\ FileOK(n - 1)
  BY <1>1 DEF CurrentOK
<1>5. Undoable(h, file.sp, sp)
  BY <1>1, <1>4 DEF FileOK
<1>6. RegistryOK(file.next, file.sp) /\ WrittenBy(n - 1, file.sp)
  BY <1>4 DEF FileOK
<1>7. file.sp \in [Used(file.next) -> Entries]
  BY <1>6 DEF RegistryOK
<1> DEFINE s == file.sp
           D == Used(file.next)
<1>8. /\ Poppable(h)
      /\ DOMAIN sp \ CreatedIn(h) = D
      /\ s = [p \in DOMAIN sp \ CreatedIn(h) |->
                 IF p \in UpdatedIn(h) THEN spPrev[<<h, p>>] ELSE sp[p]]
      /\ \A p \in D : s[p].txid = sp[p].txid
  BY <1>5, <1>7, PoppedRegistry, Zenon
<1>9. /\ sp' = s
      /\ spPrev' = Erase(spPrev, {<<h, p>> : p \in UpdatedIn(h)})
      /\ txIndex' = Erase(txIndex, {sp[p].txid : p \in CreatedIn(h)})
      /\ nextSPID' = file.next
      /\ reparse' = reparse
  BY <1>3, <1>8, Zenon DEF Disconnect, popBlock
<1>10. ChainOK'
  <2>1. files' \in Seq([next : NextIds, sp : Registries])
    BY <1>2 DEF F
  <2>2. \A i, j \in 1 .. Len(chain') : chain'[i] = chain'[j] => i = j
    BY <1>1, <1>2 DEF ChainOK
  <2> QED
    BY <1>1, <1>2, <2>1, <2>2, Zenon DEF ChainOK
<1>11. ASSUME NEW i \in 0 .. n - 1 PROVE FileOK(i)'
  <2>1. FileOK(i) /\ i \in Nat
    BY <1>1
  <2>2. ASSUME i > 0 PROVE chain[i] # h
    <3>1. i \in 1 .. Len(chain) /\ n \in 1 .. Len(chain) /\ i # n
      BY <1>1, <2>2
    <3> QED
      BY <1>1, <3>1 DEF ChainOK
  <2> HIDE DEF h
  <2>3. i > 0 => \A q : <<chain[i], q>> \in DOMAIN spPrev =>
                          /\ <<chain[i], q>> \in DOMAIN spPrev'
                          /\ spPrev'[<<chain[i], q>>] = spPrev[<<chain[i], q>>]
    BY <1>9, <2>2 DEF Erase
  <2>4. \A j \in 1 .. i : files'[j] = files[j] /\ chain'[j] = chain[j]
    BY <1>2
  <2> QED
    BY <2>1, <2>3, <2>4, FileKept
<1>12. CurrentOK'
  <2>1. RegistryOK(nextSPID, sp)'
    BY <1>6, <1>9, Zenon DEF RegistryOK
  <2>2. WrittenBy(Len(chain), sp)'
    BY <1>2, <1>6, <1>9 DEF WrittenBy
  <2> QED
    BY <1>1, <1>2, <1>3, <1>9, <2>1, <2>2, Zenon DEF CurrentOK
<1>13. IndexExact'
  <2> DEFINE gone == {sp[p].txid : p \in CreatedIn(h)}
  <2>1. CreatedIn(h) \subseteq DOMAIN sp /\ DOMAIN s = D
    BY <1>7 DEF CreatedIn, Touched
  <2>2. \A p, q \in DOMAIN sp : sp[p].txid = sp[q].txid => p = q
    BY DEF CurrentOK, RegistryOK
  <2>3. /\ DOMAIN txIndex' = DOMAIN txIndex \ gone
        /\ \A t \in DOMAIN txIndex' : txIndex'[t] = txIndex[t]
    BY <1>9 DEF Erase
  <2>4. \A p \in D : p \in DOMAIN sp /\ sp[p].txid \notin gone
    BY <1>8, <2>1, <2>2
  <2>5. \A p \in D : s[p].txid \in DOMAIN txIndex' /\ txIndex'[s[p].txid] = p
    BY <1>8, <2>3, <2>4 DEF IndexExact
  <2>6. \A t \in DOMAIN txIndex' : txIndex'[t] \in D /\ s[txIndex'[t]].txid = t
    BY <1>8, <2>3 DEF IndexExact
  <2> QED
    BY <1>9, <2>1, <2>5, <2>6, Zenon DEF IndexExact
<1> QED
  BY <1>2, <1>9, <1>10, <1>11, <1>12, <1>13

-----------------------------------------------------------------------------
(* The inductive invariant holds. *)
LEMMA RollbackInvariant ==
  ASSUME ~TwicePerBlock
  PROVE  Spec => []RollbackInv
<1>1. Init => RollbackInv
  BY InitRollback
<1>2. RollbackInv /\ [Next]_vars => RollbackInv'
  <2> SUFFICES ASSUME RollbackInv, [Next]_vars PROVE RollbackInv'
    OBVIOUS
  <2>1. CASE UNCHANGED vars
    <3>1. UNCHANGED <<sp, spPrev, txIndex, nextSPID, chain, connecting, files, reparse>>
      BY <2>1 DEF vars, spvars
    <3>2. ChainOK' /\ IndexExact' /\ ~reparse'
      BY <3>1 DEF RollbackInv, ChainOK, IndexExact
    <3>3. ASSUME NEW i \in 0 .. Len(files') PROVE FileOK(i)'
      <4>1. i \in Nat /\ FileOK(i)
        BY <3>1 DEF RollbackInv, ChainOK
      <4> QED
        BY <3>1, <4>1, FileKept
    <3>4. CurrentOK'
      <4>1. CurrentOK
        BY DEF RollbackInv
      <4>2. RegistryOK(nextSPID, sp)' /\ WrittenBy(Len(chain), sp)'
        BY <3>1, <4>1 DEF CurrentOK, RegistryOK, WrittenBy
      <4>3. (connecting => Undoable(tip, Saved(Len(files)).sp, sp))'
        BY <3>1, <4>1 DEF CurrentOK, Saved, Undoable, Untouched, Created, Replaced, tip
      <4>4. (~connecting => /\ sp = Saved(Len(files)).sp
                            /\ nextSPID = Saved(Len(files)).next)'
        BY <3>1, <4>1 DEF CurrentOK, Saved
      <4> QED
        BY <4>2, <4>3, <4>4, Zenon DEF CurrentOK
    <3> QED
      BY <3>2, <3>3, <3>4 DEF RollbackInv
  <2> QED
    BY <2>1, BeginRollback, CreateRollback, UpdateRollback, EndRollback,
       DisconnectRollback DEF Next
<1> QED
  BY <1>1, <1>2, PTL DEF Spec

(* What the registry keeps through any reorganisation, as long as no block *)
(* updates an older property twice: for any set of blocks and any height,  *)
(* so for rollbacks of any depth and for blocks that come back.            *)

(* putSP never hands out an identifier that is in use. *)
THEOREM FreshIdentifiers ==
  ASSUME ~TwicePerBlock
  PROVE  Spec => []IdentifiersFresh
<1>1. RollbackInv => IdentifiersFresh
  BY FreshOfOK DEF RollbackInv, CurrentOK
<1> QED
  BY <1>1, RollbackInvariant, PTL

(* findSPByTX finds exactly the properties there are, by the transaction   *)
(* that created them.                                                      *)
THEOREM ExactIndex ==
  ASSUME ~TwicePerBlock
  PROVE  Spec => []IndexExact
<1>1. RollbackInv => IndexExact
  BY DEF RollbackInv
<1> QED
  BY <1>1, RollbackInvariant, PTL

(* popBlock finds every previous entry it needs: a rollback never has to   *)
(* parse the chain again.                                                  *)
THEOREM RollbackFinds ==
  ASSUME ~TwicePerBlock
  PROVE  Spec => []RollbackPossible
<1>1. RollbackInv => RollbackPossible
  BY DEF RollbackInv, RollbackPossible
<1> QED
  BY <1>1, RollbackInvariant, PTL

(* popBlock restores the registry as it was after the block below. *)
THEOREM RollbackRestores ==
  ASSUME ~TwicePerBlock
  PROVE  Spec => []RollbackExact
<1>1. RollbackInv => RollbackExact
  BY DEF RollbackInv, CurrentOK, ChainOK, Saved, RollbackExact
<1> QED
  BY <1>1, RollbackInvariant, PTL
=============================================================================
