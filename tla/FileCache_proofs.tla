-------------------------- MODULE FileCache_proofs --------------------------
(***************************************************************************)
(* FileCache implements AdvisoryStore, and its writes are atomic, for any  *)
(* number of processes, goroutines, keys and operations.  The invariant    *)
(* that both rest on says what a temporary file holds at each step of Put. *)
(***************************************************************************)
EXTENDS FileCache, FiniteSetTheorems, TLAPS

(* What is not an entry: no file, and bytes that do not decode. *)
LEMMA NotEntries == NoFile \notin Entry /\ Garbled \notin Entry
<1>1. \A e \in Entry : DOMAIN e = {1, 2}
  BY DEF Entry
<1>2. DOMAIN NoFile = {} /\ DOMAIN Garbled = {1}
  BY DEF NoFile, Garbled
<1> QED
  BY <1>1, <1>2

-----------------------------------------------------------------------------
(* Type correctness. *)

(* A cache starts with its variables in their types. *)
LEMMA InitTypeOK == Init => TypeOK
<1> SUFFICES ASSUME Init PROVE TypeOK
  OBVIOUS
<1>1. key \in [Clients -> Keys]
  BY CacheAssumption DEF CacheAssumption, Init
<1>2. rec \in [Clients -> Records]
  BY CacheAssumption DEF CacheAssumption, Init
<1>3. file \in [Keys -> Files] /\ temp \in [Clients -> Files]
  BY DEF Init, Files
<1>4. mem \in [Procs -> SUBSET Entry]
  BY DEF Init
<1>5. orphans \in Nat /\ puts \in Nat /\ ops \in 0..MaxOps /\ dir \in BOOLEAN
  <2>1. 0 \in 0..MaxOps
    BY CacheAssumption DEF CacheAssumption
  <2> QED
    BY <2>1 DEF Init
<1>6. answer \in [Clients -> Keys \X (Records \cup {Miss})]
  BY CacheAssumption DEF CacheAssumption, Init
<1> QED
  BY <1>1, <1>2, <1>3, <1>4, <1>5, <1>6 DEF Init, TypeOK

(* What a process remembers are entries. *)
LEMMA RememberTypeOK ==
  ASSUME TypeOK, NEW p \in Procs, NEW k \in Keys, NEW r \in Records, Remember(p, k, r)
  PROVE  mem' \in [Procs -> SUBSET Entry]
<1>1. {m \in mem[p] : m[1] # k} \cup {<<k, r>>} \subseteq Entry
  BY DEF TypeOK, Entry
<1> QED
  BY <1>1 DEF TypeOK, Remember

(* The steps of Get keep the types. *)
LEMMA GetTypeOK ==
  ASSUME TypeOK, NEW g \in Clients, GetNext(g)
  PROVE  TypeOK'
<1> USE DEF TypeOK, GoTo, disk
<1>p. ProcOf[g] \in Procs
  BY CacheAssumption DEF CacheAssumption
<1>1. CASE \E k \in Keys : GetFromMemory(g, k)
  <2> PICK k \in Keys : GetFromMemory(g, k)
    BY <1>1
  <2>1. Remembered(ProcOf[g], k) # {} =>
          (CHOOSE r \in Remembered(ProcOf[g], k) : TRUE) \in Records
    <3> HIDE DEF TypeOK
    <3> QED  BY DEF Remembered
  <2>2. ops' \in 0..MaxOps
    BY CacheAssumption DEF GetFromMemory, Call, CacheAssumption
  <2> QED
    BY <2>1, <2>2 DEF GetFromMemory, Call
<1>2. CASE GetMisses(g)
  BY <1>2 DEF GetMisses
<1>3. CASE GetReads(g)
  <2>1. file[key[g]][2] \in Records
    BY <1>3 DEF GetReads, Serves, Entry
  <2> QED
    BY <1>3, <2>1 DEF GetReads
<1>4. CASE GetRemembers(g)
  <2>1. mem' \in [Procs -> SUBSET Entry]
    BY <1>4, <1>p, RememberTypeOK DEF GetRemembers
  <2> QED
    BY <1>4, <2>1 DEF GetRemembers
<1> QED
  BY <1>1, <1>2, <1>3, <1>4 DEF GetNext

(* The steps of Put keep the types. *)
LEMMA PutTypeOK ==
  ASSUME TypeOK, NEW g \in Clients, PutNext(g)
  PROVE  TypeOK'
<1> USE DEF TypeOK, GoTo, disk
<1>p. ProcOf[g] \in Procs
  BY CacheAssumption DEF CacheAssumption
<1>1. CASE \E k \in Keys, r \in Records : PutInMemory(g, k, r)
  <2> PICK k \in Keys, r \in Records : PutInMemory(g, k, r)
    BY <1>1
  <2>1. mem' \in [Procs -> SUBSET Entry]
    BY <1>p, RememberTypeOK DEF PutInMemory
  <2>2. ops' \in 0..MaxOps
    BY CacheAssumption DEF PutInMemory, Call, CacheAssumption
  <2> QED
    BY <2>1, <2>2 DEF PutInMemory, Call
<1>2. CASE MakeDirectory(g)
  BY <1>2 DEF MakeDirectory
<1>3. CASE CreateTemp(g)
  BY <1>3 DEF CreateTemp, Files
<1>4. CASE WriteTemp(g)
  <2>1. <<key[g], rec[g]>> \in Files
    BY DEF Files, Entry
  <2>2. temp' \in [Clients -> Files]
    BY <1>4, <2>1 DEF WriteTemp
  <2> QED
    BY <1>4, <2>2 DEF WriteTemp
<1>5. CASE RenameTemp(g)
  BY <1>5 DEF RenameTemp, Files
<1>6. CASE PutGivesUp(g)
  BY <1>6 DEF PutGivesUp, Files
<1> QED
  BY <1>1, <1>2, <1>3, <1>4, <1>5, <1>6 DEF PutNext

(* Clearing, damage and crashes keep the types. *)
LEMMA OtherTypeOK ==
  ASSUME TypeOK,
         \/ \E g \in Clients : ClearMemory(g) \/ ClearDirectory(g) \/ ClearFails(g)
         \/ \E k \in Keys : PruneEntry(k) \/ Damage(k)
         \/ PruneOrphan
         \/ \E p \in Procs : Crash(p)
  PROVE  TypeOK'
<1> USE DEF TypeOK, GoTo, disk, call
<1>1. CASE \E g \in Clients : ClearMemory(g)
  <2> PICK g \in Clients : ClearMemory(g)
    BY <1>1
  <2>1. ops' \in 0..MaxOps
    BY CacheAssumption DEF ClearMemory, Call, CacheAssumption
  <2> QED
    BY <2>1 DEF ClearMemory, Call
<1>2. CASE \E g \in Clients : ClearDirectory(g)
  <2> PICK g \in Clients : ClearDirectory(g)
    BY <1>2
  <2>1. file' \in [Keys -> Files]
    BY DEF ClearDirectory, Files
  <2>2. temp' \in [Clients -> Files]
    BY DEF ClearDirectory, Files
  <2>3. pc' \in [Clients -> {"idle", "reading", "remembering", "mkdir", "creating",
                             "writing", "renaming", "clearing"}]
    BY DEF ClearDirectory
  <2> QED
    BY <2>1, <2>2, <2>3 DEF ClearDirectory
<1>3. CASE \E g \in Clients : ClearFails(g)
  BY <1>3 DEF ClearFails
<1>4. CASE \E k \in Keys : PruneEntry(k)
  BY <1>4 DEF PruneEntry, Files
<1>5. CASE \E k \in Keys : Damage(k)
  <2> PICK k \in Keys : Damage(k)
    BY <1>5
  <2>1. file' \in [Keys -> Files]
    BY DEF Damage, Files
  <2> QED
    BY <2>1 DEF Damage
<1>6. CASE PruneOrphan
  BY <1>6 DEF PruneOrphan
<1>7. CASE \E p \in Procs : Crash(p)
  <2> PICK p \in Procs : Crash(p)
    BY <1>7
  <2> DEFINE Dead == {g \in Clients : ProcOf[g] = p}
             Left == {g \in Dead : temp[g] # NoFile}
  <2>1. Cardinality(Left) \in Nat
    <3>1. Left \subseteq Clients
      OBVIOUS
    <3>2. IsFiniteSet(Left)
      BY <3>1, CacheAssumption, FS_Subset DEF CacheAssumption
    <3> QED
      BY <3>2, FS_CardinalityType
  <2>2. orphans' \in Nat
    <3>1. orphans' = orphans + Cardinality(Left)
      BY DEF Crash
    <3> QED
      BY <2>1, <3>1
  <2>3. pc' \in [Clients -> {"idle", "reading", "remembering", "mkdir", "creating",
                             "writing", "renaming", "clearing"}]
    BY DEF Crash
  <2>4. temp' \in [Clients -> Files]
    BY DEF Crash, Files
  <2>5. mem' \in [Procs -> SUBSET Entry]
    BY DEF Crash
  <2> QED
    BY <2>2, <2>3, <2>4, <2>5 DEF Crash
<1> QED
  BY <1>1, <1>2, <1>3, <1>4, <1>5, <1>6, <1>7

(* So does a step of something else. *)
LEMMA StutterTypeOK == TypeOK /\ UNCHANGED vars => TypeOK'
  BY DEF TypeOK, vars, disk, call

(* The cache's variables keep their types. *)
THEOREM TypeCorrect == Spec => []TypeOK
<1>1. TypeOK /\ [Next]_vars => TypeOK'
  BY GetTypeOK, PutTypeOK, OtherTypeOK, StutterTypeOK DEF Next
<1> QED
  BY InitTypeOK, <1>1, PTL DEF Spec

-----------------------------------------------------------------------------
(* What a temporary file holds: nothing unless its Put is between creating *)
(* and renaming it, and the whole entry once it has been written.          *)
TempInv ==
    \A g \in Clients : temp[g] # NoFile =>
        \/ pc[g] = "writing" /\ temp[g] = Garbled
        \/ pc[g] = "renaming" /\ temp[g] = <<key[g], rec[g]>>

(* Get leaves the temporary files alone. *)
LEMMA GetTempInv ==
  ASSUME TypeOK, TempInv, NEW g \in Clients, GetNext(g)
  PROVE  TempInv'
<1> USE DEF TypeOK, GoTo, disk
<1>1. CASE \E k \in Keys : GetFromMemory(g, k)
  BY <1>1 DEF GetFromMemory, Call, TempInv
<1>2. CASE GetMisses(g)
  BY <1>2 DEF GetMisses, TempInv
<1>3. CASE GetReads(g)
  BY <1>3 DEF GetReads, TempInv
<1>4. CASE GetRemembers(g)
  BY <1>4 DEF GetRemembers, TempInv
<1> QED
  BY <1>1, <1>2, <1>3, <1>4 DEF GetNext

(* Put renames only what it wrote. *)
LEMMA PutTempInv ==
  ASSUME TypeOK, TempInv, NEW g \in Clients, PutNext(g)
  PROVE  TempInv'
<1> USE DEF TypeOK, GoTo, disk
<1>1. CASE \E k \in Keys, r \in Records : PutInMemory(g, k, r)
  BY <1>1 DEF PutInMemory, Call, TempInv
<1>2. CASE MakeDirectory(g)
  BY <1>2 DEF MakeDirectory, TempInv
<1>3. CASE CreateTemp(g)
  BY <1>3 DEF CreateTemp, TempInv
<1>4. CASE WriteTemp(g)
  BY <1>4 DEF WriteTemp, TempInv
<1>5. CASE RenameTemp(g)
  BY <1>5 DEF RenameTemp, TempInv
<1>6. CASE PutGivesUp(g)
  BY <1>6 DEF PutGivesUp, TempInv
<1> QED
  BY <1>1, <1>2, <1>3, <1>4, <1>5, <1>6 DEF PutNext

(* Clearing and crashes lose temporary files and make none ready. *)
LEMMA OtherTempInv ==
  ASSUME TypeOK, TempInv,
         \/ \E g \in Clients : ClearMemory(g) \/ ClearDirectory(g) \/ ClearFails(g)
         \/ \E k \in Keys : PruneEntry(k) \/ Damage(k)
         \/ PruneOrphan
         \/ \E p \in Procs : Crash(p)
  PROVE  TempInv'
<1> USE DEF TypeOK, GoTo, disk, call
<1>1. CASE \E g \in Clients : ClearMemory(g)
  BY <1>1 DEF ClearMemory, Call, TempInv
<1>2. CASE \E g \in Clients : ClearDirectory(g)
  BY <1>2 DEF ClearDirectory, TempInv
<1>3. CASE \E g \in Clients : ClearFails(g)
  BY <1>3 DEF ClearFails, TempInv
<1>4. CASE (\E k \in Keys : PruneEntry(k) \/ Damage(k)) \/ PruneOrphan
  BY <1>4 DEF PruneEntry, Damage, PruneOrphan, TempInv
<1>5. CASE \E p \in Procs : Crash(p)
  BY <1>5 DEF Crash, TempInv
<1> QED
  BY <1>1, <1>2, <1>3, <1>4, <1>5

(* The two together hold always. *)
LEMMA Invariance == Spec => [](TypeOK /\ TempInv)
<1>1. Init => TempInv
  BY DEF Init, TempInv
<1>2. TypeOK /\ TempInv /\ [Next]_vars => TempInv'
  <2>1. TypeOK /\ TempInv /\ UNCHANGED vars => TempInv'
    BY DEF TempInv, vars, disk, call
  <2> QED
    BY <2>1, GetTempInv, PutTempInv, OtherTempInv DEF Next
<1> QED
  BY <1>1, <1>2, TypeCorrect, PTL DEF Spec

(* For any number of processes, failures and clearings, a Put that ended   *)
(* has no temporary file, and one about to rename has the whole of its own *)
(* entry in it.                                                            *)
THEOREM NoTempLeft == Spec => []NoTempIsLeft
<1>1. TempInv => NoTempIsLeft
  BY DEF TempInv, NoTempIsLeft
<1> QED
  BY <1>1, Invariance, PTL

-----------------------------------------------------------------------------
(* A file changes to nothing or to a whole entry of its own key, for every *)
(* interleaving of Puts, crashes, pruning and clearing: only RenameTemp    *)
(* writes one, and by TempInv it moves a whole entry.                      *)
THEOREM AtomicWrites == Spec => WritesAreAtomic
<1> DEFINE Atomic == \A k \in Keys : file'[k] # file[k] =>
               \/ file'[k] = NoFile
               \/ file'[k] \in Entry /\ file'[k][1] = k
               \/ Damage(k)
<1>1. TypeOK /\ TempInv /\ [Next]_vars => Atomic
  <2> SUFFICES ASSUME TypeOK, TempInv, [Next]_vars PROVE Atomic
    OBVIOUS
  <2>1. ASSUME file' = file PROVE Atomic
    BY <2>1
  <2>2. ASSUME NEW g \in Clients, RenameTemp(g) PROVE Atomic
    <3>1. temp[g] = <<key[g], rec[g]>> /\ <<key[g], rec[g]>> \in Entry
      BY <2>2 DEF RenameTemp, TempInv, TypeOK, Entry
    <3> QED
      BY <2>2, <3>1 DEF RenameTemp, TypeOK
  <2>3. ASSUME NEW g \in Clients, ClearDirectory(g) PROVE Atomic
    BY <2>3 DEF ClearDirectory
  <2>4. ASSUME NEW k \in Keys, PruneEntry(k) PROVE Atomic
    BY <2>4 DEF PruneEntry, TypeOK
  <2>5. ASSUME NEW k \in Keys, Damage(k) PROVE Atomic
    <3>1. \A other \in Keys \ {k} : file'[other] = file[other]
      BY <2>5 DEF Damage, TypeOK
    <3> QED
      BY <2>5, <3>1
  <2>6. ASSUME NEW g \in Clients, GetNext(g) PROVE file' = file
    BY <2>6 DEF GetNext, GetFromMemory, GetMisses, GetReads, GetRemembers, disk
  <2>7. ASSUME NEW g \in Clients, PutNext(g), ~RenameTemp(g) PROVE file' = file
    BY <2>7 DEF PutNext, PutInMemory, MakeDirectory, CreateTemp, WriteTemp,
                PutGivesUp, disk
  <2>8. ASSUME NEW g \in Clients, ClearMemory(g) \/ ClearFails(g) PROVE file' = file
    BY <2>8 DEF ClearMemory, ClearFails, disk
  <2>9. ASSUME PruneOrphan \/ (\E p \in Procs : Crash(p)) \/ UNCHANGED vars
        PROVE  file' = file
    BY <2>9 DEF PruneOrphan, Crash, vars, disk
  <2> HIDE DEF Atomic
  <2> QED
    BY <2>1, <2>2, <2>3, <2>4, <2>5, <2>6, <2>7, <2>8, <2>9 DEF Next
<1>2. TypeOK /\ TempInv /\ [Next]_vars => [Atomic]_vars
  BY <1>1
<1> QED
  BY <1>2, Invariance, PTL DEF Spec, WritesAreAtomic

-----------------------------------------------------------------------------
(* Refinement: which pairs may still be answered, and how a step moves them. *)

Busy == {"remembering", "mkdir", "creating", "writing", "renaming"}

(* Where a stored entry may be. *)
LEMMA StoredMembers ==
  ASSUME TypeOK
  PROVE  \A x : x \in Stored <=>
             \/ \E p \in Procs : x \in mem[p]
             \/ x \in Entry /\ \E k \in Keys : file[k] = x
             \/ \E g \in Clients : pc[g] \in Busy /\ x = <<key[g], rec[g]>>
<1>1. \A g \in Clients : pc[g] \in Busy <=> pc[g] \notin {"idle", "reading", "clearing"}
  BY DEF TypeOK, Busy
<1> QED
  BY <1>1 DEF Stored, PairsOnDisk, PairsInHand

(* A bound on what is stored, from a bound on each of its places. *)
LEMMA StoredNext ==
  ASSUME TypeOK, TypeOK', NEW S,
         \A p \in Procs : mem'[p] \subseteq S,
         \A k \in Keys : file'[k] \in Entry => file'[k] \in S,
         \A g \in Clients : pc'[g] \in Busy => <<key'[g], rec'[g]>> \in S
  PROVE  Stored' \subseteq S
<1>1. \A x : x \in Stored' <=>
             \/ \E p \in Procs : x \in mem'[p]
             \/ x \in Entry /\ \E k \in Keys : file'[k] = x
             \/ \E g \in Clients : pc'[g] \in Busy /\ x = <<key'[g], rec'[g]>>
  <2>1. \A g \in Clients : pc'[g] \in Busy <=> pc'[g] \notin {"idle", "reading", "clearing"}
    BY DEF TypeOK, Busy
  <2> QED
    BY <2>1 DEF Stored, PairsOnDisk, PairsInHand
<1> QED
  BY <1>1

(* Get answers with a miss or a stored pair, and stores nothing new. *)
LEMMA GetRefines ==
  ASSUME TypeOK, TypeOK', NEW g \in Clients, GetNext(g)
  PROVE  Store!Next
<1> USE DEF GoTo, disk
<1>p. ProcOf[g] \in Procs
  BY CacheAssumption DEF CacheAssumption
<1>m. Miss \notin Records
  BY CacheAssumption DEF CacheAssumption
<1>1. CASE \E k \in Keys : GetFromMemory(g, k)
  <2> PICK k \in Keys : GetFromMemory(g, k)
    BY <1>1
  <2>1. Stored' \subseteq Stored
    <3>1. \A h \in Clients : pc'[h] \in Busy => <<key'[h], rec'[h]>> \in Stored
      BY StoredMembers DEF GetFromMemory, Call, Busy, TypeOK
    <3>2. \A p \in Procs : mem'[p] \subseteq Stored
      BY StoredMembers DEF GetFromMemory
    <3>3. \A l \in Keys : file'[l] \in Entry => file'[l] \in Stored
      BY StoredMembers DEF GetFromMemory
    <3> QED
      BY <3>1, <3>2, <3>3, StoredNext
  <2>2. CASE Remembered(ProcOf[g], k) = {}
    <3>1. answer' = answer /\ puts' = puts
      BY <2>2 DEF GetFromMemory, TypeOK
    <3> QED
      BY <2>1, <3>1 DEF Store!Next, Store!Forget
  <2>3. CASE Remembered(ProcOf[g], k) # {}
    <3> DEFINE r == CHOOSE r \in Remembered(ProcOf[g], k) : TRUE
    <3>1. r \in Records /\ <<k, r>> \in mem[ProcOf[g]]
      BY <2>3 DEF Remembered
    <3>2. <<k, r>> \in Stored
      BY <1>p, <3>1, StoredMembers
    <3>3. answer' = [answer EXCEPT ![g] = <<k, r>>] /\ puts' = puts
      BY <2>3 DEF GetFromMemory
    <3> HIDE DEF r
    <3>4. Store!Get(g, k)
      BY <2>1, <3>1, <3>2, <3>3 DEF Store!Get
    <3> QED
      BY <3>4 DEF Store!Next
  <2> QED
    BY <2>2, <2>3
<1>2. CASE GetMisses(g)
  <2>1. Stored' \subseteq Stored
    <3>1. \A h \in Clients : pc'[h] \in Busy => <<key'[h], rec'[h]>> \in Stored
      BY <1>2, StoredMembers DEF GetMisses, Busy, TypeOK
    <3>2. \A p \in Procs : mem'[p] \subseteq Stored
      BY <1>2, StoredMembers DEF GetMisses
    <3>3. \A l \in Keys : file'[l] \in Entry => file'[l] \in Stored
      BY <1>2, StoredMembers DEF GetMisses
    <3> QED
      BY <3>1, <3>2, <3>3, StoredNext
  <2>2. /\ key[g] \in Keys
        /\ answer' = [answer EXCEPT ![g] = <<key[g], Miss>>] /\ puts' = puts
    BY <1>2 DEF GetMisses, TypeOK
  <2>3. Store!Get(g, key[g])
    BY <2>1, <2>2 DEF Store!Get
  <2> QED
    BY <2>2, <2>3 DEF Store!Next
<1>3. CASE GetReads(g)
  <2>0. file[key[g]] \in Entry /\ file[key[g]] = <<key[g], file[key[g]][2]>>
    BY <1>3 DEF GetReads, Serves, Entry
  <2>1. <<key[g], file[key[g]][2]>> \in Stored
    BY <2>0, StoredMembers DEF TypeOK
  <2>2. \A h \in Clients : pc'[h] \in Busy => <<key'[h], rec'[h]>> \in Stored
    <3>1. <<key'[g], rec'[g]>> \in Stored
      BY <1>3, <2>1 DEF GetReads, TypeOK
    <3>2. \A h \in Clients \ {g} : pc'[h] = pc[h] /\ key'[h] = key[h] /\ rec'[h] = rec[h]
      BY <1>3 DEF GetReads, TypeOK
    <3> QED
      BY <3>1, <3>2, StoredMembers
  <2>3. \A p \in Procs : mem'[p] \subseteq Stored
    BY <1>3, StoredMembers DEF GetReads
  <2>4. \A l \in Keys : file'[l] \in Entry => file'[l] \in Stored
    BY <1>3, StoredMembers DEF GetReads
  <2>5. Stored' \subseteq Stored
    BY <2>2, <2>3, <2>4, StoredNext
  <2> QED
    BY <1>3, <2>5 DEF GetReads, Store!Next, Store!Forget
<1>4. CASE GetRemembers(g)
  <2>1. <<key[g], rec[g]>> \in Stored
    BY <1>4, StoredMembers DEF GetRemembers, Busy
  <2>2. \A p \in Procs : mem'[p] \subseteq Stored
    BY <1>4, <2>1, StoredMembers DEF GetRemembers, Remember, TypeOK
  <2>3. \A h \in Clients : pc'[h] \in Busy => <<key'[h], rec'[h]>> \in Stored
    BY <1>4, StoredMembers DEF GetRemembers, Busy, TypeOK
  <2>4. \A l \in Keys : file'[l] \in Entry => file'[l] \in Stored
    BY <1>4, StoredMembers DEF GetRemembers
  <2>5. Stored' \subseteq Stored
    BY <2>2, <2>3, <2>4, StoredNext
  <2>6. /\ key[g] \in Keys /\ rec[g] \in Records
        /\ answer' = [answer EXCEPT ![g] = <<key[g], rec[g]>>] /\ puts' = puts
    BY <1>4 DEF GetRemembers, TypeOK
  <2>7. Store!Get(g, key[g])
    BY <2>1, <2>5, <2>6 DEF Store!Get
  <2> QED
    BY <2>6, <2>7 DEF Store!Next
<1> QED
  BY <1>1, <1>2, <1>3, <1>4 DEF GetNext

(* A step that leaves memory alone or shrinks it, adds no entry to a file  *)
(* and starts or changes no call, only forgets.                            *)
LEMMA ForgetRefines ==
  ASSUME TypeOK, TypeOK', answer' = answer, puts' = puts,
         \A p \in Procs : mem'[p] \subseteq mem[p],
         \A k \in Keys : file'[k] \in Entry => file'[k] \in Stored,
         \A g \in Clients : pc'[g] \in Busy =>
             pc[g] \in Busy /\ key'[g] = key[g] /\ rec'[g] = rec[g]
  PROVE  Store!Next
<1>1. \A p \in Procs : mem'[p] \subseteq Stored
  BY StoredMembers
<1>2. \A g \in Clients : pc'[g] \in Busy => <<key'[g], rec'[g]>> \in Stored
  BY StoredMembers
<1>3. Stored' \subseteq Stored
  BY <1>1, <1>2, StoredNext
<1> QED
  BY <1>3 DEF Store!Next, Store!Forget

(* Put stores the pair it is given; its other steps move it or lose it. *)
LEMMA PutRefines ==
  ASSUME TypeOK, TypeOK', TempInv, NEW g \in Clients, PutNext(g)
  PROVE  Store!Next
<1> USE DEF GoTo, disk
<1>1. CASE \E k \in Keys, r \in Records : PutInMemory(g, k, r)
  <2> PICK k \in Keys, r \in Records : PutInMemory(g, k, r)
    BY <1>1
  <2> DEFINE S == Stored \cup {<<k, r>>}
  <2>1. \A p \in Procs : mem'[p] \subseteq S
    BY StoredMembers DEF PutInMemory, Remember, TypeOK
  <2>2. \A l \in Keys : file'[l] \in Entry => file'[l] \in S
    BY StoredMembers DEF PutInMemory
  <2>3. \A h \in Clients : pc'[h] \in Busy => <<key'[h], rec'[h]>> \in S
    <3>1. <<key'[g], rec'[g]>> \in S
      BY DEF PutInMemory, TypeOK
    <3>2. \A h \in Clients \ {g} : pc'[h] = pc[h] /\ key'[h] = key[h] /\ rec'[h] = rec[h]
      BY DEF PutInMemory, Call, TypeOK
    <3> QED
      BY <3>1, <3>2, StoredMembers
  <2> HIDE DEF S
  <2>4. Stored' \subseteq S
    BY <2>1, <2>2, <2>3, StoredNext
  <2>5. Store!Put(k, r)
    BY <2>4 DEF PutInMemory, Store!Put, S
  <2> QED
    BY <2>5 DEF Store!Next
<1>2. CASE MakeDirectory(g)
  <2>1. \A h \in Clients : pc'[h] \in Busy => pc[h] \in Busy
    BY <1>2 DEF MakeDirectory, Busy, TypeOK
  <2>2. \A k \in Keys : file'[k] \in Entry => file'[k] \in Stored
    BY <1>2, StoredMembers DEF MakeDirectory
  <2> QED
    BY <1>2, <2>1, <2>2, ForgetRefines DEF MakeDirectory
<1>3. CASE CreateTemp(g)
  <2>1. \A h \in Clients : pc'[h] \in Busy => pc[h] \in Busy
    BY <1>3 DEF CreateTemp, Busy, TypeOK
  <2>2. \A k \in Keys : file'[k] \in Entry => file'[k] \in Stored
    BY <1>3, StoredMembers DEF CreateTemp
  <2> QED
    BY <1>3, <2>1, <2>2, ForgetRefines DEF CreateTemp
<1>4. CASE WriteTemp(g)
  <2>1. \A h \in Clients : pc'[h] \in Busy => pc[h] \in Busy
    BY <1>4 DEF WriteTemp, Busy, TypeOK
  <2>2. \A k \in Keys : file'[k] \in Entry => file'[k] \in Stored
    BY <1>4, StoredMembers DEF WriteTemp
  <2> QED
    BY <1>4, <2>1, <2>2, ForgetRefines DEF WriteTemp
<1>5. CASE RenameTemp(g)
  <2>1. \A h \in Clients : pc'[h] \in Busy => pc[h] \in Busy
    BY <1>5 DEF RenameTemp, Busy, TypeOK
  <2>2. temp[g] = <<key[g], rec[g]>> /\ pc[g] \in Busy
    BY <1>5 DEF RenameTemp, TempInv, Busy
  <2>3. temp[g] \in Stored
    BY <2>2, StoredMembers
  <2>4. \A k \in Keys : file'[k] \in Entry => file'[k] \in Stored
    BY <1>5, <2>3, StoredMembers DEF RenameTemp, TypeOK
  <2> QED
    BY <1>5, <2>1, <2>4, ForgetRefines DEF RenameTemp
<1>6. CASE PutGivesUp(g)
  <2>1. \A h \in Clients : pc'[h] \in Busy => pc[h] \in Busy
    BY <1>6 DEF PutGivesUp, Busy, TypeOK
  <2>2. \A k \in Keys : file'[k] \in Entry => file'[k] \in Stored
    BY <1>6, StoredMembers DEF PutGivesUp
  <2> QED
    BY <1>6, <2>1, <2>2, ForgetRefines DEF PutGivesUp
<1> QED
  BY <1>1, <1>2, <1>3, <1>4, <1>5, <1>6 DEF PutNext

(* Clearing, pruning, crashes and damage forget; damage copies what is     *)
(* stored already.                                                         *)
LEMMA OtherRefines ==
  ASSUME TypeOK, TypeOK',
         \/ \E g \in Clients : ClearMemory(g) \/ ClearDirectory(g) \/ ClearFails(g)
         \/ \E k \in Keys : PruneEntry(k) \/ Damage(k)
         \/ PruneOrphan
         \/ \E p \in Procs : Crash(p)
  PROVE  Store!Next
<1> USE DEF GoTo, disk, call
<1>1. CASE \E g \in Clients : ClearMemory(g)
  <2> PICK g \in Clients : ClearMemory(g)
    BY <1>1
  <2>1. \A h \in Clients : pc'[h] \in Busy => pc[h] \in Busy
    BY DEF ClearMemory, Call, Busy, TypeOK
  <2>2. \A k \in Keys : file'[k] \in Entry => file'[k] \in Stored
    BY StoredMembers DEF ClearMemory
  <2>3. \A p \in Procs : mem'[p] \subseteq mem[p]
    BY DEF ClearMemory, TypeOK
  <2> QED
    BY <2>1, <2>2, <2>3, ForgetRefines DEF ClearMemory
<1>2. CASE \E g \in Clients : ClearDirectory(g) \/ ClearFails(g)
  <2> PICK g \in Clients : ClearDirectory(g) \/ ClearFails(g)
    BY <1>2
  <2>1. \A h \in Clients : pc'[h] \in Busy => pc[h] \in Busy
    BY DEF ClearDirectory, ClearFails, Busy, TypeOK
  <2>2. \A k \in Keys : file'[k] \in Entry => file'[k] \in Stored
    BY NotEntries, StoredMembers DEF ClearDirectory, ClearFails
  <2> QED
    BY <2>1, <2>2, ForgetRefines DEF ClearDirectory, ClearFails
<1>3. CASE (\E k \in Keys : PruneEntry(k)) \/ PruneOrphan
  <2>1. \A k \in Keys : file'[k] \in Entry => file'[k] \in Stored
    BY <1>3, NotEntries, StoredMembers DEF PruneEntry, PruneOrphan, TypeOK
  <2> QED
    BY <1>3, <2>1, ForgetRefines DEF PruneEntry, PruneOrphan
<1>4. CASE \E k \in Keys : Damage(k)
  <2> PICK k \in Keys : Damage(k)
    BY <1>4
  <2>1. PICK content \in {Garbled} \cup {file[other] : other \in Keys \ {k}} :
            file' = [file EXCEPT ![k] = content]
    BY DEF Damage
  <2>2. content \in Entry => content \in Stored
    BY NotEntries, StoredMembers
  <2>3. \A l \in Keys : file'[l] \in Entry => file'[l] \in Stored
    BY <2>1, <2>2, StoredMembers DEF TypeOK
  <2> QED
    BY <2>3, ForgetRefines DEF Damage
<1>5. CASE \E p \in Procs : Crash(p)
  <2> PICK p \in Procs : Crash(p)
    BY <1>5
  <2>1. \A h \in Clients : pc'[h] \in Busy => pc[h] \in Busy
    BY DEF Crash, Busy
  <2>2. \A q \in Procs : mem'[q] \subseteq mem[q]
    BY DEF Crash, TypeOK
  <2>3. \A l \in Keys : file'[l] \in Entry => file'[l] \in Stored
    BY StoredMembers DEF Crash
  <2> QED
    BY <2>1, <2>2, <2>3, ForgetRefines DEF Crash
<1> QED
  BY <1>1, <1>2, <1>3, <1>4, <1>5

(* FileCache implements AdvisoryStore: whatever the processes, crashes,    *)
(* pruning, clearing and damage do, a Get answers with a record that was   *)
(* put under the very key it asked for, or misses.                         *)
THEOREM ImplementsStore == Spec => StoreSpec
<1>1. Init => Store!Init
  <2> SUFFICES ASSUME Init PROVE Store!Init
    OBVIOUS
  <2>1. \A x : x \notin Stored
    <3>1. TypeOK
      BY InitTypeOK
    <3> QED
      BY <3>1, NotEntries, StoredMembers DEF Init, Busy
  <2>2. (CHOOSE k \in Keys : TRUE) \in Keys
    BY CacheAssumption DEF CacheAssumption
  <2>3. answer \in [Clients -> Keys \X {Miss}] /\ puts = 0
    BY <2>2 DEF Init
  <2> QED
    BY <2>1, <2>3 DEF Store!Init
<1>2. TypeOK /\ TypeOK' /\ TempInv /\ [Next]_vars => [Store!Next]_(Store!vars)
  <2> SUFFICES ASSUME TypeOK, TypeOK', TempInv, [Next]_vars
               PROVE  [Store!Next]_(Store!vars)
    OBVIOUS
  <2>1. CASE Next
    BY <2>1, GetRefines, PutRefines, OtherRefines DEF Next
  <2>2. CASE UNCHANGED vars
    BY <2>2 DEF vars, disk, call, Store!vars, Stored, PairsOnDisk, PairsInHand
  <2> QED
    BY <2>1, <2>2
<1> QED
  BY <1>1, <1>2, Invariance, PTL DEF Spec, StoreSpec, Store!Spec
=============================================================================
