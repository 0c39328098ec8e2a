------------------------------ MODULE FileCache ------------------------------
(***************************************************************************)
(* FileCache (osv/cache.go).  Goroutines of several processes share one    *)
(* directory; the goroutines of one process share its memory map.  Get     *)
(* reads memory, then the file, then fills memory, with the lock given up  *)
(* in between; Put fills memory, then writes a temporary file and renames  *)
(* it.  A process may die between any two steps, files age and are pruned, *)
(* Clear empties memory and then the directory, and a file may be damaged. *)
(*                                                                         *)
(* A key is the hash of (id, validator).  A file holds an entry, which     *)
(* is the pair of the key it was written for and its record, or bytes that *)
(* do not decode.                                                          *)
(***************************************************************************)
EXTENDS Naturals, FiniteSets

CONSTANTS Procs,       \* processes
          Clients,     \* goroutines
          ProcOf,      \* ProcOf[g]: the process of goroutine g
          Keys, Records,
          Miss,        \* the answer of a Get that misses
          MaxOps       \* bound: operations started in one behaviour

ASSUME CacheAssumption ==
    /\ ProcOf \in [Clients -> Procs]
    /\ IsFiniteSet(Clients)
    /\ Keys # {} /\ Records # {}
    /\ Miss \notin Records
    /\ MaxOps \in Nat

Entry == Keys \X Records
NoFile == <<>>
Garbled == <<"garbled">>
Files == Entry \cup {NoFile, Garbled}

VARIABLES
    mem,     \* mem[p]: the pairs <<key, record>> in memory of process p
    file,    \* file[k]: the content of the file named by k
    temp,    \* temp[g]: the content of the temporary file of g's Put
    orphans, \* temporary files whose process died: how many
    dir,     \* the directory exists
    pc,      \* pc[g]: where goroutine g is
    key, rec,\* key[g], rec[g]: the arguments of its operation
    answer,  \* answer[g]: the key of its last Get and what it returned
    puts,    \* history: Puts called
    ops      \* operations started, at most MaxOps

disk == <<file, temp, orphans, dir>>
call == <<pc, key, rec>>
vars == <<mem, disk, call, answer, puts, ops>>

Init ==
    /\ mem = [p \in Procs |-> {}]
    /\ file = [k \in Keys |-> NoFile]
    /\ temp = [g \in Clients |-> NoFile]
    /\ orphans = 0
    /\ dir = FALSE
    /\ pc = [g \in Clients |-> "idle"]
    /\ key = [g \in Clients |-> CHOOSE k \in Keys : TRUE]
    /\ rec = [g \in Clients |-> CHOOSE r \in Records : TRUE]
    /\ answer = [g \in Clients |-> <<CHOOSE k \in Keys : TRUE, Miss>>]
    /\ puts = 0
    /\ ops = 0

GoTo(g, label) == pc' = [pc EXCEPT ![g] = label]
Call(g, label) ==
    /\ pc[g] = "idle" /\ ops < MaxOps
    /\ ops' = ops + 1
    /\ GoTo(g, label)

Remembered(p, k) == {r \in Records : <<k, r>> \in mem[p]}
Remember(p, k, r) ==
    mem' = [mem EXCEPT ![p] = {m \in @ : m[1] # k} \cup {<<k, r>>}]

-----------------------------------------------------------------------------
(* Get. *)

(* Memory, under the read lock. *)
GetFromMemory(g, k) ==
    /\ Call(g, IF Remembered(ProcOf[g], k) = {} THEN "reading" ELSE "idle")
    /\ key' = [key EXCEPT ![g] = k]
    /\ answer' = [answer EXCEPT ![g] =
          IF Remembered(ProcOf[g], k) = {} THEN @
          ELSE <<k, CHOOSE r \in Remembered(ProcOf[g], k) : TRUE>>]
    /\ UNCHANGED <<mem, disk, rec, puts>>

(* An entry serves only the key it was written for. *)
AnyEntryServes(g) == file[key[g]] \in Entry       \* slip: identity unchecked
Serves(g) == file[key[g]] \in Entry /\ file[key[g]][1] = key[g]

(* No file, or one that does not decode, or not the entry asked for. *)
GetMisses(g) ==
    /\ pc[g] = "reading" /\ ~Serves(g)
    /\ GoTo(g, "idle")
    /\ answer' = [answer EXCEPT ![g] = <<key[g], Miss>>]
    /\ UNCHANGED <<mem, disk, key, rec, puts, ops>>

GetReads(g) ==
    /\ pc[g] = "reading" /\ Serves(g)
    /\ GoTo(g, "remembering")
    /\ rec' = [rec EXCEPT ![g] = file[key[g]][2]]
    /\ UNCHANGED <<mem, disk, key, answer, puts, ops>>

GetRemembers(g) ==
    /\ pc[g] = "remembering"
    /\ GoTo(g, "idle")
    /\ Remember(ProcOf[g], key[g], rec[g])
    /\ answer' = [answer EXCEPT ![g] = <<key[g], rec[g]>>]
    /\ UNCHANGED <<disk, key, rec, puts, ops>>

-----------------------------------------------------------------------------
(* Put. *)

PutInMemory(g, k, r) ==
    /\ Call(g, "mkdir")
    /\ key' = [key EXCEPT ![g] = k]
    /\ rec' = [rec EXCEPT ![g] = r]
    /\ Remember(ProcOf[g], k, r)
    /\ puts' = puts + 1
    /\ UNCHANGED <<disk, answer>>

MakeDirectory(g) ==
    /\ pc[g] = "mkdir"
    /\ GoTo(g, "creating")
    /\ dir' = TRUE
    /\ UNCHANGED <<mem, file, temp, orphans, key, rec, answer, puts, ops>>

CreateTemp(g) ==
    /\ pc[g] = "creating" /\ dir
    /\ GoTo(g, "writing")
    /\ temp' = [temp EXCEPT ![g] = Garbled]
    /\ UNCHANGED <<mem, file, orphans, dir, key, rec, answer, puts, ops>>

(* Clear may have removed the temporary file: what is written to it then   *)
(* is lost with it.                                                        *)
WriteTemp(g) ==
    /\ pc[g] = "writing"
    /\ GoTo(g, "renaming")
    /\ temp' = [temp EXCEPT ![g] = IF @ = NoFile THEN NoFile
                                   ELSE <<key[g], rec[g]>>]
    /\ UNCHANGED <<mem, file, orphans, dir, key, rec, answer, puts, ops>>

RenameUnwritten(g) ==                             \* slip: renamed before written
    /\ pc[g] = "writing" /\ temp[g] # NoFile
    /\ GoTo(g, "idle")
    /\ file' = [file EXCEPT ![key[g]] = temp[g]]
    /\ temp' = [temp EXCEPT ![g] = NoFile]
    /\ UNCHANGED <<mem, orphans, dir, key, rec, answer, puts, ops>>
RenameTemp(g) ==
    /\ pc[g] = "renaming" /\ temp[g] # NoFile
    /\ GoTo(g, "idle")
    /\ file' = [file EXCEPT ![key[g]] = temp[g]]
    /\ temp' = [temp EXCEPT ![g] = NoFile]
    /\ UNCHANGED <<mem, orphans, dir, key, rec, answer, puts, ops>>

(* A step fails, because the directory or the temporary file is gone or    *)
(* for a reason of the filesystem's own: the temporary file is removed and *)
(* nobody is told.  (A removal that fails as well would leave the file to  *)
(* Prune, as a dead process does; it is taken to succeed.)                 *)
GivesUpUncleaned(g) ==                            \* slip: a path without Remove
    /\ pc[g] \in {"mkdir", "creating", "writing", "renaming"}
    /\ GoTo(g, "idle")
    /\ temp' = [temp EXCEPT ![g] = IF pc[g] = "renaming" THEN @ ELSE NoFile]
    /\ UNCHANGED <<mem, file, orphans, dir, key, rec, answer, puts, ops>>
PutGivesUp(g) ==
    /\ pc[g] \in {"mkdir", "creating", "writing", "renaming"}
    /\ GoTo(g, "idle")
    /\ temp' = [temp EXCEPT ![g] = NoFile]
    /\ UNCHANGED <<mem, file, orphans, dir, key, rec, answer, puts, ops>>

-----------------------------------------------------------------------------
(* Clear, Prune, and what happens to processes and files.                  *)

ClearMemory(g) ==
    /\ Call(g, "clearing")
    /\ mem' = [mem EXCEPT ![ProcOf[g]] = {}]
    /\ UNCHANGED <<disk, key, rec, answer, puts>>

(* RemoveAll: entries and temporary files, and the directory. *)
ClearDirectory(g) ==
    /\ pc[g] = "clearing"
    /\ GoTo(g, "idle")
    /\ file' = [k \in Keys |-> NoFile]
    /\ temp' = [h \in Clients |-> NoFile]
    /\ orphans' = 0
    /\ dir' = FALSE
    /\ UNCHANGED <<mem, key, rec, answer, puts, ops>>

(* RemoveAll fails, and the error is Clear's; a file it has removed before *)
(* that is one that PruneEntry removes.                                    *)
ClearFails(g) ==
    /\ pc[g] = "clearing"
    /\ GoTo(g, "idle")
    /\ UNCHANGED <<mem, disk, key, rec, answer, puts, ops>>

(* Prune removes the files nobody touched for ninety days, whatever they   *)
(* are; one that a Put is writing now is not among them.                   *)
PruneEntry(k) ==
    /\ file[k] # NoFile
    /\ file' = [file EXCEPT ![k] = NoFile]
    /\ UNCHANGED <<mem, temp, orphans, dir, call, answer, puts, ops>>

PruneOrphan ==
    /\ orphans > 0
    /\ orphans' = orphans - 1
    /\ UNCHANGED <<mem, file, temp, dir, call, answer, puts, ops>>

Crash(p) ==
    LET dead == {g \in Clients : ProcOf[g] = p}
    IN  /\ \E g \in dead : pc[g] # "idle"
        /\ mem' = [mem EXCEPT ![p] = {}]
        /\ pc' = [g \in Clients |-> IF g \in dead THEN "idle" ELSE pc[g]]
        /\ orphans' = orphans + Cardinality({g \in dead : temp[g] # NoFile})
        /\ temp' = [g \in Clients |-> IF g \in dead THEN NoFile ELSE temp[g]]
        /\ UNCHANGED <<file, dir, key, rec, answer, puts, ops>>

(* A file is truncated, or another entry is copied over it by hand. *)
Damage(k) ==
    /\ file[k] # NoFile
    /\ \E content \in {Garbled} \cup {file[other] : other \in Keys \ {k}} :
          /\ content # NoFile
          /\ file' = [file EXCEPT ![k] = content]
    /\ UNCHANGED <<mem, temp, orphans, dir, call, answer, puts, ops>>

GetNext(g) ==
    \/ \E k \in Keys : GetFromMemory(g, k)
    \/ GetMisses(g)
    \/ GetReads(g)
    \/ GetRemembers(g)

PutNext(g) ==
    \/ \E k \in Keys, r \in Records : PutInMemory(g, k, r)
    \/ MakeDirectory(g)
    \/ CreateTemp(g)
    \/ WriteTemp(g)
    \/ RenameTemp(g)
    \/ PutGivesUp(g)

Next ==
    \/ \E g \in Clients : GetNext(g) \/ PutNext(g)
    \/ \E g \in Clients : ClearMemory(g) \/ ClearDirectory(g) \/ ClearFails(g)
    \/ \E k \in Keys : PruneEntry(k) \/ Damage(k)
    \/ PruneOrphan
    \/ \E p \in Procs : Crash(p)

Spec == Init /\ [][Next]_vars

-----------------------------------------------------------------------------
(* Every variable has the type its declaration says. *)
TypeOK ==
    /\ mem \in [Procs -> SUBSET Entry]
    /\ file \in [Keys -> Files]
    /\ temp \in [Clients -> Files]
    /\ orphans \in Nat
    /\ dir \in BOOLEAN
    /\ pc \in [Clients -> {"idle", "reading", "remembering", "mkdir",
                           "creating", "writing", "renaming", "clearing"}]
    /\ key \in [Clients -> Keys]
    /\ rec \in [Clients -> Records]
    /\ answer \in [Clients -> Keys \X (Records \cup {Miss})]
    /\ puts \in Nat
    /\ ops \in 0..MaxOps

(* The pairs a Get may still be answered with: those in a memory map, in a *)
(* file whatever its name, and in the hands of an unfinished call.         *)
PairsInHand ==
    {<<key[g], rec[g]>> : g \in {g \in Clients : pc[g] \notin
                                    {"idle", "reading", "clearing"}}}
PairsOnDisk == {file[k] : k \in Keys} \cap Entry
Stored == (UNION {mem[p] : p \in Procs}) \cup PairsOnDisk \cup PairsInHand

(* The cache is an AdvisoryStore: across processes, crashes, pruning,      *)
(* clearing and damaged files, a Get returns only what was put under the   *)
(* key it asked for.                                                       *)
Store == INSTANCE AdvisoryStore WITH stored <- Stored
StoreSpec == Store!Spec

(* A Put leaves no temporary file behind, whichever of its steps fails and *)
(* whatever another process clears meanwhile: only a Put still at work has *)
(* one (a process that died leaves its own to Prune), and one that is to   *)
(* be renamed holds the whole entry of that very call (cache.go:181-194).  *)
NoTempIsLeft ==
    \A g \in Clients : temp[g] # NoFile =>
        /\ pc[g] \in {"writing", "renaming"}
        /\ pc[g] = "renaming" => temp[g] = <<key[g], rec[g]>>

(* "A scan interrupted mid-write leaves the previous entry intact": the    *)
(* file of a key changes only to nothing or to a whole entry of that key,  *)
(* unless something other than the cache damages it.                       *)
WritesAreAtomic ==
    [][\A k \in Keys : file'[k] # file[k] =>
          \/ file'[k] = NoFile
          \/ file'[k] \in Entry /\ file'[k][1] = k
          \/ Damage(k)]_vars
=============================================================================
