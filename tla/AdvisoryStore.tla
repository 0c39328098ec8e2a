--------------------------- MODULE AdvisoryStore ---------------------------
(***************************************************************************)
(* What the interface AdvisoryCache promises (osv/cache.go): Get answers a *)
(* key with a record that was Put under that very key, or misses.  A store *)
(* may forget anything at any time; it may never mix keys up and never     *)
(* make a record up.                                                       *)
(***************************************************************************)
EXTENDS Naturals

CONSTANTS Clients, Keys, Records, Miss

VARIABLES stored,   \* the pairs <<key, record>> that may still be answered
          puts,     \* the Puts that clients have called: how many
          answer    \* answer[g]: the key client g last asked for, and the answer

vars == <<stored, puts, answer>>

Init ==
    /\ stored = {}
    /\ puts = 0
    /\ answer \in [Clients -> Keys \X {Miss}]

Put(k, r) ==
    /\ stored' \subseteq stored \cup {<<k, r>>}
    /\ puts' = puts + 1
    /\ UNCHANGED answer

Get(g, k) ==
    /\ stored' \subseteq stored
    /\ \E r \in Records \cup {Miss} :
          /\ r # Miss => <<k, r>> \in stored
          /\ answer' = [answer EXCEPT ![g] = <<k, r>>]
    /\ UNCHANGED puts

Forget == stored' \subseteq stored /\ UNCHANGED <<puts, answer>>

Next ==
    \/ \E k \in Keys, r \in Records : Put(k, r)
    \/ \E g \in Clients, k \in Keys : Get(g, k)
    \/ Forget

Spec == Init /\ [][Next]_vars
=============================================================================
