---------------------------- MODULE MCVerifying ----------------------------
(* Instances of Verifying for TLC.                                         *)
EXTENDS Verifying

CONSTANTS a1, a2

Both == {1, 2}

TheOrder == [a \in Advisories |-> IF a = a1 THEN 1 ELSE 2]

(* One reply per way of answering each query about a1, of the kinds of     *)
(* degradation and of the reports: the advisory is absent (a stamp pair    *)
(* outside StampPairs) or there under one of its stamps; it is hydrated    *)
(* everywhere or nowhere, as a source fetches the detail of an ID once.    *)
(* Besides, the second query may find a2, with its detail or without; both *)
(* may lose theirs, more than a report lists by name.                      *)
RepliesOver(StampPairs, Kinds, Partials, Synceds) ==
    LET Absent == <<0, 0, 0>>
        Rec(q, a, p, lost) == [query |-> q, id |-> a, modified |-> p[1],
                               published |-> p[2], hydrated |-> a \notin lost]
        Of(pairs, others, lost, kinds, partial, s) ==
            [err |-> FALSE,
             out |-> {Rec(q, a1, pairs[q], lost) :
                        q \in {q \in Both : pairs[q] # Absent}}
                     \cup {Rec(2, a, <<1, 1>>, lost) : a \in others},
             partial |-> partial,
             synced |-> [q \in Both |-> IF q = 1 THEN s ELSE 0],
             failed |-> lost,
             deg |-> kinds
                \cup (IF partial # {} THEN {"intel_incomplete"} ELSE {})
                \cup (IF lost # {} THEN {"advisory_detail"} ELSE {})]
    IN  {EmptyReply} \cup
        {Of(pairs, found[1], found[2], kinds, partial, s) :
            pairs \in [Both -> StampPairs \cup {Absent}],
            found \in {<<{}, {}>>, <<{}, {a1}>>, <<{a2}, {a2}>>, <<{a2}, {a1, a2}>>},
            kinds \in Kinds, partial \in Partials, s \in Synceds}

Error == [EmptyReply EXCEPT !.err = TRUE]
Reached == {{}}
Unreached == {{"osv_lookup"}}

(* Every combination, for one lookup. *)
WideIntel ==
    {Error} \cup RepliesOver({<<1, 1>>, <<2, 1>>}, Reached \cup Unreached,
                             {{}, {1}, Both}, {0, 1})
WideReference ==
    {Error} \cup RepliesOver({<<1, 1>>, <<2, 1>>, <<0, 2>>},
                             Reached \cup Unreached, {{}}, {0})

(* A few, for several lookups: unable to answer, unreached, incomplete, a   *)
(* record hydrated or not, nothing.                                        *)
Holding(q, f) ==
    [EmptyReply EXCEPT
        !.out = {[query |-> q, id |-> a1, modified |-> 1, published |-> 1,
                  hydrated |-> ~f]},
        !.failed = IF f THEN {a1} ELSE {},
        !.deg = IF f THEN {"advisory_detail"} ELSE {}]
FailedLookup == [EmptyReply EXCEPT !.deg = {"osv_lookup"}]
Incomplete == [EmptyReply EXCEPT !.deg = {"intel_incomplete"}, !.partial = {1}]

FewIntel == {Error, FailedLookup, Incomplete, Holding(1, FALSE), Holding(1, TRUE)}
FewReference == {Error, Incomplete, Holding(1, FALSE), Holding(2, TRUE)}

AllInterfaces == Interfaces
=============================================================================
