------------------------------ MODULE Verifying ------------------------------
(***************************************************************************)
(* VerifyingSource (vulnsource/verify.go, vulnsource/detail.go): every     *)
(* lookup is sent to an intelligence source and to a reference; the answer *)
(* is the intelligence source's, repaired from the reference, and the      *)
(* difference is classified.                                               *)
(*                                                                         *)
(* Callers share one VerifyingSource: the two sources' own collectors      *)
(* (intelDeg, refDeg), the scan's collector deg, the last verification,    *)
(* and what each source's optional interfaces report of its LATEST lookup. *)
(* Everything else is local to one call of Lookup.                         *)
(***************************************************************************)
EXTENDS SourceContract

CONSTANTS Callers,           \* goroutines that call Lookup
          IntelReplies,      \* what the intelligence source may answer
          ReferenceReplies,  \* what the reference may answer
          IntelReports,      \* the optional interfaces each one implements
          ReferenceReports,
          MaxDetailIDsListed, \* advisories a report of lost detail names
          IdOrder,           \* the order of advisory IDs, as numbers
          MaxLookups         \* bound: Lookups made in one behaviour

Interfaces == {"partial", "mirror", "detail"}

ASSUME RepliesAssumption ==
    /\ IntelReplies \subseteq Reply
    /\ ReferenceReplies \subseteq Reply
    /\ \A r \in IntelReplies \cup ReferenceReplies : KeepsContract(r)

ASSUME ReportsAssumption ==
    /\ IntelReports \subseteq Interfaces
    /\ ReferenceReports \subseteq Interfaces

(* A scan asks about finitely many packages; no two IDs are alike. *)
ASSUME FiniteAssumption == IsFiniteSet(Queries) /\ IsFiniteSet(Advisories)

ASSUME ListedAssumption ==
    /\ MaxDetailIDsListed \in Nat
    /\ IdOrder \in [Advisories -> Nat]
    /\ \A a, b \in Advisories : IdOrder[a] = IdOrder[b] => a = b

ASSUME MaxLookupsAssumption == MaxLookups \in Nat

VARIABLES
    pc,           \* pc[c]: where caller c is in Lookup
    awaited,      \* awaited[c]: the sources wg.Wait still waits for
    intelReply,   \* intelReply[c], refReply[c]: what the two sources brought
    refReply,     \*   back to c's call, kept as it came
    intelOut,     \* intelOut[c]: the map Lookup will return
    refOut,       \* refOut[c]: the reference's map
    judged,       \* judged[c]: what the call has read about its two sources
    intelDeg,     \* kinds recorded on the intelligence source's collector
    refDeg,       \* kinds recorded on the reference's collector
    intelIndex,   \* the intelligence source's "most recent Lookup" indexes
    refFailures,  \* the reference's DetailFailures
    deg,          \* the scan's degradations
    result,       \* the last Verification
    lookups       \* Lookups started, at most MaxLookups

local  == <<intelReply, refReply, intelOut, refOut, judged>>
shared == <<intelDeg, refDeg, intelIndex, refFailures, deg, result>>
vars   == <<pc, awaited, local, shared, lookups>>

Phases == {"idle", "asking", "forwarding", "filling", "deciding", "comparing",
           "returned", "failed"}

Index == [partial : SUBSET Queries, synced : [Queries -> Stamp],
          failed : SUBSET Advisories]

(* What a degradation says.  One that counts findings without detail is    *)
(* about a source, names the first of their advisories and says how many   *)
(* more there are; another kind names all of its own.                      *)
Degradation == [kind     : SourceKinds \cup {"intel_suppression",
                               "intel_unverified", "intel_unreachable"},
                source   : {"any", "intel", "reference"},
                ids      : SUBSET Advisories,
                more     : Nat,
                findings : Nat]

Verification == [checked : BOOLEAN, suppressed : SUBSET Key,
                 lagged : SUBSET Key, added : SUBSET Key]

Judgement == [refFailed : BOOLEAN, unreachable : BOOLEAN,
              refGaps : SUBSET Key, partial : SUBSET Queries,
              synced : [Queries -> Stamp]]

Never == [q \in Queries |-> 0]
EmptyReply == [err |-> FALSE, deg |-> {}, out |-> {}, partial |-> {},
               synced |-> Never, failed |-> {}]
EmptyIndex == [partial |-> {}, synced |-> Never, failed |-> {}]
Unchecked == [checked |-> FALSE, suppressed |-> {}, lagged |-> {}, added |-> {}]
NoJudgement == [refFailed |-> FALSE, unreachable |-> FALSE, refGaps |-> {},
                partial |-> {}, synced |-> Never]

Said(kind, ids) == [kind |-> kind, source |-> "any", ids |-> ids, more |-> 0,
                    findings |-> 0]

(* Verification.Holds: an unchecked verification does not hold. *)
Holds(v) == v.checked /\ v.suppressed = {}

(* SuppressionRate, the metric a deployment gates on, as a fraction. *)
SuppressionRate(v) ==
    LET total == Cardinality(v.suppressed) + Cardinality(v.added)
    IN  IF ~v.checked THEN <<1, 1>>
        ELSE IF total = 0 THEN <<0, 1>>
        ELSE <<Cardinality(v.suppressed), total>>

-----------------------------------------------------------------------------
(* Stamps and the filling of one source's missing detail from the other.   *)

(* postdatesSync: nothing unprovable excuses a record's absence. *)
PostdatesSync(r, synced) ==
    LET stamp == IF r.modified = 0 THEN r.published ELSE r.modified
    IN  synced # 0 /\ stamp > synced

OlderThan(a, b) == a # 0 /\ b # 0 /\ a < b

(* Record.ApplyContent: empty fields of the donor leave r's untouched. *)
ApplyContent(r, donor) ==
    [r EXCEPT !.modified  = IF donor.modified # 0 THEN donor.modified ELSE @,
              !.published = IF donor.published # 0 THEN donor.published ELSE @,
              !.hydrated  = @ \/ donor.hydrated]

(* detailGaps: the records of an answer whose ID failed to hydrate. *)
DetailGaps(out, failed) == {k \in KeysOf(out) : k[2] \in failed}

(* The other side's records that may lend r their content. *)
DonorsOfAnyAge(r, donor, donorGaps) ==           \* slip: no version check
    {d \in donor : KeyOf(d) = KeyOf(r) /\ KeyOf(d) \notin donorGaps}
Donors(r, donor, donorGaps) ==
    {d \in donor : /\ KeyOf(d) = KeyOf(r)
                   /\ KeyOf(d) \notin donorGaps
                   /\ ~OlderThan(d.modified, r.modified)}

(* fillDetail, as the answer it leaves and the gaps that remain. *)
Filled(dst, donor, gaps, donorGaps) ==
    {IF KeyOf(r) \in gaps /\ Donors(r, donor, donorGaps) # {}
       THEN ApplyContent(r, CHOOSE d \in Donors(r, donor, donorGaps) : TRUE)
       ELSE r : r \in dst}

Remaining(dst, donor, gaps, donorGaps) ==
    {k \in gaps : \A r \in dst :
                      KeyOf(r) = k => Donors(r, donor, donorGaps) = {}}

IdsOf(keys) == {k[2] : k \in keys}

(* The records of from that out has no record for. *)
MissingAll(out, from) == from                     \* slip: nothing looked up
MissingById(out, from) ==                         \* slip: any query's record
    {r \in from : \A s \in out : s.id # r.id}
Missing(out, from) == {r \in from : KeyOf(r) \notin KeysOf(out)}

(* The IDs that are listed: the first of them in their order. *)
Listed(ids) ==
    {id \in ids : Cardinality({n \in ids : IdOrder[n] < IdOrder[id]})
                     < MaxDetailIDsListed}

(* ReportAdvisoryDetail: says nothing for a count of zero, and lists no    *)
(* more than MaxDetailIDsListed IDs, "and N more".                         *)
ReportCut(source, keys) ==                        \* slip: the rest unsaid
    IF keys = {} THEN {}
    ELSE {[kind |-> "advisory_detail", source |-> source,
           ids |-> Listed(IdsOf(keys)), more |-> 0,
           findings |-> Cardinality(keys)]}
ReportAdvisoryDetail(source, keys) ==
    LET named == IdsOf(keys)
    IN  IF keys = {} THEN {}
        ELSE {[kind |-> "advisory_detail", source |-> source,
               ids |-> Listed(named),
               more |-> IF Cardinality(named) > MaxDetailIDsListed
                          THEN Cardinality(named) - MaxDetailIDsListed ELSE 0,
               findings |-> Cardinality(keys)]}

(* The records whose absence from a complete mirror answer is lag. *)
LaggingAnywhere(recs, synced) ==                  \* slip: another query's sync
    {r \in recs : \E q \in Queries : PostdatesSync(r, synced[q])}
Lagging(recs, synced) == {r \in recs : PostdatesSync(r, synced[r.query])}

(* A collector's items that mean its source failed to answer: every kind   *)
(* but the advisory-detail one.                                            *)
FailuresToReach(collector) ==                     \* slip: incomplete passes
    collector \ {"advisory_detail", "intel_incomplete"}
LookupFailures(collector) == collector \ {"advisory_detail"}

-----------------------------------------------------------------------------
Init ==
    /\ pc = [c \in Callers |-> "idle"]
    /\ awaited = [c \in Callers |-> {}]
    /\ intelReply = [c \in Callers |-> EmptyReply]
    /\ refReply = [c \in Callers |-> EmptyReply]
    /\ intelOut = [c \in Callers |-> {}]
    /\ refOut = [c \in Callers |-> {}]
    /\ judged = [c \in Callers |-> NoJudgement]
    /\ intelDeg = {}
    /\ refDeg = {}
    /\ intelIndex = EmptyIndex
    /\ refFailures = {}
    /\ deg = {}
    /\ result = Unchecked
    /\ lookups = 0

GoTo(c, phase) == pc' = [pc EXCEPT ![c] = phase]

(* Lookup starts one goroutine per source. *)
Start(c) ==
    /\ pc[c] \in {"idle", "returned", "failed"}
    /\ lookups < MaxLookups
    /\ lookups' = lookups + 1
    /\ GoTo(c, "asking")
    /\ awaited' = [awaited EXCEPT ![c] = {"intel", "reference"}]
    /\ intelReply' = [intelReply EXCEPT ![c] = EmptyReply]
    /\ refReply' = [refReply EXCEPT ![c] = EmptyReply]
    /\ intelOut' = [intelOut EXCEPT ![c] = {}]
    /\ refOut' = [refOut EXCEPT ![c] = {}]
    /\ judged' = [judged EXCEPT ![c] = NoJudgement]
    /\ UNCHANGED shared

(* wg.Done, deferred: an error counts down too. *)
DoneUnlessError(c, source, reply) ==              \* slip: not deferred
    awaited' = [awaited EXCEPT ![c] =
                   (@ \ {source}) \cup (IF reply.err THEN {"gone"} ELSE {})]
Done(c, source, reply) == awaited' = [awaited EXCEPT ![c] = @ \ {source}]

(* A source's Lookup returns to c; it has left its degradations on its own *)
(* collector and, unless it could not be attempted, replaced its indexes.  *)
IntelAnswers(c, reply) ==
    /\ pc[c] = "asking" /\ "intel" \in awaited[c]
    /\ Done(c, "intel", reply)
    /\ intelReply' = [intelReply EXCEPT ![c] = reply]
    /\ intelOut' = [intelOut EXCEPT ![c] = reply.out]
    /\ intelDeg' = intelDeg \cup reply.deg
    /\ intelIndex' = IF reply.err THEN intelIndex
                     ELSE [partial |-> reply.partial, synced |-> reply.synced,
                           failed |-> reply.failed]
    /\ UNCHANGED <<pc, refReply, refOut, judged, refDeg, refFailures, deg,
                   result, lookups>>

ReferenceAnswers(c, reply) ==
    /\ pc[c] = "asking" /\ "reference" \in awaited[c]
    /\ Done(c, "reference", reply)
    /\ refReply' = [refReply EXCEPT ![c] = reply]
    /\ refOut' = [refOut EXCEPT ![c] = reply.out]
    /\ refDeg' = refDeg \cup reply.deg
    /\ refFailures' = IF reply.err THEN refFailures ELSE reply.failed
    /\ UNCHANGED <<pc, intelReply, intelOut, judged, intelDeg, intelIndex, deg,
                   result, lookups>>

(* An intelligence source that cannot answer at all is a hard failure. *)
Fail(c) ==
    /\ pc[c] = "asking" /\ awaited[c] = {}
    /\ intelReply[c].err
    /\ GoTo(c, "failed")
    /\ UNCHANGED <<awaited, local, shared, lookups>>

(* Reachability of the reference, judged on lookup failures only. *)
JudgeReference(c) ==
    /\ pc[c] = "asking" /\ awaited[c] = {}
    /\ ~intelReply[c].err
    /\ GoTo(c, "forwarding")
    /\ judged' = [judged EXCEPT ![c].refFailed =
                      refReply[c].err \/ LookupFailures(refDeg) # {}]
    /\ UNCHANGED <<awaited, intelReply, refReply, intelOut, refOut, shared,
                   lookups>>

(* forwardIncomplete: an incomplete answer is said on the scan, a detail   *)
(* failure too unless fillAdvisoryDetail will name it; the rest are the    *)
(* intelligence source's failures to answer.                               *)
Forwarded == {"intel_incomplete"} \cup
             (IF "detail" \in IntelReports THEN {} ELSE {"advisory_detail"})

ForwardIncomplete(c) ==
    /\ pc[c] = "forwarding"
    /\ GoTo(c, "filling")
    /\ deg' = deg \cup {Said(k, {}) : k \in intelDeg \cap Forwarded}
    /\ judged' = [judged EXCEPT ![c].unreachable =
            intelDeg \ {"intel_incomplete", "advisory_detail"} # {}]
    /\ UNCHANGED <<awaited, intelReply, refReply, intelOut, refOut, intelDeg,
                   refDeg, intelIndex, refFailures, result, lookups>>

(* fillAdvisoryDetail: each side's gaps are filled from the other; the     *)
(* intelligence source's that remain are named, the reference's are kept   *)
(* until it is known which of its records the scan uses.                   *)
FillAdvisoryDetail(c) ==
    LET intelFailed == IF "detail" \in IntelReports THEN intelIndex.failed ELSE {}
        refFailed == IF "detail" \in ReferenceReports THEN refFailures ELSE {}
        intelGaps == DetailGaps(intelOut[c], intelFailed)
        refGaps == DetailGaps(refOut[c], refFailed)
        filled == Filled(intelOut[c], refOut[c], intelGaps, refGaps)
        intelLeft == Remaining(intelOut[c], refOut[c], intelGaps, refGaps)
    IN  /\ pc[c] = "filling"
        /\ GoTo(c, "deciding")
        /\ intelOut' = [intelOut EXCEPT ![c] = filled]
        /\ refOut' = [refOut EXCEPT ![c] =
                          Filled(refOut[c], filled, refGaps, intelGaps)]
        /\ judged' = [judged EXCEPT ![c].refGaps =
                          Remaining(refOut[c], filled, refGaps, intelGaps)]
        /\ deg' = deg \cup (IF "detail" \in IntelReports
                              THEN ReportAdvisoryDetail("intel", intelLeft) ELSE {})
        /\ UNCHANGED <<awaited, intelReply, refReply, intelDeg, refDeg,
                       intelIndex, refFailures, result, lookups>>

(* The intelligence source never answered: the reference answers in its    *)
(* place, by union, and nothing is classified.                             *)
AnswerUnreachable(c) ==
    LET added == Missing(intelOut[c], refOut[c])
    IN  /\ pc[c] = "deciding"
        /\ judged[c].unreachable
        /\ GoTo(c, "returned")
        /\ intelOut' = [intelOut EXCEPT ![c] = @ \cup added]
        /\ result' = Unchecked
        /\ deg' = deg
               \cup {Said(IF judged[c].refFailed THEN "osv_lookup"
                          ELSE "intel_unreachable", {})}
               \cup ReportAdvisoryDetail("reference",
                                         KeysOf(added) \cap judged[c].refGaps)
        /\ UNCHANGED <<awaited, intelReply, refReply, refOut, judged, intelDeg,
                       refDeg, intelIndex, refFailures, lookups>>

(* The reference never answered in full: nothing is checked, and what it   *)
(* did answer is dropped.                                                  *)
AnswerUnverifiedSilently(c) ==                    \* slip: nothing said
    /\ pc[c] = "deciding"
    /\ ~judged[c].unreachable /\ judged[c].refFailed
    /\ GoTo(c, "returned")
    /\ result' = Unchecked
    /\ UNCHANGED <<awaited, local, intelDeg, refDeg, intelIndex, refFailures,
                   deg, lookups>>
AnswerUnverified(c) ==
    /\ pc[c] = "deciding"
    /\ ~judged[c].unreachable /\ judged[c].refFailed
    /\ GoTo(c, "returned")
    /\ result' = Unchecked
    /\ deg' = deg \cup {Said("intel_unverified", {})}
    /\ UNCHANGED <<awaited, local, intelDeg, refDeg, intelIndex, refFailures,
                   lookups>>

(* PartialQueries and MirrorSyncedAt, of a source that implements them. *)
ReadCoverage(c) ==
    /\ pc[c] = "deciding"
    /\ ~judged[c].unreachable /\ ~judged[c].refFailed
    /\ GoTo(c, "comparing")
    /\ judged' = [judged EXCEPT ![c] =
          [@ EXCEPT !.partial = IF "partial" \in IntelReports
                                  THEN intelIndex.partial ELSE {},
                    !.synced = IF "mirror" \in IntelReports
                                 THEN intelIndex.synced ELSE Never]]
    /\ UNCHANGED <<awaited, intelReply, refReply, intelOut, refOut, shared,
                   lookups>>

(* The classification loop.  Every record the intelligence source did not  *)
(* return is restored; it counts as suppressed unless its query was        *)
(* answered partially or it changed after the mirror's last sync.          *)
Compare(c) ==
    LET restored == Missing(intelOut[c], refOut[c])
        whole == {r \in restored : r.query \notin judged[c].partial}
        lagged == Lagging(whole, judged[c].synced)
        suppressed == KeysOf(whole \ lagged)
        answer == intelOut[c] \cup restored
    IN  /\ pc[c] = "comparing"
        /\ GoTo(c, "returned")
        /\ intelOut' = [intelOut EXCEPT ![c] = answer]
        /\ result' = [checked |-> TRUE, suppressed |-> suppressed,
                      lagged |-> KeysOf(lagged),
                      added |-> KeysOf(Missing(refOut[c], answer))]
        /\ deg' = deg
               \cup (IF suppressed = {} THEN {}
                     ELSE {Said("intel_suppression", IdsOf(suppressed))})
               \cup ReportAdvisoryDetail("reference",
                                         KeysOf(restored) \cap judged[c].refGaps)
        /\ UNCHANGED <<awaited, intelReply, refReply, refOut, judged, intelDeg,
                       refDeg, intelIndex, refFailures, lookups>>

Step(c) ==
    \/ Fail(c)
    \/ JudgeReference(c)
    \/ ForwardIncomplete(c)
    \/ FillAdvisoryDetail(c)
    \/ AnswerUnreachable(c)
    \/ AnswerUnverified(c)
    \/ ReadCoverage(c)
    \/ Compare(c)

Answer(c) ==
    \/ \E reply \in IntelReplies : IntelAnswers(c, reply)
    \/ \E reply \in ReferenceReplies : ReferenceAnswers(c, reply)

Next == \E c \in Callers : Start(c) \/ Answer(c) \/ Step(c)

Spec == Init /\ [][Next]_vars

(* Both sources answer in the end (their clients time out), and a          *)
(* goroutine that can run does.  Nothing obliges a caller to look up.      *)
FairSpec == Spec /\ \A c \in Callers : WF_vars(Answer(c)) /\ WF_vars(Step(c))

-----------------------------------------------------------------------------
(* Every variable has the type its declaration says. *)
TypeOK ==
    /\ pc \in [Callers -> Phases]
    /\ awaited \in [Callers -> SUBSET {"intel", "reference"}]
    /\ intelReply \in [Callers -> Reply]
    /\ refReply \in [Callers -> Reply]
    /\ intelOut \in [Callers -> SUBSET Record]
    /\ refOut \in [Callers -> SUBSET Record]
    /\ judged \in [Callers -> Judgement]
    /\ intelDeg \subseteq SourceKinds
    /\ refDeg \subseteq SourceKinds
    /\ intelIndex \in Index
    /\ refFailures \subseteq Advisories
    /\ deg \subseteq Degradation
    /\ result \in Verification
    /\ lookups \in 0..MaxLookups

SaidKinds(said) == {d.kind : d \in said}

(* The step in which c's Lookup returns an answer. *)
Returns(c) == pc[c] # "returned" /\ pc'[c] = "returned"

(* "A discrepancy must cost trust, never coverage": an answer holds every  *)
(* record the intelligence source returned, and every record the reference *)
(* returned too unless the scan is told that the answer was not checked.   *)
CoverageKept ==
    \A c \in Callers : pc[c] = "returned" =>
        /\ KeysOf(intelReply[c].out) \subseteq KeysOf(intelOut[c])
        /\ \/ KeysOf(refReply[c].out) \subseteq KeysOf(intelOut[c])
           \/ "intel_unverified" \in SaidKinds(deg)

(* A verification that says it ran compared two answers: both sources      *)
(* reached their service for this very lookup, and the reference was not   *)
(* itself incomplete.  Other callers' lookups share the collectors.        *)
CheckedMeansCompared ==
    [][\A c \in Callers : Returns(c) /\ result'.checked =>
          /\ Answered(intelReply[c])
          /\ Answered(refReply[c])
          /\ refReply[c].deg \subseteq {"advisory_detail"}]_vars

(* A lookup that returns unchecked has told the scan so, under one of the  *)
(* three kinds that mean it; a check that did not happen never passes for  *)
(* one that did.                                                           *)
UncheckedIsSaid ==
    [][\A c \in Callers : Returns(c) /\ ~result'.checked =>
          SaidKinds(deg') \cap {"osv_lookup", "intel_unverified",
                                "intel_unreachable"} # {}]_vars

(* When a verification holds, or a deployment reads a suppression rate of  *)
(* zero off it, the intelligence source itself returned every reference    *)
(* record but those of queries it called partial and those that changed    *)
(* after its mirror synced.                                                *)
HoldsMeansSuperset ==
    [][\A c \in Callers :
          Returns(c) /\ (Holds(result') \/ SuppressionRate(result')[1] = 0) =>
          \A r \in Missing(intelReply[c].out, refReply[c].out) :
              \/ r.query \in intelReply[c].partial
              \/ PostdatesSync(r, intelReply[c].synced[r.query])]_vars

(* Suppression is loud and repaired: the withheld records are named on the *)
(* scan and are in the answer all the same, and none of them is a record   *)
(* the intelligence source returned.                                       *)
SuppressionIsSaidAndRepaired ==
    [][\A c \in Callers : Returns(c) /\ result'.suppressed # {} =>
          /\ Said("intel_suppression", IdsOf(result'.suppressed)) \in deg'
          /\ result'.suppressed \subseteq KeysOf(intelOut'[c])
          /\ result'.suppressed \cap KeysOf(intelReply[c].out) = {}]_vars

(* A report tells of lost details: it counts no fewer findings than there  *)
(* are, and an advisory that it does not name comes after a full list of   *)
(* those it does and is among the rest it counts.                          *)
Tells(d, source, keys) ==
    LET unnamed == IdsOf(keys) \ d.ids
    IN  /\ d.kind = "advisory_detail" /\ d.source = source
        /\ d.findings >= Cardinality(keys)
        /\ d.more >= Cardinality(unnamed)
        /\ \A id \in unnamed :
              /\ Cardinality(d.ids) = MaxDetailIDsListed
              /\ \A n \in d.ids : IdOrder[n] < IdOrder[id]

LostIn(out) == KeysOf({r \in out : ~r.hydrated})

Told(source, keys, said) ==
    keys # {} => \E d \in said : Tells(d, source, keys)

(* A record of the answer that neither source could hydrate keeps a        *)
(* default severity.  Whichever source it came from and whichever way it   *)
(* joined the answer, a report of that source on the scan counts it and    *)
(* names its advisory, or counts it among those past the end of a full     *)
(* list (detail.go:26-30, verify.go:303-308).                              *)
DetailLossIsSaid ==
    \A c \in Callers : pc[c] = "returned" =>
        LET lost == LostIn(intelOut[c])
            own == lost \cap KeysOf(intelReply[c].out)
        IN  Told("intel", own, deg) /\ Told("reference", lost \ own, deg)

(* Content lent by the other source never takes a record back to an older  *)
(* version of the advisory than the one its own source reported.           *)
NeverOlderText ==
    \A c \in Callers : \A r \in intelOut[c], s \in intelReply[c].out :
        KeyOf(r) = KeyOf(s) => ~OlderThan(r.modified, s.modified)

(* A lookup that starts ends, with an answer or an error. *)
LookupsEnd ==
    \A c \in Callers : pc[c] = "asking" ~> pc[c] \in {"returned", "failed"}

-----------------------------------------------------------------------------
(* Statements of the package's comments that the code does not keep.       *)

(* verify.go, on Checked: it reports whether the comparison happened at    *)
(* all, and false means the reference could not be reached; so two answers *)
(* without a single degradation are compared.                              *)
CleanAnswersAreChecked ==
    [][\A c \in Callers : Returns(c) =>
          (intelReply[c].deg = {} /\ refReply[c].deg = {} /\ ~refReply[c].err
              => result'.checked)]_vars
=============================================================================
