-------------------------- MODULE Verifying_proofs --------------------------
(* Theorems about VerifyingSource, for any callers, queries, advisories    *)
(* and replies that keep the contract of a Source.                         *)
EXTENDS Verifying, FiniteSetTheorems, TLAPS

(* What filling one answer from another returns: records, under the keys   *)
(* the answer had, and no gap that was not there (fillDetail).             *)
LEMMA ApplyContentType ==
    ASSUME NEW r \in Record, NEW d \in Record
    PROVE  ApplyContent(r, d) \in Record /\ KeyOf(ApplyContent(r, d)) = KeyOf(r)
BY DEF ApplyContent, Record, KeyOf, Stamp

(* Filling keeps records records, and their keys. *)
LEMMA FilledType ==
    ASSUME NEW dst \in SUBSET Record, NEW donor \in SUBSET Record,
           NEW gaps, NEW donorGaps
    PROVE  /\ Filled(dst, donor, gaps, donorGaps) \in SUBSET Record
           /\ KeysOf(Filled(dst, donor, gaps, donorGaps)) = KeysOf(dst)
<1> DEFINE Lent(r) == ApplyContent(r, CHOOSE d \in Donors(r, donor, donorGaps) : TRUE)
           Fill(r) == IF KeyOf(r) \in gaps /\ Donors(r, donor, donorGaps) # {}
                        THEN Lent(r) ELSE r
<1>1. ASSUME NEW r \in dst
      PROVE  Fill(r) \in Record /\ KeyOf(Fill(r)) = KeyOf(r)
  <2>1. CASE KeyOf(r) \in gaps /\ Donors(r, donor, donorGaps) # {}
    <3>1. (CHOOSE d \in Donors(r, donor, donorGaps) : TRUE)
              \in Donors(r, donor, donorGaps)
      BY <2>1
    <3>2. (CHOOSE d \in Donors(r, donor, donorGaps) : TRUE) \in Record
      BY <3>1 DEF Donors
    <3> QED BY <2>1, <3>2, ApplyContentType
  <2>2. CASE ~(KeyOf(r) \in gaps /\ Donors(r, donor, donorGaps) # {})
    BY <2>2
  <2> QED BY <2>1, <2>2
<1>2. Filled(dst, donor, gaps, donorGaps) = {Fill(r) : r \in dst}
  BY DEF Filled
<1> HIDE DEF Fill
<1> QED BY <1>1, <1>2 DEF KeysOf

(* Keys of records are keys. *)
LEMMA KeysType ==
    ASSUME NEW recs \in SUBSET Record
    PROVE  KeysOf(recs) \in SUBSET Key
BY DEF KeysOf, KeyOf, Key, Record

(* Names of keys are advisories. *)
LEMMA IdsType ==
    ASSUME NEW keys \in SUBSET Key
    PROVE  IdsOf(keys) \in SUBSET Advisories
BY DEF IdsOf, Key

(* A scan asks about finitely many keys. *)
LEMMA FiniteKeys ==
    ASSUME NEW keys \in SUBSET Key
    PROVE  /\ IsFiniteSet(keys) /\ Cardinality(keys) \in Nat
           /\ IsFiniteSet(IdsOf(keys)) /\ Cardinality(IdsOf(keys)) \in Nat
<1>1. IsFiniteSet(Key)
  BY FiniteAssumption, FS_Product DEF Key
<1>2. IsFiniteSet(keys)
  BY <1>1, FS_Subset
<1>3. IsFiniteSet(IdsOf(keys))
  BY IdsType, FiniteAssumption, FS_Subset
<1> QED BY <1>2, <1>3, FS_CardinalityType

(* A report of gaps is a set of degradations. *)
LEMMA ReportType ==
    ASSUME NEW source \in {"intel", "reference"}, NEW keys \in SUBSET Key
    PROVE  ReportAdvisoryDetail(source, keys) \in SUBSET Degradation
<1> DEFINE n == Cardinality(IdsOf(keys))
           more == IF n > MaxDetailIDsListed THEN n - MaxDetailIDsListed ELSE 0
<1>1. n \in Nat /\ Cardinality(keys) \in Nat
  BY FiniteKeys
<1>2. more \in Nat
  <2> HIDE DEF n
  <2> QED BY <1>1, ListedAssumption
<1>3. Listed(IdsOf(keys)) \in SUBSET Advisories
  BY IdsType DEF Listed
<1> QED BY <1>1, <1>2, <1>3 DEF ReportAdvisoryDetail, Degradation, SourceKinds

(* A statement of one of the scan's kinds is a degradation. *)
LEMMA SaidType ==
    ASSUME NEW kind \in SourceKinds \cup {"intel_suppression", "intel_unverified",
                                        "intel_unreachable"},
           NEW ids \in SUBSET Advisories
    PROVE  Said(kind, ids) \in Degradation
BY DEF Said, Degradation

(* What a lookup starts from has its type. *)
LEMMA ConstantTypes ==
    /\ EmptyReply \in Reply
    /\ EmptyIndex \in Index
    /\ Unchecked \in Verification
    /\ NoJudgement \in Judgement
    /\ Never \in [Queries -> Stamp]
BY DEF EmptyReply, Reply, EmptyIndex, Index, Unchecked, Verification,
       NoJudgement, Judgement, Never, Stamp

-----------------------------------------------------------------------------
(* Every variable keeps its type through every step of Lookup. *)
THEOREM TypeCorrect == Spec => []TypeOK
<1>1. Init => TypeOK
  BY ConstantTypes, MaxLookupsAssumption DEF Init, TypeOK, Phases
<1>2. TypeOK /\ [Next]_vars => TypeOK'
  <2> SUFFICES ASSUME TypeOK, [Next]_vars PROVE TypeOK'
    OBVIOUS
  <2> USE DEF TypeOK
  <2>1. ASSUME NEW c \in Callers, Start(c) PROVE TypeOK'
    BY <2>1, ConstantTypes, MaxLookupsAssumption
       DEF Start, GoTo, Phases, shared
  <2>2. ASSUME NEW c \in Callers, NEW reply \in IntelReplies,
               IntelAnswers(c, reply)
        PROVE TypeOK'
    <3>1. reply \in Reply
      BY RepliesAssumption
    <3> QED BY <2>2, <3>1 DEF IntelAnswers, Done, Reply, Index
  <2>3. ASSUME NEW c \in Callers, NEW reply \in ReferenceReplies,
               ReferenceAnswers(c, reply)
        PROVE TypeOK'
    <3>1. reply \in Reply
      BY RepliesAssumption
    <3> QED BY <2>3, <3>1 DEF ReferenceAnswers, Done, Reply
  <2>4. ASSUME NEW c \in Callers, Fail(c) PROVE TypeOK'
    BY <2>4 DEF Fail, GoTo, Phases, local, shared
  <2>5. ASSUME NEW c \in Callers, JudgeReference(c) PROVE TypeOK'
    <3> DEFINE failed == refReply[c].err \/ LookupFailures(refDeg) # {}
    <3>1. failed \in BOOLEAN
      BY DEF Reply
    <3>2. judged' = [judged EXCEPT ![c].refFailed = failed]
      BY <2>5 DEF JudgeReference
    <3> HIDE DEF failed
    <3>3. judged' \in [Callers -> Judgement]
      BY <3>1, <3>2, ZenonT(30) DEF Judgement
    <3> QED BY <2>5, <3>3 DEF JudgeReference, GoTo, Phases, shared
  <2>6. ASSUME NEW c \in Callers, ForwardIncomplete(c) PROVE TypeOK'
    <3> DEFINE silent == intelDeg \ {"intel_incomplete", "advisory_detail"} # {}
    <3>1. silent \in BOOLEAN
      OBVIOUS
    <3>2. judged' = [judged EXCEPT ![c].unreachable = silent]
      BY <2>6 DEF ForwardIncomplete
    <3> HIDE DEF silent
    <3>3. judged' \in [Callers -> Judgement]
      BY <3>1, <3>2, ZenonT(30) DEF Judgement
    <3>4. {Said(k, {}) : k \in intelDeg \cap Forwarded} \subseteq Degradation
      BY SaidType
    <3> QED BY <2>6, <3>3, <3>4 DEF ForwardIncomplete, GoTo, Phases
  <2>7. ASSUME NEW c \in Callers, FillAdvisoryDetail(c) PROVE TypeOK'
    <3> DEFINE intelFailed == IF "detail" \in IntelReports
                              THEN intelIndex.failed ELSE {}
               refFailed == IF "detail" \in ReferenceReports
                            THEN refFailures ELSE {}
               intelGaps == DetailGaps(intelOut[c], intelFailed)
               refGaps == DetailGaps(refOut[c], refFailed)
               filled == Filled(intelOut[c], refOut[c], intelGaps, refGaps)
               refFilled == Filled(refOut[c], filled, refGaps, intelGaps)
               intelLeft == Remaining(intelOut[c], refOut[c], intelGaps, refGaps)
               refLeft == Remaining(refOut[c], filled, refGaps, intelGaps)
    <3>1. filled \in SUBSET Record /\ refFilled \in SUBSET Record
      BY FilledType
    <3>2. intelLeft \in SUBSET Key /\ refLeft \in SUBSET Key
      BY KeysType DEF Remaining, DetailGaps
    <3>3. ReportAdvisoryDetail("intel", intelLeft) \subseteq Degradation
      BY <3>2, ReportType
    <3>4. /\ pc' = [pc EXCEPT ![c] = "deciding"]
          /\ intelOut' = [intelOut EXCEPT ![c] = filled]
          /\ refOut' = [refOut EXCEPT ![c] = refFilled]
          /\ judged' = [judged EXCEPT ![c].refGaps = refLeft]
          /\ deg' = deg \cup (IF "detail" \in IntelReports
                              THEN ReportAdvisoryDetail("intel", intelLeft) ELSE {})
          /\ UNCHANGED <<awaited, intelReply, refReply, intelDeg, refDeg,
                         intelIndex, refFailures, result, lookups>>
      BY <2>7 DEF FillAdvisoryDetail, GoTo
    <3> HIDE DEF filled, refFilled, intelLeft, refLeft
    <3>5. judged' \in [Callers -> Judgement]
      BY <3>2, <3>4, ZenonT(30) DEF Judgement
    <3>6. intelOut' \in [Callers -> SUBSET Record] /\ refOut' \in [Callers -> SUBSET Record]
      BY <3>1, <3>4
    <3>7. deg' \subseteq Degradation
      BY <3>3, <3>4
    <3>8. pc' \in [Callers -> Phases]
      BY <3>4 DEF Phases
    <3> QED BY <3>4, <3>5, <3>6, <3>7, <3>8
  <2>8. ASSUME NEW c \in Callers, AnswerUnreachable(c) PROVE TypeOK'
    <3> DEFINE added == Missing(intelOut[c], refOut[c])
    <3>1. added \in SUBSET Record
      BY DEF Missing
    <3>2. ReportAdvisoryDetail("reference", KeysOf(added) \cap judged[c].refGaps)
              \subseteq Degradation
      BY <3>1, KeysType, ReportType
    <3>3. /\ pc' = [pc EXCEPT ![c] = "returned"]
          /\ intelOut' = [intelOut EXCEPT ![c] = @ \cup added]
          /\ result' = Unchecked
          /\ deg' = deg
               \cup {Said(IF judged[c].refFailed THEN "osv_lookup"
                          ELSE "intel_unreachable", {})}
               \cup ReportAdvisoryDetail("reference",
                                         KeysOf(added) \cap judged[c].refGaps)
          /\ UNCHANGED <<awaited, intelReply, refReply, refOut, judged, intelDeg,
                         refDeg, intelIndex, refFailures, lookups>>
      BY <2>8 DEF AnswerUnreachable, GoTo
    <3>4. {Said(IF judged[c].refFailed THEN "osv_lookup"
                ELSE "intel_unreachable", {})} \subseteq Degradation
      BY SaidType DEF SourceKinds
    <3>5. deg' \subseteq Degradation
      BY <3>2, <3>3, <3>4
    <3> HIDE DEF added
    <3> QED BY <3>1, <3>3, <3>5, ConstantTypes DEF Phases
  <2>9. ASSUME NEW c \in Callers, AnswerUnverified(c) PROVE TypeOK'
    <3>1. Said("intel_unverified", {}) \in Degradation
      BY SaidType
    <3> QED BY <2>9, <3>1, ConstantTypes DEF AnswerUnverified, GoTo, Phases, local
  <2>10. ASSUME NEW c \in Callers, ReadCoverage(c) PROVE TypeOK'
    <3>1. (IF "partial" \in IntelReports THEN intelIndex.partial ELSE {})
              \in SUBSET Queries
      BY DEF Index
    <3>2. (IF "mirror" \in IntelReports THEN intelIndex.synced ELSE Never)
              \in [Queries -> Stamp]
      BY ConstantTypes DEF Index
    <3>3. judged' \in [Callers -> Judgement]
      <4> DEFINE partial == IF "partial" \in IntelReports
                            THEN intelIndex.partial ELSE {}
                 synced == IF "mirror" \in IntelReports
                           THEN intelIndex.synced ELSE Never
      <4>1. judged' = [judged EXCEPT ![c] =
                          [@ EXCEPT !.partial = partial, !.synced = synced]]
        BY <2>10 DEF ReadCoverage
      <4>2. partial \in SUBSET Queries /\ synced \in [Queries -> Stamp]
        BY <3>1, <3>2
      <4> HIDE DEF partial, synced
      <4>3. [judged[c] EXCEPT !.partial = partial, !.synced = synced]
                \in Judgement
        BY <4>2, ZenonT(30) DEF Judgement
      <4> QED BY <4>1, <4>3
    <3>4. /\ pc' = [pc EXCEPT ![c] = "comparing"]
          /\ UNCHANGED <<awaited, intelReply, refReply, intelOut, refOut, intelDeg,
                         refDeg, intelIndex, refFailures, deg, result, lookups>>
      BY <2>10 DEF ReadCoverage, GoTo, shared
    <3>5. pc' \in [Callers -> Phases]
      BY <3>4 DEF Phases
    <3> QED BY <3>3, <3>4, <3>5
  <2>11. ASSUME NEW c \in Callers, Compare(c) PROVE TypeOK'
    <3> DEFINE restored == Missing(intelOut[c], refOut[c])
               whole == {r \in restored : r.query \notin judged[c].partial}
               lagged == Lagging(whole, judged[c].synced)
               suppressed == KeysOf(whole \ lagged)
               answer == intelOut[c] \cup restored
               added == KeysOf(Missing(refOut[c], answer))
    <3>1. restored \in SUBSET Record /\ answer \in SUBSET Record
      BY DEF Missing
    <3>2. /\ suppressed \in SUBSET Key
          /\ KeysOf(lagged) \in SUBSET Key
          /\ added \in SUBSET Key
      BY <3>1, KeysType DEF Missing, Lagging
    <3>3. ReportAdvisoryDetail("reference", KeysOf(restored) \cap judged[c].refGaps)
              \subseteq Degradation
      BY <3>1, KeysType, ReportType
    <3>4. {Said("intel_suppression", IdsOf(suppressed))} \subseteq Degradation
      BY <3>2, IdsType, SaidType
    <3>5. /\ pc' = [pc EXCEPT ![c] = "returned"]
          /\ intelOut' = [intelOut EXCEPT ![c] = answer]
          /\ result' = [checked |-> TRUE, suppressed |-> suppressed,
                        lagged |-> KeysOf(lagged), added |-> added]
          /\ deg' = deg
               \cup (IF suppressed = {} THEN {}
                     ELSE {Said("intel_suppression", IdsOf(suppressed))})
               \cup ReportAdvisoryDetail("reference",
                                         KeysOf(restored) \cap judged[c].refGaps)
          /\ UNCHANGED <<awaited, intelReply, refReply, refOut, judged, intelDeg,
                         refDeg, intelIndex, refFailures, lookups>>
      BY <2>11 DEF Compare, GoTo
    <3> HIDE DEF restored, lagged, suppressed, answer, added
    <3> QED BY <3>1, <3>2, <3>3, <3>4, <3>5 DEF Phases, Verification
  <2>12. CASE UNCHANGED vars
    BY <2>12 DEF vars, local, shared
  <2> QED BY <2>1, <2>2, <2>3, <2>4, <2>5, <2>6, <2>7, <2>8, <2>9, <2>10,
             <2>11, <2>12 DEF Next, Answer, Step
<1> QED BY <1>1, <1>2, PTL DEF Spec

-----------------------------------------------------------------------------
(* The inductive invariant behind the safety theorems.  Nothing that came  *)
(* back to a call is lost on its way to the answer; what a source recorded *)
(* for a call is on that source's collector, which only grows; and a call  *)
(* past its judgement has read collectors that held it.                    *)
KeysKept(c) ==
    /\ KeysOf(intelReply[c].out) \subseteq KeysOf(intelOut[c])
    /\ KeysOf(refOut[c]) = KeysOf(refReply[c].out)

Collected(c) ==
    /\ intelReply[c].deg \subseteq intelDeg
    /\ refReply[c].deg \subseteq refDeg

ReferenceJudged(c) ==
    pc[c] \in {"forwarding", "filling", "deciding", "comparing"} =>
        /\ ~intelReply[c].err
        /\ ~judged[c].refFailed => /\ ~refReply[c].err
                                   /\ refReply[c].deg \subseteq {"advisory_detail"}

IntelJudged(c) ==
    pc[c] \in {"filling", "deciding", "comparing"} /\ ~judged[c].unreachable =>
        "osv_lookup" \notin intelReply[c].deg

BothAnswered(c) ==
    pc[c] = "comparing" => ~judged[c].unreachable /\ ~judged[c].refFailed

ReturnedCovers(c) ==
    pc[c] = "returned" => \/ KeysOf(refOut[c]) \subseteq KeysOf(intelOut[c])
                          \/ "intel_unverified" \in SaidKinds(deg)

CallInv(c) ==
    /\ KeysKept(c)
    /\ Collected(c)
    /\ ReferenceJudged(c)
    /\ IntelJudged(c)
    /\ BothAnswered(c)
    /\ ReturnedCovers(c)

IInv == \A c \in Callers : CallInv(c)

(* A step that changes nothing of call d but lets the collectors grow      *)
(* keeps the call's part of the invariant.                                 *)
LEMMA OtherCall ==
    ASSUME NEW d \in Callers, CallInv(d),
           pc'[d] = pc[d],
           intelReply'[d] = intelReply[d], refReply'[d] = refReply[d],
           intelOut'[d] = intelOut[d], refOut'[d] = refOut[d],
           judged'[d] = judged[d],
           intelDeg \subseteq intelDeg', refDeg \subseteq refDeg',
           deg \subseteq deg'
    PROVE  CallInv(d)'
<1>1. SaidKinds(deg) \subseteq SaidKinds(deg')
  BY DEF SaidKinds
<1> QED
  BY <1>1 DEF CallInv, KeysKept, Collected, ReferenceJudged, IntelJudged,
              BothAnswered, ReturnedCovers

(* Joining what is missing covers both answers. *)
LEMMA MissingCovers ==
    ASSUME NEW out, NEW from
    PROVE  /\ KeysOf(from) \subseteq KeysOf(out \cup Missing(out, from))
           /\ KeysOf(out) \subseteq KeysOf(out \cup Missing(out, from))
BY DEF KeysOf, Missing

(* The invariant is kept by every step, whichever call takes it. *)
LEMMA CallInvStep ==
    ASSUME TypeOK, IInv, [Next]_vars
    PROVE  IInv'
<1> SUFFICES ASSUME NEW d \in Callers PROVE CallInv(d)'
  BY DEF IInv
<1>0. CallInv(d)
  BY DEF IInv
<1> USE DEF TypeOK
<1>1. ASSUME NEW c \in Callers, Start(c) PROVE CallInv(d)'
  <2>1. CASE d # c
    BY <1>0, <1>1, <2>1, OtherCall DEF Start, GoTo, shared
  <2>2. CASE d = c
    <3>1. /\ pc'[c] = "asking"
          /\ intelReply'[c] = EmptyReply /\ refReply'[c] = EmptyReply
          /\ intelOut'[c] = {} /\ refOut'[c] = {}
      BY <1>1 DEF Start, GoTo
    <3> QED BY <2>2, <3>1
            DEF CallInv, KeysKept, Collected, ReferenceJudged, IntelJudged,
                BothAnswered, ReturnedCovers, EmptyReply
  <2> QED BY <2>1, <2>2
<1>2. ASSUME NEW c \in Callers, NEW reply \in IntelReplies,
             IntelAnswers(c, reply)
      PROVE CallInv(d)'
  <2>1. CASE d # c
    BY <1>0, <1>2, <2>1, OtherCall DEF IntelAnswers
  <2>2. CASE d = c
    BY <1>0, <1>2, <2>2
       DEF IntelAnswers, CallInv, KeysKept, Collected, ReferenceJudged,
           IntelJudged, BothAnswered, ReturnedCovers
  <2> QED BY <2>1, <2>2
<1>3. ASSUME NEW c \in Callers, NEW reply \in ReferenceReplies,
             ReferenceAnswers(c, reply)
      PROVE CallInv(d)'
  <2>1. CASE d # c
    BY <1>0, <1>3, <2>1, OtherCall DEF ReferenceAnswers
  <2>2. CASE d = c
    BY <1>0, <1>3, <2>2
       DEF ReferenceAnswers, CallInv, KeysKept, Collected, ReferenceJudged,
           IntelJudged, BothAnswered, ReturnedCovers
  <2> QED BY <2>1, <2>2
<1>4. ASSUME NEW c \in Callers, Fail(c) PROVE CallInv(d)'
  <2>1. CASE d # c
    BY <1>0, <1>4, <2>1, OtherCall DEF Fail, GoTo, local, shared
  <2>2. CASE d = c
    BY <1>0, <1>4, <2>2
       DEF Fail, GoTo, local, shared, CallInv, KeysKept, Collected,
           ReferenceJudged, IntelJudged, BothAnswered, ReturnedCovers
  <2> QED BY <2>1, <2>2
<1>5. ASSUME NEW c \in Callers, JudgeReference(c) PROVE CallInv(d)'
  <2>1. CASE d # c
    BY <1>0, <1>5, <2>1, OtherCall DEF JudgeReference, GoTo, shared
  <2>2. CASE d = c
    <3>1. pc'[c] = "forwarding" /\ UNCHANGED <<intelReply, refReply, intelOut,
                                              refOut, shared>>
      BY <1>5 DEF JudgeReference, GoTo
    <3>2. ~judged'[c].refFailed =>
              ~refReply[c].err /\ LookupFailures(refDeg) = {}
      BY <1>5 DEF JudgeReference, Judgement
    <3>3. ReferenceJudged(c)'
      BY <1>0, <1>5, <2>2, <3>1, <3>2
         DEF JudgeReference, ReferenceJudged, CallInv, Collected, LookupFailures
    <3> QED BY <1>0, <2>2, <3>1, <3>3
            DEF CallInv, KeysKept, Collected, IntelJudged, BothAnswered,
                ReturnedCovers, shared
  <2> QED BY <2>1, <2>2
<1>6. ASSUME NEW c \in Callers, ForwardIncomplete(c) PROVE CallInv(d)'
  <2>1. CASE d # c
    BY <1>0, <1>6, <2>1, OtherCall DEF ForwardIncomplete, GoTo
  <2>2. CASE d = c
    <3>1. /\ pc[c] = "forwarding" /\ pc'[c] = "filling"
          /\ UNCHANGED <<intelReply, refReply, intelOut, refOut, intelDeg,
                         refDeg>>
      BY <1>6 DEF ForwardIncomplete, GoTo
    <3>2. /\ judged'[c].refFailed = judged[c].refFailed
          /\ ~judged'[c].unreachable => "osv_lookup" \notin intelDeg
      <4> DEFINE silent == intelDeg \ {"intel_incomplete", "advisory_detail"} # {}
      <4>1. judged' = [judged EXCEPT ![c].unreachable = silent]
        BY <1>6 DEF ForwardIncomplete
      <4>2. ~silent => "osv_lookup" \notin intelDeg
        OBVIOUS
      <4> HIDE DEF silent
      <4> QED BY <4>1, <4>2 DEF Judgement
    <3> QED BY <1>0, <2>2, <3>1, <3>2
            DEF CallInv, KeysKept, Collected, ReferenceJudged, IntelJudged,
                BothAnswered, ReturnedCovers
  <2> QED BY <2>1, <2>2
<1>7. ASSUME NEW c \in Callers, FillAdvisoryDetail(c) PROVE CallInv(d)'
  <2>1. CASE d # c
    BY <1>0, <1>7, <2>1, OtherCall DEF FillAdvisoryDetail, GoTo
  <2>2. CASE d = c
    <3>1. /\ pc[c] = "filling" /\ pc'[c] = "deciding"
          /\ UNCHANGED <<intelReply, refReply, intelDeg, refDeg>>
      BY <1>7 DEF FillAdvisoryDetail, GoTo
    <3>2. /\ judged'[c].refFailed = judged[c].refFailed
          /\ judged'[c].unreachable = judged[c].unreachable
      BY <1>7 DEF FillAdvisoryDetail, Judgement
    <3>3. /\ KeysOf(intelOut'[c]) = KeysOf(intelOut[c])
          /\ KeysOf(refOut'[c]) = KeysOf(refOut[c])
      <4> DEFINE intelFailed == IF "detail" \in IntelReports
                                THEN intelIndex.failed ELSE {}
                 refFailed == IF "detail" \in ReferenceReports
                              THEN refFailures ELSE {}
                 intelGaps == DetailGaps(intelOut[c], intelFailed)
                 refGaps == DetailGaps(refOut[c], refFailed)
                 filled == Filled(intelOut[c], refOut[c], intelGaps, refGaps)
                 refFilled == Filled(refOut[c], filled, refGaps, intelGaps)
      <4>1. filled \in SUBSET Record /\ KeysOf(filled) = KeysOf(intelOut[c])
        BY FilledType, ZenonT(30)
      <4>2. KeysOf(refFilled) = KeysOf(refOut[c])
        BY <4>1, FilledType, SMTT(20)
      <4>3. intelOut'[c] = filled /\ refOut'[c] = refFilled
        BY <1>7 DEF FillAdvisoryDetail
      <4> HIDE DEF filled, refFilled
      <4> QED BY <4>1, <4>2, <4>3
    <3> QED BY <1>0, <2>2, <3>1, <3>2, <3>3
            DEF CallInv, KeysKept, Collected, ReferenceJudged, IntelJudged,
                BothAnswered, ReturnedCovers
  <2> QED BY <2>1, <2>2
<1>8. ASSUME NEW c \in Callers, AnswerUnreachable(c) PROVE CallInv(d)'
  <2>1. CASE d # c
    BY <1>0, <1>8, <2>1, OtherCall DEF AnswerUnreachable, GoTo
  <2>2. CASE d = c
    <3>1. /\ pc'[c] = "returned"
          /\ UNCHANGED <<intelReply, refReply, refOut, intelDeg, refDeg>>
          /\ intelOut'[c] = intelOut[c] \cup Missing(intelOut[c], refOut[c])
      BY <1>8 DEF AnswerUnreachable, GoTo
    <3> QED BY <1>0, <2>2, <3>1, MissingCovers
            DEF CallInv, KeysKept, Collected, ReferenceJudged, IntelJudged,
                BothAnswered, ReturnedCovers
  <2> QED BY <2>1, <2>2
<1>9. ASSUME NEW c \in Callers, AnswerUnverified(c) PROVE CallInv(d)'
  <2>1. CASE d # c
    BY <1>0, <1>9, <2>1, OtherCall DEF AnswerUnverified, GoTo, local
  <2>2. CASE d = c
    <3>1. Said("intel_unverified", {}) \in deg'
      BY <1>9 DEF AnswerUnverified
    <3>2. "intel_unverified" \in SaidKinds(deg')
      BY <3>1 DEF SaidKinds, Said
    <3> QED BY <1>0, <1>9, <2>2, <3>2
            DEF AnswerUnverified, GoTo, local, CallInv, KeysKept, Collected,
                ReferenceJudged, IntelJudged, BothAnswered, ReturnedCovers
  <2> QED BY <2>1, <2>2
<1>10. ASSUME NEW c \in Callers, ReadCoverage(c) PROVE CallInv(d)'
  <2>1. CASE d # c
    BY <1>0, <1>10, <2>1, OtherCall DEF ReadCoverage, GoTo, shared
  <2>2. CASE d = c
    <3>1. /\ pc[c] = "deciding" /\ pc'[c] = "comparing"
          /\ ~judged[c].unreachable /\ ~judged[c].refFailed
          /\ UNCHANGED <<intelReply, refReply, intelOut, refOut, intelDeg,
                         refDeg>>
      BY <1>10 DEF ReadCoverage, GoTo, shared
    <3>2. /\ judged'[c].refFailed = judged[c].refFailed
          /\ judged'[c].unreachable = judged[c].unreachable
      BY <1>10 DEF ReadCoverage, Judgement
    <3> QED BY <1>0, <2>2, <3>1, <3>2
            DEF CallInv, KeysKept, Collected, ReferenceJudged, IntelJudged,
                BothAnswered, ReturnedCovers
  <2> QED BY <2>1, <2>2
<1>11. ASSUME NEW c \in Callers, Compare(c) PROVE CallInv(d)'
  <2>1. CASE d # c
    BY <1>0, <1>11, <2>1, OtherCall DEF Compare, GoTo
  <2>2. CASE d = c
    <3>1. /\ pc'[c] = "returned"
          /\ UNCHANGED <<intelReply, refReply, refOut, intelDeg, refDeg>>
          /\ intelOut'[c] = intelOut[c] \cup Missing(intelOut[c], refOut[c])
      BY <1>11 DEF Compare, GoTo
    <3> QED BY <1>0, <2>2, <3>1, MissingCovers
            DEF CallInv, KeysKept, Collected, ReferenceJudged, IntelJudged,
                BothAnswered, ReturnedCovers
  <2> QED BY <2>1, <2>2
<1>12. CASE UNCHANGED vars
  BY <1>0, <1>12, OtherCall DEF vars, local, shared
<1> QED BY <1>1, <1>2, <1>3, <1>4, <1>5, <1>6, <1>7, <1>8, <1>9, <1>10,
           <1>11, <1>12 DEF Next, Answer, Step

(* The invariant of the calls holds always. *)
LEMMA CallInvHolds == Spec => []IInv
<1>1. Init => IInv
  <2> SUFFICES ASSUME Init, NEW c \in Callers PROVE CallInv(c)
    BY DEF IInv
  <2>1. /\ pc[c] = "idle"
        /\ intelReply[c] = EmptyReply /\ refReply[c] = EmptyReply
        /\ intelOut[c] = {} /\ refOut[c] = {}
    BY DEF Init
  <2> QED BY <2>1 DEF CallInv, KeysKept, Collected, ReferenceJudged,
                      IntelJudged, BothAnswered, ReturnedCovers, EmptyReply
<1>2. TypeOK /\ IInv /\ [Next]_vars => IInv'
  BY CallInvStep
<1> QED BY <1>1, <1>2, TypeCorrect, PTL DEF Spec

(* A call returns by one of three steps, its own. *)
LEMMA WaysToReturn ==
    ASSUME TypeOK, [Next]_vars, NEW c \in Callers, Returns(c)
    PROVE  AnswerUnreachable(c) \/ AnswerUnverified(c) \/ Compare(c)
<1> USE DEF TypeOK, Returns, GoTo
<1>1. ASSUME NEW d \in Callers, Start(d) PROVE FALSE
  BY <1>1 DEF Start
<1>2. ASSUME NEW d \in Callers, Answer(d) PROVE FALSE
  BY <1>2 DEF Answer, IntelAnswers, ReferenceAnswers
<1>3. ASSUME NEW d \in Callers,
             Fail(d) \/ JudgeReference(d) \/ ForwardIncomplete(d)
                \/ FillAdvisoryDetail(d) \/ ReadCoverage(d)
      PROVE FALSE
  BY <1>3 DEF Fail, JudgeReference, ForwardIncomplete, FillAdvisoryDetail,
              ReadCoverage
<1>4. ASSUME NEW d \in Callers,
             AnswerUnreachable(d) \/ AnswerUnverified(d) \/ Compare(d)
      PROVE d = c
  BY <1>4 DEF AnswerUnreachable, AnswerUnverified, Compare
<1>5. CASE UNCHANGED vars
  BY <1>5 DEF vars
<1> QED BY <1>1, <1>2, <1>3, <1>4, <1>5 DEF Next, Step

-----------------------------------------------------------------------------
(* Whatever the sources answer and however callers interleave, an answer   *)
(* holds every record of the intelligence source, and every record of the  *)
(* reference unless the scan says it was not checked.                      *)
THEOREM Coverage == Spec => []CoverageKept
<1>1. IInv => CoverageKept
  BY DEF IInv, CallInv, KeysKept, ReturnedCovers, CoverageKept
<1> QED BY <1>1, CallInvHolds, PTL

(* Only Compare sets a checked result, and only after both collectors      *)
(* showed no failure: the two collectors never shrink, so no interleaving  *)
(* of callers hides a failure of this lookup from its own check.           *)
THEOREM CheckedComparison == Spec => CheckedMeansCompared
<1> DEFINE A == \A c \in Callers : Returns(c) /\ result'.checked =>
                  /\ Answered(intelReply[c])
                  /\ Answered(refReply[c])
                  /\ refReply[c].deg \subseteq {"advisory_detail"}
<1>1. TypeOK /\ IInv /\ [Next]_vars => [A]_vars
  <2> SUFFICES ASSUME TypeOK, IInv, [Next]_vars,
                      NEW c \in Callers, Returns(c), result'.checked
               PROVE  /\ Answered(intelReply[c])
                      /\ Answered(refReply[c])
                      /\ refReply[c].deg \subseteq {"advisory_detail"}
    OBVIOUS
  <2>1. Compare(c)
    <3>1. AnswerUnreachable(c) \/ AnswerUnverified(c) \/ Compare(c)
      BY WaysToReturn
    <3>2. AnswerUnreachable(c) \/ AnswerUnverified(c) => ~result'.checked
      BY DEF AnswerUnreachable, AnswerUnverified, Unchecked
    <3> QED BY <3>1, <3>2
  <2>2. pc[c] = "comparing"
    BY <2>1 DEF Compare
  <2> QED BY <2>2 DEF IInv, CallInv, ReferenceJudged, IntelJudged,
                      BothAnswered, Answered
<1> QED BY <1>1, CallInvHolds, TypeCorrect, PTL DEF Spec, CheckedMeansCompared

(* The three ways to return unchecked each leave their own statement. *)
THEOREM UncheckedSaid == Spec => UncheckedIsSaid
<1> DEFINE Kinds == {"osv_lookup", "intel_unverified", "intel_unreachable"}
           A == \A c \in Callers : Returns(c) /\ ~result'.checked =>
                  SaidKinds(deg') \cap Kinds # {}
<1>1. TypeOK /\ [Next]_vars => [A]_vars
  <2> SUFFICES ASSUME TypeOK, [Next]_vars,
                      NEW c \in Callers, Returns(c), ~result'.checked
               PROVE  SaidKinds(deg') \cap Kinds # {}
    OBVIOUS
  <2>1. AnswerUnreachable(c) \/ AnswerUnverified(c)
    <3>1. AnswerUnreachable(c) \/ AnswerUnverified(c) \/ Compare(c)
      BY WaysToReturn
    <3>2. Compare(c) => result'.checked
      BY DEF Compare
    <3> QED BY <3>1, <3>2
  <2>2. \E kind \in Kinds : Said(kind, {}) \in deg'
    BY <2>1 DEF AnswerUnreachable, AnswerUnverified
  <2> QED BY <2>2 DEF SaidKinds, Said
<1> QED BY <1>1, TypeCorrect, PTL DEF Spec, UncheckedIsSaid

-----------------------------------------------------------------------------
(* What the two replies of a call still are in the answers it builds, for  *)
(* any callers.  Until fillAdvisoryDetail the maps are the replies' own;   *)
(* after it no record's text is older than the one its source sent, and    *)
(* the records the reference alone returned are as it sent them, having    *)
(* nothing to be filled from.                                              *)
RepliesKept(c) == KeepsContract(intelReply[c]) /\ KeepsContract(refReply[c])

AsReplied(c) ==
    pc[c] \notin {"deciding", "comparing", "returned"} =>
        /\ intelOut[c] = intelReply[c].out
        /\ refOut[c] = refReply[c].out

OwnKeys(c) ==
    pc[c] # "returned" => KeysOf(intelOut[c]) = KeysOf(intelReply[c].out)

NoOlderText(out, replied) ==
    \A r \in out, s \in replied :
        KeyOf(r) = KeyOf(s) => ~OlderThan(r.modified, s.modified)

TextInv(c) ==
    /\ RepliesKept(c)
    /\ AsReplied(c)
    /\ OwnKeys(c)
    /\ NoOlderText(intelOut[c], intelReply[c].out)
    /\ Missing(intelReply[c].out, refReply[c].out) \subseteq refOut[c]

AllText == \A c \in Callers : TextInv(c)

(* Lookups that do not overlap.  What a source's optional interfaces report *)
(* is of its "most recent Lookup" (vulnsource.go:271, detail.go:14), so    *)
(* what is read from them is about a call only while no other runs.        *)
InLookup(c) == pc[c] \notin {"idle", "returned", "failed"}
OneAtATime == \A c, d \in Callers : InLookup(c) /\ InLookup(d) => c = d

IndexOf(reply) == [partial |-> reply.partial, synced |-> reply.synced,
                   failed |-> reply.failed]

(* A single caller never overlaps itself. *)
LEMMA OneCallerAlone ==
    ASSUME NEW c, Callers = {c}
    PROVE  OneAtATime
BY DEF OneAtATime

(* While a call runs alone, the sources' indexes are of its own replies,   *)
(* and so is the coverage it has read.                                     *)
OwnIndexes(c) ==
    /\ InLookup(c) /\ "intel" \notin awaited[c] /\ ~intelReply[c].err =>
          intelIndex = IndexOf(intelReply[c])
    /\ InLookup(c) /\ "reference" \notin awaited[c] /\ ~refReply[c].err =>
          refFailures = refReply[c].failed
    /\ InLookup(c) /\ pc[c] # "asking" => awaited[c] = {}

OwnCoverage(c) ==
    pc[c] = "comparing" =>
        /\ judged[c].partial \subseteq intelReply[c].partial
        /\ judged[c].synced \in {intelReply[c].synced, Never}

(* A record without its content is told of on the scan or, while it is     *)
(* only in the reference's answer, in a gap that will be if it is used.    *)
GapsTold(c) ==
    /\ pc[c] \in {"deciding", "comparing"} =>
          /\ Told("intel", LostIn(intelOut[c]), deg)
          /\ LostIn(refOut[c]) \subseteq judged[c].refGaps
    /\ pc[c] = "returned" =>
          LET lost == LostIn(intelOut[c])
              own == lost \cap KeysOf(intelReply[c].out)
          IN  Told("intel", own, deg) /\ Told("reference", lost \ own, deg)

OwnInv(c) == OwnIndexes(c) /\ OwnCoverage(c)
AllOwn == \A c \in Callers : OwnInv(c)

-----------------------------------------------------------------------------
(* A step of another call leaves a call's own state alone. *)
SameCall(d) ==
    /\ pc'[d] = pc[d] /\ awaited'[d] = awaited[d]
    /\ intelReply'[d] = intelReply[d] /\ refReply'[d] = refReply[d]
    /\ intelOut'[d] = intelOut[d] /\ refOut'[d] = refOut[d]
    /\ judged'[d] = judged[d]
    /\ deg \subseteq deg'

(* To a call, a step is its own or leaves it as it was. *)
LEMMA OwnSteps ==
    ASSUME TypeOK, [Next]_vars, NEW d \in Callers
    PROVE  SameCall(d) \/ Start(d) \/ Answer(d) \/ Step(d)
<1> USE DEF TypeOK, SameCall, GoTo
<1>1. ASSUME NEW c \in Callers, Start(c) PROVE c = d \/ SameCall(d)
  BY <1>1 DEF Start, shared
<1>2. ASSUME NEW c \in Callers, Answer(c) PROVE c = d \/ SameCall(d)
  BY <1>2 DEF Answer, IntelAnswers, ReferenceAnswers, Done
<1>3. ASSUME NEW c \in Callers, Step(c) PROVE c = d \/ SameCall(d)
  <2>1. CASE Fail(c) \/ JudgeReference(c) \/ ForwardIncomplete(c) \/ ReadCoverage(c)
    BY <2>1 DEF Fail, JudgeReference, ForwardIncomplete, ReadCoverage, local, shared
  <2>2. CASE FillAdvisoryDetail(c)
    BY <2>2 DEF FillAdvisoryDetail
  <2>3. CASE AnswerUnreachable(c) \/ AnswerUnverified(c) \/ Compare(c)
    BY <2>3 DEF AnswerUnreachable, AnswerUnverified, Compare, local
  <2> QED BY <1>3, <2>1, <2>2, <2>3 DEF Step
<1>4. CASE UNCHANGED vars
  BY <1>4 DEF vars, local, shared
<1> QED BY <1>1, <1>2, <1>3, <1>4 DEF Next

(* While lookups do not overlap, nobody else steps during one. *)
LEMMA Alone ==
    ASSUME TypeOK, OneAtATime, OneAtATime', [Next]_vars,
           NEW d \in Callers, InLookup(d), InLookup(d)'
    PROVE  UNCHANGED vars \/ Answer(d) \/ Step(d)
<1> USE DEF TypeOK
<1>1. ASSUME NEW c \in Callers, Start(c) PROVE FALSE
  <2>1. InLookup(c)' /\ ~InLookup(c)
    BY <1>1 DEF Start, GoTo, InLookup
  <2> QED BY <2>1 DEF OneAtATime
<1>2. ASSUME NEW c \in Callers, Answer(c) \/ Step(c) PROVE c = d
  <2>1. InLookup(c)
    BY <1>2 DEF Answer, IntelAnswers, ReferenceAnswers, Step, Fail, JudgeReference,
                ForwardIncomplete, FillAdvisoryDetail, AnswerUnreachable,
                AnswerUnverified, ReadCoverage, Compare, InLookup
  <2> QED BY <2>1 DEF OneAtATime
<1> QED BY <1>1, <1>2 DEF Next

-----------------------------------------------------------------------------
(* Filling lends no older text and leaves alone what has no donor. *)
FilledFrom(s, r, gaps, donors) ==
    /\ KeyOf(r) = KeyOf(s)
    /\ ~OlderThan(r.modified, s.modified)
    /\ s.hydrated => r.hydrated
    /\ \/ KeyOf(s) \notin gaps
       \/ donors = {}
       \/ \E d \in donors : d.hydrated => r.hydrated

(* A filled record is one of the answer, with or without lent content. *)
LEMMA FilledElements ==
    ASSUME NEW dst \in SUBSET Record, NEW donor \in SUBSET Record,
           NEW gaps, NEW donorGaps, NEW r \in Filled(dst, donor, gaps, donorGaps)
    PROVE  \E s \in dst : FilledFrom(s, r, gaps, Donors(s, donor, donorGaps))
<1>1. PICK s \in dst :
          r = IF KeyOf(s) \in gaps /\ Donors(s, donor, donorGaps) # {}
                THEN ApplyContent(s, CHOOSE d \in Donors(s, donor, donorGaps) : TRUE)
                ELSE s
  BY DEF Filled
<1>2. CASE KeyOf(s) \in gaps /\ Donors(s, donor, donorGaps) # {}
  <2>1. PICK d \in Donors(s, donor, donorGaps) : r = ApplyContent(s, d)
    BY <1>1, <1>2
  <2>2. d \in Record /\ ~OlderThan(d.modified, s.modified)
    BY <2>1 DEF Donors
  <2>3. KeyOf(r) = KeyOf(s)
    BY <2>1, <2>2, ApplyContentType
  <2>4. /\ r.modified = IF d.modified # 0 THEN d.modified ELSE s.modified
        /\ r.hydrated = (s.hydrated \/ d.hydrated)
    BY <2>1, <2>2 DEF ApplyContent, Record
  <2>5. s \in Record
    OBVIOUS
  <2>6. ~OlderThan(r.modified, s.modified)
    BY <2>2, <2>4, <2>5 DEF OlderThan, Record, Stamp
  <2> QED BY <2>1, <2>3, <2>4, <2>6 DEF FilledFrom
<1>3. CASE ~(KeyOf(s) \in gaps /\ Donors(s, donor, donorGaps) # {})
  <2>1. r = s /\ s \in Record
    BY <1>1, <1>3
  <2> QED BY <1>3, <2>1 DEF FilledFrom, OlderThan, Record, Stamp
<1> QED BY <1>2, <1>3

(* A record that the other answer does not have is left alone. *)
LEMMA FilledLeaves ==
    ASSUME NEW dst, NEW donor, NEW gaps, NEW donorGaps,
           NEW r \in dst, KeyOf(r) \notin KeysOf(donor)
    PROVE  r \in Filled(dst, donor, gaps, donorGaps)
<1>1. Donors(r, donor, donorGaps) = {}
  BY DEF Donors, KeysOf
<1> QED BY <1>1 DEF Filled

(* What is missing is what no key of the answer stands for. *)
LEMMA MissingElements ==
    ASSUME NEW out, NEW from, NEW r
    PROVE  r \in Missing(out, from) <=> r \in from /\ KeyOf(r) \notin KeysOf(out)
BY DEF Missing

(* Records under new keys make no text older. *)
LEMMA NewKeysAreNotOlder ==
    ASSUME NEW out, NEW more, NEW replied, NoOlderText(out, replied),
           KeysOf(replied) \subseteq KeysOf(out)
    PROVE  NoOlderText(out \cup Missing(out, more), replied)
<1> SUFFICES ASSUME NEW r \in Missing(out, more), NEW s \in replied,
                    KeyOf(r) = KeyOf(s)
             PROVE  FALSE
  BY DEF NoOlderText
<1>1. KeyOf(s) \in KeysOf(out)
  BY DEF KeysOf
<1> QED BY <1>1, MissingElements

(* An empty reply keeps the contract. *)
LEMMA EmptyReplyKept == KeepsContract(EmptyReply)
BY DEF KeepsContract, OneRecordPerKey, EmptyReply

(* An answer is not older than itself. *)
LEMMA SameIsNotOlder ==
    ASSUME NEW reply \in Reply, OneRecordPerKey(reply.out)
    PROVE  NoOlderText(reply.out, reply.out)
BY DEF NoOlderText, OneRecordPerKey, OlderThan, Reply, Record, Stamp

(* The texts of a call keep through its own fillAdvisoryDetail. *)
LEMMA FillKeepsText ==
    ASSUME TypeOK, NEW c \in Callers, TextInv(c), FillAdvisoryDetail(c)
    PROVE  TextInv(c)'
<1> USE DEF TypeOK
<1> DEFINE intelFailed == IF "detail" \in IntelReports
                          THEN intelIndex.failed ELSE {}
           refFailed == IF "detail" \in ReferenceReports
                        THEN refFailures ELSE {}
           intelGaps == DetailGaps(intelOut[c], intelFailed)
           refGaps == DetailGaps(refOut[c], refFailed)
           filled == Filled(intelOut[c], refOut[c], intelGaps, refGaps)
           refFilled == Filled(refOut[c], filled, refGaps, intelGaps)
<1>1. /\ pc[c] = "filling" /\ pc'[c] = "deciding"
      /\ intelOut'[c] = filled /\ refOut'[c] = refFilled
      /\ UNCHANGED <<intelReply, refReply>>
  BY DEF FillAdvisoryDetail, GoTo
<1>2. /\ intelOut[c] = intelReply[c].out /\ refOut[c] = refReply[c].out
      /\ RepliesKept(c)
  BY <1>1 DEF TextInv, AsReplied
<1>3. /\ filled \in SUBSET Record /\ KeysOf(filled) = KeysOf(intelReply[c].out)
  <2>1. /\ filled \in SUBSET Record /\ KeysOf(filled) = KeysOf(intelOut[c])
    BY FilledType, ZenonT(30)
  <2> QED BY <1>2, <2>1
<1>4. NoOlderText(filled, intelReply[c].out)
  <2> SUFFICES ASSUME NEW r \in filled, NEW s \in intelReply[c].out,
                      KeyOf(r) = KeyOf(s)
               PROVE  ~OlderThan(r.modified, s.modified)
    BY DEF NoOlderText
  <2>1. PICK t \in intelOut[c] :
            FilledFrom(t, r, intelGaps, Donors(t, refOut[c], refGaps))
    BY FilledElements
  <2>2. t = s
    BY <1>2, <2>1 DEF FilledFrom, RepliesKept, KeepsContract, OneRecordPerKey
  <2> QED BY <2>1, <2>2 DEF FilledFrom
<1>5. Missing(intelReply[c].out, refReply[c].out) \subseteq refFilled
  <2> SUFFICES ASSUME NEW r \in Missing(intelReply[c].out, refReply[c].out)
               PROVE  r \in refFilled
    OBVIOUS
  <2>1. r \in refOut[c] /\ KeyOf(r) \notin KeysOf(filled)
    BY <1>2, <1>3, MissingElements
  <2> QED BY <2>1, FilledLeaves
<1> HIDE DEF filled, refFilled
<1> QED BY <1>1, <1>2, <1>3, <1>4, <1>5
        DEF TextInv, RepliesKept, AsReplied, OwnKeys

(* Every step keeps each call's texts. *)
LEMMA TextStep ==
    ASSUME TypeOK, IInv, AllText, [Next]_vars
    PROVE  AllText'
<1> SUFFICES ASSUME NEW c \in Callers PROVE TextInv(c)'
  BY DEF AllText
<1>0. TextInv(c) /\ CallInv(c)
  BY DEF AllText, IInv
<1> USE DEF TypeOK
<1>1. CASE SameCall(c)
  BY <1>0, <1>1 DEF SameCall, TextInv, RepliesKept, AsReplied, OwnKeys
<1>2. CASE Start(c)
  <2>1. /\ pc'[c] = "asking"
        /\ intelReply'[c] = EmptyReply /\ refReply'[c] = EmptyReply
        /\ intelOut'[c] = {} /\ refOut'[c] = {}
    BY <1>2 DEF Start, GoTo
  <2>2. EmptyReply.out = {}
    BY DEF EmptyReply
  <2> QED BY <2>1, <2>2, EmptyReplyKept
          DEF TextInv, RepliesKept, AsReplied, OwnKeys, NoOlderText, Missing
<1>3. ASSUME NEW reply \in IntelReplies, IntelAnswers(c, reply)
      PROVE TextInv(c)'
  <2>1. KeepsContract(reply) /\ reply \in Reply
    BY RepliesAssumption
  <2>2. NoOlderText(reply.out, reply.out)
    BY <2>1, SameIsNotOlder DEF KeepsContract
  <2>3. /\ pc[c] = "asking" /\ pc'[c] = pc[c]
        /\ intelReply'[c] = reply /\ intelOut'[c] = reply.out
        /\ UNCHANGED <<refReply, refOut>>
    BY <1>3 DEF IntelAnswers
  <2>4. refOut[c] = refReply[c].out
    BY <1>0, <2>3 DEF TextInv, AsReplied
  <2>5. Missing(reply.out, refReply[c].out) \subseteq refReply[c].out
    BY DEF Missing
  <2> QED BY <1>0, <2>1, <2>2, <2>3, <2>4, <2>5
          DEF TextInv, RepliesKept, AsReplied, OwnKeys
<1>4. ASSUME NEW reply \in ReferenceReplies, ReferenceAnswers(c, reply)
      PROVE TextInv(c)'
  <2>1. KeepsContract(reply)
    BY RepliesAssumption
  <2>2. /\ pc[c] = "asking" /\ pc'[c] = pc[c]
        /\ refReply'[c] = reply /\ refOut'[c] = reply.out
        /\ UNCHANGED <<intelReply, intelOut>>
    BY <1>4 DEF ReferenceAnswers
  <2>3. Missing(intelReply[c].out, reply.out) \subseteq reply.out
    BY DEF Missing
  <2> QED BY <1>0, <2>1, <2>2, <2>3 DEF TextInv, RepliesKept, AsReplied, OwnKeys
<1>5. CASE Fail(c) \/ JudgeReference(c) \/ ForwardIncomplete(c)
  <2>1. /\ pc[c] \in {"asking", "forwarding"}
        /\ pc'[c] \in {"failed", "forwarding", "filling"}
        /\ UNCHANGED <<intelReply, refReply, intelOut, refOut>>
    BY <1>5 DEF Fail, JudgeReference, ForwardIncomplete, GoTo, local
  <2> QED BY <1>0, <2>1 DEF TextInv, RepliesKept, AsReplied, OwnKeys
<1>6. CASE FillAdvisoryDetail(c)
  BY <1>0, <1>6, FillKeepsText
<1>7. CASE AnswerUnverified(c) \/ ReadCoverage(c)
  <2>1. /\ pc[c] = "deciding" /\ pc'[c] \in {"returned", "comparing"}
        /\ UNCHANGED <<intelReply, refReply, intelOut, refOut>>
    BY <1>7 DEF AnswerUnverified, ReadCoverage, GoTo, local, shared
  <2> QED BY <1>0, <2>1 DEF TextInv, RepliesKept, AsReplied, OwnKeys
<1>8. CASE AnswerUnreachable(c) \/ Compare(c)
  <2>1. /\ pc'[c] = "returned"
        /\ intelOut'[c] = intelOut[c] \cup Missing(intelOut[c], refOut[c])
        /\ UNCHANGED <<intelReply, refReply, refOut>>
    BY <1>8 DEF AnswerUnreachable, Compare, GoTo
  <2>2. NoOlderText(intelOut[c] \cup Missing(intelOut[c], refOut[c]),
                    intelReply[c].out)
    BY <1>0, NewKeysAreNotOlder DEF TextInv, CallInv, KeysKept
  <2> QED BY <1>0, <2>1, <2>2 DEF TextInv, RepliesKept, AsReplied, OwnKeys
<1> QED BY <1>1, <1>2, <1>3, <1>4, <1>5, <1>6, <1>7, <1>8, OwnSteps
        DEF Answer, Step

(* The invariant of the texts holds always. *)
LEMMA TextHolds == Spec => []AllText
<1>1. Init => AllText
  <2> SUFFICES ASSUME Init, NEW c \in Callers PROVE TextInv(c)
    BY DEF AllText
  <2>1. /\ intelReply[c] = EmptyReply /\ refReply[c] = EmptyReply
        /\ intelOut[c] = {} /\ refOut[c] = {}
    BY DEF Init
  <2>2. EmptyReply.out = {}
    BY DEF EmptyReply
  <2> QED BY <2>1, <2>2, EmptyReplyKept
          DEF TextInv, RepliesKept, AsReplied, OwnKeys, NoOlderText, Missing
<1>2. TypeOK /\ IInv /\ AllText /\ [Next]_vars => AllText'
  BY TextStep
<1> QED BY <1>1, <1>2, TypeCorrect, CallInvHolds, PTL DEF Spec

(* Whatever the callers do, filling detail from the other source never     *)
(* takes a record of the intelligence source back to an older version: a   *)
(* donor known to be older is refused, and restored records have new keys. *)
THEOREM NoOlderTexts == Spec => []NeverOlderText
<1>1. AllText => NeverOlderText
  BY DEF AllText, TextInv, NoOlderText, NeverOlderText
<1> QED BY <1>1, TextHolds, PTL

(* Only Compare finds suppressed records; it names them, appends them to   *)
(* the answer, and takes none that the intelligence source returned, for   *)
(* any callers.                                                            *)
THEOREM SuppressionRepaired == Spec => SuppressionIsSaidAndRepaired
<1> DEFINE A == \A c \in Callers : Returns(c) /\ result'.suppressed # {} =>
                  /\ Said("intel_suppression", IdsOf(result'.suppressed)) \in deg'
                  /\ result'.suppressed \subseteq KeysOf(intelOut'[c])
                  /\ result'.suppressed \cap KeysOf(intelReply[c].out) = {}
<1>1. TypeOK /\ IInv /\ [Next]_vars => [A]_vars
  <2> SUFFICES ASSUME TypeOK, IInv, [Next]_vars,
                      NEW c \in Callers, Returns(c), result'.suppressed # {}
               PROVE  /\ Said("intel_suppression", IdsOf(result'.suppressed))
                             \in deg'
                      /\ result'.suppressed \subseteq KeysOf(intelOut'[c])
                      /\ result'.suppressed \cap KeysOf(intelReply[c].out) = {}
    OBVIOUS
  <2> DEFINE restored == Missing(intelOut[c], refOut[c])
             whole == {r \in restored : r.query \notin judged[c].partial}
             lagged == Lagging(whole, judged[c].synced)
             suppressed == KeysOf(whole \ lagged)
  <2>1. Compare(c)
    <3>1. AnswerUnreachable(c) \/ AnswerUnverified(c) \/ Compare(c)
      BY WaysToReturn
    <3>2. AnswerUnreachable(c) \/ AnswerUnverified(c) => result'.suppressed = {}
      BY DEF AnswerUnreachable, AnswerUnverified, Unchecked
    <3> QED BY <3>1, <3>2
  <2>2. /\ result'.suppressed = suppressed
        /\ intelOut'[c] = intelOut[c] \cup restored
        /\ deg' = deg
               \cup (IF suppressed = {} THEN {}
                     ELSE {Said("intel_suppression", IdsOf(suppressed))})
               \cup ReportAdvisoryDetail("reference",
                                         KeysOf(restored) \cap judged[c].refGaps)
    BY <2>1 DEF Compare, TypeOK
  <2>3. whole \ lagged \subseteq restored
    OBVIOUS
  <2>4. /\ suppressed \subseteq KeysOf(intelOut[c] \cup restored)
        /\ suppressed \cap KeysOf(intelOut[c]) = {}
    BY <2>3 DEF KeysOf, Missing
  <2>5. KeysOf(intelReply[c].out) \subseteq KeysOf(intelOut[c])
    BY DEF IInv, CallInv, KeysKept
  <2> HIDE DEF suppressed, restored
  <2> QED BY <2>2, <2>4, <2>5
<1> QED BY <1>1, CallInvHolds, TypeCorrect, PTL
        DEF Spec, SuppressionIsSaidAndRepaired

-----------------------------------------------------------------------------
(* What is read of the sources while lookups do not overlap. *)
LEMMA OwnIndexesStep ==
    ASSUME TypeOK, OneAtATime, OneAtATime', [Next]_vars, NEW c \in Callers,
           OwnIndexes(c)
    PROVE  OwnIndexes(c)'
<1> USE DEF TypeOK
<1>1. CASE ~InLookup(c)'
  BY <1>1 DEF OwnIndexes
<1>2. CASE InLookup(c)' /\ ~InLookup(c)
  <2>1. Start(c) \/ SameCall(c) \/ Answer(c) \/ Step(c)
    BY OwnSteps
  <2>2. ~SameCall(c) /\ ~Answer(c) /\ ~Step(c)
    BY <1>2 DEF InLookup, SameCall, Answer, IntelAnswers, ReferenceAnswers, Step, Fail, JudgeReference,
                ForwardIncomplete, FillAdvisoryDetail, AnswerUnreachable,
                AnswerUnverified, ReadCoverage, Compare
  <2>3. pc'[c] = "asking" /\ awaited'[c] = {"intel", "reference"}
    BY <2>1, <2>2 DEF Start, GoTo
  <2> QED BY <2>3 DEF OwnIndexes
<1>3. CASE InLookup(c)' /\ InLookup(c)
  <2>1. UNCHANGED vars \/ Answer(c) \/ Step(c)
    BY <1>3, Alone
  <2>2. CASE UNCHANGED vars
    BY <2>2 DEF OwnIndexes, InLookup, vars, local, shared
  <2>3. ASSUME NEW reply \in IntelReplies, IntelAnswers(c, reply)
        PROVE OwnIndexes(c)'
    BY <1>3, <2>3 DEF IntelAnswers, Done, OwnIndexes, InLookup, IndexOf
  <2>4. ASSUME NEW reply \in ReferenceReplies, ReferenceAnswers(c, reply)
        PROVE OwnIndexes(c)'
    BY <1>3, <2>4 DEF ReferenceAnswers, Done, OwnIndexes, InLookup, IndexOf
  <2>5. CASE Step(c)
    <3>1. /\ InLookup(c)
          /\ pc[c] = "asking" => awaited[c] = {}
          /\ UNCHANGED <<awaited, intelReply, refReply, intelIndex, refFailures>>
      <4>1. CASE Fail(c) \/ JudgeReference(c) \/ ForwardIncomplete(c) \/ ReadCoverage(c)
        BY <1>3, <4>1 DEF Fail, JudgeReference, ForwardIncomplete, ReadCoverage, local, shared
      <4>2. CASE FillAdvisoryDetail(c)
        BY <1>3, <4>2 DEF FillAdvisoryDetail
      <4>3. CASE AnswerUnreachable(c) \/ AnswerUnverified(c) \/ Compare(c)
        BY <1>3, <4>3 DEF AnswerUnreachable, AnswerUnverified, Compare, local
      <4> QED BY <2>5, <4>1, <4>2, <4>3 DEF Step
    <3> QED BY <3>1 DEF OwnIndexes, InLookup, IndexOf
  <2> QED BY <2>1, <2>2, <2>3, <2>4, <2>5 DEF Answer
<1> QED BY <1>1, <1>2, <1>3

(* What ReadCoverage reads is this call's own coverage. *)
LEMMA OwnCoverageStep ==
    ASSUME TypeOK, IInv, [Next]_vars, NEW c \in Callers,
           OwnIndexes(c), OwnCoverage(c)
    PROVE  OwnCoverage(c)'
<1> USE DEF TypeOK
<1>1. CASE pc'[c] # "comparing"
  BY <1>1 DEF OwnCoverage
<1>2. CASE pc'[c] = "comparing" /\ SameCall(c)
  BY <1>2 DEF SameCall, OwnCoverage
<1>3. CASE ReadCoverage(c)
  <2>1. /\ pc[c] = "deciding"
        /\ UNCHANGED <<intelReply>>
        /\ judged'[c].partial = IF "partial" \in IntelReports
                                THEN intelIndex.partial ELSE {}
        /\ judged'[c].synced = IF "mirror" \in IntelReports
                               THEN intelIndex.synced ELSE Never
    BY <1>3 DEF ReadCoverage, Judgement
  <2>2. ~intelReply[c].err
    BY <2>1 DEF IInv, CallInv, ReferenceJudged
  <2>3. intelIndex = IndexOf(intelReply[c])
    BY <2>1, <2>2 DEF OwnIndexes, InLookup
  <2> QED BY <2>1, <2>3 DEF OwnCoverage, IndexOf
<1>4. CASE pc'[c] = "comparing" /\ (Start(c) \/ Answer(c) \/ Step(c)) /\ ~ReadCoverage(c)
  BY <1>4 DEF OwnCoverage, GoTo, Start, Answer, IntelAnswers, ReferenceAnswers, Step, Fail, JudgeReference,
              ForwardIncomplete, FillAdvisoryDetail, AnswerUnreachable,
              AnswerUnverified, Compare
<1> QED BY <1>1, <1>2, <1>3, <1>4, OwnSteps

(* While lookups do not overlap, each reads its own of the sources. *)
LEMMA OwnHolds == Spec /\ []OneAtATime => []AllOwn
<1>1. Init => AllOwn
  BY DEF Init, AllOwn, OwnInv, OwnIndexes, OwnCoverage, InLookup
<1>2. TypeOK /\ IInv /\ OneAtATime /\ OneAtATime' /\ AllOwn /\ [Next]_vars => AllOwn'
  BY OwnIndexesStep, OwnCoverageStep DEF AllOwn, OwnInv
<1> QED BY <1>1, <1>2, TypeCorrect, CallInvHolds, PTL DEF Spec

(* A finite verification whose suppression rate is zero suppresses nothing. *)
LEMMA RateZero ==
    ASSUME NEW v \in Verification, v.checked,
           IsFiniteSet(v.suppressed), IsFiniteSet(v.added),
           SuppressionRate(v)[1] = 0
    PROVE  v.suppressed = {}
<1>1. Cardinality(v.suppressed) \in Nat /\ Cardinality(v.added) \in Nat
  BY FS_CardinalityType
<1>2. Cardinality(v.suppressed) = 0
  BY <1>1 DEF SuppressionRate
<1> QED BY <1>2, FS_EmptySet

(* When lookups do not overlap, a verification that holds, or whose rate   *)
(* of suppression is zero, speaks of this lookup: every reference record   *)
(* the intelligence source did not return is one it excused, by its own    *)
(* account of this lookup.  (Two that overlap read each other's accounts.) *)
THEOREM Superset == Spec /\ []OneAtATime => HoldsMeansSuperset
<1> DEFINE A == \A c \in Callers :
          Returns(c) /\ (Holds(result') \/ SuppressionRate(result')[1] = 0) =>
          \A r \in Missing(intelReply[c].out, refReply[c].out) :
              \/ r.query \in intelReply[c].partial
              \/ PostdatesSync(r, intelReply[c].synced[r.query])
<1>1. TypeOK /\ TypeOK' /\ IInv /\ AllText /\ OneAtATime /\ AllOwn /\ [Next]_vars => [A]_vars
  <2> SUFFICES ASSUME TypeOK, TypeOK', IInv, AllText, OneAtATime, AllOwn, [Next]_vars,
                      NEW c \in Callers, Returns(c),
                      Holds(result') \/ SuppressionRate(result')[1] = 0,
                      NEW r \in Missing(intelReply[c].out, refReply[c].out)
               PROVE  \/ r.query \in intelReply[c].partial
                      \/ PostdatesSync(r, intelReply[c].synced[r.query])
    OBVIOUS
  <2> DEFINE restored == Missing(intelOut[c], refOut[c])
             whole == {s \in restored : s.query \notin judged[c].partial}
             lagged == Lagging(whole, judged[c].synced)
             suppressed == KeysOf(whole \ lagged)
             answer == intelOut[c] \cup restored
             added == KeysOf(Missing(refOut[c], answer))
  <2>1. result'.checked
    BY DEF Holds, SuppressionRate
  <2>2. Compare(c)
    <3>1. AnswerUnreachable(c) \/ AnswerUnverified(c) \/ Compare(c)
      BY WaysToReturn
    <3>2. AnswerUnreachable(c) \/ AnswerUnverified(c) => ~result'.checked
      BY DEF AnswerUnreachable, AnswerUnverified, Unchecked
    <3> QED BY <2>1, <3>1, <3>2
  <2>3. /\ pc[c] = "comparing"
        /\ result'.suppressed = suppressed
        /\ result'.added = added
    BY <2>2 DEF Compare
  <2>4. KeysOf(intelOut[c]) = KeysOf(intelReply[c].out)
    BY <2>3 DEF AllText, TextInv, OwnKeys
  <2>5. suppressed \in SUBSET Key /\ added \in SUBSET Key
    BY KeysType DEF TypeOK, Missing, Lagging
  <2>6. IsFiniteSet(suppressed) /\ IsFiniteSet(added)
    <3> HIDE DEF suppressed, added
    <3> QED BY <2>5, FiniteKeys
  <2>7. suppressed = {}
    <3>1. CASE Holds(result')
      BY <2>3, <3>1 DEF Holds
    <3>2. CASE SuppressionRate(result')[1] = 0
      <4> HIDE DEF suppressed, added
      <4>1. result' \in Verification
        BY DEF TypeOK
      <4> QED BY <2>1, <2>3, <2>6, <3>2, <4>1, RateZero
    <3> QED BY <3>1, <3>2
  <2>8. r \in restored
    <3>1. KeyOf(r) \notin KeysOf(intelOut[c])
      BY <2>4, MissingElements
    <3>2. r \in refOut[c]
      BY DEF AllText, TextInv
    <3> QED BY <3>1, <3>2, MissingElements
  <2>9. /\ judged[c].partial \subseteq intelReply[c].partial
        /\ judged[c].synced \in {intelReply[c].synced, Never}
    BY <2>3 DEF AllOwn, OwnInv, OwnCoverage
  <2>10. r \in refReply[c].out /\ r.query \in Queries
    BY DEF Missing, TypeOK, Reply, Record
  <2>11. CASE r \in whole
    <3>1. r \in lagged
      BY <2>7, <2>11 DEF KeysOf
    <3>2. PostdatesSync(r, judged[c].synced[r.query])
      BY <3>1 DEF Lagging
    <3>3. ~PostdatesSync(r, Never[r.query])
      BY <2>10 DEF PostdatesSync, Never
    <3> QED BY <2>9, <3>2, <3>3
  <2>12. CASE r \notin whole
    BY <2>8, <2>9, <2>12
  <2> QED BY <2>11, <2>12
<1>2. Spec => [][Next]_vars
  BY DEF Spec
<1> QED BY <1>1, <1>2, CallInvHolds, TypeCorrect, TextHolds, OwnHolds, PTL DEF HoldsMeansSuperset

-----------------------------------------------------------------------------
(* Where both sources say which details they failed to fetch, a record     *)
(* without its content is one of a gap that is still to be named.          *)
BothReportDetail == "detail" \in IntelReports /\ "detail" \in ReferenceReports

(* When N things are ranked 0 .. N-1 and some rank M or more, M rank less. *)
LEMMA RanksFill ==
    ASSUME NEW S, IsFiniteSet(S), NEW M \in Nat,
           NEW rank \in Injection(S, 0 .. Cardinality(S) - 1),
           NEW low, low = {x \in S : rank[x] < M}, S \ low # {}
    PROVE  /\ Cardinality(low) = M
           /\ Cardinality(S \ low) = Cardinality(S) - M
           /\ Cardinality(S \ low) \in Nat
<1> DEFINE N == Cardinality(S)
<1>1. N \in Nat
  BY FS_CardinalityType
<1>2. /\ \A x \in S : rank[x] \in 0 .. N-1
      /\ \A x, y \in S : rank[x] = rank[y] => x = y
  BY DEF Injection, IsInjective
<1>3. low \subseteq S
  OBVIOUS
<1>4. Cardinality(S \ low) = N - Cardinality(low)
  <2>1. S \cap low = low
    BY <1>3
  <2>2. Cardinality(S \ low) = Cardinality(S) - Cardinality(S \cap low)
    BY FS_Difference
  <2> QED BY <2>1, <2>2
<1>5. Cardinality(low) \in Nat /\ Cardinality(S \ low) \in Nat
  BY <1>3, FS_Subset, FS_CardinalityType
<1> HIDE DEF N
<1>6. M < N
  <2>1. PICK x \in S : x \notin low
    OBVIOUS
  <2>2. ~(rank[x] < M) /\ rank[x] \in 0 .. N-1
    BY <1>2, <2>1
  <2> QED BY <1>1, <2>2
<1>7. Cardinality(low) <= M
  <2> DEFINE f == [x \in low |-> rank[x]]
  <2>1. \A x \in low : rank[x] \in 0 .. M-1
    BY <1>1, <1>2
  <2>2. f \in Injection(low, 0 .. M-1)
    BY <1>2, <1>3, <2>1 DEF Injection, IsInjective
  <2>3. IsFiniteSet(0 .. M-1) /\ Cardinality(0 .. M-1) = M
    <3>1. 0 \in Int /\ M-1 \in Int
      OBVIOUS
    <3>2. /\ IsFiniteSet(0 .. M-1)
          /\ Cardinality(0 .. M-1) = IF 0 > M-1 THEN 0 ELSE (M-1) - 0 + 1
      BY <3>1, FS_Interval
    <3> QED BY <3>2
  <2> HIDE DEF f
  <2> QED BY <2>2, <2>3, FS_Injection
<1>8. Cardinality(S \ low) <= N - M
  <2> DEFINE f == [x \in S \ low |-> rank[x]]
  <2>1. \A x \in S \ low : rank[x] \in M .. N-1
    BY <1>1, <1>2
  <2>2. f \in Injection(S \ low, M .. N-1)
    BY <1>2, <2>1 DEF Injection, IsInjective
  <2>3. IsFiniteSet(M .. N-1) /\ Cardinality(M .. N-1) = N - M
    BY <1>1, <1>6, FS_Interval
  <2> HIDE DEF f
  <2> QED BY <2>2, <2>3, FS_Injection
<1> QED BY <1>1, <1>4, <1>5, <1>6, <1>7, <1>8 DEF N

(* The advisories that are listed come first of all, and fill the list     *)
(* when there are more (uniqueSorted and the cut, detail.go:36-40).        *)
LEMMA FirstAreListed ==
    ASSUME NEW ids \in SUBSET Advisories
    PROVE  LET rest == ids \ Listed(ids)
           IN  /\ \A n \in Listed(ids), id \in rest : IdOrder[n] < IdOrder[id]
               /\ rest # {} =>
                     /\ Cardinality(Listed(ids)) = MaxDetailIDsListed
                     /\ Cardinality(rest) = Cardinality(ids) - MaxDetailIDsListed
                     /\ Cardinality(rest) \in Nat
<1> DEFINE Before(x) == {n \in ids : IdOrder[n] < IdOrder[x]}
           rank == [x \in ids |-> Cardinality(Before(x))]
           listed == Listed(ids)
           N == Cardinality(ids)
           M == MaxDetailIDsListed
<1>1. \A x \in ids : IdOrder[x] \in Nat
  BY ListedAssumption
<1>2. IsFiniteSet(ids) /\ N \in Nat /\ M \in Nat
  BY FiniteAssumption, ListedAssumption, FS_Subset, FS_CardinalityType
<1>3. ASSUME NEW x \in ids
      PROVE  /\ IsFiniteSet(Before(x)) /\ rank[x] \in Nat
             /\ Cardinality(Before(x) \cup {x}) = rank[x] + 1
  <2>1. IsFiniteSet(Before(x)) /\ x \notin Before(x)
    BY <1>1, <1>2, FS_Subset
  <2> QED BY <2>1, FS_AddElement, FS_CardinalityType
<1>4. ASSUME NEW x \in ids, NEW S, IsFiniteSet(S), Before(x) \cup {x} \subseteq S
      PROVE  rank[x] < Cardinality(S)
  <2>1. Cardinality(Before(x) \cup {x}) <= Cardinality(S) /\ Cardinality(S) \in Nat
    BY <1>4, FS_Subset, FS_CardinalityType
  <2>2. Cardinality(Before(x) \cup {x}) = rank[x] + 1 /\ rank[x] \in Nat
    BY <1>3
  <2> HIDE DEF rank, Before
  <2> QED BY <2>1, <2>2
<1>5. ASSUME NEW x \in ids, NEW y \in ids, IdOrder[x] < IdOrder[y]
      PROVE  rank[x] < rank[y]
  <2>1. Before(x) \cup {x} \subseteq Before(y)
    BY <1>1, <1>5
  <2>2. rank[x] < Cardinality(Before(y))
    BY <1>3, <1>4, <2>1
  <2> QED BY <2>2
<1>6. ASSUME NEW x \in ids PROVE rank[x] < N
  BY <1>2, <1>4
<1>7. listed = {x \in ids : rank[x] < M}
  BY DEF Listed
<1>8. rank \in [ids -> Nat]
  BY <1>3
<1>9. \A x, y \in ids : IdOrder[x] < IdOrder[y] => rank[x] < rank[y]
  BY <1>5
<1>10. \A x \in ids : rank[x] < N
  BY <1>6
<1> HIDE DEF Before, rank, listed, N
<1>11. rank \in Injection(ids, 0 .. N-1)
  <2>1. \A x \in ids : rank[x] \in 0 .. N-1
    BY <1>2, <1>8, <1>10
  <2>2. \A x, y \in ids : rank[x] = rank[y] => x = y
    BY <1>1, <1>8, <1>9, ListedAssumption
  <2> QED BY <1>8, <2>1, <2>2 DEF Injection, IsInjective
<1>12. ASSUME NEW n \in listed, NEW id \in ids \ listed
       PROVE  IdOrder[n] < IdOrder[id]
  <2>1. n \in ids /\ id \in ids /\ rank[n] < M /\ ~(rank[id] < M)
    BY <1>7
  <2>2. rank[n] \in Nat /\ rank[id] \in Nat
    BY <1>8, <2>1
  <2>3. rank[n] < rank[id]
    BY <1>2, <2>1, <2>2
  <2>4. ~(IdOrder[id] < IdOrder[n])
    BY <1>9, <2>1, <2>2, <2>3
  <2>5. IdOrder[n] # IdOrder[id]
    BY <2>1, ListedAssumption
  <2> QED BY <1>1, <2>1, <2>4, <2>5
<1>13. ids \ listed # {} =>
          /\ Cardinality(listed) = M
          /\ Cardinality(ids \ listed) = N - M
          /\ Cardinality(ids \ listed) \in Nat
  <2>1. rank \in Injection(ids, 0 .. Cardinality(ids) - 1)
    BY <1>11 DEF N
  <2>2. IsFiniteSet(ids) /\ M \in Nat
    BY <1>2
  <2> HIDE DEF M
  <2>3. ASSUME ids \ listed # {}
        PROVE  /\ Cardinality(listed) = M
               /\ Cardinality(ids \ listed) = Cardinality(ids) - M
               /\ Cardinality(ids \ listed) \in Nat
    BY <1>7, <2>1, <2>2, <2>3, RanksFill
  <2> QED BY <2>3 DEF N, M
<1> QED BY <1>12, <1>13 DEF listed, N

(* A report tells of the keys it is made for. *)
LEMMA ReportTells ==
    ASSUME NEW source, NEW keys \in SUBSET Key
    PROVE  Told(source, keys, ReportAdvisoryDetail(source, keys))
<1> SUFFICES ASSUME keys # {}
             PROVE  \E d \in ReportAdvisoryDetail(source, keys) : Tells(d, source, keys)
  BY DEF Told
<1> DEFINE ids == IdsOf(keys)
           n == Cardinality(ids)
           d == [kind |-> "advisory_detail", source |-> source, ids |-> Listed(ids),
                 more |-> IF n > MaxDetailIDsListed THEN n - MaxDetailIDsListed ELSE 0,
                 findings |-> Cardinality(keys)]
           rest == ids \ Listed(ids)
<1>1. d \in ReportAdvisoryDetail(source, keys)
  BY DEF ReportAdvisoryDetail
<1>2. n \in Nat /\ Cardinality(keys) \in Nat /\ IsFiniteSet(ids)
  BY FiniteKeys
<1>3. ids \in SUBSET Advisories
  BY IdsType
<1>4. Cardinality({}) = 0
  BY FS_EmptySet
<1> HIDE DEF ids
<1>5. d.more >= Cardinality(rest)
  <2>1. CASE rest = {}
    BY <1>2, <1>4, <2>1, ListedAssumption
  <2>2. CASE rest # {}
    <3>1. Cardinality(rest) = n - MaxDetailIDsListed /\ Cardinality(rest) \in Nat
      BY <1>3, <2>2, FirstAreListed
    <3> HIDE DEF n, rest
    <3> QED BY <1>2, <3>1, ListedAssumption
  <2> QED BY <2>1, <2>2
<1>6. \A id \in rest : /\ Cardinality(d.ids) = MaxDetailIDsListed
                      /\ \A m \in d.ids : IdOrder[m] < IdOrder[id]
  BY <1>3, FirstAreListed
<1>7. /\ d.kind = "advisory_detail" /\ d.source = source
      /\ d.ids = Listed(ids) /\ d.findings >= Cardinality(keys)
  BY <1>2
<1> HIDE DEF d
<1> QED BY <1>1, <1>5, <1>6, <1>7 DEF Tells, ids

(* What a scan has been told it goes on being told, and of fewer too. *)
LEMMA ToldOfFewer ==
    ASSUME NEW said \in SUBSET Degradation, NEW later, said \subseteq later,
           NEW source, NEW keys \in SUBSET Key, NEW fewer \in SUBSET keys,
           Told(source, keys, said)
    PROVE  Told(source, fewer, later)
<1> SUFFICES ASSUME fewer # {}
             PROVE  \E d \in later : Tells(d, source, fewer)
  BY DEF Told
<1>1. PICK d \in said : Tells(d, source, keys)
  BY DEF Told
<1>2. d.findings \in Nat /\ d.more \in Nat
  BY DEF Degradation
<1>3. /\ Cardinality(keys) \in Nat /\ Cardinality(fewer) \in Nat
      /\ Cardinality(fewer) <= Cardinality(keys)
  BY FiniteKeys, FS_Subset
<1> DEFINE all == IdsOf(keys) \ d.ids
           some == IdsOf(fewer) \ d.ids
<1>4. some \subseteq all
  BY DEF IdsOf
<1>5. /\ Cardinality(all) \in Nat /\ Cardinality(some) \in Nat
      /\ Cardinality(some) <= Cardinality(all)
  <2>1. IsFiniteSet(all)
    BY FiniteKeys, FS_Subset
  <2> HIDE DEF all, some
  <2> QED BY <1>4, <2>1, FS_Subset, FS_CardinalityType
<1>6. /\ d.kind = "advisory_detail" /\ d.source = source
      /\ d.findings >= Cardinality(keys)
      /\ d.more >= Cardinality(all)
      /\ \A id \in all : /\ Cardinality(d.ids) = MaxDetailIDsListed
                        /\ \A n \in d.ids : IdOrder[n] < IdOrder[id]
  BY <1>1 DEF Tells
<1>7. d.findings >= Cardinality(fewer) /\ d.more >= Cardinality(some)
  <2> HIDE DEF all, some
  <2> QED BY <1>2, <1>3, <1>5, <1>6
<1>8. Tells(d, source, fewer)
  BY <1>4, <1>6, <1>7 DEF Tells
<1> QED BY <1>8

(* A record without content is a gap of its reply. *)
LEMMA GapsHoldUnhydrated ==
    ASSUME NEW reply \in Reply, KeepsContract(reply),
           NEW r \in reply.out, ~r.hydrated
    PROVE  KeyOf(r) \in DetailGaps(reply.out, reply.failed)
<1>1. r.id \in reply.failed
  BY DEF KeepsContract
<1> QED BY <1>1 DEF DetailGaps, KeysOf, KeyOf

(* A record still unhydrated after the filling is in a remaining gap: what *)
(* would have lent to it is not itself a gap, so it is hydrated.           *)
LEMMA UnhydratedRemains ==
    ASSUME NEW dst \in SUBSET Record, NEW donor \in SUBSET Record,
           NEW gaps, NEW donorGaps, OneRecordPerKey(dst),
           \A s \in dst : ~s.hydrated => KeyOf(s) \in gaps,
           \A d \in donor : ~d.hydrated => KeyOf(d) \in donorGaps,
           NEW r \in Filled(dst, donor, gaps, donorGaps), ~r.hydrated
    PROVE  KeyOf(r) \in Remaining(dst, donor, gaps, donorGaps)
<1>1. PICK s \in dst : FilledFrom(s, r, gaps, Donors(s, donor, donorGaps))
  BY FilledElements
<1>2. KeyOf(s) \in gaps
  BY <1>1 DEF FilledFrom
<1>3. \A d \in Donors(s, donor, donorGaps) : d.hydrated
  BY DEF Donors
<1>4. Donors(s, donor, donorGaps) = {}
  BY <1>1, <1>2, <1>3 DEF FilledFrom
<1>5. \A t \in dst : KeyOf(t) = KeyOf(s) => t = s
  BY DEF OneRecordPerKey
<1> QED BY <1>1, <1>2, <1>4, <1>5 DEF FilledFrom, Remaining

(* Filling tells of every gap that it leaves. *)
LEMMA FillTellsGaps ==
    ASSUME BothReportDetail, TypeOK, NEW c \in Callers, CallInv(c), TextInv(c),
           OwnIndexes(c), FillAdvisoryDetail(c)
    PROVE  GapsTold(c)'
<1> USE DEF TypeOK
<1> DEFINE intelGaps == DetailGaps(intelOut[c], intelIndex.failed)
           refGaps == DetailGaps(refOut[c], refFailures)
           filled == Filled(intelOut[c], refOut[c], intelGaps, refGaps)
           refFilled == Filled(refOut[c], filled, refGaps, intelGaps)
           intelLeft == Remaining(intelOut[c], refOut[c], intelGaps, refGaps)
           refLeft == Remaining(refOut[c], filled, refGaps, intelGaps)
<1>1. /\ pc[c] = "filling" /\ pc'[c] = "deciding"
      /\ intelOut'[c] = filled /\ refOut'[c] = refFilled
      /\ judged'[c].refGaps = refLeft
      /\ deg' = deg \cup ReportAdvisoryDetail("intel", intelLeft)
  BY DEF FillAdvisoryDetail, GoTo, BothReportDetail, Judgement
<1>2. /\ intelOut[c] = intelReply[c].out /\ refOut[c] = refReply[c].out
      /\ KeepsContract(intelReply[c]) /\ KeepsContract(refReply[c])
  BY <1>1 DEF TextInv, AsReplied, RepliesKept
<1>3. \A s \in intelOut[c] : ~s.hydrated => KeyOf(s) \in intelGaps
  <2>1. ~intelReply[c].err
    BY <1>1 DEF CallInv, ReferenceJudged
  <2>2. intelIndex.failed = intelReply[c].failed
    BY <1>1, <2>1 DEF OwnIndexes, InLookup, IndexOf
  <2> QED BY <1>2, <2>2, GapsHoldUnhydrated
<1>4. \A s \in refOut[c] : ~s.hydrated => KeyOf(s) \in refGaps
  <2>1. CASE refReply[c].err
    BY <1>2, <2>1 DEF KeepsContract
  <2>2. CASE ~refReply[c].err
    <3>1. refFailures = refReply[c].failed
      BY <1>1, <2>2 DEF OwnIndexes, InLookup
    <3> QED BY <1>2, <3>1, GapsHoldUnhydrated
  <2> QED BY <2>1, <2>2
<1>5. OneRecordPerKey(intelOut[c]) /\ OneRecordPerKey(refOut[c])
  BY <1>2 DEF KeepsContract
<1>6. /\ intelOut[c] \in SUBSET Record /\ refOut[c] \in SUBSET Record
  OBVIOUS
<1>7. \A r \in filled : ~r.hydrated => KeyOf(r) \in intelLeft
  BY <1>3, <1>4, <1>5, <1>6, UnhydratedRemains
<1>8. filled \in SUBSET Record
  BY <1>6, FilledType
<1>9. \A r \in filled : ~r.hydrated => KeyOf(r) \in intelGaps
  BY <1>7 DEF Remaining
<1>10. \A r \in refFilled : ~r.hydrated => KeyOf(r) \in refLeft
  <2> HIDE DEF filled
  <2> QED BY <1>4, <1>5, <1>6, <1>8, <1>9, UnhydratedRemains
<1>11. intelLeft \in SUBSET Key
  BY <1>6, KeysType DEF Remaining, DetailGaps
<1> HIDE DEF filled, refFilled, intelLeft, refLeft
<1>12. LostIn(filled) \subseteq intelLeft /\ LostIn(refFilled) \subseteq refLeft
  BY <1>7, <1>10 DEF LostIn, KeysOf
<1>13. ReportAdvisoryDetail("intel", intelLeft) \in SUBSET Degradation
  BY <1>11, ReportType
<1>14. Told("intel", LostIn(filled), deg')
  BY <1>1, <1>11, <1>12, <1>13, ReportTells, ToldOfFewer
<1> QED BY <1>1, <1>12, <1>14 DEF GapsTold

(* The last steps of a lookup tell of the gaps among the records they add. *)
LEMMA ReturnTellsGaps ==
    ASSUME TypeOK, NEW c \in Callers, TextInv(c), GapsTold(c),
           AnswerUnreachable(c) \/ Compare(c)
    PROVE  GapsTold(c)'
<1> USE DEF TypeOK
<1> DEFINE restored == Missing(intelOut[c], refOut[c])
           gaps == KeysOf(restored) \cap judged[c].refGaps
           answer == intelOut[c] \cup restored
           own == LostIn(answer) \cap KeysOf(intelReply[c].out)
<1>1. /\ pc[c] \in {"deciding", "comparing"} /\ pc'[c] = "returned"
      /\ intelOut'[c] = answer /\ UNCHANGED intelReply
      /\ deg \subseteq deg'
      /\ ReportAdvisoryDetail("reference", gaps) \subseteq deg'
  BY DEF AnswerUnreachable, Compare, GoTo
<1>2. KeysOf(intelOut[c]) = KeysOf(intelReply[c].out)
  BY <1>1 DEF TextInv, OwnKeys
<1>3. /\ Told("intel", LostIn(intelOut[c]), deg)
      /\ LostIn(refOut[c]) \subseteq judged[c].refGaps
  BY <1>1 DEF GapsTold
<1>4. restored \in SUBSET refOut[c] /\ restored \in SUBSET Record
  BY DEF Missing
<1>5. KeysOf(restored) \cap KeysOf(intelOut[c]) = {}
  BY DEF Missing, KeysOf
<1>6. LostIn(answer) = LostIn(intelOut[c]) \cup LostIn(restored)
  BY DEF LostIn, KeysOf
<1>7. LostIn(restored) \subseteq gaps /\ LostIn(intelOut[c]) \subseteq KeysOf(intelOut[c])
  BY <1>3, <1>4 DEF LostIn, KeysOf
<1>8. gaps \in SUBSET Key /\ LostIn(intelOut[c]) \in SUBSET Key
  BY <1>4, KeysType DEF LostIn
<1> HIDE DEF restored, answer
<1>9. own \subseteq LostIn(intelOut[c]) /\ LostIn(answer) \ own \subseteq gaps
  BY <1>2, <1>5, <1>6, <1>7
<1> HIDE DEF gaps, own
<1>10. Told("intel", own, deg')
  BY <1>1, <1>3, <1>8, <1>9, ToldOfFewer
<1>11. ReportAdvisoryDetail("reference", gaps) \in SUBSET Degradation
  BY <1>8, ReportType
<1>12. Told("reference", LostIn(answer) \ own, deg')
  BY <1>1, <1>8, <1>9, <1>11, ReportTells, ToldOfFewer
<1> QED BY <1>1, <1>10, <1>12 DEF GapsTold, own

(* Every step keeps the gaps of an answer told. *)
LEMMA GapsToldStep ==
    ASSUME BothReportDetail, TypeOK, IInv, AllText, AllOwn, [Next]_vars,
           NEW c \in Callers, GapsTold(c)
    PROVE  GapsTold(c)'
<1>0. CallInv(c) /\ TextInv(c) /\ OwnIndexes(c)
  BY DEF IInv, AllText, AllOwn, OwnInv
<1> USE DEF TypeOK
<1>1. /\ LostIn(intelOut[c]) \in SUBSET Key
      /\ \A keys : LostIn(intelOut[c]) \cap keys \in SUBSET Key
      /\ \A keys : LostIn(intelOut[c]) \ keys \in SUBSET Key
  BY KeysType DEF LostIn
<1>2. CASE SameCall(c)
  <2>1. /\ pc'[c] = pc[c] /\ intelOut'[c] = intelOut[c] /\ refOut'[c] = refOut[c]
        /\ intelReply'[c] = intelReply[c] /\ judged'[c] = judged[c]
        /\ deg \subseteq deg'
    BY <1>2 DEF SameCall
  <2> QED BY <1>1, <2>1, ToldOfFewer DEF GapsTold
<1>3. CASE \/ Start(c) \/ Answer(c) \/ Fail(c) \/ JudgeReference(c)
           \/ ForwardIncomplete(c)
  <2>1. pc'[c] \notin {"deciding", "comparing", "returned"}
    BY <1>3 DEF Start, Answer, IntelAnswers, ReferenceAnswers, Fail, JudgeReference,
                ForwardIncomplete, GoTo
  <2> QED BY <2>1 DEF GapsTold
<1>4. CASE FillAdvisoryDetail(c)
  BY <1>0, <1>4, FillTellsGaps
<1>5. CASE AnswerUnverified(c)
  <2>1. /\ pc[c] = "deciding" /\ pc'[c] = "returned" /\ deg \subseteq deg'
        /\ UNCHANGED <<intelOut, intelReply>>
    BY <1>5 DEF AnswerUnverified, local, GoTo
  <2>2. LostIn(intelOut[c]) \subseteq KeysOf(intelReply[c].out)
    BY <1>0, <2>1 DEF TextInv, OwnKeys, LostIn, KeysOf
  <2>3. Told("intel", LostIn(intelOut[c]), deg)
    BY <2>1 DEF GapsTold
  <2>4. Told("intel", LostIn(intelOut[c]), deg')
    BY <1>1, <2>1, <2>3, ToldOfFewer
  <2>5. \A said : Told("reference", {}, said)
    BY DEF Told
  <2>6. LostIn(intelOut[c]) \cap KeysOf(intelReply[c].out) = LostIn(intelOut[c])
    BY <2>2
  <2> QED BY <2>1, <2>4, <2>5, <2>6 DEF GapsTold
<1>6. CASE ReadCoverage(c)
  <2>1. /\ pc[c] = "deciding" /\ pc'[c] = "comparing"
        /\ UNCHANGED <<intelOut, refOut, deg>>
        /\ judged'[c].refGaps = judged[c].refGaps
    BY <1>6 DEF ReadCoverage, shared, GoTo, Judgement
  <2> QED BY <2>1 DEF GapsTold
<1>7. CASE AnswerUnreachable(c) \/ Compare(c)
  BY <1>0, <1>7, ReturnTellsGaps
<1> QED BY <1>2, <1>3, <1>4, <1>5, <1>6, <1>7, OwnSteps DEF Step

(* When lookups do not overlap and both sources report their failed detail *)
(* fetches, every record of an answer that has no content is counted in a  *)
(* report of its source, which names its advisory or counts it past the    *)
(* end of a full list.                                                     *)
THEOREM DetailSaid ==
    ASSUME BothReportDetail
    PROVE  Spec /\ []OneAtATime => []DetailLossIsSaid
<1> DEFINE AllTold == \A c \in Callers : GapsTold(c)
<1>1. Init => AllTold
  BY DEF Init, GapsTold
<1>2. TypeOK /\ IInv /\ AllText /\ AllOwn /\ AllTold /\ [Next]_vars => AllTold'
  BY GapsToldStep
<1>3. AllTold => DetailLossIsSaid
  BY DEF GapsTold, DetailLossIsSaid
<1> HIDE DEF AllTold
<1> QED BY <1>1, <1>2, <1>3, TypeCorrect, CallInvHolds, TextHolds, OwnHolds,
           PTL DEF Spec
=============================================================================
