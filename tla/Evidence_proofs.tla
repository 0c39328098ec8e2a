--------------------------- MODULE Evidence_proofs ---------------------------
(* Theorems about the evidence model, for any producers, claims, subjects,   *)
(* authorities, reporters and reports.                                       *)
EXTENDS Evidence, SequenceTheorems, FiniteSetTheorems, WellFoundedInduction, TLAPS

-----------------------------------------------------------------------------
(* The weights.                                                              *)

\* A weight is at most 100; only a deterministic kind weighs more than 50, and two
\* kinds of one weight are both deterministic or neither is.
LEMMA Weights ==
  /\ \A k : Strength(k) \in 0 .. 100
  /\ \A k : Deterministic(k) \/ Strength(k) <= 50
  /\ \A k, l : Strength(k) = Strength(l) /\ k \in Kinds /\ l \in Kinds
       => (Deterministic(k) <=> Deterministic(l))
BY DEF Strength, Kinds, Weight, Deterministic

\* A set of natural numbers has a least element.
LEMMA Least ==
  ASSUME NEW S \in SUBSET Nat, S # {}
  PROVE  \E m \in S : \A n \in S : m <= n
<1> DEFINE R == {ss \in Nat \X Nat : ss[1] < ss[2]}
<1>1. PICK m \in S : \A n \in S : ~(<<n, m>> \in R)
  <2>1. IsWellFoundedOn(R, Nat)
    BY NatLessThanWellFounded, Zenon DEF OpToRel
  <2> HIDE DEF R
  <2> QED BY <2>1, WFMin, Zenon
<1>2. \A n \in S : <<n, m>> \in Nat \X Nat
  OBVIOUS
<1>3. \A n \in S : ~(n < m)
  BY <1>1, <1>2
<1> QED BY <1>3

-----------------------------------------------------------------------------
(* The heaviest claim.                                                       *)

\* Among claims at positions there is one heavier than the others, or the first
\* of the heaviest: the one strongestOf answers.
LEMMA HeaviestExists ==
  ASSUME NEW claims, NEW positions \in SUBSET Nat, positions # {}
  PROVE  \E i \in positions : \A j \in positions :
           \/ Strength(claims[i].kind) > Strength(claims[j].kind)
           \/ Strength(claims[i].kind) = Strength(claims[j].kind) /\ i <= j
<1> DEFINE weight(i) == Strength(claims[i].kind)
           Best(i) == \A j \in positions : \/ weight(i) > weight(j)
                                           \/ weight(i) = weight(j) /\ i <= j
           gaps == {100 - weight(i) : i \in positions}
<1>1. \A i : weight(i) \in 0 .. 100
  BY Weights
<1>2. PICK m \in positions : \A j \in positions : weight(j) <= weight(m)
  <2>1. gaps \in SUBSET Nat /\ gaps # {}
    <3>1. \A i : 100 - weight(i) \in Nat
      <4> HIDE DEF weight
      <4> QED BY <1>1
    <3> HIDE DEF weight
    <3> QED BY <3>1
  <2>2. PICK g \in gaps : \A h \in gaps : g <= h
    BY <2>1, Least
  <2>3. PICK m \in positions : g = 100 - weight(m)
    BY <2>2
  <2>4. ASSUME NEW j \in positions PROVE weight(j) <= weight(m)
    <3>1. 100 - weight(j) \in gaps
      OBVIOUS
    <3> HIDE DEF weight, gaps
    <3> QED BY <1>1, <2>2, <2>3, <3>1
  <2> QED BY <2>4
<1>3. PICK i \in positions : Best(i)
  <2> DEFINE ties == {j \in positions : weight(j) = weight(m)}
  <2>1. PICK i \in ties : \A j \in ties : i <= j
    BY Least
  <2>2. ASSUME NEW j \in positions
        PROVE  weight(i) > weight(j) \/ (weight(i) = weight(j) /\ i <= j)
    <3>1. weight(i) = weight(m) /\ weight(j) <= weight(m)
      BY <1>2, <2>1
    <3>2. weight(j) = weight(m) => i <= j
      BY <2>1
    <3> HIDE DEF weight
    <3> QED BY <1>1, <3>1, <3>2
  <2> QED BY <2>1, <2>2
<1> QED BY <1>3

\* Strongest answers the kind of a claim at one of the positions, and no claim
\* at them is heavier.
LEMMA StrongestIsHeaviest ==
  ASSUME NEW claims, NEW positions \in SUBSET Nat, positions # {}
  PROVE  \E i \in positions :
           /\ Strongest(claims, positions) = claims[i].kind
           /\ \A j \in positions : Strength(claims[j].kind) <= Strength(claims[i].kind)
<1> DEFINE weight(i) == Strength(claims[i].kind)
           Best(i) == \A j \in positions : \/ weight(i) > weight(j)
                                           \/ weight(i) = weight(j) /\ i <= j
           best == CHOOSE i \in positions : Best(i)
<1>1. \A i : weight(i) \in 0 .. 100
  BY Weights
<1>2. best \in positions /\ Best(best)
  BY HeaviestExists
<1>3. Strongest(claims, positions) = claims[best].kind
  BY DEF Strongest
<1>4. \A j \in positions : weight(j) <= weight(best)
  <2> HIDE DEF weight, best
  <2> QED BY <1>1, <1>2
<1> QED BY <1>2, <1>3, <1>4

\* The claims that count are at positions of the ledger.
LEMMA CountedPositions ==
  ASSUME NEW l \in Seq(Claim), NEW s, NEW a
  PROVE  /\ DOMAIN Counted(l, s, a) \subseteq DOMAIN l
         /\ \A i \in DOMAIN Counted(l, s, a) :
              /\ Counted(l, s, a)[i] = l[i]
              /\ l[i].subject = s /\ l[i].kind \in Kinds /\ l[i].status = Unset
         /\ SupportsIn(Counted(l, s, a)) \in SUBSET Nat
         /\ RefutationsIn(Counted(l, s, a)) \in SUBSET Nat
BY DEF Counted, Live, SupportsIn, RefutationsIn

\* A report becomes a claim like any other.
LEMMA ReportBecomesClaim ==
  ASSUME NEW r \in Reports, NEW id \in Reporters
  PROVE  ClaimOf(r, Collector, id) \in Claim
<1>1. {id, Collector, ReportedRunKind} \subseteq Names /\ NoSubject \in Subjects
  BY EvidenceAssumption DEF EvidenceAssumption
<1>2. Unset \in Polarities /\ Unset \in Statuses
  BY Zenon DEF Polarities, Statuses
<1> QED BY <1>1, <1>2 DEF ClaimOf, Claim

\* What the level of a set of claims can be, and when it is CONFIRMED.
LEMMA ConfirmedPasses ==
  ASSUME NEW claims, ConfidenceOf(claims) = "CONFIRMED"
  PROVE  /\ SupportsIn(claims) # {}
         /\ Confirms(Strongest(claims, SupportsIn(claims)), RefutationsIn(claims),
                     Strongest(claims, RefutationsIn(claims)))
BY DEF ConfidenceOf, SupportedLevel, LevelForStrength, Promote

\* There are four levels.
LEMMA ConfidenceIsALevel ==
  ASSUME NEW claims
  PROVE  ConfidenceOf(claims) \in {"LOW", "MEDIUM", "HIGH", "CONFIRMED"}
BY DEF ConfidenceOf, SupportedLevel, LevelForStrength, Promote

\* They are ranked, and LOW is the lowest.
LEMMA Ranks ==
  ASSUME NEW level \in {"LOW", "MEDIUM", "HIGH", "CONFIRMED"}
  PROVE  Rank("LOW") = 1 /\ Rank(level) \in 1 .. 4
BY DEF Rank, Levels

-----------------------------------------------------------------------------
\* The ledger holds claims, whatever is added to it and set in it.
THEOREM TypeCorrect == Spec => []TypeOK
<1>1. Init => TypeOK
  BY DEF Init, TypeOK
<1>2. TypeOK /\ [Next]_vars => TypeOK'
  <2> SUFFICES ASSUME TypeOK, [Next]_vars PROVE TypeOK'
    OBVIOUS
  <2> USE DEF TypeOK
  <2>1. ASSUME NEW claim \in Claims, Add(claim) PROVE TypeOK'
    <3>1. claim \in Claim
      BY EvidenceAssumption DEF EvidenceAssumption
    <3> QED BY <2>1, <3>1, AppendProperties DEF Add
  <2>2. ASSUME NEW r \in Reports, NEW id \in Reporters, AcceptReport(r, id) PROVE TypeOK'
    <3> QED BY <2>2, ReportBecomesClaim, AppendProperties DEF AcceptReport, Add
  <2>3. ASSUME NEW i \in DOMAIN ledger, NEW status \in Lifecycle, SetStatus(i, status)
        PROVE  TypeOK'
    <3>1. status \in Statuses /\ ledger[i] \in Claim
      BY EvidenceAssumption DEF EvidenceAssumption
    <3>2. \A claim \in Claim : [claim EXCEPT !.status = status] \in Claim
      BY <3>1 DEF Claim
    <3>3. ledger' = [ledger EXCEPT ![i] = [ledger[i] EXCEPT !.status = status]]
      BY <2>3 DEF SetStatus
    <3> QED BY <3>1, <3>2, <3>3, ExceptSeq
  <2>4. CASE UNCHANGED vars
    BY <2>4 DEF vars
  <2> QED BY <2>1, <2>2, <2>3, <2>4 DEF Next
<1> QED BY <1>1, <1>2, PTL DEF Spec

-----------------------------------------------------------------------------
(* Statements about a ledger that follow from the way it is read.            *)

\* CONFIRMED stands on a claim that earns it: the strongest support passed the
\* deterministic gate, and the refutations it did not weigh are no heavier than
\* the one it did (aggregate.go:149-151).
THEOREM Earned == Spec => []ConfirmedIsEarned
<1>1. TypeOK => ConfirmedIsEarned
  <2> SUFFICES ASSUME TypeOK, NEW s \in Subjects, NEW a \in Authorities,
                      ConfidenceAboutUnder(ledger, s, a) = "CONFIRMED"
               PROVE  \E i \in SupportsIn(Counted(ledger, s, a)) :
                        /\ Deterministic(Counted(ledger, s, a)[i].kind)
                        /\ Strength(Counted(ledger, s, a)[i].kind) >= 85
                        /\ \A j \in RefutationsIn(Counted(ledger, s, a)) :
                             Deterministic(Counted(ledger, s, a)[j].kind) =>
                               Strength(Counted(ledger, s, a)[j].kind)
                                 < Strength(Counted(ledger, s, a)[i].kind)
    BY Zenon DEF ConfirmedIsEarned
  <2> DEFINE claims == Counted(ledger, s, a)
             supports == SupportsIn(claims)
             refutations == RefutationsIn(claims)
             support == Strongest(claims, supports)
             refutation == Strongest(claims, refutations)
  <2>1. supports \in SUBSET Nat /\ refutations \in SUBSET Nat
    BY CountedPositions DEF TypeOK
  <2>2. supports # {} /\ Confirms(support, refutations, refutation)
    BY ConfirmedPasses DEF ConfidenceAboutUnder
  <2>3. PICK i \in supports : support = claims[i].kind
    BY <2>1, <2>2, StrongestIsHeaviest
  <2>4. Strength("controlled_reproduction") = 85
    BY DEF Strength, Kinds, Weight
  <2>5. ASSUME NEW j \in refutations, Deterministic(claims[j].kind)
        PROVE  Strength(claims[j].kind) < Strength(support)
    <3>1. PICK k \in refutations : /\ refutation = claims[k].kind
                                   /\ Strength(claims[j].kind) <= Strength(claims[k].kind)
      BY <2>1, StrongestIsHeaviest
    <3>2. ~Deterministic(refutation) \/ Strength(refutation) < Strength(support)
      BY <2>2 DEF Confirms
    <3>3. Strength(refutation) < Strength(support)
      BY <2>2, <2>4, <3>2, Weights DEF Confirms
    <3>4. /\ Strength(claims[j].kind) \in Int /\ Strength(refutation) \in Int
          /\ Strength(support) \in Int
      BY Weights
    <3> HIDE DEF claims, refutations, support, refutation
    <3> QED BY <3>1, <3>3, <3>4
  <2> QED BY <2>2, <2>3, <2>4, <2>5 DEF Confirms
<1> QED BY <1>1, TypeCorrect, PTL

\* A conflict leaves nothing above LOW: claims of one weight are of one
\* determinism, so the refutation defeats the support (aggregate.go:215-230).
THEOREM Conflicts == Spec => []ConflictsDecideNothing
<1>1. TypeOK => ConflictsDecideNothing
  <2> SUFFICES ASSUME TypeOK, NEW s \in Subjects, Conflict(ledger, s)
               PROVE  ConfidenceAbout(ledger, s) = "LOW"
    BY DEF ConflictsDecideNothing
  <2> DEFINE claims == Counted(ledger, s, Everything)
             supports == SupportsIn(claims)
             refutations == RefutationsIn(claims)
             support == Strongest(claims, supports)
             refutation == Strongest(claims, refutations)
  <2>1. supports \in SUBSET Nat /\ refutations \in SUBSET Nat
    BY CountedPositions DEF TypeOK
  <2>2. supports # {} /\ refutations # {} /\ Strength(support) = Strength(refutation)
    BY DEF Conflict
  <2>3. support \in Kinds /\ refutation \in Kinds
    <3>1. /\ \E i \in supports : support = claims[i].kind
          /\ \E i \in refutations : refutation = claims[i].kind
      BY <2>1, <2>2, StrongestIsHeaviest
    <3>2. \A i \in DOMAIN claims : claims[i].kind \in Kinds
      BY CountedPositions DEF TypeOK
    <3> QED BY <3>1, <3>2 DEF SupportsIn, RefutationsIn
  <2>4. Deterministic(support) <=> Deterministic(refutation)
    BY <2>2, <2>3, Weights
  <2>5. Strength(support) \in Int
    BY Weights
  <2>6. Defeats(refutation, support)
    <3> HIDE DEF support, refutation
    <3> QED BY <2>2, <2>4, <2>5 DEF Defeats
  <2>7. ConfidenceOf(claims) = "LOW"
    BY <2>2, <2>6 DEF ConfidenceOf
  <2> QED BY <2>7 DEF ConfidenceAbout, ConfidenceAboutUnder
<1> QED BY <1>1, TypeCorrect, PTL

-----------------------------------------------------------------------------
(* What one more claim changes.                                              *)

\* A step that adds a claim appends it.
LEMMA AddedIsAppended ==
  ASSUME TypeOK, [Next]_vars, NEW claim \in Added
  PROVE  claim \in Claim /\ ledger' = Append(ledger, claim)
<1>1. Len(ledger') > Len(ledger) /\ claim = ledger'[Len(ledger')]
  BY DEF Added
<1>2. ASSUME NEW c \in Claim, Add(c) PROVE claim \in Claim /\ ledger' = Append(ledger, claim)
  <2>1. ledger' = Append(ledger, c) /\ ledger \in Seq(Claim)
    BY <1>2 DEF Add, TypeOK
  <2>2. Len(ledger') = Len(ledger) + 1 /\ ledger'[Len(ledger) + 1] = c
    BY <2>1, AppendProperties
  <2> QED BY <1>1, <2>1, <2>2
<1>3. ASSUME NEW i \in DOMAIN ledger, NEW status \in Lifecycle, SetStatus(i, status) PROVE FALSE
  <2>1. Len(ledger') = Len(ledger) /\ Len(ledger) \in Nat
    BY <1>3 DEF SetStatus, TypeOK
  <2> QED BY <1>1, <2>1
<1>4. CASE UNCHANGED vars
  BY <1>1, <1>4 DEF vars, TypeOK
<1>5. \A c \in Claims : c \in Claim
  BY EvidenceAssumption DEF EvidenceAssumption
<1>6. \A r \in Reports, id \in Reporters : AcceptReport(r, id) => Add(ClaimOf(r, Collector, id))
  BY DEF AcceptReport
<1> QED BY <1>2, <1>3, <1>4, <1>5, <1>6, ReportBecomesClaim DEF Next

\* A claim that does not count leaves what counts as it was.
LEMMA UncountedClaim ==
  ASSUME NEW l \in Seq(Claim), NEW c \in Claim, NEW s, NEW a,
         c.subject # s \/ ~Live(c) \/ ~Authorized(c, a)
  PROVE  Counted(Append(l, c), s, a) = Counted(l, s, a)
<1> DEFINE m == Append(l, c)
           Keep(k) == {j \in DOMAIN k : /\ k[j].subject = s
                                        /\ Live(k[j])
                                        /\ Authorized(k[j], a)}
<1>1. /\ DOMAIN m = 1 .. Len(l) + 1 /\ DOMAIN l = 1 .. Len(l) /\ Len(l) \in Nat
      /\ m[Len(l) + 1] = c /\ \A j \in 1 .. Len(l) : m[j] = l[j]
  BY AppendProperties
<1>2. Keep(m) = Keep(l)
  <2> HIDE DEF m
  <2> QED BY <1>1
<1>3. \A j \in Keep(l) : m[j] = l[j]
  BY <1>1
<1>4. [j \in Keep(m) |-> m[j]] = [j \in Keep(l) |-> l[j]]
  <2> HIDE DEF m, Keep
  <2> QED BY <1>2, <1>3
<1> QED BY <1>4 DEF Counted

\* The exploitability of a run about s reads live, recognised claims about s only.
LEMMA UnreadClaim ==
  ASSUME NEW l \in Seq(Claim), NEW c \in Claim, NEW s, NEW o,
         c.subject # s \/ ~Live(c)
  PROVE  Exploitability(o, Append(l, c), s) = Exploitability(o, l, s)
<1> DEFINE m == Append(l, c)
<1>1. /\ DOMAIN m = 1 .. Len(l) + 1 /\ DOMAIN l = 1 .. Len(l) /\ Len(l) \in Nat
      /\ m[Len(l) + 1] = c /\ \A j \in 1 .. Len(l) : m[j] = l[j]
  BY AppendProperties
<1>2. HasDeterministicAbout(m, s) <=> HasDeterministicAbout(l, s)
  <2> HIDE DEF m
  <2> QED BY <1>1 DEF HasDeterministicAbout
<1> QED BY <1>2 DEF Exploitability

\* The level of a set of claims depends on those that support or refute.
LEMMA SameDecisiveClaims ==
  ASSUME NEW claims, NEW more,
         SupportsIn(claims) \in SUBSET Nat, RefutationsIn(claims) \in SUBSET Nat,
         SupportsIn(more) = SupportsIn(claims),
         RefutationsIn(more) = RefutationsIn(claims),
         \A i \in SupportsIn(claims) \cup RefutationsIn(claims) : more[i] = claims[i]
  PROVE  ConfidenceOf(more) = ConfidenceOf(claims)
<1> DEFINE supports == SupportsIn(claims)
           refutations == RefutationsIn(claims)
<1>1. ASSUME NEW P \in SUBSET Nat, P \subseteq supports \cup refutations, P # {}
      PROVE  Strongest(more, P) = Strongest(claims, P)
  <2> DEFINE Best(c, i) == \A j \in P : \/ Strength(c[i].kind) > Strength(c[j].kind)
                                        \/ Strength(c[i].kind) = Strength(c[j].kind) /\ i <= j
             best == CHOOSE i \in P : Best(claims, i)
  <2>1. \A i \in P : more[i] = claims[i]
    BY <1>1
  <2>2. \A i \in P : Best(more, i) <=> Best(claims, i)
    BY <2>1, Zenon
  <2>3. (CHOOSE i \in P : Best(more, i)) = best
    <3> HIDE DEF Best
    <3> QED BY <2>2
  <2>4. Strongest(more, P) = more[best].kind /\ Strongest(claims, P) = claims[best].kind
    BY <2>3 DEF Strongest
  <2>5. more[best] = claims[best]
    <3>1. best \in P
      BY <1>1, HeaviestExists
    <3> QED BY <2>1, <3>1
  <2> QED BY <2>4, <2>5
<1>2. SupportedLevel(more, Strongest(claims, supports))
        = SupportedLevel(claims, Strongest(claims, supports))
  <2>1. {more[i].id : i \in supports} = {claims[i].id : i \in supports}
    OBVIOUS
  <2>2. IndependentSupport(more) = IndependentSupport(claims)
    BY <2>1 DEF IndependentSupport
  <2>3. OnlySemanticSupport(more) <=> OnlySemanticSupport(claims)
    BY DEF OnlySemanticSupport
  <2> QED BY <2>2, <2>3 DEF SupportedLevel
<1>3. CASE supports = {}
  BY <1>3 DEF ConfidenceOf
<1>4. CASE supports # {} /\ refutations = {}
  <2>1. Strongest(more, supports) = Strongest(claims, supports)
    BY <1>1, <1>4
  <2> QED BY <1>2, <1>4, <2>1 DEF ConfidenceOf, Confirms
<1>5. CASE supports # {} /\ refutations # {}
  <2>1. /\ Strongest(more, supports) = Strongest(claims, supports)
        /\ Strongest(more, refutations) = Strongest(claims, refutations)
    BY <1>1, <1>5
  <2> QED BY <1>2, <1>5, <2>1 DEF ConfidenceOf
<1> QED BY <1>3, <1>4, <1>5

\* A claim that argues neither way leaves every level as it was.
LEMMA UndecidedClaim ==
  ASSUME NEW l \in Seq(Claim), NEW c \in Claim, NEW s, NEW a, c.polarity = "unknown"
  PROVE  ConfidenceAboutUnder(Append(l, c), s, a) = ConfidenceAboutUnder(l, s, a)
<1> DEFINE m == Append(l, c)
           more == Counted(m, s, a)
           claims == Counted(l, s, a)
<1>1. /\ DOMAIN m = 1 .. Len(l) + 1 /\ DOMAIN l = 1 .. Len(l) /\ Len(l) \in Nat
      /\ m[Len(l) + 1] = c /\ \A j \in 1 .. Len(l) : m[j] = l[j]
  BY AppendProperties
<1>2. ~Supports(c) /\ ~Refutes(c)
  BY Zenon DEF Supports, Refutes, Unset
<1>3. /\ \A j \in DOMAIN claims : j \in DOMAIN more /\ more[j] = claims[j] /\ claims[j] = l[j]
      /\ \A j \in DOMAIN more : j \in DOMAIN claims \/ more[j] = c
  <2> HIDE DEF m
  <2> QED BY <1>1 DEF Counted
<1>4. SupportsIn(more) = SupportsIn(claims) /\ RefutationsIn(more) = RefutationsIn(claims)
  <2> HIDE DEF more, claims
  <2> QED BY <1>2, <1>3 DEF SupportsIn, RefutationsIn
<1>5. \A i \in SupportsIn(claims) \cup RefutationsIn(claims) : more[i] = claims[i]
  <2> HIDE DEF more, claims
  <2> QED BY <1>3 DEF SupportsIn, RefutationsIn
<1>6. SupportsIn(claims) \in SUBSET Nat /\ RefutationsIn(claims) \in SUBSET Nat
  BY CountedPositions
<1> QED BY <1>4, <1>5, <1>6, SameDecisiveClaims DEF ConfidenceAboutUnder

\* A claim whose kind is not recognised, whose producer may not make it, or that
\* argues neither way weighs nothing, for any ledger and any authority
\* (authority.go:19-22, polarity.go:38-42, reportedrun.go:74-83).
THEOREM Weightless == Spec => WeightlessClaimsDecideNothing
<1>1. ASSUME TypeOK, [Next]_vars, NEW claim \in Added, NEW s \in Subjects
      PROVE  /\ \A a \in Authorities :
                  \/ claim.kind \notin Kinds
                  \/ claim.polarity = "unknown"
                  \/ a.enforcing /\ <<claim.source, claim.kind>> \notin a.permitted
                  => Unmoved(s, a)
             /\ claim.kind \notin Kinds => ExploitabilityUnmoved(s)
  <2>1. ledger \in Seq(Claim) /\ claim \in Claim /\ ledger' = Append(ledger, claim)
    BY <1>1, AddedIsAppended DEF TypeOK
  <2>2. ASSUME NEW a \in Authorities, claim.kind \notin Kinds PROVE Unmoved(s, a)
    BY <2>1, <2>2, UncountedClaim DEF Unmoved, ConfidenceAboutUnder, Live
  <2>3. ASSUME NEW a \in Authorities, claim.polarity = "unknown" PROVE Unmoved(s, a)
    BY <2>1, <2>3, UndecidedClaim DEF Unmoved
  <2>4. ASSUME NEW a \in Authorities,
               a.enforcing, <<claim.source, claim.kind>> \notin a.permitted
        PROVE  Unmoved(s, a)
    <3>1. ~Authorized(claim, a)
      BY <2>4, Zenon DEF Authorized, Permits
    <3> QED BY <2>1, <3>1, UncountedClaim DEF Unmoved, ConfidenceAboutUnder
  <2>5. ASSUME claim.kind \notin Kinds PROVE ExploitabilityUnmoved(s)
    BY <2>1, <2>5, UnreadClaim DEF ExploitabilityUnmoved, Live
  <2> QED BY <2>2, <2>3, <2>4, <2>5, Zenon
<1>2. TypeOK /\ [Next]_vars =>
        \A claim \in Added : \A s \in Subjects :
          /\ \A a \in Authorities :
               \/ claim.kind \notin Kinds
               \/ claim.polarity = "unknown"
               \/ a.enforcing /\ <<claim.source, claim.kind>> \notin a.permitted
               => Unmoved(s, a)
          /\ claim.kind \notin Kinds => ExploitabilityUnmoved(s)
  BY <1>1, Zenon
<1> QED BY <1>2, TypeCorrect, PTL DEF Spec, WeightlessClaimsDecideNothing

\* Evidence about one proposition decides nothing about another, for any ledger
\* and any authority (verdict.go:40-45, subject.go:10-22, aggregate.go:201-206).
THEOREM Apart == Spec => SubjectsKeepApart
<1>1. ASSUME TypeOK, [Next]_vars, NEW claim \in Added, NEW s \in Subjects \ {claim.subject}
      PROVE  /\ ExploitabilityUnmoved(s)
             /\ \A a \in Authorities :
                  /\ Unmoved(s, a)
                  /\ s \in SubjectsOf(ledger) =>
                       AtLeast(ConfidenceUnder(ledger, a), ConfidenceUnder(ledger', a))
  <2>1. ledger \in Seq(Claim) /\ claim \in Claim /\ ledger' = Append(ledger, claim)
    BY <1>1, AddedIsAppended DEF TypeOK
  <2>2. ExploitabilityUnmoved(s)
    BY <2>1, UnreadClaim DEF ExploitabilityUnmoved
  <2>3. ASSUME NEW a \in Authorities PROVE Unmoved(s, a)
    BY <2>1, UncountedClaim DEF Unmoved, ConfidenceAboutUnder
  <2>4. ASSUME NEW a \in Authorities, s \in SubjectsOf(ledger)
        PROVE  AtLeast(ConfidenceUnder(ledger, a), ConfidenceUnder(ledger', a))
    <3>1. {s, claim.subject} \subseteq SubjectsOf(ledger')
      <4>1. /\ DOMAIN ledger' = 1 .. Len(ledger) + 1 /\ DOMAIN ledger = 1 .. Len(ledger)
            /\ Len(ledger) \in Nat
            /\ ledger'[Len(ledger) + 1] = claim
            /\ \A j \in 1 .. Len(ledger) : ledger'[j] = ledger[j]
        BY <2>1, AppendProperties
      <4> QED BY <2>4, <4>1 DEF SubjectsOf
    <3>2. ConfidenceUnder(ledger', a) = "LOW"
      BY <3>1 DEF ConfidenceUnder
    <3>3. ConfidenceUnder(ledger, a) \in {"LOW", "MEDIUM", "HIGH", "CONFIRMED"}
      BY ConfidenceIsALevel DEF ConfidenceUnder, ConfidenceAboutUnder
    <3> QED BY <3>2, <3>3, Ranks DEF AtLeast
  <2> QED BY <2>2, <2>3, <2>4
<1>2. TypeOK /\ [Next]_vars =>
        \A claim \in Added : \A s \in Subjects \ {claim.subject} :
          /\ ExploitabilityUnmoved(s)
          /\ \A a \in Authorities :
               /\ Unmoved(s, a)
               /\ s \in SubjectsOf(ledger) =>
                    AtLeast(ConfidenceUnder(ledger, a), ConfidenceUnder(ledger', a))
  BY <1>1, Zenon
<1> QED BY <1>2, TypeCorrect, PTL DEF Spec, SubjectsKeepApart

-----------------------------------------------------------------------------
(* Reported runs.                                                            *)

\* Every run in the ledger came through Validate.
RunsAreValid ==
  \A i \in DOMAIN ledger : ledger[i].run # NoRun => Valid(ledger[i].run)

\* No run enters the ledger but through Validate, and a status changes none.
LEMMA RunsStayValid == Spec => []RunsAreValid
<1>1. Init => RunsAreValid
  BY DEF Init, RunsAreValid
<1>2. TypeOK /\ RunsAreValid /\ [Next]_vars => RunsAreValid'
  <2> SUFFICES ASSUME TypeOK, RunsAreValid, [Next]_vars PROVE RunsAreValid'
    OBVIOUS
  <2>1. ASSUME NEW c \in Claim, c.run # NoRun => Valid(c.run), Add(c) PROVE RunsAreValid'
    <3>1. /\ DOMAIN ledger' = 1 .. Len(ledger) + 1 /\ DOMAIN ledger = 1 .. Len(ledger)
          /\ Len(ledger) \in Nat
          /\ ledger'[Len(ledger) + 1] = c
          /\ \A j \in 1 .. Len(ledger) : ledger'[j] = ledger[j]
      BY <2>1, AppendProperties DEF Add, TypeOK
    <3> QED BY <2>1, <3>1 DEF RunsAreValid
  <2>2. ASSUME NEW claim \in Claims, Add(claim) PROVE RunsAreValid'
    BY <2>1, <2>2, EvidenceAssumption DEF EvidenceAssumption
  <2>3. ASSUME NEW r \in Reports, NEW id \in Reporters, AcceptReport(r, id) PROVE RunsAreValid'
    <3>1. ClaimOf(r, Collector, id).run = r
      BY DEF ClaimOf
    <3> QED BY <2>1, <2>3, <3>1, ReportBecomesClaim DEF AcceptReport
  <2>4. ASSUME NEW i \in DOMAIN ledger, NEW status \in Lifecycle, SetStatus(i, status)
        PROVE  RunsAreValid'
    <3>1. DOMAIN ledger' = DOMAIN ledger /\ \A j \in DOMAIN ledger : ledger'[j].run = ledger[j].run
      BY <2>4 DEF SetStatus, TypeOK, Claim
    <3> QED BY <3>1 DEF RunsAreValid
  <2>5. CASE UNCHANGED vars
    BY <2>5 DEF vars, RunsAreValid
  <2> QED BY <2>2, <2>3, <2>4, <2>5 DEF Next
<1> QED BY <1>1, <1>2, TypeCorrect, PTL DEF Spec

\* What the service accepts as CONFIRMED the evidence model would have called
\* CONFIRMED, for any report a reporter can send (reportedrun.go:158-165).
THEOREM AcceptedRuns == Spec => []AcceptedRunsWouldConfirm
<1>1. ASSUME NEW r, r.exploitability = "CONFIRMED", Valid(r)
      PROVE  /\ Establishes(r)
             /\ ConfidenceAbout(<<OwnClaim(r)>>, NoSubject) = "CONFIRMED"
             /\ Exploitability(OutcomeOf(r), <<OwnClaim(r)>>, NoSubject) = "CONFIRMED"
  <2> DEFINE c == OwnClaim(r)
             claims == Counted(<<c>>, NoSubject, Everything)
  <2>1. /\ r.deterministic /\ r.reproduced /\ r.controlSound /\ r.profile # "safe"
        /\ r.kind \in Kinds /\ Deterministic(r.kind)
        /\ Strength(r.kind) >= Strength("controlled_reproduction")
    BY <1>1 DEF Valid, ConfirmedBy, QualifiesAsReproduction, ReportableProfiles
  <2>2. c.subject = NoSubject /\ c.kind = r.kind /\ Live(c) /\ Supports(c) /\ ~Refutes(c)
    <3>1. c.subject = NoSubject /\ c.kind = r.kind /\ c.status = Unset /\ c.polarity = Unset
      BY DEF OwnClaim
    <3> HIDE DEF c
    <3>2. Live(c)
      BY <2>1, <3>1 DEF Live
    <3>3. Supports(c) /\ ~Refutes(c)
      BY <3>1, Zenon DEF Supports, Refutes, Unset
    <3> QED BY <3>1, <3>2, <3>3
  <2>3. Authorized(c, Everything)
    BY DEF Authorized, Permits, Everything
  <2> HIDE DEF c
  <2>4. DOMAIN claims = {1} /\ claims[1] = c
    BY <2>2, <2>3 DEF Counted
  <2>5. SupportsIn(claims) = {1} /\ RefutationsIn(claims) = {}
    <3> HIDE DEF claims
    <3> QED BY <2>2, <2>4 DEF SupportsIn, RefutationsIn
  <2>6. Strongest(claims, {1}) = r.kind
    BY <2>2, <2>4, StrongestIsHeaviest
  <2>7. ConfidenceAbout(<<c>>, NoSubject) = "CONFIRMED"
    <3> HIDE DEF claims
    <3> QED BY <2>1, <2>5, <2>6
            DEF ConfidenceAbout, ConfidenceAboutUnder, ConfidenceOf, Confirms, claims
  <2>8. HasDeterministicAbout(<<c>>, NoSubject)
    BY <2>1, <2>2 DEF HasDeterministicAbout
  <2>9. Exploitability(OutcomeOf(r), <<c>>, NoSubject) = "CONFIRMED"
    BY <2>1, <2>8 DEF Exploitability, OutcomeOf
  <2> QED BY <1>1, <2>1, <2>7, <2>9 DEF Establishes, c
<1>2. RunsAreValid => AcceptedRunsWouldConfirm
  BY <1>1 DEF RunsAreValid, AcceptedRunsWouldConfirm
<1> QED BY <1>2, RunsStayValid, PTL

-----------------------------------------------------------------------------
(* What a confidence reads of the claims that count.                         *)

\* A claim at position i is the one strongestOf answers among those at positions.
Heaviest(claims, positions, i) ==
  /\ i \in positions
  /\ \A j \in positions :
       \/ Strength(claims[i].kind) > Strength(claims[j].kind)
       \/ Strength(claims[i].kind) = Strength(claims[j].kind) /\ i <= j

\* There is one such claim, and Strongest answers its kind.
LEMMA StrongestOne ==
  ASSUME NEW claims, NEW positions \in SUBSET Nat, NEW i, Heaviest(claims, positions, i)
  PROVE  Strongest(claims, positions) = claims[i].kind
<1> DEFINE weight(k) == Strength(claims[k].kind)
           Best(k) == \A j \in positions : \/ weight(k) > weight(j)
                                           \/ weight(k) = weight(j) /\ k <= j
           best == CHOOSE k \in positions : Best(k)
<1>1. i \in positions /\ Best(i)
  BY DEF Heaviest
<1>2. best \in positions /\ Best(best)
  BY <1>1
<1>3. \A k : weight(k) \in 0 .. 100
  BY Weights
<1>4. best = i
  <2>1. /\ weight(best) > weight(i) \/ (weight(best) = weight(i) /\ best <= i)
        /\ weight(i) > weight(best) \/ (weight(i) = weight(best) /\ i <= best)
    BY <1>1, <1>2
  <2>2. best \in Nat /\ i \in Nat
    BY <1>1, <1>2
  <2> HIDE DEF weight, best
  <2> QED BY <1>3, <2>1, <2>2
<1> QED BY <1>4 DEF Strongest

\* Where there are claims, one of them is it.
LEMMA HeaviestOne ==
  ASSUME NEW claims, NEW positions \in SUBSET Nat, positions # {}
  PROVE  \E i : Heaviest(claims, positions, i)
BY HeaviestExists DEF Heaviest

\* Judgements alone are too light for the cap on them to matter: two judgements
\* reach MEDIUM, which is what the cap allows (aggregate.go).
LEMMA JudgementsStayBelowTheCap ==
  ASSUME NEW claims, SupportsIn(claims) \in SUBSET Nat, SupportsIn(claims) # {}
  PROVE  LET support == Strongest(claims, SupportsIn(claims))
             level == LevelForStrength(Strength(support))
         IN SupportedLevel(claims, support)
              = IF IndependentSupport(claims) >= 2 /\ level = "LOW" THEN "MEDIUM"
                ELSE IF IndependentSupport(claims) >= 2 /\ level = "MEDIUM" THEN "HIGH"
                ELSE level
<1> DEFINE support == Strongest(claims, SupportsIn(claims))
           level == LevelForStrength(Strength(support))
           promoted == IF IndependentSupport(claims) >= 2 /\ ~AtLeast(level, "HIGH")
                       THEN Promote(level) ELSE level
<1>1. level \in {"LOW", "MEDIUM", "HIGH"}
  BY DEF LevelForStrength
<1>2. /\ AtLeast("HIGH", "HIGH") /\ ~AtLeast("LOW", "HIGH") /\ ~AtLeast("MEDIUM", "HIGH")
  <2>1. Rank("LOW") = 1 /\ Rank("MEDIUM") = 2 /\ Rank("HIGH") = 3
    BY DEF Rank, Levels
  <2> QED BY <2>1 DEF AtLeast
<1>3. promoted = IF IndependentSupport(claims) >= 2 /\ level = "LOW" THEN "MEDIUM"
                 ELSE IF IndependentSupport(claims) >= 2 /\ level = "MEDIUM" THEN "HIGH"
                 ELSE level
  <2> HIDE DEF level
  <2> QED BY <1>1, <1>2 DEF Promote
<1>4. OnlySemanticSupport(claims) => ~AtLeast(promoted, "HIGH")
  <2> SUFFICES ASSUME OnlySemanticSupport(claims) PROVE ~AtLeast(promoted, "HIGH")
    OBVIOUS
  <2>1. support = "semantic"
    BY StrongestIsHeaviest DEF OnlySemanticSupport
  <2>2. Strength("semantic") = 20
    BY DEF Strength, Kinds, Weight
  <2>3. level = "LOW"
    BY <2>1, <2>2 DEF LevelForStrength
  <2> HIDE DEF level, promoted
  <2> QED BY <1>2, <1>3, <2>3
<1>5. SupportedLevel(claims, support) = promoted
  <2>1. SupportedLevel(claims, support)
          = IF OnlySemanticSupport(claims) /\ AtLeast(promoted, "HIGH")
            THEN "MEDIUM" ELSE promoted
    BY DEF SupportedLevel
  <2> HIDE DEF promoted, level, support
  <2> QED BY <1>4, <2>1
<1> QED BY <1>3, <1>5

\* The same strongest claims and the same number of reporters give the same level.
LEMMA SameReading ==
  ASSUME NEW claims, NEW more,
         SupportsIn(claims) \in SUBSET Nat, SupportsIn(more) \in SUBSET Nat,
         SupportsIn(claims) = {} <=> SupportsIn(more) = {},
         RefutationsIn(claims) = {} <=> RefutationsIn(more) = {},
         SupportsIn(claims) # {} =>
           Strongest(more, SupportsIn(more)) = Strongest(claims, SupportsIn(claims)),
         RefutationsIn(claims) # {} =>
           Strongest(more, RefutationsIn(more)) = Strongest(claims, RefutationsIn(claims)),
         IndependentSupport(more) = IndependentSupport(claims)
  PROVE  ConfidenceOf(more) = ConfidenceOf(claims)
<1>1. CASE SupportsIn(claims) = {}
  BY <1>1 DEF ConfidenceOf
<1>2. CASE SupportsIn(claims) # {}
  <2>1. SupportedLevel(more, Strongest(claims, SupportsIn(claims)))
          = SupportedLevel(claims, Strongest(claims, SupportsIn(claims)))
    BY <1>2, JudgementsStayBelowTheCap
  <2>2. CASE RefutationsIn(claims) = {}
    BY <1>2, <2>1, <2>2 DEF ConfidenceOf, Confirms
  <2>3. CASE RefutationsIn(claims) # {}
    <3> DEFINE support == Strongest(claims, SupportsIn(claims))
               refutation == Strongest(claims, RefutationsIn(claims))
    <3>1. /\ Strongest(more, SupportsIn(more)) = support
          /\ Strongest(more, RefutationsIn(more)) = refutation
      BY <1>2, <2>3
    <3>2. Confirms(support, RefutationsIn(more), refutation)
            <=> Confirms(support, RefutationsIn(claims), refutation)
      BY <2>3 DEF Confirms
    <3>3. SupportedLevel(more, support) = SupportedLevel(claims, support)
      BY <2>1
    <3> HIDE DEF support, refutation
    <3>4. ConfidenceOf(more)
            = IF Defeats(refutation, support) THEN "LOW"
              ELSE IF Confirms(support, RefutationsIn(more), refutation) THEN "CONFIRMED"
              ELSE SupportedLevel(more, support)
      BY <1>2, <2>3, <3>1 DEF ConfidenceOf
    <3>5. ConfidenceOf(claims)
            = IF Defeats(refutation, support) THEN "LOW"
              ELSE IF Confirms(support, RefutationsIn(claims), refutation) THEN "CONFIRMED"
              ELSE SupportedLevel(claims, support)
      BY <1>2, <2>3 DEF ConfidenceOf, support, refutation
    <3> QED BY <3>2, <3>3, <3>4, <3>5
  <2> QED BY <2>2, <2>3
<1> QED BY <1>1, <1>2

\* more is claims with the claim c after them, at position last.
GrownBy(claims, more, last, c) ==
  /\ last \in Nat
  /\ DOMAIN more = DOMAIN claims \cup {last} /\ last \notin DOMAIN claims
  /\ more[last] = c
  /\ \A i \in DOMAIN claims : i \in Nat /\ i < last /\ more[i] = claims[i]
  /\ SupportsIn(more) = SupportsIn(claims) \cup (IF Supports(c) THEN {last} ELSE {})
  /\ RefutationsIn(more) = RefutationsIn(claims) \cup (IF Refutes(c) THEN {last} ELSE {})

\* A claim that counts comes after those that counted before it.
LEMMA CountedClaim ==
  ASSUME NEW l \in Seq(Claim), NEW c \in Claim, NEW s, NEW a,
         c.subject = s, Live(c), Authorized(c, a)
  PROVE  GrownBy(Counted(l, s, a), Counted(Append(l, c), s, a), Len(l) + 1, c)
<1> DEFINE m == Append(l, c)
           more == Counted(m, s, a)
           claims == Counted(l, s, a)
           last == Len(l) + 1
<1>1. /\ DOMAIN m = 1 .. last /\ DOMAIN l = 1 .. Len(l) /\ Len(l) \in Nat
      /\ m[last] = c /\ \A j \in 1 .. Len(l) : m[j] = l[j]
  BY AppendProperties
<1>2. /\ DOMAIN more = DOMAIN claims \cup {last} /\ last \notin DOMAIN claims
      /\ more[last] = c
      /\ \A i \in DOMAIN claims : i \in Nat /\ i < last /\ more[i] = claims[i]
  <2> HIDE DEF m
  <2> QED BY <1>1 DEF Counted
<1>3. /\ SupportsIn(more) = SupportsIn(claims) \cup (IF Supports(c) THEN {last} ELSE {})
      /\ RefutationsIn(more) = RefutationsIn(claims) \cup (IF Refutes(c) THEN {last} ELSE {})
  <2> HIDE DEF more, claims, last
  <2> QED BY <1>2 DEF SupportsIn, RefutationsIn
<1> QED BY <1>1, <1>2, <1>3 DEF GrownBy

\* A claim at the end that is no heavier than another leaves the strongest as it was.
LEMMA LighterClaimAtTheEnd ==
  ASSUME NEW claims, NEW more, NEW positions \in SUBSET Nat, NEW last \in Nat,
         \A i \in positions : i < last /\ more[i] = claims[i],
         NEW i \in positions, Strength(more[last].kind) <= Strength(claims[i].kind)
  PROVE  Strongest(more, positions \cup {last}) = Strongest(claims, positions)
<1>1. PICK h : Heaviest(claims, positions, h)
  BY HeaviestOne
<1>2. h \in positions /\ h \in Nat /\ h < last /\ more[h] = claims[h]
  BY <1>1 DEF Heaviest
<1>3. \A k : Strength(k) \in 0 .. 100
  BY Weights
<1>4. Strength(claims[h].kind) >= Strength(claims[i].kind)
  BY <1>1, <1>3 DEF Heaviest
<1>5. Heaviest(more, positions \cup {last}, h)
  <2>1. ASSUME NEW j \in positions
        PROVE  \/ Strength(more[h].kind) > Strength(more[j].kind)
               \/ Strength(more[h].kind) = Strength(more[j].kind) /\ h <= j
    BY <1>1, <1>2 DEF Heaviest
  <2>2. \/ Strength(more[h].kind) > Strength(more[last].kind)
        \/ Strength(more[h].kind) = Strength(more[last].kind) /\ h <= last
    <3>1. Strength(more[h].kind) >= Strength(more[last].kind)
      BY <1>2, <1>3, <1>4
    <3>2. h <= last
      BY <1>2
    <3> QED BY <1>3, <3>1, <3>2
  <2> QED BY <1>2, <2>1, <2>2 DEF Heaviest
<1>6. positions \cup {last} \in SUBSET Nat
  OBVIOUS
<1>7. Strongest(more, positions \cup {last}) = more[h].kind
  BY <1>5, <1>6, StrongestOne
<1> QED BY <1>1, <1>2, <1>7, StrongestOne

\* What the same reporter said before, in the same kind or a heavier one, counts
\* once: one more observation of it changes no level (aggregate.go:98-116).
LEMMA EchoIsSilent ==
  ASSUME NEW l \in Seq(Claim), NEW c \in Claim, NEW s, NEW a,
         NEW i \in DOMAIN l, Live(l[i]), Authorized(l[i], a),
         l[i] = [c EXCEPT !.kind = l[i].kind],
         Strength(l[i].kind) >= Strength(c.kind)
  PROVE  ConfidenceAboutUnder(Append(l, c), s, a) = ConfidenceAboutUnder(l, s, a)
<1>1. CASE c.subject # s \/ ~Live(c) \/ ~Authorized(c, a)
  BY <1>1, UncountedClaim DEF ConfidenceAboutUnder
<1>2. CASE c.subject = s /\ Live(c) /\ Authorized(c, a)
  <2> DEFINE more == Counted(Append(l, c), s, a)
             claims == Counted(l, s, a)
             last == Len(l) + 1
  <2>1. /\ last \in Nat
        /\ DOMAIN more = DOMAIN claims \cup {last} /\ last \notin DOMAIN claims
        /\ more[last] = c
        /\ \A j \in DOMAIN claims : j \in Nat /\ j < last /\ more[j] = claims[j]
        /\ SupportsIn(more) = SupportsIn(claims) \cup (IF Supports(c) THEN {last} ELSE {})
        /\ RefutationsIn(more)
             = RefutationsIn(claims) \cup (IF Refutes(c) THEN {last} ELSE {})
    <3>1. GrownBy(claims, more, last, c)
      BY <1>2, CountedClaim
    <3> QED BY <3>1 DEF GrownBy
  <2>2. /\ l[i].subject = c.subject /\ l[i].polarity = c.polarity /\ l[i].id = c.id
    BY DEF Claim
  <2>3. i \in DOMAIN claims /\ claims[i] = l[i]
    BY <1>2, <2>2 DEF Counted
  <2>4. /\ SupportsIn(claims) \in SUBSET Nat /\ RefutationsIn(claims) \in SUBSET Nat
        /\ SupportsIn(claims) \subseteq DOMAIN claims
        /\ RefutationsIn(claims) \subseteq DOMAIN claims
    BY CountedPositions DEF SupportsIn, RefutationsIn
  <2>5. /\ Supports(c) => i \in SupportsIn(claims)
        /\ Refutes(c) => i \in RefutationsIn(claims)
    BY <2>2, <2>3, Zenon DEF SupportsIn, RefutationsIn, Supports, Refutes
  <2> HIDE DEF more, claims, last
  <2>6. SupportsIn(more) \in SUBSET Nat /\ RefutationsIn(more) \in SUBSET Nat
    BY <2>1, <2>4
  <2>7. \A P \in {SupportsIn(claims), RefutationsIn(claims)} :
          /\ P # {} => Strongest(more, P) = Strongest(claims, P)
          /\ i \in P => Strongest(more, P \cup {last}) = Strongest(claims, P)
    <3> TAKE P \in {SupportsIn(claims), RefutationsIn(claims)}
    <3>1. P \in SUBSET Nat /\ \A j \in P : j \in Nat /\ j < last /\ more[j] = claims[j]
      BY <2>1, <2>4
    <3>2. ASSUME P # {} PROVE Strongest(more, P) = Strongest(claims, P)
      <4>1. PICK h : Heaviest(claims, P, h)
        BY <3>1, <3>2, HeaviestOne
      <4>2. Heaviest(more, P, h)
        BY <3>1, <4>1, Zenon DEF Heaviest
      <4>3. more[h] = claims[h]
        BY <3>1, <4>1 DEF Heaviest
      <4> QED BY <3>1, <4>1, <4>2, <4>3, StrongestOne
    <3>3. ASSUME i \in P PROVE Strongest(more, P \cup {last}) = Strongest(claims, P)
      <4>1. Strength(more[last].kind) <= Strength(claims[i].kind)
        BY <2>1, <2>3, Weights
      <4> QED BY <2>1, <3>1, <3>3, <4>1, LighterClaimAtTheEnd
    <3> QED BY <3>2, <3>3
  <2>8. IndependentSupport(more) = IndependentSupport(claims)
    <3>1. {more[j].id : j \in SupportsIn(more)} = {claims[j].id : j \in SupportsIn(claims)}
      <4>1. CASE ~Supports(c)
        BY <2>1, <2>4, <4>1
      <4>2. CASE Supports(c)
        <5>1. more[last].id = claims[i].id /\ i \in SupportsIn(claims)
          BY <2>1, <2>2, <2>3, <2>5, <4>2
        <5> QED BY <2>1, <2>4, <4>2, <5>1
      <4> QED BY <4>1, <4>2
    <3> QED BY <3>1 DEF IndependentSupport
  <2>9. /\ SupportsIn(claims) = {} <=> SupportsIn(more) = {}
        /\ RefutationsIn(claims) = {} <=> RefutationsIn(more) = {}
        /\ SupportsIn(claims) # {} =>
             Strongest(more, SupportsIn(more)) = Strongest(claims, SupportsIn(claims))
        /\ RefutationsIn(claims) # {} =>
             Strongest(more, RefutationsIn(more)) = Strongest(claims, RefutationsIn(claims))
    BY <2>1, <2>5, <2>7
  <2>10. ConfidenceOf(more) = ConfidenceOf(claims)
    BY <2>4, <2>6, <2>8, <2>9, SameReading
  <2> QED BY <2>10 DEF ConfidenceAboutUnder, more, claims
<1> QED BY <1>1, <1>2

\* A hundred observations of one reporter are one source, for any ledger and any
\* authority (evidence.go, IndependentSources; aggregate.go:98-116).
THEOREM Echoes == Spec => EchoesDoNotPromote
<1>1. ASSUME TypeOK, [Next]_vars, NEW claim \in Added, NEW s \in Subjects, NEW a \in Authorities,
             NEW i \in DOMAIN ledger, Live(ledger[i]), Authorized(ledger[i], a),
             ledger[i] = [claim EXCEPT !.kind = ledger[i].kind],
             Strength(ledger[i].kind) >= Strength(claim.kind)
      PROVE  Unmoved(s, a)
  <2>1. ledger \in Seq(Claim) /\ claim \in Claim /\ ledger' = Append(ledger, claim)
    BY <1>1, AddedIsAppended DEF TypeOK
  <2> QED BY <1>1, <2>1, EchoIsSilent DEF Unmoved
<1>2. TypeOK /\ [Next]_vars =>
        \A claim \in Added : \A s \in Subjects, a \in Authorities :
          (\E i \in DOMAIN ledger :
             /\ Live(ledger[i]) /\ Authorized(ledger[i], a)
             /\ ledger[i] = [claim EXCEPT !.kind = ledger[i].kind]
             /\ Strength(ledger[i].kind) >= Strength(claim.kind))
          => Unmoved(s, a)
  BY <1>1, Zenon
<1> QED BY <1>2, TypeCorrect, PTL DEF Spec, EchoesDoNotPromote
-----------------------------------------------------------------------------
(* More support.                                                             *)

\* Who supports: the reporters of the supporting claims, the unknown one included.
SupportersOf(claims) == {claims[i].id : i \in SupportsIn(claims)}

\* The reporters of finitely many claims can be counted.
LEMMA SupportersAreCounted ==
  ASSUME NEW l \in Seq(Claim), NEW s, NEW a
  PROVE  IsFiniteSet(SupportersOf(Counted(l, s, a)))
<1> DEFINE claims == Counted(l, s, a)
           supports == SupportsIn(claims)
           ids == {claims[i].id : i \in supports}
           idOf == [i \in supports |-> claims[i].id]
<1>1. IsFiniteSet(supports)
  <2>1. supports \subseteq 1 .. Len(l) /\ Len(l) \in Nat
    BY CountedPositions DEF SupportsIn
  <2>2. IsFiniteSet(1 .. Len(l))
    BY <2>1, FS_Interval
  <2> QED BY <2>1, <2>2, FS_Subset
<1>2. idOf \in Surjection(supports, ids)
  <2> HIDE DEF supports, claims
  <2> QED BY DEF Surjection
<1> HIDE DEF idOf, ids, supports
<1>3. IsFiniteSet(ids)
  BY <1>1, <1>2, FS_Surjection
<1> QED BY <1>3 DEF ids, supports, SupportersOf

\* More strength and more reporters never lower the level of supported claims.
LEMMA SupportedLevelRises ==
  ASSUME NEW claims, NEW more,
         SupportsIn(claims) \in SUBSET Nat, SupportsIn(claims) # {},
         SupportsIn(more) \in SUBSET Nat, SupportsIn(more) # {},
         Strength(Strongest(claims, SupportsIn(claims)))
           <= Strength(Strongest(more, SupportsIn(more))),
         IndependentSupport(claims) \in Nat, IndependentSupport(more) \in Nat,
         IndependentSupport(claims) <= IndependentSupport(more)
  PROVE  /\ SupportedLevel(claims, Strongest(claims, SupportsIn(claims)))
              \in {"LOW", "MEDIUM", "HIGH"}
         /\ AtLeast(SupportedLevel(more, Strongest(more, SupportsIn(more))),
                    SupportedLevel(claims, Strongest(claims, SupportsIn(claims))))
<1> DEFINE weak == Strength(Strongest(claims, SupportsIn(claims)))
           strong == Strength(Strongest(more, SupportsIn(more)))
           low == LevelForStrength(weak)
           high == LevelForStrength(strong)
           few == IndependentSupport(claims)
           many == IndependentSupport(more)
           Promoted(level, n) == IF n >= 2 /\ level = "LOW" THEN "MEDIUM"
                                 ELSE IF n >= 2 /\ level = "MEDIUM" THEN "HIGH"
                                 ELSE level
<1>1. /\ SupportedLevel(claims, Strongest(claims, SupportsIn(claims))) = Promoted(low, few)
      /\ SupportedLevel(more, Strongest(more, SupportsIn(more))) = Promoted(high, many)
  BY JudgementsStayBelowTheCap
<1>2. weak \in 0 .. 100 /\ strong \in 0 .. 100 /\ weak <= strong
  BY Weights
<1>3. /\ low \in {"LOW", "MEDIUM", "HIGH"} /\ high \in {"LOW", "MEDIUM", "HIGH"}
      /\ low = "HIGH" => high = "HIGH"
      /\ low = "MEDIUM" => high \in {"MEDIUM", "HIGH"}
  <2> HIDE DEF weak, strong
  <2> QED BY <1>2 DEF LevelForStrength
<1>4. few \in Nat /\ many \in Nat /\ few <= many
  OBVIOUS
<1>5. Rank("LOW") = 1 /\ Rank("MEDIUM") = 2 /\ Rank("HIGH") = 3
  BY DEF Rank, Levels
<1> HIDE DEF low, high, few, many, weak, strong
<1>6. Promoted(low, few) \in {"LOW", "MEDIUM", "HIGH"}
  BY <1>3
<1>7. AtLeast(Promoted(high, many), Promoted(low, few))
  BY <1>3, <1>4, <1>5 DEF AtLeast
<1> QED BY <1>1, <1>6, <1>7 DEF low, high, few, many, weak, strong

\* With nothing to refute it, the level of supported claims is CONFIRMED from
\* reproduction strength on, and what the support gives below it.
LEMMA Unrefuted ==
  ASSUME NEW claims, SupportsIn(claims) # {}, RefutationsIn(claims) = {}
  PROVE  LET support == Strongest(claims, SupportsIn(claims))
         IN ConfidenceOf(claims) = IF Strength(support) >= 85 THEN "CONFIRMED"
                                   ELSE SupportedLevel(claims, support)
<1> DEFINE support == Strongest(claims, SupportsIn(claims))
<1>1. Strength("controlled_reproduction") = 85
  BY DEF Strength, Kinds, Weight
<1>2. Confirms(support, {}, Strongest(claims, {})) <=> Strength(support) >= 85
  <2>1. Strength(support) >= 85 => Deterministic(support)
    BY Weights
  <2> HIDE DEF support
  <2> QED BY <1>1, <2>1 DEF Confirms
<1> QED BY <1>2 DEF ConfidenceOf

\* One more reason to believe s, where none speaks against it, lowers nothing.
LEMMA SupportRaises ==
  ASSUME NEW l \in Seq(Claim), NEW c \in Claim, NEW a, Supports(c),
         RefutationsIn(Counted(l, c.subject, a)) = {}
  PROVE  AtLeast(ConfidenceAboutUnder(Append(l, c), c.subject, a),
                 ConfidenceAboutUnder(l, c.subject, a))
<1> DEFINE s == c.subject
           more == Counted(Append(l, c), s, a)
           claims == Counted(l, s, a)
           last == Len(l) + 1
<1>1. /\ ConfidenceOf(more) \in {"LOW", "MEDIUM", "HIGH", "CONFIRMED"}
      /\ ConfidenceOf(claims) \in {"LOW", "MEDIUM", "HIGH", "CONFIRMED"}
  BY ConfidenceIsALevel
<1>2. CASE ~Live(c) \/ ~Authorized(c, a)
  <2>1. more = claims
    BY <1>2, UncountedClaim
  <2>2. AtLeast(ConfidenceOf(more), ConfidenceOf(claims))
    <3> HIDE DEF more, claims
    <3> QED BY <1>1, <2>1, Ranks DEF AtLeast
  <2> QED BY <2>2 DEF ConfidenceAboutUnder
<1>3. CASE Live(c) /\ Authorized(c, a)
  <2>1. GrownBy(claims, more, last, c)
    BY <1>3, CountedClaim
  <2>2. SupportsIn(claims) \in SUBSET Nat /\ SupportsIn(claims) \subseteq DOMAIN claims
    BY CountedPositions DEF SupportsIn
  <2>3. RefutationsIn(claims) = {}
    OBVIOUS
  <2>4. ~Refutes(c)
    BY Zenon DEF Supports, Refutes, Unset
  <2>5. IsFiniteSet(SupportersOf(claims)) /\ IsFiniteSet(SupportersOf(more))
    <3>1. Append(l, c) \in Seq(Claim)
      BY AppendProperties
    <3> QED BY <3>1, SupportersAreCounted
  <2> HIDE DEF s, more, claims, last
  <2>6. /\ last \in Nat /\ SupportsIn(more) = SupportsIn(claims) \cup {last}
        /\ RefutationsIn(more) = {}
        /\ \A i \in SupportsIn(claims) : i < last /\ more[i] = claims[i]
    BY <2>1, <2>2, <2>3, <2>4 DEF GrownBy
  <2>7. CASE SupportsIn(claims) = {}
    <3>1. ConfidenceOf(claims) = "LOW"
      BY <2>7 DEF ConfidenceOf
    <3>2. AtLeast(ConfidenceOf(more), ConfidenceOf(claims))
      BY <1>1, <3>1, Ranks DEF AtLeast
    <3> QED BY <3>2 DEF ConfidenceAboutUnder, s, more, claims
  <2>8. CASE SupportsIn(claims) # {}
    <3> DEFINE old == Strongest(claims, SupportsIn(claims))
               new == Strongest(more, SupportsIn(more))
    <3>1. Strength(old) <= Strength(new)
      <4>1. PICK i \in SupportsIn(claims) : old = claims[i].kind
        BY <2>2, <2>8, StrongestIsHeaviest
      <4>2. SupportsIn(more) \in SUBSET Nat /\ i \in SupportsIn(more) /\ more[i] = claims[i]
        BY <2>2, <2>6
      <4>3. Strength(more[i].kind) <= Strength(new)
        BY <4>2, StrongestIsHeaviest
      <4> QED BY <4>1, <4>2, <4>3
    <3>2. /\ IndependentSupport(claims) \in Nat /\ IndependentSupport(more) \in Nat
          /\ IndependentSupport(claims) <= IndependentSupport(more)
      <4> DEFINE before == SupportersOf(claims) \ {Unattributed}
                 after == SupportersOf(more) \ {Unattributed}
      <4>1. before \subseteq after
        BY <2>6 DEF SupportersOf
      <4>2. IsFiniteSet(before) /\ IsFiniteSet(after)
        BY <2>5, FS_Subset
      <4> HIDE DEF before, after
      <4>3. Cardinality(before) \in Nat /\ Cardinality(after) \in Nat
            /\ Cardinality(before) <= Cardinality(after)
        BY <4>1, <4>2, FS_Subset, FS_CardinalityType
      <4> QED BY <4>3 DEF IndependentSupport, SupportersOf, before, after
    <3>3. /\ SupportedLevel(claims, old) \in {"LOW", "MEDIUM", "HIGH"}
          /\ AtLeast(SupportedLevel(more, new), SupportedLevel(claims, old))
      <4>1. SupportsIn(more) \in SUBSET Nat /\ SupportsIn(more) # {}
        BY <2>2, <2>6
      <4> QED BY <2>2, <2>8, <3>1, <3>2, <4>1, SupportedLevelRises
    <3>4. /\ ConfidenceOf(more) = IF Strength(new) >= 85 THEN "CONFIRMED"
                                  ELSE SupportedLevel(more, new)
          /\ ConfidenceOf(claims) = IF Strength(old) >= 85 THEN "CONFIRMED"
                                    ELSE SupportedLevel(claims, old)
      BY <2>3, <2>6, <2>8, Unrefuted DEF s, claims
    <3> DEFINE weak == Strength(old)
               strong == Strength(new)
    <3>5. weak \in 0 .. 100 /\ strong \in 0 .. 100 /\ weak <= strong
      BY <3>1, Weights
    <3>6. /\ ConfidenceOf(more) = IF strong >= 85 THEN "CONFIRMED" ELSE SupportedLevel(more, new)
          /\ ConfidenceOf(claims) = IF weak >= 85 THEN "CONFIRMED" ELSE SupportedLevel(claims, old)
      BY <3>4
    <3> HIDE DEF old, new, weak, strong
    <3>7. AtLeast(ConfidenceOf(more), ConfidenceOf(claims))
      <4>1. CASE strong >= 85
        <5>1. Rank("CONFIRMED") = 4
          BY DEF Rank, Levels
        <5>2. Rank(ConfidenceOf(claims)) \in 1 .. 4
          BY <1>1, Ranks
        <5> QED BY <3>6, <4>1, <5>1, <5>2 DEF AtLeast
      <4>2. CASE ~(strong >= 85)
        <5>1. ~(weak >= 85)
          BY <3>5, <4>2
        <5> QED BY <3>3, <3>6, <4>2, <5>1, Zenon
      <4> QED BY <4>1, <4>2
    <3> QED BY <3>7 DEF ConfidenceAboutUnder, s, more, claims
  <2> QED BY <2>7, <2>8
<1> QED BY <1>2, <1>3

\* While nothing refutes s, one more reason to believe it never lowers the
\* confidence, for any ledger and any authority (aggregate.go:152-154).
THEOREM SupportOnlyRaises == Spec => SupportNeverLowers
<1>1. ASSUME TypeOK, [Next]_vars, NEW claim \in Added, NEW a \in Authorities,
             Supports(claim), RefutationsIn(Counted(ledger, claim.subject, a)) = {}
      PROVE  AtLeast(ConfidenceAboutUnder(ledger', claim.subject, a),
                     ConfidenceAboutUnder(ledger, claim.subject, a))
  <2>1. ledger \in Seq(Claim) /\ claim \in Claim /\ ledger' = Append(ledger, claim)
    BY <1>1, AddedIsAppended DEF TypeOK
  <2> QED BY <1>1, <2>1, SupportRaises
<1>2. TypeOK /\ [Next]_vars =>
        \A claim \in Added : \A a \in Authorities :
          Supports(claim) /\ RefutationsIn(Counted(ledger, claim.subject, a)) = {}
          => AtLeast(ConfidenceAboutUnder(ledger', claim.subject, a),
                     ConfidenceAboutUnder(ledger, claim.subject, a))
  BY <1>1, Zenon
<1> QED BY <1>2, TypeCorrect, PTL DEF Spec, SupportNeverLowers
-----------------------------------------------------------------------------
(* Withdrawal.                                                               *)

\* Claims at other positions, in the same order, give the same level.
LEMMA Renumbered ==
  ASSUME NEW claims, NEW more,
         DOMAIN claims \in SUBSET Nat, DOMAIN more \in SUBSET Nat,
         NEW f \in [DOMAIN claims -> DOMAIN more],
         \A i \in DOMAIN claims : more[f[i]] = claims[i],
         \A j \in DOMAIN more : \E i \in DOMAIN claims : f[i] = j,
         \A i, j \in DOMAIN claims : i <= j => f[i] <= f[j]
  PROVE  ConfidenceOf(more) = ConfidenceOf(claims)
<1>1. /\ SupportsIn(claims) \in SUBSET Nat /\ RefutationsIn(claims) \in SUBSET Nat
      /\ SupportsIn(more) \in SUBSET Nat /\ RefutationsIn(more) \in SUBSET Nat
  BY DEF SupportsIn, RefutationsIn
<1>2. /\ SupportsIn(more) = {f[i] : i \in SupportsIn(claims)}
      /\ RefutationsIn(more) = {f[i] : i \in RefutationsIn(claims)}
  BY DEF SupportsIn, RefutationsIn
<1>3. ASSUME NEW P \in SUBSET DOMAIN claims, P # {}
      PROVE  Strongest(more, {f[i] : i \in P}) = Strongest(claims, P)
  <2> DEFINE Q == {f[i] : i \in P}
  <2>1. P \in SUBSET Nat /\ Q \in SUBSET Nat
    OBVIOUS
  <2>2. PICK h : Heaviest(claims, P, h)
    BY <1>3, <2>1, HeaviestOne
  <2>3. h \in P /\ more[f[h]] = claims[h]
    BY <2>2 DEF Heaviest
  <2>4. ASSUME NEW j \in Q
        PROVE  \/ Strength(more[f[h]].kind) > Strength(more[j].kind)
               \/ Strength(more[f[h]].kind) = Strength(more[j].kind) /\ f[h] <= j
    <3>1. PICK k \in P : j = f[k]
      OBVIOUS
    <3>2. more[j] = claims[k] /\ (h <= k => f[h] <= j)
      BY <2>3, <3>1
    <3>3. \/ Strength(claims[h].kind) > Strength(claims[k].kind)
          \/ Strength(claims[h].kind) = Strength(claims[k].kind) /\ h <= k
      BY <2>2 DEF Heaviest
    <3> QED BY <2>3, <3>2, <3>3
  <2>5. Heaviest(more, Q, f[h])
    BY <2>3, <2>4 DEF Heaviest
  <2>6. Strongest(more, Q) = more[f[h]].kind
    <3> HIDE DEF Q
    <3> QED BY <2>1, <2>5, StrongestOne
  <2>7. Strongest(claims, P) = claims[h].kind
    BY <2>1, <2>2, StrongestOne
  <2> QED BY <2>3, <2>6, <2>7
<1>4. SupportsIn(claims) \subseteq DOMAIN claims /\ RefutationsIn(claims) \subseteq DOMAIN claims
  BY DEF SupportsIn, RefutationsIn
<1>5. IndependentSupport(more) = IndependentSupport(claims)
  <2>1. {more[j].id : j \in SupportsIn(more)} = {claims[i].id : i \in SupportsIn(claims)}
    BY <1>2, <1>4
  <2> QED BY <2>1 DEF IndependentSupport
<1>6. /\ SupportsIn(claims) = {} <=> SupportsIn(more) = {}
      /\ RefutationsIn(claims) = {} <=> RefutationsIn(more) = {}
  <2>1. \A P : P = {} <=> {f[i] : i \in P} = {}
    <3> TAKE P
    <3>1. ASSUME NEW i \in P PROVE {f[k] : k \in P} # {}
      <4>1. f[i] \in {f[k] : k \in P}
        OBVIOUS
      <4> QED BY <4>1
    <3> QED BY <3>1
  <2> QED BY <1>2, <2>1
<1>7. /\ SupportsIn(claims) # {} =>
           Strongest(more, SupportsIn(more)) = Strongest(claims, SupportsIn(claims))
      /\ RefutationsIn(claims) # {} =>
           Strongest(more, RefutationsIn(more)) = Strongest(claims, RefutationsIn(claims))
  BY <1>2, <1>3, <1>4
<1> QED BY <1>1, <1>5, <1>6, <1>7, SameReading

\* The position in the ledger without claim i of the claim at position j.
Shifted(i, j) == IF j < i THEN j ELSE j - 1

\* The ledger without claim i holds the others, in their order.
LEMMA WithoutOne ==
  ASSUME TypeOK, NEW i \in DOMAIN ledger
  PROVE  /\ Len(ledger) \in Nat /\ DOMAIN ledger = 1 .. Len(ledger)
         /\ DOMAIN Without(i) = 1 .. Len(ledger) - 1
         /\ \A j \in DOMAIN ledger \ {i} :
              /\ Shifted(i, j) \in DOMAIN Without(i)
              /\ Without(i)[Shifted(i, j)] = ledger[j]
         /\ \A k \in DOMAIN Without(i) :
              \E j \in DOMAIN ledger \ {i} : k = Shifted(i, j)
<1> DEFINE front == SubSeq(ledger, 1, i - 1)
           back == SubSeq(ledger, i + 1, Len(ledger))
           n == Len(ledger)
<1>1. n \in Nat /\ DOMAIN ledger = 1 .. n /\ i \in 1 .. n /\ ledger \in Seq(Claim)
  BY DEF TypeOK
<1>2. /\ front \in Seq(Claim) /\ Len(front) = i - 1
      /\ \A j \in 1 .. i - 1 : front[j] = ledger[j]
  BY <1>1, SubSeqProperties
<1>3. /\ back \in Seq(Claim) /\ Len(back) = n - i
      /\ \A j \in 1 .. n - i : back[j] = ledger[i + j]
  BY <1>1, SubSeqProperties
<1> HIDE DEF front, back, n
<1>4. /\ Len(front \o back) = n - 1
      /\ \A k \in 1 .. n - 1 :
           (front \o back)[k] = IF k < i THEN ledger[k] ELSE ledger[k + 1]
  <2>1. /\ Len(front \o back) = Len(front) + Len(back)
        /\ \A k \in 1 .. Len(front) + Len(back) :
             (front \o back)[k] = IF k <= Len(front) THEN front[k] ELSE back[k - Len(front)]
    BY <1>2, <1>3, ConcatProperties
  <2>2. Len(front) + Len(back) = n - 1
    BY <1>1, <1>2, <1>3
  <2>3. ASSUME NEW k \in 1 .. n - 1
        PROVE  (front \o back)[k] = IF k < i THEN ledger[k] ELSE ledger[k + 1]
    <3>1. (front \o back)[k] = IF k <= i - 1 THEN front[k] ELSE back[k - (i - 1)]
      BY <1>2, <2>1, <2>2
    <3>2. CASE k < i
      <4>1. k \in 1 .. i - 1
        BY <1>1, <3>2
      <4> QED BY <1>2, <3>1, <3>2, <4>1
    <3>3. CASE ~(k < i)
      <4>1. k - (i - 1) \in 1 .. n - i /\ i + (k - (i - 1)) = k + 1 /\ ~(k <= i - 1)
        BY <1>1, <3>3
      <4> QED BY <1>3, <3>1, <3>3, <4>1
    <3> QED BY <3>2, <3>3
  <2> QED BY <2>1, <2>2, <2>3
<1>5. DOMAIN (front \o back) = 1 .. n - 1
  BY <1>2, <1>3, <1>4, ConcatProperties
<1>6. Without(i) = front \o back
  BY DEF Without, front, back
<1>7. DOMAIN Without(i) = 1 .. n - 1
  BY <1>5, <1>6
<1>8. ASSUME NEW j \in DOMAIN ledger \ {i}
      PROVE  /\ Shifted(i, j) \in DOMAIN Without(i)
             /\ Without(i)[Shifted(i, j)] = ledger[j]
  BY <1>1, <1>4, <1>6, <1>7 DEF Shifted
<1>9. ASSUME NEW k \in DOMAIN Without(i)
      PROVE  \E j \in DOMAIN ledger \ {i} : k = Shifted(i, j)
  <2>1. CASE k < i
    <3>1. k \in DOMAIN ledger \ {i} /\ k = Shifted(i, k)
      BY <1>1, <1>7, <2>1 DEF Shifted
    <3> QED BY <3>1
  <2>2. CASE ~(k < i)
    <3>1. k + 1 \in DOMAIN ledger \ {i} /\ k = Shifted(i, k + 1)
      BY <1>1, <1>7, <2>2 DEF Shifted
    <3> QED BY <3>1
  <2> QED BY <2>1, <2>2
<1> QED BY <1>1, <1>7, <1>8, <1>9 DEF n

\* A withdrawn claim weighs nothing: it is as if it had never been made, for any
\* ledger, subject, authority and run (lifecycle.go:10-14).
THEOREM Withdrawn == Spec => []WithdrawnWeighsNothing
<1>1. ASSUME TypeOK, NEW i \in DOMAIN ledger, ledger[i].status # Unset, NEW s, NEW a
      PROVE  ConfidenceAboutUnder(ledger, s, a) = ConfidenceAboutUnder(Without(i), s, a)
  <2> DEFINE claims == Counted(ledger, s, a)
             fewer == Counted(Without(i), s, a)
             f == [j \in DOMAIN claims |-> Shifted(i, j)]
  <2>1. /\ Len(ledger) \in Nat /\ DOMAIN ledger = 1 .. Len(ledger)
        /\ DOMAIN Without(i) = 1 .. Len(ledger) - 1
        /\ \A j \in DOMAIN ledger \ {i} :
             /\ Shifted(i, j) \in DOMAIN Without(i)
             /\ Without(i)[Shifted(i, j)] = ledger[j]
        /\ \A k \in DOMAIN Without(i) :
             \E j \in DOMAIN ledger \ {i} : k = Shifted(i, j)
    BY <1>1, WithoutOne
  <2>2. i \notin DOMAIN claims /\ DOMAIN claims \subseteq DOMAIN ledger
    BY <1>1 DEF Counted, Live
  <2>3. \A j \in DOMAIN claims :
          Shifted(i, j) \in DOMAIN fewer /\ fewer[Shifted(i, j)] = claims[j]
    <3> SUFFICES ASSUME NEW j \in DOMAIN claims
                 PROVE  Shifted(i, j) \in DOMAIN fewer /\ fewer[Shifted(i, j)] = claims[j]
      OBVIOUS
    <3>1. j \in DOMAIN ledger \ {i}
      BY <2>2
    <3>2. /\ Shifted(i, j) \in DOMAIN Without(i)
          /\ Without(i)[Shifted(i, j)] = ledger[j]
      BY <2>1, <3>1
    <3>3. /\ claims[j] = ledger[j] /\ ledger[j].subject = s /\ Live(ledger[j])
          /\ Authorized(ledger[j], a)
      BY DEF Counted
    <3> QED BY <3>2, <3>3 DEF Counted
  <2>4. \A k \in DOMAIN fewer : \E j \in DOMAIN claims : f[j] = k
    <3> SUFFICES ASSUME NEW k \in DOMAIN fewer PROVE \E j \in DOMAIN claims : f[j] = k
      OBVIOUS
    <3>1. /\ k \in DOMAIN Without(i) /\ Without(i)[k].subject = s /\ Live(Without(i)[k])
          /\ Authorized(Without(i)[k], a)
      BY DEF Counted
    <3>2. PICK j \in DOMAIN ledger \ {i} : k = Shifted(i, j)
      BY <2>1, <3>1
    <3>3. Without(i)[k] = ledger[j]
      BY <2>1, <3>2
    <3>4. j \in DOMAIN claims
      BY <3>1, <3>3 DEF Counted
    <3> QED BY <3>2, <3>4
  <2>5. DOMAIN fewer \subseteq DOMAIN Without(i)
    BY DEF Counted
  <2> HIDE DEF claims, fewer
  <2>6. f \in [DOMAIN claims -> DOMAIN fewer] /\ \A j \in DOMAIN claims : fewer[f[j]] = claims[j]
    BY <2>3
  <2>7. \A j, k \in DOMAIN claims : j <= k => f[j] <= f[k]
    BY <2>1, <2>2 DEF Shifted
  <2>8. DOMAIN claims \in SUBSET Nat /\ DOMAIN fewer \in SUBSET Nat
    BY <2>1, <2>2, <2>5
  <2> HIDE DEF f
  <2>9. ConfidenceOf(fewer) = ConfidenceOf(claims)
    BY <2>4, <2>6, <2>7, <2>8, Renumbered
  <2> QED BY <2>9 DEF ConfidenceAboutUnder, claims, fewer
<1>2. ASSUME TypeOK, NEW i \in DOMAIN ledger, ledger[i].status # Unset, NEW s, NEW o
      PROVE  Exploitability(o, ledger, s) = Exploitability(o, Without(i), s)
  <2>1. ~Live(ledger[i])
    BY <1>2 DEF Live
  <2>2. HasDeterministicAbout(ledger, s) <=> HasDeterministicAbout(Without(i), s)
    <3> DEFINE Proof(claim) == claim.subject = s /\ Live(claim) /\ Deterministic(claim.kind)
    <3>1. /\ \A j \in DOMAIN ledger \ {i} :
               /\ Shifted(i, j) \in DOMAIN Without(i)
               /\ Without(i)[Shifted(i, j)] = ledger[j]
          /\ \A k \in DOMAIN Without(i) :
               \E j \in DOMAIN ledger \ {i} : k = Shifted(i, j)
      BY <1>2, WithoutOne
    <3>2. ~Proof(ledger[i])
      BY <2>1
    <3> HIDE DEF Proof
    <3>3. (\E j \in DOMAIN ledger : Proof(ledger[j]))
            <=> (\E k \in DOMAIN Without(i) : Proof(Without(i)[k]))
      BY <3>1, <3>2
    <3> QED BY <3>3 DEF HasDeterministicAbout, Proof
  <2> QED BY <2>2 DEF Exploitability
<1>3. TypeOK => WithdrawnWeighsNothing
  BY <1>1, <1>2, Zenon DEF WithdrawnWeighsNothing
<1> QED BY <1>3, TypeCorrect, PTL
=============================================================================
