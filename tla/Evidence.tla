------------------------------ MODULE Evidence ------------------------------
(***************************************************************************)
(* The evidence model (src/evidence): a ledger of claims that grows and    *)
(* whose claims change status, and what the package concludes from it, the *)
(* confidence about a subject and the exploitability of a run; and the     *)
(* reports of attack runs that reach a ledger from elsewhere.              *)
(*                                                                         *)
(* The package is pure; its consumers add claims and set their status.     *)
(* Statements, timestamps and the attributes of every claim but a reported *)
(* run's decide nothing and are left out.                                  *)
(***************************************************************************)
EXTENDS Integers, Sequences, FiniteSets

CONSTANTS
  Names,       \* the strings used as kinds and to name sources and reporters
  Claims,      \* the claims producers may make
  Reports,     \* the run reports reporters may send
  Reporters,   \* the reporters an intelligence service tells apart
  NoRun,       \* the run of a claim that reports none
  Subjects,    \* the propositions asked about
  Authorities, \* the authorities the ledger is read under
  Lifecycle,   \* the statuses consumers set
  MaxClaims    \* bound: claims in the ledger

Unattributed == ""   \* Provenance.SourceID of a claim with no known reporter
NoSubject == ""      \* the zero Subject
Unset == ""          \* the zero Polarity and the zero Status

\* strengths: the weight of each kind.
Weight ==
  [heuristic |-> 10, semantic |-> 20, static |-> 40, independent_observation |-> 45,
   research_hypothesis |-> 50, source_confirmed |-> 70, controlled_reproduction |-> 85,
   dynamic_exploit |-> 95, maintainer_confirmed |-> 95, public_advisory |-> 100]

Kinds == DOMAIN Weight

\* Kind.Strength: an unrecognised kind weighs nothing.
Strength(kind) == IF kind \in Kinds THEN Weight[kind] ELSE 0

Deterministic(kind) ==
  kind \in {"static", "source_confirmed", "controlled_reproduction",
            "dynamic_exploit", "maintainer_confirmed", "public_advisory"}

Polarities == {Unset, "supports", "refutes", "unknown"}
Statuses == {Unset, "superseded", "retracted", "invalidated", "replaced"}

\* An authority: the pairs of a source and a kind it lists, if it enforces any.
Everything == [enforcing |-> FALSE, permitted |-> {}]

\* Authority.Permits: an enforcing authority permits only what it lists.
Permits(a, source, kind) == a.enforcing => <<source, kind>> \in a.permitted

\* Slip: a source the table does not know is not restricted.
OpenToStrangers(claim, a) ==
  (\E entry \in a.permitted : entry[1] = claim.source)
    => Permits(a, claim.source, claim.kind)

Authorized(claim, a) == Permits(a, claim.source, claim.kind)

\* Slip: only an outright retraction ends a claim.
LiveUnlessRetracted(claim) == claim.status # "retracted" /\ claim.kind \in Kinds

Live(claim) == claim.status = Unset /\ claim.kind \in Kinds

\* Polarity.Effective: the zero value supports.
Supports(claim) == claim.polarity \in {Unset, "supports"}

Refutes(claim) == claim.polarity = "refutes"

-----------------------------------------------------------------------------
(* Aggregation (aggregate.go).                                             *)

\* counted: the claims about s that may contribute to a verdict, at their
\* positions in the ledger.
Counted(ledger, s, a) ==
  [i \in {j \in DOMAIN ledger : /\ ledger[j].subject = s
                               /\ Live(ledger[j])
                               /\ Authorized(ledger[j], a)} |-> ledger[i]]

SupportsIn(claims) == {i \in DOMAIN claims : Supports(claims[i])}
RefutationsIn(claims) == {i \in DOMAIN claims : Refutes(claims[i])}

\* strongestOf: the kind of the heaviest claim among those at the positions,
\* the earlier one when two weigh the same.
Strongest(claims, positions) ==
  LET weight(i) == Strength(claims[i].kind)
  IN claims[CHOOSE i \in positions :
       \A j \in positions : \/ weight(i) > weight(j)
                            \/ weight(i) = weight(j) /\ i <= j].kind

\* Slip: every observation counts, a reporter's second one included.
SupportingObservations(claims) ==
  Cardinality({i \in SupportsIn(claims) : claims[i].id # Unattributed})

\* The distinct attributed reporters among the supporting claims.
IndependentSupport(claims) ==
  Cardinality({claims[i].id : i \in SupportsIn(claims)} \ {Unattributed})

\* Slip: a judgement among the supports caps the level.
AnySemanticSupport(claims) ==
  \E i \in SupportsIn(claims) : claims[i].kind = "semantic"

OnlySemanticSupport(claims) ==
  /\ SupportsIn(claims) # {}
  /\ \A i \in SupportsIn(claims) : claims[i].kind = "semantic"

Levels == <<"LOW", "MEDIUM", "HIGH", "CONFIRMED">>
Rank(level) == CHOOSE r \in 1 .. 4 : Levels[r] = level
AtLeast(level, other) == Rank(level) >= Rank(other)

LevelForStrength(strength) ==
  IF strength >= 70 THEN "HIGH" ELSE IF strength >= 40 THEN "MEDIUM" ELSE "LOW"

\* One band up, capped at HIGH.
Promote(level) == IF level = "LOW" THEN "MEDIUM" ELSE "HIGH"

\* Slip: a refutation as strong as the support does not defeat it.
DefeatsIfHeavier(refutation, support) ==
  /\ Strength(refutation) > Strength(support)
  /\ ~(Deterministic(support) /\ ~Deterministic(refutation))

\* The refutation defeats the support: it is at least as strong and does not
\* set a judgement against a deterministic result.
Defeats(refutation, support) ==
  /\ Strength(refutation) >= Strength(support)
  /\ ~(Deterministic(support) /\ ~Deterministic(refutation))

\* Slip: the strength of the deterministic support is not asked about.
ConfirmsAtAnyStrength(support, refutations, refutation) ==
  /\ Deterministic(support)
  /\ \/ refutations = {}
     \/ ~Deterministic(refutation)
     \/ Strength(refutation) < Strength(support)

\* The deterministic gate of CONFIRMED.
Confirms(support, refutations, refutation) ==
  /\ Deterministic(support)
  /\ Strength(support) >= Strength("controlled_reproduction")
  /\ \/ refutations = {}
     \/ ~Deterministic(refutation)
     \/ Strength(refutation) < Strength(support)

\* The level of claims whose strongest support stands, before CONFIRMED.
SupportedLevel(claims, support) ==
  LET level == LevelForStrength(Strength(support))
      promoted == IF IndependentSupport(claims) >= 2 /\ ~AtLeast(level, "HIGH")
                  THEN Promote(level) ELSE level
  IN IF OnlySemanticSupport(claims) /\ AtLeast(promoted, "HIGH")
     THEN "MEDIUM" ELSE promoted

ConfidenceOf(claims) ==
  LET supports == SupportsIn(claims)
      refutations == RefutationsIn(claims)
      support == Strongest(claims, supports)
      refutation == Strongest(claims, refutations)
  IN IF supports = {} \/ (refutations # {} /\ Defeats(refutation, support)) THEN "LOW"
     ELSE IF Confirms(support, refutations, refutation) THEN "CONFIRMED"
     ELSE SupportedLevel(claims, support)

ConfidenceAboutUnder(ledger, s, a) == ConfidenceOf(Counted(ledger, s, a))
ConfidenceAbout(ledger, s) == ConfidenceAboutUnder(ledger, s, Everything)

\* Ledger.Subjects, whatever the status of the claims.
SubjectsOf(ledger) == {ledger[i].subject : i \in DOMAIN ledger}

\* The confidence of a whole ledger: a mixed one has none.
ConfidenceUnder(ledger, a) ==
  IF \E s \in SubjectsOf(ledger) : SubjectsOf(ledger) = {s}
  THEN ConfidenceAboutUnder(ledger, CHOOSE s \in SubjectsOf(ledger) : TRUE, a)
  ELSE "LOW"

\* The best support and the best refutation weigh the same.
Conflict(ledger, s) ==
  LET claims == Counted(ledger, s, Everything)
  IN /\ SupportsIn(claims) # {} /\ RefutationsIn(claims) # {}
     /\ Strength(Strongest(claims, SupportsIn(claims)))
          = Strength(Strongest(claims, RefutationsIn(claims)))

-----------------------------------------------------------------------------
(* The exploitability of an attack run (verdict.go).                       *)

RunOutcome ==
  [HypothesisConstructed : BOOLEAN, Executed : BOOLEAN, Violated : BOOLEAN,
   Reproduced : BOOLEAN, DefenseObserved : BOOLEAN, BudgetExhausted : BOOLEAN,
   ControlSound : BOOLEAN, TargetErrors : BOOLEAN]   \* TargetErrors > 0

\* The outcomes whose verdict the ledger decides.
Decisive == {o \in RunOutcome : o.Executed /\ o.Violated /\ o.HypothesisConstructed}

\* Slip: HasDeterministic, which does not ask what the claim is about.
HasDeterministic(ledger, s) ==
  \E i \in DOMAIN ledger : Live(ledger[i]) /\ Deterministic(ledger[i].kind)

HasDeterministicAbout(ledger, s) ==
  \E i \in DOMAIN ledger :
    ledger[i].subject = s /\ Live(ledger[i]) /\ Deterministic(ledger[i].kind)

Exploitability(o, ledger, about) ==
  IF ~o.Executed THEN IF o.HypothesisConstructed THEN "PLAUSIBLE" ELSE "POTENTIAL"
  ELSE IF o.Violated
  THEN IF o.ControlSound /\ o.Reproduced /\ HasDeterministicAbout(ledger, about)
       THEN "CONFIRMED" ELSE "INCONCLUSIVE"
  ELSE IF ~o.BudgetExhausted /\ ~o.TargetErrors /\ o.ControlSound /\ o.DefenseObserved
       THEN "PREVENTED" ELSE "INCONCLUSIVE"

-----------------------------------------------------------------------------
(* Reported attack runs (reportedrun.go).  A report is the run as its      *)
(* reporter describes it; wellFormed stands for the fields that are only   *)
(* matched against a format: schema, fingerprint, digest, tool, version,   *)
(* time.                                                                   *)

RunReport ==
  [exploitability : {"POTENTIAL", "PLAUSIBLE", "PREVENTED", "INCONCLUSIVE", "CONFIRMED"},
   kind : Names, deterministic : BOOLEAN, reproduced : BOOLEAN, controlSound : BOOLEAN,
   samples : Int, hits : Int, profile : STRING, wellFormed : BOOLEAN]

MaxRunSamples == 1000

\* Not one of the recognised kinds: what keeps a reported run from weighing.
ReportedRunKind == "reported_attack_run"
Collector == "reporter"   \* the source a service records reports under

\* A claim, with what the properties tell apart of its attributes.
Claim ==
  [kind : Names, polarity : Polarities, source : Names, id : Names,
   subject : Subjects, status : Statuses, run : Reports \cup {NoRun}]

ASSUME EvidenceAssumption ==
  /\ Reports \subseteq RunReport /\ NoRun \notin RunReport
  /\ \A claim \in Claims : claim \in Claim /\ claim.run = NoRun
  /\ Reporters \cup {Unattributed, Collector, ReportedRunKind} \subseteq Names
  /\ NoSubject \in Subjects
  /\ Unset \in Lifecycle /\ Lifecycle \subseteq Statuses
  /\ MaxClaims \in Nat

ReportableProfiles == {"sandbox", "staging", "authorized-live"}

\* What a reporter may claim about its own run; the rest is another party's to give.
ReporterMayAssert(kind) ==
  kind \in {"heuristic", "semantic", "static", "controlled_reproduction", "dynamic_exploit"}

\* Slip: the reporter's word that the run was deterministic is enough.
DeterministicAsSaid(kind, deterministic) ==
  deterministic /\ Strength(kind) >= Strength("semantic")

QualifiesAsReproduction(kind, deterministic) ==
  /\ deterministic
  /\ Deterministic(kind)
  /\ Strength(kind) >= Strength("controlled_reproduction")

\* ConfirmedBy: the one rule by which a claimed run may be read as CONFIRMED.
ConfirmedBy(r) ==
  QualifiesAsReproduction(r.kind, r.deterministic) /\ r.reproduced /\ r.controlSound

\* RunReport.Validate.
Valid(r) ==
  /\ r.wellFormed
  /\ r.kind \in Kinds
  /\ ReporterMayAssert(r.kind)
  /\ r.profile \in ReportableProfiles
  /\ r.samples \in 0 .. MaxRunSamples
  /\ r.hits \in 0 .. r.samples
  /\ r.exploitability = "CONFIRMED" => ConfirmedBy(r)

Establishes(r) == r.exploitability = "CONFIRMED" /\ r.deterministic /\ r.reproduced

\* RunReport.Claim: it is about no subject, and the run is in its attributes.
ClaimOf(r, source, id) ==
  [kind |-> ReportedRunKind, polarity |-> Unset, source |-> source, id |-> id,
   subject |-> NoSubject, status |-> Unset, run |-> r]

-----------------------------------------------------------------------------
(* The ledger over time.                                                   *)

VARIABLE ledger  \* Ledger.Claims

vars == ledger

Init == ledger = <<>>

Add(claim) ==
  /\ Len(ledger) < MaxClaims
  /\ ledger' = Append(ledger, claim)

\* An intelligence service takes a valid report from one of its reporters.
AcceptReport(r, id) == Valid(r) /\ Add(ClaimOf(r, Collector, id))

\* A consumer changes a claim's status; the claim stays in the ledger.
SetStatus(i, status) ==
  /\ ledger[i].status # status
  /\ ledger' = [ledger EXCEPT ![i].status = status]

Next ==
  \/ \E claim \in Claims : Add(claim)
  \/ \E r \in Reports, id \in Reporters : AcceptReport(r, id)
  \/ \E i \in DOMAIN ledger : \E status \in Lifecycle : SetStatus(i, status)

Spec == Init /\ [][Next]_vars

-----------------------------------------------------------------------------
(* Properties.                                                             *)

\* The ledger holds claims.
TypeOK == ledger \in Seq(Claim)

\* CONFIRMED stands on a deterministic claim at reproduction strength about the
\* very subject, live, permitted and supporting, and no live, permitted,
\* deterministic refutation of it is as strong (aggregate.go:149-151).
ConfirmedIsEarned ==
  \A s \in Subjects, a \in Authorities :
    ConfidenceAboutUnder(ledger, s, a) = "CONFIRMED" =>
      LET claims == Counted(ledger, s, a)
      IN \E i \in SupportsIn(claims) :
           /\ Deterministic(claims[i].kind)
           /\ Strength(claims[i].kind) >= 85
           /\ \A j \in RefutationsIn(claims) :
                Deterministic(claims[j].kind) =>
                  Strength(claims[j].kind) < Strength(claims[i].kind)

\* Where the support and the refutation of s weigh the same, nothing above LOW
\* stands: a disagreement reported as undecided never shows as a confidence
\* (aggregate.go:215-230).
ConflictsDecideNothing ==
  \A s \in Subjects : Conflict(ledger, s) => ConfidenceAbout(ledger, s) = "LOW"

\* The claim the reporter of run r would make about its own run, and the
\* outcome of that run.
OwnClaim(r) ==
  [kind |-> r.kind, polarity |-> Unset, source |-> Collector, id |-> Unattributed,
   subject |-> NoSubject, status |-> Unset, run |-> NoRun]

OutcomeOf(r) ==
  [HypothesisConstructed |-> TRUE, Executed |-> r.profile # "safe",
   Violated |-> r.hits > 0 \/ r.reproduced, Reproduced |-> r.reproduced,
   DefenseObserved |-> FALSE, BudgetExhausted |-> FALSE,
   ControlSound |-> r.controlSound, TargetErrors |-> FALSE]

\* CONFIRMED is never a matter of what a reporter calls it: a run that was
\* accepted as CONFIRMED would, had the service made the run itself, have had
\* the confidence and the exploitability CONFIRMED (reportedrun.go:158-165,
\* 188-195 against aggregate.go:183-188 and verdict.go:84-97).
AcceptedRunsWouldConfirm ==
  \A i \in DOMAIN ledger :
    LET r == ledger[i].run
    IN r # NoRun /\ r.exploitability = "CONFIRMED" =>
         /\ Establishes(r)
         /\ ConfidenceAbout(<<OwnClaim(r)>>, NoSubject) = "CONFIRMED"
         /\ Exploitability(OutcomeOf(r), <<OwnClaim(r)>>, NoSubject) = "CONFIRMED"

Without(i) == SubSeq(ledger, 1, i - 1) \o SubSeq(ledger, i + 1, Len(ledger))

\* A withdrawn claim stays in the ledger and weighs nothing: every confidence
\* and every exploitability is what it would be had it never been made
\* (lifecycle.go:10-14).
WithdrawnWeighsNothing ==
  \A i \in DOMAIN ledger : ledger[i].status # Unset =>
    \A s \in Subjects :
      /\ \A a \in Authorities :
           ConfidenceAboutUnder(ledger, s, a) = ConfidenceAboutUnder(Without(i), s, a)
      /\ \A o \in Decisive : Exploitability(o, ledger, s) = Exploitability(o, Without(i), s)

\* The claim a step adds, if it adds one.
Added == IF Len(ledger') > Len(ledger) THEN {ledger'[Len(ledger')]} ELSE {}

Unmoved(s, a) ==
  ConfidenceAboutUnder(ledger', s, a) = ConfidenceAboutUnder(ledger, s, a)

ExploitabilityUnmoved(s) ==
  \A o \in Decisive : Exploitability(o, ledger', s) = Exploitability(o, ledger, s)

\* A hundred observations of one reporter are one source: saying again what the
\* same reporter already said, and was permitted to say, in the same kind or a
\* weaker one, changes no confidence (evidence.go, IndependentSources;
\* aggregate.go:98-116).
EchoesDoNotPromote ==
  [][\A claim \in Added : \A s \in Subjects, a \in Authorities :
       (\E i \in DOMAIN ledger :
          /\ Live(ledger[i]) /\ Authorized(ledger[i], a)
          /\ ledger[i] = [claim EXCEPT !.kind = ledger[i].kind]
          /\ Strength(ledger[i].kind) >= Strength(claim.kind))
       => Unmoved(s, a)]_vars

\* A claim of an unrecognised kind, a reported run's among them, one its producer
\* may not make, and one that decides neither way change no confidence; the first
\* changes no exploitability either (authority.go:19-22, polarity.go:38-42,
\* reportedrun.go:74-83).
WeightlessClaimsDecideNothing ==
  [][\A claim \in Added : \A s \in Subjects :
       /\ \A a \in Authorities :
            \/ claim.kind \notin Kinds
            \/ claim.polarity = "unknown"
            \/ a.enforcing /\ <<claim.source, claim.kind>> \notin a.permitted
            => Unmoved(s, a)
       /\ claim.kind \notin Kinds => ExploitabilityUnmoved(s)]_vars

\* Evidence about one proposition never decides another: neither the confidence
\* about s nor the exploitability of a run about s moves with a claim about
\* something else, and such a claim never raises the confidence of the ledger
\* as a whole (verdict.go:40-45, subject.go:10-22, aggregate.go:201-206).
SubjectsKeepApart ==
  [][\A claim \in Added : \A s \in Subjects \ {claim.subject} :
       /\ ExploitabilityUnmoved(s)
       /\ \A a \in Authorities :
            /\ Unmoved(s, a)
            /\ s \in SubjectsOf(ledger) =>
                 AtLeast(ConfidenceUnder(ledger, a), ConfidenceUnder(ledger', a))]_vars

\* While nothing refutes s, one more reason to believe it never lowers the
\* confidence (aggregate.go:152-154).
SupportNeverLowers ==
  [][\A claim \in Added : \A a \in Authorities :
       LET s == claim.subject
       IN Supports(claim) /\ RefutationsIn(Counted(ledger, s, a)) = {}
          => AtLeast(ConfidenceAboutUnder(ledger', s, a),
                     ConfidenceAboutUnder(ledger, s, a))]_vars

-----------------------------------------------------------------------------
(* What the documentation says and the code does not do.                   *)

\* "A refutation at least as strong as the best support defeats it, and the
\* result is LOW", unless it sets a judgement against a deterministic result
\* (aggregate.go:144-148): whichever refutation of the ledger it is.
RefutationsDefeat ==
  \A s \in Subjects :
    LET claims == Counted(ledger, s, Everything)
    IN \A i \in RefutationsIn(claims) :
         (\A j \in SupportsIn(claims) : Defeats(claims[i].kind, claims[j].kind))
         => ConfidenceAbout(ledger, s) = "LOW"
=============================================================================
