----------------------------- MODULE MCEvidence -----------------------------
(* Instances of Evidence: the shared authority's producers, two observers,  *)
(* the two propositions a reproduction must keep apart, and a reporter      *)
(* whose reports differ from an acceptable one in a field or two.           *)
EXTENDS Evidence

\* DefaultAuthority (authority.go:57-78).
Table ==
  [nox_scan |-> {"heuristic", "static"},
   nox_attack |-> {"heuristic", "static", "controlled_reproduction", "dynamic_exploit"},
   nox_intel |-> {"independent_observation", "research_hypothesis"},
   nox_assist |-> {"semantic"},
   osv |-> {"public_advisory"},
   researcher |-> {"research_hypothesis", "source_confirmed", "controlled_reproduction"},
   maintainer |-> {"maintainer_confirmed"}]

DefaultAuthority ==
  [enforcing |-> TRUE,
   permitted |-> UNION {{<<source, kind>> : kind \in Table[source]} : source \in DOMAIN Table}]

BothAuthorities == {Everything, DefaultAuthority}

Says(kind, polarity, source, id, subject) ==
  [kind |-> kind, polarity |-> polarity, source |-> source, id |-> id,
   subject |-> subject, status |-> "", run |-> NoRun]

TheNames ==
  Kinds \cup DOMAIN Table \cup {"a", "b", "c", "plugin", "a_kind_of_tomorrow",
                               Unattributed, Collector, ReportedRunKind}

\* Claims for and against an exploit, from producers inside and outside their
\* authority, and cheaper evidence about the trigger condition.
TheClaims ==
  {Says("static", "", "nox_scan", "a", "exploit"),
   Says("static", "refutes", "nox_scan", "b", "exploit"),
   Says("semantic", "supports", "nox_assist", "c", "exploit"),
   Says("independent_observation", "supports", "nox_intel", "a", "exploit"),
   Says("independent_observation", "supports", "nox_intel", "b", "exploit"),
   Says("independent_observation", "supports", "nox_intel", "", "exploit"),
   Says("research_hypothesis", "refutes", "researcher", "b", "exploit"),
   Says("source_confirmed", "", "researcher", "b", "exploit"),
   Says("controlled_reproduction", "supports", "nox_attack", "a", "exploit"),
   Says("controlled_reproduction", "refutes", "researcher", "b", "exploit"),
   Says("dynamic_exploit", "unknown", "nox_attack", "a", "exploit"),
   Says("dynamic_exploit", "supports", "plugin", "c", "exploit"),
   Says("a_kind_of_tomorrow", "supports", "nox_attack", "c", "exploit"),
   Says("public_advisory", "supports", "osv", "", "exploit"),
   Says("controlled_reproduction", "supports", "nox_attack", "a", "trigger_condition"),
   Says("static", "refutes", "nox_scan", "a", "trigger_condition")}

ConfirmedRun ==
  [exploitability |-> "CONFIRMED", kind |-> "dynamic_exploit", deterministic |-> TRUE,
   reproduced |-> TRUE, controlSound |-> TRUE, samples |-> 3, hits |-> 3,
   profile |-> "sandbox", wellFormed |-> TRUE]

TheReports ==
  {ConfirmedRun,
   [ConfirmedRun EXCEPT !.kind = "controlled_reproduction", !.samples = 1000, !.hits = 1],
   [ConfirmedRun EXCEPT !.kind = "semantic", !.deterministic = FALSE,
                        !.exploitability = "INCONCLUSIVE", !.hits = 0],
   [ConfirmedRun EXCEPT !.kind = "static"],
   [ConfirmedRun EXCEPT !.kind = "semantic"],
   [ConfirmedRun EXCEPT !.kind = "public_advisory"],
   [ConfirmedRun EXCEPT !.kind = ReportedRunKind],
   [ConfirmedRun EXCEPT !.deterministic = FALSE],
   [ConfirmedRun EXCEPT !.reproduced = FALSE],
   [ConfirmedRun EXCEPT !.controlSound = FALSE],
   [ConfirmedRun EXCEPT !.samples = 1001],
   [ConfirmedRun EXCEPT !.hits = 4],
   [ConfirmedRun EXCEPT !.profile = "safe"],
   [ConfirmedRun EXCEPT !.wellFormed = FALSE]}
=============================================================================
