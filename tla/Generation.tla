----------------------------- MODULE Generation -----------------------------
(***************************************************************************)
(* A generation run as the producer of a feed (src/slopfeed/generate:      *)
(* candidates.go, select.go, scorer.go, generate.go): the names a model    *)
(* may invent, the ones chosen for checking, and the feed of those no      *)
(* registry knows.  What checking does step by step is RegistryChecker.    *)
(*                                                                         *)
(* A name stands for a name in its ecosystem; the spelling of variants and *)
(* compositions is abstracted into the lists below.  Priors and risks are  *)
(* thousandths.                                                            *)
(***************************************************************************)
EXTENDS SlopFeed, Functions

CONSTANTS
  SeedLists,    \* the seeds of each ecosystem, the most popular first
  Variants,     \* for each seed its edit-distance-1 variants as they are listed
  Compositions, \* for each seed the names composed from it
  Obvious,      \* obviousNames
  Order,        \* the order of ecosystems and names, as a number for each name
  Quota,        \* names checked of each pattern, at most
  Limit         \* Options.Limit, with zero replaced by DefaultLimit

Patterns == <<"obvious", "typo", "composition">>

Seeds == UNION {Range(SeedLists[k]) : k \in DOMAIN SeedLists}

ASSUME GenerationAssumption ==
  /\ \A k \in DOMAIN SeedLists : SeedLists[k] \in Seq(Names)
  /\ \A stem \in Seeds :
       /\ Variants[stem] \in Seq([name : Names, kind : {"sep", "plural", "transpose",
                                                        "omit", "double", "first"}])
       /\ Compositions[stem] \in Seq([name : Names, sub : {"suffix", "prefix"}])
  /\ Obvious \in Seq(Names)
  /\ Order \in [Names -> Nat]
  /\ \A n, m \in Names : Order[n] = Order[m] => n = m
  /\ \A k \in DOMAIN Patterns : Quota[Patterns[k]] \in Nat
  /\ Limit \in Int

-----------------------------------------------------------------------------
(* Candidates and their priors.                                            *)

\* round3, of a positive fraction.
Rounded(n, d) == (2 * n + d) \div (2 * d)

\* popularityWeight, in parts of 2 * Span: one for the first seed, a half for the last.
Span(seeds) == IF Len(seeds) > 1 THEN Len(seeds) - 1 ELSE 1
Weight(stem, seeds) ==
  2 * Span(seeds) + 1 - CHOOSE i \in DOMAIN seeds :
                          seeds[i] = stem /\ \A j \in 1 .. i - 1 : seeds[j] # stem

\* typoPlausibility, in hundredths.
Plausibility ==
  [sep |-> 95, plural |-> 90, transpose |-> 60, omit |-> 45, double |-> 40, first |-> 25]

\* typoNeighbours: the first of several variants of one name is kept, the stem
\* itself is not.
TypoNeighbours(stem) ==
  LET keep(kept, v) ==
        IF v.name = stem \/ \E i \in DOMAIN kept : kept[i].name = v.name
        THEN kept ELSE Append(kept, v)
  IN FoldLeft(keep, <<>>, Variants[stem])

Candidate(name, pattern, neighborOf, prior) ==
  [name |-> name, pattern |-> pattern, neighborOf |-> neighborOf, prior |-> prior]

TypoPrior(kind, weight, span) == 300 + Rounded(450 * Plausibility[kind] * weight, 200 * span)

CompositionPrior(sub, weight, span) ==
  (IF sub = "suffix" THEN 420 ELSE 300) + Rounded(300 * weight, 2 * span)

\* What one stem gives rise to, in order, when typos are the variants of it.
Derived(stem, seeds, typos) ==
  LET weight == Weight(stem, seeds)
      span == Span(seeds)
  IN [i \in DOMAIN typos |->
        Candidate(typos[i].name, "typo", stem, TypoPrior(typos[i].kind, weight, span))]
     \o [i \in DOMAIN Compositions[stem] |->
          Candidate(Compositions[stem][i].name, "composition", stem,
                    CompositionPrior(Compositions[stem][i].sub, weight, span))]

\* The derivations from the seeds and their variants, and the obvious names, in
\* the order they are added.
DerivationsFrom(variants) ==
  FlattenSeq([k \in DOMAIN SeedLists |->
    FlattenSeq([i \in DOMAIN SeedLists[k] |->
      LET stem == SeedLists[k][i] IN Derived(stem, SeedLists[k], variants[stem])])])
  \o [i \in DOMAIN Obvious |-> Candidate(Obvious[i], "obvious", None, 780)]

Derivations == DerivationsFrom([stem \in Seeds |-> TypoNeighbours(stem)])

\* Slip: the last derivation of a name is kept.
AddLatest(candidates, c) ==
  IF c.name \in Seeds THEN candidates
  ELSE [n \in DOMAIN candidates \cup {c.name} |-> IF n = c.name THEN c ELSE candidates[n]]

\* add: a seed is dropped, and a derivation gives way to a likelier one only.
Add(candidates, c) ==
  IF \/ c.name \in Seeds
     \/ c.name \in DOMAIN candidates /\ c.prior <= candidates[c.name].prior
  THEN candidates
  ELSE [n \in DOMAIN candidates \cup {c.name} |-> IF n = c.name THEN c ELSE candidates[n]]

\* The order of Candidates: the likelier first, then by ecosystem and name.
Before(c, d) ==
  \/ c.prior > d.prior
  \/ c.prior = d.prior /\ Order[c.name] < Order[d.name]

Candidates ==
  SetToSortSeq(Range(FoldLeft(Add, <<>>, Derivations)), Before)

-----------------------------------------------------------------------------
(* Selection and scoring.                                                  *)

OfPattern(pattern) == SelectSeq(Candidates, LAMBDA c : c.pattern = pattern)

\* A limit that leaves nothing out selects the candidates as they are.
Whole == Limit <= 0 \/ Limit >= Len(Candidates)

\* Select, as a set: pattern by pattern, the likeliest up to the quota and to
\* what is left of the limit.
Selected ==
  LET take(chosen, pattern) ==
        LET room == Min({Quota[pattern], Limit - Cardinality(chosen), Len(OfPattern(pattern))})
        IN chosen \cup Range(SubSeq(OfPattern(pattern), 1, room))
  IN IF Whole THEN Range(Candidates) ELSE FoldLeft(take, {}, Patterns)

\* A run that stops early has checked a part of the selection that comes first
\* in it; the order of a selection between equal priors is the sort's to choose.
Foremost(checked) ==
  \A c \in checked, d \in Selected \ checked :
    c.prior > d.prior \/ (c.prior = d.prior /\ (Whole => Before(c, d)))

\* neighbourBoost.
Risk(c) ==
  Min({1000, c.prior + (IF c.pattern = "typo" THEN 80
                        ELSE IF c.pattern = "obvious" THEN 40 ELSE 0)})

\* Tier: below the lowest one nothing is asserted.
Asserted(risk) == risk >= 500

\* Score and the order of the feed: by descending risk, then ecosystem and name.
Written(checked, unregistered) ==
  SetToSortSeq({[name |-> c.name, risk |-> Risk(c)] :
                  c \in {d \in checked : d.name \in unregistered /\ Asserted(Risk(d))}},
               LAMBDA d, e : \/ d.risk > e.risk
                             \/ d.risk = e.risk /\ Order[d.name] < Order[e.name])

\* Feed: a run that completes or exhausts its budget makes a feed with its
\* digest set.  A name is not written when it is registered or inconclusive.
Generate ==
  /\ draft = NewFeed
  /\ edits < MaxEdits
  /\ edits' = edits + 1
  /\ \E checked \in SUBSET Selected :
       /\ Foremost(checked)
       /\ \E unregistered \in SUBSET {c.name : c \in checked} :
            LET entries == Written(checked, unregistered)
            IN /\ draft' = [NewFeed EXCEPT !.entries = entries,
                                           !.digest = Canonical(entries)]
               /\ digested' = digested \union {Canonical(entries)}
  /\ UNCHANGED <<file, loaded, damages, signed>>

PipelineNext == Next \/ Generate

Pipeline == Init /\ [][PipelineNext]_vars

-----------------------------------------------------------------------------
(* Properties.                                                             *)

\* Every way in which a name arises, a variant spelled like an earlier one
\* included; Derivations leaves those out before it knows their priors.
Arising == DerivationsFrom(Variants)

\* Derivation i is a variant of a seed that has an earlier variant of this name.
Shadowed(i) ==
  /\ Arising[i].pattern = "typo"
  /\ \E j \in 1 .. i - 1 :
       /\ Arising[j].pattern = "typo"
       /\ Arising[j].name = Arising[i].name
       /\ Arising[j].neighborOf = Arising[i].neighborOf

\* The derivation a name should be known by: the first with the highest prior of
\* those that are not shadowed.
Explains(i) ==
  /\ ~ Shadowed(i)
  /\ \A j \in DOMAIN Arising :
       Arising[j].name = Arising[i].name /\ ~ Shadowed(j) =>
         \/ Arising[j].prior < Arising[i].prior
         \/ Arising[j].prior = Arising[i].prior /\ i <= j

\* A generated feed names no seed and no name twice, and the risk of a name is
\* the one its likeliest derivation justifies, in whatever order seeds,
\* compositions and obvious names give rise to it.  Of the variants of one seed
\* that spell one name only the first counts, likely or not (candidates.go:
\* 113-127), so this is less than "the highest-prior explanation wins"
\* (candidates.go:151-152): a seed that ends in s has lost it as an omission
\* before its plural is taken off.  A name that is not even checked is outranked:
\* by as many of its own pattern as the quota allows, or the limit is used up
\* (select.go:9-12).
GeneratedFeedsAreJustified ==
  [][Generate =>
       LET entries == draft'.entries
       IN /\ \A i \in DOMAIN entries :
               /\ entries[i].name \notin Seeds
               /\ \A j \in DOMAIN entries : entries[i].name = entries[j].name => i = j
               /\ \E d \in DOMAIN Arising :
                    /\ Arising[d].name = entries[i].name
                    /\ Explains(d)
                    /\ entries[i].risk = Risk(Arising[d])
          /\ \A d \in DOMAIN Arising :
               Explains(d) /\ Arising[d].name \notin Seeds =>
                 LET rivals == {c \in Selected : c.pattern = Arising[d].pattern}
                 IN \/ Arising[d] \in Selected
                    \/ /\ \A c \in rivals : c.prior >= Arising[d].prior
                       /\ \/ Cardinality(rivals) = Quota[Arising[d].pattern]
                          \/ Cardinality(Selected) = Limit]_vars
=============================================================================
