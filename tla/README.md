# nox-core in TLA+

Modules that model the state of [nox-core](../src) and what happens to it,
TLC runs that check them on small instances, and theorems that TLAPS checks for
every instance. Paths like `verify.go:174` are relative to the package named with
them, under `src/`.

nox-core is a Go library of four packages. `vulnsource` (with `vulnsource/osv`)
asks vulnerability services about a scan's dependencies; `degrade` collects what
a scan could not do; `slopfeed` (with `slopfeed/generate`) makes, signs and reads
a feed of package names that language models invent; `evidence` weighs claims
about findings. Nothing is persisted but the advisory cache, and the feed files
that pass from a producer to consumers.

## 1. Inventory

| Component | State it keeps | Operations | Talks to | Hard behaviour |
|---|---|---|---|---|
| **Verifying source** `vulnsource/verify.go`, `detail.go` | two collectors, the last `Verification` | `Lookup`, `Verification`, the three reporter interfaces | two `Source`s, the scan's collector | two goroutines per lookup; every combination of failures; state that outlives a lookup and is shared by callers |
| **Source contract** `vulnsource/vulnsource.go` | – | `Source`, `PartialReporter`, `MirrorSyncReporter`, `DetailFailureReporter` | every source | silence means "no vulnerabilities" |
| **OSV source** `osv/osv.go`, `retry.go` | indexes of the most recent lookup | `Lookup`, `HydrateDetails`, `With…` copies | HTTP service, cache, collector | filter and batches by position; semaphores; retries against a deadline; cancellation |
| **Advisory cache** `osv/cache.go` | memory map, directory | `Get`, `Put`, `Prune`, `Clear`, `Stats` | filesystem shared by processes | crash between write and rename; the lock given up inside `Get` |
| **Degradations** `degrade/degrade.go` | a mutex and a list that only grows | `Add`, `AddAdvisory`; `Items` (a sorted copy), `Len`; a nil collector discards | everything | concurrent adds |
| **Registry checker and run** `generate/checker.go`, `generate.go` | mutex, request counter | `Check`, `Feed` | PyPI and npm | shared budget and rate limit; eventual consistency; context ends |
| **Candidates, selection, scores** `generate/candidates.go`, `seeds.go`, `select.go`, `scorer.go` | – | `Candidates`, `Select`, `Score` | `Feed` | one name from several derivations; quotas against a limit |
| **Feed and signature** `slopfeed/feed.go`, `sign.go` | the `Feed` value, its index | `SetDigest`, `Sign`, `Encode`, `Parse`, `Verify`, `Lookup` | files | edits after digest; damaged files; name spellings |
| **Evidence ledger** `evidence/evidence.go`, `aggregate.go`, `authority.go`, `lifecycle.go`, `polarity.go`, `verdict.go` | the claims | `Add`, `Confidence…`, `Exploitability` | producers, consumers | many claims for and against, withdrawn later |
| **Subjects, relations, reported runs** `evidence/subject.go`, `relation.go`, `reportedrun.go` | a graph | `Validate`, `Claim`, `ConfirmedBy` | consumers, reporters outside | a reporter's word must not become evidence |
| **Version matching** `vulnsource/match.go`, `distro.go`, `pep440.go`, `maven.go` | – | `Affects`, `Decide`, `FixedVersion`, `CompareVersions` | scan, mirrors | boundaries, five version orders, what cannot be decided |
| **Status, symbols** `vulnsource/status.go`, `symbols.go` | – | extraction from JSON blobs | scan | – |

What makes each correct:

- *Verifying source*: a source that withholds records is found out and repaired; a
  check that did not happen never passes for one that did; no repair loses
  records or takes their text back in time.
- *OSV source*: an advisory is reported for the package it affects; whatever was
  not asked or not answered is said; text is never older than the batch that
  named it; every lookup ends.
- *Advisory cache*: a `Get` returns what was put under the key it asks for, or
  misses, whatever crashes, clears, prunes and damages come between.
- *Registry checker*: the budget and the pace hold for all goroutines together; a
  feed never names a package that exists; a short feed is not taken for a whole one.
- *Feed*: what a consumer reads is what the producer made and, where it asks for
  it, signed; two consumers of one digest agree.
- *Generation*: a name is known by its likeliest derivation, of those that the
  variants of each seed leave, is no real package's, and is left out only if
  something outranks it.
- *Evidence*: CONFIRMED is earned; withdrawn, unauthorised, reported and repeated
  claims move nothing; propositions are not mixed up.
- *Version matching*: no affected version is called clean, none is called affected
  by guess, and the two ways to ask a record, `Affects` and `Decide`, part only in
  doubt or over a version that is listed and in no range.

The hazards, each at its line and with the properties that would catch it, are in
`PROJECT.json`.

## 2. Modules

    SourceContract ── Verifying ── Verifying_proofs
         │                └─────── MCVerifying
         └─────────── OSVSource ── OSVSource_proofs, MCOSVSource
    AdvisoryStore ◁── FileCache ── FileCache_proofs, MCFileCache   (◁ implements)
    RegistryChecker ── RegistryChecker_proofs, MCRegistryChecker
    Evidence ── Evidence_proofs, MCEvidence
    SlopFeed ── SlopFeed_proofs
         └───── Generation ── MCSlopFeed
    VersionOrder ── VersionMatching ── VersionMatching_proofs, MCVersionMatching
         └── VersionOrder_proofs ─────────────┘

A definition marked `slip` is the definition below it with one plausible mistake;
the mutant list of `PROJECT.json` puts it in the other's place to show that the
property in question tells the two apart. No specification uses one.

**SourceContract** is the abstract side of a source: `Record`, the outcome of a
lookup as a `Reply`, and `KeepsContract`, what a caller may rely on. It is used
from both ends: `OSVSource` is checked to return replies that keep it
(`ReplyKeepsContract`), and `Verifying` assumes it of the two sources it asks. A
query is its index, an advisory its ID, a stamp a natural number with 0 for a
missing one, and a record keeps where it was found, its stamps and whether it
has its content.

**Verifying** follows `VerifyingSource.Lookup`. `pc[c]` is where caller `c` is; local
variables of the Go function are functions of the caller, fields of the struct and of
the two sources are shared. One action per stretch of code between two points where
another goroutine can change what it reads: the two answers, the judgement of the
reference, `forwardIncomplete`, `fillAdvisoryDetail`, the two returns without a
comparison, the reading of coverage, the classification loop. A source's optional
interfaces are read after its `Lookup` has returned, so another caller's answer may
have replaced them: `intelIndex` and `refFailures` are shared for that reason.
`ReportAdvisoryDetail` counts the findings that lost their detail, lists the first
`MaxDetailIDsListed` of their advisories (20 in the code, `detail.go:24`) and says how
many more there are. `PartialQueries` and `MirrorSyncedAt` are read in one action, as
are the two detail indexes; each source replaces all of its indexes at once when it
answers.

**OSVSource** follows `Source.Lookup` from the filter to the indexes: the
goroutine of every batch (`job`) and of every fetch (`fetch`), the two
semaphores, the collection after `wg.Wait`, `needed` with the cache, retries,
cancellation at any moment, and `recordDetailFailures`. The service is external:
it publishes new versions of advisories while a lookup runs, answers each batch
with any coverage allowed, and fails in each way the code tells apart. Lookups
of one source follow each other. A `Get` of the cache may miss at any time, as
`FileCache` says it may.

**FileCache** models memory maps per process, files, temporary files and the
directory, one action per system call that another process could come between.
**AdvisoryStore** is what the interface promises: a set of pairs that may still be
answered, which grows only by a call of `Put` and may shrink at any time. The
refinement mapping `Stored` is every pair in a memory map, in a file under whatever
name, or in the hands of an unfinished call; `answer` and the count of `puts` are
what clients see, so that no inner step of the cache can pass for a `Put`. A `Put`
whose step fails removes its temporary file, and that removal is taken to succeed.

**RegistryChecker** has one goroutine per caller inside `Feed`, with its own list
of names and its own context, all on one `Checker`. Steps are what a goroutine
does between a lock, a request and a pause. The comparison with the budget and
the addition to it are two steps. A registry gives a name to an owner at any
moment and may deny it a few times afterwards. `before` and `rested` are history.
Selection and scoring enter as the constants `Selected` and `Likely`; `Generation`
says what they are.

**SlopFeed** carries one `Feed` value through edits, `SetDigest`, `Sign` and
`Publish` in any order, damages the file, and lets consumers with and without a
verifier parse it. A digest is the content it was computed over and a signature
names its key and content. `Canonical` pairs each entry with the number of entries
of its name that come before it, which is what the stable sort of
`CanonicalEntries` keeps of their order.

**Generation** is the producer of such a feed. `Derivations` lists what the seeds,
their variants and compositions and the obvious names give rise to, in the order of
`Candidates`; `Add` keeps one of each name; `Selected` takes them pattern by pattern
within quota and limit; `Written` scores those no registry knows. Its one action
`Generate` is a whole run, completed or stopped by its budget, put into `SlopFeed`'s
pipeline as the draft, its digest set; how names are checked, request by request, is
`RegistryChecker`. The spelling of a variant is data: each seed has its lists of
names, in which two derivations may meet. `Derivations` is what `typoNeighbours`
leaves of the variants; the property is about `Arising`, which still has those it
dropped. A risk is the prior of integers in thousandths; priors that fall on a half of
one, where the code's floats decide, are not in the instance.

**Evidence** has the operators of the package, in the shape of the code, over a
ledger to which producers add claims, reporters send runs, and whose claims
consumers withdraw or restore. Kinds, weights and the default authority are the
package's tables. A `RunReport` is refused or becomes a claim of a kind no table
knows (`ClaimOf`), which is the code's reason that a reported run weighs nothing.
`ConfidenceUnder` is the confidence of a whole ledger, `Conflict` what is reported
of equal weights.

**VersionOrder** has the comparators over what the parsers read in a version: a
spelling is opaque, and the tables `Core`, `Pre` and `Reading` hold its segments,
its prerelease and each ecosystem's own reading or `Unreadable`. Padding,
sentinels, trimming and the order of kinds are the code's; what a parser can read
at all is `ReadingAssumption`, from `parsePEP440`, `parseAPK` and `splitDpkg`.
**VersionMatching**
builds intervals from the events of ranges in file order and answers `Affects`,
`Decide` and `FixedVersion` about an advisory that its database writes part by
part and may withdraw. The reference it is checked against, `AffectedByRule`, is
the rule of the range format stated over events, without intervals: an
introduction at or before the version, and no bound that stops it written after.

## 3. Runs

| Run | Instance | Shows |
|---|---|---|
| `verifying_answers` | 1 caller, 1 lookup, 2 queries, 2 advisories, reports that list 1, every combination of 2 answers | suppression, lag, partial answers and lost detail are told apart and said, past the end of a report's list too |
| `verifying_callers` | 2 callers, 2 lookups, 5 × 4 answers, fair | coverage, honesty of `Checked`, termination |
| `osv_lookup` | 4 queries, one not understood; batches of 2; 2 advisories in 2 versions; 1 retry; 2 lookups, fair | positions, silence, contract, freshness, termination |
| `cache_store` | 3 goroutines, 2 processes, 2 keys, 2 records, 3 operations | refinement of `AdvisoryStore`, atomic writes, no temporary file left |
| `registry_runs` | 2 runs that share a name; 4 requests; 2 attempts; 1 stale 404, fair | budget, pace, no accusation, honest feeds, termination |
| `evidence_ledger` | all ledgers of ≤ 3 of 16 claims and 14 run reports, 3 subjects, 2 authorities, 2 statuses | the rules of aggregation, and what a reported run may not do |
| `feed_pipeline` | 5 seeds of 2 ecosystems and their variants, limit 4, or ≤ 2 entries by hand; 2 edits, 1 damage, 2 keys, 2 consumers | justified risks; integrity from producer to consumer |
| `version_matching` | all advisories of ≤ 4 parts over 8 spellings, 5 ecosystems and none, 2 packages, 3 range types | matching against the rule of the format |

Why the bounds are enough. One lookup of the verifier depends on others only through
its collectors and indexes, so one caller with every answer and two with a few cover
the two questions; two queries show answers put under the wrong one, and two
advisories, both without detail, are one more than a report lists. In `osv_lookup` the
first query is the one filtered out, so that every position is shifted, and the third
batch place falls into a second batch; both semaphores have one slot, so that one slot
not given back stops the lookup; two versions and two lookups let the cache be stale.
Three operations of the cache suffice for a `Put`, a `Get` or `Clear` in its way, and
one after a crash. Four requests run out in the middle of a check, at any of its
requests. In the ledger an effect of one claim on another needs two, and promotion and
masking three; the reports differ from an acceptable one in one field or two, so that
each condition of `Valid` is the only one to refuse some report. In the generated feed
one name is the plural of one seed and an omission in another, one both an omission in
a seed and its singular, one a composition and obvious, and two are seeds; one falls
to a quota, one to the limit and one to its low risk. Four parts make an entry with a
range of two events, or with a range, an event and a listed version, or two entries
that disagree; the spellings are those the ecosystems read apart: a trailing zero, a
letter, a suffix, a dev release, and "2.0-1", which is after 2.0 on PyPI, before it
generically and unreadable on Alpine. Bounds are constants (`MaxLookups`,
`MaxVersion`, `MaxOps`, `MaxClaims`, `MaxEntries`, `MaxEdits`, `MaxDamages`,
`MaxParts`) used only as guards of the actions that count. Runs whose system stops
when its bounded operations are used up, or when every run is over, do not check
deadlock.

Fairness. Only three runs state liveness.
`FairSpec` of `Verifying`: both sources answer, since their HTTP clients have
timeouts, and a goroutine that can run does; no caller has to start a lookup.
`FairSpec` of `OSVSource`: some step of the lookup is taken while one is possible;
requests end, and each step is taken finitely often in one lookup.
`FairSpec` of `RegistryChecker`: each goroutine that can step does; the mutex is
held for finitely many steps, and Go's mutex hands itself to a waiter that has
starved. Nothing is assumed of contexts, which need never end, nor of registries.

### Where the comments and the code part

Four runs check one statement of a comment each and find it violated.

| Run | Statement | What happens |
|---|---|---|
| `verifying_stale` | an unchecked verification means the reference was not reached (`verify.go:85-86`) | the collectors are never emptied, so one failed reference lookup leaves all later ones of that value unchecked (`verify.go:174`) |
| `osv_short` | absence means "no vulnerabilities" (`vulnsource.go:253`) | an answer with fewer results than queries leaves the last ones absent and says nothing (`osv.go:487`) |
| `evidence_masked` | a refutation as strong as the best support defeats it (`aggregate.go:144`) | only the heaviest refutation is asked, and one that may not overturn the support hides one that may (`aggregate.go:167`) |
| `version_downgrade` | no fix is named when no interval holds the installed version, so that none reads as a downgrade (`match.go:236-245`) | a single interval's bound is answered unasked, also for a version that is affected by the list (`match.go:252-254`) |

Others, met while modelling and not run.

- *Verifying*: a lookup that fails leaves the earlier `Verification` on show
  (`verify.go:164`, against 135). `SuppressionRate` divides by suppressed and added
  records where its doc speaks of the reference's (`verify.go:95-109`). Partial
  answers of a reference that failed elsewhere are dropped (`verify.go:215-227`,
  against 142-149).
- *OSV*: a lookup cancelled during its fetches leaves records without content and
  records nothing (`osv.go:720-727`, which is why `ReplyKeepsContract` leaves
  cancelled lookups out).
- *Checker*: a pause cut short by one run's ended context lets another run send at
  once (`checker.go:244`, against 98; hence `PacedUnlessEnded`). `HTTPStatus` stays
  404 when the second query answers 200 (`checker.go:161`). A run whose context ends
  in its last name's pause returns a feed (`generate.go:73`).
- *Generation*: `typoNeighbours` keeps the first variant of a name before priors are
  compared, so a de-pluralised name of three letters or more, which is also one with a
  letter omitted, is never scored as a plural (`candidates.go:113-127`, against 151-152: "the highest-prior
  explanation wins"): from `pandas`, `panda` has the prior of an omission.
  `GeneratedFeedsAreJustified` leaves such shadowed derivations out. A limit of up to
  35 names is used up by obvious names (`select.go:31-45`). With an exhausted budget
  the order of equal priors, which `sort.Slice` leaves open, decides the feed.
- *Feed*: two entries of one name make the digest depend on their order and the index
  keep the last (`feed.go:119-122`, 276-281, which is why `ConsumersAgree` leaves such
  feeds out).
- *Evidence*: retracted claims still count for `Subjects`, so they can lower the
  confidence of a whole ledger (`aggregate.go:17-28`, 207-213, against
  `lifecycle.go:10-14`); so does a reported run, which has no subject
  (`reportedrun.go:74-83`). A support by research may undo a deterministic one when
  both meet a refutation (`aggregate.go:145-148`). Subjects of an unrecognised kind
  count, though `subject.go:102-104` says they contribute nothing. A report may be
  CONFIRMED with no hits, and POTENTIAL with a profile that ran
  (`reportedrun.go:141-165`).
- *Matching*: `Affects` does not read listed versions, so one that is listed and in no
  range, like django 1.4.0 in `TestDecideRealDjangoRecords`
  (`decide_test.go:159-176`), is affected to `Decide` and clean to `Affects`, against
  "Both must agree, or the same package version is vulnerable according to one and
  clean according to the other" (`match.go:215-218`). `DifferInDoubtOrListOnly` says
  that they part nowhere else but in doubt. The smallest of several bounds may belong
  to a neighbouring interval (`match.go:257-263`). `compareAPK` answers 0 for a letter
  against a positive suffix, "1.0a" and "1.0_p1", so it is no order there
  (`distro.go:202-204`); `orderedIn` keeps such versions out of `Decide`, and
  `Affects` trusts them. Intervals trust the order of events in the file
  (`match.go:161`); `AffectedIsReal` asks the
  rule of ranges that ascend and alternate. With one GIT range the
  fix is a commit hash. A bound like "2.0-1" or "2.0-rc1" counts as orderable on
  Alpine (`pep440.go:166-169`), but `parseAPK` cannot read it (`distro.go:149-153`),
  so that no readable version is covered (`pep440.go:205-222`) and `Decide` answers
  "not affected": a false all-clear, against `match.go:423-425`. `NeverMissesAffected`
  leaves these bounds out. Maven's order runs in a circle, 1-alpha < 1 < 1.foo <
  1-alpha (`maven.go:165-206`), so intervals over it need not be convex. Maven's
  "1.0-final" compares as "1.0" and is no match for it in a list (`match.go:434-446`).

## 4. Theorems

Eight modules of proofs. Those about components with state argue from an inductive
invariant, one step per action; those about evidence and versions from what the
operators return for every ledger and every advisory.

**Verifying_proofs**, for any callers, finitely many queries and advisories, replies
that keep the contract (`RepliesAssumption`), any set of optional interfaces and any
cap: `TypeCorrect` (`TypeOK`, which no run lists); `Coverage` (`CoverageKept`);
`CheckedComparison` (`CheckedMeansCompared`); `UncheckedSaid` (`UncheckedIsSaid`).
`CoverageKept` speaks of returned calls only, so the invariant `CallInv(c)` says for
each call what is true at each place in it: the answers under construction still have
the keys of the replies (`KeysKept`), what a reply recorded is still on its collector
(`Collected`), a judgement made is at least as severe as this call's own replies
demand (`ReferenceJudged`, `IntelJudged`), and a return covers (`ReturnedCovers`).
That collectors only grow is what makes it stable under other callers' steps, and also
what the finding `verifying_stale` is about. A second invariant, `TextInv(c)`, follows
the texts: until they are filled the answers are the replies themselves (`AsReplied`),
filling lends only text that is no older (`NoOlderText`), and no record is missing
that the reference has. It gives `NoOlderTexts` (`NeverOlderText`) and
`SuppressionRepaired` (`SuppressionIsSaidAndRepaired`), for any number of callers.

`Superset` (`HoldsMeansSuperset`) and `DetailSaid` (`DetailLossIsSaid`) have a
hypothesis, `[]OneAtATime`: no two lookups of one value overlap. The code needs it:
what a source did not cover, when its mirror synced and which fetches it lost are
methods about its "most recent Lookup" (`vulnsource.go:271`, 281, `detail.go:14`),
as is the verification itself (`verify.go:135`), and overlapping lookups read each
other's. One caller satisfies it (`OneCallerAlone`), which is the instance of
`verifying_answers`. `OwnInv(c)` then says that the indexes a call reads are of its own
replies, since nobody else steps during one (`Alone`). `DetailSaid` also assumes
that both sources implement the interface that reports details
(`BothReportDetail`), as the OSV source does; a source without it cannot say what
it lost. A report names the first of its advisories and counts
the rest: that an unnamed one comes after a full list and is among those counted
(`ReportTells`) rests on the first N of a finite set, by an order that tells its
elements apart, being N or all of them (`RanksFill`, `FirstAreListed`). Reports are
only added, and one of more records tells of fewer (`ToldOfFewer`).

**FileCache_proofs**, for any processes, goroutines (finitely many), keys and
records: `TypeCorrect` (`TypeOK`, which no run lists); `NoTempLeft`
(`NoTempIsLeft`) and `AtomicWrites`, from the invariant that a temporary file
ready to be renamed holds its own key's entry (`TempInv`); `ImplementsStore`,
each step of the cache a step of `AdvisoryStore` or a stutter under `Stored`.

**RegistryChecker_proofs**, for any callers, names, selections, budgets and
retries: `TypeCorrect`; `BudgetHolds`; `RequestsArePaced`; `ShortFeedsSaid`; and,
assuming `Staleness <= 1`, `NoOwnerAccused`. The invariant `IInv` says that
whoever is inside a check holds the mutex (`Exclusive`) and that an admitted
goroutine still finds room in the budget (`Room`): exclusion is what lets the
budget survive its comparison and addition being apart. On top of it, `Heard`
relates what a check has heard to the stale answers left, `Paced` says that
while no context has ended a goroutine about to ask has rested, and `Accounts`
relates a report to the position in the list. The assumption is the code's own:
two 404s are taken for an absent name, so two stale ones would accuse an owner.

**OSVSource_proofs**, for any queries, finitely many, any batches, limits, answers
and failures and any changes of the service: `TypeCorrect`; `RightPackages`;
`FreshTexts`; `KeepsItsContract` (`ReplyKeepsContract`), which is what `Verifying`
assumes of its sources. A query is told by its batch and its place in it
(`OwnPlace`, from the ranks of queries being distinct), so in its batch's answer it
finds its own result (`OwnAnswer`). The invariant says that what a batch reports
is true and no newer than the service (`Answers`), that a record is one a batch
reported or a newer text of it (`Results`), that text is cached under no newer a
stamp than its own (`Caches`), what the fetches have and lack (`Fetches`), and
what each phase may show (`Phases`). `NoFalseClean` (`NothingReadsAsClean`) assumes
that no answer has fewer results than its batch has queries (`Shortfalls \subseteq
{0}`); the finding `osv_short` shows that without it the property fails. A query's
place must then be one of the answer's: the queries of a batch have ranks that
fill an interval, so that its place is below their number (`PlaceInBatch`, by
counting). The added invariant says that an answered batch says all of each
query or calls it partial (`AnsweredInFull`) and that a lookup which says nothing
has put every answer it was given into its result (`Shown`).

**SlopFeed_proofs**, for any names, keys, consumers, edits and damages: `Served`,
`BadSignatures`, and, when digests and signatures are told from none, `Signed`. The
invariant adds to the types that a consumer holds what verified for it and that
no feed outside the producer has a risk JSON cannot represent (`Verified`): files
are damaged after they were written, and digests are made only of what can be.
They are about `Spec`, a feed written by hand; the order of a generated one is
chosen from a set, beyond what the provers reduce. A file is damaged without its
digest being computed anew, which needs no key; that a changed feed with a digest of
its own is served to whoever asks for no signature is what `Edit` and `SetDigest`
show, and `ServedIsWhatWasMade` says no more than that its content was digested.
`Agreed` (`ConsumersAgree`): feeds
of one digest have the same `Canonical`, so that an entry of one file is an entry
of the other; with one entry to a name, that is the one its index finds. It
needs no induction over files because `Canonical` counts the namesakes before an
entry and does not list them.

**Evidence_proofs**, for every ledger, authority and report: `Earned`, `Conflicts`,
`Weightless`, `Apart`, `AcceptedRuns`, `Echoes`, `SupportOnlyRaises`, `Withdrawn`.
All rest on what `Strongest` is: claims have a
heaviest one, the first of equals (`HeaviestExists`), since weights are bounded
numbers and positions well-founded. A claim that is not counted leaves
`Counted` as it was, which gives `Weightless` and `Apart`. An echo adds neither a
producer nor weight, so that neither the strongest support nor the number of
independent ones moves. More support leaves the strongest no lighter and the
producers no fewer; that the level is no lower then is a matter of cases, among
them that judgements alone weigh too little for the cap on them to bind.
For `Withdrawn` the ledger without the claim has its positions renumbered; the
renumbering keeps order, weights and producers, hence the first of the heaviest.

**VersionOrder_proofs**, for every table of readings that `ReadingAssumption` allows.
Every comparator of the code is a chain: the first sign that is not 0 decides
(`First`). `Falls(x, y, z)` says what three signs of an order satisfy, "not above"
and "below" are passed on; if each sign of a chain falls, the chain does
(`FirstsFall`), however long the padded versions are. From it `Transitive`:
`CompareIn` is an order among versions that the ecosystem orders and reads all or
none of. The parts are numbers with padding, PEP 440's keys and labels, dpkg's
chunks, and apk's tokens, which are numbers closed by a revision in versions that
`orderedIn` lets through. Maven is excluded: its order has a circle. `SameKey`:
PEP 440 calls equal exactly what `pep440Key` gives one key. Assumed of the readings
are numbers of the types the parsers fill, with two corners left out: a dev
number equal to its own sentinel, the largest integer, and Alpine's "1.-5_p1",
where a signed part hides behind the hyphen.

**VersionMatching_proofs**, for every advisory and every such table; the invariant is
the type of the advisory (`AdvisoryTypeOK`), since its database may write anything.
`Agreement` (`DifferInDoubtOrListOnly`): an entry whose interval covers the version
either has it in a range of versions that can be ordered, or something in it that
`CannotSay` names (`UndoubtedEntrySays`); and an entry that says affected without
listing the version has it in one of its ordered ranges, which are among those that
`Affects` reads (`AffectedIsCoveredOrListed`). `Convexity` (`RangesAreConvex`) from
`Transitive`, of versions that the ecosystem reads all or none of: between one it
reads and one it does not, there are two orders. `NoFalseAllClear`
(`NeverMissesAffected`): the introduction that the rule names opens an interval, which
ends at the next event or nowhere, and the rule says that this bound was not passed,
whatever the order of the events (`Opens`, `RuleIsSaid`). `NoGuess`
(`AffectedIsReal`): the interval that covers comes from one introduction; no bound
after it stops the version, because events ascend and "below" is passed on. That
direction needs the range to ascend and to alternate, and its versions to be read
alike; what is listed needs nothing.

Only model-checked. `GeneratedFeedsAreJustified`: a generated feed is a fold over the
candidates, of which the provers know one step and not the result. All liveness
(`LookupsEnd`, `LookupEnds`, `RunsEnd`), which is beyond the prover. Of Maven neither
convexity nor the rule of ascending events is stated: where its order runs in a
circle they fail.

## 5. Abstractions and what is left out

- SHA-256 and Ed25519 are exact; keys of the cache and validators are valid.
- `Interval` of the checker is positive (`checker.go:241`), requests can be built,
  ecosystems are PyPI and npm; how long a wait is does not matter, only whether
  it passed whole.
- Clients have timeouts; a batch answer keeps the order of its queries.
- Degradations are sets; their order and wording are presentation.
- A `Put` whose record has another ID than its key writes a file that always
  misses; `Records` are put under their own keys.
- `degrade` kinds recorded by programs outside this repository.
- JSON, severities, symbols, statuses, EPSS priorities, the regular expressions
  that read a version, the spelling of variants: data conversions without state.
- Annotations of a record. `needed` copies some of a batch answer's over a cached
  record (`osv.go:656-668`), and others of the cached one stand.
- The relation graph of `evidence/relation.go`: a list with a validation that no
  other code of the repository reads.
- `HydrateDetails` alone and the `With…` copies of the OSV source, whose fetches
  and cache are those of `Lookup`.

## 6. Plan

Done, most important first: `Verifying` with its contract; `OSVSource`; `FileCache`
against `AdvisoryStore`; `RegistryChecker`; `Evidence` with reported runs;
`SlopFeed` and, in place of constants, `Generation`; `VersionOrder` and
`VersionMatching`; proofs of every safety property that a run checks but one.

Next, proving more:

1. `NoFalseClean` composed with `KeepsItsContract`: what a `VerifyingSource` over an
   `OSVSource` promises without an assumption about replies.
2. `SlopFeed`'s theorems for the pipeline of a generated feed, from the type of what
   `Generate` writes.
3. `CompareIn` as a total preorder (antisymmetry of signs), and with it that the fix
   of several intervals lies above the installed version.

And extending the model: concurrent lookups of one `Source`, and `HydrateDetails`
on its own.

## 7. Not modelled

`vulnsource/status.go` and `symbols.go` read fields of JSON blobs. `Stats` and
`DefaultCacheDir` of the cache, the listings of the ledger and of intervals only
read. `DistroUrgency` and the summary of degradations are presentation. What the
programs that use the library do with its answers is outside this repository.
