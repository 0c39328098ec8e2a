-------------------------- MODULE OSVSource_proofs --------------------------
(* Theorems about one Source's lookups, for any queries, batches, limits,    *)
(* answers, failures and changes of the service.                             *)
EXTENDS OSVSource, FiniteSetTheorems, TLAPS

-----------------------------------------------------------------------------
(* A query is told by its batch and its place in it.                         *)

\* A later query that is asked has a higher rank.
LEMMA RankOrders ==
  ASSUME SourceAssumption, NEW p \in Queryable, NEW q \in Queryable, p < q
  PROVE  Rank(p) \in Nat /\ Rank(q) \in Nat /\ Rank(p) < Rank(q)
<1> DEFINE Below(x) == {y \in Queryable : y < x}
<1>1. IsFiniteSet(Queryable) /\ p \in Nat /\ q \in Nat /\ Queryable \subseteq Nat
  BY FS_Subset DEF SourceAssumption
<1>2. IsFiniteSet(Below(q)) /\ IsFiniteSet(Below(p))
  <2>1. Below(q) \in SUBSET Queryable /\ Below(p) \in SUBSET Queryable
    OBVIOUS
  <2> HIDE DEF Below
  <2> QED BY <1>1, <2>1, FS_Subset
<1>3. Below(p) \subseteq Below(q) /\ p \in Below(q) /\ p \notin Below(p)
  <2>1. ASSUME NEW y \in Queryable, y < p PROVE y < q
    <3>1. y \in Nat
      BY <1>1
    <3> QED BY <1>1, <2>1, <3>1
  <2>2. ~(p < p)
    BY <1>1
  <2> QED BY <2>1, <2>2
<1>4. Cardinality(Below(p)) < Cardinality(Below(q))
  <2>1. Below(p) # Below(q)
    BY <1>3
  <2>2. Below(p) \in SUBSET Below(q)
    BY <1>3
  <2> HIDE DEF Below
  <2>3. /\ Cardinality(Below(p)) <= Cardinality(Below(q))
        /\ Cardinality(Below(p)) # Cardinality(Below(q))
    BY <1>2, <2>1, <2>2, FS_Subset
  <2>4. Cardinality(Below(p)) \in Nat /\ Cardinality(Below(q)) \in Nat
    BY <1>2, FS_CardinalityType
  <2> QED BY <2>3, <2>4
<1>5. Cardinality(Below(p)) \in Nat /\ Cardinality(Below(q)) \in Nat
  BY <1>2, FS_CardinalityType
<1> QED BY <1>4, <1>5 DEF Rank

\* Ranks are natural numbers.
LEMMA RankType ==
  ASSUME SourceAssumption, NEW q \in Queryable
  PROVE  Rank(q) \in Nat
<1>1. IsFiniteSet({p \in Queryable : p < q})
  BY FS_Subset DEF SourceAssumption
<1> QED BY <1>1, FS_CardinalityType DEF Rank

\* No two queries share a place of a batch.
LEMMA OwnPlace ==
  ASSUME SourceAssumption, NEW p \in Queryable, NEW q \in Queryable,
         JobOf(p) = JobOf(q), PlaceOf(p) = PlaceOf(q)
  PROVE  p = q
<1>1. Rank(p) \in Nat /\ Rank(q) \in Nat
  BY RankType
<1>2. BatchLimit \in Nat \ {0}
  BY DEF SourceAssumption
<1>3. JobOf(p) \in Int /\ BatchLimit * JobOf(p) \in Int
  BY <1>1, <1>2 DEF JobOf
<1>4. Rank(p) = Rank(q)
  BY <1>1, <1>3 DEF PlaceOf
<1>5. p \in Nat /\ q \in Nat
  BY DEF SourceAssumption
<1>6. CASE p < q
  BY <1>4, <1>6, RankOrders
<1>7. CASE q < p
  BY <1>4, <1>7, RankOrders
<1> QED BY <1>5, <1>6, <1>7

\* In the answer to its batch, a query finds the result that is its own.
LEMMA OwnAnswer ==
  ASSUME SourceAssumption, NEW q \in Queryable, NEW coverage, NEW short, NEW empty,
         PlaceOf(q) \in DOMAIN HonestAnswer(JobOf(q), coverage, short, empty)
  PROVE  LET answer == HonestAnswer(JobOf(q), coverage, short, empty)[PlaceOf(q)]
         IN answer.vulns \subseteq Matching(q) /\ answer.coverage = coverage
<1> DEFINE At == CHOOSE p \in InJob(JobOf(q)) : PlaceOf(p) = PlaceOf(q)
<1>1. At \in InJob(JobOf(q)) /\ PlaceOf(At) = PlaceOf(q)
  BY DEF InJob
<1>2. At = q
  BY <1>1, OwnPlace DEF InJob
<1>3. HonestAnswer(JobOf(q), coverage, short, empty)[PlaceOf(q)]
        = [vulns |-> IF empty THEN {} ELSE Matching(At), coverage |-> coverage]
  BY DEF HonestAnswer
<1> HIDE DEF At
<1>4. HonestAnswer(JobOf(q), coverage, short, empty)[PlaceOf(q)].vulns \subseteq Matching(q)
  BY <1>2, <1>3
<1>5. HonestAnswer(JobOf(q), coverage, short, empty)[PlaceOf(q)].coverage = coverage
  BY <1>3
<1> QED BY <1>4, <1>5

-----------------------------------------------------------------------------
(* The invariant.                                                            *)

\* What a batch says of a query is true of it, once for each advisory, and no
\* newer than the service is.
Answers ==
  \A q \in Queries : \A v \in ResultOf(q).vulns :
    /\ v[1] \in Affects[q]
    /\ v[2] \in Nat /\ 1 <= v[2] /\ v[2] <= upstream[v[1]]
    /\ \A w \in ResultOf(q).vulns : w[1] = v[1] => w = v

\* A record is one a batch reported, as it reported it or as new.
Results ==
  \A r \in result : \E v \in ResultOf(r.query).vulns :
    /\ v[1] = r.id
    /\ v[2] <= r.modified
    /\ ~r.hydrated => r.modified = v[2]

\* Text is cached under no newer a stamp than its own.
Caches == \A e \in cache : 1 <= e.version /\ e.validator <= e.version

\* A fetch in progress serves a record of this lookup; one that ended has its
\* text, which is as new as the batches, or has failed, or was cut short.
Fetches ==
  \A a \in Advisories :
    /\ 1 <= upstream[a]
    /\ validators[a] <= upstream[a]
    /\ details[a] # 0 => \A q \in Queries : \A v \in ResultOf(q).vulns :
                           v[1] = a => v[2] <= details[a]
    /\ fetch[a] = "ended" => details[a] # 0 \/ a \in failed \/ cancelled
    /\ fetch[a] = "sleeping" => attempt[a] < Retries

\* What each phase of the lookup has and has not.
Phases ==
  /\ phase \in {"idle", "batching", "error"} => result = {}
  /\ phase \in {"idle", "batching", "collected", "error"} =>
       \A a \in Advisories : details[a] = 0 /\ fetch[a] = "none"
  /\ phase = "collected" => \A r \in result : ~r.hydrated
  /\ phase = "error" => deg = {} /\ ~wellFormed /\ Jobs # {}
  /\ ~wellFormed /\ Jobs # {} => phase \in {"idle", "error"} /\ partial = {}
  /\ phase \in {"collected", "fetching", "done"} /\ partial # {} => "intel_incomplete" \in deg
  /\ phase = "fetching" => \A r \in result : ~r.hydrated => fetch[r.id] # "none"
  /\ phase = "done" => \/ cancelled
                       \/ \A r \in result : ~r.hydrated =>
                            r.id \in detailFailed /\ "advisory_detail" \in deg

IInv ==
  /\ TypeOK /\ Answers /\ Results /\ OneRecordPerKey(result)
  /\ Caches /\ Fetches /\ Phases

-----------------------------------------------------------------------------
(* What the answers say.                                                     *)

\* What a query is answered depends on the answers alone.
LEMMA SameAnswers ==
  ASSUME answers' = answers
  PROVE  \A q : ResultOf(q)' = ResultOf(q)
BY DEF ResultOf

\* Before the answers nothing is answered.
LEMMA NoAnswers ==
  ASSUME SourceAssumption, \A j \in Jobs : answers[j] = <<>>
  PROVE  \A q \in Queries : ResultOf(q) = Nothing
<1> SUFFICES ASSUME NEW q \in Queries, q \in Queryable, PlaceOf(q) \in DOMAIN answers[JobOf(q)]
             PROVE  FALSE
  BY DEF ResultOf
<1> QED BY DEF Jobs

\* What a query is answered is a batch's result.
LEMMA ResultType ==
  ASSUME SourceAssumption, TypeOK, NEW q \in Queries
  PROVE  ResultOf(q) \in BatchResult
<1>1. Nothing \in BatchResult
  BY DEF Nothing, BatchResult, AllCoverages
<1>2. CASE q \in Queryable /\ PlaceOf(q) \in DOMAIN answers[JobOf(q)]
  BY <1>2 DEF ResultOf, TypeOK, Jobs
<1> QED BY <1>1, <1>2 DEF ResultOf

\* The records a batch answer makes.
LEMMA RecordsOfBatches ==
  ASSUME SourceAssumption, TypeOK
  PROVE  /\ BatchRecords \subseteq Record
         /\ \A r \in BatchRecords :
              \E v \in ResultOf(r.query).vulns : r = BatchRecord(r.query, v)
<1> SUFFICES ASSUME NEW q \in Queries, NEW v \in ResultOf(q).vulns
             PROVE  BatchRecord(q, v) \in Record /\ BatchRecord(q, v).query = q
  BY DEF BatchRecords
<1>1. v \in Advisories \X Stamp
  BY ResultType DEF BatchResult
<1> QED BY <1>1 DEF BatchRecord, Record, Stamp

\* A record takes an advisory's text and keeps its place.
LEMMA HydrateType ==
  ASSUME NEW s \in Record, NEW v
  PROVE  /\ Hydrate(s, v).query = s.query /\ Hydrate(s, v).id = s.id
         /\ Hydrate(s, v).hydrated /\ Hydrate(s, v).modified = v
         /\ v \in Nat => Hydrate(s, v) \in Record
BY DEF Hydrate, Record, Stamp

\* What the service answers to a batch is a result per place.
LEMMA HonestType ==
  ASSUME SourceAssumption, TypeOK, NEW j \in Jobs, NEW coverage \in Coverages,
         NEW short \in Shortfalls, NEW empty \in BOOLEAN
  PROVE  \A p \in DOMAIN HonestAnswer(j, coverage, short, empty) :
           HonestAnswer(j, coverage, short, empty)[p] \in BatchResult
<1> DEFINE At(p) == CHOOSE q \in InJob(j) : PlaceOf(q) = p
           places == {PlaceOf(q) : q \in InJob(j)}
<1>1. SUFFICES ASSUME NEW p \in places
               PROVE  [vulns |-> IF empty THEN {} ELSE Matching(At(p)), coverage |-> coverage]
                        \in BatchResult
  BY DEF HonestAnswer
<1>2. At(p) \in InJob(j)
  OBVIOUS
<1>3. Matching(At(p)) \subseteq Advisories \X Stamp
  <2>1. At(p) \in Queries
    BY <1>2 DEF InJob, SourceAssumption
  <2> HIDE DEF At
  <2>2. Affects[At(p)] \subseteq Advisories
    BY <2>1 DEF SourceAssumption
  <2> QED BY <2>2 DEF Matching, TypeOK
<1>4. coverage \in AllCoverages
  BY DEF SourceAssumption
<1> HIDE DEF At
<1>5. (IF empty THEN {} ELSE Matching(At(p))) \in SUBSET (Advisories \X Stamp)
  BY <1>3
<1> QED BY <1>4, <1>5 DEF BatchResult

-----------------------------------------------------------------------------
(* The invariant holds initially and is preserved by every step.             *)

\* A source starts in the invariant.
LEMMA InitInv == Init /\ SourceAssumption => IInv
<1> SUFFICES ASSUME Init, SourceAssumption PROVE IInv
  OBVIOUS
<1>1. TypeOK
  <2>1. \A j \in Jobs : answers[j] = <<>> /\ DOMAIN answers[j] = {}
    BY DEF Init
  <2>2. DOMAIN answers = Jobs /\ \A j \in Jobs : \A p \in DOMAIN answers[j] : answers[j][p] \in BatchResult
    BY <2>1 DEF Init
  <2>3. Retries \in Nat /\ MaxLookups \in Nat
    BY DEF SourceAssumption
  <2>4. /\ upstream \in [Advisories -> Stamp] /\ synced \in [Queries -> Stamp]
        /\ validators \in [Advisories -> Stamp] /\ details \in [Advisories -> Stamp]
        /\ attempt \in [Advisories -> 0..Retries] /\ lookups \in 0..MaxLookups
    BY <2>3 DEF Init, NoneSynced, Stamp
  <2>5. /\ job \in [Jobs -> {"waiting", "sending", "answered", "failed"}]
        /\ fetch \in [Advisories -> {"none", "waiting", "sending", "sleeping", "lost", "ended"}]
        /\ phase \in {"idle", "batching", "collected", "fetching", "done", "error"}
    BY DEF Init
  <2>6. /\ wellFormed \in BOOLEAN /\ cancelled \in BOOLEAN
        /\ result \subseteq Record /\ partial \subseteq Queries
        /\ detailFailed \subseteq Advisories /\ failed \subseteq Advisories
        /\ cache \subseteq Entry /\ deg \subseteq SourceKinds
    BY DEF Init
  <2> QED BY <2>2, <2>4, <2>5, <2>6 DEF TypeOK
<1>2. \A q \in Queries : ResultOf(q).vulns = {}
  BY NoAnswers DEF Init, Nothing
<1>3. Answers /\ Fetches
  BY <1>2 DEF Answers, Fetches, Init
<1>4. Results /\ OneRecordPerKey(result) /\ Caches /\ Phases
  BY DEF Init, Results, OneRecordPerKey, Caches, Phases
<1> QED BY <1>1, <1>3, <1>4 DEF IInv

\* Starting a lookup keeps it.
LEMMA StartInv == IInv /\ SourceAssumption /\ Start => IInv'
<1> SUFFICES ASSUME IInv, SourceAssumption, Start PROVE IInv'
  OBVIOUS
<1> USE DEF IInv
<1>1. TypeOK'
  <2>1. \A j \in Jobs : answers'[j] = <<>> /\ DOMAIN answers'[j] = {}
    BY DEF Start
  <2>2. /\ DOMAIN answers' = Jobs
        /\ \A j \in Jobs : \A p \in DOMAIN answers'[j] : answers'[j][p] \in BatchResult
    BY <2>1 DEF Start
  <2>3. Retries \in Nat /\ MaxLookups \in Nat
    BY DEF SourceAssumption
  <2>4. /\ validators' \in [Advisories -> Stamp] /\ details' \in [Advisories -> Stamp]
        /\ attempt' \in [Advisories -> 0..Retries] /\ lookups' \in 0..MaxLookups
    BY <2>3 DEF Start, TypeOK, Stamp
  <2>5. /\ job' \in [Jobs -> {"waiting", "sending", "answered", "failed"}]
        /\ fetch' \in [Advisories -> {"none", "waiting", "sending", "sleeping", "lost", "ended"}]
        /\ phase' \in {"idle", "batching", "collected", "fetching", "done", "error"}
    BY DEF Start
  <2>6. /\ cancelled' \in BOOLEAN /\ result' \subseteq Record
        /\ failed' \subseteq Advisories /\ deg' \subseteq SourceKinds
    BY DEF Start
  <2>7. UNCHANGED <<upstream, wellFormed, partial, synced, detailFailed, cache>>
    BY DEF Start, external, indexes
  <2> QED BY <2>2, <2>4, <2>5, <2>6, <2>7 DEF TypeOK
<1>2. \A q \in Queries : ResultOf(q)' = Nothing
  <2>1. \A j \in Jobs : answers'[j] = <<>>
    BY DEF Start
  <2>2. SUFFICES ASSUME NEW q \in Queries, q \in Queryable,
                        PlaceOf(q) \in DOMAIN answers'[JobOf(q)]
                 PROVE  FALSE
    BY DEF ResultOf
  <2> QED BY <2>1, <2>2 DEF Jobs
<1>3. \A q \in Queries : ResultOf(q)'.vulns = {}
  BY <1>2 DEF Nothing
<1>4. Answers' /\ Results' /\ OneRecordPerKey(result)'
  BY <1>3 DEF Answers, Results, OneRecordPerKey, Start
<1>5. Caches'
  BY DEF Start, Caches
<1>6. Fetches'
  BY <1>3 DEF Start, Fetches, external, TypeOK, Stamp
<1>7. Phases'
  BY DEF Start, Phases, external, indexes
<1> QED BY <1>1, <1>4, <1>5, <1>6, <1>7

\* Ending its context keeps it.
LEMMA CancelInv == IInv /\ Cancel => IInv'
<1> SUFFICES ASSUME IInv, Cancel PROVE IInv'
  OBVIOUS
<1> USE DEF IInv
<1>1. /\ UNCHANGED <<upstream, wellFormed, phase, job, answers, result, partial, synced,
                     detailFailed, validators, fetch, attempt, details, failed, cache,
                     deg, lookups>>
      /\ cancelled'
  BY DEF Cancel, external, batching, indexes, fetching
<1>2. \A q : ResultOf(q)' = ResultOf(q)
  BY <1>1, SameAnswers
<1>3. TypeOK' /\ OneRecordPerKey(result)' /\ Caches'
  BY <1>1 DEF TypeOK, OneRecordPerKey, Caches
<1>4. Answers' /\ Results' /\ Fetches'
  BY <1>1, <1>2 DEF Answers, Results, Fetches
<1>5. Phases'
  BY <1>1 DEF Phases
<1> QED BY <1>3, <1>4, <1>5

\* A change of the service keeps it.
LEMMA PublishInv == ASSUME SourceAssumption, NEW a \in Advisories PROVE IInv /\ Publish(a) => IInv'
<1> SUFFICES ASSUME IInv, Publish(a) PROVE IInv'
  OBVIOUS
<1> USE DEF IInv
<1>1. /\ UNCHANGED <<wellFormed, phase, cancelled, job, answers, result, partial, synced,
                     detailFailed, validators, fetch, attempt, details, failed, cache,
                     deg, lookups>>
      /\ upstream' = [upstream EXCEPT ![a] = @ + 1]
  BY DEF Publish, batching, indexes, fetching
<1>2. \A q : ResultOf(q)' = ResultOf(q)
  BY <1>1, SameAnswers
<1>3. upstream' \in [Advisories -> Stamp] /\ \A b \in Advisories : upstream[b] <= upstream'[b]
  BY <1>1 DEF TypeOK, Stamp
<1>4. TypeOK' /\ OneRecordPerKey(result)' /\ Caches'
  BY <1>1, <1>3 DEF TypeOK, OneRecordPerKey, Caches
<1>5. Results'
  BY <1>1, <1>2 DEF Results
<1>6. Phases'
  BY <1>1 DEF Phases
<1>7. Answers'
  <2> SUFFICES ASSUME NEW q \in Queries, NEW v \in ResultOf(q).vulns
               PROVE  v[2] <= upstream'[v[1]]
    BY <1>2 DEF Answers
  <2>1. v[1] \in Advisories /\ v[2] \in Nat /\ v[2] <= upstream[v[1]]
    BY DEF Answers, SourceAssumption
  <2> QED BY <1>3, <2>1 DEF TypeOK, Stamp
<1>8. Fetches'
  BY <1>1, <1>2, <1>3 DEF Fetches, TypeOK, Stamp
<1> QED BY <1>4, <1>5, <1>6, <1>7, <1>8
\* The state of a batch's goroutine is of no account to the rest.
LEMMA Untouched ==
  ASSUME IInv, UNCHANGED <<upstream, wellFormed, phase, cancelled, answers, result, partial,
                           synced, detailFailed, validators, fetch, attempt, details, failed,
                           cache, deg, lookups>>,
         job' \in [Jobs -> {"waiting", "sending", "answered", "failed"}]
  PROVE  IInv'
<1> USE DEF IInv
<1>1. \A q : ResultOf(q)' = ResultOf(q)
  BY SameAnswers
<1>2. TypeOK' /\ OneRecordPerKey(result)' /\ Caches'
  BY DEF TypeOK, OneRecordPerKey, Caches
<1>3. Answers' /\ Results' /\ Fetches'
  BY <1>1 DEF Answers, Results, Fetches
<1>4. Phases'
  BY DEF Phases
<1> QED BY <1>2, <1>3, <1>4

\* Sending a batch keeps it.
LEMMA SendBatchInv == ASSUME NEW j \in Jobs PROVE IInv /\ SendBatch(j) => IInv'
<1> SUFFICES ASSUME IInv, SendBatch(j) PROVE IInv'
  OBVIOUS
<1> USE DEF IInv
<1>1. /\ UNCHANGED <<upstream, wellFormed, phase, cancelled, answers, result, partial, synced,
                     detailFailed, validators, fetch, attempt, details, failed, cache,
                     deg, lookups>>
      /\ job' = [job EXCEPT ![j] = "sending"]
  BY DEF SendBatch, external, indexes, fetching
<1>2. job' \in [Jobs -> {"waiting", "sending", "answered", "failed"}]
  BY <1>1 DEF TypeOK
<1> QED BY <1>1, <1>2, Untouched

\* A failed batch keeps it.
LEMMA BatchFailsInv == ASSUME NEW j \in Jobs PROVE IInv /\ BatchFails(j) => IInv'
<1> SUFFICES ASSUME IInv, BatchFails(j) PROVE IInv'
  OBVIOUS
<1> USE DEF IInv
<1>1. /\ UNCHANGED <<upstream, wellFormed, phase, cancelled, answers, result, partial, synced,
                     detailFailed, validators, fetch, attempt, details, failed, cache,
                     deg, lookups>>
      /\ job' = [job EXCEPT ![j] = "failed"]
  BY DEF BatchFails, external, indexes, fetching
<1>2. job' \in [Jobs -> {"waiting", "sending", "answered", "failed"}]
  BY <1>1 DEF TypeOK
<1> QED BY <1>1, <1>2, Untouched

\* A batch's answer reports of each of its queries what affects that query, at
\* the version the service has now; other queries keep their results.
LEMMA BatchAnsweredInv ==
  ASSUME SourceAssumption, NEW j \in Jobs PROVE IInv /\ BatchAnswered(j) => IInv'
<1> SUFFICES ASSUME IInv, BatchAnswered(j) PROVE IInv'
  OBVIOUS
<1> USE DEF IInv
<1>1. /\ UNCHANGED <<upstream, wellFormed, phase, cancelled, result, partial, synced,
                     detailFailed, validators, fetch, attempt, details, failed, cache,
                     deg, lookups>>
      /\ job' = [job EXCEPT ![j] = "answered"]
      /\ phase = "batching"
  BY DEF BatchAnswered, external, indexes, fetching
<1>2. PICK coverage \in Coverages, short \in Shortfalls, empty \in BOOLEAN :
        answers' = [answers EXCEPT ![j] = HonestAnswer(j, coverage, short, empty)]
  BY DEF BatchAnswered
<1>3. /\ answers'[j] = HonestAnswer(j, coverage, short, empty)
      /\ \A i \in Jobs : i # j => answers'[i] = answers[i]
      /\ DOMAIN answers' = Jobs
  BY <1>2 DEF TypeOK
<1>4. \A p \in DOMAIN answers'[j] : answers'[j][p] \in BatchResult
  BY <1>3, HonestType
<1>5. TypeOK'
  <2>1. \A i \in Jobs : \A p \in DOMAIN answers'[i] : answers'[i][p] \in BatchResult
    BY <1>3, <1>4 DEF TypeOK
  <2>2. job' \in [Jobs -> {"waiting", "sending", "answered", "failed"}]
    BY <1>1 DEF TypeOK
  <2>3. DOMAIN answers' = Jobs
    BY <1>3
  <2>4. UNCHANGED <<upstream, wellFormed, phase, cancelled, result, partial, synced,
                     detailFailed, validators, fetch, attempt, details, failed, cache,
                     deg, lookups>>
    BY <1>1
  <2> QED BY <2>1, <2>2, <2>3, <2>4 DEF TypeOK
<1>6. \A q \in Queries : \/ ResultOf(q)' = ResultOf(q)
                         \/ ResultOf(q)'.vulns \subseteq Matching(q)
  <2> SUFFICES ASSUME NEW q \in Queries
               PROVE \/ ResultOf(q)' = ResultOf(q)
                     \/ ResultOf(q)'.vulns \subseteq Matching(q)
    OBVIOUS
  <2>1. CASE q \notin Queryable
    BY <2>1 DEF ResultOf
  <2>2. CASE q \in Queryable /\ JobOf(q) # j
    <3>1. JobOf(q) \in Jobs
      BY <2>2 DEF Jobs
    <3>2. answers'[JobOf(q)] = answers[JobOf(q)]
      BY <1>3, <2>2, <3>1
    <3> QED BY <2>2, <3>2 DEF ResultOf
  <2>3. CASE q \in Queryable /\ JobOf(q) = j /\ PlaceOf(q) \in DOMAIN answers'[j]
    <3>1. answers'[j][PlaceOf(q)].vulns \subseteq Matching(q)
      BY <1>3, <2>3, OwnAnswer
    <3>2. ResultOf(q)' = answers'[j][PlaceOf(q)]
      BY <2>3 DEF ResultOf
    <3> QED BY <3>1, <3>2
  <2>4. CASE q \in Queryable /\ JobOf(q) = j /\ PlaceOf(q) \notin DOMAIN answers'[j]
    BY <2>4 DEF ResultOf, Nothing
  <2> QED BY <2>1, <2>2, <2>3, <2>4
<1>7. Answers'
  <2> SUFFICES ASSUME NEW q \in Queries, NEW v \in ResultOf(q)'.vulns
               PROVE  /\ v[1] \in Affects[q]
                      /\ v[2] \in Nat /\ 1 <= v[2] /\ v[2] <= upstream[v[1]]
                      /\ \A w \in ResultOf(q)'.vulns : w[1] = v[1] => w = v
    BY <1>1 DEF Answers
  <2>1. CASE ResultOf(q)' = ResultOf(q)
    BY <2>1 DEF Answers
  <2>2. CASE ResultOf(q)'.vulns \subseteq Matching(q)
    <3>1. PICK a \in Affects[q] : v = <<a, upstream[a]>>
      BY <2>2 DEF Matching
    <3>2. a \in Advisories
      BY DEF SourceAssumption
    <3>3. upstream[a] \in Nat /\ 1 <= upstream[a]
      BY <3>2 DEF Fetches, TypeOK, Stamp
    <3>4. \A w \in ResultOf(q)'.vulns : w = <<w[1], upstream[w[1]]>>
      BY <2>2 DEF Matching
    <3> QED BY <3>1, <3>3, <3>4
  <2> QED BY <1>6, <2>1, <2>2
<1>8. result = {} /\ \A a \in Advisories : details[a] = 0 /\ fetch[a] = "none"
  BY <1>1 DEF Phases
<1>9. Results' /\ OneRecordPerKey(result)' /\ Caches'
  BY <1>1, <1>8 DEF Results, OneRecordPerKey, Caches
<1>10. Fetches'
  BY <1>1, <1>8 DEF Fetches
<1>11. Phases'
  BY <1>1 DEF Phases
<1> QED BY <1>5, <1>7, <1>9, <1>10, <1>11

\* Each query's results become one record each.
LEMMA CollectInv ==
  ASSUME SourceAssumption PROVE IInv /\ Collect => IInv'
<1> SUFFICES ASSUME IInv, Collect PROVE IInv'
  OBVIOUS
<1> USE DEF IInv
<1>1. /\ UNCHANGED <<upstream, wellFormed, cancelled, job, answers, detailFailed,
                     validators, fetch, attempt, details, failed, cache, lookups>>
      /\ phase = "batching" /\ phase' = "collected"
      /\ result' = BatchRecords
      /\ partial' = PartialQueries /\ synced' = SyncedAt /\ deg' = BatchDegradations
  BY DEF Collect, external, batching, fetching
<1>2. \A q : ResultOf(q)' = ResultOf(q)
  BY <1>1, SameAnswers
<1>3. /\ BatchRecords \subseteq Record
      /\ \A r \in BatchRecords :
           \E v \in ResultOf(r.query).vulns : r = BatchRecord(r.query, v)
  BY RecordsOfBatches
<1>4. TypeOK'
  <2>1. partial' \subseteq Queries /\ synced' \in [Queries -> Stamp]
    BY <1>1 DEF PartialQueries, SyncedAt, Stamp
  <2>2. deg' \subseteq SourceKinds
    BY <1>1 DEF BatchDegradations, SourceKinds
  <2> QED BY <1>1, <1>3, <2>1, <2>2 DEF TypeOK
<1>5. Answers' /\ Fetches' /\ Caches'
  BY <1>1, <1>2 DEF Answers, Fetches, Caches
<1>6. Results'
  <2> SUFFICES ASSUME NEW r \in BatchRecords
               PROVE  \E v \in ResultOf(r.query).vulns :
                        v[1] = r.id /\ v[2] <= r.modified /\ r.modified = v[2]
    BY <1>1, <1>2 DEF Results
  <2>1. PICK v \in ResultOf(r.query).vulns : r = BatchRecord(r.query, v)
    BY <1>3
  <2>2. v[1] = r.id /\ v[2] = r.modified
    BY <2>1 DEF BatchRecord
  <2>3. r.query \in Queries
    BY <1>3 DEF Record
  <2>4. v[2] \in Nat
    BY <2>3 DEF Answers
  <2> QED BY <2>2, <2>4
<1>7. OneRecordPerKey(result)'
  <2> SUFFICES ASSUME NEW r \in BatchRecords, NEW s \in BatchRecords, KeyOf(r) = KeyOf(s)
               PROVE  r = s
    BY <1>1 DEF OneRecordPerKey
  <2>1. r.query = s.query /\ r.id = s.id
    BY DEF KeyOf
  <2>2. PICK v \in ResultOf(r.query).vulns : r = BatchRecord(r.query, v)
    BY <1>3
  <2>3. PICK w \in ResultOf(r.query).vulns : s = BatchRecord(r.query, w)
    BY <1>3, <2>1
  <2>4. r.query \in Queries
    BY <1>3 DEF Record
  <2>5. v[1] = r.id /\ w[1] = s.id
    BY <2>2, <2>3 DEF BatchRecord
  <2>6. v = w
    BY <2>1, <2>4, <2>5 DEF Answers
  <2> QED BY <2>2, <2>3, <2>6
<1>8. Phases'
  <2>1. \A r \in BatchRecords : ~r.hydrated
    BY <1>3 DEF BatchRecord
  <2>2. partial' # {} => "intel_incomplete" \in deg'
    BY <1>1 DEF BatchDegradations
  <2> QED BY <1>1, <2>1, <2>2 DEF Phases
<1> QED BY <1>4, <1>5, <1>6, <1>7, <1>8
\* What the cache serves at a record's very stamp is as new as the record; the
\* rest is to be fetched, under stamps that batches gave.
LEMMA NeededInv ==
  ASSUME SourceAssumption PROVE IInv /\ Needed => IInv'
<1> SUFFICES ASSUME IInv, Needed PROVE IInv'
  OBVIOUS
<1> USE DEF IInv
<1>1. /\ UNCHANGED <<upstream, wellFormed, cancelled, job, answers, partial, synced,
                     detailFailed, attempt, details, failed, cache, deg, lookups>>
      /\ phase = "collected" /\ phase' = "fetching"
  BY DEF Needed, external, batching, indexes
<1> DEFINE Version(r) == (CHOOSE e \in Cached(r) : TRUE).version
           Of(hits) == (result \ hits) \cup {Hydrate(r, Version(r)) : r \in hits}
<1>2. PICK hits \in SUBSET {r \in result : Cached(r) # {}} :
        /\ result' = Of(hits)
        /\ fetch' = [a \in Advisories |->
                        IF a \in {r.id : r \in result \ hits} THEN "waiting" ELSE "none"]
        /\ validators' \in [Advisories -> {0} \cup {r.modified : r \in result \ hits}]
        /\ \A a \in Advisories :
              IF a \in {r.id : r \in result \ hits}
              THEN \E r \in result \ hits : r.id = a /\ validators'[a] = r.modified
              ELSE validators'[a] = 0
  BY DEF Needed
<1>3. \A q : ResultOf(q)' = ResultOf(q)
  BY <1>1, SameAnswers
<1>4. \A r \in hits : Version(r) \in Nat /\ 1 <= Version(r) /\ r.modified <= Version(r)
  <2> SUFFICES ASSUME NEW r \in hits
               PROVE  Version(r) \in Nat /\ 1 <= Version(r) /\ r.modified <= Version(r)
    OBVIOUS
  <2>1. PICK e : e = CHOOSE x \in Cached(r) : TRUE
    OBVIOUS
  <2>2. e \in Cached(r)
    BY <2>1
  <2>3. e \in cache /\ e.validator = r.modified
    BY <2>2 DEF Cached
  <2> QED BY <2>1, <2>3 DEF Caches, TypeOK, Entry, Stamp
<1> HIDE DEF Version
<1>5. \A r \in result' : \/ r \in result \ hits
                         \/ \E s \in hits : r = Hydrate(s, Version(s))
  BY <1>2
<1>6. \A s \in result : \A v : /\ Hydrate(s, v).query = s.query /\ Hydrate(s, v).id = s.id
                               /\ Hydrate(s, v).hydrated /\ Hydrate(s, v).modified = v
                               /\ v \in Nat => Hydrate(s, v) \in Record
  BY HydrateType DEF TypeOK
<1>7. hits \subseteq result
  OBVIOUS
<1>8. result' \subseteq Record
  BY <1>4, <1>5, <1>6, <1>7 DEF TypeOK
<1>9. \A a \in Advisories : validators'[a] \in Nat /\ validators'[a] <= upstream[a]
  <2> SUFFICES ASSUME NEW a \in Advisories
               PROVE  validators'[a] \in Nat /\ validators'[a] <= upstream[a]
    OBVIOUS
  <2>1. CASE a \notin {r.id : r \in result \ hits}
    BY <1>2, <2>1 DEF Fetches, TypeOK, Stamp
  <2>2. CASE a \in {r.id : r \in result \ hits}
    <3>1. PICK r \in result : r.id = a /\ validators'[a] = r.modified
      BY <1>2, <2>2
    <3>2. ~r.hydrated
      BY <1>1 DEF Phases
    <3>3. PICK v \in ResultOf(r.query).vulns : v[1] = r.id /\ r.modified = v[2]
      BY <3>2 DEF Results
    <3>4. r.query \in Queries
      BY DEF TypeOK, Record
    <3> QED BY <3>1, <3>3, <3>4 DEF Answers
  <2> QED BY <2>1, <2>2
<1>10. TypeOK'
  <2>1. validators' \in [Advisories -> Stamp]
    BY <1>2, <1>9 DEF Stamp
  <2>2. fetch' \in [Advisories -> {"none", "waiting", "sending", "sleeping", "lost", "ended"}]
    BY <1>2
  <2> QED BY <1>1, <1>8, <2>1, <2>2 DEF TypeOK
<1>11. Answers' /\ Caches'
  BY <1>1, <1>3 DEF Answers, Caches
<1>12. Results'
  <2> SUFFICES ASSUME NEW r \in result'
               PROVE  \E v \in ResultOf(r.query).vulns :
                        v[1] = r.id /\ v[2] <= r.modified /\ (~r.hydrated => r.modified = v[2])
    BY <1>3 DEF Results
  <2>1. CASE r \in result \ hits
    BY <2>1 DEF Results
  <2>2. ASSUME NEW s \in hits, r = Hydrate(s, Version(s))
        PROVE  \E v \in ResultOf(r.query).vulns :
                 v[1] = r.id /\ v[2] <= r.modified /\ (~r.hydrated => r.modified = v[2])
    <3>1. PICK v \in ResultOf(s.query).vulns : v[1] = s.id /\ v[2] <= s.modified
      BY <1>7 DEF Results
    <3>2. s.query \in Queries /\ s.modified \in Nat
      BY <1>7 DEF TypeOK, Record, Stamp
    <3>3. v[2] \in Nat
      BY <3>2 DEF Answers
    <3>4. v[2] <= Version(s)
      BY <1>4, <3>1, <3>2, <3>3
    <3>5. r.query = s.query /\ r.id = s.id /\ r.hydrated /\ r.modified = Version(s)
      BY <1>6, <1>7, <2>2
    <3> QED BY <3>1, <3>4, <3>5
  <2> QED BY <1>5, <2>1, <2>2
<1>13. OneRecordPerKey(result)'
  <2>1. \A r \in result' : \E s \in result : /\ KeyOf(s) = KeyOf(r)
                                            /\ r = IF s \in hits THEN Hydrate(s, Version(s)) ELSE s
    BY <1>5, <1>6, <1>7 DEF KeyOf
  <2> QED BY <2>1 DEF OneRecordPerKey
<1>14. Fetches'
  <2>1. \A a \in Advisories : details[a] = 0 /\ fetch'[a] \in {"waiting", "none"}
    BY <1>1, <1>2 DEF Phases
  <2> QED BY <1>1, <1>9, <2>1 DEF Fetches
<1>15. Phases'
  <2>1. \A r \in result' : ~r.hydrated => fetch'[r.id] # "none"
    <3> SUFFICES ASSUME NEW r \in result', ~r.hydrated PROVE fetch'[r.id] # "none"
      OBVIOUS
    <3>1. r \in result \ hits
      BY <1>5, <1>6, <1>7
    <3>2. r.id \in Advisories
      BY <1>8 DEF Record
    <3> QED BY <1>2, <3>1, <3>2
  <2> QED BY <1>1, <2>1 DEF Phases
<1> QED BY <1>8, <1>10, <1>11, <1>12, <1>13, <1>14, <1>15

\* A fetch's goroutine goes on, without its text.
LEMMA FetchGoesOn ==
  ASSUME SourceAssumption, IInv, NEW a \in Advisories, phase = "fetching",
         NEW to \in {"sending", "sleeping", "lost", "ended"},
         UNCHANGED <<upstream, wellFormed, phase, cancelled, job, answers, result, partial,
                     synced, detailFailed, validators, details, cache, deg, lookups>>,
         fetch' = [fetch EXCEPT ![a] = to],
         attempt' \in [Advisories -> 0..Retries],
         \A b \in Advisories : b # a => attempt'[b] = attempt[b],
         failed \subseteq failed' /\ failed' \subseteq Advisories,
         to = "sleeping" => attempt'[a] < Retries,
         to = "ended" => a \in failed' \/ cancelled
  PROVE  IInv'
<1> USE DEF IInv
<1>1. \A q : ResultOf(q)' = ResultOf(q)
  BY SameAnswers
<1>2. fetch' \in [Advisories -> {"none", "waiting", "sending", "sleeping", "lost", "ended"}]
      /\ \A b \in Advisories : fetch'[b] = IF b = a THEN to ELSE fetch[b]
  BY DEF TypeOK
<1>3. TypeOK' /\ OneRecordPerKey(result)' /\ Caches'
  BY <1>2 DEF TypeOK, OneRecordPerKey, Caches
<1>4. Answers' /\ Results'
  BY <1>1 DEF Answers, Results
<1>5. Fetches'
  <2> SUFFICES ASSUME NEW b \in Advisories
               PROVE  /\ fetch'[b] = "ended" => details[b] # 0 \/ b \in failed' \/ cancelled
                      /\ fetch'[b] = "sleeping" => attempt'[b] < Retries
    BY <1>1 DEF Fetches
  <2>1. CASE b = a
    BY <1>2, <2>1
  <2>2. CASE b # a
    BY <1>2, <2>2 DEF Fetches
  <2> QED BY <2>1, <2>2
<1>6. Phases'
  <2>1. \A r \in result : ~r.hydrated => fetch'[r.id] # "none"
    <3> SUFFICES ASSUME NEW r \in result, ~r.hydrated PROVE fetch'[r.id] # "none"
      OBVIOUS
    <3>1. r.id \in Advisories /\ fetch[r.id] # "none"
      BY DEF Phases, TypeOK, Record
    <3> QED BY <1>2, <3>1
  <2> QED BY <2>1 DEF Phases
<1> QED BY <1>3, <1>4, <1>5, <1>6

\* Starting a fetch keeps it.
LEMMA StartFetchInv ==
  ASSUME SourceAssumption, NEW a \in Advisories PROVE IInv /\ StartFetch(a) => IInv'
<1> SUFFICES ASSUME IInv, StartFetch(a) PROVE IInv'
  OBVIOUS
<1>1. attempt \in [Advisories -> 0..Retries] /\ failed \subseteq Advisories
  BY DEF IInv, TypeOK
<1> QED BY <1>1, FetchGoesOn DEF StartFetch, external, batching, indexes

\* A fetch to be tried again keeps it.
LEMMA FetchRetriesInv ==
  ASSUME SourceAssumption, NEW a \in Advisories PROVE IInv /\ FetchRetries(a) => IInv'
<1> SUFFICES ASSUME IInv, FetchRetries(a) PROVE IInv'
  OBVIOUS
<1>1. attempt \in [Advisories -> 0..Retries] /\ failed \subseteq Advisories
  BY DEF IInv, TypeOK
<1> QED BY <1>1, FetchGoesOn DEF FetchRetries, MayRetry, external, batching, indexes

\* A lost fetch keeps it.
LEMMA FetchLostInv ==
  ASSUME SourceAssumption, NEW a \in Advisories PROVE IInv /\ FetchLost(a) => IInv'
<1> SUFFICES ASSUME IInv, FetchLost(a) PROVE IInv'
  OBVIOUS
<1>1. attempt \in [Advisories -> 0..Retries] /\ failed \subseteq Advisories
  BY DEF IInv, TypeOK
<1> QED BY <1>1, FetchGoesOn DEF FetchLost, external, batching, indexes

\* Trying again keeps it.
LEMMA RetryInv ==
  ASSUME SourceAssumption, NEW a \in Advisories PROVE IInv /\ Retry(a) => IInv'
<1> SUFFICES ASSUME IInv, Retry(a) PROVE IInv'
  OBVIOUS
<1>1. attempt \in [Advisories -> 0..Retries] /\ failed \subseteq Advisories /\ Retries \in Nat
  BY DEF IInv, TypeOK, SourceAssumption
<1>2. attempt[a] < Retries /\ attempt' = [attempt EXCEPT ![a] = @ + 1]
  BY DEF Retry, IInv, Fetches
<1>3. attempt' \in [Advisories -> 0..Retries] /\ \A b \in Advisories : b # a => attempt'[b] = attempt[b]
  BY <1>1, <1>2
<1> QED BY <1>1, <1>3, FetchGoesOn DEF Retry, external, batching, indexes

\* Giving up keeps it.
LEMMA GiveUpInv ==
  ASSUME SourceAssumption, NEW a \in Advisories PROVE IInv /\ GiveUp(a) => IInv'
<1> SUFFICES ASSUME IInv, GiveUp(a) PROVE IInv'
  OBVIOUS
<1>1. attempt \in [Advisories -> 0..Retries] /\ failed \subseteq Advisories
  BY DEF IInv, TypeOK
<1>2. failed \subseteq failed' /\ failed' \subseteq Advisories /\ (a \in failed' \/ cancelled)
  BY <1>1 DEF GiveUp
<1> QED BY <1>1, <1>2, FetchGoesOn DEF GiveUp, external, batching, indexes

\* The text that arrives is as new as any stamp the batches gave, the one it is
\* cached under included.
LEMMA FetchOkInv ==
  ASSUME SourceAssumption, NEW a \in Advisories PROVE IInv /\ FetchOk(a) => IInv'
<1> SUFFICES ASSUME IInv, FetchOk(a) PROVE IInv'
  OBVIOUS
<1> USE DEF IInv
<1>1. /\ UNCHANGED <<upstream, wellFormed, phase, cancelled, job, answers, result, partial,
                     synced, detailFailed, validators, attempt, failed, deg, lookups>>
      /\ phase = "fetching"
      /\ fetch' = [fetch EXCEPT ![a] = "ended"]
      /\ details' = [details EXCEPT ![a] = upstream[a]]
      /\ cache' = CacheUnder(a, validators[a], upstream[a])
  BY DEF FetchOk, external, batching, indexes
<1>2. \A q : ResultOf(q)' = ResultOf(q)
  BY <1>1, SameAnswers
<1>3. upstream[a] \in Nat /\ 1 <= upstream[a] /\ validators[a] \in Nat /\ validators[a] <= upstream[a]
  BY DEF Fetches, TypeOK, Stamp
<1>4. \A e \in cache' : e \in cache \/ e = [id |-> a, validator |-> validators[a], version |-> upstream[a]]
  BY <1>1 DEF CacheUnder
<1>5. Caches' /\ cache' \subseteq Entry
  BY <1>3, <1>4 DEF Caches, Entry, TypeOK, Stamp
<1>6. /\ fetch' \in [Advisories -> {"none", "waiting", "sending", "sleeping", "lost", "ended"}]
      /\ \A b \in Advisories : fetch'[b] = IF b = a THEN "ended" ELSE fetch[b]
      /\ details' \in [Advisories -> Stamp]
      /\ \A b \in Advisories : details'[b] = IF b = a THEN upstream[a] ELSE details[b]
  BY <1>1, <1>3 DEF TypeOK, Stamp
<1>7. TypeOK' /\ OneRecordPerKey(result)'
  BY <1>1, <1>5, <1>6 DEF TypeOK, OneRecordPerKey
<1>8. Answers' /\ Results'
  BY <1>1, <1>2 DEF Answers, Results
<1>9. Fetches'
  <2> SUFFICES ASSUME NEW b \in Advisories
               PROVE  /\ details'[b] # 0 => \A q \in Queries : \A v \in ResultOf(q).vulns :
                                              v[1] = b => v[2] <= details'[b]
                      /\ fetch'[b] = "ended" => details'[b] # 0 \/ b \in failed \/ cancelled
                      /\ fetch'[b] = "sleeping" => attempt[b] < Retries
    BY <1>1, <1>2 DEF Fetches
  <2>1. CASE b = a
    <3>1. \A q \in Queries : \A v \in ResultOf(q).vulns : v[1] = a => v[2] <= upstream[a]
      BY DEF Answers
    <3> QED BY <1>3, <1>6, <2>1, <3>1
  <2>2. CASE b # a
    BY <1>6, <2>2 DEF Fetches
  <2> QED BY <2>1, <2>2
<1>10. Phases'
  <2>1. \A r \in result : ~r.hydrated => fetch'[r.id] # "none"
    <3> SUFFICES ASSUME NEW r \in result, ~r.hydrated PROVE fetch'[r.id] # "none"
      OBVIOUS
    <3>1. r.id \in Advisories /\ fetch[r.id] # "none"
      BY <1>1 DEF Phases, TypeOK, Record
    <3> QED BY <1>6, <3>1
  <2> QED BY <1>1, <2>1 DEF Phases
<1> QED BY <1>5, <1>7, <1>8, <1>9, <1>10

\* Every record takes the text fetched for it; one that stays bare is said to be.
LEMMA FinishInv ==
  ASSUME SourceAssumption PROVE IInv /\ Finish => IInv'
<1> SUFFICES ASSUME IInv, Finish PROVE IInv'
  OBVIOUS
<1> USE DEF IInv
<1>1. /\ UNCHANGED <<upstream, wellFormed, cancelled, job, answers, partial, synced,
                     validators, fetch, attempt, details, failed, cache, lookups>>
      /\ phase = "fetching" /\ phase' = "done"
      /\ \A a \in Advisories : fetch[a] \in {"none", "ended"}
      /\ result' = Applied(result)
      /\ detailFailed' = failed
      /\ deg' = deg \cup (IF Affected(result, failed) = {} THEN {} ELSE {"advisory_detail"})
  BY DEF Finish, DetailFailures, external, batching, fetching
<1>2. \A q : ResultOf(q)' = ResultOf(q)
  BY <1>1, SameAnswers
<1>3. \A r \in result' : \E s \in result :
         r = IF details[s.id] # 0 THEN Hydrate(s, details[s.id]) ELSE s
  BY <1>1 DEF Applied
<1>4. \A s \in result : /\ s.id \in Advisories /\ s.query \in Queries /\ details[s.id] \in Nat
                        /\ Hydrate(s, details[s.id]).query = s.query
                        /\ Hydrate(s, details[s.id]).id = s.id
                        /\ Hydrate(s, details[s.id]).hydrated
                        /\ Hydrate(s, details[s.id]).modified = details[s.id]
                        /\ Hydrate(s, details[s.id]) \in Record
  <2> SUFFICES ASSUME NEW s \in result
               PROVE  s \in Record /\ s.id \in Advisories /\ s.query \in Queries
                      /\ details[s.id] \in Nat
    BY HydrateType
  <2>1. s \in Record /\ s.id \in Advisories /\ s.query \in Queries
    BY DEF TypeOK, Record
  <2> QED BY <2>1 DEF TypeOK, Stamp
<1>5. TypeOK'
  <2>1. result' \subseteq Record
    BY <1>3, <1>4 DEF TypeOK
  <2>2. deg' \subseteq SourceKinds /\ detailFailed' \subseteq Advisories
    BY <1>1 DEF TypeOK, SourceKinds
  <2> QED BY <1>1, <2>1, <2>2 DEF TypeOK
<1>6. Answers' /\ Caches'
  BY <1>1, <1>2 DEF Answers, Caches
<1>7. Fetches'
  BY <1>1, <1>2 DEF Fetches
<1>8. Results'
  <2> SUFFICES ASSUME NEW r \in result'
               PROVE  \E v \in ResultOf(r.query).vulns :
                        v[1] = r.id /\ v[2] <= r.modified /\ (~r.hydrated => r.modified = v[2])
    BY <1>2 DEF Results
  <2>1. PICK s \in result : r = IF details[s.id] # 0 THEN Hydrate(s, details[s.id]) ELSE s
    BY <1>3
  <2>2. PICK v \in ResultOf(s.query).vulns : v[1] = s.id /\ v[2] <= s.modified
                                            /\ (~s.hydrated => s.modified = v[2])
    BY DEF Results
  <2>3. CASE details[s.id] = 0
    BY <2>1, <2>2, <2>3
  <2>4. CASE details[s.id] # 0
    <3>1. v[2] <= details[s.id]
      BY <1>4, <2>2, <2>4 DEF Fetches
    <3>2. r.query = s.query /\ r.id = s.id /\ r.hydrated /\ r.modified = details[s.id]
      BY <1>4, <2>1, <2>4
    <3> QED BY <2>2, <3>1, <3>2
  <2> QED BY <2>3, <2>4
<1>9. OneRecordPerKey(result)'
  <2>1. \A r \in result' : \E s \in result :
           /\ KeyOf(s) = KeyOf(r)
           /\ r = IF details[s.id] # 0 THEN Hydrate(s, details[s.id]) ELSE s
    BY <1>3, <1>4 DEF KeyOf
  <2> QED BY <2>1 DEF OneRecordPerKey
<1>10. ASSUME ~cancelled, NEW r \in result', ~r.hydrated
       PROVE  r.id \in detailFailed' /\ "advisory_detail" \in deg'
  <2>1. PICK s \in result : r = IF details[s.id] # 0 THEN Hydrate(s, details[s.id]) ELSE s
    BY <1>3
  <2>2. details[s.id] = 0 /\ r = s
    BY <1>4, <1>10, <2>1
  <2>3. fetch[s.id] # "none"
    BY <1>1, <1>10, <2>2 DEF Phases
  <2>4. fetch[s.id] = "ended"
    BY <1>1, <1>4, <2>3
  <2>5. s.id \in failed
    BY <1>4, <1>10, <2>2, <2>4 DEF Fetches
  <2>6. s \in Affected(result, failed)
    BY <2>5 DEF Affected
  <2> QED BY <1>1, <2>2, <2>5, <2>6
<1>11. Phases'
  BY <1>1, <1>10 DEF Phases
<1> QED BY <1>5, <1>6, <1>7, <1>8, <1>9, <1>11

\* Every step keeps the invariant.
LEMMA StepInv ==
  ASSUME SourceAssumption PROVE IInv /\ [Next]_vars => IInv'
<1> SUFFICES ASSUME IInv, [Next]_vars PROVE IInv'
  OBVIOUS
<1>1. CASE Start
  BY <1>1, StartInv
<1>2. CASE Cancel
  BY <1>2, CancelInv
<1>3. ASSUME NEW a \in Advisories, Publish(a) PROVE IInv'
  BY <1>3, PublishInv
<1>4. ASSUME NEW j \in Jobs, SendBatch(j) \/ BatchEnds(j) PROVE IInv'
  BY <1>4, SendBatchInv, BatchAnsweredInv, BatchFailsInv DEF BatchEnds
<1>5. CASE Collect
  BY <1>5, CollectInv
<1>6. CASE Needed
  BY <1>6, NeededInv
<1>7. ASSUME NEW a \in Advisories, FetchStep(a) PROVE IInv'
  BY <1>7, StartFetchInv, FetchOkInv, FetchRetriesInv, FetchLostInv, RetryInv, GiveUpInv
     DEF FetchStep
<1>8. CASE Finish
  BY <1>8, FinishInv
<1>9. CASE UNCHANGED vars
  <2>1. UNCHANGED <<upstream, wellFormed, phase, cancelled, job, answers, result, partial,
                    synced, detailFailed, validators, fetch, attempt, details, failed,
                    cache, deg, lookups>>
    BY <1>9 DEF vars, external, batching, indexes, fetching
  <2>2. job' \in [Jobs -> {"waiting", "sending", "answered", "failed"}]
    BY <2>1 DEF IInv, TypeOK
  <2> QED BY <2>1, <2>2, Untouched
<1> QED BY <1>1, <1>2, <1>3, <1>4, <1>5, <1>6, <1>7, <1>8, <1>9 DEF Next, LookupStep

-----------------------------------------------------------------------------
(* The invariant is one, and what follows from it.                           *)

\* Every reachable state of the source's lookups satisfies the invariant.
THEOREM Invariant == Spec => []IInv
<1>1. Init => IInv
  BY InitInv, SourceAssumption
<1>2. IInv /\ [Next]_vars => IInv'
  BY StepInv, SourceAssumption
<1> QED BY <1>1, <1>2, PTL DEF Spec

\* The goroutines of Lookup keep every variable in its type: no retry is made
\* beyond the limit, and each batch's answer stays a result per place.
THEOREM TypeCorrect == Spec => []TypeOK
<1>1. IInv => TypeOK
  BY DEF IInv
<1> QED BY <1>1, Invariant, PTL

\* The batches put back together give no package another's advisory.
THEOREM RightPackages == Spec => []RightPackage
<1>1. IInv => RightPackage
  <2> SUFFICES ASSUME IInv, NEW r \in result PROVE r.id \in Affects[r.query]
    BY DEF RightPackage
  <2>1. r.query \in Queries
    BY DEF IInv, TypeOK, Record
  <2> QED BY <2>1 DEF IInv, Results, Answers
<1> QED BY <1>1, Invariant, PTL

\* A record's text is at least as new as the batch said, from the cache too.
THEOREM FreshTexts == Spec => []FreshText
<1>1. IInv => FreshText
  <2> SUFFICES ASSUME IInv, NEW r \in result
               PROVE  \E v \in ResultOf(r.query).vulns : v[1] = r.id /\ r.modified >= v[2]
    BY DEF FreshText
  <2>1. PICK v \in ResultOf(r.query).vulns : v[1] = r.id /\ v[2] <= r.modified
    BY DEF IInv, Results
  <2>2. r.query \in Queries /\ r.modified \in Nat
    BY DEF IInv, TypeOK, Record, Stamp
  <2>3. v[2] \in Nat
    BY <2>2 DEF IInv, Answers
  <2> QED BY <2>1, <2>2, <2>3
<1> QED BY <1>1, Invariant, PTL

\* What Lookup returns, with what the optional interfaces then report, is a
\* reply the verifier may rely on, unless the caller gave up.
THEOREM KeepsItsContract == Spec => []ReplyKeepsContract
<1>1. IInv => ReplyKeepsContract
  <2> SUFFICES ASSUME IInv, phase \in {"done", "error"}, ~cancelled
               PROVE  KeepsContract(ReplyOf)
    BY DEF ReplyKeepsContract
  <2>1. OneRecordPerKey(result)
    BY DEF IInv
  <2>2. phase = "error" => result = {} /\ deg = {} /\ partial = {}
    BY DEF IInv, Phases
  <2>3. phase = "done" /\ partial # {} => "intel_incomplete" \in deg
    BY DEF IInv, Phases
  <2>4. \A r \in result : ~r.hydrated => r.id \in detailFailed /\ "advisory_detail" \in deg
    BY <2>2 DEF IInv, Phases
  <2>5. partial # {} => "intel_incomplete" \in deg
    BY <2>2, <2>3
  <2> QED BY <2>1, <2>2, <2>4, <2>5 DEF KeepsContract, ReplyOf
<1> QED BY <1>1, Invariant, PTL

-----------------------------------------------------------------------------
(* The places of a batch leave no gap: an answer with a result per query     *)
(* has one for each of them.                                                 *)

\* What dividing by the size of a batch leaves.
LEMMA Division ==
  ASSUME NEW n \in Nat, NEW b \in Nat \ {0}
  PROVE  /\ n \div b \in Nat
         /\ b * (n \div b) \in Nat /\ b * (n \div b) <= n
         /\ \A k \in Nat : n \div b < k => n < b * k
<1> DEFINE d == n \div b
<1>1. d \in Nat /\ b * d <= n /\ n < b * d + b
  OBVIOUS
<1> HIDE DEF d
<1>2. b * d \in Nat
  BY <1>1
<1>3. ASSUME NEW k \in Nat, d < k PROVE n < b * k
  <2>1. \E i \in Nat : k = d + 1 + i
    <3>1. k - d - 1 \in Nat /\ k = d + 1 + (k - d - 1)
      BY <1>1, <1>3
    <3> QED BY <3>1
  <2>2. PICK i \in Nat : k = d + 1 + i
    BY <2>1
  <2>3. b * k = b * d + b + b * i /\ b * i \in Nat
    BY <1>1, <2>2
  <2> QED BY <1>1, <1>2, <2>3
<1> QED BY <1>1, <1>2, <1>3 DEF d

\* The places of a batch leave no gap: each is below the number of its queries.
LEMMA PlaceInBatch ==
  ASSUME SourceAssumption, NEW q \in Queryable
  PROVE  PlaceOf(q) \in Nat /\ PlaceOf(q) < Cardinality(InJob(JobOf(q)))
<1> DEFINE j == JobOf(q)
           start == BatchLimit * j
           Below == {p \in Queryable : p < q}
           Early == {p \in Below : JobOf(p) < j}
           Same == {p \in Below : JobOf(p) = j}
<1>1. BatchLimit \in Nat \ {0} /\ IsFiniteSet(Queryable) /\ Queryable \subseteq Nat
  BY FS_Subset DEF SourceAssumption
<1>2. \A p \in Queryable : Rank(p) \in Nat
  BY RankType
<1>3. \A p \in Queryable : JobOf(p) \in Nat
  BY <1>1, <1>2, Division DEF JobOf
<1>4. j \in Nat /\ start \in Nat /\ start <= Rank(q)
  BY <1>1, <1>2, <1>3, Division DEF JobOf
<1>5. IsFiniteSet(Below) /\ IsFiniteSet(Early) /\ IsFiniteSet(Same)
  <2>1. Below \in SUBSET Queryable /\ Early \in SUBSET Queryable /\ Same \in SUBSET Queryable
    OBVIOUS
  <2> HIDE DEF Below, Early, Same
  <2> QED BY <1>1, <2>1, FS_Subset
<1>6. Below = Early \cup Same /\ Early \cap Same = {}
  <2>1. ASSUME NEW p \in Below PROVE JobOf(p) < j \/ JobOf(p) = j
    <3>1. Rank(p) < Rank(q)
      BY <2>1, RankOrders
    <3>2. CASE j < JobOf(p)
      <4>1. Rank(q) < BatchLimit * JobOf(p)
        BY <1>1, <1>2, <1>3, <3>2, Division DEF JobOf
      <4>2. BatchLimit * JobOf(p) <= Rank(p) /\ BatchLimit * JobOf(p) \in Nat
        BY <1>1, <1>2, Division DEF JobOf
      <4> QED BY <1>2, <3>1, <4>1, <4>2
    <3> QED BY <1>3, <1>4, <3>2
  <2>2. \A p \in Below : ~(JobOf(p) < j /\ JobOf(p) = j)
    BY <1>3, <1>4
  <2> QED BY <2>1, <2>2
<1>7. Cardinality(Early) <= start
  <2> DEFINE f == [p \in Early |-> Rank(p)]
             Ranks == 0..(start - 1)
  <2>1. ASSUME NEW p \in Early PROVE Rank(p) \in Ranks
    <3>1. Rank(p) < start
      BY <1>1, <1>2, <1>4, Division DEF JobOf
    <3> QED BY <1>2, <1>4, <3>1
  <2>2. \A p, r \in Early : Rank(p) = Rank(r) => p = r
    <3> SUFFICES ASSUME NEW p \in Early, NEW r \in Early, Rank(p) = Rank(r)
                 PROVE  p = r
      OBVIOUS
    <3>1. JobOf(p) = JobOf(r) /\ PlaceOf(p) = PlaceOf(r)
      BY DEF JobOf, PlaceOf
    <3> QED BY <3>1, OwnPlace
  <2>3. f \in Injection(Early, Ranks)
    BY <2>1, <2>2 DEF Injection, IsInjective
  <2>4. IsFiniteSet(Ranks) /\ Cardinality(Ranks) <= start
    <3> HIDE DEF start
    <3>1. start - 1 \in Int /\ (0 > start - 1 <=> start = 0)
      BY <1>4
    <3>2. IsFiniteSet(0..(start - 1)) /\ Cardinality(0..(start - 1))
                = IF 0 > start - 1 THEN 0 ELSE (start - 1) - 0 + 1
      BY <3>1, FS_Interval
    <3> QED BY <1>4, <3>1, <3>2
  <2>5. Cardinality(Early) <= Cardinality(Ranks)
    <3> HIDE DEF f, Ranks, Early
    <3> QED BY <2>3, <2>4, FS_Injection
  <2>6. Cardinality(Early) \in Nat /\ Cardinality(Ranks) \in Nat
    BY <1>5, <2>4, FS_CardinalityType
  <2> HIDE DEF Ranks, Early
  <2> QED BY <1>4, <2>4, <2>5, <2>6
<1>8. Rank(q) = Cardinality(Early) + Cardinality(Same)
  <2> HIDE DEF Early, Same
  <2>1. Cardinality(Early \cup Same) = Cardinality(Early) + Cardinality(Same) - Cardinality({})
    BY <1>5, <1>6, FS_Union
  <2>2. Rank(q) = Cardinality(Below)
    BY DEF Rank
  <2>3. Cardinality(Early) \in Nat /\ Cardinality(Same) \in Nat
    BY <1>5, FS_CardinalityType
  <2>4. Cardinality({}) = 0
    BY FS_EmptySet
  <2> HIDE DEF Below
  <2>5. Rank(q) = Cardinality(Early \cup Same)
    BY <1>6, <2>2
  <2> QED BY <2>1, <2>3, <2>4, <2>5
<1>9. Cardinality(Same) < Cardinality(InJob(j))
  <2>1. Same \cup {q} \in SUBSET InJob(j) /\ q \notin Same
    BY <1>1 DEF InJob
  <2>2. IsFiniteSet(InJob(j))
    BY <1>1, FS_Subset DEF InJob
  <2> HIDE DEF Same, j
  <2>3. Cardinality(Same \cup {q}) <= Cardinality(InJob(j))
    BY <2>1, <2>2, FS_Subset
  <2>4. Cardinality(Same \cup {q}) = Cardinality(Same) + 1
    BY <1>5, <2>1, FS_AddElement
  <2>5. Cardinality(Same) \in Nat /\ Cardinality(InJob(j)) \in Nat
    BY <1>5, <2>2, FS_CardinalityType
  <2> QED BY <2>3, <2>4, <2>5
<1>10. PlaceOf(q) = Rank(q) - start
  BY DEF PlaceOf
<1>11. Cardinality(Early) \in Nat /\ Cardinality(Same) \in Nat /\ Cardinality(InJob(j)) \in Nat
  <2>1. IsFiniteSet(InJob(j))
    BY <1>1, FS_Subset DEF InJob
  <2> HIDE DEF Early, Same, j
  <2> QED BY <1>5, <2>1, FS_CardinalityType
<1> HIDE DEF Early, Same, start
<1> QED BY <1>2, <1>4, <1>7, <1>8, <1>9, <1>10, <1>11

-----------------------------------------------------------------------------
(* Nothing reads as clean, when answers have a result for each query.        *)

\* A batch that was answered says of each of its queries everything that
\* affects it, unless it says that it is partial.
SaysAll(q) ==
  \/ ResultOf(q).coverage = "partial"
  \/ \A a \in Affects[q] : \E v \in ResultOf(q).vulns : v[1] = a

AnsweredInFull == \A q \in Queryable : job[JobOf(q)] = "answered" => SaysAll(q)

\* Once the answers are in, a lookup that does not say it failed has put every
\* one of them in its result.
Shown ==
  phase \in {"collected", "fetching", "done"} /\ "osv_lookup" \notin deg =>
    /\ \A j \in Jobs : job[j] = "answered"
    /\ partial = PartialQueries
    /\ \A q \in Queries : \A v \in ResultOf(q).vulns : <<q, v[1]>> \in KeysOf(result)

FullInv == AnsweredInFull /\ Shown

\* A batch answered with as many results as queries says all, or says partial.
LEMMA AnsweredInFullByService ==
  ASSUME SourceAssumption, TypeOK, NEW q \in Queryable, NEW coverage, NEW empty \in BOOLEAN,
         empty => coverage = "partial",
         answers' = [answers EXCEPT ![JobOf(q)] = HonestAnswer(JobOf(q), coverage, 0, empty)],
         upstream' = upstream
  PROVE  SaysAll(q)'
<1> DEFINE j == JobOf(q)
           answer == HonestAnswer(j, coverage, 0, empty)
           At == CHOOSE p \in InJob(j) : PlaceOf(p) = PlaceOf(q)
<1>1. j \in DOMAIN answers
  BY DEF TypeOK, Jobs
<1>2. q \in InJob(j)
  BY DEF InJob
<1>3. PlaceOf(q) \in DOMAIN answer
  <2>1. PlaceOf(q) + 0 < Cardinality(InJob(j))
    BY PlaceInBatch
  <2> QED BY <1>2, <2>1 DEF HonestAnswer
<1>4. ResultOf(q)' = answer[PlaceOf(q)]
  <2>1. answers'[j] = answer
    BY <1>1
  <2> HIDE DEF answer, j
  <2> QED BY <1>3, <2>1 DEF ResultOf, j
<1>5. At = q
  <2>1. At \in InJob(j) /\ PlaceOf(At) = PlaceOf(q)
    BY <1>2
  <2> HIDE DEF At
  <2> QED BY <2>1, OwnPlace DEF InJob
<1>6. answer[PlaceOf(q)]
        = [vulns |-> IF empty THEN {} ELSE Matching(At), coverage |-> coverage]
  BY <1>3 DEF HonestAnswer
<1> HIDE DEF answer, At
<1>7. CASE empty
  BY <1>4, <1>6, <1>7 DEF SaysAll
<1>8. CASE ~empty
  <2>1. ResultOf(q)'.vulns = Matching(q)
    BY <1>4, <1>5, <1>6, <1>8
  <2>2. \A a \in Affects[q] : \E v \in Matching(q) : v[1] = a
    <3> SUFFICES ASSUME NEW a \in Affects[q] PROVE \E v \in Matching(q) : v[1] = a
      OBVIOUS
    <3>1. <<a, upstream[a]>> \in Matching(q) /\ <<a, upstream[a]>>[1] = a
      BY DEF Matching
    <3> QED BY <3>1, Zenon
  <2> QED BY <2>1, <2>2 DEF SaysAll
<1> QED BY <1>7, <1>8

\* What the answers say is untouched by a step that leaves them alone.
LEMMA SameSays ==
  ASSUME answers' = answers
  PROVE  \A q : SaysAll(q)' <=> SaysAll(q)
BY SameAnswers DEF SaysAll

\* Records that are shown stay shown while the answer only grows.
LEMMA KeysStay ==
  ASSUME TypeOK, phase' # "collected", "osv_lookup" \notin deg' => "osv_lookup" \notin deg,
         phase \in {"collected", "fetching", "done"},
         UNCHANGED <<answers, job, partial>>, KeysOf(result) \subseteq KeysOf(result'),
         Shown
  PROVE  Shown'
<1>1. \A q : ResultOf(q)' = ResultOf(q)
  BY SameAnswers
<1>2. PartialQueries' = PartialQueries
  BY <1>1 DEF PartialQueries
<1>3. KeysOf(result)' = KeysOf(result')
  BY DEF KeysOf
<1> QED BY <1>1, <1>2, <1>3 DEF Shown

\* Every step keeps that answers are full and shown, when none is short.
LEMMA FullStep ==
  ASSUME SourceAssumption, Shortfalls \subseteq {0}, IInv, FullInv, [Next]_vars
  PROVE  FullInv'
<1> USE DEF FullInv
<1>0. TypeOK
  BY DEF IInv
<1>1. CASE Start
  <2>1. \A q \in Queryable : job'[JobOf(q)] = "waiting"
    BY <1>1 DEF Start, Jobs
  <2>2. phase' \in {"batching", "error"}
    BY <1>1 DEF Start
  <2> QED BY <2>1, <2>2 DEF AnsweredInFull, Shown
<1>2. ASSUME NEW j \in Jobs, SendBatch(j) \/ BatchFails(j) PROVE FullInv'
  <2>1. /\ phase' = "batching" /\ answers' = answers
        /\ \A i \in Jobs : job'[i] = "answered" => job[i] = "answered"
    BY <1>0, <1>2 DEF SendBatch, BatchFails, TypeOK
  <2>2. \A q \in Queryable : JobOf(q) \in Jobs
    BY DEF Jobs
  <2> QED BY <2>1, <2>2, SameSays DEF AnsweredInFull, Shown
<1>3. ASSUME NEW j \in Jobs, BatchAnswered(j) PROVE FullInv'
  <2>1. PICK coverage \in Coverages, short \in Shortfalls, empty \in BOOLEAN :
           /\ empty => coverage = "partial"
           /\ answers' = [answers EXCEPT ![j] = HonestAnswer(j, coverage, short, empty)]
    BY <1>3 DEF BatchAnswered
  <2>2. /\ short = 0 /\ phase' = "batching" /\ upstream' = upstream
        /\ \A i \in Jobs : i # j => job'[i] = job[i]
    BY <1>0, <1>3 DEF BatchAnswered, TypeOK, external
  <2>3. ASSUME NEW q \in Queryable, job'[JobOf(q)] = "answered" PROVE SaysAll(q)'
    <3>1. CASE JobOf(q) = j
      BY <1>0, <2>1, <2>2, <3>1, AnsweredInFullByService
    <3>2. CASE JobOf(q) # j
      <4>1. JobOf(q) \in Jobs /\ DOMAIN answers = Jobs
        BY <1>0 DEF Jobs, TypeOK
      <4>2. answers'[JobOf(q)] = answers[JobOf(q)]
        BY <2>1, <3>2, <4>1
      <4>3. ResultOf(q)' = ResultOf(q)
        BY <4>2 DEF ResultOf
      <4>4. SaysAll(q)
        BY <2>2, <2>3, <3>2, <4>1 DEF AnsweredInFull
      <4> QED BY <4>3, <4>4 DEF SaysAll
    <3> QED BY <3>1, <3>2
  <2> QED BY <2>2, <2>3 DEF AnsweredInFull, Shown
<1>4. CASE Collect
  <2>1. /\ UNCHANGED <<answers, job>> /\ phase' = "collected"
        /\ \A j \in Jobs : job[j] \in {"answered", "failed"}
        /\ result' = BatchRecords /\ partial' = PartialQueries
        /\ deg' = BatchDegradations
    BY <1>4 DEF Collect, batching
  <2>2. "osv_lookup" \notin deg' => \A j \in Jobs : job'[j] = "answered"
    BY <2>1 DEF BatchDegradations
  <2>3. \A q : ResultOf(q)' = ResultOf(q)
    BY <2>1, SameAnswers
  <2>4. PartialQueries' = PartialQueries
    BY <2>3 DEF PartialQueries
  <2>5. ASSUME NEW q \in Queries, NEW v \in ResultOf(q).vulns
        PROVE  <<q, v[1]>> \in KeysOf(result')
    <3>1. BatchRecord(q, v) \in result'
      BY <2>1 DEF BatchRecords
    <3>2. KeyOf(BatchRecord(q, v)) = <<q, v[1]>>
      BY DEF KeyOf, BatchRecord
    <3> QED BY <3>1, <3>2 DEF KeysOf
  <2>6. KeysOf(result)' = KeysOf(result')
    BY DEF KeysOf
  <2> QED BY <2>1, <2>2, <2>3, <2>4, <2>5, <2>6, SameSays DEF AnsweredInFull, Shown
<1>5. CASE Needed
  <2> DEFINE Version(r) == (CHOOSE e \in Cached(r) : TRUE).version
  <2>1. PICK hits \in SUBSET {r \in result : Cached(r) # {}} :
          result' = (result \ hits) \cup {Hydrate(r, Version(r)) : r \in hits}
    BY <1>5 DEF Needed
  <2> HIDE DEF Version
  <2>2. \A r \in result : \E s \in result' : KeyOf(s) = KeyOf(r)
    <3> SUFFICES ASSUME NEW r \in result PROVE \E s \in result' : KeyOf(s) = KeyOf(r)
      OBVIOUS
    <3>1. CASE r \in hits
      <4>1. Hydrate(r, Version(r)) \in result'
        BY <2>1, <3>1
      <4>2. r \in Record
        BY <1>0 DEF TypeOK
      <4> QED BY <4>1, <4>2, HydrateType DEF KeyOf
    <3>2. CASE r \notin hits
      BY <2>1, <3>2
    <3> QED BY <3>1, <3>2
  <2>3. KeysOf(result) \subseteq KeysOf(result')
    BY <2>2 DEF KeysOf
  <2>4. /\ UNCHANGED <<answers, job, partial, deg>>
        /\ phase = "collected" /\ phase' = "fetching"
    BY <1>5 DEF Needed, batching, indexes
  <2> QED BY <1>0, <2>3, <2>4, KeysStay, SameSays DEF AnsweredInFull
<1>6. CASE Finish
  <2>1. \A r \in result : \E s \in result' : KeyOf(s) = KeyOf(r)
    <3> SUFFICES ASSUME NEW r \in result PROVE \E s \in result' : KeyOf(s) = KeyOf(r)
      OBVIOUS
    <3>1. (IF details[r.id] # 0 THEN Hydrate(r, details[r.id]) ELSE r) \in result'
      BY <1>6 DEF Finish, Applied
    <3>2. r \in Record
      BY <1>0 DEF TypeOK
    <3> QED BY <3>1, <3>2, HydrateType DEF KeyOf
  <2>2. KeysOf(result) \subseteq KeysOf(result')
    BY <2>1 DEF KeysOf
  <2>3. /\ UNCHANGED <<answers, job, partial>> /\ deg \subseteq deg'
        /\ phase = "fetching" /\ phase' = "done"
    BY <1>6 DEF Finish, batching
  <2> QED BY <1>0, <2>2, <2>3, KeysStay, SameSays DEF AnsweredInFull
<1>7. ASSUME \/ Cancel \/ UNCHANGED vars \/ \E a \in Advisories : Publish(a)
             \/ \E a \in Advisories : FetchStep(a)
      PROVE  FullInv'
  <2>1. UNCHANGED <<phase, answers, job, partial, result, deg>>
    <3>1. CASE Cancel \/ UNCHANGED vars
      BY <3>1 DEF Cancel, vars, batching, indexes
    <3>2. CASE \E a \in Advisories : Publish(a)
      BY <3>2 DEF Publish, batching, indexes
    <3>3. CASE \E a \in Advisories : FetchStep(a)
      BY <3>3 DEF FetchStep, StartFetch, FetchOk, FetchRetries, FetchLost, Retry, GiveUp,
                  batching, indexes
    <3> QED BY <1>7, <3>1, <3>2, <3>3
  <2>2. \A q : ResultOf(q)' = ResultOf(q)
    BY <2>1, SameAnswers
  <2>3. PartialQueries' = PartialQueries /\ KeysOf(result)' = KeysOf(result)
    BY <2>1, <2>2 DEF PartialQueries, KeysOf
  <2> QED BY <2>1, <2>2, <2>3, SameSays DEF AnsweredInFull, Shown
<1> QED BY <1>1, <1>2, <1>3, <1>4, <1>5, <1>6, <1>7 DEF Next, LookupStep, BatchEnds

\* When every answer has a result for each query it was asked, a finished
\* lookup that does not say it failed has, for each query it does not call
\* partial, every advisory that affects it.
THEOREM NoFalseClean ==
  ASSUME Shortfalls \subseteq {0}
  PROVE  Spec => []NothingReadsAsClean
<1>1. Init => FullInv
  <2> SUFFICES ASSUME Init PROVE FullInv
    OBVIOUS
  <2>1. \A q \in Queryable : job[JobOf(q)] = "waiting"
    BY DEF Init, Jobs
  <2> QED BY <2>1 DEF Init, FullInv, AnsweredInFull, Shown
<1>2. IInv /\ FullInv /\ [Next]_vars => FullInv'
  BY FullStep, SourceAssumption
<1>3. IInv /\ FullInv => NothingReadsAsClean
  <2> SUFFICES ASSUME IInv, FullInv, phase = "done", "osv_lookup" \notin deg,
                      NEW q \in Queryable, q \notin partial, NEW a \in Affects[q]
               PROVE  <<q, a>> \in KeysOf(result)
    BY DEF NothingReadsAsClean
  <2>1. q \in Queries /\ JobOf(q) \in Jobs
    BY SourceAssumption DEF SourceAssumption, Jobs
  <2>2. /\ job[JobOf(q)] = "answered" /\ partial = PartialQueries
        /\ \A v \in ResultOf(q).vulns : <<q, v[1]>> \in KeysOf(result)
    BY <2>1 DEF FullInv, Shown
  <2>3. ResultOf(q).coverage # "partial"
    BY <2>1, <2>2 DEF PartialQueries
  <2>4. \E v \in ResultOf(q).vulns : v[1] = a
    BY <2>2, <2>3 DEF FullInv, AnsweredInFull, SaysAll
  <2> QED BY <2>2, <2>4
<1> QED BY <1>1, <1>2, <1>3, Invariant, PTL DEF Spec
=============================================================================
