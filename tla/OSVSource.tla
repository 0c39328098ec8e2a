----------------------------- MODULE OSVSource -----------------------------
(***************************************************************************)
(* Source.Lookup of package vulnsource/osv: the queries OSV understands    *)
(* are cut into batches that are sent concurrently; the advisories they    *)
(* match are then hydrated, each from the cache or by a fetch that retries *)
(* within limits, concurrently too; and the caller's context may end at    *)
(* any moment.  Lookups of one Source follow each other, so that what one  *)
(* left in the cache meets the next.                                       *)
(*                                                                         *)
(* The service is external: upstream[a] is the version of advisory a, and  *)
(* the stamp a batch answer gives it.  An answer or a fetch may fail in    *)
(* every way the code tells apart.                                         *)
(***************************************************************************)
EXTENDS SourceContract

CONSTANTS Queryable,          \* queries whose ecosystem OSV understands
          Affects,            \* Affects[q]: the advisories that match q
          BatchLimit,         \* queries per batch
          BatchConcurrency,   \* batches in flight
          HydrateConcurrency, \* fetches in flight
          Retries,            \* retries of one fetch
          Coverages,          \* what a batch answer may say of its coverage
          Shortfalls,         \* by how many results an answer may fall short
          MaxVersion,         \* bound: versions of one advisory
          MaxLookups          \* bound: Lookups made in one behaviour

AllCoverages == {"unreported", "complete", "mirror", "partial"}

ASSUME SourceAssumption ==
    /\ Queries \subseteq Nat /\ IsFiniteSet(Queries) /\ Queryable \subseteq Queries
    /\ Affects \in [Queries -> SUBSET Advisories]
    /\ BatchLimit \in Nat \ {0}
    /\ BatchConcurrency \in Nat \ {0}
    /\ HydrateConcurrency \in Nat \ {0}
    /\ Retries \in Nat
    /\ Coverages \subseteq AllCoverages
    /\ Shortfalls \subseteq Nat
    /\ MaxVersion \in Nat /\ MaxLookups \in Nat

VARIABLES
    upstream,    \* upstream[a]: the version of a that the service has
    wellFormed,  \* the base URL parses
    phase,       \* where Lookup is
    cancelled,   \* the caller's context has ended
    job,         \* job[j]: the goroutine of batch j
    answers,     \* answers[j]: the results of batch j, by place in the batch
    result,      \* the records found, as Lookup returns them
    partial, synced, detailFailed,     \* the three "most recent" indexes
    validators,  \* validators[a]: the stamp a's detail will be cached under
    fetch,       \* fetch[a]: the goroutine that hydrates a
    attempt,     \* attempt[a]: retries made of it
    details,     \* details[a]: the version fetched, 0 for none
    failed,      \* advisories whose fetch failed
    cache,       \* the advisory cache
    deg,         \* what this lookup recorded
    lookups      \* Lookups started, at most MaxLookups

external == <<upstream, wellFormed>>
batching == <<job, answers>>
indexes  == <<partial, synced, detailFailed>>
fetching == <<validators, fetch, attempt, details, failed>>
vars     == <<external, phase, cancelled, batching, result, indexes, fetching,
              cache, deg, lookups>>

-----------------------------------------------------------------------------
(* The cutting of the queries into batches, and back.                      *)

Rank(q) == Cardinality({p \in Queryable : p < q})
JobOf(q) == Rank(q) \div BatchLimit
PlaceOf(q) == Rank(q) - BatchLimit * JobOf(q)
Jobs == {JobOf(q) : q \in Queryable}
InJob(j) == {q \in Queryable : JobOf(q) = j}

(* What one lookup found for one query: the advisories with their stamps,  *)
(* and the coverage stated.                                                *)
BatchResult == [vulns : SUBSET (Advisories \X Stamp), coverage : AllCoverages]
Nothing == [vulns |-> {}, coverage |-> "unreported"]

Matching(q) == {<<a, upstream[a]>> : a \in Affects[q]}

(* A service answers a batch in the order of its queries.  An answer it    *)
(* calls partial may lack every record.                                    *)
HonestAnswer(j, coverage, short, empty) ==
    LET size == Cardinality(InJob(j))
        places == {PlaceOf(q) : q \in InJob(j)}
        At(p) == CHOOSE q \in InJob(j) : PlaceOf(q) = p
    IN  [p \in {p \in places : p + short < size} |->
            [vulns |-> IF empty THEN {} ELSE Matching(At(p)),
             coverage |-> coverage]]

(* The result of query q in the answers, results beyond the batch ignored; *)
(* Nothing when its batch failed or answered fewer results.                *)
ResultOfRank(q) ==                      \* slip: the index before the filter
    LET at == Cardinality({p \in Queries : p < q})
        j == at \div BatchLimit
        p == at % BatchLimit
    IN  IF j \in Jobs /\ p \in DOMAIN answers[j] THEN answers[j][p] ELSE Nothing
ResultOf(q) ==
    IF q \in Queryable /\ PlaceOf(q) \in DOMAIN answers[JobOf(q)]
    THEN answers[JobOf(q)][PlaceOf(q)] ELSE Nothing

(* Completeness = Partial, and mirrorSyncedAt. *)
PartialQueries == {q \in Queries : ResultOf(q).coverage = "partial"}
SyncedAt == [q \in Queries |-> IF ResultOf(q).coverage = "mirror" THEN 1 ELSE 0]

BatchRecord(q, v) == [query |-> q, id |-> v[1], modified |-> v[2],
                      published |-> 0, hydrated |-> FALSE]
BatchRecords == UNION {{BatchRecord(q, v) : v \in ResultOf(q).vulns} : q \in Queries}

-----------------------------------------------------------------------------
(* Detail: the cache is keyed by advisory and by the batch's stamp.        *)

Entry == [id : Advisories, validator : Stamp, version : Stamp]

Key2(e) == <<e.id, e.validator>>
CacheUnder(id, validator, version) ==
    {e \in cache : Key2(e) # <<id, validator>>}
        \cup {[id |-> id, validator |-> validator, version |-> version]}

CachedById(r) == {e \in cache : e.id = r.id}     \* slip: any version serves
Cached(r) == {e \in cache : e.id = r.id /\ e.validator = r.modified}

Hydrate(r, version) ==
    [r EXCEPT !.modified = version, !.published = 1, !.hydrated = TRUE]

(* applyVulnDetails, on every record of an advisory that was fetched. *)
Applied(recs) ==
    {IF details[r.id] # 0 THEN Hydrate(r, details[r.id]) ELSE r : r \in recs}

Affected(recs, ids) == {r \in recs : r.id \in ids}

Running(js) == {j \in Jobs : job[j] = js}
InFlightForever ==                      \* slip: no slot is given back
    {a \in Advisories : fetch[a] \in {"sending", "sleeping", "lost", "ended"}}
InFlight == {a \in Advisories : fetch[a] \in {"sending", "sleeping", "lost"}}

-----------------------------------------------------------------------------
NoneSynced == [q \in Queries |-> 0]

Init ==
    /\ upstream = [a \in Advisories |-> 1]
    /\ wellFormed \in BOOLEAN
    /\ phase = "idle"
    /\ cancelled = FALSE
    /\ job = [j \in Jobs |-> "waiting"]
    /\ answers = [j \in Jobs |-> <<>>]
    /\ result = {}
    /\ partial = {} /\ synced = NoneSynced /\ detailFailed = {}
    /\ validators = [a \in Advisories |-> 0]
    /\ fetch = [a \in Advisories |-> "none"]
    /\ attempt = [a \in Advisories |-> 0]
    /\ details = [a \in Advisories |-> 0]
    /\ failed = {}
    /\ cache = {}
    /\ deg = {}
    /\ lookups = 0

(* The service changes an advisory. *)
Publish(a) ==
    /\ upstream[a] < MaxVersion
    /\ upstream' = [upstream EXCEPT ![a] = @ + 1]
    /\ UNCHANGED <<wellFormed, phase, cancelled, batching, result, indexes,
                   fetching, cache, deg, lookups>>

(* Request bodies are built first; a malformed base URL fails the lookup   *)
(* before anything is sent.                                                *)
Start ==
    /\ phase \in {"idle", "done", "error"}
    /\ lookups < MaxLookups
    /\ lookups' = lookups + 1
    /\ phase' = IF wellFormed \/ Jobs = {} THEN "batching" ELSE "error"
    /\ cancelled' = FALSE
    /\ job' = [j \in Jobs |-> "waiting"]
    /\ answers' = [j \in Jobs |-> <<>>]
    /\ result' = {}
    /\ deg' = {}
    /\ validators' = [a \in Advisories |-> 0]
    /\ fetch' = [a \in Advisories |-> "none"]
    /\ attempt' = [a \in Advisories |-> 0]
    /\ details' = [a \in Advisories |-> 0]
    /\ failed' = {}
    /\ UNCHANGED <<external, indexes, cache>>

Cancel ==
    /\ phase \in {"batching", "collected", "fetching"}
    /\ ~cancelled
    /\ cancelled' = TRUE
    /\ UNCHANGED <<external, phase, batching, result, indexes, fetching, cache,
                   deg, lookups>>

(* A goroutine takes a slot of the semaphore and sends its batch. *)
SendBatch(j) ==
    /\ phase = "batching" /\ job[j] = "waiting"
    /\ Cardinality(Running("sending")) < BatchConcurrency
    /\ job' = [job EXCEPT ![j] = "sending"]
    /\ UNCHANGED <<external, phase, cancelled, answers, result, indexes,
                   fetching, cache, deg, lookups>>

BatchAnswered(j) ==
    /\ phase = "batching" /\ job[j] = "sending"
    /\ job' = [job EXCEPT ![j] = "answered"]
    /\ \E coverage \in Coverages, short \in Shortfalls, empty \in BOOLEAN :
          /\ empty => coverage = "partial"
          /\ answers' = [answers EXCEPT ![j] =
                            HonestAnswer(j, coverage, short, empty)]
    /\ UNCHANGED <<external, phase, cancelled, result, indexes, fetching, cache,
                   deg, lookups>>

(* A transport error, a status that is not 200, a body that does not       *)
(* decode, or the end of the context: the batch fails and no other does.   *)
BatchFails(j) ==
    /\ phase = "batching" /\ job[j] = "sending"
    /\ job' = [job EXCEPT ![j] = "failed"]
    /\ UNCHANGED <<external, phase, cancelled, answers, result, indexes,
                   fetching, cache, deg, lookups>>

(* The degradations a lookup's batches leave. *)
BatchDegradationsOfAll ==               \* slip: a degradation only when all fail
    (IF \A j \in Jobs : job[j] = "failed" THEN {"osv_lookup"} ELSE {})
        \cup (IF PartialQueries # {} THEN {"intel_incomplete"} ELSE {})
BatchDegradations ==
    (IF \E j \in Jobs : job[j] = "failed" THEN {"osv_lookup"} ELSE {})
        \cup (IF PartialQueries # {} THEN {"intel_incomplete"} ELSE {})

(* wg.Wait, and the loop over the answers. *)
Collect ==
    /\ phase = "batching"
    /\ \A j \in Jobs : job[j] \in {"answered", "failed"}
    /\ phase' = "collected"
    /\ result' = BatchRecords
    /\ partial' = PartialQueries
    /\ synced' = SyncedAt
    /\ deg' = BatchDegradations
    /\ UNCHANGED <<external, cancelled, batching, detailFailed, fetching, cache,
                   lookups>>

(* needed: records the cache serves at their exact stamp are hydrated from *)
(* it; a Get may also miss, as when there is no cache or its file cannot   *)
(* be read.  The other advisories are to be fetched, each to be cached     *)
(* under the stamp of the first record the random map order meets.         *)
Needed ==
    /\ phase = "collected"
    /\ phase' = "fetching"
    /\ \E hits \in SUBSET {r \in result : Cached(r) # {}} :
          LET misses == result \ hits
              ids == {r.id : r \in misses}
              Served(r) == CHOOSE e \in Cached(r) : TRUE
          IN  /\ result' = misses \cup {Hydrate(r, Served(r).version) : r \in hits}
              /\ fetch' = [a \in Advisories |->
                              IF a \in ids THEN "waiting" ELSE "none"]
              /\ validators' \in
                    {v \in [Advisories -> {0} \cup {r.modified : r \in misses}] :
                        \A a \in Advisories :
                            IF a \in ids
                            THEN \E r \in misses : r.id = a /\ v[a] = r.modified
                            ELSE v[a] = 0}
    /\ UNCHANGED <<external, cancelled, batching, indexes, attempt, details,
                   failed, cache, deg, lookups>>

StartFetch(a) ==
    /\ phase = "fetching" /\ fetch[a] = "waiting"
    /\ Cardinality(InFlight) < HydrateConcurrency
    /\ fetch' = [fetch EXCEPT ![a] = "sending"]
    /\ UNCHANGED <<external, phase, cancelled, batching, result, indexes,
                   validators, attempt, details, failed, cache, deg, lookups>>

(* The record asked for arrives; it is cached under the batch's stamp. *)
FetchOk(a) ==
    /\ phase = "fetching" /\ fetch[a] = "sending"
    /\ fetch' = [fetch EXCEPT ![a] = "ended"]
    /\ details' = [details EXCEPT ![a] = upstream[a]]
    /\ cache' = CacheUnder(a, validators[a], upstream[a])
    /\ UNCHANGED <<external, phase, cancelled, batching, result, indexes,
                   validators, attempt, failed, deg, lookups>>

(* A transport error, 429 or 5xx may be retried: not once the context has  *)
(* ended, nor beyond the retries allowed, nor when the wait would end      *)
(* after the lookup's deadline.  Another status, a body that does not      *)
(* decode and a record of another advisory are final at once.              *)
MayRetryOnceMore(a) == ~cancelled /\ attempt[a] <= Retries   \* slip: off by one
MayRetry(a) == ~cancelled /\ attempt[a] < Retries

FetchRetries(a) ==
    /\ phase = "fetching" /\ fetch[a] = "sending"
    /\ MayRetry(a)
    /\ fetch' = [fetch EXCEPT ![a] = "sleeping"]
    /\ UNCHANGED <<external, phase, cancelled, batching, result, indexes,
                   validators, attempt, details, failed, cache, deg, lookups>>

FetchLost(a) ==
    /\ phase = "fetching"
    /\ fetch[a] = "sending" \/ (fetch[a] = "sleeping" /\ cancelled)
    /\ fetch' = [fetch EXCEPT ![a] = "lost"]
    /\ UNCHANGED <<external, phase, cancelled, batching, result, indexes,
                   validators, attempt, details, failed, cache, deg, lookups>>

Retry(a) ==
    /\ phase = "fetching" /\ fetch[a] = "sleeping"
    /\ fetch' = [fetch EXCEPT ![a] = "sending"]
    /\ attempt' = [attempt EXCEPT ![a] = @ + 1]
    /\ UNCHANGED <<external, phase, cancelled, batching, result, indexes,
                   validators, details, failed, cache, deg, lookups>>

(* Under the lock: a failure counts unless the context has ended by then. *)
GiveUp(a) ==
    /\ phase = "fetching" /\ fetch[a] = "lost"
    /\ fetch' = [fetch EXCEPT ![a] = "ended"]
    /\ failed' = IF cancelled THEN failed ELSE failed \cup {a}
    /\ UNCHANGED <<external, phase, cancelled, batching, result, indexes,
                   validators, attempt, details, cache, deg, lookups>>

(* wg.Wait, applyVulnDetails and recordDetailFailures. *)
FailuresOfFirstAttempt ==               \* slip: only what was never retried
    {a \in failed : attempt[a] = 0}
DetailFailures == failed

Finish ==
    /\ phase = "fetching"
    /\ \A a \in Advisories : fetch[a] \in {"none", "ended"}
    /\ phase' = "done"
    /\ result' = Applied(result)
    /\ detailFailed' = DetailFailures
    /\ deg' = deg \cup (IF Affected(result, DetailFailures) = {} THEN {}
                        ELSE {"advisory_detail"})
    /\ UNCHANGED <<external, cancelled, batching, partial, synced, fetching,
                   cache, lookups>>

BatchEnds(j) == BatchAnswered(j) \/ BatchFails(j)

FetchStep(a) ==
    \/ StartFetch(a)
    \/ FetchOk(a)
    \/ FetchRetries(a)
    \/ FetchLost(a)
    \/ Retry(a)
    \/ GiveUp(a)

LookupStep ==
    \/ \E j \in Jobs : SendBatch(j) \/ BatchEnds(j)
    \/ Collect
    \/ Needed
    \/ \E a \in Advisories : FetchStep(a)
    \/ Finish

Next ==
    \/ Start
    \/ Cancel
    \/ \E a \in Advisories : Publish(a)
    \/ LookupStep

Spec == Init /\ [][Next]_vars

(* Requests end (the client has a timeout) and goroutines run; each of     *)
(* these steps is taken finitely often in one lookup.                      *)
FairSpec == Spec /\ WF_vars(LookupStep)

-----------------------------------------------------------------------------
TypeOK ==
    /\ upstream \in [Advisories -> Stamp]
    /\ wellFormed \in BOOLEAN
    /\ phase \in {"idle", "batching", "collected", "fetching", "done", "error"}
    /\ cancelled \in BOOLEAN
    /\ job \in [Jobs -> {"waiting", "sending", "answered", "failed"}]
    /\ DOMAIN answers = Jobs
    /\ \A j \in Jobs : \A p \in DOMAIN answers[j] : answers[j][p] \in BatchResult
    /\ result \subseteq Record
    /\ partial \subseteq Queries
    /\ synced \in [Queries -> Stamp]
    /\ detailFailed \subseteq Advisories
    /\ validators \in [Advisories -> Stamp]
    /\ fetch \in [Advisories -> {"none", "waiting", "sending", "sleeping",
                                 "lost", "ended"}]
    /\ attempt \in [Advisories -> 0..Retries]
    /\ details \in [Advisories -> Stamp]
    /\ failed \subseteq Advisories
    /\ cache \subseteq Entry
    /\ deg \subseteq SourceKinds
    /\ lookups \in 0..MaxLookups

(* A package's answer holds only advisories that affect that package,      *)
(* however the filter, the batches and the concurrent answers moved the    *)
(* queries about.                                                          *)
RightPackage == \A r \in result : r.id \in Affects[r.query]

(* "Indices absent from the map mean no vulnerabilities": when a finished  *)
(* lookup says of no query that it failed or was partial, every advisory   *)
(* that affects a package OSV understands is in that package's answer.     *)
NothingReadsAsClean ==
    phase = "done" /\ "osv_lookup" \notin deg =>
        \A q \in Queryable \ partial : \A a \in Affects[q] :
            <<q, a>> \in KeysOf(result)

(* What the source returns and reports keeps the contract the verifier     *)
(* relies on, unless the caller gave up on the lookup.                     *)
ReplyOf == [err |-> phase = "error", deg |-> deg, out |-> result,
            partial |-> partial, synced |-> synced, failed |-> detailFailed]

ReplyKeepsContract ==
    phase \in {"done", "error"} /\ ~cancelled => KeepsContract(ReplyOf)

(* The content of a hydrated record is never older than the version the    *)
(* batch of this very lookup reported, whether it was fetched or cached.   *)
FreshText ==
    \A r \in result : r.hydrated =>
        \E v \in ResultOf(r.query).vulns : v[1] = r.id /\ r.modified >= v[2]

(* A lookup that starts ends: no semaphore is held for ever, and retries   *)
(* run out, whatever fails and whenever the context ends.                  *)
LookupEnds == phase = "batching" ~> phase = "done"
=============================================================================
