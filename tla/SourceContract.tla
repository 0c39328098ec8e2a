--------------------------- MODULE SourceContract ---------------------------
(***************************************************************************)
(* What a vulnerability Source promises its caller: package vulnsource,    *)
(* interfaces Source, PartialReporter, MirrorSyncReporter and              *)
(* DetailFailureReporter.  A lookup's outcome is one Reply: the answer,    *)
(* the degradations it recorded, and what the three optional interfaces    *)
(* report about it afterwards.                                             *)
(*                                                                         *)
(* Abstractions.  A query is its index.  An advisory is its ID.  An        *)
(* RFC3339 stamp is a natural number, 0 when it is missing.  A record      *)
(* keeps what the verifier compares: where it was found, its two stamps,   *)
(* and whether it carries the advisory's content ("hydrated") or only the  *)
(* batch answer's {id, modified}.                                          *)
(***************************************************************************)
EXTENDS Naturals, FiniteSets

CONSTANTS Queries,      \* indices into the slice given to Lookup
          Advisories    \* advisory IDs

Stamp == Nat

Record == [query     : Queries,
           id        : Advisories,
           modified  : Stamp,
           published : Stamp,
           hydrated  : BOOLEAN]

(* recordKey: one record of one query's answer. *)
Key == Queries \X Advisories
KeyOf(r) == <<r.query, r.id>>
KeysOf(recs) == {KeyOf(r) : r \in recs}

(* The kinds of degradation a source records on its own collector. *)
SourceKinds == {"osv_lookup", "intel_incomplete", "advisory_detail"}

(* err: the lookup could not be attempted.  partial, synced and failed are *)
(* what PartialQueries, MirrorSyncedAt and DetailFailures then return.     *)
Reply == [err     : BOOLEAN,
          deg     : SUBSET SourceKinds,
          out     : SUBSET Record,
          partial : SUBSET Queries,
          synced  : [Queries -> Stamp],
          failed  : SUBSET Advisories]

OneRecordPerKey(recs) ==
    \A r, s \in recs : KeyOf(r) = KeyOf(s) => r = s

(* The source reached its service for every query. *)
Answered(reply) == ~reply.err /\ "osv_lookup" \notin reply.deg

(* The promises a caller relies on: an answer lists an advisory once per   *)
(* query; an incomplete answer is said to be one; a record without its     *)
(* content is one whose detail fetch is named as failed, and that is said. *)
KeepsContract(reply) ==
    /\ OneRecordPerKey(reply.out)
    /\ reply.err => reply.out = {} /\ reply.deg = {}
    /\ reply.partial # {} => "intel_incomplete" \in reply.deg
    /\ \A r \in reply.out : ~r.hydrated => r.id \in reply.failed
    /\ (\E r \in reply.out : ~r.hydrated) => "advisory_detail" \in reply.deg
=============================================================================
