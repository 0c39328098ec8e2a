------------------------------ MODULE SlopFeed ------------------------------
(***************************************************************************)
(* A feed from its producer to its consumers (src/slopfeed).               *)
(*                                                                         *)
(* A producer edits a Feed value, digests it, signs it and writes it to a  *)
(* file; the file may be damaged before a consumer parses it.  A digest is *)
(* the content it is computed over and a signature names its key and       *)
(* content: SHA-256 and Ed25519 are taken to be exact.                     *)
(***************************************************************************)
EXTENDS Integers, Sequences, FiniteSets, SequencesExt

CONSTANTS
  Names,      \* package names as written, in one ecosystem
  Normal,     \* NormalizeName: the spelling names are looked up under
  Risks,      \* the risks an entry may have
  Handmade,   \* the entries a producer adds by hand
  Altered,    \* a risk a damaged file may show instead
  NaN,        \* a risk JSON cannot represent
  Keys,       \* signing keys
  Consumers,  \* parties that parse the file
  Requires,   \* the consumers whose VerifyOptions require a signature
  Pinned,     \* the key each consumer's Verifier checks, or NoKey for no Verifier
  NoKey,
  None,       \* no digest, no signature, no file, nothing loaded
  MaxEntries, \* bound: entries of a feed
  MaxEdits,   \* bound: edits of the draft
  MaxDamages  \* bound: damages of the file

ASSUME FeedAssumption ==
  /\ Normal \in [Names -> Names]
  /\ Requires \subseteq Consumers
  /\ Pinned \in [Consumers -> Keys \union {NoKey}]
  /\ NoKey \notin Keys
  /\ Altered \notin Risks \union {NaN}
  /\ Handmade \subseteq [name : Names, risk : Risks]

VARIABLES
  draft,   \* the producer's Feed value
  file,    \* the bytes last written, as the feed they decode to
  loaded,  \* what Parse returned to each consumer
  edits,   \* edits of the draft so far
  damages, \* damages of the file so far
  \* history, not program state
  digested, \* the contents the producer has digested
  signed    \* the signatures the producers have made

vars == <<draft, file, loaded, edits, damages, digested, signed>>

\* How many entries of the name of entry i come before it.
EarlierNamesakes(entries, i) ==
  Cardinality({j \in 1 .. i - 1 : entries[j].name = entries[i].name})

\* Slip: the risk is not part of the content.
CanonicalNames(entries) ==
  {<<entries[i].name, EarlierNamesakes(entries, i)>> : i \in DOMAIN entries}

\* CanonicalEntries: the stable sort by name, which keeps of the feed what the
\* entries of each name are, and their order.
Canonical(entries) ==
  {<<entries[i], EarlierNamesakes(entries, i)>> : i \in DOMAIN entries}

\* No entry has a risk JSON cannot encode.
Representable(entries) == \A i \in DOMAIN entries : entries[i].risk # NaN

\* VerifyDigest: a missing digest is an error too.
DigestHolds(feed) == feed.digest # None /\ feed.digest = Canonical(feed.entries)

\* Slip: the signature is checked under the key the feed describes itself with.
SelfDescribed(signature, key, content) ==
  signature \in [by : Keys, over : {content}]

\* Ed25519Verifier: the signature is one of the pinned key over the content.
Signs(signature, key, content) == signature = [by |-> key, over |-> content]

\* Slip: a signature that is not required is not checked.
CheckedOnlyIfRequired(consumer, signature) == consumer \in Requires

\* A signature is checked when it is required, and when it is there and the
\* consumer has a verifier.
SignatureChecked(consumer, signature) ==
  consumer \in Requires \/ (signature # None /\ Pinned[consumer] # NoKey)

\* Feed.Verify.
Accepts(consumer, feed) ==
  /\ feed.schema = "v1"
  /\ DigestHolds(feed)
  /\ SignatureChecked(consumer, feed.signature) =>
       /\ feed.signature # None
       /\ Pinned[consumer] # NoKey
       /\ Signs(feed.signature, Pinned[consumer], Canonical(feed.entries))

\* Parse's index: the entries under a looked-up name; the last one is kept.
Indexed(entries, n) ==
  {i \in DOMAIN entries : Normal[entries[i].name] = Normal[n]}

\* Lookup.
Found(feed, n) == feed # None /\ Indexed(feed.entries, n) # {}
Lookup(feed, n) ==
  LET hits == Indexed(feed.entries, n)
  IN feed.entries[CHOOSE i \in hits : \A j \in hits : j <= i]

-----------------------------------------------------------------------------

NewFeed == [schema |-> "v1", entries |-> <<>>, digest |-> None, signature |-> None]

Init ==
  /\ draft = NewFeed
  /\ file = None
  /\ loaded = [c \in Consumers |-> None]
  /\ edits = 0
  /\ damages = 0
  /\ digested = {}
  /\ signed = {}

\* The producer's own changes to the entries: one is added, or re-weighted.
Edit ==
  /\ edits < MaxEdits
  /\ edits' = edits + 1
  /\ \/ /\ Len(draft.entries) < MaxEntries
        /\ \E e \in Handmade : draft' = [draft EXCEPT !.entries = Append(@, e)]
     \/ \E i \in DOMAIN draft.entries, e \in Handmade :
          draft' = [draft EXCEPT !.entries[i].risk = e.risk]
  /\ UNCHANGED <<file, loaded, damages, digested, signed>>

\* SetDigest; for a risk that cannot be encoded it fails and changes nothing.
SetDigest ==
  /\ Representable(draft.entries)
  /\ draft' = [draft EXCEPT !.digest = Canonical(draft.entries)]
  /\ digested' = digested \union {Canonical(draft.entries)}
  /\ UNCHANGED <<file, loaded, edits, damages, signed>>

\* Slip: the digest is left as SetDigest last computed it.
SignedOver(feed, key) ==
  [feed EXCEPT !.signature = [by |-> key, over |-> Canonical(feed.entries)]]

\* Sign recomputes the digest and signs the same content.
DigestedAndSigned(feed, key) ==
  [feed EXCEPT !.digest = Canonical(feed.entries),
               !.signature = [by |-> key, over |-> Canonical(feed.entries)]]

\* Sign; for a risk that cannot be encoded it fails and changes nothing.
Sign(key) ==
  /\ Representable(draft.entries)
  /\ draft' = DigestedAndSigned(draft, key)
  /\ digested' = digested \union {Canonical(draft.entries)}
  /\ signed' = signed \union {[by |-> key, over |-> Canonical(draft.entries)]}
  /\ UNCHANGED <<file, loaded, edits, damages>>

\* Encode and write, whatever state the digest and the signature are in.
Publish ==
  /\ Representable(draft.entries)
  /\ file' = draft
  /\ UNCHANGED <<draft, loaded, edits, damages, digested, signed>>

\* The file changes on its way: entries lost, re-weighted or reordered, the
\* digest or the signature lost, a file of another schema, or no file.
Damage ==
  /\ file # None
  /\ damages < MaxDamages
  /\ damages' = damages + 1
  /\ \/ file' = None
     \/ file' = [file EXCEPT !.schema = "v2"]
     \/ file' = [file EXCEPT !.digest = None]
     \/ file' = [file EXCEPT !.signature = None]
     \/ file' = [file EXCEPT !.entries = Reverse(@)]
     \/ Len(file.entries) > 0 /\ file' = [file EXCEPT !.entries = Front(@)]
     \/ \E i \in DOMAIN file.entries : file' = [file EXCEPT !.entries[i].risk = Altered]
  /\ UNCHANGED <<draft, loaded, edits, digested, signed>>

\* Parse: a feed that does not verify is never returned.
Parse(c) ==
  /\ loaded' = [loaded EXCEPT ![c] =
                  IF file # None /\ Accepts(c, file) THEN file ELSE None]
  /\ UNCHANGED <<draft, file, edits, damages, digested, signed>>

Next ==
  \/ Edit \/ SetDigest \/ Publish \/ Damage
  \/ \E key \in Keys : Sign(key)
  \/ \E c \in Consumers : Parse(c)

Spec == Init /\ [][Next]_vars

-----------------------------------------------------------------------------
(* Properties.                                                             *)

Feeds ==
  [schema : {"v1", "v2"},
   entries : Seq([name : Names, risk : Risks \union {Altered}]),
   digest : digested \union {None},
   signature : signed \union {None}]

\* Every feed is a feed, its digest and its signature one the producer made.
TypeOK ==
  /\ draft \in Feeds /\ draft.schema = "v1"
  /\ file \in Feeds \union {None}
  /\ loaded \in [Consumers -> Feeds \union {None}]

Content(c) == Canonical(loaded[c].entries)

\* What a consumer is given is, entry for entry, a content the producer has
\* digested, with no risk that could not be digested; what one that requires
\* signatures is given, one its pinned key has signed, whatever Damage did to the
\* file (feed.go:18-25, 124-126).  Damage never recomputes a digest, which has no
\* key: a digest set anew over changed entries is the producer's own Edit and
\* SetDigest here, and the first part says no more of it than that.
ServedIsWhatWasMade ==
  \A c \in Consumers : loaded[c] # None =>
    /\ Content(c) \in digested
    /\ Representable(loaded[c].entries)
    /\ c \in Requires => [by |-> Pinned[c], over |-> Content(c)] \in signed

\* A consumer with a verifier is never given a feed whose signature is another
\* key's or another content's, required or not (feed.go:213-214).
BadSignatureIsNeverServed ==
  \A c \in Consumers :
    loaded[c] # None /\ loaded[c].signature # None /\ Pinned[c] # NoKey =>
      loaded[c].signature = [by |-> Pinned[c], over |-> Content(c)]

\* A feed that was just signed verifies for every consumer that pins the key,
\* whatever was edited since its digest was last set (sign.go:23-25).
SignedFeedsVerify ==
  [][\A key \in Keys : Sign(key) =>
       \A c \in Consumers : Pinned[c] = key => Accepts(c, draft')]_vars

\* Two consumers that were given feeds of one digest look every name up to the
\* same entry, although each indexed its own file, unless a name has two
\* entries there (feed.go:7-10, "a re-weighted copy").
ConsumersAgree ==
  \A c, d \in Consumers :
    /\ loaded[c] # None
    /\ loaded[d] # None
    /\ loaded[c].digest = loaded[d].digest
    /\ \A n \in Names : Cardinality(Indexed(loaded[c].entries, n)) <= 1
    => \A n \in Names :
         /\ Found(loaded[c], n) <=> Found(loaded[d], n)
         /\ Found(loaded[c], n) => Lookup(loaded[c], n) = Lookup(loaded[d], n)
=============================================================================
