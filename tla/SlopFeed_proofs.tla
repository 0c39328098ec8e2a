--------------------------- MODULE SlopFeed_proofs ---------------------------
(* Theorems about feeds, for any names, keys, consumers, edits and damages.  *)
EXTENDS SlopFeed, SequenceTheorems, FiniteSetTheorems, WellFoundedInduction, TLAPS

\* What a consumer was given verified for it, and nothing in a file or with a
\* consumer has a risk that could not have been written.
Verified ==
  /\ file # None => Representable(file.entries)
  /\ \A c \in Consumers : loaded[c] # None =>
       Accepts(c, loaded[c]) /\ Representable(loaded[c].entries)

IInv == TypeOK /\ Verified

-----------------------------------------------------------------------------
(* What digests and signatures were made only grows in number, so a feed     *)
(* stays a feed.                                                             *)

\* Feeds stay feeds when more is digested or signed.
LEMMA FeedsGrow ==
  ASSUME digested \subseteq digested', signed \subseteq signed'
  PROVE  Feeds \subseteq Feeds'
BY DEF Feeds

\* Where no feed changes, the invariant stays.
LEMMA Unchanged ==
  ASSUME IInv, UNCHANGED <<file, loaded>>,
         digested \subseteq digested', signed \subseteq signed',
         draft' \in Feeds', draft'.schema = "v1"
  PROVE  IInv'
<1>1. Feeds \subseteq Feeds'
  BY FeedsGrow
<1>2. TypeOK'
  BY <1>1 DEF IInv, TypeOK
<1>3. Verified'
  BY DEF IInv, Verified, Accepts, DigestHolds, SignatureChecked, Signs, Representable
<1> QED BY <1>2, <1>3 DEF IInv

\* Reversing a sequence gives a sequence.
Reversed(s) == [i \in 1 .. Len(s) |-> s[(Len(s) - i) + 1]]

\* A reversed sequence has the same kind of elements.
LEMMA ReversedSeq ==
  ASSUME NEW S, NEW s \in Seq(S)
  PROVE  Reversed(s) \in Seq(S)
<1>1. Len(s) \in Nat /\ \A i \in 1 .. Len(s) : s[i] \in S
  OBVIOUS
<1>2. \A i \in 1 .. Len(s) : (Len(s) - i) + 1 \in 1 .. Len(s)
  BY <1>1
<1>3. \A i \in 1 .. Len(s) : s[(Len(s) - i) + 1] \in S
  BY <1>1, <1>2
<1>4. Reversed(s) \in [1 .. Len(s) -> S]
  BY <1>3 DEF Reversed
<1> QED BY <1>1, <1>4, SeqDef

\* And so does leaving its last element out.
LEMMA FrontSeq ==
  ASSUME NEW S, NEW s \in Seq(S), Len(s) > 0
  PROVE  /\ Front(s) \in Seq(S)
         /\ Len(Front(s)) = Len(s) - 1
         /\ \A i \in 1 .. Len(s) - 1 : Front(s)[i] = s[i]
<1> DEFINE n == Len(s) - 1
<1>1. n \in Nat /\ n \in Int /\ \A i \in 1 .. n : s[i] \in S
  OBVIOUS
<1>2. /\ SubSeq(s, 1, n) \in Seq(S)
      /\ Len(SubSeq(s, 1, n)) = IF 1 <= n THEN n - 1 + 1 ELSE 0
      /\ \A i \in 1 .. n - 1 + 1 : SubSeq(s, 1, n)[i] = s[1 + i - 1]
  <2> HIDE DEF n
  <2> QED BY <1>1, SubSeqProperties
<1>3. Len(SubSeq(s, 1, n)) = n /\ \A i \in 1 .. n : SubSeq(s, 1, n)[i] = s[i]
  <2> HIDE DEF n
  <2>1. \A i \in 1 .. n : i \in 1 .. n - 1 + 1 /\ 1 + i - 1 = i
    BY <1>1
  <2> QED BY <1>1, <1>2, <2>1
<1> QED BY <1>2, <1>3 DEF Front

\* What a sequence holds at one of its positions.
LEMMA Element ==
  ASSUME NEW S, NEW s \in Seq(S), NEW i \in DOMAIN s
  PROVE  i \in 1 .. Len(s) /\ s[i] \in S
OBVIOUS

\* The pipeline starts in the invariant.
LEMMA InitInv == Init => IInv
BY DEF Init, IInv, TypeOK, Verified, NewFeed, Feeds

\* An edit keeps it.
LEMMA EditInv == IInv /\ FeedAssumption /\ Edit => IInv'
<1> SUFFICES ASSUME IInv, FeedAssumption, Edit PROVE IInv'
  OBVIOUS
<1> DEFINE Item == [name : Names, risk : Risks \union {Altered}]
<1>1. draft \in Feeds /\ draft.schema = "v1" /\ draft.entries \in Seq(Item)
  BY DEF IInv, TypeOK, Feeds
<1>2. Handmade \subseteq Item /\ \A e \in Handmade : e.risk \in Risks
  BY DEF FeedAssumption
<1>3. draft' \in Feeds /\ draft'.schema = "v1"
  <2>1. CASE \E e \in Handmade : draft' = [draft EXCEPT !.entries = Append(@, e)]
    <3>1. PICK e \in Handmade : draft' = [draft EXCEPT !.entries = Append(@, e)]
      BY <2>1
    <3>2. Append(draft.entries, e) \in Seq(Item)
      BY <1>1, <1>2, AppendProperties
    <3> QED BY <1>1, <3>1, <3>2 DEF Feeds
  <2>2. CASE \E i \in DOMAIN draft.entries, e \in Handmade :
               draft' = [draft EXCEPT !.entries[i].risk = e.risk]
    <3>1. PICK i \in DOMAIN draft.entries, e \in Handmade :
            draft' = [draft EXCEPT !.entries[i].risk = e.risk]
      BY <2>2
    <3>2. [draft.entries[i] EXCEPT !.risk = e.risk] \in Item
      <4>1. draft.entries[i] \in Item
        <5> HIDE DEF Item
        <5> QED BY <1>1, Element
      <4> QED BY <1>2, <4>1
    <3>3. [draft.entries EXCEPT ![i].risk = e.risk] \in Seq(Item)
      <4>1. [draft.entries EXCEPT ![i] = [draft.entries[i] EXCEPT !.risk = e.risk]] \in Seq(Item)
        BY <1>1, <3>2, ExceptSeq
      <4> QED BY <4>1
    <3> QED BY <1>1, <3>1, <3>3 DEF Feeds
  <2> QED BY <2>1, <2>2 DEF Edit
<1>4. UNCHANGED <<file, loaded, digested, signed>>
  BY DEF Edit
<1>5. draft' \in Feeds'
  BY <1>3, <1>4 DEF Feeds
<1> QED BY <1>3, <1>4, <1>5, Unchanged

\* Setting the digest keeps it.
LEMMA SetDigestInv == IInv /\ SetDigest => IInv'
<1> SUFFICES ASSUME IInv, SetDigest PROVE IInv'
  OBVIOUS
<1>1. draft' \in Feeds' /\ draft'.schema = "v1"
  BY DEF IInv, TypeOK, Feeds, SetDigest
<1>2. UNCHANGED <<file, loaded>> /\ digested \subseteq digested' /\ signed \subseteq signed'
  BY DEF SetDigest
<1> QED BY <1>1, <1>2, Unchanged

\* Signing keeps it.
LEMMA SignInv == ASSUME NEW key \in Keys PROVE IInv /\ Sign(key) => IInv'
<1> SUFFICES ASSUME IInv, Sign(key) PROVE IInv'
  OBVIOUS
<1>1. draft' \in Feeds' /\ draft'.schema = "v1"
  BY DEF IInv, TypeOK, Feeds, Sign, DigestedAndSigned
<1>2. UNCHANGED <<file, loaded>> /\ digested \subseteq digested' /\ signed \subseteq signed'
  BY DEF Sign
<1> QED BY <1>1, <1>2, Unchanged

\* Publishing keeps it.
LEMMA PublishInv == IInv /\ Publish => IInv'
<1> SUFFICES ASSUME IInv, Publish PROVE IInv'
  OBVIOUS
<1>1. TypeOK'
  BY DEF IInv, TypeOK, Publish, Feeds
<1>2. Verified'
  BY DEF IInv, Verified, Publish, Accepts, DigestHolds, SignatureChecked, Signs, Representable
<1> QED BY <1>1, <1>2 DEF IInv

\* Damage of a file keeps it.
LEMMA DamageInv == IInv /\ FeedAssumption /\ Damage => IInv'
<1> SUFFICES ASSUME IInv, FeedAssumption, Damage PROVE IInv'
  OBVIOUS
<1> DEFINE Item == [name : Names, risk : Risks \union {Altered}]
           Sound(f) == f \in Feeds /\ Representable(f.entries)
<1>1. Sound(file) /\ file.entries \in Seq(Item)
  BY DEF IInv, TypeOK, Verified, Feeds, Damage
<1>2. file' = None \/ Sound(file')
  <2>1. CASE \/ file' = [file EXCEPT !.schema = "v2"]
             \/ file' = [file EXCEPT !.digest = None]
             \/ file' = [file EXCEPT !.signature = None]
    BY <1>1, <2>1 DEF Feeds
  <2>2. ASSUME NEW s \in Seq(Item), Representable(s), file' = [file EXCEPT !.entries = s]
        PROVE  Sound(file')
    BY <1>1, <2>2 DEF Feeds
  <2>3. CASE file' = [file EXCEPT !.entries = Reverse(@)]
    <3>1. Reverse(file.entries) \in Seq(Item)
      <4>1. Reverse(file.entries) = Reversed(file.entries)
        BY DEF Reverse, Reversed
      <4> QED BY <1>1, <4>1, ReversedSeq
    <3>2. Representable(Reverse(file.entries))
      BY <1>1 DEF Reverse, Representable
    <3> QED BY <2>2, <2>3, <3>1, <3>2
  <2>4. CASE Len(file.entries) > 0 /\ file' = [file EXCEPT !.entries = Front(@)]
    <3> DEFINE s == Front(file.entries)
    <3>1. s \in Seq(Item) /\ Len(s) = Len(file.entries) - 1
          /\ \A i \in 1 .. Len(s) : s[i] = file.entries[i]
      BY <1>1, <2>4, FrontSeq
    <3>2. Representable(s)
      <4>1. \A i \in DOMAIN s : i \in DOMAIN file.entries
        <5> HIDE DEF s
        <5> QED BY <1>1, <3>1
      <4> HIDE DEF s
      <4> QED BY <1>1, <3>1, <4>1 DEF Representable
    <3> QED BY <2>2, <2>4, <3>1, <3>2
  <2>5. CASE \E i \in DOMAIN file.entries :
               file' = [file EXCEPT !.entries[i].risk = Altered]
    <3>1. PICK i \in DOMAIN file.entries : file' = [file EXCEPT !.entries[i].risk = Altered]
      BY <2>5
    <3> DEFINE e == [file.entries[i] EXCEPT !.risk = Altered]
               s == [file.entries EXCEPT ![i] = e]
    <3>2. e \in Item /\ e.risk = Altered
      <4>1. file.entries[i] \in Item
        <5> HIDE DEF Item
        <5> QED BY <1>1, Element
      <4> QED BY <4>1
    <3>3. s \in Seq(Item)
      BY <1>1, <3>2, ExceptSeq
    <3>4. Representable(s)
      BY <1>1, <3>2 DEF Representable, FeedAssumption
    <3>5. file' = [file EXCEPT !.entries = s]
      BY <3>1
    <3> QED BY <2>2, <3>3, <3>4, <3>5
  <2> QED BY <2>1, <2>3, <2>4, <2>5 DEF Damage
<1>3. UNCHANGED <<draft, loaded, digested, signed>>
  BY DEF Damage
<1>4. Feeds' = Feeds
  BY <1>3 DEF Feeds
<1>5. TypeOK'
  BY <1>2, <1>3, <1>4 DEF IInv, TypeOK
<1>6. Verified'
  BY <1>2, <1>3 DEF IInv, Verified, Accepts, DigestHolds, SignatureChecked, Signs, Representable
<1> QED BY <1>5, <1>6 DEF IInv

\* Parsing keeps it.
LEMMA ParseInv == ASSUME NEW c \in Consumers PROVE IInv /\ Parse(c) => IInv'
<1> SUFFICES ASSUME IInv, Parse(c) PROVE IInv'
  OBVIOUS
<1>1. UNCHANGED <<draft, file, digested, signed>>
  BY DEF Parse
<1>2. Feeds' = Feeds
  BY <1>1 DEF Feeds
<1>3. TypeOK'
  BY <1>1, <1>2 DEF IInv, TypeOK, Parse
<1>4. ASSUME NEW d \in Consumers, loaded'[d] # None
      PROVE  Accepts(d, loaded'[d]) /\ Representable(loaded'[d].entries)
  <2>1. CASE d # c
    <3>1. loaded'[d] = loaded[d]
      BY <2>1 DEF Parse, IInv, TypeOK
    <3> QED BY <1>4, <3>1 DEF IInv, Verified
  <2>2. CASE d = c
    <3>1. loaded'[d] = file /\ file # None /\ Accepts(c, file)
      BY <1>4, <2>2 DEF Parse, IInv, TypeOK
    <3> QED BY <2>2, <3>1 DEF IInv, Verified
  <2> QED BY <2>1, <2>2
<1>5. Verified'
  BY <1>1, <1>4 DEF IInv, Verified, Accepts, DigestHolds, SignatureChecked, Signs, Representable
<1> QED BY <1>3, <1>5 DEF IInv

\* A step of something else keeps it.
LEMMA StutterInv == IInv /\ UNCHANGED vars => IInv'
<1> SUFFICES ASSUME IInv, UNCHANGED vars PROVE IInv'
  OBVIOUS
<1>1. draft' \in Feeds' /\ draft'.schema = "v1"
  BY DEF IInv, TypeOK, Feeds, vars
<1> QED BY <1>1, Unchanged DEF vars

\* Every feed is a feed, and what consumers hold has verified.
THEOREM Invariant == Spec => []IInv
<1> USE FeedAssumption
<1>1. IInv /\ [Next]_vars => IInv'
  BY EditInv, SetDigestInv, SignInv, PublishInv, DamageInv, ParseInv, StutterInv DEF Next
<1> QED BY <1>1, InitInv, PTL DEF Spec

-----------------------------------------------------------------------------

\* What a consumer is given was digested, could be, and was signed by its pinned
\* key where it requires that, whatever happened to the file.
THEOREM Served == Spec => []ServedIsWhatWasMade
<1>1. IInv => ServedIsWhatWasMade
  <2> SUFFICES ASSUME IInv, NEW c \in Consumers, loaded[c] # None
               PROVE  /\ Content(c) \in digested
                      /\ Representable(loaded[c].entries)
                      /\ c \in Requires => [by |-> Pinned[c], over |-> Content(c)] \in signed
    BY DEF ServedIsWhatWasMade
  <2>1. loaded[c] \in Feeds /\ Accepts(c, loaded[c]) /\ Representable(loaded[c].entries)
    BY DEF IInv, TypeOK, Verified
  <2> QED BY <2>1 DEF Accepts, DigestHolds, SignatureChecked, Signs, Content, Feeds
<1> QED BY <1>1, Invariant, PTL

\* A signature that is there and wrong is never served to a consumer that can
\* check it, required or not.
THEOREM BadSignatures == Spec => []BadSignatureIsNeverServed
<1>1. IInv => BadSignatureIsNeverServed
  BY DEF IInv, Verified, BadSignatureIsNeverServed, Accepts, SignatureChecked, Signs, Content
<1> QED BY <1>1, Invariant, PTL

\* A feed just signed verifies for whoever pins the key: digests and signatures
\* are something.
THEOREM Signed ==
  ASSUME \A entries : Canonical(entries) # None,
         \A key, content : [by |-> key, over |-> content] # None
  PROVE  Spec => SignedFeedsVerify
<1>1. IInv /\ [Next]_vars =>
        [\A key \in Keys : Sign(key) =>
           \A c \in Consumers : Pinned[c] = key => Accepts(c, draft')]_vars
  <2> SUFFICES ASSUME IInv, NEW key \in Keys, Sign(key),
                      NEW c \in Consumers, Pinned[c] = key
               PROVE  Accepts(c, draft')
    OBVIOUS
  <2>1. /\ draft'.schema = "v1"
        /\ draft'.entries = draft.entries
        /\ draft'.digest = Canonical(draft.entries)
        /\ draft'.signature = [by |-> key, over |-> Canonical(draft.entries)]
    BY DEF IInv, TypeOK, Feeds, Sign, DigestedAndSigned
  <2>2. Pinned[c] # NoKey
    BY FeedAssumption DEF FeedAssumption
  <2> QED BY <2>1, <2>2 DEF Accepts, DigestHolds, SignatureChecked, Signs
<1> QED BY <1>1, Invariant, PTL DEF Spec, SignedFeedsVerify

-----------------------------------------------------------------------------
(* Equal digests.                                                            *)

\* The greatest of finitely many positions.
LEMMA Greatest ==
  ASSUME NEW n \in Nat, NEW S \in SUBSET (1 .. n), S # {}
  PROVE  \E m \in S : \A k \in S : k <= m
<1> DEFINE R == {ss \in Nat \X Nat : ss[1] < ss[2]}
           gaps == {n - k : k \in S}
<1>1. IsWellFoundedOn(R, Nat)
  BY NatLessThanWellFounded, Zenon DEF OpToRel
<1>2. gaps \subseteq Nat /\ gaps # {}
  <2>1. PICK k \in S : TRUE
    OBVIOUS
  <2>2. n - k \in gaps
    BY <2>1
  <2>3. \A i \in S : n - i \in Nat
    OBVIOUS
  <2> QED BY <2>2, <2>3
<1>3. PICK g \in gaps : \A h \in gaps : ~(<<h, g>> \in R)
  <2> HIDE DEF R, gaps
  <2> QED BY <1>1, <1>2, WFMin, Zenon
<1>4. \A h \in gaps : g <= h
  <2>1. ASSUME NEW h \in gaps PROVE g <= h
    <3>1. h \in Nat /\ g \in Nat
      BY <1>2, <1>3
    <3>2. ~(h < g)
      BY <1>3, <3>1
    <3> QED BY <3>1, <3>2
  <2> QED BY <2>1
<1>5. PICK m \in S : g = n - m
  BY <1>3
<1>6. \A k \in S : k <= m
  BY <1>4, <1>5
<1> QED BY <1>6

\* Feeds of one content have the same entries, wherever they stand.
LEMMA SameContent ==
  ASSUME NEW here, NEW there, Canonical(here) = Canonical(there), NEW i \in DOMAIN here
  PROVE  \E j \in DOMAIN there : there[j] = here[i]
<1>1. <<here[i], EarlierNamesakes(here, i)>> \in Canonical(there)
  BY DEF Canonical
<1>2. PICK j \in DOMAIN there : <<here[i], EarlierNamesakes(here, i)>> = <<there[j], EarlierNamesakes(there, j)>>
  BY <1>1 DEF Canonical
<1> QED BY <1>2

\* A lookup answers one of the entries that have the looked-up name.
LEMMA LookupHits ==
  ASSUME NEW feed \in Feeds, NEW n, Indexed(feed.entries, n) # {}
  PROVE  \E i \in Indexed(feed.entries, n) : Lookup(feed, n) = feed.entries[i]
<1> DEFINE hits == Indexed(feed.entries, n)
<1>1. Len(feed.entries) \in Nat /\ hits \subseteq 1 .. Len(feed.entries)
  BY DEF Feeds, Indexed
<1>2. \E i \in hits : \A j \in hits : j <= i
  <2> HIDE DEF hits
  <2>1. hits # {}
    BY DEF hits
  <2> QED BY <1>1, <2>1, Greatest
<1>3. (CHOOSE i \in hits : \A j \in hits : j <= i) \in hits
  BY <1>2
<1> QED BY <1>3 DEF Lookup

\* Two consumers given feeds of one digest look every name up alike, in whatever
\* order their files hold the entries, unless a name has two of them
\* (feed.go:7-10, 119-146).
THEOREM Agreed == Spec => []ConsumersAgree
<1>1. IInv => ConsumersAgree
  <2> SUFFICES ASSUME IInv, NEW c \in Consumers, NEW d \in Consumers,
                      loaded[c] # None, loaded[d] # None,
                      loaded[c].digest = loaded[d].digest,
                      \A n \in Names : Cardinality(Indexed(loaded[c].entries, n)) <= 1,
                      NEW n \in Names
               PROVE  /\ Found(loaded[c], n) <=> Found(loaded[d], n)
                      /\ Found(loaded[c], n) => Lookup(loaded[c], n) = Lookup(loaded[d], n)
    BY Zenon DEF ConsumersAgree
  <2> DEFINE here == loaded[c].entries
             there == loaded[d].entries
  <2>1. loaded[c] \in Feeds /\ loaded[d] \in Feeds
    BY DEF IInv, TypeOK
  <2>2. Canonical(here) = Canonical(there)
    BY DEF IInv, Verified, Accepts, DigestHolds
  <2>3. \A i \in Indexed(here, n) : \E j \in Indexed(there, n) : there[j] = here[i]
    <3> TAKE i \in Indexed(here, n)
    <3>1. i \in DOMAIN here /\ Normal[here[i].name] = Normal[n]
      BY DEF Indexed
    <3>2. PICK j \in DOMAIN there : there[j] = here[i]
      BY <2>2, <3>1, SameContent
    <3> QED BY <3>1, <3>2 DEF Indexed
  <2>4. \A j \in Indexed(there, n) : \E i \in Indexed(here, n) : there[j] = here[i]
    <3> TAKE j \in Indexed(there, n)
    <3>1. j \in DOMAIN there /\ Normal[there[j].name] = Normal[n]
      BY DEF Indexed
    <3>2. PICK i \in DOMAIN here : here[i] = there[j]
      BY <2>2, <3>1, SameContent
    <3> QED BY <3>1, <3>2 DEF Indexed
  <2>5. Found(loaded[c], n) <=> Found(loaded[d], n)
    BY <2>3, <2>4 DEF Found
  <2>6. ASSUME Found(loaded[c], n) PROVE Lookup(loaded[c], n) = Lookup(loaded[d], n)
    <3>1. Indexed(here, n) # {} /\ Indexed(there, n) # {}
      BY <2>5, <2>6 DEF Found
    <3>2. PICK i \in Indexed(here, n) : Lookup(loaded[c], n) = here[i]
      BY <2>1, <3>1, LookupHits
    <3>3. PICK j \in Indexed(there, n) : Lookup(loaded[d], n) = there[j]
      BY <2>1, <3>1, LookupHits
    <3>4. PICK k \in Indexed(here, n) : there[j] = here[k]
      BY <2>4
    <3>5. \A k1, k2 \in Indexed(here, n) : k1 = k2
      <4> DEFINE hits == Indexed(here, n)
      <4>1. IsFiniteSet(hits)
        <5>1. Len(here) \in Nat /\ hits \subseteq 1 .. Len(here)
          BY <2>1 DEF Feeds, Indexed
        <5>2. IsFiniteSet(1 .. Len(here))
          BY <5>1, FS_Interval
        <5> QED BY <5>1, <5>2, FS_Subset
      <4>2. Cardinality(hits) <= 1 /\ hits # {}
        BY <3>1
      <4> HIDE DEF hits
      <4>3. Cardinality(hits) = 1
        BY <4>1, <4>2, FS_EmptySet, FS_CardinalityType
      <4>4. \E x : hits = {x}
        BY <4>1, <4>3, FS_Singleton
      <4> QED BY <4>4 DEF hits
    <3> QED BY <3>2, <3>3, <3>4, <3>5
  <2> QED BY <2>5, <2>6
<1> QED BY <1>1, Invariant, PTL
=============================================================================
