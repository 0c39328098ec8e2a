----------------------- MODULE VersionMatching_proofs -----------------------
(***************************************************************************)
(* What is answered about an advisory, for every advisory, package,        *)
(* ecosystem and version, and whatever the parsers read in the versions:   *)
(* that the two questions a source may ask part in doubt or over a list of *)
(* versions only, that "not affected" hides no version which the list or a *)
(* range of the advisory holds, that "affected" is the answer about those  *)
(* only, and that intervals cover what lies between two versions they      *)
(* cover.                                                                  *)
(***************************************************************************)
EXTENDS VersionMatching, VersionOrder_proofs, TLAPS

\* An interval of an entry comes from one of the ranges it was taken from.
LEMMA IntervalHasRange ==
  ASSUME NEW entry, NEW chosen, NEW iv \in EntryIntervals(entry, chosen)
  PROVE  chosen # {}
BY DEF EntryIntervals

\* An entry of which no doubt is raised is decided by its ranges of versions
\* alone: what any of its intervals covers, it calls affected.
LEMMA UndoubtedEntrySays ==
  ASSUME NEW entry, NEW e, NEW version,
         NEW iv \in EntryIntervals(entry, AllRanges(entry)),
         CoversIn(iv, e, version),
         ~CannotSay(entry, e, version)
  PROVE  SaysAffected(entry, e, version)
<1>1. OrderedRanges(entry) = AllRanges(entry)
  BY DEF CannotSay
<1>2. OrderedRanges(entry) # {}
  BY <1>1, IntervalHasRange
<1>3. RangesOrderedIn(e, version, entry)
  BY <1>2 DEF CannotSay
<1>4. \E other \in EntryIntervals(entry, OrderedRanges(entry)) : CoversIn(other, e, version)
  BY <1>1
<1> QED
  BY <1>2, <1>3, <1>4 DEF SaysAffected

\* Of an advisory that affects a version, Decide does not say that it does not.
LEMMA AffectedIsNotCleared ==
  ASSUME NEW pkg, NEW wire, NEW version, Affects(pkg, wire, version)
  PROVE  Decide(pkg, wire, version) # "not_affected"
<1>1. ~withdrawn
  BY DEF Affects
<1>2. PICK i \in Naming(pkg, wire) :
        \E iv \in EntryIntervals(affected[i], AllRanges(affected[i])) :
          CoversIn(iv, Eco(affected[i], wire), version)
  BY DEF Affects
<1>3. \/ SaysAffected(affected[i], Eco(affected[i], wire), version)
      \/ CannotSay(affected[i], Eco(affected[i], wire), version)
  BY <1>2, UndoubtedEntrySays
<1>4. CASE \E j \in Naming(pkg, wire) :
             SaysAffected(affected[j], Eco(affected[j], wire), version)
  BY <1>1, <1>4 DEF Decide
<1>5. CASE ~\E j \in Naming(pkg, wire) :
             SaysAffected(affected[j], Eco(affected[j], wire), version)
  <2>1. \E j \in Naming(pkg, wire) : CannotSay(affected[j], Eco(affected[j], wire), version)
    BY <1>2, <1>3, <1>5
  <2> QED
    BY <1>1, <1>5, <2>1 DEF Decide
<1> QED
  BY <1>4, <1>5

\* Intervals of some ranges are among those of all of them.
LEMMA MoreRangesMoreIntervals ==
  ASSUME NEW entry
  PROVE  EntryIntervals(entry, OrderedRanges(entry))
           \subseteq EntryIntervals(entry, AllRanges(entry))
BY DEF EntryIntervals, OrderedRanges, AllRanges

\* What Decide calls affected by the ranges of an entry, Affects covers.
LEMMA AffectedIsCoveredOrListed ==
  ASSUME NEW pkg, NEW wire, NEW version,
         Decide(pkg, wire, version) = "affected", ~Affects(pkg, wire, version)
  PROVE  \E i \in Naming(pkg, wire) : \E listed \in affected[i].versions :
           ListEqual(Eco(affected[i], wire), listed, version)
<1>1. ~withdrawn
  BY DEF Decide
<1>2. PICK i \in Naming(pkg, wire) :
        SaysAffected(affected[i], Eco(affected[i], wire), version)
  BY <1>1 DEF Decide
<1>3. ~\E iv \in EntryIntervals(affected[i], OrderedRanges(affected[i])) :
         CoversIn(iv, Eco(affected[i], wire), version)
  BY <1>1, MoreRangesMoreIntervals DEF Affects
<1> QED
  BY <1>2, <1>3 DEF SaysAffected

\* For every advisory and every reading of versions: what Affects covers, Decide
\* never calls "not affected", and where Decide says affected and Affects does
\* not cover, an entry lists the version.  A mirror that asks the one and a
\* client that asks the other part in doubt or over a list, nowhere else.
THEOREM Agreement == Spec => []DifferInDoubtOrListOnly
<1>1. DifferInDoubtOrListOnly
  BY AffectedIsNotCleared, AffectedIsCoveredOrListed DEF DifferInDoubtOrListOnly
<1> QED
  BY <1>1, PTL

-----------------------------------------------------------------------------
(* The shape of an advisory.                                                 *)

\* The items of a sequence.
LEMMA ElementsOf ==
  ASSUME NEW S, NEW s \in Seq(S)
  PROVE  /\ Len(s) \in Nat /\ DOMAIN s = 1 .. Len(s)
         /\ \A i \in 1 .. Len(s) : s[i] \in S
OBVIOUS

EventsOfRanges == Seq([kind : EventKinds, version : Versions])

RangesOfEntries == Seq([type : Types, events : EventsOfRanges])

Entries ==
  [package : Packages, ecosystem : Named, versions : SUBSET Versions, ranges : RangesOfEntries]

AdvisoryTypeOK == affected \in Seq(Entries)

\* The empty advisory has the shape of one.
LEMMA AdvisoryInit == Init => AdvisoryTypeOK
BY DEF Init, AdvisoryTypeOK

\* Whatever the database adds to an advisory leaves it in shape.
LEMMA AdvisoryStep == AdvisoryTypeOK /\ [Next]_vars => AdvisoryTypeOK'
<1> SUFFICES ASSUME AdvisoryTypeOK, [Next]_vars PROVE AdvisoryTypeOK'
  OBVIOUS
<1> DEFINE n == Len(affected)
<1>1. ASSUME NEW pkg \in Packages, NEW e \in Named, AddEntry(pkg, e) PROVE AdvisoryTypeOK'
  <2> DEFINE entry == [package |-> pkg, ecosystem |-> e, versions |-> {}, ranges |-> <<>>]
  <2>1. <<>> \in RangesOfEntries
    BY DEF RangesOfEntries
  <2>2. entry \in Entries
    BY <2>1 DEF Entries
  <2>3. affected' = Append(affected, entry)
    BY <1>1 DEF AddEntry
  <2> HIDE DEF entry
  <2> QED
    BY <2>2, <2>3 DEF AdvisoryTypeOK
<1>2. ASSUME n > 0 PROVE affected[n] \in Entries
  BY <1>2 DEF AdvisoryTypeOK
<1>3. ASSUME n > 0, NEW entry \in Entries, affected' = [affected EXCEPT ![n] = entry]
      PROVE  AdvisoryTypeOK'
  BY <1>3 DEF AdvisoryTypeOK
<1>4. ASSUME NEW version \in Versions, ListVersion(version) PROVE AdvisoryTypeOK'
  <2> DEFINE entry == [affected[n] EXCEPT !.versions = @ \union {version}]
  <2>1. n > 0 /\ affected' = [affected EXCEPT ![n] = entry]
    BY <1>4 DEF ListVersion
  <2>2. entry \in Entries
    BY <1>2, <2>1 DEF Entries
  <2> HIDE DEF entry
  <2> QED
    BY <1>3, <2>1, <2>2
<1>5. ASSUME NEW type \in Types, AddRange(type) PROVE AdvisoryTypeOK'
  <2> DEFINE range == [type |-> type, events |-> <<>>]
             entry == [affected[n] EXCEPT !.ranges = Append(@, range)]
  <2>1. n > 0 /\ affected' = [affected EXCEPT ![n] = entry]
    BY <1>5 DEF AddRange
  <2>2. range \in [type : Types, events : EventsOfRanges]
    <3>1. <<>> \in EventsOfRanges
      BY DEF EventsOfRanges
    <3> QED
      BY <3>1
  <2>3. Append(affected[n].ranges, range) \in RangesOfEntries
    <3> HIDE DEF range
    <3> QED BY <1>2, <2>1, <2>2 DEF Entries, RangesOfEntries
  <2>4. entry \in Entries
    <3> HIDE DEF range
    <3> QED BY <1>2, <2>1, <2>3 DEF Entries
  <2> HIDE DEF entry
  <2> QED
    BY <1>3, <2>1, <2>4
<1>6. ASSUME NEW kind \in EventKinds, NEW version \in Versions, AddEvent(kind, version)
      PROVE  AdvisoryTypeOK'
  <2> DEFINE event == [kind |-> kind, version |-> version]
             ranges == affected[n].ranges
             r == Len(ranges)
             range == [ranges[r] EXCEPT !.events = Append(@, event)]
             entry == [affected[n] EXCEPT !.ranges = [ranges EXCEPT ![r] = range]]
  <2>1. n > 0 /\ r > 0 /\ affected' = [affected EXCEPT ![n] = entry]
    BY <1>6 DEF AddEvent
  <2>2. ranges \in RangesOfEntries /\ affected[n] \in Entries
    BY <1>2, <2>1 DEF Entries
  <2> HIDE DEF ranges
  <2>3. ranges[r] \in [type : Types, events : EventsOfRanges]
    <3>1. ranges \in Seq([type : Types, events : EventsOfRanges])
      BY <2>2 DEF RangesOfEntries
    <3>2. r \in 1 .. Len(ranges)
      BY <2>1, <3>1
    <3> HIDE DEF r
    <3> QED
      BY <3>1, <3>2, ElementsOf, Zenon
  <2>4. range \in [type : Types, events : EventsOfRanges]
    <3>1. Append(ranges[r].events, event) \in EventsOfRanges
      BY <2>3 DEF EventsOfRanges
    <3> HIDE DEF event
    <3> QED
      BY <2>3, <3>1
  <2> HIDE DEF range
  <2>5. [ranges EXCEPT ![r] = range] \in RangesOfEntries
    BY <2>1, <2>2, <2>4 DEF RangesOfEntries
  <2>6. entry \in Entries
    BY <2>2, <2>5 DEF Entries
  <2> HIDE DEF entry
  <2> QED
    BY <1>3, <2>1, <2>6
<1>7. CASE Withdraw
  BY <1>7 DEF Withdraw, AdvisoryTypeOK
<1>8. CASE UNCHANGED vars
  BY <1>8 DEF vars, AdvisoryTypeOK
<1> QED
  BY <1>1, <1>4, <1>5, <1>6, <1>7, <1>8 DEF Next

\* An advisory is in shape at every step.
LEMMA AdvisoryShape == Spec => []AdvisoryTypeOK
BY AdvisoryInit, AdvisoryStep, PTL DEF Spec

-----------------------------------------------------------------------------
(* What a query compares.                                                    *)

\* The versions, ecosystems and events a query meets are the module's own.
LEMMA Asked ==
  ASSUME AdvisoryTypeOK, NEW wire \in Wires, NEW pkg, NEW i \in Naming(pkg, wire)
  PROVE  /\ affected[i] \in Entries
         /\ Eco(affected[i], wire) \in Wires
<1>1. affected[i] \in Entries
  BY DEF Naming, AdvisoryTypeOK
<1> QED
  BY <1>1, MatchingAssumption DEF Entries, Eco

\* The events of a range of an entry.
LEMMA EventsOf ==
  ASSUME NEW entry \in Entries, NEW r \in DOMAIN entry.ranges
  PROVE  /\ entry.ranges[r] \in [type : Types, events : EventsOfRanges]
         /\ entry.ranges[r].events \in EventsOfRanges
         /\ Len(entry.ranges[r].events) \in Nat
         /\ DOMAIN entry.ranges[r].events = 1 .. Len(entry.ranges[r].events)
         /\ \A k \in 1 .. Len(entry.ranges[r].events) :
              entry.ranges[r].events[k] \in [kind : EventKinds, version : Versions]
<1>1. entry.ranges \in Seq([type : Types, events : EventsOfRanges])
  BY DEF Entries, RangesOfEntries
<1>2. entry.ranges[r] \in [type : Types, events : EventsOfRanges]
  BY <1>1, ElementsOf, Zenon
<1>3. entry.ranges[r].events \in Seq([kind : EventKinds, version : Versions])
  BY <1>2 DEF EventsOfRanges
<1> DEFINE events == entry.ranges[r].events
<1> HIDE DEF events
<1>4. events \in Seq([kind : EventKinds, version : Versions])
  BY <1>3 DEF events
<1>5. /\ Len(events) \in Nat /\ DOMAIN events = 1 .. Len(events)
      /\ \A k \in 1 .. Len(events) : events[k] \in [kind : EventKinds, version : Versions]
  BY <1>4, ElementsOf, Zenon
<1> QED
  BY <1>2, <1>5 DEF events

\* A version that can be ordered in an ecosystem and is not read by its parser is
\* comparable generically.
LEMMA OrderedIsComparable ==
  ASSUME NEW e \in Wires, NEW v, OrderedIn(e, v), ~Readable(e, v)
  PROVE  ComparableVersion(v) /\ e # "PyPI"
BY DEF OrderedIn

\* Where the parser does not read the installed version, the ecosystem's order is
\* the generic one.
LEMMA UnreadOrder ==
  ASSUME NEW e \in Wires, NEW v \in Versions, NEW w \in Versions, ~Readable(e, v)
  PROVE  CompareIn(e, v, w) = CompareIn("", v, w)
<1>1. "" \in Wires /\ ~Readable("", v)
  BY VersionAssumption DEF Wires, Readable
<1> QED
  BY <1>1, InOrder DEF HasOwnOrder

\* What it is for an interval to cover a version of its ecosystem: the same
\* comparisons, whichever order makes them.
LEMMA CoverCompares ==
  ASSUME NEW e \in Wires, NEW v \in Versions, NEW iv,
         {iv.introduced, iv.fixed, iv.lastAffected} \subseteq Versions \union {None}
  PROVE  CoversIn(iv, e, v) <=>
           /\ Readable(e, v) \/ ComparableVersion(v)
           /\ iv.introduced \notin {None, Zero} =>
                /\ IF Readable(e, v) THEN Readable(e, iv.introduced)
                                     ELSE ComparableVersion(iv.introduced)
                /\ CompareIn(e, v, iv.introduced) >= 0
           /\ iv.fixed # None =>
                /\ IF Readable(e, v) THEN Readable(e, iv.fixed) ELSE ComparableVersion(iv.fixed)
                /\ CompareIn(e, v, iv.fixed) < 0
           /\ iv.lastAffected # None =>
                /\ IF Readable(e, v) THEN Readable(e, iv.lastAffected)
                                     ELSE ComparableVersion(iv.lastAffected)
                /\ CompareIn(e, v, iv.lastAffected) <= 0
<1>1. CASE Readable(e, v)
  BY <1>1 DEF CoversIn, Within
<1>2. CASE ~Readable(e, v)
  <2>1. \A w \in Versions : CompareIn(e, v, w) = CompareIn("", v, w)
    BY <1>2, UnreadOrder
  <2>2. /\ iv.introduced # None => iv.introduced \in Versions
        /\ iv.fixed # None => iv.fixed \in Versions
        /\ iv.lastAffected # None => iv.lastAffected \in Versions
    OBVIOUS
  <2>3. CoversIn(iv, e, v) <=>
          /\ ComparableVersion(v)
          /\ iv.introduced \notin {None, Zero} =>
               ComparableVersion(iv.introduced) /\ CompareIn("", v, iv.introduced) >= 0
          /\ iv.fixed # None =>
               ComparableVersion(iv.fixed) /\ CompareIn("", v, iv.fixed) < 0
          /\ iv.lastAffected # None =>
               ComparableVersion(iv.lastAffected) /\ CompareIn("", v, iv.lastAffected) <= 0
    BY <1>2 DEF CoversIn, Covers, Within
  <2> QED
    BY <1>2, <2>1, <2>2, <2>3
<1> QED
  BY <1>1, <1>2

-----------------------------------------------------------------------------
(* Intervals bound as orders do.                                             *)

\* A trusted bound that is not above, or not below, one of two versions is so of
\* the versions that follow them.
LEMMA BoundsCarry ==
  ASSUME NEW e \in Wires, e # "Maven",
         NEW u \in Versions, NEW v \in Versions, NEW b \in Versions,
         OrderedIn(e, u), OrderedIn(e, v), OrderedIn(e, b), ReadAlike(e, {u, v, b}),
         CompareIn(e, u, v) <= 0
  PROVE  /\ CompareIn(e, u, b) >= 0 => CompareIn(e, v, b) >= 0
         /\ CompareIn(e, v, b) <= 0 => CompareIn(e, u, b) <= 0
         /\ CompareIn(e, v, b) < 0 => CompareIn(e, u, b) < 0
<1> DEFINE uv == CompareIn(e, u, v)
           vb == CompareIn(e, v, b)
           ub == CompareIn(e, u, b)
<1>1. uv \in Int /\ vb \in Int /\ ub \in Int /\ Falls(uv, vb, ub) /\ uv <= 0
  BY Transitive
<1> HIDE DEF uv, vb, ub
<1>2. /\ ub >= 0 => vb >= 0
      /\ vb <= 0 => ub <= 0
      /\ vb < 0 => ub < 0
  BY <1>1 DEF Falls
<1> QED
  BY <1>2 DEF uv, vb, ub

\* An interval with trusted bounds covers what lies between two versions it covers.
LEMMA Between ==
  ASSUME NEW e \in Wires, e # "Maven", NEW iv,
         NEW u \in Trusted(e), NEW v \in Trusted(e), NEW w \in Trusted(e),
         {iv.introduced, iv.fixed, iv.lastAffected} \subseteq Trusted(e) \union {None},
         ReadAlike(e, {u, v, w}),
         CompareIn(e, u, v) <= 0, CompareIn(e, v, w) <= 0,
         CoversIn(iv, e, u), CoversIn(iv, e, w)
  PROVE  CoversIn(iv, e, v)
<1> USE DEF Trusted
<1>1. {iv.introduced, iv.fixed, iv.lastAffected} \subseteq Versions \union {None}
  OBVIOUS
<1>2. /\ Readable(e, u) <=> Readable(e, v)
      /\ Readable(e, w) <=> Readable(e, v)
  BY DEF ReadAlike
<1>3. Readable(e, v) \/ ComparableVersion(v)
  BY OrderedIsComparable
<1> DEFINE Reads(b) == IF Readable(e, v) THEN Readable(e, b) ELSE ComparableVersion(b)
<1>4. /\ iv.introduced \notin {None, Zero} =>
           Reads(iv.introduced) /\ CompareIn(e, u, iv.introduced) >= 0
      /\ iv.fixed # None => Reads(iv.fixed) /\ CompareIn(e, w, iv.fixed) < 0
      /\ iv.lastAffected # None =>
           Reads(iv.lastAffected) /\ CompareIn(e, w, iv.lastAffected) <= 0
  BY <1>1, <1>2, CoverCompares
<1>5. ASSUME NEW b \in Trusted(e), Reads(b)
      PROVE  /\ e = "PyPI" => Readable(e, b)
             /\ Readable(e, v) => ReadAlike(e, {u, v, b}) /\ ReadAlike(e, {v, w, b})
  BY <1>2, <1>5 DEF ReadAlike, OrderedIn
<1>6. ASSUME Readable(e, v) PROVE CoversIn(iv, e, v)
  <2>1. iv.introduced \notin {None, Zero} => CompareIn(e, v, iv.introduced) >= 0
    BY <1>4, <1>5, <1>6, BoundsCarry
  <2>2. iv.fixed # None => CompareIn(e, v, iv.fixed) < 0
    BY <1>4, <1>5, <1>6, BoundsCarry
  <2>3. iv.lastAffected # None => CompareIn(e, v, iv.lastAffected) <= 0
    BY <1>4, <1>5, <1>6, BoundsCarry
  <2> QED
    BY <1>1, <1>4, <1>6, <2>1, <2>2, <2>3, CoverCompares
<1>7. ASSUME ~Readable(e, v) PROVE CoversIn(iv, e, v)
  <2>1. \A b \in Versions : /\ CompareIn(e, u, b) = CompareIn("", u, b)
                            /\ CompareIn(e, v, b) = CompareIn("", v, b)
                            /\ CompareIn(e, w, b) = CompareIn("", w, b)
    BY <1>2, <1>7, UnreadOrder
  <2>2. "" \in Wires /\ \A b : ~Readable("", b)
    BY VersionAssumption DEF Wires, Readable
  <2>3. \A b \in Versions, c \in Versions : CompareIn("", b, c) = CompareVersions(b, c)
    BY <2>2, InOrder DEF HasOwnOrder
  <2>4. ASSUME NEW b \in Trusted(e)
        PROVE  /\ CompareIn(e, u, b) >= 0 => CompareIn(e, v, b) >= 0
               /\ CompareIn(e, w, b) <= 0 => CompareIn(e, v, b) <= 0
               /\ CompareIn(e, w, b) < 0 => CompareIn(e, v, b) < 0
    <3> DEFINE uv == CompareVersions(u, v)
               vw == CompareVersions(v, w)
               ub == CompareVersions(u, b)
               vb == CompareVersions(v, b)
               wb == CompareVersions(w, b)
    <3>1. /\ uv \in Int /\ vb \in Int /\ ub \in Int /\ vw \in Int /\ wb \in Int
          /\ Falls(uv, vb, ub) /\ Falls(vw, wb, vb)
      BY GenericFalls
    <3>2. /\ CompareIn(e, u, v) = uv /\ CompareIn(e, v, w) = vw
          /\ CompareIn(e, u, b) = ub /\ CompareIn(e, v, b) = vb /\ CompareIn(e, w, b) = wb
      BY <2>1, <2>3
    <3> HIDE DEF uv, vw, ub, vb, wb
    <3>3. uv <= 0 /\ vw <= 0
      BY <3>2
    <3>4. /\ ub >= 0 => vb >= 0
          /\ wb <= 0 => vb <= 0
          /\ wb < 0 => vb < 0
      BY <3>1, <3>3 DEF Falls
    <3> QED
      BY <3>2, <3>4
  <2>5. /\ iv.introduced \notin {None, Zero} => CompareIn(e, v, iv.introduced) >= 0
        /\ iv.fixed # None => CompareIn(e, v, iv.fixed) < 0
        /\ iv.lastAffected # None => CompareIn(e, v, iv.lastAffected) <= 0
    BY <1>4, <2>4
  <2> QED
    BY <1>1, <1>3, <1>4, <1>7, <2>5, CoverCompares
<1> QED
  BY <1>6, <1>7

\* What lies between two versions that an interval covers is covered, for every
\* ecosystem but Maven and whatever the versions are (pep440.go:155-172).
THEOREM Convexity == Spec => []RangesAreConvex
<1>1. ASSUME NEW e \in Wires \ {"Maven"}, NEW iv PROVE Convex(e, iv)
  BY Between DEF Convex
<1>2. RangesAreConvex
  BY <1>1 DEF RangesAreConvex
<1> QED
  BY <1>2, PTL

-----------------------------------------------------------------------------
(* A clean answer.                                                           *)

\* The bounds of an interval are versions, and where they come from.
LEMMA IntervalBounds ==
  ASSUME NEW entry \in Entries, NEW r \in DOMAIN entry.ranges,
         NEW k \in DOMAIN entry.ranges[r].events
  PROVE  LET iv == IntervalAt(entry, r, k)
             events == entry.ranges[r].events
         IN /\ {iv.introduced, iv.fixed, iv.lastAffected} \subseteq Versions \union {None}
            /\ iv.introduced = Opening(events, k)
            /\ iv.fixed = BoundIf(events[k], "fixed")
            /\ iv.lastAffected = BoundIf(events[k], "last_affected")
<1> DEFINE events == entry.ranges[r].events
           iv == IntervalAt(entry, r, k)
<1>1. /\ iv.introduced = Opening(events, k)
      /\ iv.fixed = BoundIf(events[k], "fixed")
      /\ iv.lastAffected = BoundIf(events[k], "last_affected")
  BY DEF IntervalAt
<1>2. /\ DOMAIN events = 1 .. Len(events) /\ Len(events) \in Nat
      /\ \A j \in 1 .. Len(events) : events[j] \in [kind : EventKinds, version : Versions]
  BY EventsOf
<1>3. k \in DOMAIN events
  OBVIOUS
<1> HIDE DEF events, iv
<1>4. events[k].version \in Versions
  BY <1>2, <1>3
<1>5. k > 1 => events[k - 1].version \in Versions
  BY <1>2, <1>3
<1>6. {iv.introduced, iv.fixed, iv.lastAffected} \subseteq Versions \union {None}
  BY <1>1, <1>4, <1>5 DEF Opening, BoundIf
<1> QED
  BY <1>1, <1>6 DEF events, iv

\* Every introduction opens an interval that ends at the bound after it, or never.
LEMMA Opens ==
  ASSUME NEW entry \in Entries, NEW r \in DOMAIN entry.ranges,
         NEW i \in DOMAIN entry.ranges[r].events,
         entry.ranges[r].events[i].kind = "introduced"
  PROVE  LET events == entry.ranges[r].events
         IN \E k \in DOMAIN events :
              /\ EndsAt(events, k)
              /\ Opening(events, k) = events[i].version
              /\ k = i \/ (k = i + 1 /\ events[k].kind # "introduced")
<1> DEFINE events == entry.ranges[r].events
<1>1. /\ DOMAIN events = 1 .. Len(events) /\ Len(events) \in Nat
      /\ i \in DOMAIN events /\ events[i].kind = "introduced"
  BY EventsOf
<1> HIDE DEF events
<1>2. CASE i < Len(events) /\ events[i + 1].kind # "introduced"
  <2> DEFINE k == i + 1
  <2>1. k \in DOMAIN events /\ k > 1 /\ k - 1 = i /\ events[k].kind # "introduced"
    BY <1>1, <1>2
  <2> HIDE DEF k
  <2>2. EndsAt(events, k) /\ Opening(events, k) = events[i].version
    BY <1>1, <2>1 DEF EndsAt, Opening, BoundIf
  <2>3. k = i + 1
    BY DEF k
  <2>4. \E j \in DOMAIN events : /\ EndsAt(events, j) /\ Opening(events, j) = events[i].version
                                 /\ j = i \/ (j = i + 1 /\ events[j].kind # "introduced")
    BY <2>1, <2>2, <2>3
  <2> QED
    BY <2>4 DEF events
<1>3. CASE ~(i < Len(events) /\ events[i + 1].kind # "introduced")
  <2>1. EndsAt(events, i) /\ Opening(events, i) = events[i].version
    BY <1>1, <1>3 DEF EndsAt, Opening
  <2>2. \E j \in DOMAIN events : /\ EndsAt(events, j) /\ Opening(events, j) = events[i].version
                                 /\ j = i \/ (j = i + 1 /\ events[j].kind # "introduced")
    BY <1>1, <2>1
  <2> QED
    BY <2>2 DEF events
<1> QED
  BY <1>2, <1>3

\* An entry that lists a version, or nearly, says affected or cannot say.
LEMMA ListedIsSaid ==
  ASSUME NEW entry \in Entries, NEW e \in Wires, NEW version \in Versions,
         Lists(entry, e, version)
  PROVE  SaysAffected(entry, e, version) \/ CannotSay(entry, e, version)
<1>1. PICK listed \in entry.versions :
        \/ listed = version
        \/ IF e = "PyPI" /\ HasOwnOrder(e, listed, version)
           THEN CompareIn(e, listed, version) = 0
           ELSE /\ ComparableVersion(listed) /\ ComparableVersion(version)
                /\ CompareIn("", listed, version) = 0
  BY DEF Lists
<1>2. listed \in Versions
  BY DEF Entries
<1>3. CASE listed = version
  BY <1>3 DEF SaysAffected, ListEqual
<1>4. CASE e = "PyPI" /\ HasOwnOrder(e, listed, version) /\ CompareIn(e, listed, version) = 0
  <2> DEFINE p == Reading["PyPI"][listed]
             q == Reading["PyPI"][version]
  <2>1. Readable("PyPI", listed) /\ Readable("PyPI", version)
    BY <1>4 DEF HasOwnOrder
  <2>2. PepRead(p) /\ PepRead(q)
    BY <1>2, <2>1, ReadingAssumption
  <2>3. CompareIn(e, listed, version) = OwnCompare(e, listed, version)
    BY <1>2, <1>4, InOrder
  <2>4. ComparePEP440(p, q) = 0
    BY <1>4, <2>3 DEF OwnCompare
  <2> HIDE DEF p, q
  <2>5. PepKey(p) = PepKey(q)
    BY <2>2, <2>4, SameKey
  <2> QED
    BY <1>4, <2>5 DEF p, q, SaysAffected, ListEqual
<1>5. CASE /\ ~(e = "PyPI" /\ HasOwnOrder(e, listed, version))
           /\ ComparableVersion(listed) /\ ComparableVersion(version)
           /\ CompareIn("", listed, version) = 0
  BY <1>5 DEF CannotSay, ListNear
<1> QED
  BY <1>1, <1>3, <1>4, <1>5

\* An entry with a range that holds a version by the rule says affected or cannot
\* say.
LEMMA RuleIsSaid ==
  ASSUME NEW entry \in Entries, NEW e \in Wires, NEW version \in Versions,
         NEW r \in DOMAIN entry.ranges, entry.ranges[r].type \in VersionTypes,
         Readable(e, version) => \A bound \in Bounds(entry.ranges[r]) : Readable(e, bound),
         AffectedByRule(e, entry.ranges[r], version),
         ~CannotSay(entry, e, version)
  PROVE  SaysAffected(entry, e, version)
<1> DEFINE range == entry.ranges[r]
           events == entry.ranges[r].events
<1>1. r \in OrderedRanges(entry)
  BY DEF OrderedRanges
<1>2. RangesOrderedIn(e, version, entry)
  BY <1>1 DEF CannotSay
<1>3. /\ DOMAIN events = 1 .. Len(events) /\ Len(events) \in Nat
      /\ \A j \in 1 .. Len(events) : events[j] \in [kind : EventKinds, version : Versions]
  BY EventsOf
<1>4. \A j \in DOMAIN events : OrderedIn(e, events[j].version)
  BY <1>1, <1>2, MatchingAssumption DEF RangesOrderedIn
<1>5. \A j \in DOMAIN events :
        ~SinceBeginning(events[j]) => events[j].version \in Bounds(range)
  BY DEF Bounds, Range
<1>6. PICK i \in DOMAIN events :
        /\ events[i].kind = "introduced"
        /\ \/ events[i].version = Zero
           \/ CompareIn(e, version, events[i].version) >= 0
        /\ \A k \in i + 1 .. Len(events) :
             /\ events[k].kind = "fixed" => CompareIn(e, version, events[k].version) < 0
             /\ events[k].kind = "last_affected" =>
                  CompareIn(e, version, events[k].version) <= 0
  BY DEF AffectedByRule
<1>7. PICK k \in DOMAIN events :
        /\ EndsAt(events, k)
        /\ Opening(events, k) = events[i].version
        /\ k = i \/ (k = i + 1 /\ events[k].kind # "introduced")
  BY <1>6, Opens
<1> DEFINE iv == IntervalAt(entry, r, k)
<1>8. iv \in EntryIntervals(entry, OrderedRanges(entry))
  BY <1>1, <1>7 DEF EntryIntervals
<1>9. /\ {iv.introduced, iv.fixed, iv.lastAffected} \subseteq Versions \union {None}
      /\ iv.introduced = events[i].version
      /\ iv.fixed = BoundIf(events[k], "fixed")
      /\ iv.lastAffected = BoundIf(events[k], "last_affected")
  BY <1>7, IntervalBounds
<1>10. OrderedIn(e, version)
  BY <1>2 DEF RangesOrderedIn
<1>11. Readable(e, version) \/ ComparableVersion(version)
  BY <1>10, OrderedIsComparable
<1> DEFINE Reads(b) == IF Readable(e, version) THEN Readable(e, b) ELSE ComparableVersion(b)
<1>12. ASSUME NEW j \in DOMAIN events, ~SinceBeginning(events[j])
       PROVE  Reads(events[j].version)
  <2>1. CASE Readable(e, version)
    BY <1>5, <1>12, <2>1
  <2>2. CASE ~Readable(e, version)
    <3>1. e # "PyPI"
      BY <1>10, <2>2 DEF OrderedIn
    <3> QED
      BY <1>4, <2>2, <3>1 DEF OrderedIn
  <2> QED
    BY <2>1, <2>2
<1> HIDE DEF iv, range, Reads
<1>13. iv.introduced \notin {None, Zero} =>
         Reads(iv.introduced) /\ CompareIn(e, version, iv.introduced) >= 0
  <2> HAVE iv.introduced \notin {None, Zero}
  <2>1. events[i].version # Zero
    BY <1>9
  <2>2. ~SinceBeginning(events[i])
    BY <2>1 DEF SinceBeginning
  <2>3. Reads(events[i].version)
    BY <1>12, <2>2
  <2> QED
    BY <1>6, <1>9, <2>1, <2>3
<1>14. events[k].kind # "introduced" => k \in i + 1 .. Len(events)
  <2> HAVE events[k].kind # "introduced"
  <2>1. k = i + 1
    BY <1>6, <1>7, Zenon
  <2>2. i \in 1 .. Len(events) /\ k \in 1 .. Len(events) /\ Len(events) \in Nat
    BY <1>3, <1>6, <1>7, Zenon
  <2> HIDE DEF events
  <2> QED
    BY <2>1, <2>2
<1>15. iv.fixed # None => Reads(iv.fixed) /\ CompareIn(e, version, iv.fixed) < 0
  <2> HAVE iv.fixed # None
  <2>1. events[k].kind = "fixed" /\ iv.fixed = events[k].version
    BY <1>9 DEF BoundIf
  <2>2. ~SinceBeginning(events[k])
    BY <2>1 DEF SinceBeginning
  <2> QED
    BY <1>6, <1>12, <1>14, <2>1, <2>2
<1>16. iv.lastAffected # None =>
         Reads(iv.lastAffected) /\ CompareIn(e, version, iv.lastAffected) <= 0
  <2> HAVE iv.lastAffected # None
  <2>1. events[k].kind = "last_affected" /\ iv.lastAffected = events[k].version
    BY <1>9 DEF BoundIf
  <2>2. ~SinceBeginning(events[k])
    BY <2>1 DEF SinceBeginning
  <2> QED
    BY <1>6, <1>12, <1>14, <2>1, <2>2
<1>17. CoversIn(iv, e, version)
  BY <1>9, <1>11, <1>13, <1>15, <1>16, CoverCompares DEF Reads
<1> QED
  BY <1>1, <1>2, <1>8, <1>17 DEF SaysAffected

\* "Not affected" is never the answer about a listed version, nor about one that
\* a range of versions holds (match.go:423-425, 313-315).
THEOREM NoFalseAllClear == Spec => []NeverMissesAffected
<1>1. AdvisoryTypeOK => NeverMissesAffected
  <2> SUFFICES ASSUME AdvisoryTypeOK, NEW q \in Queries, ~withdrawn,
                      Decide(q.package, q.wire, q.version) = "not_affected",
                      NEW i \in Naming(q.package, q.wire)
               PROVE  LET e == Eco(affected[i], q.wire)
                      IN /\ ~Lists(affected[i], e, q.version)
                         /\ \A range \in Range(affected[i].ranges) :
                              /\ range.type \in VersionTypes
                              /\ Readable(e, q.version) =>
                                   \A bound \in Bounds(range) : Readable(e, bound)
                              => ~AffectedByRule(e, range, q.version)
    BY DEF NeverMissesAffected
  <2> DEFINE e == Eco(affected[i], q.wire)
             entry == affected[i]
  <2>1. q.wire \in Wires /\ q.version \in Versions
    BY DEF Queries
  <2>2. entry \in Entries /\ e \in Wires
    BY <2>1, Asked
  <2>3. ~SaysAffected(entry, e, q.version) /\ ~CannotSay(entry, e, q.version)
    BY Zenon DEF Decide
  <2>4. ~Lists(entry, e, q.version)
    BY <2>1, <2>2, <2>3, ListedIsSaid
  <2>5. ASSUME NEW range \in Range(entry.ranges), range.type \in VersionTypes,
               Readable(e, q.version) => \A bound \in Bounds(range) : Readable(e, bound)
        PROVE  ~AffectedByRule(e, range, q.version)
    <3>1. PICK r \in DOMAIN entry.ranges : range = entry.ranges[r]
      BY DEF Range
    <3> QED
      BY <2>1, <2>2, <2>3, <2>5, <3>1, RuleIsSaid
  <2> QED
    BY <2>4, <2>5
<1> QED
  BY <1>1, AdvisoryShape, PTL

-----------------------------------------------------------------------------
(* An accusation.                                                            *)

\* A match that the list equality makes is one of the listed versions, as the
\* format compares them.
LEMMA EqualIsListed ==
  ASSUME NEW entry \in Entries, NEW e \in Wires, NEW version \in Versions,
         NEW listed \in entry.versions, ListEqual(e, listed, version)
  PROVE  Lists(entry, e, version)
<1>1. listed \in Versions
  BY DEF Entries
<1>2. CASE listed = version
  BY <1>2 DEF Lists
<1>3. CASE /\ e = "PyPI" /\ HasOwnOrder(e, listed, version)
           /\ PepKey(Reading[e][listed]) = PepKey(Reading[e][version])
  <2> DEFINE p == Reading["PyPI"][listed]
             q == Reading["PyPI"][version]
  <2>1. Readable("PyPI", listed) /\ Readable("PyPI", version)
    BY <1>3 DEF HasOwnOrder
  <2>2. PepRead(p) /\ PepRead(q)
    BY <1>1, <2>1, ReadingAssumption
  <2>3. CompareIn(e, listed, version) = OwnCompare(e, listed, version)
    BY <1>1, <1>3, InOrder
  <2>4. OwnCompare(e, listed, version) = ComparePEP440(p, q)
    BY <1>3 DEF OwnCompare
  <2>5. PepKey(p) = PepKey(q)
    BY <1>3
  <2> HIDE DEF p, q
  <2>6. ComparePEP440(p, q) = 0
    BY <2>2, <2>5, SameKey
  <2> QED
    BY <1>3, <2>3, <2>4, <2>6 DEF Lists
<1> QED
  BY <1>2, <1>3 DEF ListEqual

\* What is bounded by one bound of an ascending range is so by those after it.
LEMMA LaterBounds ==
  ASSUME NEW e \in Wires, e # "Maven", NEW version \in Versions, OrderedIn(e, version),
         NEW range \in [type : Types, events : EventsOfRanges], Ascending(e, range),
         \A bound \in Bounds(range) : OrderedIn(e, bound),
         ReadAlike(e, {version} \union Bounds(range)),
         NEW k \in DOMAIN range.events, NEW m \in DOMAIN range.events, k < m,
         range.events[k].kind # "introduced", range.events[m].kind # "introduced",
         IF range.events[k].kind = "fixed"
         THEN CompareIn(e, version, range.events[k].version) < 0
         ELSE CompareIn(e, version, range.events[k].version) <= 0
  PROVE  /\ CompareIn(e, version, range.events[m].version) <= 0
         /\ range.events[m].kind = "fixed" =>
              CompareIn(e, version, range.events[m].version) < 0
<1> DEFINE events == range.events
           b == events[k].version
           c == events[m].version
<1>1. events \in Seq([kind : EventKinds, version : Versions])
  BY DEF EventsOfRanges
<1>2. b \in Versions /\ c \in Versions
  <2> HIDE DEF events
  <2>1. k \in 1 .. Len(events) /\ m \in 1 .. Len(events)
    BY <1>1, ElementsOf DEF events
  <2>2. events[k] \in [kind : EventKinds, version : Versions]
        /\ events[m] \in [kind : EventKinds, version : Versions]
    BY <1>1, <2>1, ElementsOf, Zenon
  <2> QED
    BY <2>2
<1>3. ~SinceBeginning(events[k]) /\ ~SinceBeginning(events[m])
  BY DEF SinceBeginning
<1>4. b \in Bounds(range) /\ c \in Bounds(range)
  BY <1>3 DEF Bounds, Range
<1>5. OrderedIn(e, b) /\ OrderedIn(e, c) /\ ReadAlike(e, {version, b, c})
  BY <1>4 DEF ReadAlike
<1> DEFINE vb == CompareIn(e, version, b)
           bc == CompareIn(e, b, c)
           vc == CompareIn(e, version, c)
<1>6. vb <= 0
  <2> HIDE DEF vb
  <2>1. vb \in Int
    BY <1>2, <1>5, Transitive DEF vb
  <2> QED
    BY <2>1 DEF vb
<1>7. bc < 0 \/ (bc = 0 /\ events[m].kind # "fixed")
  BY <1>3 DEF Ascending
<1> HIDE DEF events, b, c
<1>8. vb \in Int /\ bc \in Int /\ vc \in Int /\ Falls(vb, bc, vc)
  BY <1>2, <1>5, Transitive
<1> HIDE DEF vb, bc, vc
<1>9. vc <= 0 /\ (events[m].kind = "fixed" => vc < 0)
  BY <1>6, <1>7, <1>8 DEF Falls
<1> QED
  BY <1>9 DEF vc, c, events

\* An interval of a well-formed range covers what the rule says is affected, only.
LEMMA CoveredByRule ==
  ASSUME NEW entry \in Entries, NEW e \in Wires, e # "Maven", NEW version \in Versions,
         OrderedIn(e, version), NEW r \in DOMAIN entry.ranges,
         NEW k \in DOMAIN entry.ranges[r].events, EndsAt(entry.ranges[r].events, k),
         CoversIn(IntervalAt(entry, r, k), e, version),
         Ascending(e, entry.ranges[r]), Alternating(entry.ranges[r]),
         \A bound \in Bounds(entry.ranges[r]) : OrderedIn(e, bound),
         ReadAlike(e, {version} \union Bounds(entry.ranges[r]))
  PROVE  AffectedByRule(e, entry.ranges[r], version)
<1> DEFINE range == entry.ranges[r]
           events == entry.ranges[r].events
           iv == IntervalAt(entry, r, k)
<1>1. /\ range \in [type : Types, events : EventsOfRanges]
      /\ DOMAIN events = 1 .. Len(events) /\ Len(events) \in Nat
      /\ \A j \in 1 .. Len(events) : events[j] \in [kind : EventKinds, version : Versions]
  BY EventsOf
<1>2. /\ {iv.introduced, iv.fixed, iv.lastAffected} \subseteq Versions \union {None}
      /\ iv.introduced = Opening(events, k)
      /\ iv.fixed = BoundIf(events[k], "fixed")
      /\ iv.lastAffected = BoundIf(events[k], "last_affected")
  BY IntervalBounds
<1>3. \A j \in DOMAIN events : events[j].kind = "introduced" <=> j % 2 = 1
  BY DEF Alternating
<1>4. /\ iv.introduced \notin {None, Zero} => CompareIn(e, version, iv.introduced) >= 0
      /\ iv.fixed # None => CompareIn(e, version, iv.fixed) < 0
      /\ iv.lastAffected # None => CompareIn(e, version, iv.lastAffected) <= 0
  <2> HIDE DEF iv
  <2>1. CoversIn(iv, e, version)
    BY DEF iv
  <2> QED
    BY <1>2, <2>1, CoverCompares
<1>5. SUFFICES \E i \in DOMAIN events :
        /\ events[i].kind = "introduced"
        /\ \/ events[i].version = Zero
           \/ CompareIn(e, version, events[i].version) >= 0
        /\ \A m \in i + 1 .. Len(events) :
             /\ events[m].kind = "fixed" => CompareIn(e, version, events[m].version) < 0
             /\ events[m].kind = "last_affected" =>
                  CompareIn(e, version, events[m].version) <= 0
  BY DEF AffectedByRule
<1>6. k \in 1 .. Len(events) /\ EndsAt(events, k)
  BY <1>1
<1>7. events[k].version \in Versions /\ events[k].version # None
  BY <1>1, <1>6, MatchingAssumption
<1> HIDE DEF iv
<1>8. CASE events[k].kind = "introduced"
  <2> HIDE DEF events
  <2>1. k = Len(events)
    <3> SUFFICES ASSUME k # Len(events) PROVE FALSE
      OBVIOUS
    <3>1. k + 1 \in DOMAIN events /\ events[k + 1].kind = "introduced"
      BY <1>1, <1>6, <1>8 DEF EndsAt
    <3>2. k % 2 = 1 /\ (k + 1) % 2 = 1
      BY <1>1, <1>3, <1>6, <1>8, <3>1
    <3> QED
      BY <1>1, <1>6, <3>2
  <2>2. iv.introduced = events[k].version
    BY <1>2, <1>8 DEF Opening, events
  <2>3. k \in DOMAIN events /\ k + 1 .. Len(events) = {}
    BY <1>1, <1>6, <2>1
  <2> QED
    BY <1>4, <1>7, <1>8, <2>2, <2>3
<1>9. CASE events[k].kind # "introduced"
  <2> DEFINE i == k - 1
  <2>1. i \in DOMAIN events /\ events[i].kind = "introduced" /\ k > 1
    <3> HIDE DEF events
    <3>1. k % 2 # 1 /\ k \in Nat /\ k > 0
      BY <1>1, <1>3, <1>6, <1>9
    <3>2. k > 1 /\ (k - 1) % 2 = 1
      BY <3>1
    <3> QED
      BY <1>1, <1>3, <1>6, <3>2
  <2>2. iv.introduced = events[i].version
    BY <1>2, <1>9, <2>1 DEF Opening, BoundIf
  <2>3. events[i].version # None
    BY <1>1, <2>1, MatchingAssumption
  <2>4. events[i].version = Zero \/ CompareIn(e, version, events[i].version) >= 0
    BY <1>4, <2>2, <2>3
  <2>5. events[k].kind = "fixed" \/ events[k].kind = "last_affected"
    BY <1>1, <1>6, <1>9 DEF EventKinds
  <2>6. IF events[k].kind = "fixed"
        THEN CompareIn(e, version, events[k].version) < 0
        ELSE CompareIn(e, version, events[k].version) <= 0
    <3>1. events[k].kind = "fixed" => iv.fixed = events[k].version
      BY <1>2 DEF BoundIf
    <3>2. events[k].kind = "last_affected" => iv.lastAffected = events[k].version
      BY <1>2 DEF BoundIf
    <3> QED
      BY <1>4, <1>7, <2>5, <3>1, <3>2
  <2>7. ASSUME NEW m \in i + 1 .. Len(events), events[m].kind # "introduced"
        PROVE  /\ events[m].kind = "fixed" => CompareIn(e, version, events[m].version) < 0
               /\ events[m].kind = "last_affected" =>
                    CompareIn(e, version, events[m].version) <= 0
    <3>1. CASE m = k
      BY <2>6, <3>1
    <3>2. CASE m # k
      <4>1. m \in DOMAIN events /\ k \in DOMAIN events /\ k < m
        <5> HIDE DEF events
        <5> QED BY <1>1, <1>6, <2>7, <3>2
      <4>2. range.events = events
        OBVIOUS
      <4> QED
        BY <1>1, <1>9, <2>6, <2>7, <4>1, LaterBounds
    <3> QED
      BY <3>1, <3>2
  <2>8. \A m \in i + 1 .. Len(events) :
          /\ events[m].kind = "fixed" => CompareIn(e, version, events[m].version) < 0
          /\ events[m].kind = "last_affected" =>
               CompareIn(e, version, events[m].version) <= 0
    <3> TAKE m \in i + 1 .. Len(events)
    <3>1. CASE events[m].kind = "introduced"
      BY <3>1
    <3>2. CASE events[m].kind # "introduced"
      BY <2>7, <3>2
    <3> QED
      BY <3>1, <3>2
  <2> HIDE DEF i, events
  <2> QED
    BY <2>1, <2>4, <2>8
<1> QED
  BY <1>8, <1>9

\* An entry that says affected lists the version, or has a range that holds it.
LEMMA SaidIsReal ==
  ASSUME NEW entry \in Entries, NEW e \in Wires, NEW version \in Versions,
         SaysAffected(entry, e, version)
  PROVE  \/ Lists(entry, e, version)
         \/ \E range \in Range(entry.ranges) :
              /\ range.type \in VersionTypes
              /\ OrderedIn(e, version)
              /\ \A bound \in Bounds(range) : OrderedIn(e, bound)
              /\ /\ Ascending(e, range) /\ Alternating(range)
                 /\ e # "Maven" /\ ReadAlike(e, {version} \union Bounds(range))
                 => AffectedByRule(e, range, version)
<1>1. CASE \E listed \in entry.versions : ListEqual(e, listed, version)
  BY <1>1, EqualIsListed
<1>2. CASE /\ RangesOrderedIn(e, version, entry)
           /\ \E iv \in EntryIntervals(entry, OrderedRanges(entry)) : CoversIn(iv, e, version)
  <2>0. PICK r \in OrderedRanges(entry) :
          \E k \in DOMAIN entry.ranges[r].events :
            /\ EndsAt(entry.ranges[r].events, k)
            /\ CoversIn(IntervalAt(entry, r, k), e, version)
    BY <1>2 DEF EntryIntervals
  <2>1. PICK k \in DOMAIN entry.ranges[r].events :
          /\ EndsAt(entry.ranges[r].events, k)
          /\ CoversIn(IntervalAt(entry, r, k), e, version)
    BY <2>0
  <2> DEFINE range == entry.ranges[r]
  <2>2. r \in DOMAIN entry.ranges /\ range.type \in VersionTypes
    BY DEF OrderedRanges
  <2>3. range \in Range(entry.ranges)
    BY <2>2 DEF Range
  <2>4. OrderedIn(e, version)
    BY <1>2 DEF RangesOrderedIn
  <2>5. \A bound \in Bounds(range) : OrderedIn(e, bound)
    <3> TAKE bound \in Bounds(range)
    <3>1. PICK j \in DOMAIN range.events : bound = range.events[j].version
      BY DEF Bounds, Range
    <3> QED
      BY <1>2, <3>1, MatchingAssumption DEF RangesOrderedIn
  <2>6. /\ Ascending(e, range) /\ Alternating(range)
        /\ e # "Maven" /\ ReadAlike(e, {version} \union Bounds(range))
        => AffectedByRule(e, range, version)
    BY <2>1, <2>2, <2>4, <2>5, CoveredByRule
  <2> HIDE DEF range
  <2> QED
    BY <2>2, <2>3, <2>4, <2>5, <2>6
<1> QED
  BY <1>1, <1>2 DEF SaysAffected

\* "Affected" is never a guess: the version is listed, or a range of versions
\* whose bounds can all be ordered holds it by the rule of the format
\* (match.go:14-17, 391-397).
THEOREM NoGuess == Spec => []AffectedIsReal
<1>1. AdvisoryTypeOK => AffectedIsReal
  <2> SUFFICES ASSUME AdvisoryTypeOK, NEW q \in Queries,
                      Decide(q.package, q.wire, q.version) = "affected"
               PROVE  \E i \in Naming(q.package, q.wire) :
                        LET e == Eco(affected[i], q.wire)
                        IN \/ Lists(affected[i], e, q.version)
                           \/ \E range \in Range(affected[i].ranges) :
                                /\ range.type \in VersionTypes
                                /\ OrderedIn(e, q.version)
                                /\ \A bound \in Bounds(range) : OrderedIn(e, bound)
                                /\ /\ Ascending(e, range) /\ Alternating(range)
                                   /\ e # "Maven"
                                   /\ ReadAlike(e, {q.version} \union Bounds(range))
                                   => AffectedByRule(e, range, q.version)
    BY DEF AffectedIsReal
  <2>1. q.wire \in Wires /\ q.version \in Versions
    BY DEF Queries
  <2>2. PICK i \in Naming(q.package, q.wire) :
          SaysAffected(affected[i], Eco(affected[i], q.wire), q.version)
    BY DEF Decide
  <2>3. affected[i] \in Entries /\ Eco(affected[i], q.wire) \in Wires
    BY <2>1, Asked
  <2> QED
    BY <2>1, <2>2, <2>3, SaidIsReal
<1> QED
  BY <1>1, AdvisoryShape, PTL
=============================================================================
