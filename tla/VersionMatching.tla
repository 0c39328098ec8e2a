-------------------------- MODULE VersionMatching --------------------------
(***************************************************************************)
(* Which versions an advisory affects, and what it says of the fix         *)
(* (src/vulnsource/match.go).                                              *)
(*                                                                         *)
(* The code is pure; the advisory is not: its database adds entries,       *)
(* ranges, events and listed versions to it and may withdraw it.  A state  *)
(* is an advisory on its way, and the properties compare what the code     *)
(* answers about it, for every version, package and ecosystem asked about, *)
(* with one another and with the rule the range format has of its own.     *)
(***************************************************************************)
EXTENDS VersionOrder

CONSTANTS
  Packages,   \* package names, alike under EqualFold when they are equal
  Named,      \* the ecosystems entries name, "" for none
  Zero,       \* the version "0", in Introduced "since the beginning"
  Types,      \* the types of ranges
  MaxParts    \* bound: entries, listed versions, ranges and events together

VersionTypes == {"SEMVER", "ECOSYSTEM"}   \* the types of ranges of versions

None == "none"   \* an empty bound or version

ASSUME MatchingAssumption ==
  /\ Zero \in Versions
  /\ None \notin Versions
  /\ \A e \in Wires : OrderedIn(e, Zero)
  /\ VersionTypes \subseteq Types
  /\ MaxParts \in Nat
  /\ Named \subseteq Wires

VARIABLES
  withdrawn,  \* Record.Withdrawn is set
  affected,   \* Record.Affected
  parts       \* parts added so far

vars == <<withdrawn, affected, parts>>

EventKinds == {"introduced", "fixed", "last_affected"}

-----------------------------------------------------------------------------
(* Intervals.                                                              *)

\* The bound an event carries when it closes an interval of its kind.
BoundIf(event, kind) == IF event.kind = kind THEN event.version ELSE None

\* Slip: an introduction that follows an open one loses it.
EndsAtFixOrEnd(events, k) ==
  events[k].kind = "introduced" => k = Len(events)

\* An interval ends at event k: k closes it, or the interval k opens is open
\* when the next one opens, or when the range ends.
EndsAt(events, k) ==
  events[k].kind = "introduced" =>
    k = Len(events) \/ events[k + 1].kind = "introduced"

\* The introduction of the interval that ends at event k: none, when k closes
\* what nothing opened.
Opening(events, k) ==
  IF events[k].kind = "introduced" THEN events[k].version
  ELSE IF k > 1 THEN BoundIf(events[k - 1], "introduced") ELSE None

\* The interval that ends at event k of range r, and the place it comes from.
IntervalAt(entry, r, k) ==
  LET events == entry.ranges[r].events
  IN [range |-> r, at |-> k,
      introduced |-> Opening(events, k),
      fixed |-> BoundIf(events[k], "fixed"),
      lastAffected |-> BoundIf(events[k], "last_affected")]

\* entryIntervals, for the ranges of the entry that are chosen.
EntryIntervals(entry, chosen) ==
  UNION {{IntervalAt(entry, r, k) : k \in {n \in DOMAIN entry.ranges[r].events :
                                             EndsAt(entry.ranges[r].events, n)}} :
           r \in chosen}

\* The installed version lies within the bounds, by a comparison with a bound
\* that may not be possible: then it does not.
Within(iv, CanCompare(_), Compare(_)) ==
  /\ iv.introduced \notin {None, Zero} =>
       CanCompare(iv.introduced) /\ Compare(iv.introduced) >= 0
  /\ iv.fixed # None => CanCompare(iv.fixed) /\ Compare(iv.fixed) < 0
  /\ iv.lastAffected # None => CanCompare(iv.lastAffected) /\ Compare(iv.lastAffected) <= 0

\* Interval.Covers: the generic order.
Covers(iv, installed) ==
  /\ ComparableVersion(installed)
  /\ Within(iv, ComparableVersion, LAMBDA bound : CompareIn("", installed, bound))

\* Slip: the last affected version is left to the generic order.
CoversToGenericEnd(iv, e, installed) ==
  IF Readable(e, installed)
  THEN Within(iv, LAMBDA bound : Readable(e, bound),
                  LAMBDA bound : CompareIn(IF bound = iv.lastAffected THEN "" ELSE e,
                                           installed, bound))
  ELSE Covers(iv, installed)

\* coversIn: the ecosystem's order, when the installed version is readable.
CoversIn(iv, e, installed) ==
  IF Readable(e, installed)
  THEN Within(iv, LAMBDA bound : Readable(e, bound),
                  LAMBDA bound : CompareIn(e, installed, bound))
  ELSE Covers(iv, installed)

-----------------------------------------------------------------------------
(* The questions asked of an advisory.                                     *)

\* names: the entry is about the package, in the caller's ecosystem or any.
Names(entry, pkg, wire) ==
  /\ entry.package = pkg
  /\ entry.ecosystem = "" \/ wire = "" \/ entry.ecosystem = wire

\* The entries of the advisory that name the package.
Naming(pkg, wire) == {i \in DOMAIN affected : Names(affected[i], pkg, wire)}

\* eco: the caller's ecosystem, else the entry's; "" has the generic order.
Eco(entry, wire) == IF wire # "" THEN wire ELSE entry.ecosystem

AllRanges(entry) == DOMAIN entry.ranges

\* Slip: the events of every range are taken for versions.
RangesOfAnyType(entry) == DOMAIN entry.ranges

\* The ranges whose events are versions.
OrderedRanges(entry) ==
  {r \in DOMAIN entry.ranges : entry.ranges[r].type \in VersionTypes}

\* Record.Affects.
Affects(pkg, wire, version) ==
  /\ ~withdrawn
  /\ \E i \in Naming(pkg, wire) :
       \E iv \in EntryIntervals(affected[i], AllRanges(affected[i])) :
         CoversIn(iv, Eco(affected[i], wire), version)

\* rangesOrderedIn, for the ordered ranges of the entry.
RangesOrderedIn(e, version, entry) ==
  /\ OrderedIn(e, version)
  /\ \A r \in OrderedRanges(entry) :
       \A k \in DOMAIN entry.ranges[r].events :
         LET bound == entry.ranges[r].events[k].version
         IN bound # Zero => OrderedIn(e, bound)

\* matchList: PyPI's equality when both are readable, the spelling elsewhere.
ListEqual(e, listed, version) ==
  \/ listed = version
  \/ /\ e = "PyPI"
     /\ HasOwnOrder(e, listed, version)
     /\ PepKey(Reading[e][listed]) = PepKey(Reading[e][version])

\* Spelled differently, numerically the same, and not told apart by PyPI.
ListNear(e, listed, version) ==
  /\ ~(e = "PyPI" /\ HasOwnOrder(e, listed, version))
  /\ ComparableVersion(listed)
  /\ ComparableVersion(version)
  /\ CompareIn("", listed, version) = 0

\* What Decide makes of one entry that names the package: it says affected.
SaysAffected(entry, e, version) ==
  \/ \E listed \in entry.versions : ListEqual(e, listed, version)
  \/ /\ OrderedRanges(entry) # {}
     /\ RangesOrderedIn(e, version, entry)
     /\ \E iv \in EntryIntervals(entry, OrderedRanges(entry)) : CoversIn(iv, e, version)

\* Slip: a range of another type is no reason to doubt.
CannotSayByTypesAlone(entry, e, version) ==
  \/ OrderedRanges(entry) # {} /\ ~RangesOrderedIn(e, version, entry)
  \/ \E listed \in entry.versions : ListNear(e, listed, version)
  \/ entry.versions = {} /\ OrderedRanges(entry) = {}

\* It carries something that a match of the package cannot be made from.
CannotSay(entry, e, version) ==
  \/ OrderedRanges(entry) # {} /\ ~RangesOrderedIn(e, version, entry)
  \/ \E listed \in entry.versions : ListNear(e, listed, version)
  \/ entry.versions = {} /\ OrderedRanges(entry) = {}
  \/ OrderedRanges(entry) # AllRanges(entry)

\* Record.Decide.
Decide(pkg, wire, version) ==
  LET naming == Naming(pkg, wire)
      e(i) == Eco(affected[i], wire)
  IN IF withdrawn THEN "not_affected"
     ELSE IF \E i \in naming : SaysAffected(affected[i], e(i), version) THEN "affected"
     ELSE IF \E i \in naming : CannotSay(affected[i], e(i), version) THEN "undecidable"
     ELSE "not_affected"

\* ecoIntervals: every interval of the entries that name the package, each with
\* its entry.
Intervals(pkg, wire) ==
  UNION {{<<i, iv>> : iv \in EntryIntervals(affected[i], AllRanges(affected[i]))} :
           i \in Naming(pkg, wire)}

\* The order of the document.
Before(p, q) ==
  Chain(<<p[1] - q[1], p[2].range - q[2].range, p[2].at - q[2].at>>) < 0

\* Record.FixedVersion: the bound of the only interval, else the smallest one of
\* the intervals that cover the installed version.
FixedVersion(pkg, wire, installed) ==
  LET all == Intervals(pkg, wire)
      e(p) == Eco(affected[p[1]], wire)
      covering == {p \in all : p[2].fixed # None /\ CoversIn(p[2], e(p), installed)}
      smaller(best, p) ==
        IF best = None \/ CompareIn(e(p), p[2].fixed, best) < 0 THEN p[2].fixed ELSE best
  IN IF Cardinality(all) = 1
     THEN (CHOOSE p \in all : TRUE)[2].fixed
     ELSE FoldLeft(smaller, None, SetToSortSeq(covering, Before))

-----------------------------------------------------------------------------
(* The advisory's database.                                                *)

Init ==
  /\ withdrawn = FALSE
  /\ affected = <<>>
  /\ parts = 0

Part ==
  /\ parts < MaxParts
  /\ parts' = parts + 1
  /\ UNCHANGED withdrawn

AddEntry(pkg, e) ==
  /\ Part
  /\ affected' = Append(affected,
       [package |-> pkg, ecosystem |-> e, versions |-> {}, ranges |-> <<>>])

\* The entry that is being written is the last one, and so is its range.
ListVersion(version) ==
  LET n == Len(affected)
  IN /\ n > 0
     /\ version \notin affected[n].versions
     /\ Part
     /\ affected' = [affected EXCEPT ![n].versions = @ \union {version}]

AddRange(type) ==
  LET n == Len(affected)
  IN /\ n > 0
     /\ Part
     /\ affected' = [affected EXCEPT ![n].ranges = Append(@, [type |-> type, events |-> <<>>])]

AddEvent(kind, version) ==
  LET n == Len(affected)
      r == Len(affected[n].ranges)
  IN /\ n > 0
     /\ r > 0
     /\ Part
     /\ affected' = [affected EXCEPT ![n].ranges[r].events =
                       Append(@, [kind |-> kind, version |-> version])]

Withdraw ==
  /\ ~withdrawn
  /\ withdrawn' = TRUE
  /\ UNCHANGED <<affected, parts>>

Next ==
  \/ \E pkg \in Packages, e \in Named : AddEntry(pkg, e)
  \/ \E version \in Versions : ListVersion(version)
  \/ \E type \in Types : AddRange(type)
  \/ \E kind \in EventKinds, version \in Versions : AddEvent(kind, version)
  \/ Withdraw

Spec == Init /\ [][Next]_vars

-----------------------------------------------------------------------------
(* The rule of the range format, stated without intervals.                 *)

\* Introduced "0": since the beginning, whatever the order makes of "0".
SinceBeginning(event) == event.kind = "introduced" /\ event.version = Zero

\* The versions a range is bounded by.
Bounds(range) ==
  {event.version : event \in {other \in Range(range.events) : ~SinceBeginning(other)}}

\* The events of a range are in ascending order of their versions, a fix above
\* all that stands before it.
Ascending(e, range) ==
  \A j, k \in DOMAIN range.events : j < k =>
    LET order == CompareIn(e, range.events[j].version, range.events[k].version)
    IN \/ SinceBeginning(range.events[j])
       \/ order < 0
       \/ order = 0 /\ range.events[k].kind # "fixed"

\* An introduction and a bound take turns.
Alternating(range) ==
  \A k \in DOMAIN range.events :
    range.events[k].kind = "introduced" <=> k % 2 = 1

\* A version is affected when an introduction at or before it stands in the
\* range, and no fix at or before it and no last affected version before it stands
\* after that.
AffectedByRule(e, range, version) ==
  \E i \in DOMAIN range.events :
    /\ range.events[i].kind = "introduced"
    /\ \/ range.events[i].version = Zero
       \/ CompareIn(e, version, range.events[i].version) >= 0
    /\ \A k \in i + 1 .. Len(range.events) :
         LET bound == range.events[k].version
         IN /\ range.events[k].kind = "fixed" => CompareIn(e, version, bound) < 0
            /\ range.events[k].kind = "last_affected" => CompareIn(e, version, bound) <= 0

\* An entry lists the version, in this spelling or in one that is numerically the
\* same, where PyPI does not tell the two apart.
Lists(entry, e, version) ==
  \E listed \in entry.versions :
    \/ listed = version
    \/ IF e = "PyPI" /\ HasOwnOrder(e, listed, version)
       THEN CompareIn(e, listed, version) = 0
       ELSE /\ ComparableVersion(listed) /\ ComparableVersion(version)
            /\ CompareIn("", listed, version) = 0

\* The versions and bounds that Decide orders in the ecosystem.
Trusted(e) == {v \in Versions : OrderedIn(e, v)}

\* The interval covers what lies between two versions it covers.
Convex(e, iv) ==
  LET covered == {v \in Trusted(e) : CoversIn(iv, e, v)}
  IN {iv.introduced, iv.fixed, iv.lastAffected} \subseteq Trusted(e) \union {None} =>
       \A v \in Trusted(e) \ covered : \A u, w \in covered :
         ~(/\ ReadAlike(e, {u, v, w})
           /\ CompareIn(e, u, v) <= 0 /\ CompareIn(e, v, w) <= 0)

Queries == [package : Packages, wire : Wires, version : Versions]

-----------------------------------------------------------------------------
(* Properties.                                                             *)

\* "Not affected" is never the answer where the rule of the format says
\* affected: the version is listed, in this spelling or one that is numerically
\* the same, or a range of versions holds it (match.go:423-425, 313-315).  A bound
\* that Alpine's order does not read although the generic one does is the
\* exception: it bounds nothing from an installed version that Alpine reads
\* (pep440.go:166-169, 205-222).
NeverMissesAffected ==
  \A q \in Queries :
    ~withdrawn /\ Decide(q.package, q.wire, q.version) = "not_affected" =>
      \A i \in Naming(q.package, q.wire) :
        LET e == Eco(affected[i], q.wire)
        IN /\ ~Lists(affected[i], e, q.version)
           /\ \A range \in Range(affected[i].ranges) :
                /\ range.type \in VersionTypes
                /\ Readable(e, q.version) => \A bound \in Bounds(range) : Readable(e, bound)
                => ~AffectedByRule(e, range, q.version)

\* "Affected" is never a guess: an entry lists the version, or one of its ranges
\* of versions, every bound of it ordered in the ecosystem, holds the version by
\* the rule of the format when its events ascend and alternate (match.go:14-17,
\* 391-397).  Of other ranges the rule is not asked: a bound that nothing opened
\* covers all that lies below it, and Maven's versions are in no order that
\* ascending events could be stated in.
AffectedIsReal ==
  \A q \in Queries :
    Decide(q.package, q.wire, q.version) = "affected" =>
      \E i \in Naming(q.package, q.wire) :
        LET e == Eco(affected[i], q.wire)
        IN \/ Lists(affected[i], e, q.version)
           \/ \E range \in Range(affected[i].ranges) :
                /\ range.type \in VersionTypes
                /\ OrderedIn(e, q.version)
                /\ \A bound \in Bounds(range) : OrderedIn(e, bound)
                /\ /\ Ascending(e, range) /\ Alternating(range)
                   /\ e # "Maven" /\ ReadAlike(e, {q.version} \union Bounds(range))
                   => AffectedByRule(e, range, q.version)

\* How far two sources may part that ask a record the two questions.  What
\* Affects covers Decide never clears, at worst it is in doubt; and what Decide
\* calls affected and Affects does not cover, an entry lists: Affects reads the
\* ranges alone, so of a version that is only listed the two answers are opposite
\* (match.go:219-230, 404-425; decide_test.go:159-176 has such a version).
DifferInDoubtOrListOnly ==
  \A q \in Queries :
    LET covered == Affects(q.package, q.wire, q.version)
        verdict == Decide(q.package, q.wire, q.version)
    IN /\ covered => verdict # "not_affected"
       /\ verdict = "affected" /\ ~covered =>
            \E i \in Naming(q.package, q.wire) : \E listed \in affected[i].versions :
              ListEqual(Eco(affected[i], q.wire), listed, q.version)

\* An interval that covers two versions covers what lies between them, where
\* Decide would order all three and the bounds: so the orders it trusts bound
\* intervals as orders do (pep440.go:155-172).  Maven's, which is OSV's own, does
\* not: there 1-alpha is below 1, 1 below 1.foo and 1.foo below 1-alpha.
RangesAreConvex ==
  \A e \in Wires \ {"Maven"} : \A i \in DOMAIN affected :
    \A iv \in EntryIntervals(affected[i], AllRanges(affected[i])) : Convex(e, iv)

-----------------------------------------------------------------------------
(* What the documentation says and the code does not do.                   *)

\* A fix is never a downgrade: where a well-formed advisory affects the
\* installed version and names a fix, the fix is not older (match.go:236-245).
FixIsNoDowngrade ==
  \A q \in Queries :
    LET naming == Naming(q.package, q.wire)
        e(i) == Eco(affected[i], q.wire)
        fix == FixedVersion(q.package, q.wire, q.version)
    IN /\ Decide(q.package, q.wire, q.version) = "affected"
       /\ fix # None
       /\ \A i \in naming : \A range \in Range(affected[i].ranges) :
            /\ Alternating(range) /\ Ascending(e(i), range)
            /\ \A event \in Range(range.events) :
                 event.version = Zero => event.kind = "introduced"
       => \E i \in naming : CompareIn(e(i), fix, q.version) >= 0
=============================================================================
