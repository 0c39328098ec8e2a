---------------------------- MODULE VersionOrder ----------------------------
(***************************************************************************)
(* The orders of versions (src/vulnsource/match.go, pep440.go, maven.go,   *)
(* distro.go): the generic dotted-numeric order and those of PyPI, Maven,  *)
(* Alpine and Debian, which the matching of advisories picks from.         *)
(*                                                                         *)
(* A version is an opaque spelling.  What the code's parsers read in it    *)
(* are tables: the segments and the prerelease the generic comparator      *)
(* reads, and the ecosystem's own reading, if there is one.  What is done  *)
(* with a reading, trimming, sentinels and comparison, is defined here.    *)
(***************************************************************************)
EXTENDS Integers, Sequences, FiniteSets, FiniteSetsExt, SequencesExt

CONSTANTS
  Versions,   \* spellings, without the spaces and the leading "v" the code trims
  Ecosystems, \* the ecosystems of packages
  Core,       \* generic reading: the dotted segments of each version
  Pre,        \* generic reading: the rank of the prerelease text, 0 for none
  Reading,    \* by ecosystem and version: its own reading, or Unreadable
  Unreadable

Lettered == -1   \* a segment that is not all digits

ASSUME VersionAssumption ==
  /\ Core \in [Versions -> Seq(Nat \union {Lettered})]
  /\ \A v \in Versions : Core[v] # <<>>
  /\ Pre \in [Versions -> Nat]
  /\ Ecosystems \subseteq DOMAIN Reading
  /\ "" \notin Ecosystems
  /\ \A e \in Ecosystems : DOMAIN Reading[e] = Versions

Sign(n) == IF n < 0 THEN -1 ELSE IF n > 0 THEN 1 ELSE 0

\* The outcome of the first position of 1 .. n whose comparison is not 0.
FirstSign(n, At(_)) ==
  LET differing == {i \in 1 .. n : At(i) # 0}
  IN IF differing = {} THEN 0 ELSE At(Min(differing))

\* The first of several comparisons that is not 0.
Chain(signs) == FirstSign(Len(signs), LAMBDA i : signs[i])

\* The item of s at i, or what stands for it beyond the end of s.
Padded(s, i, pad) == IF i \in DOMAIN s THEN s[i] ELSE pad

Longer(s, t) == IF Len(s) >= Len(t) THEN Len(s) ELSE Len(t)

\* Two sequences of numbers, a missing one counting as pad.
CompareNumbers(s, t, pad) ==
  FirstSign(Longer(s, t), LAMBDA i : Sign(Padded(s, i, pad) - Padded(t, i, pad)))

-----------------------------------------------------------------------------
(* The generic order.                                                      *)

\* ComparableVersion: the leading segment is numeric.
ComparableVersion(v) == Core[v][1] # Lettered

\* splitVersion: a lettered segment counts as zero.
Segments(v) == [i \in DOMAIN Core[v] |-> IF Core[v][i] = Lettered THEN 0 ELSE Core[v][i]]

\* A release sorts above its own prereleases.
ComparePre(p, q) ==
  IF p = q THEN 0 ELSE IF p = 0 THEN 1 ELSE IF q = 0 THEN -1 ELSE Sign(p - q)

CompareVersions(v, w) ==
  Chain(<<CompareNumbers(Segments(v), Segments(w), 0), ComparePre(Pre[v], Pre[w])>>)

-----------------------------------------------------------------------------
(* PyPI.  A reading holds epoch, release, pre (a phase and a number, or    *)
(* <<>>), post and dev (a number, or Absent), and the local segments, each *)
(* <<1, number>> or <<0, rank of the word>>.                               *)

Absent == -1
PepLow == -1         \* below every number of a version
PepHigh == 1000000   \* above every number of a version

\* The prerelease as parsePEP440 keys it: a bare dev release below every
\* prerelease, a final release above.
PreKey(p) ==
  CASE p.pre # <<>> -> p.pre
    [] p.pre = <<>> /\ p.post = Absent /\ p.dev # Absent -> <<PepLow, 0>>
    [] OTHER -> <<PepHigh, 0>>

PostKey(p) == p.post   \* Absent is PepLow
DevKey(p) == IF p.dev = Absent THEN PepHigh ELSE p.dev

\* cmpLocal: a number above a word, a longer label above its own prefix.
CompareLocal(a, b) ==
  LET segment(s, i) == Padded(s, i, <<-1, 0>>)
  IN FirstSign(Longer(a, b), LAMBDA i :
       Chain(<<Sign(segment(a, i)[1] - segment(b, i)[1]),
               Sign(segment(a, i)[2] - segment(b, i)[2])>>))

ComparePEP440(p, q) ==
  Chain(<<Sign(p.epoch - q.epoch),
          CompareNumbers(p.release, q.release, 0),
          CompareNumbers(PreKey(p), PreKey(q), 0),
          Sign(PostKey(p) - PostKey(q)),
          Sign(DevKey(p) - DevKey(q)),
          CompareLocal(p.local, q.local)>>)

\* pep440Key: the release without its trailing zeros, the rest as it stands.
PepKey(p) ==
  LET kept == {n \in 1 .. Len(p.release) :
                 \A i \in n + 1 .. Len(p.release) : p.release[i] = 0}
  IN [p EXCEPT !.release = SubSeq(@, 1, Min(kept))]

-----------------------------------------------------------------------------
(* Maven.  A reading is the tokens appendMavenPart makes, each with its    *)
(* prefix ("" for the first one), whether it is a number, and its value,   *)
(* for a word its rank: the keywords in their order, then the others in    *)
(* alphabetical order.                                                     *)

Release == 5         \* "", "ga", "final", "release"
UnknownWord == 7     \* ranks above it: the words that are no keywords

NullValue(t) == t.value = IF t.number THEN 0 ELSE Release

\* trimMaven: the null tokens at the end and before each hyphen are dropped,
\* the first token never.
Trimmed(tokens) ==
  LET dropped(i) ==
        /\ i > 1
        /\ \E k \in i + 1 .. Len(tokens) + 1 :
             /\ k \in DOMAIN tokens => tokens[k].prefix = "-"
             /\ \A j \in i .. k - 1 : NullValue(tokens[j])
      kept == SetToSortSeq({i \in DOMAIN tokens : ~dropped(i)}, <)
  IN [i \in DOMAIN kept |-> tokens[kept[i]] @@ [padding |-> FALSE]]

\* mavenPad: what a shorter version is padded with opposite t.
MavenPad(t) ==
  IF t.prefix = "-"
  THEN [prefix |-> "-", number |-> FALSE, value |-> Release, padding |-> TRUE]
  ELSE [prefix |-> ".", number |-> TRUE, value |-> 0, padding |-> TRUE]

\* rank: the order of tokens whose prefixes differ.
PrefixRank(t) ==
  CASE t.number /\ t.prefix = "-" -> 2
    [] t.number /\ t.prefix # "-" -> 3
    [] OTHER -> IF t.prefix = "-" THEN 1 ELSE 0

\* A padding number takes its place among the words, before the unknown ones.
WordRank(t) == IF t.number THEN UnknownWord ELSE t.value

TokenLess(t, u) ==
  CASE t.prefix # u.prefix -> PrefixRank(t) < PrefixRank(u)
    [] t.prefix = u.prefix /\ t.number /\ u.number -> t.value < u.value
    [] t.prefix = u.prefix /\ ~(t.number /\ u.number) ->
         /\ ~(t.number /\ ~t.padding)
         /\ (u.number /\ ~u.padding) \/ WordRank(t) < WordRank(u)

SameToken(t, u) == t.prefix = u.prefix /\ t.number = u.number /\ t.value = u.value

CompareMaven(a, b) ==
  LET x == Trimmed(a)
      y == Trimmed(b)
      left(i) == IF i \in DOMAIN x THEN x[i] ELSE MavenPad(y[i])
      right(i) == IF i \in DOMAIN y THEN y[i] ELSE MavenPad(x[i])
  IN FirstSign(Longer(x, y), LAMBDA i :
       IF SameToken(left(i), right(i)) THEN 0
       ELSE IF TokenLess(left(i), right(i)) THEN -1 ELSE 1)

-----------------------------------------------------------------------------
(* Alpine.  A reading is the tokens of parseAPK, pairs of a kind and a     *)
(* number; a suffix has the rank of its name, negative before a release.   *)

APKEnd == <<"end", 0>>

\* apkKindOrder.
KindOrder(t) ==
  CASE t[1] = "number" -> 3
    [] t[1] = "letter" -> 2
    [] t[1] = "suffix" -> IF t[2] < 0 THEN 0 ELSE 2
    [] OTHER -> 1

\* compareAPK: the first position where two tokens differ decides, also when
\* their kinds differ and have the same order.
CompareAPK(s, t) ==
  LET x(i) == Padded(s, i, APKEnd)
      y(i) == Padded(t, i, APKEnd)
      differing == {i \in 1 .. Longer(s, t) : x(i) # y(i)}
      i == Min(differing)
  IN IF differing = {} THEN 0
     ELSE IF x(i)[1] # y(i)[1] THEN Sign(KindOrder(x(i)) - KindOrder(y(i)))
     ELSE Sign(x(i)[2] - y(i)[2])

-----------------------------------------------------------------------------
(* Debian and Ubuntu.  A reading holds the epoch, and upstream and         *)
(* revision as chunks: a word, as the weights of its characters ("~" -1,   *)
(* letters, then the rest), and the number that follows it.                *)

\* verrevcmp: words by weight, the end of a word counting 0, then numbers.
CompareChunks(a, b) ==
  LET chunk(s, i) == Padded(s, i, <<<<>>, 0>>)
  IN FirstSign(Longer(a, b), LAMBDA i :
       Chain(<<CompareNumbers(chunk(a, i)[1], chunk(b, i)[1], 0),
               Sign(chunk(a, i)[2] - chunk(b, i)[2])>>))

CompareDpkg(a, b) ==
  Chain(<<Sign(a.epoch - b.epoch),
          CompareChunks(a.upstream, b.upstream),
          CompareChunks(a.revision, b.revision)>>)

-----------------------------------------------------------------------------
(* The order of an ecosystem (pep440.go).                                  *)

Readable(e, v) == e \in Ecosystems /\ Reading[e][v] # Unreadable

\* ecosystemCompare has an answer.
HasOwnOrder(e, v, w) == Readable(e, v) /\ Readable(e, w)

\* ecosystemCompare, where it has an answer.
OwnCompare(e, v, w) ==
  LET a == Reading[e][v]
      b == Reading[e][w]
  IN CASE e = "PyPI" -> ComparePEP440(a, b)
       [] e = "Maven" -> CompareMaven(a, b)
       [] e = "Alpine" -> CompareAPK(a, b)
       [] e = "Debian" -> CompareDpkg(a, b)
       [] OTHER -> 0

Wires == Ecosystems \union {""}   \* an advisory or a caller may name no ecosystem

\* compareIn, as a table: where no ecosystem is named the order is the generic
\* one.
Order ==
  [e \in Wires |-> [v \in Versions |-> [w \in Versions |->
     IF HasOwnOrder(e, v, w) THEN OwnCompare(e, v, w) ELSE CompareVersions(v, w)]]]

CompareIn(e, v, w) == Order[e][v][w]

\* No segment has a letter.
AllDigits(v) == \A i \in DOMAIN Core[v] : Core[v][i] # Lettered

\* orderedIn: the version can be ordered in the ecosystem.
OrderedIn(e, v) ==
  IF e = "PyPI" THEN Readable(e, v)
  ELSE /\ ComparableVersion(v)
       /\ e = "Maven" \/ AllDigits(v)

\* The ecosystem reads all of the versions, or none: the same order compares them.
ReadAlike(e, versions) ==
  (\A v \in versions : Readable(e, v)) \/ (\A v \in versions : ~Readable(e, v))

-----------------------------------------------------------------------------
(* What the parsers read.                                                  *)

\* What parsePEP440 reads, the number that is its own sentinel aside.
PepRead(p) ==
  /\ p \in [epoch : Nat, release : Seq(Nat), pre : {<<>>} \union ((0 .. 2) \X Nat),
            post : Nat \union {Absent}, dev : Nat \union {Absent},
            local : Seq({0, 1} \X Nat)]
  /\ p.release # <<>>
  /\ p.dev < PepHigh

\* What parseAPK reads in a version that has only digits and dots before a
\* hyphen: numbers and the revision that closes them.  (It also reads a part with
\* a sign, and what may follow that: "1.-5_p1".)
APKReadRelease(t) ==
  /\ t \in Seq({"number", "revision"} \X Int)
  /\ t # <<>>
  /\ \A i \in DOMAIN t : t[i][1] = "revision" <=> i = Len(t)

\* What splitDpkg and verrevcmp read.
DpkgRead(d) ==
  d \in [epoch : Int, upstream : Seq(Seq(Int) \X Nat), revision : Seq(Seq(Int) \X Nat)]

ASSUME ReadingAssumption ==
  \A v \in Versions :
    /\ Readable("PyPI", v) => PepRead(Reading["PyPI"][v])
    /\ Readable("Alpine", v) /\ AllDigits(v) => APKReadRelease(Reading["Alpine"][v])
    /\ Readable("Debian", v) => DpkgRead(Reading["Debian"][v])
=============================================================================
