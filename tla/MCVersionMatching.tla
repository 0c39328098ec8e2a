-------------------------- MODULE MCVersionMatching --------------------------
(* Instances of VersionMatching: spellings that the ecosystems read apart,   *)
(* with what each parser of the code reads in them.                          *)
EXTENDS VersionMatching, TLC

CONSTANTS
  Spellings,       \* the versions of the instance
  django, flask    \* packages

AnyPackage == Permutations(Packages)

Table ==
  [core |-> ("0" :> <<0>> @@ "1.0" :> <<1, 0>> @@ "1.0.0" :> <<1, 0, 0>>
      @@ "1.0a" :> <<1, Lettered>> @@ "1.0-r1" :> <<1, 0>> @@ "1.0_p1" :> <<1, Lettered>>
      @@ "1.0~rc1" :> <<1, Lettered>> @@ "1.0.dev1" :> <<1, 0, Lettered>>
      @@ "2.0" :> <<2, 0>> @@ "2.0-1" :> <<2, 0>> @@ "latest" :> <<Lettered>>)]

ThePre == [v \in Spellings |-> CASE v = "2.0-1" -> 1 [] v = "1.0-r1" -> 2 [] OTHER -> 0]

Pep(release, pre, post, dev) ==
  [epoch |-> 0, release |-> release, pre |-> pre, post |-> post, dev |-> dev, local |-> <<>>]

PyPI ==
  "0" :> Pep(<<0>>, <<>>, Absent, Absent)
  @@ "1.0" :> Pep(<<1, 0>>, <<>>, Absent, Absent)
  @@ "1.0.0" :> Pep(<<1, 0, 0>>, <<>>, Absent, Absent)
  @@ "1.0a" :> Pep(<<1, 0>>, <<0, 0>>, Absent, Absent)
  @@ "1.0.dev1" :> Pep(<<1, 0>>, <<>>, Absent, 1)
  @@ "1.0-r1" :> Pep(<<1, 0>>, <<>>, 1, Absent)
  @@ "2.0" :> Pep(<<2, 0>>, <<>>, Absent, Absent)
  @@ "2.0-1" :> Pep(<<2, 0>>, <<>>, 1, Absent)

Num(prefix, n) == [prefix |-> prefix, number |-> TRUE, value |-> n]
Word(prefix, rank) == [prefix |-> prefix, number |-> FALSE, value |-> rank]

\* The words that are no keywords: "_p", "a", "dev", "r" and "~rc".
Maven ==
  "0" :> <<Num("", 0)>>
  @@ "1.0" :> <<Num("", 1), Num(".", 0)>>
  @@ "1.0.0" :> <<Num("", 1), Num(".", 0), Num(".", 0)>>
  @@ "1.0a" :> <<Num("", 1), Num(".", 0), Word("-", 9)>>
  @@ "1.0.dev1" :> <<Num("", 1), Num(".", 0), Word(".", 10), Num("-", 1)>>
  @@ "1.0-r1" :> <<Num("", 1), Num(".", 0), Word("-", 11), Num("-", 1)>>
  @@ "1.0_p1" :> <<Num("", 1), Num(".", 0), Word("-", 8), Num("-", 1)>>
  @@ "1.0~rc1" :> <<Num("", 1), Num(".", 0), Word("-", 12), Num("-", 1)>>
  @@ "2.0" :> <<Num("", 2), Num(".", 0)>>
  @@ "2.0-1" :> <<Num("", 2), Num(".", 0), Num("-", 1)>>

Rev(n) == <<"revision", n>>

Alpine ==
  "0" :> <<<<"number", 0>>, Rev(0)>>
  @@ "1.0" :> <<<<"number", 1>>, <<"number", 0>>, Rev(0)>>
  @@ "1.0.0" :> <<<<"number", 1>>, <<"number", 0>>, <<"number", 0>>, Rev(0)>>
  @@ "1.0a" :> <<<<"number", 1>>, <<"number", 0>>, <<"letter", 97>>, Rev(0)>>
  @@ "1.0-r1" :> <<<<"number", 1>>, <<"number", 0>>, Rev(1)>>
  @@ "1.0_p1" :> <<<<"number", 1>>, <<"number", 0>>, <<"suffix", 5>>, <<"number", 1>>, Rev(0)>>
  @@ "1.0~rc1" :> <<<<"number", 1>>, <<"number", 0>>, Rev(0)>>
  @@ "2.0" :> <<<<"number", 2>>, <<"number", 0>>, Rev(0)>>

Deb(upstream, revision) == [epoch |-> 0, upstream |-> upstream, revision |-> revision]
NoRevision == <<<<<<>>, 0>>>>
Dot == <<302>>   \* "." weighs its code and 256

Debian ==
  "0" :> Deb(<<<<<<>>, 0>>>>, NoRevision)
  @@ "1.0" :> Deb(<<<<<<>>, 1>>, <<Dot, 0>>>>, NoRevision)
  @@ "1.0.0" :> Deb(<<<<<<>>, 1>>, <<Dot, 0>>, <<Dot, 0>>>>, NoRevision)
  @@ "1.0a" :> Deb(<<<<<<>>, 1>>, <<Dot, 0>>, <<<<97>>, 0>>>>, NoRevision)
  @@ "1.0.dev1" :> Deb(<<<<<<>>, 1>>, <<Dot, 0>>, <<<<302, 100, 101, 118>>, 1>>>>, NoRevision)
  @@ "1.0-r1" :> Deb(<<<<<<>>, 1>>, <<Dot, 0>>>>, <<<<<<114>>, 1>>>>)
  @@ "1.0_p1" :> Deb(<<<<<<>>, 1>>, <<Dot, 0>>, <<<<351, 112>>, 1>>>>, NoRevision)
  @@ "1.0~rc1" :> Deb(<<<<<<>>, 1>>, <<Dot, 0>>, <<<<-1, 114, 99>>, 1>>>>, NoRevision)
  @@ "2.0" :> Deb(<<<<<<>>, 2>>, <<Dot, 0>>>>, NoRevision)
  @@ "2.0-1" :> Deb(<<<<<<>>, 2>>, <<Dot, 0>>>>, <<<<<<>>, 1>>>>)

TheCore == [v \in Spellings |-> Table.core[v]]

\* Reading of the instance's versions by an ecosystem's table.
By(table) == [v \in Spellings |-> IF v \in DOMAIN table THEN table[v] ELSE Unreadable]

TheReading ==
  [npm |-> [v \in Spellings |-> Unreadable], PyPI |-> By(PyPI), Maven |-> By(Maven),
   Alpine |-> By(Alpine), Debian |-> By(Debian)]
==============================================================================
