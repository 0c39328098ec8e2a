------------------------ MODULE VersionOrder_proofs ------------------------
(***************************************************************************)
(* That the orders of versions bound ranges as orders do: comparisons pass *)
(* on "not above" and "below", for the generic comparator and for the ones *)
(* of PyPI, Alpine and Debian, and PyPI's key tells apart what its order   *)
(* does.  Maven's comparison is none of an order and is left out.          *)
(*                                                                         *)
(* All of them are lexicographic: the first position that differs decides. *)
(* Each is shown to give the first comparison that is not 0 (First), which *)
(* passes on what the comparisons of the positions do (FirstsFall).        *)
(***************************************************************************)
EXTENDS VersionOrder, WellFoundedInduction, TLAPS

\* The position of the first comparison that is not 0 decides, if there is one.
First(n, s, outcome) ==
  \/ outcome = 0 /\ \A i \in 1 .. n : s[i] = 0
  \/ \E k \in 1 .. n : /\ s[k] # 0 /\ outcome = s[k]
                       /\ \A i \in 1 .. n : i < k => s[i] = 0

\* Comparisons of a with b, of b with c and of a with c, as orders make them.
Falls(ab, bc, ac) ==
  /\ ab = 0 /\ bc = 0 => ac = 0
  /\ ab <= 0 /\ bc <= 0 /\ (ab < 0 \/ bc < 0) => ac < 0

\* A set of natural numbers has a least element.
LEMMA Least ==
  ASSUME NEW S \in SUBSET Nat, S # {}
  PROVE  Min(S) \in S /\ \A n \in S : Min(S) <= n
<1> DEFINE R == {ss \in Nat \X Nat : ss[1] < ss[2]}
<1>1. PICK m \in S : \A n \in S : ~(<<n, m>> \in R)
  <2>1. IsWellFoundedOn(R, Nat)
    BY NatLessThanWellFounded, Zenon DEF OpToRel
  <2> HIDE DEF R
  <2> QED BY <2>1, WFMin, Zenon
<1>2. \A n \in S : <<n, m>> \in Nat \X Nat
  OBVIOUS
<1>3. \A n \in S : ~(n < m)
  BY <1>1, <1>2
<1>4. \A n \in S : m <= n
  BY <1>3
<1> QED
  BY <1>4, Zenon DEF Min

\* What FirstSign computes is the first comparison that is not 0.
LEMMA Firsts ==
  ASSUME NEW n \in Nat, NEW s, NEW D, D = {i \in 1 .. n : s[i] # 0},
         NEW outcome, outcome = IF D = {} THEN 0 ELSE s[Min(D)]
  PROVE  First(n, s, outcome)
<1>1. CASE D = {}
  BY <1>1 DEF First
<1>2. CASE D # {}
  <2>1. Min(D) \in D /\ \A i \in D : Min(D) <= i
    BY <1>2, Least
  <2> DEFINE k == Min(D)
  <2>2. k \in 1 .. n /\ s[k] # 0 /\ outcome = s[k]
    BY <1>2, <2>1
  <2>3. \A i \in 1 .. n : i < k => s[i] = 0
    BY <2>1, <2>2
  <2> HIDE DEF k
  <2> QED
    BY <2>2, <2>3 DEF First
<1> QED
  BY <1>1, <1>2

\* Further positions that compare as the same change nothing.
LEMMA FirstLonger ==
  ASSUME NEW n \in Nat, NEW m \in Nat, n <= m, NEW s, NEW outcome, First(n, s, outcome),
         \A i \in n + 1 .. m : s[i] = 0
  PROVE  First(m, s, outcome)
<1>1. \A i \in 1 .. m : i \in 1 .. n \/ i \in n + 1 .. m
  OBVIOUS
<1>2. CASE outcome = 0 /\ \A i \in 1 .. n : s[i] = 0
  BY <1>1, <1>2 DEF First
<1>3. ASSUME NEW k \in 1 .. n, s[k] # 0, outcome = s[k], \A i \in 1 .. n : i < k => s[i] = 0
      PROVE  First(m, s, outcome)
  <2>1. k \in 1 .. m /\ \A i \in 1 .. m : i < k => s[i] = 0
    BY <1>3
  <2> QED
    BY <1>3, <2>1 DEF First
<1> QED
  BY <1>2, <1>3 DEF First

\* The lexicographic lemma: where each position is compared as orders do, so are
\* the sequences.
LEMMA FirstsFall ==
  ASSUME NEW n \in Nat, NEW a, NEW b, NEW c,
         \A i \in 1 .. n : a[i] \in Int /\ b[i] \in Int /\ c[i] \in Int,
         \A i \in 1 .. n : Falls(a[i], b[i], c[i]),
         NEW x, NEW y, NEW z, First(n, a, x), First(n, b, y), First(n, c, z)
  PROVE  x \in Int /\ y \in Int /\ z \in Int /\ Falls(x, y, z)
<1>1. x \in Int /\ y \in Int /\ z \in Int
  BY DEF First
<1>2. ASSUME x = 0, y = 0 PROVE z = 0
  <2>1. \A i \in 1 .. n : a[i] = 0 /\ b[i] = 0
    BY <1>2 DEF First
  <2> QED
    BY <2>1 DEF First, Falls
<1>3. ASSUME x <= 0, y <= 0, x < 0 \/ y < 0 PROVE z < 0
  <2>1. \E k \in 1 .. n : /\ a[k] <= 0 /\ b[k] <= 0 /\ (a[k] < 0 \/ b[k] < 0)
                          /\ \A i \in 1 .. n : i < k => a[i] = 0 /\ b[i] = 0
    <3>1. CASE x = 0
      <4>1. \A i \in 1 .. n : a[i] = 0
        BY <3>1 DEF First
      <4>2. PICK k \in 1 .. n : y = b[k] /\ \A i \in 1 .. n : i < k => b[i] = 0
        BY <1>3, <3>1 DEF First
      <4> QED
        BY <1>3, <3>1, <4>1, <4>2
    <3>2. CASE y = 0
      <4>1. \A i \in 1 .. n : b[i] = 0
        BY <3>2 DEF First
      <4>2. PICK k \in 1 .. n : x = a[k] /\ \A i \in 1 .. n : i < k => a[i] = 0
        BY <1>3, <3>2 DEF First
      <4> QED
        BY <1>3, <3>2, <4>1, <4>2
    <3>3. CASE x # 0 /\ y # 0
      <4>1. PICK j \in 1 .. n : x = a[j] /\ \A i \in 1 .. n : i < j => a[i] = 0
        BY <3>3 DEF First
      <4>2. PICK k \in 1 .. n : y = b[k] /\ \A i \in 1 .. n : i < k => b[i] = 0
        BY <3>3 DEF First
      <4>3. CASE j <= k
        <5>1. b[j] <= 0
          BY <1>3, <4>2, <4>3
        <5> QED
          BY <1>1, <1>3, <3>3, <4>1, <4>2, <4>3, <5>1
      <4>4. CASE k < j
        <5>1. a[k] <= 0
          BY <1>3, <4>1, <4>4
        <5> QED
          BY <1>1, <1>3, <3>3, <4>1, <4>2, <4>4, <5>1
      <4> QED
        BY <4>3, <4>4
    <3> QED
      BY <3>1, <3>2, <3>3
  <2>2. PICK k \in 1 .. n : /\ a[k] <= 0 /\ b[k] <= 0 /\ (a[k] < 0 \/ b[k] < 0)
                            /\ \A i \in 1 .. n : i < k => a[i] = 0 /\ b[i] = 0
    BY <2>1
  <2>3. c[k] < 0
    BY <2>2 DEF Falls
  <2>4. \A i \in 1 .. n : i < k => c[i] = 0
    BY <2>2 DEF Falls
  <2>5. c[k] # 0
    BY <2>3
  <2>6. PICK m \in 1 .. n : /\ c[m] # 0 /\ z = c[m]
                            /\ \A i \in 1 .. n : i < m => c[i] = 0
    BY <2>5 DEF First
  <2>7. m = k
    BY <2>4, <2>5, <2>6
  <2> QED
    BY <2>3, <2>6, <2>7
<1> QED
  BY <1>1, <1>2, <1>3 DEF Falls

\* A chain of comparisons gives the first that is not 0.
LEMMA Chains ==
  ASSUME NEW s \in Seq(Int)
  PROVE  First(Len(s), s, Chain(s))
<1> DEFINE D == {i \in 1 .. Len(s) : s[i] # 0}
<1>1. Chain(s) = IF D = {} THEN 0 ELSE s[Min(D)]
  BY DEF Chain, FirstSign
<1> HIDE DEF D
<1>2. D = {i \in 1 .. Len(s) : s[i] # 0}
  BY DEF D
<1>3. Len(s) \in Nat
  OBVIOUS
<1> QED
  BY <1>1, <1>2, <1>3, Firsts, Zenon

\* The items of a sequence of integers.
LEMMA ElementInt ==
  ASSUME NEW s \in Seq(Int), NEW i \in 1 .. Len(s)
  PROVE  s[i] \in Int
OBVIOUS

\* The lexicographic lemma for chains.
LEMMA ChainsFall ==
  ASSUME NEW a \in Seq(Int), NEW b \in Seq(Int), NEW c \in Seq(Int),
         Len(a) = Len(b), Len(a) = Len(c),
         \A i \in 1 .. Len(a) : Falls(a[i], b[i], c[i])
  PROVE  /\ Chain(a) \in Int /\ Chain(b) \in Int /\ Chain(c) \in Int
         /\ Falls(Chain(a), Chain(b), Chain(c))
<1>1. First(Len(a), a, Chain(a)) /\ First(Len(a), b, Chain(b)) /\ First(Len(a), c, Chain(c))
  BY Chains, Zenon
<1>2. \A i \in 1 .. Len(a) : a[i] \in Int /\ b[i] \in Int /\ c[i] \in Int
  <2> TAKE i \in 1 .. Len(a)
  <2>1. i \in 1 .. Len(b) /\ i \in 1 .. Len(c)
    OBVIOUS
  <2> QED
    BY <2>1, ElementInt, Zenon
<1>3. Len(a) \in Nat
  OBVIOUS
<1> QED
  BY <1>1, <1>2, <1>3, FirstsFall, Zenon

\* Signs of differences are comparisons of an order.
LEMMA SignsFall ==
  ASSUME NEW x \in Int, NEW y \in Int, NEW z \in Int
  PROVE  /\ Sign(x - y) \in Int /\ Sign(y - z) \in Int /\ Sign(x - z) \in Int
         /\ Falls(Sign(x - y), Sign(y - z), Sign(x - z))
<1>1. Sign(x - y) \in Int /\ Sign(y - z) \in Int /\ Sign(x - z) \in Int
  BY DEF Sign
<1> QED
  BY <1>1 DEF Sign, Falls

\* What CompareNumbers makes of each position.
NumberSigns(s, t, pad, n) ==
  [i \in 1 .. n |-> Sign(Padded(s, i, pad) - Padded(t, i, pad))]

\* CompareNumbers gives the first sign that is not 0 among any number of positions
\* that holds both sequences.
LEMMA Numbers ==
  ASSUME NEW s \in Seq(Int), NEW t \in Seq(Int), NEW pad \in Int,
         NEW n \in Nat, Len(s) <= n, Len(t) <= n
  PROVE  First(n, NumberSigns(s, t, pad, n), CompareNumbers(s, t, pad))
<1> DEFINE l == Longer(s, t)
           at(i) == Sign(Padded(s, i, pad) - Padded(t, i, pad))
           signs == NumberSigns(s, t, pad, n)
           D == {i \in 1 .. l : at(i) # 0}
<1>1. l \in Nat /\ l <= n /\ Len(s) <= l /\ Len(t) <= l
  BY DEF Longer
<1>2. \A i \in 1 .. n : signs[i] = at(i)
  BY DEF NumberSigns
<1>3. CompareNumbers(s, t, pad) = IF D = {} THEN 0 ELSE at(Min(D))
  BY DEF CompareNumbers, FirstSign
<1>4. D = {i \in 1 .. l : signs[i] # 0}
  BY <1>1, <1>2
<1>5. ASSUME D # {} PROVE at(Min(D)) = signs[Min(D)]
  <2>1. D \in SUBSET Nat
    BY <1>1
  <2>2. Min(D) \in D
    <3> HIDE DEF D
    <3> QED BY <1>5, <2>1, Least
  <2>3. Min(D) \in 1 .. n
    BY <1>1, <2>2
  <2> HIDE DEF D, at, signs
  <2> QED
    BY <1>2, <2>3
<1>6. \A i \in l + 1 .. n : signs[i] = 0
  <2> TAKE i \in l + 1 .. n
  <2>1. Padded(s, i, pad) = pad /\ Padded(t, i, pad) = pad
    BY <1>1 DEF Padded
  <2> QED
    BY <1>1, <1>2, <2>1 DEF Sign
<1> HIDE DEF l, at, signs, D
<1>7. CompareNumbers(s, t, pad) = IF D = {} THEN 0 ELSE signs[Min(D)]
  BY <1>3, <1>5
<1>8. First(l, signs, CompareNumbers(s, t, pad))
  BY <1>1, <1>4, <1>7, Firsts
<1>9. First(n, signs, CompareNumbers(s, t, pad))
  BY <1>1, <1>6, <1>8, FirstLonger
<1> QED
  BY <1>9 DEF signs

\* A padded item is an integer.
LEMMA PaddedInt ==
  ASSUME NEW s \in Seq(Int), NEW pad \in Int, NEW i \in Int
  PROVE  Padded(s, i, pad) \in Int
BY DEF Padded

\* CompareNumbers compares as an order does.
LEMMA NumbersFall ==
  ASSUME NEW s \in Seq(Int), NEW t \in Seq(Int), NEW u \in Seq(Int), NEW pad \in Int
  PROVE  /\ CompareNumbers(s, t, pad) \in Int
         /\ CompareNumbers(t, u, pad) \in Int
         /\ CompareNumbers(s, u, pad) \in Int
         /\ Falls(CompareNumbers(s, t, pad), CompareNumbers(t, u, pad), CompareNumbers(s, u, pad))
<1>1. PICK n \in Nat : Len(s) <= n /\ Len(t) <= n /\ Len(u) <= n
  <2> DEFINE n == Len(s) + Len(t) + Len(u)
  <2> n \in Nat /\ Len(s) <= n /\ Len(t) <= n /\ Len(u) <= n
    OBVIOUS
  <2> QED
    OBVIOUS
<1> DEFINE a == NumberSigns(s, t, pad, n)
           b == NumberSigns(t, u, pad, n)
           c == NumberSigns(s, u, pad, n)
<1>2. /\ First(n, a, CompareNumbers(s, t, pad))
      /\ First(n, b, CompareNumbers(t, u, pad))
      /\ First(n, c, CompareNumbers(s, u, pad))
  BY <1>1, Numbers
<1>3. ASSUME NEW i \in 1 .. n
      PROVE  a[i] \in Int /\ b[i] \in Int /\ c[i] \in Int /\ Falls(a[i], b[i], c[i])
  <2> DEFINE x == Padded(s, i, pad)
             y == Padded(t, i, pad)
             z == Padded(u, i, pad)
  <2>1. x \in Int /\ y \in Int /\ z \in Int
    BY PaddedInt
  <2>2. a[i] = Sign(x - y) /\ b[i] = Sign(y - z) /\ c[i] = Sign(x - z)
    BY DEF NumberSigns
  <2> HIDE DEF a, b, c, x, y, z
  <2>3. /\ Sign(x - y) \in Int /\ Sign(y - z) \in Int /\ Sign(x - z) \in Int
        /\ Falls(Sign(x - y), Sign(y - z), Sign(x - z))
    BY <2>1, SignsFall
  <2> QED
    BY <2>2, <2>3, Zenon
<1> HIDE DEF a, b, c
<1>4. \A i \in 1 .. n : a[i] \in Int /\ b[i] \in Int /\ c[i] \in Int
  BY <1>3
<1>5. \A i \in 1 .. n : Falls(a[i], b[i], c[i])
  BY <1>3
<1> DEFINE x == CompareNumbers(s, t, pad)
           y == CompareNumbers(t, u, pad)
           z == CompareNumbers(s, u, pad)
<1>6. First(n, a, x) /\ First(n, b, y) /\ First(n, c, z)
  BY <1>2
<1> HIDE DEF x, y, z
<1>7. x \in Int /\ y \in Int /\ z \in Int /\ Falls(x, y, z)
  BY <1>4, <1>5, <1>6, FirstsFall, Zenon
<1> QED
  BY <1>7 DEF x, y, z

\* The lexicographic lemma for two comparisons.
LEMMA PairsFall ==
  ASSUME NEW a1 \in Int, NEW a2 \in Int, NEW b1 \in Int, NEW b2 \in Int,
         NEW c1 \in Int, NEW c2 \in Int, Falls(a1, b1, c1), Falls(a2, b2, c2)
  PROVE  /\ Chain(<<a1, a2>>) \in Int /\ Chain(<<b1, b2>>) \in Int /\ Chain(<<c1, c2>>) \in Int
         /\ Falls(Chain(<<a1, a2>>), Chain(<<b1, b2>>), Chain(<<c1, c2>>))
<1> DEFINE a == <<a1, a2>>
           b == <<b1, b2>>
           c == <<c1, c2>>
<1>1. a \in Seq(Int) /\ b \in Seq(Int) /\ c \in Seq(Int) /\ Len(a) = Len(b) /\ Len(a) = Len(c)
  OBVIOUS
<1>2. ASSUME NEW i \in 1 .. Len(a) PROVE Falls(a[i], b[i], c[i])
  <2>1. i = 1 \/ i = 2
    OBVIOUS
  <2> QED
    BY <2>1
<1> HIDE DEF a, b, c
<1>3. /\ Chain(a) \in Int /\ Chain(b) \in Int /\ Chain(c) \in Int
      /\ Falls(Chain(a), Chain(b), Chain(c))
  BY <1>1, <1>2, ChainsFall
<1> QED
  BY <1>3 DEF a, b, c

\* Prereleases are compared as an order does.
LEMMA ComparePreFalls ==
  ASSUME NEW p \in Nat, NEW q \in Nat, NEW r \in Nat
  PROVE  /\ ComparePre(p, q) \in Int /\ ComparePre(q, r) \in Int /\ ComparePre(p, r) \in Int
         /\ Falls(ComparePre(p, q), ComparePre(q, r), ComparePre(p, r))
<1>1. ComparePre(p, q) \in Int /\ ComparePre(q, r) \in Int /\ ComparePre(p, r) \in Int
  BY DEF ComparePre, Sign
<1> QED
  BY <1>1 DEF ComparePre, Sign, Falls

\* The segments of a version are numbers.
LEMMA SegmentsInt ==
  ASSUME NEW v \in Versions
  PROVE  Segments(v) \in Seq(Int)
<1>1. Core[v] \in Seq(Nat \union {Lettered})
  BY VersionAssumption
<1> QED
  BY <1>1 DEF Segments, Lettered

\* The generic order is an order.
LEMMA GenericFalls ==
  ASSUME NEW u \in Versions, NEW v \in Versions, NEW w \in Versions
  PROVE  /\ CompareVersions(u, v) \in Int
         /\ Falls(CompareVersions(u, v), CompareVersions(v, w), CompareVersions(u, w))
<1>1. Segments(u) \in Seq(Int) /\ Segments(v) \in Seq(Int) /\ Segments(w) \in Seq(Int)
  BY SegmentsInt
<1>2. Pre[u] \in Nat /\ Pre[v] \in Nat /\ Pre[w] \in Nat
  BY VersionAssumption
<1> DEFINE n(x, y) == CompareNumbers(Segments(x), Segments(y), 0)
           p(x, y) == ComparePre(Pre[x], Pre[y])
<1>3. n(u, v) \in Int /\ n(v, w) \in Int /\ n(u, w) \in Int /\ Falls(n(u, v), n(v, w), n(u, w))
  <2>1. 0 \in Int
    OBVIOUS
  <2> QED
    BY <1>1, <2>1, NumbersFall, Zenon
<1>4. p(u, v) \in Int /\ p(v, w) \in Int /\ p(u, w) \in Int /\ Falls(p(u, v), p(v, w), p(u, w))
  BY <1>2, ComparePreFalls
<1>5. /\ CompareVersions(u, v) = Chain(<<n(u, v), p(u, v)>>)
      /\ CompareVersions(v, w) = Chain(<<n(v, w), p(v, w)>>)
      /\ CompareVersions(u, w) = Chain(<<n(u, w), p(u, w)>>)
  BY DEF CompareVersions
<1> HIDE DEF n, p
<1> QED
  BY <1>3, <1>4, <1>5, PairsFall

\* The first sign that is not 0 among the items of two sequences is so among any
\* number of positions, where two missing items compare as the same.
LEMMA Items ==
  ASSUME NEW n \in Nat, NEW l \in Nat, l <= n, NEW signs, NEW outcome,
         NEW D, D = {i \in 1 .. l : signs[i] # 0},
         D # {} => outcome = signs[Min(D)],
         D = {} => outcome = 0,
         \A i \in l + 1 .. n : signs[i] = 0
  PROVE  First(n, signs, outcome)
<1>1. outcome = IF D = {} THEN 0 ELSE signs[Min(D)]
  OBVIOUS
<1>2. First(l, signs, outcome)
  BY <1>1, Firsts
<1> QED
  BY <1>2, FirstLonger

-----------------------------------------------------------------------------
(* PyPI.                                                                     *)

Segment(s, i) == Padded(s, i, <<-1, 0>>)

CompareSegments(x, y) == Chain(<<Sign(x[1] - y[1]), Sign(x[2] - y[2])>>)

\* Segments of a local label are compared as an order does.
LEMMA SegmentsFall ==
  ASSUME NEW x \in Int \X Int, NEW y \in Int \X Int, NEW z \in Int \X Int
  PROVE  /\ CompareSegments(x, y) \in Int /\ CompareSegments(y, z) \in Int
         /\ CompareSegments(x, z) \in Int
         /\ Falls(CompareSegments(x, y), CompareSegments(y, z), CompareSegments(x, z))
<1>1. x[1] \in Int /\ y[1] \in Int /\ z[1] \in Int /\ x[2] \in Int /\ y[2] \in Int /\ z[2] \in Int
  OBVIOUS
<1> DEFINE a(i) == Sign(x[i] - y[i])
           b(i) == Sign(y[i] - z[i])
           c(i) == Sign(x[i] - z[i])
<1>2. a(1) \in Int /\ b(1) \in Int /\ c(1) \in Int /\ Falls(a(1), b(1), c(1))
  BY <1>1, SignsFall
<1>3. a(2) \in Int /\ b(2) \in Int /\ c(2) \in Int /\ Falls(a(2), b(2), c(2))
  BY <1>1, SignsFall
<1>4. /\ CompareSegments(x, y) = Chain(<<a(1), a(2)>>)
      /\ CompareSegments(y, z) = Chain(<<b(1), b(2)>>)
      /\ CompareSegments(x, z) = Chain(<<c(1), c(2)>>)
  BY DEF CompareSegments
<1> HIDE DEF a, b, c
<1> QED
  BY <1>2, <1>3, <1>4, PairsFall

\* Two signs are 0 together when their chain is.
LEMMA PairIsZero ==
  ASSUME NEW a \in Int, NEW b \in Int
  PROVE  Chain(<<a, b>>) = 0 <=> a = 0 /\ b = 0
<1> DEFINE s == <<a, b>>
<1>1. s \in Seq(Int) /\ Len(s) = 2 /\ s[1] = a /\ s[2] = b
  OBVIOUS
<1> HIDE DEF s
<1>2. First(2, s, Chain(s))
  BY <1>1, Chains
<1>3. Chain(s) = 0 <=> a = 0 /\ b = 0
  <2>1. \A i \in 1 .. 2 : i = 1 \/ i = 2
    OBVIOUS
  <2>2. 1 \in 1 .. 2 /\ 2 \in 1 .. 2
    OBVIOUS
  <2> QED
    BY <1>1, <1>2, <2>1, <2>2 DEF First
<1> QED
  BY <1>3 DEF s

\* Only equal segments compare as the same.
LEMMA SameSegments ==
  ASSUME NEW x \in Int \X Int, NEW y \in Int \X Int
  PROVE  CompareSegments(x, y) = 0 <=> x = y
<1>1. x[1] \in Int /\ y[1] \in Int /\ x[2] \in Int /\ y[2] \in Int
  OBVIOUS
<1>2. Sign(x[1] - y[1]) \in Int /\ Sign(x[2] - y[2]) \in Int
  BY <1>1 DEF Sign
<1>3. CompareSegments(x, y) = 0 <=> Sign(x[1] - y[1]) = 0 /\ Sign(x[2] - y[2]) = 0
  BY <1>2, PairIsZero DEF CompareSegments
<1>4. CompareSegments(x, y) = 0 <=> x[1] = y[1] /\ x[2] = y[2]
  BY <1>1, <1>3 DEF Sign
<1> QED
  BY <1>4

LocalSigns(s, t, n) == [i \in 1 .. n |-> CompareSegments(Segment(s, i), Segment(t, i))]

\* A padded segment is a pair of integers.
LEMMA SegmentOf ==
  ASSUME NEW s \in Seq({0, 1} \X Nat), NEW i \in Int
  PROVE  Segment(s, i) \in Int \X Int
BY DEF Segment, Padded

\* CompareLocal gives the first difference, among any number of positions that holds
\* both labels.
LEMMA Locals ==
  ASSUME NEW s \in Seq({0, 1} \X Nat), NEW t \in Seq({0, 1} \X Nat),
         NEW n \in Nat, Len(s) <= n, Len(t) <= n
  PROVE  First(n, LocalSigns(s, t, n), CompareLocal(s, t))
<1> DEFINE l == Longer(s, t)
           at(i) == CompareSegments(Segment(s, i), Segment(t, i))
           signs == LocalSigns(s, t, n)
           D == {i \in 1 .. l : at(i) # 0}
<1>1. l \in Nat /\ l <= n /\ Len(s) <= l /\ Len(t) <= l
  BY DEF Longer
<1>2. \A i \in 1 .. n : signs[i] = at(i)
  BY DEF LocalSigns
<1>3. CompareLocal(s, t) = IF D = {} THEN 0 ELSE at(Min(D))
  BY DEF CompareLocal, FirstSign, CompareSegments, Segment
<1>4. D = {i \in 1 .. l : signs[i] # 0}
  BY <1>1, <1>2
<1>5. ASSUME D # {} PROVE at(Min(D)) = signs[Min(D)]
  <2>1. D \in SUBSET Nat
    BY <1>1
  <2>2. Min(D) \in D
    <3> HIDE DEF D
    <3> QED BY <1>5, <2>1, Least
  <2>3. Min(D) \in 1 .. n
    BY <1>1, <2>2
  <2> HIDE DEF D, at, signs
  <2> QED
    BY <1>2, <2>3
<1>6. \A i \in l + 1 .. n : signs[i] = 0
  <2> TAKE i \in l + 1 .. n
  <2>1. Segment(s, i) = <<-1, 0>> /\ Segment(t, i) = <<-1, 0>>
    BY <1>1 DEF Padded, Segment
  <2>2. at(i) = 0
    BY <2>1, SameSegments
  <2> QED
    BY <1>1, <1>2, <2>2
<1> HIDE DEF l, at, signs, D
<1>7. First(n, signs, CompareLocal(s, t))
  BY <1>1, <1>3, <1>4, <1>5, <1>6, Items
<1> QED
  BY <1>7 DEF signs

\* Local labels are compared as an order does.
LEMMA LocalFalls ==
  ASSUME NEW s \in Seq({0, 1} \X Nat), NEW t \in Seq({0, 1} \X Nat), NEW u \in Seq({0, 1} \X Nat)
  PROVE  /\ CompareLocal(s, t) \in Int /\ CompareLocal(t, u) \in Int /\ CompareLocal(s, u) \in Int
         /\ Falls(CompareLocal(s, t), CompareLocal(t, u), CompareLocal(s, u))
<1>1. PICK n \in Nat : Len(s) <= n /\ Len(t) <= n /\ Len(u) <= n
  <2> DEFINE n == Len(s) + Len(t) + Len(u)
  <2> n \in Nat /\ Len(s) <= n /\ Len(t) <= n /\ Len(u) <= n
    OBVIOUS
  <2> QED
    OBVIOUS
<1> DEFINE a == LocalSigns(s, t, n)
           b == LocalSigns(t, u, n)
           c == LocalSigns(s, u, n)
           x == CompareLocal(s, t)
           y == CompareLocal(t, u)
           z == CompareLocal(s, u)
<1>2. First(n, a, x) /\ First(n, b, y) /\ First(n, c, z)
  BY <1>1, Locals
<1>3. ASSUME NEW i \in 1 .. n
      PROVE  a[i] \in Int /\ b[i] \in Int /\ c[i] \in Int /\ Falls(a[i], b[i], c[i])
  <2> DEFINE si == Segment(s, i)
             ti == Segment(t, i)
             ui == Segment(u, i)
  <2>1. si \in Int \X Int /\ ti \in Int \X Int /\ ui \in Int \X Int
    <3>1. i \in Int
      OBVIOUS
    <3> QED
      BY <3>1, SegmentOf, Zenon
  <2>2. /\ a[i] = CompareSegments(si, ti) /\ b[i] = CompareSegments(ti, ui)
        /\ c[i] = CompareSegments(si, ui)
    BY DEF LocalSigns
  <2> HIDE DEF a, b, c, si, ti, ui
  <2> QED
    BY <2>1, <2>2, SegmentsFall
<1> HIDE DEF a, b, c, x, y, z
<1>4. \A i \in 1 .. n : a[i] \in Int /\ b[i] \in Int /\ c[i] \in Int
  BY <1>3
<1>5. \A i \in 1 .. n : Falls(a[i], b[i], c[i])
  BY <1>3
<1>6. x \in Int /\ y \in Int /\ z \in Int /\ Falls(x, y, z)
  BY <1>2, <1>4, <1>5, FirstsFall, Zenon
<1> QED
  BY <1>6 DEF x, y, z

\* The keys of two readings that compare as the same number.
PepSigns(p, q) ==
  <<Sign(p.epoch - q.epoch), CompareNumbers(p.release, q.release, 0),
    CompareNumbers(PreKey(p), PreKey(q), 0), Sign(PostKey(p) - PostKey(q)),
    Sign(DevKey(p) - DevKey(q)), CompareLocal(p.local, q.local)>>

PepFields(p) ==
  /\ p.epoch \in Int /\ p.release \in Seq(Int) /\ PreKey(p) \in Seq(Int)
  /\ PostKey(p) \in Int /\ DevKey(p) \in Int /\ p.local \in Seq({0, 1} \X Nat)

\* What is used of the sentinels: above and below the ranks of prereleases.
LEMMA Sentinels ==
  /\ PepHigh \in Int /\ PepHigh > 2 /\ PepHigh # Absent
  /\ PepLow = -1 /\ Absent = -1
BY DEF PepHigh, PepLow, Absent

\* A pair is a sequence of two integers.
LEMMA PairSequence ==
  ASSUME NEW x \in Int, NEW y \in Int
  PROVE  /\ <<x, y>> \in Seq(Int) /\ Len(<<x, y>>) = 2
         /\ <<x, y>>[1] = x /\ <<x, y>>[2] = y
OBVIOUS

\* The key of a prerelease, or the sentinel that stands for there being none.
LEMMA PreKeys ==
  ASSUME NEW p
  PROVE  /\ p.pre # <<>> => PreKey(p) = p.pre
         /\ p.pre = <<>> => PreKey(p) = <<PepLow, 0>> \/ PreKey(p) = <<PepHigh, 0>>
BY DEF PreKey

\* The fields of a reading that are compared.
LEMMA PepReads ==
  ASSUME NEW p, PepRead(p)
  PROVE  PepFields(p) /\ Len(PreKey(p)) = 2
<1>1. p.epoch \in Int /\ PostKey(p) \in Int /\ DevKey(p) \in Int /\ p.local \in Seq({0, 1} \X Nat)
  BY Sentinels DEF PepRead, PostKey, DevKey
<1>2. p.release \in Seq(Int)
  BY DEF PepRead
<1>3. PreKey(p) \in Seq(Int) /\ Len(PreKey(p)) = 2
  <2>1. p.pre = <<>> \/ p.pre \in (0 .. 2) \X Nat
    BY DEF PepRead
  <2>2. CASE p.pre = <<>>
    <3>1. PreKey(p) = <<PepLow, 0>> \/ PreKey(p) = <<PepHigh, 0>>
      BY <2>2, PreKeys
    <3>2. PepLow \in Int /\ PepHigh \in Int /\ 0 \in Int
      BY Sentinels
    <3>3. /\ <<PepLow, 0>> \in Seq(Int) /\ Len(<<PepLow, 0>>) = 2
          /\ <<PepHigh, 0>> \in Seq(Int) /\ Len(<<PepHigh, 0>>) = 2
      BY <3>2, PairSequence
    <3> QED
      BY <3>1, <3>3, Zenon
  <2>3. CASE p.pre # <<>>
    <3>1. PreKey(p) = p.pre
      BY <2>3, PreKeys
    <3>2. PICK x \in 0 .. 2, y \in Nat : p.pre = <<x, y>>
      <4>1. p.pre \in (0 .. 2) \X Nat
        BY <2>1, <2>3, Zenon
      <4> QED
        BY <4>1, SMTT(20)
    <3>3. x \in Int /\ y \in Int
      OBVIOUS
    <3> QED
      BY <3>1, <3>2, <3>3, PairSequence
  <2> QED
    BY <2>2, <2>3
<1> QED
  BY <1>1, <1>2, <1>3 DEF PepFields

\* The comparisons of the fields of two readings are integers.
LEMMA PepSignsInt ==
  ASSUME NEW p, NEW q, PepFields(p), PepFields(q)
  PROVE  PepSigns(p, q) \in Seq(Int)
<1>1. Sign(p.epoch - q.epoch) \in Int /\ Sign(PostKey(p) - PostKey(q)) \in Int
      /\ Sign(DevKey(p) - DevKey(q)) \in Int
  BY DEF PepFields, Sign
<1>2. 0 \in Int
  OBVIOUS
<1>3. CompareNumbers(p.release, q.release, 0) \in Int
  BY <1>2, NumbersFall, Zenon DEF PepFields
<1>4. CompareNumbers(PreKey(p), PreKey(q), 0) \in Int
  BY <1>2, NumbersFall, Zenon DEF PepFields
<1>5. CompareLocal(p.local, q.local) \in Int
  BY LocalFalls, Zenon DEF PepFields
<1> QED
  BY <1>1, <1>3, <1>4, <1>5 DEF PepSigns

\* PEP 440's comparison is that of an order.
LEMMA PepFalls ==
  ASSUME NEW p, NEW q, NEW r, PepRead(p), PepRead(q), PepRead(r)
  PROVE  /\ ComparePEP440(p, q) \in Int /\ ComparePEP440(q, r) \in Int
         /\ ComparePEP440(p, r) \in Int
         /\ Falls(ComparePEP440(p, q), ComparePEP440(q, r), ComparePEP440(p, r))
<1>1. PepFields(p) /\ PepFields(q) /\ PepFields(r)
  BY PepReads
<1> DEFINE a == PepSigns(p, q)
           b == PepSigns(q, r)
           c == PepSigns(p, r)
<1>2. a \in Seq(Int) /\ b \in Seq(Int) /\ c \in Seq(Int)
  BY <1>1, PepSignsInt
<1>3. Len(a) = 6 /\ Len(b) = 6 /\ Len(c) = 6
  BY DEF PepSigns
<1>4. 0 \in Int
  OBVIOUS
<1>5. Falls(a[1], b[1], c[1])
  BY <1>1, SignsFall DEF PepSigns, PepFields
<1>6. Falls(a[2], b[2], c[2])
  <2>1. Falls(CompareNumbers(p.release, q.release, 0), CompareNumbers(q.release, r.release, 0),
              CompareNumbers(p.release, r.release, 0))
    BY <1>1, <1>4, NumbersFall, Zenon DEF PepFields
  <2> QED
    BY <2>1 DEF PepSigns
<1>7. Falls(a[3], b[3], c[3])
  <2>1. Falls(CompareNumbers(PreKey(p), PreKey(q), 0), CompareNumbers(PreKey(q), PreKey(r), 0),
              CompareNumbers(PreKey(p), PreKey(r), 0))
    BY <1>1, <1>4, NumbersFall, Zenon DEF PepFields
  <2> QED
    BY <2>1 DEF PepSigns
<1>8. Falls(a[4], b[4], c[4])
  BY <1>1, SignsFall DEF PepSigns, PepFields
<1>9. Falls(a[5], b[5], c[5])
  BY <1>1, SignsFall DEF PepSigns, PepFields
<1>10. Falls(a[6], b[6], c[6])
  <2>1. Falls(CompareLocal(p.local, q.local), CompareLocal(q.local, r.local),
              CompareLocal(p.local, r.local))
    BY <1>1, LocalFalls, Zenon DEF PepFields
  <2> QED
    BY <2>1 DEF PepSigns
<1> HIDE DEF a, b, c
<1>11. ASSUME NEW i \in 1 .. Len(a) PROVE Falls(a[i], b[i], c[i])
  <2>1. i = 1 \/ i = 2 \/ i = 3 \/ i = 4 \/ i = 5 \/ i = 6
    BY <1>3
  <2> QED
    BY <2>1, <1>5, <1>6, <1>7, <1>8, <1>9, <1>10
<1>12. /\ Chain(a) \in Int /\ Chain(b) \in Int /\ Chain(c) \in Int
       /\ Falls(Chain(a), Chain(b), Chain(c))
  BY <1>2, <1>3, <1>11, ChainsFall
<1> QED
  BY <1>12 DEF a, b, c, PepSigns, ComparePEP440

\* No difference decides exactly when there is none.
LEMMA FirstIsZero ==
  ASSUME NEW n, NEW s, NEW outcome, First(n, s, outcome)
  PROVE  outcome = 0 <=> \A i \in 1 .. n : s[i] = 0
BY DEF First

\* Sequences of numbers compare as the same when they are, once padded.
LEMMA SameNumbers ==
  ASSUME NEW s \in Seq(Int), NEW t \in Seq(Int), NEW pad \in Int,
         NEW n \in Nat, Len(s) <= n, Len(t) <= n
  PROVE  CompareNumbers(s, t, pad) = 0 <=>
           \A i \in 1 .. n : Padded(s, i, pad) = Padded(t, i, pad)
<1> DEFINE signs == NumberSigns(s, t, pad, n)
<1>1. CompareNumbers(s, t, pad) = 0 <=> \A i \in 1 .. n : signs[i] = 0
  BY Numbers, FirstIsZero
<1>2. ASSUME NEW i \in 1 .. n
      PROVE  signs[i] = 0 <=> Padded(s, i, pad) = Padded(t, i, pad)
  <2> DEFINE x == Padded(s, i, pad)
             y == Padded(t, i, pad)
  <2>1. x \in Int /\ y \in Int
    BY PaddedInt
  <2>2. signs[i] = Sign(x - y)
    BY DEF NumberSigns
  <2> HIDE DEF signs, x, y
  <2>3. signs[i] = 0 <=> x = y
    BY <2>1, <2>2 DEF Sign
  <2> QED
    BY <2>3 DEF x, y
<1> HIDE DEF signs
<1> QED
  BY <1>1, <1>2

Kept(s) == {n \in 1 .. Len(s) : \A i \in n + 1 .. Len(s) : s[i] = 0}

\* Where the trailing zeros of a release begin.
LEMMA KeptLeast ==
  ASSUME NEW s \in Seq(Nat), s # <<>>, NEW m, m = Min(Kept(s))
  PROVE  /\ m \in 1 .. Len(s)
         /\ \A i \in Int : i > m => Padded(s, i, 0) = 0
         /\ \A n \in 1 .. Len(s) : (\A i \in Int : i > n => Padded(s, i, 0) = 0) => m <= n
<1>1. Len(s) \in Kept(s) /\ Kept(s) \in SUBSET Nat
  BY DEF Kept
<1>2. m \in Kept(s) /\ \A n \in Kept(s) : m <= n
  BY <1>1, Least
<1>3. \A i \in Int : i > m => Padded(s, i, 0) = 0
  BY <1>2 DEF Kept, Padded
<1>4. ASSUME NEW n \in 1 .. Len(s), \A i \in Int : i > n => Padded(s, i, 0) = 0
      PROVE  n \in Kept(s)
  <2>1. \A i \in n + 1 .. Len(s) : Padded(s, i, 0) = s[i]
    BY DEF Padded
  <2> QED
    BY <1>4, <2>1 DEF Kept
<1>5. m \in 1 .. Len(s)
  BY <1>2 DEF Kept
<1> QED
  BY <1>2, <1>3, <1>4, <1>5

TrimmedRelease(s) == SubSeq(s, 1, Min(Kept(s)))

\* Releases compare as the same when they are, without their trailing zeros.
LEMMA SameRelease ==
  ASSUME NEW s \in Seq(Nat), NEW t \in Seq(Nat), s # <<>>, t # <<>>
  PROVE  CompareNumbers(s, t, 0) = 0 <=> TrimmedRelease(s) = TrimmedRelease(t)
<1> DEFINE n == Len(s) + Len(t)
           j == Min(Kept(s))
           k == Min(Kept(t))
<1>1. n \in Nat /\ Len(s) <= n /\ Len(t) <= n /\ s \in Seq(Int) /\ t \in Seq(Int) /\ 0 \in Int
  OBVIOUS
<1>2. CompareNumbers(s, t, 0) = 0 <=> \A i \in 1 .. n : Padded(s, i, 0) = Padded(t, i, 0)
  <2> HIDE DEF n
  <2> QED
    BY <1>1, SameNumbers, Zenon
<1>3. /\ j \in 1 .. Len(s)
      /\ \A i \in Int : i > j => Padded(s, i, 0) = 0
      /\ \A m \in 1 .. Len(s) : (\A i \in Int : i > m => Padded(s, i, 0) = 0) => j <= m
  <2> HIDE DEF j
  <2>1. j = Min(Kept(s))
    BY DEF j
  <2> QED
    BY <2>1, KeptLeast
<1>4. /\ k \in 1 .. Len(t)
      /\ \A i \in Int : i > k => Padded(t, i, 0) = 0
      /\ \A m \in 1 .. Len(t) : (\A i \in Int : i > m => Padded(t, i, 0) = 0) => k <= m
  <2> HIDE DEF k
  <2>1. k = Min(Kept(t))
    BY DEF k
  <2> QED
    BY <2>1, KeptLeast
<1> HIDE DEF j, k
<1>5. /\ \A i \in 1 .. j : Padded(s, i, 0) = s[i]
      /\ \A i \in 1 .. k : Padded(t, i, 0) = t[i]
  <2>1. \A i \in 1 .. j : i \in DOMAIN s
    BY <1>1, <1>3
  <2>2. \A i \in 1 .. k : i \in DOMAIN t
    BY <1>1, <1>4
  <2>3. \A i \in 1 .. j : Padded(s, i, 0) = s[i]
    BY <2>1, Zenon DEF Padded
  <2>4. \A i \in 1 .. k : Padded(t, i, 0) = t[i]
    BY <2>2, Zenon DEF Padded
  <2> QED
    BY <2>3, <2>4
<1>6. \A i \in Int : i > n => Padded(s, i, 0) = 0 /\ Padded(t, i, 0) = 0
  BY DEF Padded
<1>7. /\ TrimmedRelease(s) \in Seq(Nat) /\ Len(TrimmedRelease(s)) = j
      /\ \A i \in 1 .. j : TrimmedRelease(s)[i] = s[i]
      /\ TrimmedRelease(s) = [i \in 1 .. j |-> s[i]]
  BY <1>3 DEF TrimmedRelease, j
<1>8. /\ TrimmedRelease(t) \in Seq(Nat) /\ Len(TrimmedRelease(t)) = k
      /\ \A i \in 1 .. k : TrimmedRelease(t)[i] = t[i]
      /\ TrimmedRelease(t) = [i \in 1 .. k |-> t[i]]
  BY <1>4 DEF TrimmedRelease, k
<1>9. ASSUME \A i \in 1 .. n : Padded(s, i, 0) = Padded(t, i, 0)
      PROVE  TrimmedRelease(s) = TrimmedRelease(t)
  <2>1. \A i \in Int : i > 0 => Padded(s, i, 0) = Padded(t, i, 0)
    BY <1>1, <1>6, <1>9
  <2>2. j = k
    <3>1. CASE j < k
      <4>1. j \in 1 .. Len(t)
        BY <1>3, <1>4, <3>1
      <4>2. \A i \in Int : i > j => Padded(t, i, 0) = 0
        BY <1>3, <2>1
      <4> QED
        BY <1>3, <1>4, <3>1, <4>1, <4>2
    <3>2. CASE k < j
      <4>1. k \in 1 .. Len(s)
        BY <1>3, <1>4, <3>2
      <4>2. \A i \in Int : i > k => Padded(s, i, 0) = 0
        BY <1>4, <2>1
      <4> QED
        BY <1>3, <1>4, <3>2, <4>1, <4>2
    <3> QED
      BY <1>3, <1>4, <3>1, <3>2
  <2>3. \A i \in 1 .. j : s[i] = t[i]
    BY <1>5, <2>1, <2>2, <1>3
  <2>4. [i \in 1 .. j |-> s[i]] = [i \in 1 .. j |-> t[i]]
    BY <2>3
  <2> QED
    BY <1>7, <1>8, <2>2, <2>4
<1>10. ASSUME TrimmedRelease(s) = TrimmedRelease(t)
       PROVE  \A i \in 1 .. n : Padded(s, i, 0) = Padded(t, i, 0)
  <2>1. j = k /\ \A i \in 1 .. j : s[i] = t[i]
    BY <1>7, <1>8, <1>10
  <2> TAKE i \in 1 .. n
  <2>2. CASE i <= j
    <3>1. i \in 1 .. j /\ i \in 1 .. k
      BY <1>1, <1>3, <2>1, <2>2
    <3> HIDE DEF n
    <3> QED
      BY <1>5, <2>1, <3>1
  <2>3. CASE i > j
    BY <1>3, <1>4, <2>1, <2>3
  <2> QED
    BY <1>3, <2>2, <2>3
<1> QED
  BY <1>2, <1>9, <1>10

\* Only equal labels compare as the same.
LEMMA SameLocal ==
  ASSUME NEW s \in Seq({0, 1} \X Nat), NEW t \in Seq({0, 1} \X Nat)
  PROVE  CompareLocal(s, t) = 0 <=> s = t
<1> DEFINE n == Len(s) + Len(t)
           signs == LocalSigns(s, t, n)
<1>1. n \in Nat /\ Len(s) <= n /\ Len(t) <= n
  OBVIOUS
<1>2. First(n, signs, CompareLocal(s, t))
  BY <1>1, Locals
<1>3. CompareLocal(s, t) = 0 <=> \A i \in 1 .. n : signs[i] = 0
  BY <1>2, FirstIsZero
<1>4. ASSUME NEW i \in 1 .. n
      PROVE  signs[i] = 0 <=> Segment(s, i) = Segment(t, i)
  <2>1. i \in Int
    BY <1>1
  <2>2. Segment(s, i) \in Int \X Int /\ Segment(t, i) \in Int \X Int
    BY <2>1, SegmentOf, Zenon
  <2>3. signs[i] = CompareSegments(Segment(s, i), Segment(t, i))
    BY DEF LocalSigns
  <2>4. CompareSegments(Segment(s, i), Segment(t, i)) = 0 <=> Segment(s, i) = Segment(t, i)
    BY <2>2, SameSegments, Zenon
  <2> HIDE DEF signs
  <2> QED
    BY <2>3, <2>4, Zenon
<1>5. ASSUME \A i \in 1 .. n : Segment(s, i) = Segment(t, i) PROVE s = t
  <2>1. ASSUME NEW x \in Seq({0, 1} \X Nat), NEW i \in 1 .. Len(x)
        PROVE  Segment(x, i) = x[i] /\ x[i] # <<-1, 0>>
    <3>1. x[i] \in {0, 1} \X Nat /\ i \in DOMAIN x
      OBVIOUS
    <3>2. x[i][1] \in {0, 1} /\ <<-1, 0>>[1] = -1
      BY <3>1
    <3> QED
      BY <3>1, <3>2 DEF Segment, Padded
  <2>2. ASSUME NEW x \in Seq({0, 1} \X Nat), NEW i \in Int, i > Len(x)
        PROVE  Segment(x, i) = <<-1, 0>>
    BY <2>2 DEF Segment, Padded
  <2>3. Len(s) = Len(t)
    <3>1. CASE Len(s) < Len(t)
      <4> DEFINE i == Len(t)
      <4>1. i \in 1 .. n /\ i \in 1 .. Len(t) /\ i > Len(s) /\ i \in Int
        BY <3>1
      <4>2. Segment(t, i) # <<-1, 0>> /\ Segment(s, i) = <<-1, 0>>
        BY <2>1, <2>2, <4>1
      <4> QED
        BY <1>5, <4>1, <4>2
    <3>2. CASE Len(t) < Len(s)
      <4> DEFINE i == Len(s)
      <4>1. i \in 1 .. n /\ i \in 1 .. Len(s) /\ i > Len(t) /\ i \in Int
        BY <3>2
      <4>2. Segment(s, i) # <<-1, 0>> /\ Segment(t, i) = <<-1, 0>>
        BY <2>1, <2>2, <4>1
      <4> QED
        BY <1>5, <4>1, <4>2
    <3> QED
      BY <3>1, <3>2
  <2>4. \A i \in 1 .. Len(s) : s[i] = t[i]
    BY <1>5, <2>1, <2>3
  <2> QED
    BY <2>3, <2>4, SMTT(30)
<1> HIDE DEF n, signs
<1> QED
  BY <1>3, <1>4, <1>5

\* Between readings alike in post and dev, the keys of prereleases tell apart what
\* the prereleases do.
LEMMA SamePre ==
  ASSUME NEW p, NEW q, PepRead(p), PepRead(q), p.post = q.post, p.dev = q.dev
  PROVE  CompareNumbers(PreKey(p), PreKey(q), 0) = 0 <=> p.pre = q.pre
<1> DEFINE x == PreKey(p)
           y == PreKey(q)
<1>1. x \in Seq(Int) /\ y \in Seq(Int) /\ Len(x) = 2 /\ Len(y) = 2
  BY PepReads DEF PepFields
<1>2. CompareNumbers(x, y, 0) = 0 <=> x = y
  <2> HIDE DEF x, y
  <2>1. 2 \in Nat /\ Len(x) <= 2 /\ Len(y) <= 2 /\ 0 \in Int
    BY <1>1
  <2>2. CompareNumbers(x, y, 0) = 0 <=> \A i \in 1 .. 2 : Padded(x, i, 0) = Padded(y, i, 0)
    BY <1>1, <2>1, SameNumbers
  <2>3. \A i \in 1 .. 2 : Padded(x, i, 0) = x[i] /\ Padded(y, i, 0) = y[i]
    BY <1>1 DEF Padded
  <2>4. x = y <=> \A i \in 1 .. 2 : x[i] = y[i]
    BY <1>1
  <2> QED
    BY <2>2, <2>3, <2>4
<1>3. x = y <=> p.pre = q.pre
  <2>1. ASSUME p.pre = q.pre PROVE x = y
    BY <2>1 DEF PreKey
  <2>2. ASSUME p.pre # q.pre PROVE x # y
    <3>1. ASSUME NEW r, PepRead(r), r.pre # <<>>
          PROVE  r.pre \in (0 .. 2) \X Nat /\ PreKey(r) = r.pre
      BY <3>1, PreKeys DEF PepRead
    <3>2. ASSUME NEW r, PepRead(r), r.pre = <<>>
          PROVE  PreKey(r)[1] \notin 0 .. 2
      <4>1. PreKey(r) = <<PepLow, 0>> \/ PreKey(r) = <<PepHigh, 0>>
        BY <3>2, PreKeys
      <4> QED
        BY <4>1, Sentinels, PairSequence
    <3>3. CASE p.pre # <<>> /\ q.pre # <<>>
      BY <2>2, <3>1, <3>3
    <3>4. CASE p.pre # <<>> /\ q.pre = <<>>
      BY <3>1, <3>2, <3>4
    <3>5. CASE p.pre = <<>> /\ q.pre # <<>>
      BY <3>1, <3>2, <3>5
    <3> QED
      BY <2>2, <3>3, <3>4, <3>5
  <2> QED
    BY <2>1, <2>2
<1> QED
  BY <1>2, <1>3

\* Two readings compare as the same exactly when their keys are the same: PEP 440
\* tells apart what pep440Key does (pep440.go:77-105, match.go matchList).
THEOREM SameKey ==
  ASSUME NEW p, NEW q, PepRead(p), PepRead(q)
  PROVE  ComparePEP440(p, q) = 0 <=> PepKey(p) = PepKey(q)
<1>1. PepFields(p) /\ PepFields(q)
  BY PepReads
<1> DEFINE s == PepSigns(p, q)
<1>2. s \in Seq(Int) /\ Len(s) = 6
  BY <1>1, PepSignsInt DEF PepSigns
<1>3. ComparePEP440(p, q) = 0 <=> \A i \in 1 .. 6 : s[i] = 0
  <2> HIDE DEF s
  <2>1. Chain(s) = 0 <=> \A i \in 1 .. 6 : s[i] = 0
    <3>1. First(6, s, Chain(s))
      BY <1>2, Chains
    <3> QED
      BY <3>1 DEF First
  <2> QED
    BY <2>1 DEF s, ComparePEP440, PepSigns
<1>4. (\A i \in 1 .. 6 : s[i] = 0) <=>
        s[1] = 0 /\ s[2] = 0 /\ s[3] = 0 /\ s[4] = 0 /\ s[5] = 0 /\ s[6] = 0
  <2> HIDE DEF s
  <2>1. \A i \in 1 .. 6 : i = 1 \/ i = 2 \/ i = 3 \/ i = 4 \/ i = 5 \/ i = 6
    OBVIOUS
  <2> QED
    BY <2>1
<1>5. s[1] = 0 <=> p.epoch = q.epoch
  BY <1>1 DEF PepSigns, PepFields, Sign
<1>6. s[4] = 0 <=> p.post = q.post
  BY <1>1 DEF PepSigns, PepFields, Sign, PostKey
<1>7. s[5] = 0 <=> p.dev = q.dev
  <2>1. s[5] = 0 <=> DevKey(p) = DevKey(q)
    BY <1>1 DEF PepSigns, PepFields, Sign
  <2> QED
    BY <2>1, Sentinels DEF DevKey, PepRead
<1>8. s[6] = 0 <=> p.local = q.local
  <2>1. s[6] = CompareLocal(p.local, q.local)
    BY DEF PepSigns
  <2> QED
    BY <1>1, <2>1, SameLocal DEF PepFields
<1>9. s[2] = 0 <=> TrimmedRelease(p.release) = TrimmedRelease(q.release)
  <2>1. s[2] = CompareNumbers(p.release, q.release, 0)
    BY DEF PepSigns
  <2>2. /\ p.release \in Seq(Nat) /\ p.release # <<>>
        /\ q.release \in Seq(Nat) /\ q.release # <<>>
    BY DEF PepRead
  <2> QED
    BY <2>1, <2>2, SameRelease
<1>10. p.post = q.post /\ p.dev = q.dev => (s[3] = 0 <=> p.pre = q.pre)
  <2>1. s[3] = CompareNumbers(PreKey(p), PreKey(q), 0)
    BY DEF PepSigns
  <2> QED
    BY <2>1, SamePre
<1>11. ASSUME NEW r, PepRead(r)
       PROVE  PepKey(r) = [epoch |-> r.epoch, release |-> TrimmedRelease(r.release),
                           pre |-> r.pre, post |-> r.post, dev |-> r.dev, local |-> r.local]
  <2> DEFINE trimmed == TrimmedRelease(r.release)
  <2>1. PepKey(r) = [r EXCEPT !.release = trimmed]
    BY DEF PepKey, TrimmedRelease, Kept
  <2>2. r = [epoch |-> r.epoch, release |-> r.release,
             pre |-> r.pre, post |-> r.post, dev |-> r.dev, local |-> r.local]
    BY <1>11 DEF PepRead
  <2> HIDE DEF trimmed
  <2>3. PepKey(r) = [epoch |-> r.epoch, release |-> trimmed,
                     pre |-> r.pre, post |-> r.post, dev |-> r.dev, local |-> r.local]
    BY <2>1, <2>2
  <2> QED
    BY <2>3 DEF trimmed
<1>12. PepKey(p) = PepKey(q) <=>
         /\ p.epoch = q.epoch /\ TrimmedRelease(p.release) = TrimmedRelease(q.release)
         /\ p.pre = q.pre /\ p.post = q.post /\ p.dev = q.dev /\ p.local = q.local
  BY <1>11
<1> HIDE DEF s
<1> QED
  BY <1>3, <1>4, <1>5, <1>6, <1>7, <1>8, <1>9, <1>10, <1>12

-----------------------------------------------------------------------------
(* Alpine.                                                                   *)

\* The token of a release reading at i, as an order of its own would rank it: the
\* end of the version below the revision below a number.
TokenRank(t) == IF t[1] = "number" THEN 2 ELSE IF t[1] = "revision" THEN 1 ELSE 0

Token(t, i) == Padded(t, i, APKEnd)

CompareTokens(x, y) == Chain(<<Sign(TokenRank(x) - TokenRank(y)), Sign(x[2] - y[2])>>)

ReleaseTokens == ({"number", "revision"} \X Int) \union {APKEnd}

\* Tokens, ranked with the end below the revision, are compared as an order does.
LEMMA TokensFall ==
  ASSUME NEW x \in ReleaseTokens, NEW y \in ReleaseTokens, NEW z \in ReleaseTokens
  PROVE  /\ CompareTokens(x, y) \in Int /\ CompareTokens(y, z) \in Int
         /\ CompareTokens(x, z) \in Int
         /\ Falls(CompareTokens(x, y), CompareTokens(y, z), CompareTokens(x, z))
<1> DEFINE pair(t) == <<TokenRank(t), t[2]>>
<1>1. pair(x) \in Int \X Int /\ pair(y) \in Int \X Int /\ pair(z) \in Int \X Int
  BY DEF TokenRank, ReleaseTokens, APKEnd
<1>2. /\ CompareTokens(x, y) = CompareSegments(pair(x), pair(y))
      /\ CompareTokens(y, z) = CompareSegments(pair(y), pair(z))
      /\ CompareTokens(x, z) = CompareSegments(pair(x), pair(z))
  BY DEF CompareTokens, CompareSegments
<1> HIDE DEF pair
<1> QED
  BY <1>1, <1>2, SegmentsFall

\* How two tokens compare: by kind, then by number, and as the same only when equal.
LEMMA SameTokens ==
  ASSUME NEW x \in ReleaseTokens, NEW y \in ReleaseTokens
  PROVE  /\ CompareTokens(x, y) = 0 <=> x = y
         /\ x[1] # y[1] => CompareTokens(x, y) = Sign(TokenRank(x) - TokenRank(y))
         /\ x[1] = y[1] => CompareTokens(x, y) = Sign(x[2] - y[2])
<1> DEFINE a == Sign(TokenRank(x) - TokenRank(y))
           b == Sign(x[2] - y[2])
           s == <<a, b>>
<1>1. x[2] \in Int /\ y[2] \in Int
  BY DEF ReleaseTokens, APKEnd
<1>2. a \in Int /\ b \in Int /\ (a = 0 <=> x[1] = y[1]) /\ (b = 0 <=> x[2] = y[2])
  BY <1>1 DEF Sign, TokenRank, ReleaseTokens, APKEnd
<1>3. x = y <=> x[1] = y[1] /\ x[2] = y[2]
  BY DEF ReleaseTokens, APKEnd
<1>4. CompareTokens(x, y) = Chain(s)
  BY DEF CompareTokens
<1> HIDE DEF a, b
<1>5. s \in Seq(Int) /\ Len(s) = 2 /\ s[1] = a /\ s[2] = b
  BY <1>2
<1> HIDE DEF s
<1>6. First(2, s, Chain(s))
  BY <1>5, Chains
<1>7. \A i \in 1 .. 2 : i = 1 \/ i = 2
  OBVIOUS
<1>8. 1 \in 1 .. 2 /\ 2 \in 1 .. 2 /\ 1 < 2
  OBVIOUS
<1>9. a # 0 => Chain(s) = a
  BY <1>5, <1>6, <1>7, <1>8 DEF First
<1>10. a = 0 => Chain(s) = b
  BY <1>5, <1>6, <1>7, <1>8 DEF First
<1> QED
  BY <1>2, <1>3, <1>4, <1>9, <1>10 DEF a, b

TokenSigns(s, t, n) == [i \in 1 .. n |-> CompareTokens(Token(s, i), Token(t, i))]

\* A padded token is one of a release reading, or the end.
LEMMA TokenOf ==
  ASSUME NEW s, APKReadRelease(s), NEW i \in Int
  PROVE  /\ Token(s, i) \in ReleaseTokens
         /\ i \in 1 .. Len(s) => /\ Token(s, i) = s[i]
                                 /\ Token(s, i) \in {"number", "revision"} \X Int
         /\ i > Len(s) => Token(s, i) = APKEnd
BY DEF Token, Padded, APKReadRelease, ReleaseTokens

\* Up to the first difference neither version has ended.
LEMMA DifferWithin ==
  ASSUME NEW s, NEW t, APKReadRelease(s), APKReadRelease(t), NEW i \in Int, i > 0,
         Token(s, i) # Token(t, i),
         \A j \in 1 .. i - 1 : Token(s, j) = Token(t, j)
  PROVE  i <= Len(s)
<1> SUFFICES ASSUME i > Len(s) PROVE FALSE
  BY DEF APKReadRelease
<1> DEFINE l == Len(s)
<1>1. l \in 1 .. i - 1 /\ l \in 1 .. Len(s) /\ l \in Int
  BY DEF APKReadRelease
<1>2. s[l][1] = "revision"
  <2>1. \A k \in DOMAIN s : s[k][1] = "revision" <=> k = Len(s)
    BY DEF APKReadRelease
  <2>2. l \in DOMAIN s
    BY <1>1 DEF APKReadRelease
  <2> QED
    BY <2>1, <2>2
<1>3. Token(t, l)[1] = "revision"
  BY <1>1, <1>2, TokenOf
<1>4. Len(t) \in Nat /\ \A k \in 1 .. Len(t) : t[k][1] = "revision" <=> k = Len(t)
  BY DEF APKReadRelease
<1> HIDE DEF l
<1>5. l = Len(t)
  <2>1. CASE l > Len(t)
    BY <1>1, <1>3, <2>1, TokenOf DEF APKEnd
  <2>2. CASE l <= Len(t)
    <3>1. l \in 1 .. Len(t)
      BY <1>1, <1>4, <2>2
    <3>2. t[l][1] = "revision"
      BY <1>1, <1>3, <3>1, TokenOf
    <3> QED
      BY <1>4, <3>1, <3>2
  <2> QED
    BY <1>1, <1>4, <2>1, <2>2
<1>6. Token(s, i) = APKEnd /\ Token(t, i) = APKEnd
  <2>1. i > Len(t)
    BY <1>5 DEF l
  <2> QED
    BY <2>1, TokenOf
<1> QED
  BY <1>6

\* compareAPK gives the first difference of tokens, the end ranked below the
\* revision: the rank of the end, which the code gives the revision's, never decides.
LEMMA Tokens ==
  ASSUME NEW s, NEW t, APKReadRelease(s), APKReadRelease(t),
         NEW n \in Nat, Len(s) <= n, Len(t) <= n
  PROVE  First(n, TokenSigns(s, t, n), CompareAPK(s, t))
<1> DEFINE l == Longer(s, t)
           signs == TokenSigns(s, t, n)
           D == {i \in 1 .. l : Token(s, i) # Token(t, i)}
           x == Token(s, Min(D))
           y == Token(t, Min(D))
<1>1. l \in Nat /\ l <= n /\ Len(s) <= l /\ Len(t) <= l
  BY DEF Longer, APKReadRelease
<1>2. \A i \in 1 .. n : signs[i] = CompareTokens(Token(s, i), Token(t, i))
  BY DEF TokenSigns
<1>3. CompareAPK(s, t) =
        IF D = {} THEN 0
        ELSE IF x[1] # y[1] THEN Sign(KindOrder(x) - KindOrder(y)) ELSE Sign(x[2] - y[2])
  BY DEF CompareAPK, Token
<1>4. ASSUME NEW i \in 1 .. n
      PROVE  /\ Token(s, i) \in ReleaseTokens /\ Token(t, i) \in ReleaseTokens
             /\ signs[i] = 0 <=> Token(s, i) = Token(t, i)
  <2>1. i \in Int
    OBVIOUS
  <2>2. Token(s, i) \in ReleaseTokens /\ Token(t, i) \in ReleaseTokens
    BY <2>1, TokenOf
  <2>3. signs[i] = CompareTokens(Token(s, i), Token(t, i))
    BY <1>2
  <2> HIDE DEF signs
  <2> QED
    BY <2>2, <2>3, SameTokens
<1>5. D = {i \in 1 .. l : signs[i] # 0}
  <2>1. \A i \in 1 .. l : i \in 1 .. n
    BY <1>1
  <2> HIDE DEF signs, l
  <2> QED
    BY <1>4, <2>1
<1>6. ASSUME D # {} PROVE CompareAPK(s, t) = signs[Min(D)]
  <2>1. D \in SUBSET Nat
    BY <1>1
  <2> DEFINE i == Min(D)
  <2>2. i \in D /\ \A j \in D : i <= j
    <3> HIDE DEF D
    <3> QED BY <1>6, <2>1, Least
  <2>3. i \in 1 .. n /\ i \in Int /\ i > 0 /\ i \in 1 .. l
    BY <1>1, <2>2
  <2>4. \A j \in 1 .. i - 1 : Token(s, j) = Token(t, j)
    <3> TAKE j \in 1 .. i - 1
    <3>1. j \in 1 .. l /\ ~(i <= j)
      <4> HIDE DEF i, l
      <4> QED BY <1>1, <2>3
    <3>2. j \notin D
      BY <2>2, <3>1
    <3> QED
      BY <3>1, <3>2
  <2>5. x # y
    BY <2>2
  <2> HIDE DEF i, D, signs, l
  <2>6. i <= Len(s) /\ i <= Len(t)
    BY <2>3, <2>4, <2>5, DifferWithin DEF i
  <2>7. i \in 1 .. Len(s) /\ i \in 1 .. Len(t)
    BY <2>3, <2>6 DEF APKReadRelease
  <2>8. x \in {"number", "revision"} \X Int /\ y \in {"number", "revision"} \X Int
    BY <2>3, <2>7, TokenOf DEF i
  <2>9. signs[i] = CompareTokens(x, y)
    BY <1>2, <2>3 DEF i
  <2> HIDE DEF x, y
  <2>10. x \in ReleaseTokens /\ y \in ReleaseTokens
    BY <2>8 DEF ReleaseTokens
  <2>11. CASE x[1] # y[1]
    <3>1. CompareAPK(s, t) = Sign(KindOrder(x) - KindOrder(y))
      BY <1>3, <1>6, <2>11
    <3>2. Sign(KindOrder(x) - KindOrder(y)) = Sign(TokenRank(x) - TokenRank(y))
      BY <2>8, <2>11 DEF KindOrder, TokenRank, Sign
    <3> QED
      BY <2>9, <2>10, <2>11, <3>1, <3>2, SameTokens DEF i
  <2>12. CASE x[1] = y[1]
    <3>1. CompareAPK(s, t) = Sign(x[2] - y[2])
      BY <1>3, <1>6, <2>12
    <3> QED
      BY <2>9, <2>10, <2>12, <3>1, SameTokens DEF i
  <2> QED
    BY <2>11, <2>12
<1>7. \A i \in l + 1 .. n : signs[i] = 0
  <2> TAKE i \in l + 1 .. n
  <2>1. i \in 1 .. n /\ i \in Int /\ i > Len(s) /\ i > Len(t)
    BY <1>1 DEF APKReadRelease
  <2>2. Token(s, i) = Token(t, i)
    BY <2>1, TokenOf
  <2> QED
    BY <1>4, <2>1, <2>2
<1>8. D = {} => CompareAPK(s, t) = 0
  BY <1>3
<1> HIDE DEF D, signs, l
<1>9. First(n, signs, CompareAPK(s, t))
  BY <1>1, <1>5, <1>6, <1>7, <1>8, Items
<1> QED
  BY <1>9 DEF signs

\* compareAPK compares release readings as an order does.
LEMMA APKFalls ==
  ASSUME NEW s, NEW t, NEW u, APKReadRelease(s), APKReadRelease(t), APKReadRelease(u)
  PROVE  /\ CompareAPK(s, t) \in Int /\ CompareAPK(t, u) \in Int /\ CompareAPK(s, u) \in Int
         /\ Falls(CompareAPK(s, t), CompareAPK(t, u), CompareAPK(s, u))
<1>1. PICK n \in Nat : Len(s) <= n /\ Len(t) <= n /\ Len(u) <= n
  <2> DEFINE n == Len(s) + Len(t) + Len(u)
  <2> n \in Nat /\ Len(s) <= n /\ Len(t) <= n /\ Len(u) <= n
    BY DEF APKReadRelease
  <2> QED
    OBVIOUS
<1> DEFINE a == TokenSigns(s, t, n)
           b == TokenSigns(t, u, n)
           c == TokenSigns(s, u, n)
           x == CompareAPK(s, t)
           y == CompareAPK(t, u)
           z == CompareAPK(s, u)
<1>2. First(n, a, x) /\ First(n, b, y) /\ First(n, c, z)
  BY <1>1, Tokens
<1>3. ASSUME NEW i \in 1 .. n
      PROVE  a[i] \in Int /\ b[i] \in Int /\ c[i] \in Int /\ Falls(a[i], b[i], c[i])
  <2> DEFINE si == Token(s, i)
             ti == Token(t, i)
             ui == Token(u, i)
  <2>1. si \in ReleaseTokens /\ ti \in ReleaseTokens /\ ui \in ReleaseTokens
    <3>1. i \in Int
      OBVIOUS
    <3> QED
      BY <3>1, TokenOf
  <2>2. /\ a[i] = CompareTokens(si, ti) /\ b[i] = CompareTokens(ti, ui)
        /\ c[i] = CompareTokens(si, ui)
    BY DEF TokenSigns
  <2> HIDE DEF a, b, c, si, ti, ui
  <2> QED
    BY <2>1, <2>2, TokensFall
<1> HIDE DEF a, b, c, x, y, z
<1>4. \A i \in 1 .. n : a[i] \in Int /\ b[i] \in Int /\ c[i] \in Int
  BY <1>3
<1>5. \A i \in 1 .. n : Falls(a[i], b[i], c[i])
  BY <1>3
<1>6. x \in Int /\ y \in Int /\ z \in Int /\ Falls(x, y, z)
  BY <1>2, <1>4, <1>5, FirstsFall, Zenon
<1> QED
  BY <1>6 DEF x, y, z

-----------------------------------------------------------------------------
(* Debian and Ubuntu.                                                        *)

Chunk(s, i) == Padded(s, i, <<<<>>, 0>>)

CompareChunk(x, y) == Chain(<<CompareNumbers(x[1], y[1], 0), Sign(x[2] - y[2])>>)

\* Chunks are compared as an order does.
LEMMA ChunkFalls ==
  ASSUME NEW x \in Seq(Int) \X Int, NEW y \in Seq(Int) \X Int, NEW z \in Seq(Int) \X Int
  PROVE  /\ CompareChunk(x, y) \in Int /\ CompareChunk(y, z) \in Int
         /\ CompareChunk(x, z) \in Int
         /\ Falls(CompareChunk(x, y), CompareChunk(y, z), CompareChunk(x, z))
<1>1. /\ x[1] \in Seq(Int) /\ y[1] \in Seq(Int) /\ z[1] \in Seq(Int)
      /\ x[2] \in Int /\ y[2] \in Int /\ z[2] \in Int /\ 0 \in Int
  OBVIOUS
<1> DEFINE words(u, v) == CompareNumbers(u[1], v[1], 0)
           numbers(u, v) == Sign(u[2] - v[2])
<1>2. /\ words(x, y) \in Int /\ words(y, z) \in Int /\ words(x, z) \in Int
      /\ Falls(words(x, y), words(y, z), words(x, z))
  BY <1>1, NumbersFall, Zenon
<1>3. /\ numbers(x, y) \in Int /\ numbers(y, z) \in Int /\ numbers(x, z) \in Int
      /\ Falls(numbers(x, y), numbers(y, z), numbers(x, z))
  BY <1>1, SignsFall
<1>4. /\ CompareChunk(x, y) = Chain(<<words(x, y), numbers(x, y)>>)
      /\ CompareChunk(y, z) = Chain(<<words(y, z), numbers(y, z)>>)
      /\ CompareChunk(x, z) = Chain(<<words(x, z), numbers(x, z)>>)
  BY DEF CompareChunk
<1> HIDE DEF words, numbers
<1> QED
  BY <1>2, <1>3, <1>4, PairsFall

ChunkSigns(s, t, n) == [i \in 1 .. n |-> CompareChunk(Chunk(s, i), Chunk(t, i))]

\* A padded chunk is a word and a number.
LEMMA ChunkOf ==
  ASSUME NEW s \in Seq(Seq(Int) \X Nat), NEW i \in Int
  PROVE  Chunk(s, i) \in Seq(Int) \X Int
<1>1. CASE i \in DOMAIN s
  <2>1. s[i] \in Seq(Int) \X Nat
    BY <1>1
  <2>2. s[i] \in Seq(Int) \X Int
    BY <2>1
  <2> QED
    BY <1>1, <2>2 DEF Chunk, Padded
<1>2. CASE i \notin DOMAIN s
  <2>1. <<>> \in Seq(Int) /\ 0 \in Int
    OBVIOUS
  <2>2. <<<<>>, 0>> \in Seq(Int) \X Int
    BY <2>1, Zenon
  <2> QED
    BY <1>2, <2>2, Zenon DEF Chunk, Padded
<1> QED
  BY <1>1, <1>2

\* Two missing chunks compare as the same.
LEMMA NoChunk == CompareChunk(<<<<>>, 0>>, <<<<>>, 0>>) = 0
<1> DEFINE a == CompareNumbers(<<>>, <<>>, 0)
           b == Sign(0 - 0)
<1>1. a = 0
  <2> DEFINE none == <<>>
  <2>1. none \in Seq(Int) /\ Len(none) <= 0 /\ 0 \in Int /\ 0 \in Nat
    OBVIOUS
  <2>2. a = CompareNumbers(none, none, 0)
    OBVIOUS
  <2> HIDE DEF none, a
  <2> QED
    BY <2>1, <2>2, SameNumbers, Zenon
<1>2. b = 0 /\ a \in Int /\ b \in Int
  BY <1>1 DEF Sign
<1>3. CompareChunk(<<<<>>, 0>>, <<<<>>, 0>>) = Chain(<<a, b>>)
  BY DEF CompareChunk
<1> HIDE DEF a, b
<1> QED
  BY <1>1, <1>2, <1>3, PairIsZero

\* verrevcmp gives the first difference, among any number of positions that holds
\* both versions.
LEMMA Chunks ==
  ASSUME NEW s \in Seq(Seq(Int) \X Nat), NEW t \in Seq(Seq(Int) \X Nat),
         NEW n \in Nat, Len(s) <= n, Len(t) <= n
  PROVE  First(n, ChunkSigns(s, t, n), CompareChunks(s, t))
<1> DEFINE l == Longer(s, t)
           at(i) == CompareChunk(Chunk(s, i), Chunk(t, i))
           signs == ChunkSigns(s, t, n)
           D == {i \in 1 .. l : at(i) # 0}
<1>1. l \in Nat /\ l <= n /\ Len(s) <= l /\ Len(t) <= l
  BY DEF Longer
<1>2. \A i \in 1 .. n : signs[i] = at(i)
  BY DEF ChunkSigns
<1>3. CompareChunks(s, t) = IF D = {} THEN 0 ELSE at(Min(D))
  BY DEF CompareChunks, FirstSign, CompareChunk, Chunk
<1>4. D = {i \in 1 .. l : signs[i] # 0}
  BY <1>1, <1>2
<1>5. ASSUME D # {} PROVE at(Min(D)) = signs[Min(D)]
  <2>1. D \in SUBSET Nat
    BY <1>1
  <2>2. Min(D) \in D
    <3> HIDE DEF D
    <3> QED BY <1>5, <2>1, Least
  <2>3. Min(D) \in 1 .. n
    BY <1>1, <2>2
  <2> HIDE DEF D, at, signs
  <2> QED
    BY <1>2, <2>3
<1>6. \A i \in l + 1 .. n : signs[i] = 0
  <2> TAKE i \in l + 1 .. n
  <2>1. Chunk(s, i) = <<<<>>, 0>> /\ Chunk(t, i) = <<<<>>, 0>>
    BY <1>1 DEF Padded, Chunk
  <2>2. at(i) = 0
    BY <2>1, NoChunk
  <2> QED
    BY <1>1, <1>2, <2>2
<1> HIDE DEF l, at, signs, D
<1>7. First(n, signs, CompareChunks(s, t))
  BY <1>1, <1>3, <1>4, <1>5, <1>6, Items
<1> QED
  BY <1>7 DEF signs

\* verrevcmp compares as an order does.
LEMMA ChunksFall ==
  ASSUME NEW s \in Seq(Seq(Int) \X Nat), NEW t \in Seq(Seq(Int) \X Nat),
         NEW u \in Seq(Seq(Int) \X Nat)
  PROVE  /\ CompareChunks(s, t) \in Int /\ CompareChunks(t, u) \in Int
         /\ CompareChunks(s, u) \in Int
         /\ Falls(CompareChunks(s, t), CompareChunks(t, u), CompareChunks(s, u))
<1>1. PICK n \in Nat : Len(s) <= n /\ Len(t) <= n /\ Len(u) <= n
  <2> DEFINE n == Len(s) + Len(t) + Len(u)
  <2> n \in Nat /\ Len(s) <= n /\ Len(t) <= n /\ Len(u) <= n
    OBVIOUS
  <2> QED
    OBVIOUS
<1> DEFINE a == ChunkSigns(s, t, n)
           b == ChunkSigns(t, u, n)
           c == ChunkSigns(s, u, n)
           x == CompareChunks(s, t)
           y == CompareChunks(t, u)
           z == CompareChunks(s, u)
<1>2. First(n, a, x) /\ First(n, b, y) /\ First(n, c, z)
  BY <1>1, Chunks
<1>3. ASSUME NEW i \in 1 .. n
      PROVE  a[i] \in Int /\ b[i] \in Int /\ c[i] \in Int /\ Falls(a[i], b[i], c[i])
  <2> DEFINE si == Chunk(s, i)
             ti == Chunk(t, i)
             ui == Chunk(u, i)
  <2>1. si \in Seq(Int) \X Int /\ ti \in Seq(Int) \X Int /\ ui \in Seq(Int) \X Int
    <3>1. i \in Int
      OBVIOUS
    <3> QED
      BY <3>1, ChunkOf, Zenon
  <2>2. /\ a[i] = CompareChunk(si, ti) /\ b[i] = CompareChunk(ti, ui)
        /\ c[i] = CompareChunk(si, ui)
    BY DEF ChunkSigns
  <2> HIDE DEF a, b, c, si, ti, ui
  <2> QED
    BY <2>1, <2>2, ChunkFalls
<1> HIDE DEF a, b, c, x, y, z
<1>4. \A i \in 1 .. n : a[i] \in Int /\ b[i] \in Int /\ c[i] \in Int
  BY <1>3
<1>5. \A i \in 1 .. n : Falls(a[i], b[i], c[i])
  BY <1>3
<1>6. x \in Int /\ y \in Int /\ z \in Int /\ Falls(x, y, z)
  BY <1>2, <1>4, <1>5, FirstsFall, Zenon
<1> QED
  BY <1>6 DEF x, y, z

\* The lexicographic lemma for three comparisons.
LEMMA TriplesFall ==
  ASSUME NEW a1 \in Int, NEW a2 \in Int, NEW a3 \in Int,
         NEW b1 \in Int, NEW b2 \in Int, NEW b3 \in Int,
         NEW c1 \in Int, NEW c2 \in Int, NEW c3 \in Int,
         Falls(a1, b1, c1), Falls(a2, b2, c2), Falls(a3, b3, c3)
  PROVE  /\ Chain(<<a1, a2, a3>>) \in Int /\ Chain(<<b1, b2, b3>>) \in Int
         /\ Chain(<<c1, c2, c3>>) \in Int
         /\ Falls(Chain(<<a1, a2, a3>>), Chain(<<b1, b2, b3>>), Chain(<<c1, c2, c3>>))
<1> DEFINE a == <<a1, a2, a3>>
           b == <<b1, b2, b3>>
           c == <<c1, c2, c3>>
<1>1. a \in Seq(Int) /\ b \in Seq(Int) /\ c \in Seq(Int) /\ Len(a) = Len(b) /\ Len(a) = Len(c)
  OBVIOUS
<1>2. ASSUME NEW i \in 1 .. Len(a) PROVE Falls(a[i], b[i], c[i])
  <2>1. i = 1 \/ i = 2 \/ i = 3
    OBVIOUS
  <2> QED
    BY <2>1
<1> HIDE DEF a, b, c
<1>3. /\ Chain(a) \in Int /\ Chain(b) \in Int /\ Chain(c) \in Int
      /\ Falls(Chain(a), Chain(b), Chain(c))
  BY <1>1, <1>2, ChainsFall
<1> QED
  BY <1>3 DEF a, b, c

\* compareDpkg compares as an order does.
LEMMA DpkgFalls ==
  ASSUME NEW s, NEW t, NEW u, DpkgRead(s), DpkgRead(t), DpkgRead(u)
  PROVE  /\ CompareDpkg(s, t) \in Int /\ CompareDpkg(t, u) \in Int /\ CompareDpkg(s, u) \in Int
         /\ Falls(CompareDpkg(s, t), CompareDpkg(t, u), CompareDpkg(s, u))
<1>1. ASSUME NEW d, DpkgRead(d)
      PROVE  /\ d.epoch \in Int /\ d.upstream \in Seq(Seq(Int) \X Nat)
             /\ d.revision \in Seq(Seq(Int) \X Nat)
  BY <1>1 DEF DpkgRead
<1> DEFINE epochs(x, y) == Sign(x.epoch - y.epoch)
           upstreams(x, y) == CompareChunks(x.upstream, y.upstream)
           revisions(x, y) == CompareChunks(x.revision, y.revision)
<1>2. /\ epochs(s, t) \in Int /\ epochs(t, u) \in Int /\ epochs(s, u) \in Int
      /\ Falls(epochs(s, t), epochs(t, u), epochs(s, u))
  BY <1>1, SignsFall
<1>3. /\ upstreams(s, t) \in Int /\ upstreams(t, u) \in Int /\ upstreams(s, u) \in Int
      /\ Falls(upstreams(s, t), upstreams(t, u), upstreams(s, u))
  BY <1>1, ChunksFall, Zenon
<1>4. /\ revisions(s, t) \in Int /\ revisions(t, u) \in Int /\ revisions(s, u) \in Int
      /\ Falls(revisions(s, t), revisions(t, u), revisions(s, u))
  BY <1>1, ChunksFall, Zenon
<1>5. /\ CompareDpkg(s, t) = Chain(<<epochs(s, t), upstreams(s, t), revisions(s, t)>>)
      /\ CompareDpkg(t, u) = Chain(<<epochs(t, u), upstreams(t, u), revisions(t, u)>>)
      /\ CompareDpkg(s, u) = Chain(<<epochs(s, u), upstreams(s, u), revisions(s, u)>>)
  BY DEF CompareDpkg
<1> HIDE DEF epochs, upstreams, revisions
<1> DEFINE st == Chain(<<epochs(s, t), upstreams(s, t), revisions(s, t)>>)
           tu == Chain(<<epochs(t, u), upstreams(t, u), revisions(t, u)>>)
           su == Chain(<<epochs(s, u), upstreams(s, u), revisions(s, u)>>)
<1>6. st \in Int /\ tu \in Int /\ su \in Int /\ Falls(st, tu, su)
  BY <1>2, <1>3, <1>4, TriplesFall, SMTT(30)
<1> QED
  BY <1>5, <1>6, Zenon

-----------------------------------------------------------------------------
(* The order of an ecosystem.                                                *)

\* What compareIn looks up.
LEMMA InOrder ==
  ASSUME NEW e \in Wires, NEW v \in Versions, NEW w \in Versions
  PROVE  CompareIn(e, v, w) =
           IF HasOwnOrder(e, v, w) THEN OwnCompare(e, v, w) ELSE CompareVersions(v, w)
BY DEF CompareIn, Order

\* Every ecosystem's own comparison but Maven's is that of an order, among versions
\* that are ordered in it.
LEMMA OwnOrder ==
  ASSUME NEW e \in Ecosystems, e # "Maven",
         NEW u \in Versions, NEW v \in Versions, NEW w \in Versions,
         OrderedIn(e, u), OrderedIn(e, v), OrderedIn(e, w),
         Readable(e, u), Readable(e, v), Readable(e, w)
  PROVE  /\ OwnCompare(e, u, v) \in Int /\ OwnCompare(e, v, w) \in Int
         /\ OwnCompare(e, u, w) \in Int
         /\ Falls(OwnCompare(e, u, v), OwnCompare(e, v, w), OwnCompare(e, u, w))
<1> DEFINE a == Reading[e][u]
           b == Reading[e][v]
           c == Reading[e][w]
<1>1. CASE e = "PyPI"
  <2>1. PepRead(a) /\ PepRead(b) /\ PepRead(c)
    BY <1>1, ReadingAssumption
  <2>2. /\ OwnCompare(e, u, v) = ComparePEP440(a, b)
        /\ OwnCompare(e, v, w) = ComparePEP440(b, c)
        /\ OwnCompare(e, u, w) = ComparePEP440(a, c)
    BY <1>1 DEF OwnCompare
  <2> HIDE DEF a, b, c
  <2> QED
    BY <2>1, <2>2, PepFalls
<1>2. CASE e = "Alpine"
  <2>1. APKReadRelease(a) /\ APKReadRelease(b) /\ APKReadRelease(c)
    BY <1>2, ReadingAssumption DEF OrderedIn
  <2>2. /\ OwnCompare(e, u, v) = CompareAPK(a, b)
        /\ OwnCompare(e, v, w) = CompareAPK(b, c)
        /\ OwnCompare(e, u, w) = CompareAPK(a, c)
    BY <1>2 DEF OwnCompare
  <2> HIDE DEF a, b, c
  <2> QED
    BY <2>1, <2>2, APKFalls
<1>3. CASE e = "Debian"
  <2>1. DpkgRead(a) /\ DpkgRead(b) /\ DpkgRead(c)
    BY <1>3, ReadingAssumption
  <2>2. /\ OwnCompare(e, u, v) = CompareDpkg(a, b)
        /\ OwnCompare(e, v, w) = CompareDpkg(b, c)
        /\ OwnCompare(e, u, w) = CompareDpkg(a, c)
    BY <1>3 DEF OwnCompare
  <2> HIDE DEF a, b, c
  <2> QED
    BY <2>1, <2>2, DpkgFalls
<1>4. CASE e \notin {"PyPI", "Alpine", "Debian"}
  <2>1. OwnCompare(e, u, v) = 0 /\ OwnCompare(e, v, w) = 0 /\ OwnCompare(e, u, w) = 0
    BY <1>4 DEF OwnCompare
  <2> QED
    BY <2>1 DEF Falls
<1> QED
  BY <1>1, <1>2, <1>3, <1>4

\* Among versions that an ecosystem other than Maven orders and that its own
\* parser reads all or none of, "not above" and "below" are passed on: the
\* comparison bounds intervals as an order does (pep440.go:155-201).
THEOREM Transitive ==
  ASSUME NEW e \in Wires, e # "Maven",
         NEW u \in Versions, NEW v \in Versions, NEW w \in Versions,
         OrderedIn(e, u), OrderedIn(e, v), OrderedIn(e, w), ReadAlike(e, {u, v, w})
  PROVE  /\ CompareIn(e, u, v) \in Int /\ CompareIn(e, v, w) \in Int
         /\ CompareIn(e, u, w) \in Int
         /\ Falls(CompareIn(e, u, v), CompareIn(e, v, w), CompareIn(e, u, w))
<1>1. CASE Readable(e, u) /\ Readable(e, v) /\ Readable(e, w)
  <2>1. e \in Ecosystems
    BY <1>1 DEF Readable
  <2>2. /\ CompareIn(e, u, v) = OwnCompare(e, u, v) /\ CompareIn(e, v, w) = OwnCompare(e, v, w)
        /\ CompareIn(e, u, w) = OwnCompare(e, u, w)
    BY <1>1, InOrder DEF HasOwnOrder
  <2> QED
    BY <1>1, <2>1, <2>2, OwnOrder
<1>2. CASE ~Readable(e, u) /\ ~Readable(e, v) /\ ~Readable(e, w)
  <2>1. /\ CompareIn(e, u, v) = CompareVersions(u, v) /\ CompareIn(e, v, w) = CompareVersions(v, w)
        /\ CompareIn(e, u, w) = CompareVersions(u, w)
    BY <1>2, InOrder DEF HasOwnOrder
  <2>2. CompareVersions(v, w) \in Int /\ CompareVersions(u, w) \in Int
    BY GenericFalls
  <2> QED
    BY <2>1, <2>2, GenericFalls
<1> QED
  BY <1>1, <1>2 DEF ReadAlike
=============================================================================
