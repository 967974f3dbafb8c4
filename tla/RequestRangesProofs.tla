----------------------------- MODULE RequestRangesProofs -----------------------------
(*******************************************************************************)
(* Ranges and the facade, for OIDs of any length and any number of ranges:     *)
(* operator< orders the ranges, sorting and merging them keeps what they cover *)
(* and what the heads of a walk take, a request built again stays as it is,    *)
(* what str() prints is read back, and which ranges a session can be built for.*)
(*******************************************************************************)
EXTENDS RequestRanges, OidProofs, FiniteSetTheorems

PartProofs  == INSTANCE LoopProofs WITH Step <- AppendPart
MergeProofs == INSTANCE LoopProofs WITH Step <- MergeRange

--------------------------------------------------------------------------------
(* The order of ranges *)

LEMMA RangeLTIrreflexive ==
  ASSUME NEW a \in OidRange
  PROVE  ~RangeLT(a, a)
<1>1. a.start \in Oid /\ a.stop \in Oid
  BY DEF OidRange
<1>2. ~OidLT(a.start, a.start) /\ ~OidLT(a.stop, a.stop)
  BY <1>1, OidLTIrreflexive
<1> QED
  BY <1>2, Zenon DEF RangeLT

LEMMA RangeLTTotal ==
  ASSUME NEW a \in OidRange, NEW b \in OidRange, a # b
  PROVE  RangeLT(a, b) <=> ~RangeLT(b, a)
<1>1. a.start \in Oid /\ a.stop \in Oid /\ b.start \in Oid /\ b.stop \in Oid
  BY DEF OidRange
<1>2. a.start # b.start \/ a.stop # b.stop
  BY DEF OidRange
<1>3. /\ a.start # b.start => (OidLT(a.start, b.start) <=> ~OidLT(b.start, a.start))
      /\ a.stop # b.stop => (OidLT(a.stop, b.stop) <=> ~OidLT(b.stop, a.stop))
  BY <1>1, OidLTTotal, OidLTAsymmetric
<1>4. /\ a.start = b.start => ~OidLT(a.start, b.start) /\ ~OidLT(b.start, a.start)
  BY <1>1, OidLTIrreflexive
<1>5. CASE a.start = <<>> \/ b.start = <<>>
  BY <1>2, <1>3, <1>5, Zenon DEF RangeLT
<1>6. CASE a.start # <<>> /\ b.start # <<>>
  BY <1>2, <1>3, <1>4, <1>6, Zenon DEF RangeLT
<1> QED
  BY <1>5, <1>6

LEMMA RangeLTTransitive ==
  ASSUME NEW a \in OidRange, NEW b \in OidRange, NEW c \in OidRange,
         RangeLT(a, b), RangeLT(b, c)
  PROVE  RangeLT(a, c)
<1>1. /\ a.start \in Oid /\ a.stop \in Oid /\ b.start \in Oid
      /\ b.stop \in Oid /\ c.start \in Oid /\ c.stop \in Oid
  BY DEF OidRange
<1>2. /\ OidLT(a.start, b.start) /\ OidLT(b.start, c.start) => OidLT(a.start, c.start)
      /\ OidLT(c.stop, b.stop) /\ OidLT(b.stop, a.stop) => OidLT(c.stop, a.stop)
  BY <1>1, OidLTTransitive
<1>3. CASE a.start = <<>>
  BY <1>2, <1>3, Zenon DEF RangeLT
<1>4. CASE a.start # <<>>
  BY <1>2, <1>4, Zenon DEF RangeLT
<1> QED
  BY <1>3, <1>4

--------------------------------------------------------------------------------
(* Sorted ranges *)

\* In order, and no range twice.
SortedSeq(sorted) ==
  \A i, j \in DOMAIN sorted : i < j => RangeLT(sorted[i], sorted[j])

\* The ranges before one of them.
Before(S, range) == { x \in S : RangeLT(x, range) }

\* A later range has more ranges before it.
LEMMA BeforeGrows ==
  ASSUME NEW S \in SUBSET OidRange, IsFiniteSet(S), NEW a \in S, NEW b \in S, RangeLT(a, b)
  PROVE  Cardinality(Before(S, a)) < Cardinality(Before(S, b))
<1>1. Before(S, a) \subseteq Before(S, b) /\ a \notin Before(S, a) /\ a \in Before(S, b)
  BY RangeLTTransitive, RangeLTIrreflexive DEF Before
<1>2. IsFiniteSet(Before(S, b))
  BY FS_Subset DEF Before
<1>3. /\ IsFiniteSet(Before(S, a))
      /\ Cardinality(Before(S, a)) <= Cardinality(Before(S, b))
      /\ Cardinality(Before(S, b)) = Cardinality(Before(S, a)) => Before(S, b) = Before(S, a)
  BY <1>1, <1>2, FS_Subset
<1>4. Cardinality(Before(S, a)) \in Nat /\ Cardinality(Before(S, b)) \in Nat
  BY <1>2, <1>3, FS_CardinalityType
<1> QED
  BY <1>1, <1>3, <1>4

\* Finitely many ranges can be sorted: each goes behind those before it.
LEMMA SortedExists ==
  ASSUME NEW S \in SUBSET OidRange, IsFiniteSet(S)
  PROVE  \E sorted \in Bijection(1 .. Cardinality(S), S) : SortedSeq(sorted)
<1> DEFINE n == Cardinality(S)
           place == [x \in S |-> Cardinality(Before(S, x)) + 1]
<1>1. n \in Nat
  BY FS_CardinalityType
<1>2. ASSUME NEW x \in S PROVE place[x] \in 1 .. n
  <2>1. Before(S, x) \in SUBSET S /\ x \notin Before(S, x)
    BY RangeLTIrreflexive DEF Before
  <2>2. /\ IsFiniteSet(Before(S, x)) /\ Cardinality(Before(S, x)) <= n
        /\ Cardinality(Before(S, x)) # n
    BY <2>1, FS_Subset
  <2>3. Cardinality(Before(S, x)) \in Nat
    BY <2>2, FS_CardinalityType
  <2> QED
    BY <1>1, <2>2, <2>3
<1>3. \A x, y \in S : RangeLT(x, y) => place[x] < place[y]
  <2> SUFFICES ASSUME NEW x \in S, NEW y \in S, RangeLT(x, y) PROVE place[x] < place[y]
    OBVIOUS
  <2>1. Cardinality(Before(S, x)) < Cardinality(Before(S, y))
    BY BeforeGrows
  <2>2. Cardinality(Before(S, x)) \in Nat /\ Cardinality(Before(S, y)) \in Nat
    BY FS_Subset, FS_CardinalityType DEF Before
  <2> QED
    BY <2>1, <2>2
<1> HIDE DEF n
<1>4. place \in [S -> 1 .. n]
  BY <1>2
<1> HIDE DEF place
<1>5. \A x, y \in S : x # y => RangeLT(x, y) \/ RangeLT(y, x)
  BY RangeLTTotal
<1>6. \A x, y \in S : place[x] = place[y] => x = y
  BY <1>3, <1>4, <1>5
<1>7. place \in Injection(S, 1 .. n)
  BY <1>4, <1>6 DEF Injection, IsInjective
<1>8. IsFiniteSet(1 .. n) /\ Cardinality(1 .. n) = n
  BY <1>1, FS_Interval
<1>9. place \in Surjection(S, 1 .. n)
  BY <1>7, <1>8, FS_Injection DEF n
<1> DEFINE sorted == [k \in 1 .. n |-> CHOOSE x \in S : place[x] = k]
<1>10. \A k \in 1 .. n : sorted[k] \in S /\ place[sorted[k]] = k
  BY <1>9 DEF Surjection
<1>11. \A x \in S : sorted[place[x]] = x
  BY <1>4, <1>6, <1>10
<1>12. sorted \in [1 .. n -> S]
  BY <1>10
<1> HIDE DEF sorted
<1>13. sorted \in Bijection(1 .. n, S)
  BY <1>4, <1>10, <1>11, <1>12 DEF Bijection, Injection, Surjection, IsInjective
<1>14. SortedSeq(sorted)
  <2> SUFFICES ASSUME NEW i \in 1 .. n, NEW j \in 1 .. n, i < j
               PROVE  RangeLT(sorted[i], sorted[j])
    BY <1>12 DEF SortedSeq
  <2>1. sorted[i] \in S /\ sorted[j] \in S /\ sorted[i] # sorted[j]
        /\ place[sorted[i]] = i /\ place[sorted[j]] = j
    BY <1>10
  <2>2. ~RangeLT(sorted[j], sorted[i])
    BY <1>3, <2>1
  <2> QED
    BY <1>5, <2>1, <2>2
<1> QED
  BY <1>13, <1>14 DEF n

\* sort and unique: the same ranges, each once, in order.
LEMMA SortedRangesSorted ==
  ASSUME NEW ranges \in Seq(OidRange)
  PROVE  /\ SortedRanges(ranges) \in Seq(OidRange)
         /\ SortedSeq(SortedRanges(ranges))
         /\ ToSet(SortedRanges(ranges)) = ToSet(ranges)
<1> DEFINE S == ToSet(ranges)
           n == Cardinality(S)
           sorted == SortedRanges(ranges)
<1>1. S \in SUBSET OidRange /\ IsFiniteSet(S)
  <2>1. ranges \in Surjection(1 .. Len(ranges), S)
    BY DEF ToSet, Surjection
  <2>2. IsFiniteSet(1 .. Len(ranges))
    BY FS_Interval
  <2> QED
    BY <2>1, <2>2, FS_Surjection DEF ToSet
<1>2. n \in Nat
  BY <1>1, FS_CardinalityType
<1>3. PICK s \in Bijection(1 .. n, S) : SortedSeq(s)
  BY <1>1, SortedExists
<1>4. s \in [1 .. n -> S]
  BY <1>3 DEF Bijection, Injection
<1>5. sorted \in [1 .. n -> S] /\ SortedSeq(sorted)
  BY <1>3, <1>4 DEF SortedRanges, SortedSeq
<1> HIDE DEF S, n, sorted
<1>6. sorted \in Seq(OidRange)
  BY <1>1, <1>2, <1>5
<1>7. sorted \in Injection(1 .. n, S)
  <2>1. ASSUME NEW i \in 1 .. n, NEW j \in 1 .. n, i < j PROVE sorted[i] # sorted[j]
    BY <1>1, <1>5, <2>1, RangeLTIrreflexive DEF SortedSeq
  <2>2. \A i, j \in 1 .. n : sorted[i] = sorted[j] => i = j
    BY <1>2, <2>1
  <2> QED
    BY <1>5, <2>2 DEF Injection, IsInjective
<1>8. sorted \in Surjection(1 .. n, S)
  <2>1. IsFiniteSet(S) /\ Cardinality(1 .. n) = Cardinality(S)
    BY <1>1, <1>2, FS_Interval DEF n
  <2> QED
    BY <1>7, <2>1, FS_Injection
<1>9. ToSet(sorted) = S
  BY <1>5, <1>8 DEF ToSet, Surjection
<1> QED
  BY <1>5, <1>6, <1>9 DEF S, sorted

\* There is one sorted sequence of a set of ranges.
LEMMA SortedUnique ==
  ASSUME NEW a \in Seq(OidRange), NEW b \in Seq(OidRange),
         SortedSeq(a), SortedSeq(b), ToSet(a) = ToSet(b)
  PROVE  a = b
<1> DEFINE parted == { i \in Nat \ {0} : i <= Len(a) /\ i <= Len(b) => a[i] # b[i] }
<1>1. /\ Len(a) \in Nat /\ DOMAIN a = 1 .. Len(a) /\ \A i \in DOMAIN a : a[i] \in OidRange
      /\ Len(b) \in Nat /\ DOMAIN b = 1 .. Len(b) /\ \A i \in DOMAIN b : b[i] \in OidRange
  OBVIOUS
<1>2. PICK i \in parted : \A n \in parted : i <= n
  <2>1. parted \in SUBSET Nat /\ Len(a) + 1 \in parted
    BY <1>1
  <2> HIDE DEF parted
  <2> QED
    BY <2>1, LeastElement
<1>3. i \in Nat \ {0}
  OBVIOUS
<1>4. \A k \in 1 .. i - 1 : k <= Len(a) /\ k <= Len(b) /\ a[k] = b[k]
  <2> SUFFICES ASSUME NEW k \in 1 .. i - 1 PROVE k \notin parted
    BY <1>3
  <2> HIDE DEF parted
  <2> QED
    BY <1>2, <1>3
\* What stands at place i in one of them stands behind i in the other.
<1>5. ASSUME NEW s \in Seq(OidRange), NEW t \in Seq(OidRange), SortedSeq(s), SortedSeq(t),
             ToSet(s) = ToSet(t), i <= Len(s), i <= Len(t) => s[i] # t[i],
             \A k \in 1 .. i - 1 : k <= Len(t) /\ s[k] = t[k]
      PROVE  i <= Len(t) /\ \E k \in 1 .. Len(t) : k > i /\ s[i] = t[k]
  <2>1. /\ Len(s) \in Nat /\ DOMAIN s = 1 .. Len(s) /\ \A k \in DOMAIN s : s[k] \in OidRange
        /\ Len(t) \in Nat /\ DOMAIN t = 1 .. Len(t)
    OBVIOUS
  <2>2. i \in DOMAIN s
    BY <1>3, <1>5, <2>1
  <2>3. PICK k \in 1 .. Len(t) : s[i] = t[k]
    BY <1>5, <2>1, <2>2 DEF ToSet
  <2>4. k # i
    BY <1>5, <2>3
  <2>5. ~(k < i)
    <3>1. SUFFICES ASSUME k < i PROVE FALSE
      OBVIOUS
    <3>2. k \in 1 .. i - 1 /\ k \in DOMAIN s
      BY <1>3, <2>1, <2>2, <3>1
    <3>3. RangeLT(s[k], s[i]) /\ s[k] = s[i]
      BY <1>5, <2>2, <2>3, <3>1, <3>2 DEF SortedSeq
    <3> QED
      BY <2>1, <2>2, <3>3, RangeLTIrreflexive
  <2> QED
    BY <1>3, <2>1, <2>3, <2>4, <2>5
<1>6. \A k \in 1 .. i - 1 : b[k] = a[k]
  BY <1>4
<1>7. i <= Len(a) /\ i <= Len(b) => a[i] # b[i]
  BY <1>2
<1> HIDE DEF parted
<1>8. CASE i <= Len(a) \/ i <= Len(b)
  <2>1. i <= Len(a) => i <= Len(b) /\ \E k \in 1 .. Len(b) : k > i /\ a[i] = b[k]
    BY <1>4, <1>5, <1>7
  <2>2. i <= Len(b) => i <= Len(a) /\ \E k \in 1 .. Len(a) : k > i /\ b[i] = a[k]
    BY <1>4, <1>5, <1>6, <1>7
  <2>3. PICK k \in DOMAIN b : k > i /\ a[i] = b[k]
    BY <1>1, <1>8, <2>1, <2>2
  <2>4. PICK l \in DOMAIN a : l > i /\ b[i] = a[l]
    BY <1>1, <1>8, <2>1, <2>2
  <2>5. i \in DOMAIN a /\ i \in DOMAIN b
    BY <1>1, <1>3, <1>8, <2>1, <2>2
  <2>6. RangeLT(b[i], b[k]) /\ RangeLT(a[i], a[l])
    BY <2>3, <2>4, <2>5 DEF SortedSeq
  <2>7. RangeLT(a[l], a[i]) /\ RangeLT(a[i], a[l])
    BY <2>3, <2>4, <2>6
  <2> QED
    BY <1>1, <2>4, <2>5, <2>7, RangeLTTransitive, RangeLTIrreflexive
<1>9. CASE ~(i <= Len(a) \/ i <= Len(b))
  <2>1. Len(a) = i - 1 /\ Len(b) = i - 1
    <3>1. ASSUME i # 1 PROVE i - 1 <= Len(a) /\ i - 1 <= Len(b)
      BY <1>3, <1>4, <3>1
    <3> QED
      BY <1>1, <1>3, <1>9, <3>1
  <2> QED
    BY <1>1, <1>4, <2>1
<1> QED
  BY <1>8, <1>9

--------------------------------------------------------------------------------
(* Two ranges *)

\* The order of OIDs once more, in the form the proofs below use.
LEMMA OidOrder ==
  /\ <<>> \in Oid
  /\ \A a \in Oid : OidLE(<<>>, a) /\ OidLE(a, a) /\ ~OidLT(a, a)
  /\ \A a, b \in Oid : OidLE(a, b) <=> ~OidLT(b, a)
  /\ \A a, b, c \in Oid : OidLE(a, b) /\ OidLE(b, c) => OidLE(a, c)
  /\ \A a, b \in Oid : OidLT(a, b) => OidLE(a, b) /\ a # b
<1>1. <<>> \in Oid
  BY DEF Oid
<1>2. ASSUME NEW a \in Oid PROVE OidLE(<<>>, a) /\ OidLE(a, a) /\ ~OidLT(a, a)
  BY EmptyFirst, OidLTIrreflexive DEF OidLE
<1>3. ASSUME NEW a \in Oid, NEW b \in Oid PROVE OidLE(a, b) <=> ~OidLT(b, a)
  BY OidLTTotal, OidLTAsymmetric, OidLTIrreflexive DEF OidLE
<1>4. ASSUME NEW a \in Oid, NEW b \in Oid, NEW c \in Oid, OidLE(a, b), OidLE(b, c)
      PROVE  OidLE(a, c)
  BY <1>4, OidLETransitive
<1>5. ASSUME NEW a \in Oid, NEW b \in Oid, OidLT(a, b) PROVE OidLE(a, b) /\ a # b
  BY <1>5, OidLTIrreflexive DEF OidLE
<1> QED
  BY <1>1, <1>2, <1>3, <1>4, <1>5, Zenon

\* What lies below the smaller of two OIDs comes before the larger one, unless
\* that one lies below it, too.
LEMMA BelowSmaller ==
  ASSUME NEW a \in Oid, NEW b \in Oid, NEW x \in Oid,
         OidLT(a, b), ~IsRootOf(a, b), IsRootOf(a, x)
  PROVE  OidLE(a, x) /\ OidLT(x, b)
<1>1. OidLE(a, x) /\ OidLE(a, b) /\ OidLE(a, a)
  BY RootFirst, OidOrder
<1>2. IsRootOf(a, a)
  BY RootArcs
<1>3. OidLE(b, x) => IsRootOf(a, b)
  BY <1>1, <1>2, RootBetween
<1> QED
  BY <1>1, <1>3, OidOrder

\* A range that its constructor accepts.
Ordered(range) == ~RangeThrows(range.start, range.stop)

LEMMA OrderedEnds ==
  ASSUME NEW range \in OidRange
  PROVE  Ordered(range) <=> range.stop = <<>> \/ OidLE(range.start, range.stop)
<1>1. range.start \in Oid /\ range.stop \in Oid
  BY DEF OidRange
<1> QED
  BY <1>1, OidOrder DEF Ordered, RangeThrows

\* What the head of a range takes below its root, without the root.
TakenBy(range, index) ==
  \/ OidLE(range.start, index) /\ OidLE(index, range.stop)
  \/ IsRootOf(range.stop, index)

\* One stop reaches as far as another.
StopLE(a, b) == b = <<>> \/ (a # <<>> /\ OidLE(a, b))

\* b does not lie below a.
Apart(a, b) == a \notin {<<>>, b} => ~IsRootOf(a, b)

\* Everything lies below the empty OID.
LEMMA EmptyRoot ==
  ASSUME NEW index \in Oid
  PROVE  IsRootOf(<<>>, index)
<1>1. <<>> \in Oid /\ Len(<<>>) = 0 /\ Len(index) \in Nat
  BY DEF Oid
<1> QED
  BY <1>1, RootArcs

\* A range that ends within another one and does not begin before it is swallowed.
LEMMA Swallowed ==
  ASSUME NEW a \in OidRange, NEW b \in OidRange, NEW index \in Oid,
         OidLE(a.start, b.start), StopLE(b.stop, a.stop), Ordered(b)
  PROVE  /\ Between(b, index) => Between(a, index)
         /\ Apart(b.stop, a.stop) /\ TakenBy(b, index) => TakenBy(a, index)
<1>1. a.start \in Oid /\ a.stop \in Oid /\ b.start \in Oid /\ b.stop \in Oid
  BY DEF OidRange
<1>2. Between(b, index) => Between(a, index)
  BY <1>1, OidOrder DEF Between, StopLE
<1>3. ASSUME Apart(b.stop, a.stop), TakenBy(b, index) PROVE TakenBy(a, index)
  <2>1. CASE a.stop = <<>>
    BY <2>1, EmptyRoot DEF TakenBy
  <2>2. CASE a.stop # <<>> /\ OidLE(b.start, index) /\ OidLE(index, b.stop)
    BY <1>1, <2>2, OidOrder DEF TakenBy, StopLE
  <2>3. CASE a.stop # <<>> /\ IsRootOf(b.stop, index)
    <3>1. b.stop # <<>> /\ OidLE(b.stop, a.stop) /\ OidLE(b.start, b.stop)
      BY <2>3, OrderedEnds DEF StopLE
    <3>2. CASE b.stop = a.stop
      BY <2>3, <3>2 DEF TakenBy
    <3>3. CASE b.stop # a.stop
      <4>1. OidLT(b.stop, a.stop) /\ ~IsRootOf(b.stop, a.stop)
        BY <1>3, <3>1, <3>3 DEF Apart, OidLE
      <4>2. OidLE(b.stop, index) /\ OidLT(index, a.stop)
        BY <1>1, <2>3, <4>1, BelowSmaller
      <4> QED
        BY <1>1, <3>1, <4>2, OidOrder DEF TakenBy
    <3> QED
      BY <3>2, <3>3
  <2> QED
    BY <1>3, <2>1, <2>2, <2>3 DEF TakenBy
<1> QED
  BY <1>2, <1>3

\* The range that two ranges are merged into.
Joined(a, b) == [start |-> a.start, stop |-> LaterStop(a.stop, b.stop)]

\* Both stops reach no further than the wider one.
LEMMA LaterStopIsLater ==
  ASSUME NEW a \in Oid, NEW b \in Oid, a # <<>>
  PROVE  /\ LaterStop(a, b) \in {a, b}
         /\ StopLE(a, LaterStop(a, b)) /\ StopLE(b, LaterStop(a, b))
         /\ LaterStop(a, b) = a => b # <<>> /\ OidLE(b, a)
BY OidOrder DEF LaterStop, StopLE

\* Two ranges that touch are merged into what both are.
LEMMA JoinedRange ==
  ASSUME NEW a \in OidRange, NEW b \in OidRange, NEW index \in Oid,
         Ordered(a), Ordered(b), a.stop # <<>>,
         OidLE(a.start, b.start), OidLE(b.start, a.stop)
  PROVE  /\ Joined(a, b) \in OidRange /\ Ordered(Joined(a, b))
         /\ Between(Joined(a, b), index) <=> Between(a, index) \/ Between(b, index)
         /\ Apart(a.stop, b.stop) /\ Apart(b.stop, a.stop) =>
              (TakenBy(Joined(a, b), index) <=> TakenBy(a, index) \/ TakenBy(b, index))
<1> DEFINE joined == Joined(a, b)
<1>1. a.start \in Oid /\ a.stop \in Oid /\ b.start \in Oid /\ b.stop \in Oid
  BY DEF OidRange
<1>2. /\ joined.start = a.start /\ joined.stop = LaterStop(a.stop, b.stop)
      /\ joined \in OidRange
  <2>1. LaterStop(a.stop, b.stop) \in Oid
    BY <1>1, LaterStopIsLater
  <2> QED
    BY <1>1, <2>1 DEF Joined, OidRange
<1> HIDE DEF joined
<1>3. /\ StopLE(a.stop, joined.stop) /\ StopLE(b.stop, joined.stop)
      /\ joined.stop \in {a.stop, b.stop}
      /\ joined.stop = a.stop => b.stop # <<>> /\ OidLE(b.stop, a.stop)
  BY <1>1, <1>2, LaterStopIsLater
<1>4. /\ OidLE(a.start, a.stop)
      /\ b.stop = <<>> \/ OidLE(b.start, b.stop)
  BY OrderedEnds
<1>5. Ordered(joined)
  BY <1>1, <1>2, <1>3, <1>4, OrderedEnds, OidOrder DEF StopLE
<1>6. /\ Between(a, index) \/ Between(b, index) => Between(joined, index)
      /\ Apart(a.stop, joined.stop) /\ TakenBy(a, index) => TakenBy(joined, index)
      /\ Apart(b.stop, joined.stop) /\ TakenBy(b, index) => TakenBy(joined, index)
  <2>1. OidLE(joined.start, a.start) /\ OidLE(joined.start, b.start)
    BY <1>1, <1>2, OidOrder
  <2> QED
    BY <1>2, <1>3, <2>1, Swallowed
<1>7. Between(joined, index) => Between(a, index) \/ Between(b, index)
  BY <1>1, <1>2, <1>3, OidOrder DEF Between
<1>8. TakenBy(joined, index) => TakenBy(a, index) \/ TakenBy(b, index)
  <2>1. CASE IsRootOf(joined.stop, index)
    BY <1>3, <2>1 DEF TakenBy
  <2>2. CASE OidLE(joined.start, index) /\ OidLE(index, joined.stop)
    BY <1>1, <1>2, <1>3, <2>2, OidOrder DEF TakenBy
  <2> QED
    BY <2>1, <2>2 DEF TakenBy
<1>9. /\ Apart(a.stop, b.stop) => Apart(a.stop, joined.stop)
      /\ Apart(b.stop, a.stop) => Apart(b.stop, joined.stop)
  BY <1>3 DEF Apart
<1> QED
  BY <1>2, <1>5, <1>6, <1>7, <1>8, <1>9 DEF joined

--------------------------------------------------------------------------------
(* The loop of optimize_ranges *)

\* The indexes between the bounds of some range, and those a head takes.
Covers(ranges, index) == \E i \in DOMAIN ranges : Between(ranges[i], index)
Takes(ranges, index)  == \E i \in DOMAIN ranges : TakenBy(ranges[i], index)

\* Each range ends before the next one begins.
InOrder(ranges) ==
  \A i, j \in DOMAIN ranges :
    i < j => ranges[i].stop # <<>> /\ OidLT(ranges[i].stop, ranges[j].start)

\* What the loop has after n of the sorted ranges.
MergedUpTo(sorted, n, merged) ==
  LET seen == SubSeq(sorted, 1, n)
  IN  /\ merged = <<>> <=> n = 0
      /\ \A i \in DOMAIN merged :
           Ordered(merged[i]) /\ \E k \in 1 .. n : merged[i].stop = sorted[k].stop
      /\ InOrder(merged)
      /\ merged # <<>> => \E k \in 1 .. n : /\ Last(merged).start = sorted[k].start
                                            /\ StopLE(sorted[k].stop, Last(merged).stop)
      /\ \A index \in Oid : Covers(merged, index) <=> Covers(seen, index)
      /\ ~NestedStops(sorted) => \A index \in Oid : Takes(merged, index) <=> Takes(seen, index)

\* The larger of two ranges that start together comes first.
LEMMA LargerFirst ==
  ASSUME NEW a \in OidRange, NEW b \in OidRange, RangeLT(a, b)
  PROVE  OidLE(a.start, b.start) /\ (a.start = b.start => StopLE(b.stop, a.stop))
<1>1. a.start \in Oid /\ a.stop \in Oid /\ b.start \in Oid /\ b.stop \in Oid
  BY DEF OidRange
<1> QED
  BY <1>1, OidOrder DEF RangeLT, StopLE

\* optimized_ranges.back() = new
LEMMA BackReplaced ==
  ASSUME NEW S, NEW seq \in Seq(S), seq # <<>>, NEW new \in S
  PROVE  /\ Append(Front(seq), new) \in Seq(S)
         /\ Len(Append(Front(seq), new)) = Len(seq)
         /\ \A i \in 1 .. Len(seq) - 1 : Append(Front(seq), new)[i] = seq[i]
         /\ Append(Front(seq), new)[Len(seq)] = new
<1>1. Len(seq) \in Nat /\ Len(seq) >= 1
  OBVIOUS
<1>2. /\ Front(seq) \in Seq(S) /\ Len(Front(seq)) = Len(seq) - 1
      /\ \A i \in 1 .. Len(seq) - 1 : Front(seq)[i] = seq[i]
  <2>1. Len(seq) - 1 \in Nat /\ Len(seq) - 1 <= Len(seq)
    BY <1>1
  <2>2. Front(seq) \in Seq(S) /\ Len(Front(seq)) = Len(seq) - 1
    <3>1. \A n \in Nat : n <= Len(seq) =>
            /\ SubSeq(seq, 1, n) = [i \in 1 .. n |-> seq[i]]
            /\ \A i \in 1 .. n : seq[i] \in S
      BY <1>1
    <3>2. /\ Front(seq) = [i \in 1 .. Len(seq) - 1 |-> seq[i]]
          /\ \A i \in 1 .. Len(seq) - 1 : seq[i] \in S
      BY <2>1, <3>1 DEF Front
    <3> QED
      BY <2>1, <3>2
  <2>3. ASSUME NEW i \in 1 .. Len(seq) - 1 PROVE Front(seq)[i] = seq[i]
    BY <2>1 DEF Front
  <2> QED
    BY <2>2, <2>3
<1> QED
  BY <1>1, <1>2

\* One more of the sorted ranges.
LEMMA OneMore ==
  ASSUME NEW sorted \in Seq(OidRange), NEW n \in 1 .. Len(sorted), NEW index \in Oid
  PROVE  /\ Covers(SubSeq(sorted, 1, n), index)
              <=> Covers(SubSeq(sorted, 1, n - 1), index) \/ Between(sorted[n], index)
         /\ Takes(SubSeq(sorted, 1, n), index)
              <=> Takes(SubSeq(sorted, 1, n - 1), index) \/ TakenBy(sorted[n], index)
<1> DEFINE now == SubSeq(sorted, 1, n)
           before == SubSeq(sorted, 1, n - 1)
<1>1. /\ n \in Nat \ {0} /\ DOMAIN now = 1 .. n /\ DOMAIN before = 1 .. n - 1
      /\ \A i \in 1 .. n : now[i] = sorted[i]
      /\ \A i \in 1 .. n - 1 : before[i] = sorted[i]
  OBVIOUS
<1> HIDE DEF now, before
<1>2. \A i \in 1 .. n : i \in 1 .. n - 1 \/ i = n
  BY <1>1
<1>3. Covers(now, index) <=> Covers(before, index) \/ Between(sorted[n], index)
  BY <1>1, <1>2 DEF Covers
<1>4. Takes(now, index) <=> Takes(before, index) \/ TakenBy(sorted[n], index)
  BY <1>1, <1>2 DEF Takes
<1> QED
  BY <1>3, <1>4 DEF now, before

\* One more range behind the merged ones.
LEMMA OneBehind ==
  ASSUME NEW merged \in Seq(OidRange), NEW range \in OidRange, NEW index \in Oid
  PROVE  /\ Covers(Append(merged, range), index) <=> Covers(merged, index) \/ Between(range, index)
         /\ Takes(Append(merged, range), index) <=> Takes(merged, index) \/ TakenBy(range, index)
<1> DEFINE n == Len(merged)
           new == Append(merged, range)
<1>1. /\ n \in Nat /\ DOMAIN new = 1 .. n + 1 /\ DOMAIN merged = 1 .. n
      /\ \A i \in 1 .. n : new[i] = merged[i]
      /\ new[n + 1] = range
  OBVIOUS
<1> HIDE DEF n, new
<1>2. \A i \in 1 .. n + 1 : i \in 1 .. n \/ i = n + 1
  BY <1>1
<1>3. Covers(new, index) <=> Covers(merged, index) \/ Between(range, index)
  BY <1>1, <1>2 DEF Covers
<1>4. Takes(new, index) <=> Takes(merged, index) \/ TakenBy(range, index)
  BY <1>1, <1>2 DEF Takes
<1> QED
  BY <1>3, <1>4 DEF new

\* A range in the place of the last one.
LEMMA OneReplaced ==
  ASSUME NEW merged \in Seq(OidRange), merged # <<>>, NEW new \in OidRange,
         NEW range \in OidRange, NEW index \in Oid
  PROVE  /\ (Between(new, index) <=> Between(Last(merged), index) \/ Between(range, index))
              => (Covers(Append(Front(merged), new), index)
                    <=> Covers(merged, index) \/ Between(range, index))
         /\ (TakenBy(new, index) <=> TakenBy(Last(merged), index) \/ TakenBy(range, index))
              => (Takes(Append(Front(merged), new), index)
                    <=> Takes(merged, index) \/ TakenBy(range, index))
<1> DEFINE n == Len(merged)
           replaced == Append(Front(merged), new)
<1>1. /\ n \in Nat \ {0} /\ DOMAIN replaced = 1 .. n /\ DOMAIN merged = 1 .. n
      /\ \A i \in 1 .. n - 1 : replaced[i] = merged[i]
      /\ replaced[n] = new /\ Last(merged) = merged[n]
  BY BackReplaced DEF Last
<1> HIDE DEF n, replaced
<1>2. n \in 1 .. n /\ \A i \in 1 .. n : i \in 1 .. n - 1 \/ i = n
  BY <1>1
<1>3. (Between(new, index) <=> Between(Last(merged), index) \/ Between(range, index))
        => (Covers(replaced, index) <=> Covers(merged, index) \/ Between(range, index))
  BY <1>1, <1>2 DEF Covers
<1>4. (TakenBy(new, index) <=> TakenBy(Last(merged), index) \/ TakenBy(range, index))
        => (Takes(replaced, index) <=> Takes(merged, index) \/ TakenBy(range, index))
  BY <1>1, <1>2 DEF Takes
<1> QED
  BY <1>3, <1>4 DEF replaced

\* One pass of the loop.
LEMMA MergeStep ==
  ASSUME NEW sorted \in Seq(OidRange), SortedSeq(sorted),
         \A k \in DOMAIN sorted : Ordered(sorted[k]),
         NEW n \in 1 .. Len(sorted), NEW merged \in Seq(OidRange),
         MergedUpTo(sorted, n - 1, merged)
  PROVE  MergedUpTo(sorted, n, MergeRange(merged, sorted[n]))
<1> DEFINE range == sorted[n]
           back == Last(merged)
           seen == SubSeq(sorted, 1, n)
           before == SubSeq(sorted, 1, n - 1)
<1>1. /\ Len(sorted) \in Nat /\ n \in Nat \ {0} /\ DOMAIN sorted = 1 .. Len(sorted)
      /\ n - 1 \in Nat /\ \A k \in 1 .. n : k \in DOMAIN sorted /\ sorted[k] \in OidRange
      /\ Ordered(range) /\ range \in OidRange /\ range.start \in Oid /\ range.stop \in Oid
      /\ \A k \in 1 .. n - 1 : k \in 1 .. n /\ k < n
  <2>1. /\ Len(sorted) \in Nat /\ n \in Nat \ {0} /\ DOMAIN sorted = 1 .. Len(sorted)
        /\ n - 1 \in Nat /\ \A k \in 1 .. n : k \in DOMAIN sorted
        /\ \A k \in 1 .. n - 1 : k \in 1 .. n /\ k < n
    OBVIOUS
  <2>2. \A k \in DOMAIN sorted : sorted[k] \in OidRange
    OBVIOUS
  <2>3. Ordered(range) /\ range \in OidRange
    BY <2>1, <2>2
  <2>4. range.start \in Oid /\ range.stop \in Oid
    BY <2>3 DEF OidRange
  <2> QED
    BY <2>1, <2>2, <2>3, <2>4
<1>2. ASSUME NEW index \in Oid
      PROVE  /\ Covers(seen, index) <=> Covers(before, index) \/ Between(range, index)
             /\ Takes(seen, index) <=> Takes(before, index) \/ TakenBy(range, index)
  BY OneMore
<1>3. /\ merged = <<>> <=> n = 1
      /\ \A i \in DOMAIN merged :
           Ordered(merged[i]) /\ \E k \in 1 .. n - 1 : merged[i].stop = sorted[k].stop
      /\ InOrder(merged)
      /\ merged # <<>> => \E k \in 1 .. n - 1 : /\ back.start = sorted[k].start
                                                /\ StopLE(sorted[k].stop, back.stop)
      /\ \A index \in Oid : Covers(merged, index) <=> Covers(before, index)
      /\ ~NestedStops(sorted) => \A index \in Oid : Takes(merged, index) <=> Takes(before, index)
  BY <1>1 DEF MergedUpTo
<1>4. /\ \A index \in Oid : Covers(<<>>, index) <=> FALSE
      /\ \A index \in Oid : Takes(<<>>, index) <=> FALSE
  BY DEF Covers, Takes
<1>5. StopLE(range.stop, range.stop)
  BY <1>1, OidOrder DEF StopLE
<1> HIDE DEF seen, before
<1>6. CASE merged = <<>>
  <2>1. MergeRange(merged, range) = <<range>> /\ <<range>> = Append(merged, range)
    BY <1>6 DEF MergeRange
  <2>2. /\ DOMAIN <<range>> = {1} /\ <<range>>[1] = range /\ Last(<<range>>) = range
        /\ n \in 1 .. n /\ <<range>> # <<>>
    BY <1>1 DEF Last
  <2>3. ASSUME NEW index \in Oid
        PROVE  /\ Covers(<<range>>, index) <=> Covers(merged, index) \/ Between(range, index)
               /\ Takes(<<range>>, index) <=> Takes(merged, index) \/ TakenBy(range, index)
    <3>1. /\ Covers(Append(merged, range), index)
                <=> Covers(merged, index) \/ Between(range, index)
          /\ Takes(Append(merged, range), index)
                <=> Takes(merged, index) \/ TakenBy(range, index)
      BY <1>1, OneBehind
    <3> QED
      BY <2>1, <3>1
  <2>4. InOrder(<<range>>)
    BY <2>2 DEF InOrder
  <2> QED
    BY <1>1, <1>2, <1>3, <1>5, <2>1, <2>2, <2>3, <2>4 DEF MergedUpTo, seen
<1>7. CASE merged # <<>>
  <2>1. /\ back \in OidRange /\ back.start \in Oid /\ back.stop \in Oid
        /\ Len(merged) \in Nat \ {0} /\ DOMAIN merged = 1 .. Len(merged)
        /\ Len(merged) \in DOMAIN merged /\ back = merged[Len(merged)] /\ Ordered(back)
    <3>1. Len(merged) \in Nat \ {0} /\ DOMAIN merged = 1 .. Len(merged)
      BY <1>7
    <3>2. Len(merged) \in DOMAIN merged /\ back = merged[Len(merged)]
      BY <3>1 DEF Last
    <3>3. back \in OidRange
      BY <3>2
    <3>4. back.start \in Oid /\ back.stop \in Oid
      BY <3>3 DEF OidRange
    <3> QED
      BY <1>3, <3>1, <3>2, <3>3, <3>4
  <2>2. PICK k \in 1 .. n - 1 : back.start = sorted[k].start /\ StopLE(sorted[k].stop, back.stop)
    BY <1>3, <1>7
  <2>3. RangeLT(sorted[k], range) /\ sorted[k] \in OidRange /\ sorted[k].stop \in Oid
    BY <1>1 DEF SortedSeq, OidRange
  <2>4. OidLE(back.start, range.start) /\ (back.start = range.start => StopLE(range.stop, back.stop))
    BY <1>1, <2>1, <2>2, <2>3, LargerFirst, OidOrder DEF StopLE
  <2>5. PICK l \in 1 .. n - 1 : back.stop = sorted[l].stop
    BY <1>3, <2>1
  <2>6. ~NestedStops(sorted) => Apart(back.stop, range.stop) /\ Apart(range.stop, back.stop)
    BY <1>1, <2>5 DEF NestedStops, Apart
  <2> HIDE DEF back, range
  <2>7. CASE back.stop = <<>> \/ back.start = range.start
    <3>1. MergeRange(merged, range) = merged
      BY <1>7, <2>7 DEF MergeRange, back
    <3>2. StopLE(range.stop, back.stop)
      BY <2>4, <2>7 DEF StopLE
    <3>3. ASSUME NEW index \in Oid
          PROVE  /\ Between(range, index) => Between(back, index)
                 /\ ~NestedStops(sorted) /\ TakenBy(range, index) => TakenBy(back, index)
      BY <1>1, <2>1, <2>4, <2>6, <3>2, Swallowed
    <3>4. ASSUME NEW index \in Oid
          PROVE  /\ Covers(merged, index) <=> Covers(seen, index)
                 /\ ~NestedStops(sorted) => (Takes(merged, index) <=> Takes(seen, index))
      <4>1. /\ Between(back, index) => Covers(merged, index)
            /\ TakenBy(back, index) => Takes(merged, index)
        BY <2>1 DEF Covers, Takes
      <4> QED
        BY <1>2, <1>3, <3>3, <4>1
    <3> QED
      BY <1>1, <1>3, <1>7, <3>1, <3>4 DEF MergedUpTo, seen, back, range
  <2>8. CASE /\ ~(back.stop = <<>> \/ back.start = range.start)
             /\ OidLE(range.start, back.stop)
    <3> DEFINE joined == Joined(back, range)
               new == Append(Front(merged), joined)
    <3>1. MergeRange(merged, range) = new
      BY <1>7, <2>8 DEF MergeRange, back, Joined
    <3>2. /\ joined \in OidRange /\ Ordered(joined)
          /\ joined.start = back.start /\ joined.stop \in {back.stop, range.stop}
          /\ StopLE(back.stop, joined.stop)
      <4>1. joined \in OidRange /\ Ordered(joined)
        BY <1>1, <2>1, <2>4, <2>8, OidOrder, JoinedRange
      <4>2. /\ LaterStop(back.stop, range.stop) \in {back.stop, range.stop}
            /\ StopLE(back.stop, LaterStop(back.stop, range.stop))
        BY <1>1, <2>1, <2>8, LaterStopIsLater
      <4> QED
        BY <4>1, <4>2 DEF Joined
    <3>3. ASSUME NEW index \in Oid
          PROVE  /\ Between(joined, index) <=> Between(back, index) \/ Between(range, index)
                 /\ ~NestedStops(sorted) =>
                      (TakenBy(joined, index) <=> TakenBy(back, index) \/ TakenBy(range, index))
      BY <1>1, <2>1, <2>4, <2>6, <2>8, JoinedRange
    <3> HIDE DEF joined
    <3>4. /\ new \in Seq(OidRange) /\ Len(new) = Len(merged) /\ DOMAIN new = 1 .. Len(merged)
          /\ \A i \in 1 .. Len(merged) - 1 : new[i] = merged[i]
          /\ new[Len(merged)] = joined
      BY <1>7, <3>2, BackReplaced
    <3>5. ASSUME NEW index \in Oid
          PROVE  /\ Covers(new, index) <=> Covers(seen, index)
                 /\ ~NestedStops(sorted) => (Takes(new, index) <=> Takes(seen, index))
      <4>1. /\ Covers(new, index) <=> Covers(merged, index) \/ Between(range, index)
            /\ ~NestedStops(sorted) =>
                 (Takes(new, index) <=> Takes(merged, index) \/ TakenBy(range, index))
        BY <1>1, <1>7, <3>2, <3>3, OneReplaced DEF back
      <4> QED
        BY <1>2, <1>3, <4>1
    <3> HIDE DEF new
    <3>6. new # <<>> /\ Last(new) = joined
      BY <2>1, <3>4 DEF Last
    <3>7. ASSUME NEW i \in DOMAIN new
          PROVE  Ordered(new[i]) /\ \E j \in 1 .. n : new[i].stop = sorted[j].stop
      <4>1. CASE i = Len(merged)
        <5>1. n \in 1 .. n /\ l \in 1 .. n /\ range = sorted[n]
          BY <1>1 DEF range
        <5> QED
          BY <2>5, <3>2, <3>4, <4>1, <5>1
      <4>2. CASE i # Len(merged)
        <5>1. i \in 1 .. Len(merged) - 1 /\ i \in DOMAIN merged
          BY <2>1, <3>4, <4>2
        <5> QED
          BY <1>1, <1>3, <3>4, <5>1
      <4> QED
        BY <4>1, <4>2
    <3>8. InOrder(new)
      <4> SUFFICES ASSUME NEW i \in DOMAIN new, NEW j \in DOMAIN new, i < j
                   PROVE  new[i].stop # <<>> /\ OidLT(new[i].stop, new[j].start)
        BY DEF InOrder
      <4>1. i \in 1 .. Len(merged) - 1 /\ i \in DOMAIN merged /\ j \in DOMAIN merged
        BY <2>1, <3>4
      <4>2. new[j].start = merged[j].start
        <5>1. j \in 1 .. Len(merged) - 1 \/ j = Len(merged)
          BY <2>1, <4>1
        <5> QED
          BY <2>1, <3>2, <3>4, <5>1
      <4> QED
        BY <1>3, <3>4, <4>1, <4>2 DEF InOrder
    <3>9. \E j \in 1 .. n : Last(new).start = sorted[j].start /\ StopLE(sorted[j].stop, Last(new).stop)
      <4>1. k \in 1 .. n
        BY <1>1
      <4>2. joined.stop \in Oid
        BY <3>2 DEF OidRange
      <4>3. StopLE(sorted[k].stop, joined.stop)
        BY <2>1, <2>2, <2>3, <3>2, <4>2, OidOrder DEF StopLE
      <4> QED
        BY <2>2, <3>2, <3>6, <4>1, <4>3
    <3> QED
      BY <1>1, <3>1, <3>5, <3>6, <3>7, <3>8, <3>9 DEF MergedUpTo, seen, range
  <2>9. CASE /\ ~(back.stop = <<>> \/ back.start = range.start)
             /\ ~OidLE(range.start, back.stop)
    <3> DEFINE new == Append(merged, range)
    <3>1. MergeRange(merged, range) = new
      BY <1>7, <2>9 DEF MergeRange, back
    <3>2. /\ new \in Seq(OidRange) /\ DOMAIN new = 1 .. Len(merged) + 1
          /\ \A i \in 1 .. Len(merged) : new[i] = merged[i]
          /\ new[Len(merged) + 1] = range /\ Len(new) = Len(merged) + 1
      BY <1>1, <2>1
    <3>3. ASSUME NEW index \in Oid
          PROVE  /\ Covers(new, index) <=> Covers(seen, index)
                 /\ ~NestedStops(sorted) => (Takes(new, index) <=> Takes(seen, index))
      BY <1>1, <1>2, <1>3, OneBehind
    <3> HIDE DEF new
    <3>4. new # <<>> /\ Last(new) = range
      BY <2>1, <3>2 DEF Last
    <3>5. n \in 1 .. n /\ range = sorted[n]
      BY <1>1 DEF range
    <3>6. ASSUME NEW i \in DOMAIN new
          PROVE  Ordered(new[i]) /\ \E j \in 1 .. n : new[i].stop = sorted[j].stop
      <4>1. i = Len(merged) + 1 \/ (i \in DOMAIN merged /\ i \in 1 .. Len(merged))
        BY <2>1, <3>2
      <4>2. CASE i = Len(merged) + 1
        BY <1>1, <3>2, <3>5, <4>2
      <4>3. CASE i \in DOMAIN merged /\ i \in 1 .. Len(merged)
        <5>1. PICK j \in 1 .. n - 1 : merged[i].stop = sorted[j].stop
          BY <1>3, <4>3
        <5>2. new[i] = merged[i] /\ Ordered(merged[i]) /\ j \in 1 .. n
          BY <1>1, <1>3, <3>2, <4>3
        <5> QED
          BY <5>1, <5>2
      <4> QED
        BY <4>1, <4>2, <4>3
    <3>7. OidLT(back.stop, range.start)
      BY <1>1, <2>1, <2>9, OidOrder
    <3>8. InOrder(new)
      <4> SUFFICES ASSUME NEW i \in DOMAIN new, NEW j \in DOMAIN new, i < j
                   PROVE  new[i].stop # <<>> /\ OidLT(new[i].stop, new[j].start)
        BY DEF InOrder
      <4>1. i \in 1 .. Len(merged) /\ i \in DOMAIN merged /\ new[i] = merged[i]
        BY <2>1, <3>2
      <4>2. CASE j \in 1 .. Len(merged)
        BY <1>3, <2>1, <3>2, <4>1, <4>2 DEF InOrder
      <4>3. CASE j = Len(merged) + 1 /\ i = Len(merged)
        BY <2>1, <2>9, <3>2, <3>7, <4>1, <4>3
      <4>4. CASE j = Len(merged) + 1 /\ i < Len(merged)
        <5>1. merged[i].stop # <<>> /\ OidLT(merged[i].stop, back.start) /\ merged[i].stop \in Oid
          <6>1. Len(merged) \in DOMAIN merged /\ back = merged[Len(merged)]
            BY <2>1
          <6>2. merged[i] \in OidRange
            BY <4>1
          <6>3. merged[i].stop \in Oid
            BY <6>2 DEF OidRange
          <6> QED
            BY <1>3, <4>1, <4>4, <6>1, <6>3 DEF InOrder
        <5>2. OidLT(merged[i].stop, range.start)
          BY <1>1, <2>1, <2>4, <5>1, OidOrder
        <5> QED
          BY <3>2, <4>1, <4>4, <5>1, <5>2
      <4> QED
        BY <2>1, <3>2, <4>1, <4>2, <4>3, <4>4
    <3> QED
      BY <1>1, <1>5, <3>1, <3>3, <3>4, <3>5, <3>6, <3>8 DEF MergedUpTo, seen, range
  <2> QED
    BY <2>7, <2>8, <2>9 DEF range
<1> QED
  BY <1>6, <1>7

--------------------------------------------------------------------------------
(* optimize_ranges *)

LEMMA MergeRangeType ==
  ASSUME NEW merged \in Seq(OidRange), NEW range \in OidRange
  PROVE  MergeRange(merged, range) \in Seq(OidRange)
<1>1. CASE merged = <<>>
  BY <1>1 DEF MergeRange
<1>2. CASE merged # <<>>
  <2> DEFINE back == Last(merged)
             joined == [start |-> back.start, stop |-> LaterStop(back.stop, range.stop)]
  <2>1. back \in OidRange
    BY <1>2 DEF Last
  <2>2. back.start \in Oid /\ back.stop \in Oid /\ range.stop \in Oid
    BY <2>1 DEF OidRange
  <2>3. joined \in OidRange
    BY <2>2 DEF LaterStop, OidRange
  <2>4. Append(Front(merged), joined) \in Seq(OidRange)
    BY <1>2, <2>3, BackReplaced
  <2> QED
    BY <1>2, <2>4 DEF MergeRange
<1> QED
  BY <1>1, <1>2

\* What depends on the ranges of a sequence, not on their order.
LEMMA AnyOrder ==
  ASSUME NEW a \in Seq(OidRange), NEW b \in Seq(OidRange), ToSet(a) = ToSet(b)
  PROVE  /\ a = <<>> <=> b = <<>>
         /\ \A index \in Oid : /\ Covers(a, index) <=> Covers(b, index)
                               /\ Takes(a, index) <=> Takes(b, index)
         /\ NestedStops(a) <=> NestedStops(b)
         /\ ReversedRange(a) <=> ReversedRange(b)
         /\ \A type : RangesThrow(type, a) <=> RangesThrow(type, b)
<1>1. ASSUME NEW s \in Seq(OidRange)
      PROVE  /\ s = <<>> <=> ToSet(s) = {}
             /\ \A index \in Oid : /\ Covers(s, index) <=> \E x \in ToSet(s) : Between(x, index)
                                   /\ Takes(s, index) <=> \E x \in ToSet(s) : TakenBy(x, index)
             /\ NestedStops(s) <=> \E x, y \in ToSet(s) : /\ x.stop \notin {<<>>, y.stop}
                                                          /\ IsRootOf(x.stop, y.stop)
             /\ ReversedRange(s) <=> \E x \in ToSet(s) : RangeThrows(x.start, x.stop)
             /\ \A type : RangesThrow(type, s) <=>
                  type = "GET" /\ \E x \in ToSet(s) : x.start # x.stop \/ x.start = <<>>
  <2>1. s = <<>> <=> ToSet(s) = {}
    <3>1. CASE s = <<>>
      BY <3>1 DEF ToSet
    <3>2. CASE s # <<>>
      <4>1. 1 \in DOMAIN s
        BY <3>2
      <4> QED
        BY <3>2, <4>1 DEF ToSet
    <3> QED
      BY <3>1, <3>2
  <2>2. \A x : x \in ToSet(s) <=> \E i \in DOMAIN s : s[i] = x
    BY DEF ToSet
  <2> QED
    BY <2>1, <2>2 DEF Covers, Takes, NestedStops, ReversedRange, RangesThrow
<1> QED
  BY <1>1

\* Ranges that do not touch are sorted.
LEMMA InOrderSorted ==
  ASSUME NEW ranges \in Seq(OidRange), InOrder(ranges),
         \A i \in DOMAIN ranges : Ordered(ranges[i])
  PROVE  SortedSeq(ranges)
<1> SUFFICES ASSUME NEW i \in DOMAIN ranges, NEW j \in DOMAIN ranges, i < j
             PROVE  RangeLT(ranges[i], ranges[j])
  BY DEF SortedSeq
<1>1. ranges[i] \in OidRange /\ ranges[j] \in OidRange
  OBVIOUS
<1>2. /\ ranges[i].start \in Oid /\ ranges[i].stop \in Oid /\ ranges[j].start \in Oid
      /\ ranges[j].stop \in Oid
  BY <1>1 DEF OidRange
<1>3. ranges[i].stop # <<>> /\ OidLT(ranges[i].stop, ranges[j].start)
  BY DEF InOrder
<1>4. OidLE(ranges[i].start, ranges[i].stop)
  BY <1>1, <1>3, OrderedEnds
<1>5. OidLT(ranges[i].start, ranges[j].start) /\ ranges[j].start # <<>>
  BY <1>2, <1>3, <1>4, OidOrder
<1> QED
  BY <1>5, Zenon DEF RangeLT

\* The loop over the sorted ranges.
LEMMA RangesMerged ==
  ASSUME NEW sorted \in Seq(OidRange), SortedSeq(sorted),
         \A k \in DOMAIN sorted : Ordered(sorted[k])
  PROVE  /\ RangeLoop!Run(<<>>, sorted) \in Seq(OidRange)
         /\ MergedUpTo(sorted, Len(sorted), RangeLoop!Run(<<>>, sorted))
<1> DEFINE A == Seq(OidRange)
           inv == [n \in 0 .. Len(sorted) |-> { merged \in A : MergedUpTo(sorted, n, merged) }]
<1>1. <<>> \in A /\ Len(sorted) \in Nat
  OBVIOUS
<1>2. \A merged \in A, range \in OidRange : MergeRange(merged, range) \in A
  BY MergeRangeType
<1>3. <<>> \in inv[0]
  <2>1. SubSeq(sorted, 1, 0) = <<>> /\ DOMAIN <<>> = {} /\ 0 \in 0 .. Len(sorted)
    BY <1>1
  <2>2. MergedUpTo(sorted, 0, <<>>)
    BY <2>1 DEF MergedUpTo, InOrder
  <2> QED
    BY <1>1, <2>1, <2>2
<1>4. ASSUME NEW i \in 1 .. Len(sorted), NEW merged \in A, merged \in inv[i - 1]
      PROVE  MergeRange(merged, sorted[i]) \in inv[i]
  <2>1. i - 1 \in 0 .. Len(sorted) /\ i \in 0 .. Len(sorted) /\ sorted[i] \in OidRange
    BY <1>1
  <2>2. MergedUpTo(sorted, i - 1, merged)
    BY <1>4, <2>1
  <2>3. MergedUpTo(sorted, i, MergeRange(merged, sorted[i]))
    BY <2>2, MergeStep
  <2>4. MergeRange(merged, sorted[i]) \in A
    BY <1>2, <2>1
  <2> HIDE DEF A
  <2> QED
    BY <2>1, <2>3, <2>4
<1>5. inv[Len(sorted)] = { merged \in A : MergedUpTo(sorted, Len(sorted), merged) }
  BY <1>1
<1> HIDE DEF inv, A
<1>6. \A i \in 1 .. Len(sorted), merged \in A :
        merged \in inv[i - 1] => MergeRange(merged, sorted[i]) \in inv[i]
  BY <1>4
<1>7. /\ <<>> \in inv[0]
      /\ \A i \in 1 .. Len(sorted), merged \in A :
           merged \in inv[i - 1] => MergeRange(merged, sorted[i]) \in inv[i]
      => MergeProofs!Run(<<>>, sorted) \in inv[Len(sorted)]
  BY <1>1, <1>2, MergeProofs!RunInvariantAt
<1>8. RangeLoop!Run(<<>>, sorted) \in inv[Len(sorted)]
  BY <1>3, <1>6, <1>7 DEF RangeLoop!Run, MergeProofs!Run
<1> QED
  BY <1>5, <1>8 DEF A

\* The loop leaves ranges alone that come in order and do not touch.
LEMMA MergedStay ==
  ASSUME NEW ranges \in Seq(OidRange), InOrder(ranges),
         \A i \in DOMAIN ranges : Ordered(ranges[i])
  PROVE  RangeLoop!Run(<<>>, ranges) = ranges
<1> DEFINE A == Seq(OidRange)
           inv == [n \in 0 .. Len(ranges) |-> {SubSeq(ranges, 1, n)}]
<1>1. /\ <<>> \in A /\ Len(ranges) \in Nat
      /\ SubSeq(ranges, 1, 0) = <<>> /\ SubSeq(ranges, 1, Len(ranges)) = ranges
  OBVIOUS
<1>2. \A merged \in A, range \in OidRange : MergeRange(merged, range) \in A
  BY MergeRangeType
<1>3. <<>> \in inv[0] /\ inv[Len(ranges)] = {ranges}
  BY <1>1
<1>4. ASSUME NEW i \in 1 .. Len(ranges), NEW merged \in A, merged \in inv[i - 1]
      PROVE  MergeRange(merged, ranges[i]) \in inv[i]
  <2>1. /\ i \in Nat \ {0} /\ i - 1 \in 0 .. Len(ranges) /\ i \in 0 .. Len(ranges)
        /\ i \in DOMAIN ranges /\ ranges[i] \in OidRange
    BY <1>1
  <2>2. merged = SubSeq(ranges, 1, i - 1)
    BY <1>4, <2>1
  <2>3. Append(merged, ranges[i]) = SubSeq(ranges, 1, i)
    BY <2>1, <2>2
  <2>4. MergeRange(merged, ranges[i]) = Append(merged, ranges[i])
    <3>1. CASE i = 1
      <4>1. merged = <<>>
        BY <1>1, <2>2, <3>1
      <4> QED
        BY <4>1 DEF MergeRange
    <3>2. CASE i # 1
      <4> DEFINE back == ranges[i - 1]
      <4>1. /\ i - 1 \in DOMAIN ranges /\ i - 1 < i
            /\ merged # <<>> /\ Last(merged) = back
        BY <1>1, <2>1, <2>2, <3>2 DEF Last
      <4>2. back \in OidRange /\ Ordered(back)
        BY <4>1
      <4>3. back.stop # <<>> /\ OidLT(back.stop, ranges[i].start)
        BY <2>1, <4>1 DEF InOrder
      <4>4. back.start \in Oid /\ back.stop \in Oid /\ ranges[i].start \in Oid
        BY <2>1, <4>2 DEF OidRange
      <4>5. OidLE(back.start, back.stop)
        BY <4>2, <4>3, OrderedEnds
      <4>6. back.start # ranges[i].start /\ ~OidLE(ranges[i].start, back.stop)
        BY <4>3, <4>4, <4>5, OidOrder
      <4> HIDE DEF back
      <4> QED
        BY <4>1, <4>3, <4>6 DEF MergeRange
    <3> QED
      BY <3>1, <3>2
  <2> QED
    BY <2>1, <2>3, <2>4
<1> HIDE DEF inv, A
<1>6. \A i \in 1 .. Len(ranges), merged \in A :
        merged \in inv[i - 1] => MergeRange(merged, ranges[i]) \in inv[i]
  BY <1>4
<1>7. /\ <<>> \in inv[0]
      /\ \A i \in 1 .. Len(ranges), merged \in A :
           merged \in inv[i - 1] => MergeRange(merged, ranges[i]) \in inv[i]
      => MergeProofs!Run(<<>>, ranges) \in inv[Len(ranges)]
  BY <1>1, <1>2, MergeProofs!RunInvariantAt DEF A
<1>8. RangeLoop!Run(<<>>, ranges) \in inv[Len(ranges)]
  BY <1>3, <1>6, <1>7 DEF RangeLoop!Run, MergeProofs!Run
<1> QED
  BY <1>3, <1>8

\* What is sorted stays as it is.
LEMMA SortedStay ==
  ASSUME NEW ranges \in Seq(OidRange), SortedSeq(ranges)
  PROVE  SortedRanges(ranges) = ranges
BY SortedRangesSorted, SortedUnique

\* The range without bounds restricts nothing.
LEMMA EverythingIs ==
  /\ Everything \in OidRange
  /\ \A index \in Oid : Between(Everything, index) /\ TakenBy(Everything, index)
BY OidOrder, EmptyRoot DEF Everything, OidRange, Between, TakenBy

\* The ranges of a walk, optimized.
LEMMA WalkRanges ==
  ASSUME NEW ranges \in Seq(OidRange), ~ReversedRange(ranges)
  PROVE  LET optimized == OptimizeRanges("WALK", ranges)
         IN  /\ optimized \in Seq(OidRange)
             /\ ~ReversedRange(optimized)
             /\ InOrder(optimized)
             /\ \A index \in Oid : (ranges = <<>> \/ Covers(ranges, index))
                                     <=> (optimized = <<>> \/ Covers(optimized, index))
             /\ ~NestedStops(ranges) =>
                  \A index \in Oid : (ranges = <<>> \/ Takes(ranges, index))
                                       <=> (optimized = <<>> \/ Takes(optimized, index))
             /\ OptimizeRanges("WALK", optimized) = optimized
<1> DEFINE sorted == SortedRanges(ranges)
           merged == RangeLoop!Run(<<>>, sorted)
           optimized == OptimizeRanges("WALK", ranges)
<1>1. sorted \in Seq(OidRange) /\ SortedSeq(sorted) /\ ToSet(sorted) = ToSet(ranges)
  BY SortedRangesSorted
<1> HIDE DEF sorted
<1>2. ~ReversedRange(sorted)
  BY <1>1, AnyOrder
<1>3. \A k \in DOMAIN sorted : Ordered(sorted[k])
  BY <1>2 DEF ReversedRange, Ordered
<1>4. merged \in Seq(OidRange) /\ MergedUpTo(sorted, Len(sorted), merged)
  BY <1>1, <1>3, RangesMerged
<1> HIDE DEF merged
<1>5. SubSeq(sorted, 1, Len(sorted)) = sorted /\ (sorted = <<>> <=> Len(sorted) = 0)
  BY <1>1
<1>6. /\ merged = <<>> <=> sorted = <<>>
      /\ \A i \in DOMAIN merged : Ordered(merged[i])
      /\ InOrder(merged)
      /\ \A index \in Oid : Covers(merged, index) <=> Covers(sorted, index)
      /\ ~NestedStops(sorted) => \A index \in Oid : Takes(merged, index) <=> Takes(sorted, index)
  BY <1>4, <1>5 DEF MergedUpTo
<1>7. CASE ranges = <<>>
  <2>1. sorted = <<>>
    BY <1>1, <1>7, AnyOrder
  <2>2. optimized = <<>>
    BY <1>7, <2>1 DEF OptimizeRanges, sorted
  <2>3. OptimizeRanges("WALK", <<>>) = <<>>
    BY <1>7, <2>2
  <2>4. <<>> \in Seq(OidRange) /\ DOMAIN <<>> = {}
    OBVIOUS
  <2> HIDE DEF optimized
  <2>5. ~ReversedRange(optimized) /\ InOrder(optimized)
    BY <2>2, <2>4 DEF ReversedRange, InOrder
  <2> QED
    BY <1>7, <2>2, <2>3, <2>4, <2>5 DEF optimized
<1>8. CASE ranges # <<>>
  <2>1. sorted # <<>> /\ merged # <<>>
    BY <1>1, <1>6, <1>8, AnyOrder
  <2>2. Head(merged) = merged[1] /\ 1 \in DOMAIN merged
    BY <1>4, <2>1
  <2>3. optimized = IF Head(merged) = Everything THEN <<>> ELSE merged
    BY <1>8 DEF OptimizeRanges, sorted, merged
  <2> HIDE DEF optimized
  <2>4. /\ \A index \in Oid : Covers(ranges, index) <=> Covers(merged, index)
        /\ ~NestedStops(ranges) => \A index \in Oid : Takes(ranges, index) <=> Takes(merged, index)
    BY <1>1, <1>6, AnyOrder
  <2>5. CASE Head(merged) = Everything
    <3>1. optimized = <<>> /\ <<>> \in Seq(OidRange) /\ DOMAIN <<>> = {}
      BY <2>3, <2>5
    <3>2. ~ReversedRange(optimized) /\ InOrder(optimized)
      BY <3>1 DEF ReversedRange, InOrder
    <3>3. \A index \in Oid : Covers(merged, index) /\ Takes(merged, index)
      BY <2>2, <2>5, EverythingIs DEF Covers, Takes
    <3>4. OptimizeRanges("WALK", <<>>) = <<>>
      <4>1. SortedSeq(<<>>)
        BY <3>1 DEF SortedSeq
      <4>2. SortedRanges(<<>>) = <<>>
        BY <3>1, <4>1, SortedStay
      <4> QED
        BY <4>2 DEF OptimizeRanges
    <3> QED
      BY <2>4, <3>1, <3>2, <3>3, <3>4 DEF optimized
  <2>6. CASE Head(merged) # Everything
    <3>1. optimized = merged
      BY <2>3, <2>6
    <3>2. ~ReversedRange(merged)
      BY <1>6 DEF ReversedRange, Ordered
    <3>3. SortedRanges(merged) = merged /\ RangeLoop!Run(<<>>, merged) = merged
      BY <1>4, <1>6, InOrderSorted, SortedStay, MergedStay
    <3>4. OptimizeRanges("WALK", merged) = merged
      BY <2>1, <2>6, <3>3 DEF OptimizeRanges
    <3> QED
      BY <1>4, <1>6, <1>8, <2>1, <2>4, <3>1, <3>2, <3>4 DEF optimized
  <2> QED
    BY <2>5, <2>6
<1> QED
  BY <1>7, <1>8

\* The ranges of a get: sorted, each once.
LEMMA GetRanges ==
  ASSUME NEW ranges \in Seq(OidRange)
  PROVE  LET optimized == OptimizeRanges("GET", ranges)
         IN  /\ optimized \in Seq(OidRange)
             /\ ToSet(optimized) = ToSet(ranges)
             /\ OptimizeRanges("GET", optimized) = optimized
<1>1. \A r : OptimizeRanges("GET", r) = SortedRanges(r)
  BY DEF OptimizeRanges
<1> QED
  BY <1>1, SortedRangesSorted, SortedStay

--------------------------------------------------------------------------------
(* OIDs written and read *)

LEMMA SomeNumber ==
  /\ None \in Optional(Nat)
  /\ \A x \in Nat : Some(x) \in Optional(Nat)
BY DEF Optional, None, Some

LEMMA AppendPartType ==
  ASSUME NEW arcs \in Oid, NEW part \in Optional(Nat)
  PROVE  AppendPart(arcs, part) \in Oid
BY DEF AppendPart, Oid, Optional, None

LEMMA AppendArc ==
  ASSUME NEW oid \in Oid, NEW i \in 1 .. Len(oid)
  PROVE  AppendPart(SubSeq(oid, 1, i - 1), Some(oid[i])) = SubSeq(oid, 1, i)
<1>1. Some(oid[i]) # None /\ Some(oid[i])[1] = oid[i]
  BY DEF Some, None
<1>2. Append(SubSeq(oid, 1, i - 1), oid[i]) = SubSeq(oid, 1, i)
  BY DEF Oid
<1> QED
  BY <1>1, <1>2 DEF AppendPart

\* The parts of a text without the leading dot.
LEMMA UndottedRead ==
  ASSUME NEW oid \in Oid
  PROVE  PartLoop!Run(<<>>, [i \in DOMAIN oid |-> Some(oid[i])]) = oid
<1> DEFINE text == [i \in DOMAIN oid |-> Some(oid[i])]
           inv == [i \in 0 .. Len(oid) |-> {SubSeq(oid, 1, i)}]
<1>1. text \in Seq(Optional(Nat)) /\ Len(text) = Len(oid) /\ Len(oid) \in Nat
  BY SomeNumber DEF Oid
<1>2. \A i \in 1 .. Len(oid) : text[i] = Some(oid[i])
  BY DEF Oid
<1>3. <<>> \in Oid /\ SubSeq(oid, 1, 0) = <<>> /\ SubSeq(oid, 1, Len(oid)) = oid
  BY DEF Oid
<1>4. \A a \in Oid, part \in Optional(Nat) : AppendPart(a, part) \in Oid
  BY AppendPartType
<1>5. ASSUME NEW i \in 1 .. Len(text), NEW a \in Oid, a \in inv[i - 1]
      PROVE  AppendPart(a, text[i]) \in inv[i]
  <2>1. i \in 1 .. Len(oid) /\ i - 1 \in 0 .. Len(oid) /\ i \in 0 .. Len(oid)
    BY <1>1
  <2>2. a = SubSeq(oid, 1, i - 1)
    BY <1>5, <2>1
  <2>3. AppendPart(a, text[i]) = SubSeq(oid, 1, i)
    BY <1>2, <2>1, <2>2, AppendArc
  <2> QED
    BY <2>1, <2>3
<1>6. <<>> \in inv[0]
  BY <1>1, <1>3
<1>7. inv[Len(text)] = {oid}
  BY <1>1, <1>3
<1> HIDE DEF text, inv
<1>8. \A i \in 1 .. Len(text), a \in Oid : a \in inv[i - 1] => AppendPart(a, text[i]) \in inv[i]
  BY <1>5
<1>9. /\ <<>> \in inv[0]
      /\ \A i \in 1 .. Len(text), a \in Oid : a \in inv[i - 1] => AppendPart(a, text[i]) \in inv[i]
      => PartProofs!Run(<<>>, text) \in inv[Len(text)]
  BY <1>1, <1>3, <1>4, PartProofs!RunInvariantAt
<1> QED
  BY <1>6, <1>7, <1>8, <1>9 DEF text, PartLoop!Run, PartProofs!Run

\* The parts of what str() prints.
LEMMA PrintedRead ==
  ASSUME NEW oid \in Oid
  PROVE  PartLoop!Run(<<>>, OidToString(oid)) = oid
<1> DEFINE text == OidToString(oid)
           inv == [i \in 0 .. Len(oid) + 1 |-> IF i = 0 THEN {<<>>} ELSE {SubSeq(oid, 1, i - 1)}]
<1> DEFINE arcs == [i \in DOMAIN oid |-> Some(oid[i])]
<1>0. arcs \in Seq(Optional(Nat)) /\ Len(arcs) = Len(oid) /\ Len(oid) \in Nat
      /\ \A i \in 1 .. Len(oid) : arcs[i] = Some(oid[i])
  BY SomeNumber DEF Oid
<1>1. text \in Seq(Optional(Nat)) /\ Len(text) = Len(oid) + 1 /\ Len(oid) \in Nat
  <2>1. text = <<None>> \o arcs /\ <<None>> \in Seq(Optional(Nat)) /\ Len(<<None>>) = 1
    BY SomeNumber DEF OidToString
  <2> HIDE DEF text, arcs
  <2> QED
    BY <1>0, <2>1
<1>2. text[1] = None /\ \A i \in 1 .. Len(oid) : text[i + 1] = Some(oid[i])
  <2>1. text = <<None>> \o arcs /\ Len(<<None>>) = 1 /\ <<None>>[1] = None
    BY DEF OidToString
  <2> HIDE DEF text, arcs
  <2> QED
    BY <1>0, <2>1
<1>3. <<>> \in Oid /\ SubSeq(oid, 1, 0) = <<>> /\ SubSeq(oid, 1, Len(oid)) = oid
  BY DEF Oid
<1>4. \A a \in Oid, part \in Optional(Nat) : AppendPart(a, part) \in Oid
  BY AppendPartType
<1>5. ASSUME NEW i \in 1 .. Len(text), NEW a \in Oid, a \in inv[i - 1]
      PROVE  AppendPart(a, text[i]) \in inv[i]
  <2>1. CASE i = 1
    <3>1. a = <<>> /\ inv[1] = {<<>>}
      <4>1. 0 \in 0 .. Len(oid) + 1 /\ 1 \in 0 .. Len(oid) + 1 /\ i - 1 = 0 /\ 1 - 1 = 0
        BY <1>1, <2>1
      <4>2. inv[0] = {<<>>} /\ inv[1] = {SubSeq(oid, 1, 0)}
        BY <4>1
      <4> QED
        BY <1>3, <1>5, <4>1, <4>2
    <3>2. AppendPart(a, text[i]) = <<>>
      BY <1>2, <2>1, <3>1 DEF AppendPart
    <3> QED
      BY <2>1, <3>1, <3>2
  <2>2. CASE i # 1
    <3>1. /\ i - 1 \in 1 .. Len(oid) /\ i - 1 \in 0 .. Len(oid) + 1
          /\ i \in 0 .. Len(oid) + 1 /\ i # 0 /\ i - 1 # 0 /\ (i - 1) + 1 = i
      BY <1>1, <2>2
    <3>2. a = SubSeq(oid, 1, (i - 1) - 1) /\ inv[i] = {SubSeq(oid, 1, i - 1)}
      BY <1>5, <3>1
    <3>3. text[i] = Some(oid[i - 1])
      BY <1>2, <3>1
    <3>4. AppendPart(a, text[i]) = SubSeq(oid, 1, i - 1)
      BY <3>1, <3>2, <3>3, AppendArc
    <3> QED
      BY <3>2, <3>4
  <2> QED
    BY <2>1, <2>2
<1>6. <<>> \in inv[0]
  BY <1>1
<1>7. inv[Len(text)] = {oid}
  BY <1>1, <1>3
<1> HIDE DEF text, inv
<1>8. \A i \in 1 .. Len(text), a \in Oid : a \in inv[i - 1] => AppendPart(a, text[i]) \in inv[i]
  BY <1>5
<1>9. /\ <<>> \in inv[0]
      /\ \A i \in 1 .. Len(text), a \in Oid : a \in inv[i - 1] => AppendPart(a, text[i]) \in inv[i]
      => PartProofs!Run(<<>>, text) \in inv[Len(text)]
  BY <1>1, <1>3, <1>4, PartProofs!RunInvariantAt
<1> QED
  BY <1>6, <1>7, <1>8, <1>9 DEF text, PartLoop!Run, PartProofs!Run

\* The printed text without its leading dot.
LEMMA PartsOfText ==
  ASSUME NEW oid \in Oid
  PROVE  Tail(OidToString(oid)) = [i \in DOMAIN oid |-> Some(oid[i])]
<1> DEFINE arcs == [i \in DOMAIN oid |-> Some(oid[i])]
<1>1. arcs \in Seq(Optional(Nat)) /\ OidToString(oid) = <<None>> \o arcs
  BY SomeNumber DEF Oid, OidToString
<1> HIDE DEF arcs
<1>2. Tail(<<None>> \o arcs) = arcs
  BY <1>1, SomeNumber
<1> QED
  BY <1>1, <1>2 DEF arcs

LEMMA ConstructorRead ==
  ASSUME NEW oid \in Oid, oid # <<>>
  PROVE  Numbers(Undotted(OidToString(oid))) = oid
<1> DEFINE arcs == [i \in DOMAIN oid |-> Some(oid[i])]
<1>1. /\ Len(oid) \in Nat \ {0} /\ DOMAIN arcs = DOMAIN oid
      /\ \A i \in DOMAIN oid : arcs[i][1] = oid[i]
  BY DEF Oid, Some
<1>2. OidToString(oid)[1] = None /\ Len(OidToString(oid)) > 1
  <2>1. arcs \in Seq(Optional(Nat)) /\ Len(arcs) = Len(oid)
    BY SomeNumber DEF Oid
  <2>2. OidToString(oid) = <<None>> \o arcs /\ Len(<<None>>) = 1 /\ <<None>>[1] = None
    BY DEF OidToString
  <2> HIDE DEF arcs
  <2> QED
    BY <1>1, <2>1, <2>2
<1>3. Undotted(OidToString(oid)) = arcs
  BY <1>2, PartsOfText DEF Undotted
<1>4. Numbers(arcs) = [i \in DOMAIN oid |-> oid[i]]
  <2> HIDE DEF arcs
  <2> QED
    BY <1>1 DEF Numbers
<1> QED
  BY <1>3, <1>4 DEF Oid

\* What a caller writes is what is read.
LEMMA OidRead ==
  ASSUME NEW oid \in Oid, NEW style \in Styles
  PROVE  ToObjectIdentity(OidArgument(style, oid)) = oid
<1>1. PartLoop!Run(<<>>, OidToString(oid)) = oid
  BY PrintedRead
<1>2. CASE style \in {"printed", "single"}
  BY <1>1, <1>2 DEF OidArgument, ToObjectIdentity, Argument
<1>3. CASE style = "numbers"
  BY <1>3 DEF OidArgument, ToObjectIdentity, Argument
<1>4. CASE style \in {"undotted", "object"} /\ oid = <<>>
  BY <1>4 DEF OidArgument, ToObjectIdentity, Argument
<1>5. CASE style = "undotted" /\ oid # <<>>
  <2>1. OidArgument(style, oid) = [form |-> "text", value |-> Tail(OidToString(oid))]
    BY <1>5 DEF OidArgument, Argument
  <2>2. Tail(OidToString(oid)) = [i \in DOMAIN oid |-> Some(oid[i])]
    BY PartsOfText
  <2> QED
    <3>1. PartLoop!Run(<<>>, Tail(OidToString(oid))) = oid
      BY <2>2, UndottedRead
    <3> QED
      BY <2>1, <3>1 DEF ToObjectIdentity
<1>6. CASE style = "object" /\ oid # <<>>
  <2>1. OidArgument(style, oid)
          = [form |-> "object",
             value |-> ObjectIdentity([form |-> "text", value |-> OidToString(oid)])]
    BY <1>6 DEF OidArgument, Argument
  <2>2. ObjectIdentity([form |-> "text", value |-> OidToString(oid)]) = oid
    BY <1>6, ConstructorRead DEF ObjectIdentity
  <2> QED
    BY <2>1, <2>2 DEF ToObjectIdentity
<1> QED
  BY <1>2, <1>3, <1>4, <1>5, <1>6 DEF Styles

LEMMA RangeRead ==
  ASSUME NEW range \in OidRange, NEW style \in Styles
  PROVE  ToObjectIdentityRange(RangeArgument(style, range)) = range
<1>1. range.start \in Oid /\ range.stop \in Oid
      /\ range = [start |-> range.start, stop |-> range.stop]
  BY DEF OidRange
<1>2. /\ ToObjectIdentity(OidArgument(style, range.start)) = range.start
      /\ ToObjectIdentity(OidArgument(style, range.stop)) = range.stop
  BY <1>1, OidRead
<1>3. CASE style = "single" /\ range.start = range.stop
  <2>1. RangeArgument(style, range) = OidArgument(style, range.start)
    BY <1>3 DEF RangeArgument
  <2>2. OidArgument(style, range.start).form # "pair"
    BY <1>3 DEF OidArgument, Argument
  <2> QED
    BY <1>1, <1>2, <1>3, <2>1, <2>2 DEF ToObjectIdentityRange
<1>4. CASE ~(style = "single" /\ range.start = range.stop)
  BY <1>1, <1>2, <1>4 DEF RangeArgument, ToObjectIdentityRange, Argument
<1> QED
  BY <1>3, <1>4

--------------------------------------------------------------------------------
(* Heads and ranges *)

\* A root in front of both sides does not change what lies below what.
LEMMA RootedRoot ==
  ASSUME NEW root \in Oid, NEW a \in Oid, NEW b \in Oid
  PROVE  IsRootOf(root \o a, root \o b) <=> IsRootOf(a, b)
<1> DEFINE r == Len(root)
           ra == root \o a
           rb == root \o b
<1>1. /\ r \in Nat /\ Len(a) \in Nat /\ Len(b) \in Nat
      /\ Len(ra) = r + Len(a) /\ Len(rb) = r + Len(b)
  BY DEF Oid
<1>2. /\ \A j \in 1 .. r : ra[j] = root[j] /\ rb[j] = root[j]
      /\ \A j \in 1 .. Len(a) : ra[r + j] = a[j]
      /\ \A j \in 1 .. Len(b) : rb[r + j] = b[j]
  BY DEF Oid
<1>3. ra \in Oid /\ rb \in Oid
  BY DEF Oid
<1> HIDE DEF r, ra, rb
<1>4. ASSUME IsRootOf(a, b) PROVE IsRootOf(ra, rb)
  <2>1. Len(a) <= Len(b) /\ \A j \in 1 .. Len(a) : a[j] = b[j]
    BY <1>4, RootArcs
  <2>2. ASSUME NEW j \in 1 .. Len(ra) PROVE ra[j] = rb[j]
    <3>1. CASE j <= r
      BY <1>1, <1>2, <3>1
    <3>2. CASE j > r
      <4>1. j - r \in 1 .. Len(a) /\ j - r \in 1 .. Len(b) /\ j = r + (j - r)
        BY <1>1, <2>1, <3>2
      <4> QED
        BY <1>2, <2>1, <4>1
    <3> QED
      BY <1>1, <3>1, <3>2
  <2>3. Len(ra) <= Len(rb)
    BY <1>1, <2>1
  <2> QED
    BY <1>3, <2>2, <2>3, RootArcs
<1>5. ASSUME IsRootOf(ra, rb) PROVE IsRootOf(a, b)
  <2>1. Len(ra) <= Len(rb) /\ \A j \in 1 .. Len(ra) : ra[j] = rb[j]
    BY <1>3, <1>5, RootArcs
  <2>2. Len(a) <= Len(b)
    BY <1>1, <2>1
  <2>3. ASSUME NEW j \in 1 .. Len(a) PROVE a[j] = b[j]
    <3>1. j \in 1 .. Len(b) /\ r + j \in 1 .. Len(ra)
      BY <1>1, <2>2
    <3> QED
      BY <1>2, <2>1, <3>1
  <2> QED
    BY <2>2, <2>3, RootArcs
<1> QED
  BY <1>4, <1>5 DEF ra, rb

\* What the head of a range takes below its root.
LEMMA HeadTakes ==
  ASSUME NEW root \in Oid, NEW range \in OidRange, NEW index \in Oid
  PROVE  Accepts(Activate(NewHead(0, root, Some(range))), "WALK", root \o index)
           <=> TakenBy(range, index)
<1> DEFINE first == root \o range.start
           last  == root \o range.stop
           head  == Activate(NewHead(0, root, Some(range)))
<1>1. range.start \in Oid /\ range.stop \in Oid
  BY DEF OidRange
<1>2. head.range.start = first /\ head.range.stop = last /\ Active(head)
  BY DEF Activate, NewHead, RootedRange, ValueOr, Some, None, Active
<1>3. first \in Oid /\ last \in Oid /\ root \o index \in Oid
  BY <1>1 DEF Oid
<1>4. /\ OidLE(first, root \o index) <=> OidLE(range.start, index)
      /\ OidLE(root \o index, last) <=> OidLE(index, range.stop)
  BY <1>1, <1>3, OidOrder, RootedOidLT
<1>5. IsRootOf(last, root \o index) <=> IsRootOf(range.stop, index)
  BY <1>1, RootedRoot
<1> HIDE DEF first, last, head
<1> QED
  BY <1>2, <1>4, <1>5 DEF Accepts, TakenBy, head

\* The same for all heads below a root; no ranges are no restriction.
LEMMA HeadsTake ==
  ASSUME NEW root \in Oid, NEW ranges \in Seq(OidRange), NEW index \in Oid
  PROVE  Taken(ranges, root, index) <=> ranges = <<>> \/ Takes(ranges, index)
<1>1. CASE ranges = <<>>
  <2>1. RootedRange(root, None) = RootedRange(root, Some(Everything))
    BY DEF RootedRange, ValueOr, None, Some
  <2>2. NewHead(0, root, None) = NewHead(0, root, Some(Everything))
    BY <2>1 DEF NewHead
  <2>3. Accepts(Activate(NewHead(0, root, None)), "WALK", root \o index)
    BY <2>2, HeadTakes, EverythingIs
  <2> QED
    BY <1>1, <2>3 DEF Taken
<1>2. CASE ranges # <<>>
  <2>1. \A i \in DOMAIN ranges :
          Accepts(Activate(NewHead(0, root, Some(ranges[i]))), "WALK", root \o index)
            <=> TakenBy(ranges[i], index)
    BY HeadTakes
  <2> QED
    BY <1>2, <2>1, Zenon DEF Taken, Takes
<1> QED
  BY <1>1, <1>2

\* Both kinds of request: optimize_ranges accepts what it has made, leaves it as
\* it is, and what the request was built for is what it asks for.
LEMMA Optimized ==
  ASSUME NEW type \in {"GET", "WALK"}, NEW ranges \in Seq(OidRange),
         ~RangesThrow(type, ranges), ~ReversedRange(ranges)
  PROVE  LET optimized == OptimizeRanges(type, ranges)
         IN  /\ optimized \in Seq(OidRange)
             /\ ~RangesThrow(type, optimized)
             /\ ~ReversedRange(optimized)
             /\ OptimizeRanges(type, optimized) = optimized
             /\ \A index \in Oid : (ranges = <<>> \/ Covers(ranges, index))
                                     <=> (optimized = <<>> \/ Covers(optimized, index))
<1>1. CASE type = "GET"
  <2>1. OptimizeRanges("GET", ranges) \in Seq(OidRange)
        /\ ToSet(OptimizeRanges("GET", ranges)) = ToSet(ranges)
        /\ OptimizeRanges("GET", OptimizeRanges("GET", ranges)) = OptimizeRanges("GET", ranges)
    BY GetRanges
  <2> QED
    BY <1>1, <2>1, AnyOrder
<1>2. CASE type = "WALK"
  BY <1>2, WalkRanges DEF RangesThrow
<1> QED
  BY <1>1, <1>2

--------------------------------------------------------------------------------
(* The specification *)

\* A call reads what the caller means.
LEMMA CallReads ==
  ASSUME given \in Parts, Call,
         request = [given EXCEPT !.oids = <<>>, !.ranges = <<>>]
  PROVE  /\ request' = given
         /\ stage' = IF ReversedRange(given.ranges) THEN "refused" ELSE "called"
         /\ UNCHANGED given
<1>1. given.oids \in Seq(Oid) /\ given.ranges \in Seq(OidRange)
  BY DEF Parts
<1>2. ASSUME NEW style \in Styles
      PROVE  /\ [i \in DOMAIN given.oids |->
                   ToObjectIdentity(OidArgument(style, given.oids[i]))] = given.oids
             /\ [i \in DOMAIN given.ranges |->
                   ToObjectIdentityRange(RangeArgument(style, given.ranges[i]))] = given.ranges
  <2>1. [i \in DOMAIN given.oids |->
           ToObjectIdentity(OidArgument(style, given.oids[i]))] = given.oids
    BY <1>1, OidRead
  <2>2. [i \in DOMAIN given.ranges |->
           ToObjectIdentityRange(RangeArgument(style, given.ranges[i]))] = given.ranges
    BY <1>1, RangeRead
  <2> QED
    BY <2>1, <2>2
<1>3. /\ request' = [request EXCEPT !.oids = given.oids, !.ranges = given.ranges]
      /\ stage' = IF ReversedRange(given.ranges) THEN "refused" ELSE "called"
      /\ UNCHANGED given
  BY <1>2 DEF Call
<1> QED
  BY <1>3 DEF Parts

\* The caller's request is not touched; nothing is held before get or walk is
\* called.
GivenInv ==
  /\ given \in Parts
  /\ stage = "given" => request = [given EXCEPT !.oids = <<>>, !.ranges = <<>>]

LEMMA GivenInvariant == Spec => []GivenInv
<1>1. Init => GivenInv
  BY GivenRequestsAssumption DEF Init, GivenInv
<1>2. GivenInv /\ [Next]_vars => GivenInv'
  <2> SUFFICES ASSUME GivenInv, [Next]_vars PROVE GivenInv'
    OBVIOUS
  <2>1. CASE Call
    BY <2>1 DEF GivenInv, Call
  <2>2. CASE Build
    BY <2>2 DEF GivenInv, Build, Construct
  <2>3. CASE Enqueue
    BY <2>3 DEF GivenInv, Enqueue, Construct
  <2>4. CASE Pickle
    BY <2>4 DEF GivenInv, Pickle, Construct
  <2>5. CASE UNCHANGED vars
    BY <2>5 DEF GivenInv, vars
  <2> QED
    BY <2>1, <2>2, <2>3, <2>4, <2>5 DEF Next
<1> QED
  BY <1>1, <1>2, PTL DEF Spec

\* operator< of ObjectIdentityRange (types.cpp:44-72) is a strict total order,
\* whatever the ranges: std::sort and std::unique may rely on it.
THEOREM RangesAreOrdered == Spec => []RangesOrdered
<1>1. GivenInv => RangesOrdered
  <2> SUFFICES ASSUME GivenInv,
                      NEW i \in DOMAIN given.ranges, NEW j \in DOMAIN given.ranges,
                      NEW k \in DOMAIN given.ranges
               PROVE  LET a == given.ranges[i]  b == given.ranges[j]  c == given.ranges[k]
                      IN  /\ ~RangeLT(a, a)
                          /\ a = b \/ (RangeLT(a, b) <=> ~RangeLT(b, a))
                          /\ RangeLT(a, b) /\ RangeLT(b, c) => RangeLT(a, c)
    BY DEF RangesOrdered
  <2>1. given.ranges \in Seq(OidRange)
    BY DEF GivenInv, Parts
  <2>2. /\ given.ranges[i] \in OidRange
        /\ given.ranges[j] \in OidRange
        /\ given.ranges[k] \in OidRange
    BY <2>1
  <2> QED
    BY <2>2, RangeLTIrreflexive, RangeLTTotal, RangeLTTransitive
<1> QED
  BY <1>1, GivenInvariant, PTL

\* to_object_identity and to_object_identity_range (__init__.py:42-70) read every
\* way of writing an OID or a range, what oid_to_string prints among them, as
\* what was meant, whatever the OIDs.
THEOREM SpellingIsKept == Spec => SpellingKept
<1>1. GivenInv /\ [Next]_vars => [stage = "given" => request' = given]_vars
  <2> SUFFICES ASSUME GivenInv, Next, stage = "given" PROVE request' = given
    BY DEF vars
  <2>1. Call
    BY DEF Next, Build, Enqueue, Pickle
  <2> QED
    BY <2>1, CallReads DEF GivenInv
<1> QED
  BY <1>1, GivenInvariant, PTL DEF Spec, SpellingKept

\* What the code holds is what the caller meant, until the constructor of
\* SnmpRequest has optimized the ranges; from then on it does not change.
BuiltInv ==
  /\ GivenInv
  /\ stage \in {"given", "called", "built", "queued", "refused"}
  /\ stage = "called" => request = given /\ ~ReversedRange(given.ranges)
  /\ Held => /\ ~ReversedRange(given.ranges)
             /\ ~RequestThrows(given.type, given.oids, given.ranges)
             /\ request = [given EXCEPT !.ranges = OptimizeRanges(given.type, @)]

\* What is held is built again without an exception and without a change.
LEMMA Rebuilt ==
  ASSUME BuiltInv, Held
  PROVE  /\ request \in Parts
         /\ ~ReversedRange(request.ranges)
         /\ ~RequestThrows(request.type, request.oids, request.ranges)
         /\ [request EXCEPT !.ranges = OptimizeRanges(request.type, @)] = request
<1> DEFINE optimized == OptimizeRanges(given.type, given.ranges)
<1>1. /\ given.type \in {"GET", "WALK"} /\ given.ranges \in Seq(OidRange)
      /\ given.oids \in Seq(Oid)
      /\ given = [type |-> given.type, oids |-> given.oids, ranges |-> given.ranges]
  BY DEF BuiltInv, GivenInv, Parts
<1>2. ~ReversedRange(given.ranges) /\ ~RequestThrows(given.type, given.oids, given.ranges)
  BY DEF BuiltInv
<1>3. /\ optimized \in Seq(OidRange)
      /\ ~RangesThrow(given.type, optimized)
      /\ ~ReversedRange(optimized)
      /\ OptimizeRanges(given.type, optimized) = optimized
  BY <1>1, <1>2, Optimized DEF RequestThrows
<1>4. request = [type |-> given.type, oids |-> given.oids, ranges |-> optimized]
  BY <1>1 DEF BuiltInv
<1> HIDE DEF optimized
<1>5. ~RequestThrows(given.type, given.oids, optimized)
  BY <1>2, <1>3 DEF RequestThrows
<1> QED
  BY <1>1, <1>3, <1>4, <1>5 DEF Parts

\* Every step keeps it.
LEMMA BuiltStep == BuiltInv /\ [Next]_vars => BuiltInv'
<1> SUFFICES ASSUME BuiltInv, [Next]_vars PROVE BuiltInv'
  OBVIOUS
<1>1. CASE Call
  <2>1. /\ given \in Parts /\ stage = "given"
        /\ request = [given EXCEPT !.oids = <<>>, !.ranges = <<>>]
    BY <1>1 DEF BuiltInv, GivenInv, Call
  <2>2. /\ request' = given /\ UNCHANGED given
        /\ stage' = IF ReversedRange(given.ranges) THEN "refused" ELSE "called"
    BY <1>1, <2>1, CallReads
  <2> QED
    BY <2>1, <2>2 DEF BuiltInv, GivenInv, Held
<1>2. CASE Build
  <2>1. stage = "called" /\ request = given /\ ~ReversedRange(given.ranges) /\ UNCHANGED given
    BY <1>2 DEF BuiltInv, Build, Construct
  <2>2. CASE RequestThrows(given.type, given.oids, given.ranges)
    BY <1>2, <2>1, <2>2 DEF BuiltInv, GivenInv, Build, Construct, Held
  <2>3. CASE ~RequestThrows(given.type, given.oids, given.ranges)
    <3>1. stage' = "built" /\ request' = [given EXCEPT !.ranges = OptimizeRanges(given.type, @)]
      BY <1>2, <2>1, <2>3 DEF Build, Construct
    <3> QED
      BY <2>1, <2>3, <3>1 DEF BuiltInv, GivenInv, Held
  <2> QED
    BY <2>2, <2>3
<1>3. CASE Enqueue
  <2>1. Held /\ UNCHANGED given
    BY <1>3 DEF Enqueue, Construct, Held
  <2>2. request' = request /\ stage' = "queued"
    BY <1>3, <2>1, Rebuilt DEF Enqueue, Construct
  <2> QED
    BY <2>1, <2>2 DEF BuiltInv, GivenInv, Held
<1>4. CASE Pickle
  <2>1. Held
    BY <1>4 DEF Pickle, Held
  <2>2. request' = request /\ stage' = stage /\ UNCHANGED given
    BY <1>4, <2>1, Rebuilt DEF Pickle, Construct
  <2> QED
    BY <2>1, <2>2 DEF BuiltInv, GivenInv, Held
<1>5. CASE UNCHANGED vars
  BY <1>5 DEF BuiltInv, GivenInv, Held, vars
<1> QED
  BY <1>1, <1>2, <1>3, <1>4, <1>5 DEF Next

LEMMA BuiltInvariant == Spec => []BuiltInv
<1>1. Init => BuiltInv
  BY GivenRequestsAssumption DEF Init, BuiltInv, GivenInv, Held
<1> QED
  BY <1>1, BuiltStep, PTL DEF Spec

\* The ranges a request holds.
LEMMA HeldRanges ==
  ASSUME BuiltInv, Held
  PROVE  /\ request.type = given.type /\ request.oids = given.oids
         /\ given.type \in {"GET", "WALK"}
         /\ given.oids \in Seq(Oid) /\ given.ranges \in Seq(OidRange)
         /\ request.ranges = OptimizeRanges(given.type, given.ranges)
         /\ request.ranges \in Seq(OidRange)
         /\ ~RangesThrow(given.type, given.ranges) /\ ~ReversedRange(given.ranges)
<1>1. /\ given.type \in {"GET", "WALK"} /\ given.ranges \in Seq(OidRange)
      /\ given.oids \in Seq(Oid)
      /\ given = [type |-> given.type, oids |-> given.oids, ranges |-> given.ranges]
      /\ ~ReversedRange(given.ranges) /\ ~RangesThrow(given.type, given.ranges)
  BY DEF BuiltInv, GivenInv, Parts, RequestThrows
<1>2. request = [type |-> given.type, oids |-> given.oids,
                 ranges |-> OptimizeRanges(given.type, given.ranges)]
  BY <1>1 DEF BuiltInv
<1>3. OptimizeRanges(given.type, given.ranges) \in Seq(OidRange)
  BY <1>1, Optimized
<1> QED
  BY <1>1, <1>2, <1>3

\* optimize_ranges (types.cpp:106-166) keeps the set of indexes between the
\* bounds of the ranges, whatever their number, order, overlaps and lengths.
THEOREM RangesKeepIntervals == Spec => []IntervalsKept
<1>1. BuiltInv => IntervalsKept
  <2> SUFFICES ASSUME BuiltInv, Held, NEW index \in Probes
               PROVE  (given.ranges = <<>> \/ Covers(given.ranges, index))
                        <=> (request.ranges = <<>> \/ Covers(request.ranges, index))
    BY DEF IntervalsKept, Covers
  <2>1. index \in Oid
    BY ProbesAssumption
  <2> QED
    BY <2>1, HeldRanges, Optimized
<1> QED
  BY <1>1, BuiltInvariant, PTL

\* With the optimized ranges the heads of a walk take what they would have taken
\* with the ranges as given, below every root and for every index, as long as no
\* stop lies below another.
THEOREM RangesKeepTakes == Spec => []TakesKept
<1>1. BuiltInv => TakesKept
  <2> SUFFICES ASSUME BuiltInv, Held, given.type = "WALK", ~NestedStops(given.ranges),
                      NEW i \in DOMAIN given.oids, NEW index \in Probes
               PROVE  Taken(given.ranges, given.oids[i], index)
                        <=> Taken(request.ranges, given.oids[i], index)
    BY DEF TakesKept
  <2>1. index \in Oid /\ given.oids[i] \in Oid
    BY ProbesAssumption, HeldRanges
  <2>2. (given.ranges = <<>> \/ Takes(given.ranges, index))
          <=> (request.ranges = <<>> \/ Takes(request.ranges, index))
    BY <2>1, HeldRanges, WalkRanges
  <2> QED
    BY <2>1, <2>2, HeldRanges, HeadsTake
<1> QED
  BY <1>1, BuiltInvariant, PTL

\* The loop of optimize_ranges (types.cpp:132-161) leaves no two ranges that
\* touch or overlap, and leaves them in order.
THEOREM RangesComeApart == Spec => []RangesApart
<1>1. BuiltInv => RangesApart
  <2> SUFFICES ASSUME BuiltInv, Held, given.type = "WALK" PROVE InOrder(request.ranges)
    BY DEF RangesApart, InOrder
  <2> QED
    BY HeldRanges, WalkRanges
<1> QED
  BY <1>1, BuiltInvariant, PTL

\* add_request and pickling run the constructor of SnmpRequest on its own result
\* (types.cpp:168-189): it never throws there and never changes the request.
THEOREM RebuildingKeeps == Spec => RebuildKeepsRequest
<1>1. BuiltInv /\ [Next]_vars => [Held => stage' # "refused" /\ request' = request]_vars
  <2> SUFFICES ASSUME BuiltInv, Next, Held PROVE stage' # "refused" /\ request' = request
    BY DEF vars
  <2>1. Enqueue \/ Pickle
    BY DEF Next, Call, Build, Held
  <2>2. CASE Enqueue
    BY <2>2, Rebuilt DEF Enqueue, Construct
  <2>3. CASE Pickle
    BY <2>3, Rebuilt DEF Pickle, Construct, Held
  <2> QED
    BY <2>1, <2>2, <2>3
<1> QED
  BY <1>1, BuiltInvariant, PTL DEF Spec, RebuildKeepsRequest

\* Every request that leaves the constructor is what the session and the manager
\* take for granted of the requests they are given: it is well-formed.
THEOREM BuiltIsWellFormed == Spec => [](Held => WellFormed(request))
<1>1. BuiltInv /\ Held => WellFormed(request)
  <2> SUFFICES ASSUME BuiltInv, Held PROVE WellFormed(request)
    OBVIOUS
  <2>1. request \in Parts
    BY Rebuilt
  <2>2. request.ranges = OptimizeRanges(request.type, request.ranges)
    <3>1. [request EXCEPT !.ranges = OptimizeRanges(request.type, @)].ranges = request.ranges
      BY Rebuilt
    <3> QED
      BY <2>1, <3>1 DEF Parts
  <2> QED
    BY <2>2, Rebuilt DEF WellFormed
<1>2. BuiltInv => (Held => WellFormed(request))
  BY <1>1
<1> QED
  BY <1>2, BuiltInvariant, PTL

--------------------------------------------------------------------------------
(* The constructor of a head *)

\* Of the ranges that ObjectIdentityRange accepts, the constructor of a head
\* (session.cpp:45-52) throws for those with a start and no stop, below every
\* root that is not empty, and for no other.
THEOREM HeadsNeedStops ==
  ASSUME NEW root \in Oid, NEW range \in OidRange, ~RangeThrows(range.start, range.stop)
  PROVE  HeadThrows(root, Some(range)) <=> /\ root # <<>>
                                           /\ range.start # <<>> /\ range.stop = <<>>
<1> DEFINE first == root \o range.start
           last  == root \o range.stop
<1>1. range.start \in Oid /\ range.stop \in Oid /\ first \in Oid /\ last \in Oid
  BY DEF OidRange, Oid
<1>2. RootedRange(root, Some(range)) = [start |-> first, stop |-> last]
  BY DEF RootedRange, ValueOr, Some, None
<1>3. OidLT(last, first) <=> OidLT(range.stop, range.start)
  BY <1>1, RootedOidLT
<1>4. OidLT(range.stop, range.start) => range.start # <<>> /\ first # <<>>
  <2>1. OidLT(range.stop, range.start) => range.start # <<>>
    BY DEF OidLT
  <2> QED
    BY <1>1, <2>1 DEF Oid
<1>5. last = <<>> <=> root = <<>> /\ range.stop = <<>>
  BY <1>1 DEF Oid
<1>6. HeadThrows(root, Some(range)) <=> first # <<>> /\ last # <<>> /\ OidLT(last, first)
  BY <1>2 DEF HeadThrows, RangeThrows
<1>7. range.start # <<>> => OidLT(<<>>, range.start)
  BY <1>1, EmptyFirst
<1> HIDE DEF first, last
<1> QED
  BY <1>3, <1>4, <1>5, <1>6, <1>7 DEF RangeThrows

================================================================================
