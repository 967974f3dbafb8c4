---------------------------------- MODULE OidProofs ----------------------------------
(*******************************************************************************)
(* The order of OIDs is a strict total order that puts a root before all that  *)
(* lies below it, and does not change when a root is put before both sides.    *)
(* At the end, the types of optional values.                                   *)
(*******************************************************************************)
EXTENDS Oids, WellFoundedInduction, TLAPS

LEMMA LeastElement ==
  ASSUME NEW S \in SUBSET Nat, S # {}
  PROVE  \E least \in S : \A n \in S : least <= n
<1>1. PICK least \in S : \A n \in S : ~(<<n, least>> \in OpToRel(<, Nat))
  BY WFMin, NatLessThanWellFounded, Zenon
<1>2. ASSUME NEW n \in S PROVE least <= n
  <2>1. n \in Nat /\ least \in Nat
    OBVIOUS
  <2>2. ~(n < least)
    BY <1>1, <2>1 DEF OpToRel
  <2> QED
    BY <2>1, <2>2
<1> QED
  BY <1>2

LEMMA OidLTIrreflexive ==
  ASSUME NEW a \in Oid
  PROVE  ~OidLT(a, a)
BY DEF Oid, OidLT

\* Two OIDs part at the first place where one has ended or their arcs differ.
LEMMA OidLTTotal ==
  ASSUME NEW a \in Oid, NEW b \in Oid, a # b
  PROVE  OidLT(a, b) \/ OidLT(b, a)
<1>1. Len(a) \in Nat /\ Len(b) \in Nat
  BY DEF Oid
<1> DEFINE Parted == {k \in Nat \ {0} : k <= Len(a) /\ k <= Len(b) => a[k] # b[k]}
<1>2. Len(a) + 1 \in Parted
  BY <1>1
<1>3. PICK k \in Parted : \A n \in Parted : k <= n
  <2>1. Parted \in SUBSET Nat /\ Parted # {}
    BY <1>2
  <2> HIDE DEF Parted
  <2> QED
    BY <2>1, LeastElement
<1>4. \A j \in 1 .. k - 1 : j <= Len(a) /\ j <= Len(b) /\ a[j] = b[j]
  <2> TAKE j \in 1 .. k - 1
  <2>1. j \in Nat \ {0} /\ ~(k <= j)
    OBVIOUS
  <2> QED
    BY <1>3, <2>1
<1>5. k \in Nat \ {0} /\ k <= Len(a) + 1 /\ k <= Len(b) + 1
  <2>1. k = 1 \/ k - 1 \in 1 .. k - 1
    OBVIOUS
  <2> QED
    BY <1>1, <1>4, <2>1
<1>6. CASE k <= Len(a) /\ k <= Len(b)
  <2>1. a[k] \in Nat /\ b[k] \in Nat /\ a[k] # b[k]
    BY <1>5, <1>6 DEF Oid
  <2>2. CASE a[k] < b[k]
    BY <1>1, <1>4, <1>5, <1>6, <2>2 DEF OidLT
  <2>3. CASE b[k] < a[k]
    BY <1>1, <1>4, <1>5, <1>6, <2>3 DEF OidLT
  <2> QED
    BY <2>1, <2>2, <2>3
<1>7. CASE k > Len(a) /\ k <= Len(b)
  BY <1>1, <1>4, <1>5, <1>7 DEF OidLT
<1>8. CASE k <= Len(a) /\ k > Len(b)
  BY <1>1, <1>4, <1>5, <1>8 DEF OidLT
<1>9. CASE k > Len(a) /\ k > Len(b)
  <2>1. Len(a) = k - 1 /\ Len(b) = k - 1
    BY <1>1, <1>5, <1>9
  <2>2. a = b
    BY <2>1, <1>4 DEF Oid
  <2> QED
    BY <2>2
<1> QED
  BY <1>1, <1>5, <1>6, <1>7, <1>8, <1>9

LEMMA OidLTTransitive ==
  ASSUME NEW a \in Oid, NEW b \in Oid, NEW c \in Oid, OidLT(a, b), OidLT(b, c)
  PROVE  OidLT(a, c)
<1>1. Len(a) \in Nat /\ Len(b) \in Nat /\ Len(c) \in Nat
  BY DEF Oid
<1>2. PICK k \in 1 .. Len(b) : /\ k <= Len(a) + 1
                               /\ \A j \in 1 .. k - 1 : a[j] = b[j]
                               /\ k <= Len(a) => a[k] < b[k]
  BY DEF OidLT
<1>3. PICK l \in 1 .. Len(c) : /\ l <= Len(b) + 1
                               /\ \A j \in 1 .. l - 1 : b[j] = c[j]
                               /\ l <= Len(b) => b[l] < c[l]
  BY DEF OidLT
<1>4. /\ \A i \in 1 .. Len(a) : a[i] \in Nat
      /\ \A i \in 1 .. Len(b) : b[i] \in Nat
      /\ \A i \in 1 .. Len(c) : c[i] \in Nat
  BY DEF Oid
<1>5. CASE k <= l
  <2>1. k \in 1 .. Len(c) /\ \A j \in 1 .. k - 1 : a[j] = c[j]
    BY <1>1, <1>2, <1>3, <1>5
  <2>2. k <= Len(a) => a[k] < c[k]
    <3>1. CASE k < l
      BY <1>1, <1>2, <1>3, <3>1
    <3>2. CASE k = l
      BY <1>1, <1>2, <1>3, <1>4, <3>2
    <3> QED
      BY <1>5, <3>1, <3>2
  <2> QED
    BY <1>2, <2>1, <2>2 DEF OidLT
<1>6. CASE l < k
  <2>1. l \in 1 .. Len(c) /\ l <= Len(a) + 1 /\ \A j \in 1 .. l - 1 : a[j] = c[j]
    BY <1>1, <1>2, <1>3, <1>6
  <2>2. a[l] = b[l] /\ b[l] < c[l]
    BY <1>1, <1>2, <1>3, <1>6
  <2> QED
    BY <2>1, <2>2 DEF OidLT
<1> QED
  BY <1>5, <1>6

LEMMA OidLTAsymmetric ==
  ASSUME NEW a \in Oid, NEW b \in Oid, OidLT(a, b)
  PROVE  ~OidLT(b, a) /\ a # b
BY OidLTTransitive, OidLTIrreflexive

LEMMA OidLETransitive ==
  ASSUME NEW a \in Oid, NEW b \in Oid, NEW c \in Oid, OidLE(a, b), OidLE(b, c)
  PROVE  OidLE(a, c)
BY OidLTTransitive DEF OidLE

\* A root comes before everything below it.
LEMMA RootFirst ==
  ASSUME NEW a \in Oid, NEW b \in Oid, IsRootOf(a, b)
  PROVE  OidLE(a, b)
<1>1. Len(a) \in Nat /\ Len(b) \in Nat /\ Len(a) <= Len(b) /\ \A j \in 1 .. Len(a) : a[j] = b[j]
  BY DEF Oid, IsRootOf, IsPrefix
<1>2. CASE Len(a) = Len(b)
  <2>1. a = b
    BY <1>1, <1>2 DEF Oid
  <2> QED
    BY <2>1 DEF OidLE
<1>3. CASE Len(a) < Len(b)
  <2>1. Len(a) + 1 \in 1 .. Len(b) /\ (Len(a) + 1) - 1 = Len(a)
    BY <1>1, <1>3
  <2>2. \A j \in 1 .. (Len(a) + 1) - 1 : a[j] = b[j]
    BY <1>1, <2>1
  <2>3. OidLT(a, b)
    BY <1>1, <2>1, <2>2 DEF OidLT
  <2> QED
    BY <2>3 DEF OidLE
<1> QED
  BY <1>1, <1>2, <1>3

LEMMA EmptyFirst ==
  ASSUME NEW a \in Oid, a # <<>>
  PROVE  OidLT(<<>>, a)
BY DEF Oid, OidLT

\* A root in front of both sides changes nothing.
LEMMA RootedOidLT ==
  ASSUME NEW root \in Oid, NEW a \in Oid, NEW b \in Oid
  PROVE  OidLT(root \o a, root \o b) <=> OidLT(a, b)
<1> DEFINE r == Len(root)
           ra == root \o a
           rb == root \o b
<1>1. /\ r \in Nat /\ Len(a) \in Nat /\ Len(b) \in Nat
      /\ Len(ra) = r + Len(a) /\ Len(rb) = r + Len(b)
  BY DEF Oid
<1>2. /\ \A j \in 1 .. r : ra[j] = rb[j]
      /\ \A j \in 1 .. Len(a) : ra[r + j] = a[j]
      /\ \A j \in 1 .. Len(b) : rb[r + j] = b[j]
  BY DEF Oid
<1>3. ra \in Oid /\ rb \in Oid
  BY DEF Oid
<1> HIDE DEF r, ra, rb
<1>4. ASSUME OidLT(a, b) PROVE OidLT(ra, rb)
  <2>1. PICK k \in 1 .. Len(b) : /\ k <= Len(a) + 1
                                 /\ \A j \in 1 .. k - 1 : a[j] = b[j]
                                 /\ k <= Len(a) => a[k] < b[k]
    BY <1>4 DEF OidLT
  <2>2. r + k \in 1 .. Len(rb) /\ r + k <= Len(ra) + 1
    BY <1>1, <2>1
  <2>3. ASSUME NEW j \in 1 .. (r + k) - 1 PROVE ra[j] = rb[j]
    <3>1. CASE j <= r
      BY <1>1, <1>2, <3>1
    <3>2. CASE j > r
      <4>1. j - r \in 1 .. k - 1 /\ j = r + (j - r)
        BY <1>1, <3>2
      <4>2. j - r \in 1 .. Len(a) /\ j - r \in 1 .. Len(b)
        BY <1>1, <2>1, <4>1
      <4> QED
        BY <1>2, <2>1, <4>1, <4>2
    <3> QED
      BY <1>1, <3>1, <3>2
  <2>4. r + k <= Len(ra) => ra[r + k] < rb[r + k]
    BY <1>1, <1>2, <2>1
  <2> QED
    BY <2>2, <2>3, <2>4 DEF OidLT
<1>5. ASSUME OidLT(ra, rb) PROVE OidLT(a, b)
  <2>1. PICK k \in 1 .. Len(rb) : /\ k <= Len(ra) + 1
                                  /\ \A j \in 1 .. k - 1 : ra[j] = rb[j]
                                  /\ k <= Len(ra) => ra[k] < rb[k]
    BY <1>5 DEF OidLT
  <2>2. k > r
    <3>1. SUFFICES ASSUME k <= r PROVE FALSE
      BY <1>1
    <3>2. ra[k] = rb[k] /\ ra[k] < rb[k] /\ ra[k] \in Nat
      BY <1>1, <1>2, <1>3, <2>1, <3>1 DEF Oid
    <3> QED
      BY <3>2
  <2> DEFINE l == k - r
  <2>3. l \in 1 .. Len(b) /\ l <= Len(a) + 1 /\ k = r + l
    BY <1>1, <2>1, <2>2
  <2>4. ASSUME NEW j \in 1 .. l - 1 PROVE a[j] = b[j]
    <3>1. r + j \in 1 .. k - 1 /\ j \in 1 .. Len(a) /\ j \in 1 .. Len(b)
      BY <1>1, <2>3
    <3> QED
      BY <1>2, <2>1, <3>1
  <2>5. ASSUME l <= Len(a) PROVE a[l] < b[l]
    <3>1. l \in 1 .. Len(a) /\ k <= Len(ra)
      BY <1>1, <2>3, <2>5
    <3>2. ra[k] = a[l] /\ rb[k] = b[l]
      BY <1>2, <2>3, <3>1
    <3> QED
      BY <2>1, <3>1, <3>2
  <2> QED
    BY <2>3, <2>4, <2>5 DEF OidLT
<1> QED
  BY <1>4, <1>5 DEF ra, rb

--------------------------------------------------------------------------------
(* Roots *)

LEMMA RootArcs ==
  ASSUME NEW root \in Oid, NEW a \in Oid
  PROVE  IsRootOf(root, a) <=> /\ Len(root) <= Len(a)
                               /\ \A j \in 1 .. Len(root) : root[j] = a[j]
<1> DEFINE n == Len(root)
<1>1. n \in Nat /\ Len(a) \in Nat
  BY DEF Oid
<1>2. CASE n <= Len(a)
  <2>1. /\ SubSeq(root, 1, n) = [j \in 1 .. n |-> root[j]]
        /\ SubSeq(a, 1, n) = [j \in 1 .. n |-> a[j]]
    BY <1>1, <1>2 DEF Oid
  <2>2. SubSeq(root, 1, n) = SubSeq(a, 1, n) <=> \A j \in 1 .. n : root[j] = a[j]
    BY <2>1
  <2> QED
    BY <1>2, <2>2 DEF IsRootOf, IsPrefix
<1>3. CASE ~(n <= Len(a))
  BY <1>3 DEF IsRootOf, IsPrefix
<1> QED
  BY <1>2, <1>3

\* What lies between two OIDs below a root lies below it, too.
LEMMA RootBetween ==
  ASSUME NEW root \in Oid, NEW a \in Oid, NEW b \in Oid, NEW x \in Oid,
         IsRootOf(root, a), IsRootOf(root, b), OidLE(a, x), OidLE(x, b)
  PROVE  IsRootOf(root, x)
<1>1. CASE x = a \/ x = b
  BY <1>1
<1>2. CASE OidLT(a, x) /\ OidLT(x, b)
  <2>1. /\ Len(root) \in Nat /\ Len(a) \in Nat /\ Len(b) \in Nat /\ Len(x) \in Nat
        /\ Len(root) <= Len(a) /\ Len(root) <= Len(b)
        /\ \A j \in 1 .. Len(root) : root[j] = a[j] /\ root[j] = b[j]
    BY RootArcs DEF Oid
  <2>2. PICK k \in 1 .. Len(x) : /\ k <= Len(a) + 1
                                 /\ \A j \in 1 .. k - 1 : a[j] = x[j]
                                 /\ k <= Len(a) => a[k] < x[k]
    BY <1>2 DEF OidLT
  <2>3. PICK l \in 1 .. Len(b) : /\ l <= Len(x) + 1
                                 /\ \A j \in 1 .. l - 1 : x[j] = b[j]
                                 /\ l <= Len(x) => x[l] < b[l]
    BY <1>2 DEF OidLT
  <2>4. CASE k > Len(root)
    <3>1. Len(root) <= Len(x) /\ \A j \in 1 .. Len(root) : j \in 1 .. k - 1
      BY <2>1, <2>2, <2>4
    <3> QED
      BY <2>1, <2>2, <3>1, RootArcs
  <2>5. CASE l > Len(root)
    <3>1. Len(root) <= Len(x) /\ \A j \in 1 .. Len(root) : j \in 1 .. l - 1
      BY <2>1, <2>3, <2>5
    <3> QED
      BY <2>1, <2>3, <3>1, RootArcs
  <2>6. CASE k <= Len(root) /\ l <= Len(root)
    <3>1. k \in 1 .. Len(root) /\ l \in 1 .. Len(root) /\ k <= Len(a) /\ k \in Nat /\ l \in Nat
      BY <2>1, <2>2, <2>3, <2>6
    <3>2. a[k] < x[k] /\ a[k] = b[k] /\ a[l] = b[l]
      BY <2>1, <2>2, <3>1
    <3>3. k \in 1 .. Len(a) /\ l \in 1 .. Len(a)
      BY <2>1, <3>1
    <3>4. a[k] \in Nat /\ x[k] \in Nat /\ a[l] \in Nat
      <4>1. \A y \in Oid : \A j \in 1 .. Len(y) : y[j] \in Nat
        BY DEF Oid
      <4> QED
        BY <3>3, <4>1
    <3>5. CASE k < l
      <4>1. x[k] = b[k]
        BY <2>3, <3>1, <3>5
      <4> QED
        BY <3>2, <3>4, <4>1
    <3>6. CASE l < k
      <4>1. x[l] = a[l] /\ l <= Len(x)
        BY <2>1, <2>2, <3>1, <3>6
      <4> QED
        BY <2>3, <3>2, <3>4, <4>1
    <3>7. CASE k = l
      <4>1. x[k] < a[k]
        BY <2>2, <2>3, <3>2, <3>7
      <4> QED
        BY <3>2, <3>4, <4>1
    <3> QED
      BY <3>1, <3>5, <3>6, <3>7
  <2> QED
    BY <2>1, <2>4, <2>5, <2>6
<1> QED
  BY <1>1, <1>2 DEF OidLE

LEMMA RootTransitive ==
  ASSUME NEW root \in Oid, NEW a \in Oid, NEW b \in Oid, IsRootOf(root, a), IsRootOf(a, b)
  PROVE  IsRootOf(root, b)
<1>1. /\ Len(root) \in Nat /\ Len(a) \in Nat /\ Len(b) \in Nat
      /\ Len(root) <= Len(a) /\ Len(a) <= Len(b)
      /\ \A j \in 1 .. Len(root) : root[j] = a[j]
      /\ \A j \in 1 .. Len(a) : a[j] = b[j]
  BY RootArcs DEF Oid
<1>2. \A j \in 1 .. Len(root) : j \in 1 .. Len(a)
  BY <1>1
<1> QED
  BY <1>1, <1>2, RootArcs

LEMMA RootOfConcat ==
  ASSUME NEW root \in Oid, NEW a \in Oid
  PROVE  root \o a \in Oid /\ IsRootOf(root, root \o a)
<1>1. /\ root \o a \in Oid /\ Len(root) <= Len(root \o a)
      /\ \A j \in 1 .. Len(root) : root[j] = (root \o a)[j]
  BY DEF Oid
<1> QED
  BY <1>1, RootArcs

\* An OID below a root is the root and an index.
LEMMA RootAndIndex ==
  ASSUME NEW root \in Oid, NEW a \in Oid, IsRootOf(root, a)
  PROVE  root \o SubSeq(a, Len(root) + 1, Len(a)) = a
<1> DEFINE n == Len(root)
           index == SubSeq(a, n + 1, Len(a))
<1>1. /\ n \in Nat /\ Len(a) \in Nat /\ n <= Len(a)
      /\ \A j \in 1 .. n : root[j] = a[j]
  BY RootArcs DEF Oid
<1>2. /\ index \in Oid /\ Len(index) = Len(a) - n
      /\ \A j \in 1 .. Len(a) - n : index[j] = a[n + j]
  BY <1>1 DEF Oid
<1> HIDE DEF index, n
<1>3. /\ root \o index \in Oid /\ Len(root \o index) = Len(a)
      /\ \A j \in 1 .. n : (root \o index)[j] = root[j]
      /\ \A j \in n + 1 .. Len(a) : (root \o index)[j] = index[j - n]
  <2>1. root \in Seq(Nat) /\ index \in Seq(Nat) /\ n + Len(index) = Len(a)
    BY <1>1, <1>2 DEF Oid
  <2>2. root \o index \in Seq(Nat) /\ Len(root \o index) = n + Len(index)
    BY <2>1 DEF n
  <2>3. ASSUME NEW j \in 1 .. n PROVE (root \o index)[j] = root[j]
    BY <2>1 DEF n
  <2>4. ASSUME NEW j \in n + 1 .. Len(a) PROVE (root \o index)[j] = index[j - n]
    BY <1>1, <2>1 DEF n
  <2> QED
    BY <2>1, <2>2, <2>3, <2>4 DEF Oid
<1>4. ASSUME NEW j \in 1 .. Len(a) PROVE (root \o index)[j] = a[j]
  <2>1. j \in 1 .. n \/ j \in n + 1 .. Len(a)
    BY <1>1
  <2>2. CASE j \in 1 .. n
    BY <1>1, <1>3, <2>2
  <2>3. CASE j \in n + 1 .. Len(a)
    <3>1. j - n \in 1 .. Len(a) - n /\ n + (j - n) = j
      BY <1>1, <2>3
    <3> QED
      BY <1>2, <1>3, <2>3, <3>1
  <2> QED
    BY <2>1, <2>2, <2>3
<1> QED
  BY <1>3, <1>4 DEF index, n, Oid

--------------------------------------------------------------------------------
(* Optional values *)

LEMMA OptionalType ==
  ASSUME NEW S
  PROVE  /\ None \in Optional(S)
         /\ \A x \in S : Some(x) \in Optional(S) /\ Some(x)[1] = x
         /\ \A o \in Optional(S), d \in S : ValueOr(o, d) \in S
         /\ \A o \in Optional(S) : o # None => o[1] \in S
BY DEF None, Some, Optional, ValueOr

================================================================================
