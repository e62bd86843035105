--------------------------- MODULE LeafSweepProofs ---------------------------
(***************************************************************************)
(* What a leaf sweep returns, for any scene, any domain and any way of     *)
(* running it.                                                             *)
(***************************************************************************)
EXTENDS LeafSweep, DataLemmas, FiniteSetTheorems

-----------------------------------------------------------------------------
(* Nodes and their intervals.                                              *)

\* The powers of two grow.
LEMMA PowerGrows ==
  ASSUME NEW b \in Nat, NEW a \in 0..b
  PROVE  2^a <= 2^b
<1>1. 2^b = 2^a * 2^(b - a)
  BY PowerSplit
<1>2. b - a \in Nat /\ a \in Nat
  OBVIOUS
<1>3. 2^a \in Nat \ {0} /\ 2^(b - a) \in Nat \ {0}
  BY <1>2, PowerOfTwo
<1>4. \A x, y \in Nat \ {0} : x <= x * y
  <2> TAKE x, y \in Nat \ {0}
  <2>1. PICK z \in Nat : y = z + 1
    <3>1. y - 1 \in Nat /\ y = (y - 1) + 1
      OBVIOUS
    <3> QED
      BY <3>1
  <2>2. x * (z + 1) = x * z + x /\ x * z \in Nat
    OBVIOUS
  <2> QED
    BY <2>1, <2>2
<1> QED
  BY <1>1, <1>3, <1>4

\* The depth of a node is the number of halvings that make it the root.
LEMMA DepthFacts ==
  ASSUME Res \in Nat, NEW n \in Nodes
  PROVE  DepthOf(n) \in 0..Res /\ 2^DepthOf(n) <= n /\ n < 2^(DepthOf(n) + 1)
<1> DEFINE T == {m \in 0..Res : 2^m <= n}
<1>1. n \in Nat /\ 1 <= n /\ n < 2^(Res + 1)
  <2>1. 2^(Res + 1) \in Nat
    BY PowerOfTwo
  <2> QED
    BY <2>1 DEF Nodes
<1>2. T \in SUBSET Nat /\ T # {} /\ \A m \in T : m <= Res
  <2>1. 2^0 = 1
    OBVIOUS
  <2>2. 0 \in T
    BY <1>1, <2>1
  <2>3. T \in SUBSET Nat /\ \A m \in T : m <= Res
    OBVIOUS
  <2> HIDE DEF T
  <2> QED
    BY <2>2, <2>3
<1>3. PICK d \in T : \A m \in T : m <= d
  BY <1>2, GreatestNat
<1>4. n < 2^(d + 1)
  <2>1. CASE d = Res
    BY <1>1, <2>1
  <2>2. CASE d # Res
    <3>1. d + 1 \in 0..Res /\ ~(d + 1 <= d)
      BY <2>2
    <3>2. ~(2^(d + 1) <= n)
      BY <1>3, <3>1
    <3>3. 2^(d + 1) \in Nat
      BY PowerOfTwo
    <3> QED
      BY <1>1, <3>2, <3>3
  <2> QED
    BY <2>1, <2>2
<1> QED
  BY <1>4 DEF DepthOf

\* Only one depth has the node between its powers.
LEMMA DepthIs ==
  ASSUME Res \in Nat, NEW n \in Nodes, NEW d \in 0..Res, 2^d <= n, n < 2^(d + 1)
  PROVE  DepthOf(n) = d
<1>1. PICK c \in 0..Res : c = DepthOf(n) /\ 2^c <= n /\ n < 2^(c + 1)
  BY DepthFacts
<1>2. \A a, b \in 0..Res : 2^a <= n /\ n < 2^(b + 1) => a <= b
  <2> SUFFICES ASSUME NEW a \in 0..Res, NEW b \in 0..Res, 2^a <= n, n < 2^(b + 1), b + 1 <= a
               PROVE FALSE
    OBVIOUS
  <2>1. 2^(b + 1) <= 2^a
    BY PowerGrows
  <2>2. 2^(b + 1) \in Nat /\ 2^a \in Nat /\ n \in Nat
    <3>1. 2^(Res + 1) \in Nat
      BY PowerOfTwo
    <3> QED
      BY <3>1, PowerOfTwo DEF Nodes
  <2> QED
    BY <2>1, <2>2
<1>3. d <= c /\ c <= d
  BY <1>1, <1>2
<1> QED
  BY <1>1, <1>3

\* The root is at depth 0.
LEMMA RootFacts ==
  ASSUME Res \in Nat
  PROVE  Root \in Nodes /\ DepthOf(Root) = 0
<1>1. 2^(Res + 1) = 2 * 2^Res /\ 2^Res \in Nat \ {0} /\ 2^0 = 1 /\ 2^(0 + 1) = 2
  BY PowerOfTwo
<1>2. Root \in Nodes
  BY <1>1 DEF Root, Nodes
<1>3. 1 \in Nodes /\ 0 \in 0..Res /\ 2^0 <= 1 /\ 1 < 2^(0 + 1)
  BY <1>1, <1>2 DEF Root
<1>4. DepthOf(1) = 0
  BY <1>3, DepthIs
<1> QED
  BY <1>2, <1>4 DEF Root

\* A child is a node one deeper.
LEMMA ChildDepth ==
  ASSUME Res \in Nat, NEW n \in Nodes, DepthOf(n) < Res, NEW side \in {0, 1}
  PROVE  /\ 2 * n + side \in Nodes /\ DepthOf(2 * n + side) = DepthOf(n) + 1
         /\ (2 * n + side) \div 2 = n
<1>1. PICK d \in 0..Res : d = DepthOf(n) /\ 2^d <= n /\ n < 2^(d + 1)
  BY DepthFacts
<1>2. d + 1 \in 0..Res /\ d \in Nat
  BY <1>1
<1>3. 2^(d + 1) = 2 * 2^d /\ 2^((d + 1) + 1) = 2 * 2^(d + 1) /\ 2^d \in Nat \ {0} /\ 2^(Res + 1) \in Nat
  BY <1>2, PowerOfTwo
<1>4. n \in Nat /\ 1 <= n
  BY <1>3 DEF Nodes
<1>5. 2^((d + 1) + 1) <= 2^(Res + 1)
  BY <1>2, PowerGrows
<1>6. 2^(d + 1) <= 2 * n + side /\ 2 * n + side < 2^((d + 1) + 1)
  <2> DEFINE p == 2^d
             q == 2^(d + 1)
             r == 2^((d + 1) + 1)
  <2>1. q = 2 * p /\ r = 2 * q /\ p \in Nat /\ p <= n /\ n < q
    BY <1>1, <1>3
  <2> HIDE DEF p, q, r
  <2>2. q <= 2 * n + side /\ 2 * n + side < r
    BY <1>4, <2>1
  <2> QED
    BY <2>2 DEF q, r
<1>7. 2 * n + side \in Nodes
  <2> DEFINE r == 2^((d + 1) + 1)
             t == 2^(Res + 1)
             q == 2^(d + 1)
  <2>1. r <= t /\ 2 * n + side < r /\ t \in Nat /\ r = 2 * q /\ q = 2 * 2^d /\ 2^d \in Nat
    BY <1>3, <1>5, <1>6
  <2> HIDE DEF r, t, q
  <2>2. 2 * n + side \in 1..t - 1
    BY <1>4, <2>1
  <2> QED
    BY <2>2 DEF Nodes, t
<1>8. DepthOf(2 * n + side) = d + 1
  BY <1>2, <1>6, <1>7, DepthIs
<1>9. (2 * n + side) \div 2 = n
  BY <1>4
<1> QED
  BY <1>1, <1>7, <1>8, <1>9

\* The interval of a node lies in that of the root and is not empty; its
\* ends are multiples of its width.
LEMMA NodeShape ==
  ASSUME Res \in Nat, NEW n \in Nodes
  PROVE  \E w \in Nat \ {0}, k \in Nat :
           /\ w = 2^(Res - DepthOf(n)) /\ k = n - 2^DepthOf(n)
           /\ NodeInterval(n) = <<k * w, (k + 1) * w>>
           /\ k * w \in 0..2^Res /\ (k + 1) * w \in 0..2^Res
           /\ (k + 1) * w = k * w + w
<1>1. PICK d \in 0..Res : d = DepthOf(n) /\ 2^d <= n /\ n < 2^(d + 1)
  BY DepthFacts
<1>2. d \in Nat /\ Res - d \in Nat
  BY <1>1
<1>3. 2^(d + 1) = 2 * 2^d /\ 2^d \in Nat \ {0} /\ 2^(Res - d) \in Nat \ {0} /\ 2^Res \in Nat
  BY <1>2, PowerOfTwo
<1>4. 2^Res = 2^d * 2^(Res - d)
  BY PowerSplit
<1>5. PICK p \in Nat \ {0} : p = 2^d
  BY <1>3
<1>6. PICK w \in Nat \ {0} : w = 2^(Res - d)
  BY <1>3
<1>7. n \in Nat
  <2>1. 2^(Res + 1) \in Nat
    BY PowerOfTwo
  <2> QED
    BY <2>1 DEF Nodes
<1>8. PICK k \in Nat : k = n - p
  BY <1>1, <1>5, <1>7
<1>9. k + 1 <= p
  <2>1. n < 2 * p
    BY <1>1, <1>3, <1>5
  <2> QED
    BY <1>7, <1>8, <2>1
<1>10. (k + 1) * w = k * w + w /\ k * w \in Nat /\ (k + 1) * w \in Nat
  OBVIOUS
<1>11. (k + 1) * w <= p * w
  <2>1. PICK e \in Nat : p = (k + 1) + e
    <3>1. p - (k + 1) \in Nat /\ p = (k + 1) + (p - (k + 1))
      BY <1>9
    <3> QED
      BY <3>1
  <2>2. ((k + 1) + e) * w = (k + 1) * w + e * w /\ e * w \in Nat
    OBVIOUS
  <2> QED
    BY <1>10, <2>1, <2>2
<1>12. NodeInterval(n) = <<k * w, (k + 1) * w>>
  BY <1>1, <1>5, <1>6, <1>8 DEF NodeInterval
<1>13. p * w = 2^Res
  BY <1>4, <1>5, <1>6
<1>14. k * w \in 0..2^Res /\ (k + 1) * w \in 0..2^Res
  BY <1>3, <1>10, <1>11, <1>13
<1> QED
  BY <1>1, <1>5, <1>6, <1>8, <1>10, <1>12, <1>14

\* What can be said of an interval of integers within the root.
IsRange(r) == r = <<r[1], r[2]>> /\ r[1] \in 0..2^Res /\ r[2] \in 0..2^Res /\ r[1] <= r[2]

\* The interval of a node is a range.
LEMMA NodeRange ==
  ASSUME Res \in Nat, NEW n \in Nodes
  PROVE  IsRange(NodeInterval(n))
<1>1. PICK w \in Nat \ {0}, k \in Nat :
           /\ NodeInterval(n) = <<k * w, (k + 1) * w>>
           /\ k * w \in 0..2^Res /\ (k + 1) * w \in 0..2^Res
           /\ (k + 1) * w = k * w + w
  BY NodeShape
<1>2. PICK a, b : a = k * w /\ b = (k + 1) * w
  OBVIOUS
<1>3. NodeInterval(n) = <<a, b>> /\ a \in 0..2^Res /\ b \in 0..2^Res /\ b = a + w
  BY <1>1, <1>2
<1>4. 2^Res \in Nat
  BY PowerOfTwo
<1>5. a <= b
  BY <1>3, <1>4
<1> QED
  BY <1>3, <1>5 DEF IsRange

\* The children of a node are its halves.
LEMMA ChildHalves ==
  ASSUME Res \in Nat, NEW n \in Nodes, DepthOf(n) < Res
  PROVE  \E a, b, c \in 0..2^Res :
           /\ a <= b /\ b <= c /\ NodeInterval(n) = <<a, c>>
           /\ NodeInterval(2 * n) = <<a, b>> /\ NodeInterval(2 * n + 1) = <<b, c>>
<1>1. PICK d \in 0..Res : d = DepthOf(n)
  BY DepthFacts
<1>2. /\ 2 * n \in Nodes /\ DepthOf(2 * n) = d + 1
      /\ 2 * n + 1 \in Nodes /\ DepthOf(2 * n + 1) = d + 1
  <2>1. \A side \in {0, 1} : 2 * n + side \in Nodes /\ DepthOf(2 * n + side) = d + 1
    BY <1>1, ChildDepth
  <2>2. 2 * n + 0 = 2 * n
    <3>1. n \in Int
      BY DEF Nodes
    <3> QED
      BY <3>1
  <2> QED
    BY <2>1, <2>2
<1>3. d \in Nat /\ Res - (d + 1) \in Nat /\ (Res - (d + 1)) + 1 = Res - d
  BY <1>1
<1>4. 2^(d + 1) = 2 * 2^d /\ 2^d \in Nat /\ 2^(Res - (d + 1)) \in Nat \ {0}
      /\ 2^((Res - (d + 1)) + 1) = 2 * 2^(Res - (d + 1))
  BY <1>3, PowerOfTwo
<1>5. PICK v \in Nat \ {0} : v = 2^(Res - (d + 1))
  BY <1>4
<1>6. 2^(Res - d) = 2 * v
  BY <1>3, <1>4, <1>5
<1>7. PICK w \in Nat \ {0}, k \in Nat :
           /\ w = 2^(Res - d) /\ k = n - 2^d
           /\ NodeInterval(n) = <<k * w, (k + 1) * w>>
           /\ k * w \in 0..2^Res /\ (k + 1) * w \in 0..2^Res
  BY <1>1, NodeShape
<1>8. PICK w1 \in Nat \ {0}, k1 \in Nat :
           /\ w1 = 2^(Res - (d + 1)) /\ k1 = 2 * n - 2^(d + 1)
           /\ NodeInterval(2 * n) = <<k1 * w1, (k1 + 1) * w1>>
           /\ k1 * w1 \in 0..2^Res /\ (k1 + 1) * w1 \in 0..2^Res
  <2>1. \E x \in Nat \ {0}, k1 \in Nat :
           /\ x = 2^(Res - DepthOf(2 * n)) /\ k1 = 2 * n - 2^DepthOf(2 * n)
           /\ NodeInterval(2 * n) = <<k1 * x, (k1 + 1) * x>>
           /\ k1 * x \in 0..2^Res /\ (k1 + 1) * x \in 0..2^Res
    BY <1>2, NodeShape
  <2> QED
    BY <1>2, <2>1
<1>9. PICK w2 \in Nat \ {0}, k2 \in Nat :
           /\ w2 = 2^(Res - (d + 1)) /\ k2 = (2 * n + 1) - 2^(d + 1)
           /\ NodeInterval(2 * n + 1) = <<k2 * w2, (k2 + 1) * w2>>
  <2>1. \E x \in Nat \ {0}, k2 \in Nat :
           /\ x = 2^(Res - DepthOf(2 * n + 1)) /\ k2 = (2 * n + 1) - 2^DepthOf(2 * n + 1)
           /\ NodeInterval(2 * n + 1) = <<k2 * x, (k2 + 1) * x>>
    BY <1>2, NodeShape
  <2> QED
    BY <1>2, <2>1
<1>10. n \in Int
  BY DEF Nodes
<1>11. w1 = v /\ w2 = v /\ w = 2 * v /\ k1 = 2 * k /\ k2 = 2 * k + 1
  <2>1. PICK p \in Nat : p = 2^d
    BY <1>4
  <2>2. k = n - p /\ k1 = 2 * n - 2 * p /\ k2 = (2 * n + 1) - 2 * p
    BY <1>4, <1>7, <1>8, <1>9, <2>1
  <2> QED
    BY <1>5, <1>6, <1>7, <1>8, <1>9, <1>10, <2>1, <2>2
<1>12. /\ k * w = (2 * k) * v /\ (k + 1) * w = (2 * k + 2) * v
       /\ (2 * k + 1) * v = (2 * k) * v + v /\ (2 * k + 2) * v = (2 * k + 1) * v + v
       /\ (2 * k) * v \in Nat
  <2>1. k * (2 * v) = (2 * k) * v
    OBVIOUS
  <2>2. (k + 1) * (2 * v) = (2 * k + 2) * v
    OBVIOUS
  <2>3. (2 * k + 1) * v = (2 * k) * v + v /\ (2 * k + 2) * v = (2 * k + 1) * v + v /\ (2 * k) * v \in Nat
    OBVIOUS
  <2> QED
    BY <1>11, <2>1, <2>2, <2>3
<1>13. PICK a, b, c : a = (2 * k) * v /\ b = (2 * k + 1) * v /\ c = (2 * k + 2) * v
  OBVIOUS
<1>14. NodeInterval(n) = <<a, c>>
  BY <1>7, <1>12, <1>13
<1>15. NodeInterval(2 * n) = <<a, b>>
  BY <1>8, <1>11, <1>13
<1>16. NodeInterval(2 * n + 1) = <<b, c>>
  <2>1. (2 * k + 1) + 1 = 2 * k + 2
    OBVIOUS
  <2> QED
    BY <1>9, <1>11, <1>13, <2>1
<1>17. a \in 0..2^Res /\ b \in 0..2^Res /\ c \in 0..2^Res /\ a <= b /\ b <= c
  <2>1. b = a + v /\ c = b + v /\ a \in Nat
    BY <1>12, <1>13
  <2>2. c \in 0..2^Res
    BY <1>7, <1>12, <1>13
  <2>3. 2^Res \in Nat
    BY PowerOfTwo
  <2> QED
    BY <2>1, <2>2, <2>3
<1> QED
  BY <1>14, <1>15, <1>16, <1>17

-----------------------------------------------------------------------------
(* How many items of a list hold a unit.                                   *)

Hits(items, u) == Cardinality(CoveredBy(items, u))
One(item, u) == IF u \in UnitsOf(item.iv) THEN 1 ELSE 0

Shifted(a, B) == {a + i : i \in B}

\* The positions of a first part and those of a second part, shifted, are
\* counted together.
LEMMA ShiftCount ==
  ASSUME NEW a \in Nat, NEW A \in SUBSET (1..a),
         NEW B \in SUBSET (Nat \ {0}), IsFiniteSet(B)
  PROVE  Cardinality(A \cup Shifted(a, B)) = Cardinality(A) + Cardinality(B)
<1> DEFINE f == [i \in B |-> a + i]
           D == {a + i : i \in B}
<1>1. IsFiniteSet(A) /\ IsFiniteSet(B)
  <2>1. IsFiniteSet(1..a)
    BY FS_Interval
  <2> QED
    BY <2>1, FS_Subset
<1>2. f \in Bijection(B, D)
  <2>1. f \in [B -> D]
    OBVIOUS
  <2>2. \A i, j \in B : f[i] = f[j] => i = j
    OBVIOUS
  <2>3. \A x \in D : \E i \in B : f[i] = x
    OBVIOUS
  <2> HIDE DEF f, D
  <2> QED
    BY <2>1, <2>2, <2>3 DEF Bijection, Injection, Surjection, IsInjective
<1>3. IsFiniteSet(D) /\ Cardinality(D) = Cardinality(B)
  <2> HIDE DEF f, D
  <2> QED
    BY <1>1, <1>2, FS_Bijection DEF ExistsBijection
<1>5. A \cap D = {}
  <2>1. \A i \in B : a + i \notin 1..a
    OBVIOUS
  <2> QED
    BY <2>1
<1>6. Cardinality(A \cap D) = 0
  BY <1>5, FS_EmptySet
<1>7. Cardinality(A) \in Nat /\ Cardinality(D) \in Nat /\ Cardinality(B) \in Nat
  BY <1>1, <1>3, FS_CardinalityType
<1>8. Cardinality(A \cup D) = Cardinality(A) + Cardinality(D) - Cardinality(A \cap D)
  BY <1>1, <1>3, FS_Union
<1> HIDE DEF D
<1>9. Cardinality(A \cup D) = Cardinality(A) + Cardinality(B)
  BY <1>3, <1>6, <1>7, <1>8
<1>10. D = Shifted(a, B)
  BY DEF D, Shifted
<1> QED
  BY <1>9, <1>10

\* The count is a number, and not 0 exactly when some item holds the unit.
LEMMA HitsType ==
  ASSUME NEW s, IsSeq(s), NEW u
  PROVE  /\ CoveredBy(s, u) \in SUBSET (1..Len(s)) /\ Hits(s, u) \in Nat
         /\ IsFiniteSet(CoveredBy(s, u))
         /\ Hits(s, u) >= 1 <=> \E x \in Range(s) : u \in UnitsOf(x.iv)
<1>1. Len(s) \in Nat /\ DOMAIN s = 1..Len(s)
  BY SeqShape
<1>2. CoveredBy(s, u) \in SUBSET (1..Len(s))
  BY <1>1 DEF CoveredBy
<1>3. IsFiniteSet(CoveredBy(s, u))
  <2>1. IsFiniteSet(1..Len(s))
    BY <1>1, FS_Interval
  <2> QED
    BY <1>2, <2>1, FS_Subset
<1>4. Hits(s, u) \in Nat /\ (Hits(s, u) = 0 <=> CoveredBy(s, u) = {})
  BY <1>3, FS_CardinalityType, FS_EmptySet DEF Hits
<1>5. CoveredBy(s, u) # {} <=> \E x \in Range(s) : u \in UnitsOf(x.iv)
  <2>1. ASSUME NEW i \in CoveredBy(s, u) PROVE \E x \in Range(s) : u \in UnitsOf(x.iv)
    <3>1. s[i] \in Range(s) /\ u \in UnitsOf(s[i].iv)
      BY <1>1, SeqShape DEF CoveredBy
    <3> QED
      BY <3>1
  <2>2. ASSUME NEW x \in Range(s), u \in UnitsOf(x.iv) PROVE CoveredBy(s, u) # {}
    <3>1. PICK i \in 1..Len(s) : s[i] = x
      BY SeqShape
    <3>2. i \in CoveredBy(s, u)
      BY <1>1, <2>2, <3>1 DEF CoveredBy
    <3> QED
      BY <3>2
  <2> QED
    BY <2>1, <2>2
<1> QED
  BY <1>2, <1>3, <1>4, <1>5

\* Nothing is in the empty list.
LEMMA HitsEmpty ==
  ASSUME NEW u
  PROVE  Hits(<<>>, u) = 0
<1>1. CoveredBy(<<>>, u) = {}
  BY DEF CoveredBy
<1> QED
  BY <1>1, FS_EmptySet DEF Hits

\* A list of one item.
LEMMA HitsSingle ==
  ASSUME NEW x, NEW u
  PROVE  Hits(<<x>>, u) = One(x, u)
<1>1. DOMAIN <<x>> = {1} /\ <<x>>[1] = x
  OBVIOUS
<1>2. CASE u \in UnitsOf(x.iv)
  <2>1. CoveredBy(<<x>>, u) = {1}
    BY <1>1, <1>2 DEF CoveredBy
  <2> QED
    BY <1>2, <2>1, FS_Singleton DEF Hits, One
<1>3. CASE u \notin UnitsOf(x.iv)
  <2>1. CoveredBy(<<x>>, u) = {}
    BY <1>1, <1>3 DEF CoveredBy
  <2> QED
    BY <1>3, <2>1, FS_EmptySet DEF Hits, One
<1> QED
  BY <1>2, <1>3

\* Two lists, one after the other.
LEMMA HitsConcat ==
  ASSUME NEW s, NEW t, IsSeq(s), IsSeq(t), NEW u
  PROVE  Hits(s \o t, u) = Hits(s, u) + Hits(t, u)
<1>1. /\ Len(s) \in Nat /\ Len(t) \in Nat /\ IsSeq(s \o t)
      /\ DOMAIN s = 1..Len(s) /\ DOMAIN t = 1..Len(t)
      /\ DOMAIN (s \o t) = 1..Len(s) + Len(t)
      /\ \A i \in 1..Len(s) : (s \o t)[i] = s[i]
      /\ \A i \in 1..Len(t) : (s \o t)[Len(s) + i] = t[i]
  BY SeqConcat, SeqShape
<1> DEFINE A == CoveredBy(s, u)
           B == CoveredBy(t, u)
           C == CoveredBy(s \o t, u)
<1>2. /\ A \in SUBSET (1..Len(s)) /\ B \in SUBSET (1..Len(t)) /\ C \in SUBSET (1..Len(s) + Len(t))
  BY <1>1 DEF CoveredBy
<1>3. \A i \in 1..Len(s) : i \in C <=> i \in A
  <2> TAKE i \in 1..Len(s)
  <2>1. i \in 1..Len(s) + Len(t)
    BY <1>1
  <2> QED
    BY <1>1, <2>1 DEF CoveredBy
<1>4. \A i \in 1..Len(t) : Len(s) + i \in C <=> i \in B
  <2> TAKE i \in 1..Len(t)
  <2>1. Len(s) + i \in 1..Len(s) + Len(t)
    BY <1>1
  <2> QED
    BY <1>1, <2>1 DEF CoveredBy
<1> HIDE DEF A, B, C
<1>5. C = A \cup Shifted(Len(s), B)
  <2>1. ASSUME NEW x \in C PROVE x \in A \/ \E i \in B : x = Len(s) + i
    <3>1. CASE x \in 1..Len(s)
      BY <1>3, <2>1, <3>1
    <3>2. CASE x \notin 1..Len(s)
      <4>1. x - Len(s) \in 1..Len(t) /\ Len(s) + (x - Len(s)) = x
        BY <1>1, <1>2, <3>2
      <4>2. x - Len(s) \in B
        BY <1>4, <4>1
      <4> QED
        BY <4>1, <4>2
    <3> QED
      BY <3>1, <3>2
  <2>2. \A x \in A : x \in C
    BY <1>2, <1>3
  <2>3. \A i \in B : Len(s) + i \in C
    BY <1>2, <1>4
  <2> QED
    BY <2>1, <2>2, <2>3 DEF Shifted
<1>6. IsFiniteSet(B) /\ B \in SUBSET (Nat \ {0})
  <2>1. IsFiniteSet(1..Len(t)) /\ \A i \in 1..Len(t) : i \in Nat \ {0}
    BY <1>1, FS_Interval
  <2> QED
    BY <1>2, <2>1, FS_Subset
<1>7. Cardinality(C) = Cardinality(A) + Cardinality(B)
  BY <1>1, <1>2, <1>5, <1>6, ShiftCount
<1> QED
  BY <1>7 DEF Hits, A, B, C

\* One item more.
LEMMA HitsAppend ==
  ASSUME NEW s, IsSeq(s), NEW x, NEW u
  PROVE  Hits(Append(s, x), u) = Hits(s, u) + One(x, u)
<1>1. Append(s, x) = s \o <<x>>
  <2>1. s \in Seq(Range(s) \cup {x}) /\ x \in Range(s) \cup {x}
    BY SeqWider
  <2> QED
    BY <2>1, AppendIsConcat
<1>2. IsSeq(<<x>>)
  BY SeqSingle
<1> QED
  BY <1>1, <1>2, HitsConcat, HitsSingle

\* The first item and the others.
LEMMA HitsTail ==
  ASSUME NEW s, IsSeq(s), s # <<>>, NEW u
  PROVE  Hits(s, u) = One(Head(s), u) + Hits(Tail(s), u)
<1>1. IsSeq(Tail(s)) /\ Head(s) \in Range(s) /\ Len(s) \in Nat \ {0} /\ Head(s) = s[1]
  BY SeqTail
<1>2. s \in Seq(Range(s)) /\ 1 \in 1..Len(s) /\ Len(s) \in 1..Len(s)
  BY <1>1 DEF IsSeq
<1>3. SubSeq(s, 1, Len(s)) = <<s[1]>> \o SubSeq(s, 1 + 1, Len(s))
  BY <1>2, SubSeqRecursiveFirst
<1>4. SubSeq(s, 1, Len(s)) = s /\ Tail(s) = SubSeq(s, 2, Len(s))
  BY <1>2, SubSeqFull, TailIsSubSeq
<1>5. s = <<Head(s)>> \o Tail(s)
  BY <1>1, <1>3, <1>4
<1>6. IsSeq(<<Head(s)>>)
  BY SeqSingle
<1>7. /\ Hits(<<Head(s)>> \o Tail(s), u) = Hits(<<Head(s)>>, u) + Hits(Tail(s), u)
      /\ Hits(<<Head(s)>>, u) = One(Head(s), u)
  BY <1>1, <1>6, HitsConcat, HitsSingle
<1> QED
  BY <1>5, <1>7

\* A list cut in two, and a first part that is one item longer.
LEMMA HitsCut ==
  ASSUME NEW s, IsSeq(s), NEW n \in 0..Len(s), NEW u
  PROVE  /\ IsSeq(SubSeq(s, 1, n)) /\ IsSeq(SubSeq(s, n + 1, Len(s)))
         /\ Range(SubSeq(s, n + 1, Len(s))) \subseteq Range(s)
         /\ Hits(s, u) = Hits(SubSeq(s, 1, n), u) + Hits(SubSeq(s, n + 1, Len(s)), u)
<1>1. s \in Seq(Range(s)) /\ Len(s) \in Nat /\ \A i \in 1..Len(s) : s[i] \in Range(s)
  BY SeqShape DEF IsSeq
<1>2. IsSeq(SubSeq(s, 1, n))
  BY SeqPrefix
<1>3. IsSeq(SubSeq(s, n + 1, Len(s))) /\ Range(SubSeq(s, n + 1, Len(s))) \subseteq Range(s)
  <2>1. n + 1 \in Int /\ Len(s) \in Int /\ \A i \in n + 1..Len(s) : s[i] \in Range(s)
    BY <1>1
  <2>2. SubSeq(s, n + 1, Len(s)) \in Seq(Range(s))
    BY <2>1, SubSeqProperties
  <2> QED
    BY <2>2, SeqTyped
<1>4. SubSeq(s, 1, n) \o SubSeq(s, n + 1, Len(s)) = SubSeq(s, 1, Len(s))
  <2>1. 1 \in 1..Len(s) + 1 /\ n \in 1 - 1..Len(s) /\ Len(s) \in n..Len(s)
    BY <1>1
  <2> QED
    BY <1>1, <2>1, ConcatAdjacentSubSeq
<1>5. SubSeq(s, 1, Len(s)) = s
  BY <1>1, SubSeqFull
<1>6. Hits(SubSeq(s, 1, n) \o SubSeq(s, n + 1, Len(s)), u)
        = Hits(SubSeq(s, 1, n), u) + Hits(SubSeq(s, n + 1, Len(s)), u)
  BY <1>2, <1>3, HitsConcat
<1> QED
  BY <1>2, <1>3, <1>4, <1>5, <1>6

\* A prefix one item longer has the hit of that item more.
LEMMA HitsLonger ==
  ASSUME NEW s, IsSeq(s), NEW n \in 1..Len(s), NEW u
  PROVE  Hits(SubSeq(s, 1, n), u) = Hits(SubSeq(s, 1, n - 1), u) + One(s[n], u)
<1>1. s \in Seq(Range(s)) /\ Len(s) \in Nat
  BY SeqShape DEF IsSeq
<1>2. 1 \in 1..Len(s) /\ n \in 1..Len(s) /\ n - 1 \in 0..Len(s)
  BY <1>1
<1>3. SubSeq(s, 1, n) = SubSeq(s, 1, n - 1) \o <<s[n]>>
  BY <1>1, <1>2, SubSeqRecursiveSecond
<1>4. IsSeq(SubSeq(s, 1, n - 1)) /\ IsSeq(<<s[n]>>)
  BY <1>2, SeqPrefix, SeqSingle
<1>5. /\ Hits(SubSeq(s, 1, n - 1) \o <<s[n]>>, u) = Hits(SubSeq(s, 1, n - 1), u) + Hits(<<s[n]>>, u)
      /\ Hits(<<s[n]>>, u) = One(s[n], u)
  BY <1>4, HitsConcat, HitsSingle
<1> QED
  BY <1>3, <1>5

-----------------------------------------------------------------------------
(* Lists joined.                                                           *)

\* What joining lists gives, and that it counts a unit as often as its parts.
LEMMA JoinedFacts ==
  ASSUME NEW ss, IsSeq(ss), \A i \in 1..Len(ss) : IsSeq(ss[i])
  PROVE  /\ IsSeq(FlattenSeq(ss))
         /\ \A x \in Range(FlattenSeq(ss)) : \E i \in 1..Len(ss) : x \in Range(ss[i])
         /\ \A items, u : (/\ IsSeq(items) /\ Len(items) = Len(ss)
                           /\ \A i \in 1..Len(ss) : Hits(ss[i], u) = One(items[i], u))
                             => Hits(FlattenSeq(ss), u) = Hits(items, u)
<1>1. Len(ss) \in Nat
  BY SeqShape
<1>2. CASE Len(ss) = 0
  <2>1. FlattenSeq(ss) = ss /\ Range(ss) = {} /\ ss = <<>>
    <3>1. FlattenSeq(ss) = ss
      BY <1>2 DEF FlattenSeq
    <3>2. ss \in Seq(Range(ss))
      BY DEF IsSeq
    <3>3. ss = <<>>
      BY <1>2, <3>2, EmptySeq
    <3> QED
      BY <3>1, <3>3, SeqEmpty
  <2>2. ASSUME NEW items, NEW u, IsSeq(items), Len(items) = Len(ss)
        PROVE  Hits(FlattenSeq(ss), u) = Hits(items, u)
    <3>1. items \in Seq(Range(items))
      BY <2>2 DEF IsSeq
    <3>2. items = <<>>
      BY <1>2, <2>2, <3>1, EmptySeq
    <3> QED
      BY <2>1, <3>2
  <2> QED
    BY <2>1, <2>2
<1>3. CASE Len(ss) # 0
  <2> DEFINE n == Len(ss)
             U == UNION {Range(ss[i]) : i \in 1..n}
             D(g) == g = [i \in 1..n |-> IF i = 1 THEN ss[i] ELSE g[i - 1] \o ss[i]]
             step == [p \in (1..n) \X Seq(U) |-> p[2] \o ss[p[1]]]
  <2>1. \A i \in 1..n : ss[i] \in Seq(U)
    <3> TAKE i \in 1..n
    <3>1. IsSeq(ss[i]) /\ Range(ss[i]) \subseteq U
      OBVIOUS
    <3> QED
      BY <3>1, SeqWider
  <2>2. <<>> \in Seq(U)
    BY EmptySeq
  <2>3. \A k \in 1..n : \A x \in Seq(U) : step[<<k, x>>] \in Seq(U) /\ step[<<k, x>>] = x \o ss[k]
    <3> TAKE k \in 1..n
    <3> TAKE x \in Seq(U)
    <3>1. x \o ss[k] \in Seq(U)
      BY <2>1, ConcatProperties
    <3>2. step[<<k, x>>] = x \o ss[k]
      OBVIOUS
    <3> QED
      BY <3>1, <3>2
  <2> HIDE DEF U, step
  <2>4. n \in Nat
    BY <1>1
  <2>5. PICK g : Computes(g, n, <<>>, step) /\ \A k \in 0..n : g[k] \in Seq(U)
    <3> HIDE DEF n
    <3>1. \A k \in 1..n : \A x \in Seq(U) : step[<<k, x>>] \in Seq(U)
      BY <2>3
    <3> QED
      BY <2>2, <2>4, <3>1, Recursion
  <2>6. \A k \in 1..n : g[k] = g[k - 1] \o ss[k]
    <3> TAKE k \in 1..n
    <3>1. k \in 0..n /\ k # 0 /\ k - 1 \in 0..n
      OBVIOUS
    <3>2. g[k] = step[<<k, g[k - 1]>>]
      BY <2>5, <3>1 DEF Computes
    <3> QED
      BY <2>3, <2>5, <3>1, <3>2
  <2>7. g[0] = <<>>
    <3>1. 0 \in 0..n
      BY <2>4
    <3> QED
      BY <2>5, <3>1 DEF Computes
  <2> DEFINE f == [i \in 1..n |-> g[i]]
  <2>8. D(f)
    <3>1. \A i \in 1..n : g[i] = IF i = 1 THEN ss[i] ELSE f[i - 1] \o ss[i]
      <4> TAKE i \in 1..n
      <4>1. CASE i = 1
        <5>2. i - 1 = 0
          BY <4>1
        <5>1. g[i] = <<>> \o ss[i]
          BY <2>6, <2>7, <5>2
        <5> QED
          BY <2>1, <4>1, <5>1, ConcatEmptySeq
      <4>2. CASE i # 1
        <5>1. i - 1 \in 1..n
          BY <4>2
        <5> QED
          BY <2>6, <4>2, <5>1
      <4> QED
        BY <4>1, <4>2
    <3> QED
      BY <3>1
  <2> DEFINE h == CHOOSE x : D(x)
  <2>9. D(h)
    <3> HIDE DEF D
    <3> QED
      BY <2>8
  <2>10. FlattenSeq(ss) = h[n]
    BY <1>3 DEF FlattenSeq
  <2>11. \A i \in 1..n : h[i] = IF i = 1 THEN ss[i] ELSE h[i - 1] \o ss[i]
    <3> HIDE DEF h
    <3> QED
      BY <2>9
  <2> HIDE DEF h, f, D
  <2>12. n \in 1..n
    BY <1>3, <2>4
  <2> DEFINE T == {k \in 0..n : k # 0 =>
                      /\ h[k] \in Seq(U)
                      /\ \A x \in Range(h[k]) : \E i \in 1..n : x \in Range(ss[i])}
  <2>13. \A k \in 0..n : k \in T
    <3>1. 0 \in T
      BY <2>4
    <3>2. ASSUME NEW k \in 1..n, k - 1 \in T PROVE k \in T
      <4>1. CASE k = 1
        BY <2>1, <2>11, <4>1
      <4>2. CASE k # 1
        <5>1. /\ h[k - 1] \in Seq(U)
              /\ \A x \in Range(h[k - 1]) : \E i \in 1..n : x \in Range(ss[i])
          BY <3>2, <4>2
        <5>2. h[k] = h[k - 1] \o ss[k]
          BY <2>11, <4>2
        <5>3. h[k] \in Seq(U)
          BY <2>1, <5>1, <5>2, ConcatProperties
        <5>4. IsSeq(h[k - 1]) /\ IsSeq(ss[k])
          BY <5>1, SeqTyped
        <5>5. Range(h[k]) = Range(h[k - 1]) \cup Range(ss[k])
          BY <5>2, <5>4, SeqConcat
        <5> QED
          BY <5>1, <5>3, <5>5
      <4> QED
        BY <4>1, <4>2
    <3> HIDE DEF T, n
    <3> QED
      BY <2>4, <3>1, <3>2, UpTo
  <2>14. \A k \in 1..n : IsSeq(h[k])
    <3> TAKE k \in 1..n
    <3>1. k \in T /\ k # 0
      BY <2>13
    <3> QED
      BY <3>1, SeqTyped
  <2>15. \A x \in Range(h[n]) : \E i \in 1..n : x \in Range(ss[i])
    BY <2>12, <2>13
  <2>16. ASSUME NEW items, NEW u, IsSeq(items), Len(items) = n,
                \A i \in 1..n : Hits(ss[i], u) = One(items[i], u)
         PROVE  Hits(h[n], u) = Hits(items, u)
    <3> DEFINE V == {k \in 0..n : k # 0 => Hits(h[k], u) = Hits(SubSeq(items, 1, k), u)}
    <3>1. 0 \in V
      BY <2>4
    <3>2. ASSUME NEW k \in 1..n, k - 1 \in V PROVE k \in V
      <4>1. Hits(SubSeq(items, 1, k), u) = Hits(SubSeq(items, 1, k - 1), u) + One(items[k], u)
        BY <2>16, HitsLonger
      <4>2. CASE k = 1
        <5>1. SubSeq(items, 1, k - 1) = <<>>
          BY <4>2, SubSeqEmpty
        <5>2. One(items[k], u) \in Nat
          BY DEF One
        <5>5. Hits(SubSeq(items, 1, k - 1), u) = 0
          BY <5>1, HitsEmpty
        <5>3. Hits(SubSeq(items, 1, k), u) = One(items[k], u)
          BY <4>1, <5>2, <5>5
        <5>4. h[k] = ss[k]
          BY <2>11, <4>2
        <5> QED
          BY <2>16, <5>3, <5>4
      <4>3. CASE k # 1
        <5>1. Hits(h[k - 1], u) = Hits(SubSeq(items, 1, k - 1), u)
          BY <3>2, <4>3
        <5>4. h[k] = h[k - 1] \o ss[k]
          BY <2>11, <4>3
        <5>5. k - 1 \in 1..n
          BY <2>4, <4>3
        <5>2. h[k] = h[k - 1] \o ss[k] /\ k - 1 \in 1..n
          BY <5>4, <5>5
        <5>3. Hits(h[k], u) = Hits(h[k - 1], u) + Hits(ss[k], u)
          BY <2>14, <5>2, HitsConcat
        <5> QED
          BY <2>16, <4>1, <5>1, <5>3
      <4> QED
        BY <4>2, <4>3
    <3>3. n \in V
      <4> HIDE DEF V
      <4>1. \A k \in 0..n : k \in V
        <5> HIDE DEF n
        <5> QED
          BY <2>4, <3>1, <3>2, UpTo
      <4> QED
        BY <2>12, <4>1
    <3>4. SubSeq(items, 1, n) = items
      <4>1. items \in Seq(Range(items))
        BY <2>16 DEF IsSeq
      <4> QED
        BY <2>16, <4>1, SubSeqFull
    <3>5. n # 0
      BY <1>3
    <3> QED
      BY <3>3, <3>4, <3>5
  <2> QED
    BY <2>10, <2>12, <2>14, <2>15, <2>16
<1> QED
  BY <1>1, <1>2, <1>3

-----------------------------------------------------------------------------
(* A call and its items.                                                   *)

\* What is known of the arguments of a call.
LEMMA CallFacts ==
  ASSUME cfg \in Sweeps
  PROVE  /\ Res \in Nat /\ 2^Res \in Nat
         /\ IsRange(cfg.domain)
         /\ cfg.start \in 0..Res /\ cfg.max \in 0..Res /\ cfg.start <= cfg.max
         /\ cfg.virtual \in BOOLEAN /\ cfg.callback \in BOOLEAN /\ cfg.mayStop \in BOOLEAN
         /\ cfg.maxFree \in Nat /\ cfg.maxColl \in Nat
         /\ cfg.batch \in Nat \ {0} /\ cfg.threads \in Nat \ {0}
         /\ cfg.pruneDepth \in Int
         /\ cfg.checkpoints \in SUBSET (0..Res)
         /\ IsSeq(cfg.obstacles)
         /\ \A i \in DOMAIN cfg.obstacles : cfg.obstacles[i][1] \in Int /\ cfg.obstacles[i][2] \in Int
         /\ IsSeq(cfg.roots)
         /\ \A i \in DOMAIN cfg.roots : IsRange(cfg.roots[i])
         /\ cfg.tree \subseteq Nodes
<1>1. cfg \in SweepType /\ SweepFits(cfg) /\ Res \in Nat
  BY SweepsAssumption
<1>2. /\ cfg.obstacles \in Seq((0..2^Res) \X (0..2^Res))
      /\ cfg.domain \in (0..2^Res) \X (0..2^Res)
      /\ cfg.roots \in Seq((0..2^Res) \X (0..2^Res))
      /\ cfg.start \in 0..Res /\ cfg.max \in 0..Res
      /\ cfg.virtual \in BOOLEAN /\ cfg.callback \in BOOLEAN /\ cfg.mayStop \in BOOLEAN
      /\ cfg.maxFree \in Nat /\ cfg.maxColl \in Nat
      /\ cfg.batch \in Nat \ {0} /\ cfg.threads \in Nat \ {0}
      /\ cfg.pruneDepth \in -1..Res
      /\ cfg.checkpoints \in SUBSET (0..Res)
      /\ cfg.tree \in SUBSET Nodes
  BY <1>1 DEF SweepType
<1>3. 2^Res \in Nat
  BY <1>1, PowerOfTwo
<1>4. IsRange(cfg.domain)
  BY <1>1, <1>2, SMTT(30) DEF SweepFits, IsRange
<1>5. /\ IsSeq(cfg.obstacles)
      /\ \A i \in DOMAIN cfg.obstacles : cfg.obstacles[i][1] \in Int /\ cfg.obstacles[i][2] \in Int
  <2>1. IsSeq(cfg.obstacles) /\ Range(cfg.obstacles) \subseteq (0..2^Res) \X (0..2^Res)
    BY <1>2, SeqTyped
  <2>2. \A i \in DOMAIN cfg.obstacles : cfg.obstacles[i] \in (0..2^Res) \X (0..2^Res)
    BY <2>1 DEF Range
  <2> QED
    BY <2>1, <2>2
<1>6. IsSeq(cfg.roots) /\ \A i \in DOMAIN cfg.roots : IsRange(cfg.roots[i])
  <2>1. IsSeq(cfg.roots) /\ Range(cfg.roots) \subseteq (0..2^Res) \X (0..2^Res)
    BY <1>2, SeqTyped
  <2>2. \A i \in DOMAIN cfg.roots : cfg.roots[i] \in (0..2^Res) \X (0..2^Res)
    BY <2>1 DEF Range
  <2> QED
    BY <1>1, <2>1, <2>2 DEF SweepFits, IsRange
<1>7. cfg.start <= cfg.max
  BY <1>1 DEF SweepFits
<1>8. cfg.pruneDepth \in Int
  BY <1>1, <1>2
<1> QED
  BY <1>1, <1>2, <1>3, <1>4, <1>5, <1>6, <1>7, <1>8

\* What clipping to a range keeps.
LEMMA ClipFacts ==
  ASSUME Res \in Nat, NEW r, NEW s, IsRange(r), IsRange(s)
  PROVE  /\ Overlaps(r, s) => /\ IsRange(Clip(r, s)) /\ Clip(Clip(r, s), s) = Clip(r, s)
                              /\ r[1] <= Clip(r, s)[1] /\ Clip(r, s)[2] <= r[2]
                              /\ Overlaps(Clip(r, s), s)
         /\ \A u \in UnitsOf(s) : u \in UnitsOf(Clip(r, s)) <=> u \in UnitsOf(r)
         /\ ~Overlaps(r, s) => \A u \in UnitsOf(s) : u \notin UnitsOf(r)
<1>1. PICK a, b, c, d \in Int : r = <<a, b>> /\ s = <<c, d>> /\ a <= b /\ c <= d
                                /\ a \in 0..2^Res /\ b \in 0..2^Res /\ c \in 0..2^Res /\ d \in 0..2^Res
  <2>1. 2^Res \in Nat
    BY PowerOfTwo
  <2> QED
    BY <2>1 DEF IsRange
<1>2. PICK x, y \in Int : x = (IF a < c THEN c ELSE a) /\ y = (IF b > d THEN d ELSE b)
  OBVIOUS
<1>3. Clip(r, s) = <<x, y>>
  BY <1>1, <1>2 DEF Clip
<1>4. Overlaps(r, s) <=> a <= d /\ c <= b
  BY <1>1 DEF Overlaps
<1>5. ASSUME Overlaps(r, s)
      PROVE  /\ IsRange(Clip(r, s)) /\ Clip(Clip(r, s), s) = Clip(r, s)
             /\ r[1] <= Clip(r, s)[1] /\ Clip(r, s)[2] <= r[2]
             /\ Overlaps(Clip(r, s), s)
  <2>1. x <= y /\ x \in 0..2^Res /\ y \in 0..2^Res /\ a <= x /\ y <= b /\ x <= d /\ c <= y /\ c <= x /\ y <= d
    BY <1>1, <1>2, <1>4, <1>5
  <2>2. IsRange(<<x, y>>)
    BY <2>1 DEF IsRange
  <2>3. Clip(<<x, y>>, <<c, d>>) = <<x, y>>
    BY <2>1 DEF Clip
  <2>4. Overlaps(<<x, y>>, <<c, d>>)
    BY <2>1 DEF Overlaps
  <2> QED
    BY <1>1, <1>3, <2>1, <2>2, <2>3, <2>4
<1>6. UnitsOf(r) = (a + 1)..b /\ UnitsOf(s) = (c + 1)..d /\ UnitsOf(Clip(r, s)) = (x + 1)..y
  BY <1>1, <1>3 DEF UnitsOf
<1>7. \A u \in (c + 1)..d : u \in (x + 1)..y <=> u \in (a + 1)..b
  BY <1>2
<1>8. ~Overlaps(r, s) => \A u \in (c + 1)..d : u \notin (a + 1)..b
  BY <1>4
<1> QED
  BY <1>5, <1>6, <1>7, <1>8

\* An item lies in the cell of its node, whole or cut to the domain, unless
\* it belongs to another copy of the root.
Held(x) ==
  /\ x = [node |-> x.node, iv |-> x.iv] /\ x.node \in Nodes /\ IsRange(x.iv)
  /\ ~cfg.virtual => \/ x.iv = NodeInterval(x.node)
                     \/ x.iv = Clip(NodeInterval(x.node), cfg.domain)
AllHeld(items) == IsSeq(items) /\ \A x \in Range(items) : Held(x)

\* An item has the units of the domain that the cell of its node has.
LEMMA HeldUnits ==
  ASSUME cfg \in Sweeps, NEW x, Held(x), ~cfg.virtual
  PROVE  \A u \in AllUnits : u \in UnitsOf(x.iv) <=> u \in UnitsOf(NodeInterval(x.node))
<1>1. IsRange(cfg.domain) /\ Res \in Nat
  BY CallFacts
<1>2. IsRange(NodeInterval(x.node))
  BY <1>1, NodeRange DEF Held
<1> QED
  BY <1>1, <1>2, ClipFacts DEF Held, AllUnits

\* The item cut to the domain, as it is recorded.
LEMMA HeldClip ==
  ASSUME cfg \in Sweeps, NEW x, Held(x), Overlaps(x.iv, cfg.domain)
  PROVE  /\ Held(Item(x.node, Clip(x.iv, cfg.domain)))
         /\ \A u \in AllUnits : One(Item(x.node, Clip(x.iv, cfg.domain)), u) = One(x, u)
         /\ ~cfg.virtual => Clip(x.iv, cfg.domain) = Clip(NodeInterval(x.node), cfg.domain)
<1>1. IsRange(cfg.domain) /\ Res \in Nat
  BY CallFacts
<1>2. IsRange(x.iv) /\ IsRange(NodeInterval(x.node)) /\ x.node \in Nodes
  BY <1>1, NodeRange DEF Held
<1>3. IsRange(Clip(x.iv, cfg.domain))
  BY <1>1, <1>2, ClipFacts
<1>4. ~cfg.virtual => Clip(x.iv, cfg.domain) = Clip(NodeInterval(x.node), cfg.domain)
  <2>1. SUFFICES ASSUME ~cfg.virtual, x.iv = Clip(NodeInterval(x.node), cfg.domain)
                 PROVE  Clip(x.iv, cfg.domain) = Clip(NodeInterval(x.node), cfg.domain)
    BY DEF Held
  <2>2. CASE Overlaps(NodeInterval(x.node), cfg.domain)
    BY <1>1, <1>2, <2>1, <2>2, ClipFacts
  <2>3. CASE ~Overlaps(NodeInterval(x.node), cfg.domain)
    <3>1. PICK a, b, c, d \in Int : NodeInterval(x.node) = <<a, b>> /\ cfg.domain = <<c, d>> /\ a <= b /\ c <= d
      <4>1. 2^Res \in Nat
        BY <1>1, PowerOfTwo
      <4> QED
        BY <1>1, <1>2, <4>1 DEF IsRange
    <3>2. ~(a <= d /\ c <= b)
      BY <2>3, <3>1 DEF Overlaps
    <3>3. Clip(NodeInterval(x.node), cfg.domain)
            = <<IF a < c THEN c ELSE a, IF b > d THEN d ELSE b>>
      BY <3>1 DEF Clip
    <3>4. (IF a < c THEN c ELSE a) <= (IF b > d THEN d ELSE b)
      BY <1>2, <2>1, <3>3 DEF IsRange
    <3> QED
      BY <3>1, <3>2, <3>4
  <2> QED
    BY <2>2, <2>3
<1>5. Item(x.node, Clip(x.iv, cfg.domain)).node = x.node /\ Item(x.node, Clip(x.iv, cfg.domain)).iv = Clip(x.iv, cfg.domain)
  BY DEF Item
<1>6. Held(Item(x.node, Clip(x.iv, cfg.domain)))
  BY <1>2, <1>3, <1>4, <1>5 DEF Held, Item
<1>7. \A u \in AllUnits : One(Item(x.node, Clip(x.iv, cfg.domain)), u) = One(x, u)
  BY <1>1, <1>2, <1>5, ClipFacts DEF One, AllUnits
<1> QED
  BY <1>4, <1>6, <1>7

\* Dropping what lies outside the domain drops no unit of it.
LEMMA InDomainFacts ==
  ASSUME cfg \in Sweeps, NEW items, AllHeld(items)
  PROVE  /\ AllHeld(InDomain(items))
         /\ \A x \in Range(InDomain(items)) : x \in Range(items)
         /\ \A u \in AllUnits : Hits(InDomain(items), u) = Hits(items, u)
<1>1. IsRange(cfg.domain) /\ Res \in Nat
  BY CallFacts
<1>2. IsSeq(items) /\ Len(items) \in Nat /\ DOMAIN items = 1..Len(items)
      /\ \A i \in 1..Len(items) : items[i] \in Range(items) /\ Held(items[i])
  BY SeqShape DEF AllHeld
<1> DEFINE part(i) == IF Overlaps(items[i].iv, cfg.domain) THEN <<items[i]>> ELSE <<>>
           ss == [i \in DOMAIN items |-> part(i)]
<1>3. InDomain(items) = FlattenSeq(ss)
  BY DEF InDomain
<1>4. \A i \in 1..Len(items) : ss[i] = part(i)
  BY <1>2
<1>5. IsSeq(ss) /\ Len(ss) = Len(items)
  <2>1. ss = [i \in 1..Len(items) |-> ss[i]]
    BY <1>2
  <2> HIDE DEF ss
  <2> QED
    BY <1>2, <2>1, SeqFunction
<1>6. \A i \in 1..Len(items) : IsSeq(part(i)) /\ \A x \in Range(part(i)) : x = items[i]
  BY SeqSingle, SeqEmpty
<1>7. ASSUME NEW u \in AllUnits, NEW i \in 1..Len(items)
      PROVE  Hits(part(i), u) = One(items[i], u)
  <2>1. CASE Overlaps(items[i].iv, cfg.domain)
    BY <2>1, HitsSingle
  <2>2. CASE ~Overlaps(items[i].iv, cfg.domain)
    <3>1. IsRange(items[i].iv)
      BY <1>2 DEF Held
    <3>2. u \notin UnitsOf(items[i].iv)
      BY <1>1, <2>2, <3>1, ClipFacts DEF AllUnits
    <3> QED
      BY <2>2, <3>2, HitsEmpty DEF One
  <2> QED
    BY <2>1, <2>2
<1> HIDE DEF part, ss
<1>8. /\ IsSeq(FlattenSeq(ss))
      /\ \A x \in Range(FlattenSeq(ss)) : \E i \in 1..Len(ss) : x \in Range(ss[i])
      /\ \A its, u : (/\ IsSeq(its) /\ Len(its) = Len(ss)
                      /\ \A i \in 1..Len(ss) : Hits(ss[i], u) = One(its[i], u))
                        => Hits(FlattenSeq(ss), u) = Hits(its, u)
  BY <1>4, <1>5, <1>6, JoinedFacts
<1>9. \A x \in Range(InDomain(items)) : x \in Range(items)
  BY <1>2, <1>3, <1>4, <1>5, <1>6, <1>8
<1>10. \A u \in AllUnits : Hits(InDomain(items), u) = Hits(items, u)
  <2> TAKE u \in AllUnits
  <2>1. \A i \in 1..Len(ss) : Hits(ss[i], u) = One(items[i], u)
    BY <1>4, <1>5, <1>7
  <2> QED
    BY <1>2, <1>3, <1>5, <1>8, <2>1
<1> QED
  BY <1>3, <1>8, <1>9, <1>10 DEF AllHeld

\* The children of an item share its units of the domain.
LEMMA ChildrenFacts ==
  ASSUME cfg \in Sweeps, NEW x, Held(x), DepthOf(x.node) < Res
  PROVE  /\ AllHeld(Children(x))
         /\ \A y \in Range(Children(x)) :
              /\ DepthOf(y.node) = DepthOf(x.node) + 1 /\ y.node \div 2 = x.node
              /\ ~cfg.virtual => y.iv = NodeInterval(y.node)
         /\ \A u \in AllUnits : Hits(Children(x), u) = One(x, u)
<1>1. IsRange(cfg.domain) /\ Res \in Nat /\ 2^Res \in Nat
  BY CallFacts
<1>2. x.node \in Nodes /\ IsRange(x.iv)
  BY DEF Held
<1>3. /\ 2 * x.node \in Nodes /\ DepthOf(2 * x.node) = DepthOf(x.node) + 1 /\ (2 * x.node) \div 2 = x.node
      /\ 2 * x.node + 1 \in Nodes /\ DepthOf(2 * x.node + 1) = DepthOf(x.node) + 1
      /\ (2 * x.node + 1) \div 2 = x.node
  <2>1. \A side \in {0, 1} : /\ 2 * x.node + side \in Nodes
                             /\ DepthOf(2 * x.node + side) = DepthOf(x.node) + 1
                             /\ (2 * x.node + side) \div 2 = x.node
    BY <1>1, <1>2, ChildDepth
  <2>2. 2 * x.node + 0 = 2 * x.node
    <3>1. x.node \in Int
      BY <1>2 DEF Nodes
    <3> QED
      BY <3>1
  <2> QED
    BY <2>1, <2>2
<1>4. PICK p, q : /\ Children(x) = <<Item(2 * x.node, p), Item(2 * x.node + 1, q)>>
                  /\ IsRange(p) /\ IsRange(q)
                  /\ ~cfg.virtual => p = NodeInterval(2 * x.node) /\ q = NodeInterval(2 * x.node + 1)
                  /\ \A u \in AllUnits : One(x, u) = (IF u \in UnitsOf(p) THEN 1 ELSE 0)
                                                       + (IF u \in UnitsOf(q) THEN 1 ELSE 0)
  <2>1. CASE cfg.virtual
    <3>1. PICK a, b \in 0..2^Res : x.iv = <<a, b>> /\ a <= b
      BY <1>2 DEF IsRange
    <3>2. PICK m : m = (a + b) \div 2
      OBVIOUS
    <3>3. m \in Int /\ a <= m /\ m <= b /\ a \in Int /\ b \in Int
      BY <1>1, <3>1, <3>2
    <3>4. Children(x) = <<Item(2 * x.node, <<a, m>>), Item(2 * x.node + 1, <<m, b>>)>>
      BY <2>1, <3>1, <3>2 DEF Children
    <3>5. IsRange(<<a, m>>) /\ IsRange(<<m, b>>)
      BY <1>1, <3>3 DEF IsRange
    <3>6. \A u \in Int : One(x, u) = (IF u \in UnitsOf(<<a, m>>) THEN 1 ELSE 0)
                                          + (IF u \in UnitsOf(<<m, b>>) THEN 1 ELSE 0)
      BY <3>1, <3>3 DEF One, UnitsOf
    <3>7. \A u \in AllUnits : u \in Int
      BY <1>1 DEF AllUnits, UnitsOf, IsRange
    <3> QED
      BY <2>1, <3>4, <3>5, <3>6, <3>7
  <2>2. CASE ~cfg.virtual
    <3>1. PICK a, m, b \in 0..2^Res :
           /\ a <= m /\ m <= b /\ NodeInterval(x.node) = <<a, b>>
           /\ NodeInterval(2 * x.node) = <<a, m>> /\ NodeInterval(2 * x.node + 1) = <<m, b>>
      BY <1>1, <1>2, ChildHalves
    <3>2. Children(x) = <<Item(2 * x.node, <<a, m>>), Item(2 * x.node + 1, <<m, b>>)>>
      BY <2>2, <3>1 DEF Children
    <3>3. IsRange(<<a, m>>) /\ IsRange(<<m, b>>)
      BY <3>1 DEF IsRange
    <3>4. ASSUME NEW u \in AllUnits
          PROVE One(x, u) = (IF u \in UnitsOf(<<a, m>>) THEN 1 ELSE 0)
                               + (IF u \in UnitsOf(<<m, b>>) THEN 1 ELSE 0)
      <4>1. u \in UnitsOf(x.iv) <=> u \in UnitsOf(<<a, b>>)
        BY <2>2, <3>1, HeldUnits
      <4>2. u \in Int
        BY <1>1 DEF AllUnits, UnitsOf, IsRange
      <4>3. a \in Int /\ m \in Int /\ b \in Int
        BY <1>1
      <4>4. /\ u \in UnitsOf(<<a, b>>) <=> a + 1 <= u /\ u <= b
            /\ u \in UnitsOf(<<a, m>>) <=> a + 1 <= u /\ u <= m
            /\ u \in UnitsOf(<<m, b>>) <=> m + 1 <= u /\ u <= b
        BY <4>2, <4>3 DEF UnitsOf
      <4> QED
        BY <3>1, <4>1, <4>2, <4>3, <4>4 DEF One
    <3> QED
      BY <2>2, <3>1, <3>2, <3>3, <3>4
  <2> QED
    BY <2>1, <2>2
<1> DEFINE l == Item(2 * x.node, p)
           r == Item(2 * x.node + 1, q)
<1>5. l.node = 2 * x.node /\ l.iv = p /\ r.node = 2 * x.node + 1 /\ r.iv = q
      /\ l = [node |-> l.node, iv |-> l.iv] /\ r = [node |-> r.node, iv |-> r.iv]
  BY DEF Item
<1> HIDE DEF l, r
<1>6. Held(l) /\ Held(r)
  BY <1>3, <1>4, <1>5 DEF Held
<1>7. Children(x) = <<l, r>>
  BY <1>4 DEF l, r
<1>8. IsSeq(Children(x)) /\ Range(Children(x)) = {l, r}
  BY <1>7, SeqPair
<1>9. ASSUME NEW u \in AllUnits PROVE Hits(Children(x), u) = One(x, u)
  <2>1. <<l, r>> = Append(<<l>>, r)
    BY SeqSingle DEF IsSeq
  <2>2. Hits(Append(<<l>>, r), u) = Hits(<<l>>, u) + One(r, u)
    BY SeqSingle, HitsAppend
  <2>3. Hits(<<l>>, u) = One(l, u)
    BY HitsSingle
  <2>4. One(x, u) = One(l, u) + One(r, u)
    BY <1>4, <1>5 DEF One
  <2> QED
    BY <1>7, <2>1, <2>2, <2>3, <2>4
<1> QED
  BY <1>3, <1>4, <1>5, <1>6, <1>8, <1>9 DEF AllHeld

-----------------------------------------------------------------------------
(* The invariant of a sweep.                                               *)

InTree(n, t) == n = Root \/ n \div 2 \in t
TreeGood(t) == t \subseteq Nodes /\ \A n \in t : InTree(n, t)

\* Only such a sweep can have several clusters.
Several == ~cfg.virtual /\ ~cfg.callback
Meets(r, o) == Overlaps(r, cfg.obstacles[o])
\* A collision box that no pruning left is at the maximal depth or stuck.
Deepest(n, t) == DepthOf(n) >= cfg.max \/ n \in cfg.stuck \ t

\* A free box of the cluster g, a collision box and a pending item on a tree t.
FreeGood(x, g) ==
  /\ Held(x)
  /\ \A o \in g : ~Meets(x.iv, o) /\ (Several => ~Meets(NodeInterval(x.node), o))
CollGood(x, t) ==
  /\ Held(x) /\ DepthOf(x.node) <= cfg.max
  /\ ~cfg.virtual => InTree(x.node, t)
  /\ (Several /\ cfg.pruneDepth < 0) => Deepest(x.node, t)
PendGood(x, t, d) ==
  /\ Held(x) /\ DepthOf(x.node) <= d
  /\ ~cfg.virtual => InTree(x.node, t)
  /\ Several => x.iv = NodeInterval(x.node)

CallOK ==
  /\ cfg \in Sweeps
  /\ pc \in {"frontier", "groups", "sweep", "batch", "compose", "done", "threw"}
  /\ level \in 0..cfg.start /\ active \in 0..cfg.max
  /\ stopped \in BOOLEAN /\ deadline \in BOOLEAN /\ (deadline => stopped)
  /\ TreeGood(tree)

\* The clusters hold every obstacle, and no sweep of one is left out unless
\* stopped.
GroupsOK ==
  /\ IsSeq(groups) /\ IsSeq(swept)
  /\ \A g \in 1..Len(groups) : groups[g] \subseteq DOMAIN cfg.obstacles
  /\ IF pc = "frontier" THEN groups = <<>>
     ELSE \A o \in DOMAIN cfg.obstacles : \E g \in 1..Len(groups) : o \in groups[g]
  /\ pc \notin {"frontier", "threw"} => Len(groups) >= 1 /\ (Several \/ Len(groups) = 1)
  /\ Len(swept) <= Len(groups)
  /\ pc \in {"sweep", "batch"} => Len(swept) >= 1 /\ (Several => active = cfg.max)
  /\ (pc \in {"compose", "done"} /\ ~stopped) => Len(swept) = Len(groups)

FrontOK ==
  /\ IsSeq(frontier)
  /\ \A x \in Range(frontier) : PendGood(x, tree, level) /\ (~cfg.virtual => x.iv = NodeInterval(x.node))
  /\ \A u \in AllUnits : Hits(frontier, u) = 1

GroupGood(b, g, t) ==
  /\ b = [free |-> b.free, coll |-> b.coll]
  /\ IsSeq(b.free) /\ IsSeq(b.coll)
  /\ \A x \in Range(b.free) : FreeGood(x, g)
  /\ \A x \in Range(b.coll) : CollGood(x, t)
ListsOK ==
  /\ \A g \in 1..Len(swept) : GroupGood(swept[g], groups[g], tree)
  /\ IsSeq(pending) /\ \A x \in Range(pending) : PendGood(x, tree, cfg.max)
  /\ pc \notin {"sweep", "batch"} => pending = <<>>

\* A verdict of a worker is that of its item.
BatchOK ==
  IF pc = "batch"
  THEN /\ cfg.virtual
       /\ IsSeq(batch) /\ Len(batch) <= Len(pending)
       /\ \A i \in 1..Len(batch) :
            batch[i] = "none" \/ batch[i] = IF CertifiedFree(Group, pending[i].iv) THEN "free" ELSE "maybe"
  ELSE batch = <<>>

\* How many owners a unit has: one, or none when something may be lost.
NoCaps == cfg.maxFree = 0 /\ cfg.maxColl = 0
Owned(n, exact) == n <= 1 /\ (exact => n = 1)
SumOK ==
  swept # <<>> => \A u \in AllUnits :
    Owned(Hits(pending, u) + Hits(Boxes.free, u) + Hits(Boxes.coll, u), ~stopped /\ NoCaps)

\* A unit within an obstacle of a cluster stays pending until it is in one of
\* the cluster's collision boxes.
Blocked(g, u) == \E o \in g : u \in UnitsOf(cfg.obstacles[o])
CoverOK ==
  (~stopped /\ cfg.maxColl = 0 /\ ~cfg.callback) =>
    \A g \in 1..Len(swept) : \A u \in AllUnits :
      Blocked(groups[g], u) =>
        Hits(swept[g].coll, u) + (IF g = Len(swept) THEN Hits(pending, u) ELSE 0) >= 1

\* The flags of an entry of the compose queue are true of its node.
EntryGood(x) ==
  /\ x = [node |-> x.node, free |-> x.free, coll |-> x.coll] /\ x.node \in Nodes
  /\ \A g \in x.free : g \in 1..Len(groups) /\ \A o \in groups[g] : ~Meets(NodeInterval(x.node), o)
  /\ x.coll \subseteq 1..Len(groups)
  /\ cfg.pruneDepth < 0 => x.coll = {}
Cells(q) == [i \in DOMAIN q |-> Item(q[i].node, NodeInterval(q[i].node))]
QueueOK ==
  /\ IsSeq(queue) /\ \A x \in Range(queue) : EntryGood(x)
  /\ pc \notin {"compose", "done"} => queue = <<>>
  /\ pc = "done" => queue = <<>> \/ Len(groups) = 1
  /\ (pc \in {"compose", "done"} /\ Len(groups) # 1) =>
       \A u \in AllUnits : Owned(Hits(Cells(queue), u) + Hits(result.free, u) + Hits(result.coll, u), ~stopped)

BlameAll == cfg.pruneDepth < 0 /\ (cfg.maxColl = 0 \/ Len(groups) = 1)
BlameGood(x) ==
  \A o \in DOMAIN cfg.obstacles : UnitsOf(Clip(x.iv, cfg.obstacles[o])) # {} => o \in x.blame
ResultOK ==
  /\ result = [free |-> result.free, coll |-> result.coll] /\ IsSeq(result.free) /\ IsSeq(result.coll)
  /\ (pc \notin {"compose", "done"} \/ (pc = "compose" /\ Len(groups) = 1)) => result = NoBoxes
  /\ \A x \in Range(result.free) : \A o \in DOMAIN cfg.obstacles : ~Meets(x.iv, o)
  /\ BlameAll => \A x \in Range(result.coll) : BlameGood(x)
  /\ (pc = "done" /\ Len(groups) = 1) =>
       \A u \in AllUnits : Owned(Hits(result.free, u) + Hits(result.coll, u), ~stopped /\ NoCaps)

SweepInv ==
  /\ CallOK /\ GroupsOK /\ FrontOK /\ ListsOK /\ BatchOK
  /\ SumOK /\ CoverOK /\ QueueOK /\ ResultOK

\* A tree that grew by nodes that can be split.
Grown(t1, t2) == t1 \subseteq t2 /\ (cfg.virtual => t1 = t2) /\ cfg.stuck \ t1 \subseteq cfg.stuck \ t2

\* What was true of boxes and items on a tree is true of it when it has grown.
LEMMA GrownKeeps ==
  ASSUME NEW t1, NEW t2, Grown(t1, t2), NEW x
  PROVE  /\ CollGood(x, t1) => CollGood(x, t2)
         /\ \A d : PendGood(x, t1, d) => PendGood(x, t2, d)
         /\ \A n : InTree(n, t1) => InTree(n, t2)
BY DEF Grown, CollGood, PendGood, InTree, Deepest

\* A node that can be split joins the tree of its parent.
LEMMA GrownBy ==
  ASSUME NEW t, TreeGood(t), NEW N, N \subseteq Nodes,
         \A n \in N : InTree(n, t) /\ (n \in t \/ n \notin cfg.stuck), ~cfg.virtual
  PROVE  TreeGood(t \cup N) /\ Grown(t, t \cup N)
BY DEF TreeGood, Grown, InTree

\* A region that is certified free meets no obstacle, and neither does a part
\* of a region that meets none.
LEMMA FreeMeans ==
  ASSUME cfg \in Sweeps, NEW g, g \subseteq DOMAIN cfg.obstacles, NEW r, IsRange(r), NEW o \in g
  PROVE  /\ CertifiedFree(g, r) => ~Meets(r, o)
         /\ \A s : ~Meets(r, o) /\ IsRange(s) => ~Meets(Clip(r, s), o)
         /\ \A u \in Int : ~Meets(r, o) /\ u \in UnitsOf(r) => u \notin UnitsOf(cfg.obstacles[o])
<1>1. PICK a, b \in 0..2^Res : r = <<a, b>> /\ a <= b
  BY DEF IsRange
<1>2. a \in Int /\ b \in Int /\ 2^Res \in Nat
  BY <1>1, CallFacts
<1>3. PICK c, d \in Int : cfg.obstacles[o][1] = c /\ cfg.obstacles[o][2] = d
  BY CallFacts
<1>4. CertifiedFree(g, r) => ~Meets(r, o)
  <2> DEFINE pad == (r[2] - r[1]) \div 4
  <2>1. PICK p : p = pad
    OBVIOUS
  <2>2. p \in Nat
    BY <1>1, <1>2, <2>1
  <2>3. CertifiedFree(g, r) => ~Overlaps(<<a - p, b + p>>, cfg.obstacles[o])
    BY <1>1, <2>1 DEF CertifiedFree
  <2> QED
    BY <1>1, <1>2, <1>3, <2>2, <2>3 DEF Overlaps, Meets
<1>5. ASSUME NEW s, ~Meets(r, o), IsRange(s) PROVE ~Meets(Clip(r, s), o)
  <2>1. PICK e, f \in 0..2^Res : s = <<e, f>>
    BY <1>5 DEF IsRange
  <2>2. e \in Int /\ f \in Int
    BY <1>2, <2>1
  <2>3. Clip(r, s)[1] = (IF a < e THEN e ELSE a) /\ Clip(r, s)[2] = (IF b > f THEN f ELSE b)
    BY <1>1, <2>1 DEF Clip
  <2> QED
    BY <1>1, <1>2, <1>3, <1>5, <2>2, <2>3 DEF Overlaps, Meets
<1>6. ASSUME NEW u \in Int, ~Meets(r, o), u \in UnitsOf(r) PROVE u \notin UnitsOf(cfg.obstacles[o])
  BY <1>1, <1>2, <1>3, <1>6 DEF Overlaps, Meets, UnitsOf
<1> QED
  BY <1>4, <1>5, <1>6

-----------------------------------------------------------------------------
(* Settling items.                                                         *)

Work(f, c, p, t) == [free |-> f, coll |-> c, pending |-> p, tree |-> t]
WorkGood(s, g) ==
  /\ s = Work(s.free, s.coll, s.pending, s.tree)
  /\ TreeGood(s.tree)
  /\ IsSeq(s.free) /\ IsSeq(s.coll) /\ IsSeq(s.pending)
  /\ \A x \in Range(s.free) : FreeGood(x, g)
  /\ \A x \in Range(s.coll) : CollGood(x, s.tree)
  /\ \A x \in Range(s.pending) : PendGood(x, s.tree, cfg.max)
Total(s, u) == Hits(s.pending, u) + Hits(s.free, u) + Hits(s.coll, u)
Open(s, u) == Hits(s.pending, u) + Hits(s.coll, u)

\* What settling items that own a unit h times may do to its owners.
Adds(s, t, g, u, h) ==
  /\ Total(t, u) <= Total(s, u) + h
  /\ NoCaps => Total(t, u) = Total(s, u) + h
  /\ (cfg.maxColl = 0 /\ Blocked(g, u)) => Open(t, u) = Open(s, u) + h

\* A box is added clipped, with the units of its item, unless a cap drops it.
LEMMA AppendBoxFacts ==
  ASSUME cfg \in Sweeps, NEW boxes, IsSeq(boxes), NEW x, Held(x), Overlaps(x.iv, cfg.domain),
         NEW cap \in Nat
  PROVE  /\ IsSeq(AppendBox(boxes, x, cap))
         /\ \A y \in Range(AppendBox(boxes, x, cap)) :
              y \in Range(boxes) \/ y = Item(x.node, Clip(x.iv, cfg.domain))
         /\ \A u \in AllUnits :
              /\ Hits(AppendBox(boxes, x, cap), u) <= Hits(boxes, u) + One(x, u)
              /\ cap = 0 => Hits(AppendBox(boxes, x, cap), u) = Hits(boxes, u) + One(x, u)
<1> DEFINE b == Item(x.node, Clip(x.iv, cfg.domain))
<1>1. IsSeq(Append(boxes, b)) /\ Range(Append(boxes, b)) = Range(boxes) \cup {b}
  BY SeqAppend
<1>2. \A u \in AllUnits : Hits(Append(boxes, b), u) = Hits(boxes, u) + One(x, u)
  <2> TAKE u \in AllUnits
  <2>1. Hits(Append(boxes, b), u) = Hits(boxes, u) + One(b, u)
    BY HitsAppend
  <2>2. One(b, u) = One(x, u)
    BY HeldClip
  <2> QED
    BY <2>1, <2>2
<1>3. \A u \in AllUnits : Hits(boxes, u) \in Nat /\ One(x, u) \in {0, 1}
  BY HitsType DEF One
<1>4. (AppendBox(boxes, x, cap) = boxes /\ cap # 0) \/ AppendBox(boxes, x, cap) = Append(boxes, b)
  BY DEF AppendBox
<1> HIDE DEF b
<1>5. CASE AppendBox(boxes, x, cap) = boxes /\ cap # 0
  BY <1>3, <1>5
<1>6. CASE AppendBox(boxes, x, cap) = Append(boxes, b)
  BY <1>1, <1>2, <1>3, <1>6 DEF b
<1> QED
  BY <1>4, <1>5, <1>6

\* Settling an item: what is kept of boxes, items and tree, and each unit of the
\* item goes to one owner at most, and exactly one without caps; a unit within
\* an obstacle remains with a collision box or a pending item.
LEMMA SettleFacts ==
  ASSUME cfg \in Sweeps, active \in 0..cfg.max, Several => active = cfg.max,
         NEW g, g \subseteq DOMAIN cfg.obstacles,
         NEW s, WorkGood(s, g), s.tree = tree,
         NEW x, PendGood(x, tree, cfg.max),
         NEW isFree \in BOOLEAN, Group = g, isFree => CertifiedFree(g, x.iv)
  PROVE  /\ WorkGood(Settle(s, x, isFree), g)
         /\ Grown(tree, Settle(s, x, isFree).tree)
         /\ \A u \in AllUnits : Adds(s, Settle(s, x, isFree), g, u, One(x, u))
<1> DEFINE t == Settle(s, x, isFree)
           b == Item(x.node, Clip(x.iv, cfg.domain))
<1>1. /\ Held(x) /\ DepthOf(x.node) <= cfg.max /\ IsRange(x.iv) /\ IsRange(cfg.domain)
      /\ x.node \in Nodes /\ Res \in Nat /\ cfg.max \in 0..Res
      /\ cfg.maxFree \in Nat /\ cfg.maxColl \in Nat
  BY CallFacts DEF PendGood, Held
<1>2. /\ s = Work(s.free, s.coll, s.pending, s.tree) /\ TreeGood(tree)
      /\ IsSeq(s.free) /\ IsSeq(s.coll) /\ IsSeq(s.pending)
  BY DEF WorkGood
<1>3. Grown(tree, tree)
  BY DEF Grown
<1>4. \A u \in AllUnits : /\ Hits(s.free, u) \in Nat /\ Hits(s.coll, u) \in Nat
                          /\ Hits(s.pending, u) \in Nat /\ One(x, u) \in {0, 1} /\ u \in Int
  BY <1>1, <1>2, HitsType, SMTT(30) DEF One, AllUnits, UnitsOf, IsRange
<1>5. CASE ~Overlaps(x.iv, cfg.domain)
  <2>1. t = s
    BY <1>5 DEF Settle
  <2>2. \A u \in AllUnits : One(x, u) = 0
    BY <1>1, <1>5, ClipFacts DEF One, AllUnits
  <2>3. \A u \in AllUnits : Adds(s, s, g, u, 0)
    BY <1>4 DEF Adds, Total, Open
  <2> QED
    BY <1>3, <2>1, <2>2, <2>3
<1>6. Overlaps(x.iv, cfg.domain) => Held(b)
  BY <1>1, HeldClip
<1>7. CASE Overlaps(x.iv, cfg.domain) /\ isFree
  <2> DEFINE f == AppendBox(s.free, x, cfg.maxFree)
  <2>1. t = Work(f, s.coll, s.pending, s.tree)
    BY <1>2, <1>7 DEF Settle, Work
  <2>2. /\ IsSeq(f) /\ \A y \in Range(f) : y \in Range(s.free) \/ y = b
        /\ \A u \in AllUnits : /\ Hits(f, u) <= Hits(s.free, u) + One(x, u)
                               /\ cfg.maxFree = 0 => Hits(f, u) = Hits(s.free, u) + One(x, u)
    BY <1>1, <1>2, <1>7, AppendBoxFacts
  <2>3. FreeGood(b, g)
    <3>1. b.node = x.node /\ b.iv = Clip(x.iv, cfg.domain)
      BY DEF Item
    <3>2. ASSUME NEW o \in g PROVE ~Meets(x.iv, o) /\ ~Meets(b.iv, o)
      BY <1>1, <1>7, <3>1, FreeMeans
    <3>3. Several => x.iv = NodeInterval(x.node)
      BY DEF PendGood
    <3> HIDE DEF b
    <3> QED
      BY <1>6, <1>7, <3>1, <3>2, <3>3 DEF FreeGood
  <2>4. \A u \in AllUnits : Blocked(g, u) => One(x, u) = 0
    BY <1>1, <1>4, <1>7, FreeMeans DEF Blocked, One
  <2> HIDE DEF f, t, b
  <2>5. t.free = f /\ t.coll = s.coll /\ t.pending = s.pending /\ t.tree = tree
    BY <2>1 DEF Work
  <2>6. WorkGood(t, g)
    BY <2>1, <2>2, <2>3, <2>5 DEF WorkGood
  <2>7. \A u \in AllUnits : Adds(s, t, g, u, One(x, u))
    <3> TAKE u \in AllUnits
    <3>1. Hits(f, u) \in Nat
      BY <2>2, HitsType
    <3> QED
      BY <1>4, <2>2, <2>4, <2>5, <3>1 DEF Adds, Total, Open, NoCaps
  <2> QED
    BY <1>3, <2>5, <2>6, <2>7 DEF t
<1>8. CASE /\ Overlaps(x.iv, cfg.domain) /\ ~isFree
           /\ ShouldPrune(Group, x) \/ DepthOf(x.node) >= active \/ ~CanSplit(x)
  <2> DEFINE c == AppendBox(s.coll, x, cfg.maxColl)
  <2>1. t = Work(s.free, c, s.pending, s.tree)
    BY <1>2, <1>8 DEF Settle, Work
  <2>2. /\ IsSeq(c) /\ \A y \in Range(c) : y \in Range(s.coll) \/ y = b
        /\ \A u \in AllUnits : /\ Hits(c, u) <= Hits(s.coll, u) + One(x, u)
                               /\ cfg.maxColl = 0 => Hits(c, u) = Hits(s.coll, u) + One(x, u)
    BY <1>1, <1>2, <1>8, AppendBoxFacts
  <2>3. CollGood(b, tree)
    <3>1. b.node = x.node /\ b.iv = Clip(x.iv, cfg.domain)
      BY DEF Item
    <3>2. ASSUME Several, cfg.pruneDepth < 0 PROVE Deepest(x.node, tree)
      <4>1. ~ShouldPrune(Group, x)
        BY <3>2, CallFacts DEF ShouldPrune
      <4> QED
        BY <1>8, <3>2, <4>1 DEF Deepest, CanSplit, IsLeaf, Several
    <3> HIDE DEF b
    <3> QED
      BY <1>1, <1>6, <1>8, <3>1, <3>2 DEF CollGood, PendGood
  <2> HIDE DEF c, t, b
  <2>5. t.free = s.free /\ t.coll = c /\ t.pending = s.pending /\ t.tree = tree
    BY <2>1 DEF Work
  <2>6. WorkGood(t, g)
    BY <2>1, <2>2, <2>3, <2>5 DEF WorkGood
  <2>7. \A u \in AllUnits : Adds(s, t, g, u, One(x, u))
    <3> TAKE u \in AllUnits
    <3>1. Hits(c, u) \in Nat
      BY <2>2, HitsType
    <3> QED
      BY <1>4, <2>2, <2>5, <3>1 DEF Adds, Total, Open, NoCaps
  <2> QED
    BY <1>3, <2>5, <2>6, <2>7 DEF t
<1>9. CASE /\ Overlaps(x.iv, cfg.domain) /\ ~isFree
           /\ ~(ShouldPrune(Group, x) \/ DepthOf(x.node) >= active \/ ~CanSplit(x))
  <2> DEFINE kids == InDomain(Children(x))
             p == s.pending \o kids
             r == SplitTree(s.tree, x)
  <2>1. t = Work(s.free, s.coll, p, r)
    BY <1>2, <1>9 DEF Settle, Work
  <2>2. DepthOf(x.node) \in 0..Res /\ DepthOf(x.node) < cfg.max
    BY <1>1, <1>9, DepthFacts
  <2>3. /\ AllHeld(Children(x))
        /\ \A y \in Range(Children(x)) :
              /\ DepthOf(y.node) = DepthOf(x.node) + 1 /\ y.node \div 2 = x.node
              /\ ~cfg.virtual => y.iv = NodeInterval(y.node)
        /\ \A u \in AllUnits : Hits(Children(x), u) = One(x, u)
    BY <1>1, <2>2, ChildrenFacts
  <2>4. /\ AllHeld(kids) /\ \A y \in Range(kids) : y \in Range(Children(x))
        /\ \A u \in AllUnits : Hits(kids, u) = One(x, u)
    BY <2>3, InDomainFacts
  <2>5. TreeGood(r) /\ Grown(tree, r) /\ (~cfg.virtual => x.node \in r)
    <3>1. CASE cfg.virtual
      BY <1>2, <1>3, <3>1 DEF SplitTree
    <3>2. CASE ~cfg.virtual
      <4>1. r = tree \cup {x.node}
        BY <3>2 DEF SplitTree
      <4>2. InTree(x.node, tree) /\ (x.node \in tree \/ x.node \notin cfg.stuck)
        BY <1>9, <3>2 DEF PendGood, CanSplit, IsLeaf
      <4> HIDE DEF r
      <4> QED
        BY <1>1, <1>2, <3>2, <4>1, <4>2, GrownBy
    <3> QED
      BY <3>1, <3>2
  <2> HIDE DEF kids, r, t, b
  <2>6. /\ IsSeq(p) /\ Range(p) = Range(s.pending) \cup Range(kids)
        /\ \A u \in AllUnits : Hits(p, u) = Hits(s.pending, u) + One(x, u)
    <3>1. IsSeq(kids)
      BY <2>4 DEF AllHeld
    <3>2. IsSeq(p) /\ Range(p) = Range(s.pending) \cup Range(kids)
      BY <1>2, <3>1, SeqConcat
    <3>3. \A u \in AllUnits : Hits(p, u) = Hits(s.pending, u) + Hits(kids, u)
      BY <1>2, <3>1, HitsConcat
    <3> QED
      BY <2>4, <3>2, <3>3
  <2> HIDE DEF p
  <2>7. \A y \in Range(kids) : PendGood(y, r, cfg.max)
    <3> TAKE y \in Range(kids)
    <3>1. Held(y) /\ DepthOf(y.node) = DepthOf(x.node) + 1 /\ y.node \div 2 = x.node
          /\ (~cfg.virtual => y.iv = NodeInterval(y.node))
      BY <2>3, <2>4 DEF AllHeld
    <3>2. DepthOf(y.node) <= cfg.max
      BY <1>1, <2>2, <3>1
    <3> QED
      BY <2>5, <3>1, <3>2 DEF PendGood, InTree, Several
  <2>8. t.free = s.free /\ t.coll = s.coll /\ t.pending = p /\ t.tree = r
    BY <2>1 DEF Work
  <2>9. WorkGood(t, g)
    <3>1. \A y \in Range(t.coll) : CollGood(y, t.tree)
      BY <2>5, <2>8, GrownKeeps DEF WorkGood
    <3>2. \A y \in Range(t.pending) : PendGood(y, t.tree, cfg.max)
      <4> TAKE y \in Range(t.pending)
      <4>1. CASE y \in Range(s.pending)
        BY <2>5, <2>8, <4>1, GrownKeeps DEF WorkGood
      <4>2. CASE y \in Range(kids)
        BY <2>7, <2>8, <4>2
      <4> QED
        BY <2>6, <2>8, <4>1, <4>2
    <3> QED
      BY <2>1, <2>5, <2>6, <2>8, <3>1, <3>2 DEF WorkGood
  <2>10. \A u \in AllUnits : Adds(s, t, g, u, One(x, u))
    BY <1>4, <2>6, <2>8 DEF Adds, Total, Open, NoCaps
  <2> QED
    BY <2>5, <2>8, <2>9, <2>10 DEF t
<1> QED
  BY <1>5, <1>7, <1>8, <1>9

\* The working states of a sweep on a tree that does not change.
States(g) ==
  LET I == Seq([node : Nodes, iv : (0..2^Res) \X (0..2^Res)])
  IN {s \in [free : I, coll : I, pending : I, tree : {tree}] : WorkGood(s, g)}

\* The states are the well-formed working states on the present tree.
LEMMA StatesAre ==
  ASSUME NEW g, NEW s
  PROVE  s \in States(g) <=> WorkGood(s, g) /\ s.tree = tree
<1> DEFINE E == [node : Nodes, iv : (0..2^Res) \X (0..2^Res)]
<1>1. ASSUME NEW x, Held(x) PROVE x \in E
  BY <1>1 DEF Held, IsRange
<1>2. ASSUME WorkGood(s, g), s.tree = tree PROVE s \in States(g)
  <2>1. \A x \in Range(s.free) \cup Range(s.coll) \cup Range(s.pending) : Held(x)
    BY <1>2 DEF WorkGood, FreeGood, CollGood, PendGood
  <2>2. /\ Range(s.free) \subseteq E /\ Range(s.coll) \subseteq E /\ Range(s.pending) \subseteq E
    BY <1>1, <2>1
  <2> HIDE DEF E
  <2>3. s.free \in Seq(E) /\ s.coll \in Seq(E) /\ s.pending \in Seq(E)
    BY <1>2, <2>2, SeqWider DEF WorkGood
  <2>4. s = Work(s.free, s.coll, s.pending, s.tree)
    BY <1>2 DEF WorkGood
  <2>5. Work(s.free, s.coll, s.pending, s.tree)
          \in [free : Seq(E), coll : Seq(E), pending : Seq(E), tree : {tree}]
    BY <1>2, <2>3 DEF Work
  <2> QED
    BY <1>2, <2>4, <2>5 DEF States, E
<1>3. s \in States(g) => WorkGood(s, g) /\ s.tree = tree
  BY DEF States
<1> QED
  BY <1>2, <1>3

\* A batch settled in its order, by the verdicts of the workers.
LEMMA SettleAllFacts ==
  ASSUME cfg \in Sweeps, active \in 0..cfg.max, cfg.virtual,
         NEW g, g \subseteq DOMAIN cfg.obstacles, Group = g,
         NEW s, WorkGood(s, g), s.tree = tree,
         NEW items, IsSeq(items), \A x \in Range(items) : PendGood(x, tree, cfg.max),
         NEW outcomes, IsSeq(outcomes), Len(outcomes) <= Len(items),
         \A i \in 1..Len(outcomes) : outcomes[i] = "free" => CertifiedFree(g, items[i].iv)
  PROVE  /\ WorkGood(SettleAll(s, items, outcomes), g)
         /\ SettleAll(s, items, outcomes).tree = tree
         /\ \A u \in AllUnits : Adds(s, SettleAll(s, items, outcomes), g, u,
                                     Hits(SubSeq(items, 1, Len(outcomes)), u))
<1> DEFINE n == Len(outcomes)
           U == States(g)
           Op(y, i) == Settle(y, items[i], outcomes[i] = "free")
           step == [y \in (1..n) \X U |-> Op(y[2], y[1])]
           P(h) == h = [i \in 0..n |-> IF i = 0 THEN s ELSE Op(h[i - 1], i)]
           w == CHOOSE h : P(h)
<1>1. n \in Nat /\ Len(items) \in Nat
  BY SeqShape
<1>2. s \in U
  BY StatesAre
<1>3. ASSUME NEW i \in 1..n, NEW y \in U
      PROVE  /\ step[<<i, y>>] = Op(y, i) /\ Op(y, i) \in U
             /\ \A u \in AllUnits : Adds(y, Op(y, i), g, u, One(items[i], u))
  <2>1. WorkGood(y, g) /\ y.tree = tree
    BY <1>3, StatesAre
  <2>2. items[i] \in Range(items)
    BY <1>1, SeqShape
  <2>3. PendGood(items[i], tree, cfg.max)
    BY <2>2
  <2>4. (outcomes[i] = "free") \in BOOLEAN /\ ((outcomes[i] = "free") => CertifiedFree(g, items[i].iv))
    OBVIOUS
  <2>5. ~Several
    BY DEF Several
  <2> DEFINE isFree == outcomes[i] = "free"
  <2> HIDE DEF isFree
  <2>6. isFree \in BOOLEAN /\ (isFree => CertifiedFree(g, items[i].iv))
    BY <2>4 DEF isFree
  <2>7. /\ WorkGood(Settle(y, items[i], isFree), g)
        /\ Grown(tree, Settle(y, items[i], isFree).tree)
        /\ \A u \in AllUnits : Adds(y, Settle(y, items[i], isFree), g, u, One(items[i], u))
    BY <2>1, <2>3, <2>5, <2>6, SettleFacts
  <2>8. Settle(y, items[i], isFree).tree = tree
    BY <2>7 DEF Grown
  <2>9. Op(y, i) = Settle(y, items[i], isFree)
    BY DEF isFree
  <2> HIDE DEF Op
  <2>10. Op(y, i) \in U
    BY <2>7, <2>8, <2>9, StatesAre
  <2>11. step[<<i, y>>] = Op(y, i)
    OBVIOUS
  <2> QED
    BY <2>7, <2>9, <2>10, <2>11
<1>4. SettleAll(s, items, outcomes) = w[n]
  BY DEF SettleAll
<1> HIDE DEF step, Op, U, n
<1>5. PICK h : Computes(h, n, s, step) /\ \A k \in 0..n : h[k] \in U
  <2>1. \A k \in 1..n : \A x \in U : step[<<k, x>>] \in U
    BY <1>3
  <2> QED
    BY <1>1, <1>2, <2>1, Recursion
<1>6. P(h)
  <2>1. ASSUME NEW k \in 0..n, k # 0 PROVE step[<<k, h[k - 1]>>] = Op(h[k - 1], k)
    <3>1. k \in 1..n /\ k - 1 \in 0..n
      BY <1>1, <2>1
    <3> QED
      BY <3>1, <1>3, <1>5
  <2>2. \A k \in 0..n : (IF k = 0 THEN s ELSE step[<<k, h[k - 1]>>])
                          = (IF k = 0 THEN s ELSE Op(h[k - 1], k))
    BY <2>1
  <2> QED
    BY <1>5, <2>2 DEF Computes
<1>7. P(w)
  <2> HIDE DEF P
  <2> QED
    BY <1>6
<1>8. \A k \in 0..n : w[k] = IF k = 0 THEN s ELSE Op(w[k - 1], k)
  <2> HIDE DEF w
  <2> QED
    BY <1>7
<1> HIDE DEF w, P
<1> DEFINE T == {k \in 0..n : /\ w[k] \in U
                              /\ \A u \in AllUnits : Adds(s, w[k], g, u, Hits(SubSeq(items, 1, k), u))}
<1>9. 0 \in T
  <2>1. w[0] = s /\ 0 \in 0..n
    BY <1>1, <1>8
  <2>2. SubSeq(items, 1, 0) = <<>>
    BY <1>1
  <2>3. \A u \in AllUnits : Adds(s, s, g, u, 0)
    <3> TAKE u \in AllUnits
    <3>1. Hits(s.free, u) \in Nat /\ Hits(s.coll, u) \in Nat /\ Hits(s.pending, u) \in Nat
      BY HitsType DEF WorkGood
    <3> QED
      BY <3>1 DEF Adds, Total, Open
  <2> QED
    BY <1>2, <2>1, <2>2, <2>3, HitsEmpty
<1>10. ASSUME NEW k \in 1..n, k - 1 \in T PROVE k \in T
  <2>1. k \in 0..n /\ k # 0 /\ k \in 1..Len(items) /\ k - 1 \in 0..Len(items)
    BY <1>1 DEF n
  <2>2. w[k] = Op(w[k - 1], k) /\ w[k - 1] \in U
    BY <1>8, <1>10, <2>1
  <2>3. w[k] \in U
    BY <1>3, <2>2
  <2>4. ASSUME NEW u \in AllUnits PROVE Adds(s, w[k], g, u, Hits(SubSeq(items, 1, k), u))
    <3>1. Adds(s, w[k - 1], g, u, Hits(SubSeq(items, 1, k - 1), u))
      BY <1>10
    <3>2. Adds(w[k - 1], w[k], g, u, One(items[k], u))
      BY <1>3, <2>2
    <3>3. Hits(SubSeq(items, 1, k), u) = Hits(SubSeq(items, 1, k - 1), u) + One(items[k], u)
      BY <2>1, HitsLonger
    <3>4. WorkGood(w[k], g) /\ WorkGood(w[k - 1], g)
      BY <2>2, <2>3, StatesAre DEF U
    <3>5. \A y : WorkGood(y, g) => Total(y, u) \in Nat /\ Open(y, u) \in Nat
      <4> TAKE y
      <4> HAVE WorkGood(y, g)
      <4>1. Hits(y.free, u) \in Nat /\ Hits(y.coll, u) \in Nat /\ Hits(y.pending, u) \in Nat
        BY HitsType DEF WorkGood
      <4> QED
        BY <4>1 DEF Total, Open
    <3>6. Hits(SubSeq(items, 1, k - 1), u) \in Nat /\ One(items[k], u) \in Nat
      <4>1. IsSeq(SubSeq(items, 1, k - 1))
        BY <2>1, HitsCut
      <4> QED
        BY <4>1, HitsType DEF One
    <3>7. Total(s, u) \in Nat /\ Open(s, u) \in Nat /\ Total(w[k], u) \in Nat /\ Open(w[k], u) \in Nat
          /\ Total(w[k - 1], u) \in Nat /\ Open(w[k - 1], u) \in Nat
      BY <3>4, <3>5
    <3> DEFINE a == Total(s, u)
               b == Total(w[k - 1], u)
               c == Total(w[k], u)
               d == Open(s, u)
               e == Open(w[k - 1], u)
               f == Open(w[k], u)
               h1 == Hits(SubSeq(items, 1, k - 1), u)
               h2 == One(items[k], u)
    <3>8. Adds(s, w[k - 1], g, u, h1) /\ Adds(w[k - 1], w[k], g, u, h2)
      BY <3>1, <3>2
    <3>9. /\ b <= a + h1 /\ c <= b + h2
          /\ NoCaps => b = a + h1 /\ c = b + h2
          /\ (cfg.maxColl = 0 /\ Blocked(g, u)) => e = d + h1 /\ f = e + h2
      BY <3>8 DEF Adds
    <3>10. a \in Nat /\ b \in Nat /\ c \in Nat /\ d \in Nat /\ e \in Nat /\ f \in Nat
           /\ h1 \in Nat /\ h2 \in Nat
      BY <3>6, <3>7
    <3> HIDE DEF a, b, c, d, e, f, h1, h2
    <3>12. c <= a + (h1 + h2)
      BY <3>9, <3>10
    <3>13. NoCaps => c = a + (h1 + h2)
      BY <3>9, <3>10
    <3>14. (cfg.maxColl = 0 /\ Blocked(g, u)) => f = d + (h1 + h2)
      BY <3>9, <3>10
    <3>11. Adds(s, w[k], g, u, h1 + h2)
      BY <3>12, <3>13, <3>14 DEF Adds, a, c, d, f
    <3> QED
      BY <3>3, <3>11 DEF h1, h2
  <2> QED
    BY <2>1, <2>3, <2>4
<1>11. n \in T
  <2> HIDE DEF T
  <2>1. \A k \in 0..n : k \in T
    BY <1>1, <1>9, <1>10, UpTo
  <2> QED
    BY <1>1, <2>1
<1>12. w[n] \in U /\ \A u \in AllUnits : Adds(s, w[n], g, u, Hits(SubSeq(items, 1, n), u))
  BY <1>11
<1>13. WorkGood(w[n], g) /\ w[n].tree = tree
  BY <1>12, StatesAre DEF U
<1> QED
  BY <1>4, <1>12, <1>13 DEF n

-----------------------------------------------------------------------------
(* The clusters.                                                           *)

\* The clusters hold obstacles of the scene, and every one of them.
LEMMA ClusterFacts ==
  ASSUME cfg \in Sweeps
  PROVE  /\ IsSeq(ClusterObstacles) /\ Len(ClusterObstacles) >= 1
         /\ \A g \in 1..Len(ClusterObstacles) : ClusterObstacles[g] \subseteq DOMAIN cfg.obstacles
         /\ \A o \in DOMAIN cfg.obstacles : \E g \in 1..Len(ClusterObstacles) : o \in ClusterObstacles[g]
<1>1. /\ IsSeq(cfg.obstacles) /\ Len(cfg.obstacles) \in Nat
      /\ DOMAIN cfg.obstacles = 1..Len(cfg.obstacles)
  BY CallFacts, SeqShape
<1>2. CASE cfg.obstacles = <<>>
  <2>1. ClusterObstacles = <<{}>>
    BY <1>2 DEF ClusterObstacles
  <2>2. IsSeq(<<{}>>) /\ Len(<<{}>>) = 1 /\ <<{}>>[1] = {}
    BY SeqSingle
  <2>3. DOMAIN cfg.obstacles = {}
    BY <1>2
  <2> QED
    BY <2>1, <2>2, <2>3
<1>3. CASE cfg.obstacles # <<>>
  <2> DEFINE n == Len(cfg.obstacles)
             label == Labels
             class(i) == {j \in DOMAIN cfg.obstacles : label[j] = label[i]}
             firsts == {i \in DOMAIN cfg.obstacles : \A j \in class(i) : i <= j}
             upTo(i) == {j \in firsts : j <= i}
             nth(k) == CHOOSE i \in firsts : Cardinality({j \in firsts : j <= i}) = k
             list == [k \in 1..Cardinality(firsts) |-> class(nth(k))]
  <2>1. ClusterObstacles = list
    BY <1>3 DEF ClusterObstacles
  <2>2. \A i : class(i) \subseteq DOMAIN cfg.obstacles
    OBVIOUS
  <2>3. firsts \subseteq 1..n /\ IsFiniteSet(firsts) /\ Cardinality(firsts) \in Nat
    <3>1. firsts \subseteq 1..n
      BY <1>1
    <3>2. IsFiniteSet(1..n)
      BY <1>1, FS_Interval
    <3> HIDE DEF firsts
    <3> QED
      BY <3>1, <3>2, FS_Subset, FS_CardinalityType
  <2>4. ASSUME NEW i \in DOMAIN cfg.obstacles PROVE \E f \in firsts : i \in class(f)
    <3>1. class(i) \subseteq Nat /\ i \in class(i)
      BY <1>1
    <3>2. PICK f \in class(i) : \A j \in class(i) : f <= j
      <4> HIDE DEF class
      <4> QED
        BY <3>1, LeastNat
    <3>3. class(f) = class(i)
      BY <3>2
    <3> QED
      BY <3>2, <3>3, <2>4
  <2>5. \A i : upTo(i) \subseteq firsts /\ IsFiniteSet(upTo(i)) /\ Cardinality(upTo(i)) \in Nat
               /\ Cardinality(upTo(i)) <= Cardinality(firsts)
    <3> HIDE DEF firsts
    <3> TAKE i
    <3>1. upTo(i) \subseteq firsts
      OBVIOUS
    <3> HIDE DEF upTo
    <3> QED
      BY <2>3, <3>1, FS_Subset, FS_CardinalityType
  <2>6. ASSUME NEW i \in firsts, NEW f \in firsts, Cardinality(upTo(i)) = Cardinality(upTo(f))
        PROVE  i = f
    <3>1. ASSUME NEW a \in firsts, NEW b \in firsts, a <= b, Cardinality(upTo(a)) = Cardinality(upTo(b))
          PROVE  a = b
      <4>1. upTo(a) \subseteq upTo(b)
        BY <2>3, <3>1
      <4>2. upTo(a) = upTo(b)
        <5> HIDE DEF upTo, firsts
        <5> QED
          BY <2>5, <3>1, <4>1, FS_Subset
      <4>3. b \in upTo(b)
        BY <2>3
      <4>4. b <= a
        BY <4>2, <4>3
      <4> HIDE DEF upTo, firsts
      <4> QED
        BY <2>3, <3>1, <4>4
    <3> HIDE DEF upTo, firsts
    <3>2. i <= f \/ f <= i
      BY <2>3
    <3> QED
      BY <2>6, <3>1, <3>2
  <2>7. ASSUME NEW f \in firsts PROVE \E k \in 1..Cardinality(firsts) : nth(k) = f
    <3> DEFINE k == Cardinality(upTo(f))
    <3>1. f \in upTo(f)
      BY <2>3
    <3>2. k \in Nat /\ k <= Cardinality(firsts)
      BY <2>5
    <3>3. k # 0
      <4> HIDE DEF upTo
      <4> QED
        BY <2>5, <3>1, FS_EmptySet
    <3>4. nth(k) = f
      <4>1. f \in firsts /\ Cardinality(upTo(f)) = k
        OBVIOUS
      <4>2. nth(k) = CHOOSE i \in firsts : Cardinality(upTo(i)) = k
        OBVIOUS
      <4> HIDE DEF k, upTo, firsts, nth
      <4>3. nth(k) \in firsts /\ Cardinality(upTo(nth(k))) = k
        BY <4>1, <4>2
      <4> QED
        BY <2>6, <4>1, <4>3
    <3> HIDE DEF nth, upTo, firsts
    <3> QED
      BY <2>3, <3>2, <3>3, <3>4
  <2> HIDE DEF firsts, nth
  <2>8. list = [k \in 1..Cardinality(firsts) |-> list[k]]
    OBVIOUS
  <2>9. \A k \in 1..Cardinality(firsts) : list[k] = class(nth(k))
    OBVIOUS
  <2> HIDE DEF list, class
  <2>10. IsSeq(list) /\ Len(list) = Cardinality(firsts)
    BY <2>3, <2>8, SeqFunction
  <2>11. Len(list) >= 1
    <3>1. 1 \in DOMAIN cfg.obstacles
      <4>1. Len(cfg.obstacles) # 0
        BY <1>1, <1>3 DEF IsSeq
      <4> QED
        BY <1>1, <4>1
    <3>2. PICK f \in firsts : 1 \in class(f)
      BY <2>4, <3>1
    <3>3. PICK k \in 1..Cardinality(firsts) : nth(k) = f
      BY <2>7
    <3> QED
      BY <2>3, <2>10, <3>3
  <2>12. \A g \in 1..Len(list) : list[g] \subseteq DOMAIN cfg.obstacles
    BY <2>2, <2>9, <2>10
  <2>13. ASSUME NEW o \in DOMAIN cfg.obstacles PROVE \E g \in 1..Len(list) : o \in list[g]
    <3>1. PICK f \in firsts : o \in class(f)
      BY <2>4
    <3>2. PICK k \in 1..Cardinality(firsts) : nth(k) = f
      BY <2>7
    <3> QED
      BY <2>9, <2>10, <3>1, <3>2
  <2> QED
    BY <2>1, <2>10, <2>11, <2>12, <2>13
<1> QED
  BY <1>2, <1>3

-----------------------------------------------------------------------------
(* Parts of the invariant that a step leaves alone.                        *)

Composing == pc \in {"compose", "done"}

\* The clusters stand when they, the phase and the stop are left alone.
LEMMA FrameGroups ==
  ASSUME GroupsOK, UNCHANGED <<cfg, pc, groups, swept, active, stopped>>
  PROVE  GroupsOK'
BY DEF GroupsOK, Several

\* The start frontier stands while the tree only grows.
LEMMA FrameFront ==
  ASSUME FrontOK, UNCHANGED <<cfg, frontier, level>>, Grown(tree, tree')
  PROVE  FrontOK'
<1>1. \A x : PendGood(x, tree, level) => PendGood(x, tree', level)
  BY GrownKeeps
<1>2. \A x \in Range(frontier) : PendGood(x, tree', level) /\ (~cfg.virtual => x.iv = NodeInterval(x.node))
  BY <1>1 DEF FrontOK
<1> QED
  BY <1>2 DEF FrontOK, PendGood, Held, InTree, Several, AllUnits

\* The boxes and the pending items stand while the tree only grows.
LEMMA FrameLists ==
  ASSUME ListsOK, UNCHANGED <<cfg, swept, groups, pending>>, Grown(tree, tree'),
         pc' = pc \/ pc' \in {"sweep", "batch"} \/ pending = <<>>
  PROVE  ListsOK'
<1>1. \A x : /\ CollGood(x, tree) => CollGood(x, tree')
             /\ PendGood(x, tree, cfg.max) => PendGood(x, tree', cfg.max)
  BY GrownKeeps
<1>2. /\ \A g \in 1..Len(swept) : GroupGood(swept[g], groups[g], tree')
      /\ IsSeq(pending) /\ \A x \in Range(pending) : PendGood(x, tree', cfg.max)
      /\ pc' \notin {"sweep", "batch"} => pending = <<>>
  BY <1>1 DEF ListsOK, GroupGood
<1> QED
  BY <1>2 DEF ListsOK, GroupGood, FreeGood, CollGood, PendGood, Held, InTree, Deepest, Several, Meets

\* The verdicts of a batch stand while its items do.
LEMMA FrameBatch ==
  ASSUME BatchOK, UNCHANGED <<cfg, batch>>,
         UNCHANGED <<groups, swept, pending>> \/ pc # "batch",
         pc' = pc \/ (pc # "batch" /\ pc' # "batch")
  PROVE  BatchOK'
BY DEF BatchOK, Group, CertifiedFree

\* The owners of a unit stand while boxes and pending items do.
LEMMA FrameSum ==
  ASSUME SumOK, UNCHANGED <<cfg, swept, pending, stopped>>
  PROVE  SumOK'
BY DEF SumOK, AllUnits, Boxes, NoCaps

\* What is held for a blocked unit stands while boxes and pending items do.
LEMMA FrameCover ==
  ASSUME CoverOK, UNCHANGED <<cfg, swept, groups, pending, stopped>>
  PROVE  CoverOK'
BY DEF CoverOK, AllUnits, Blocked

\* The compose queue stands while it and the result do.
LEMMA FrameQueue ==
  ASSUME QueueOK, UNCHANGED <<cfg, groups, queue, result, stopped>>,
         pc' = pc \/ (~Composing /\ ~Composing')
  PROVE  QueueOK'
<1>1. \A x : EntryGood(x)' <=> EntryGood(x)
  BY DEF EntryGood, Meets
<1> QED
  BY <1>1 DEF QueueOK, Composing, AllUnits

\* The result stands while it and the phase do.
LEMMA FrameResult ==
  ASSUME ResultOK, UNCHANGED <<cfg, result>>,
         UNCHANGED <<pc, groups, stopped>> \/ (~Composing /\ ~Composing')
  PROVE  ResultOK'
<1>1. CASE UNCHANGED <<pc, groups, stopped>>
  BY <1>1 DEF ResultOK, Composing, AllUnits, Meets, BlameAll, BlameGood, NoCaps
<1>2. CASE ~Composing /\ ~Composing'
  <2>1. result = NoBoxes
    BY <1>2 DEF ResultOK, Composing
  <2>2. Range(NoBoxes.free) = {} /\ Range(NoBoxes.coll) = {}
    BY SeqEmpty DEF NoBoxes
  <2> QED
    BY <1>2, <2>1, <2>2 DEF ResultOK, Composing
<1> QED
  BY <1>1, <1>2

\* The root holds every unit of the domain.
LEMMA RootHolds ==
  ASSUME cfg \in Sweeps
  PROVE  \A u \in AllUnits : u \in UnitsOf(NodeInterval(Root))
<1>1. Root \in Nodes /\ DepthOf(Root) = 0 /\ Res \in Nat /\ 2^Res \in Nat
  BY CallFacts, RootFacts
<1>2. PICK w \in Nat \ {0}, k \in Nat : /\ w = 2^(Res - DepthOf(Root)) /\ k = Root - 2^DepthOf(Root)
                                        /\ NodeInterval(Root) = <<k * w, (k + 1) * w>>
  BY <1>1, NodeShape
<1>3. 2^0 = 1 /\ Res - 0 = Res
  BY <1>1
<1>4. w = 2^(Res - 0) /\ k = 1 - 2^0
  BY <1>1, <1>2, Zenon DEF Root
<1>5. k = 0 /\ w = 2^Res
  <2>1. 1 - 1 = 0
    OBVIOUS
  <2> QED
    BY <1>3, <1>4, <2>1, Zenon
<1>6. k * w = 0 /\ (k + 1) * w = w
  BY <1>2, <1>5
<1>7. NodeInterval(Root) = <<0, 2^Res>>
  BY <1>2, <1>5, <1>6
<1>8. PICK a, b \in 0..2^Res : cfg.domain = <<a, b>>
  BY CallFacts DEF IsRange
<1> QED
  BY <1>1, <1>7, <1>8 DEF AllUnits, UnitsOf

\* What is true before a call: only its arguments and its frontier are there.
LEMMA StartGood ==
  ASSUME groups = <<>>, swept = <<>>, pending = <<>>, batch = <<>>, queue = <<>>, result = NoBoxes,
         pc = "frontier"
  PROVE  GroupsOK /\ ListsOK /\ BatchOK /\ SumOK /\ CoverOK /\ QueueOK /\ ResultOK
<1>1. IsSeq(<<>>) /\ Range(<<>>) = {} /\ Len(<<>>) = 0
  BY SeqEmpty
<1>2. GroupsOK
  BY <1>1 DEF GroupsOK
<1>3. ListsOK
  BY <1>1 DEF ListsOK
<1>4. BatchOK /\ SumOK
  BY DEF BatchOK, SumOK
<1>5. CoverOK
  BY <1>1 DEF CoverOK
<1>6. QueueOK
  BY <1>1 DEF QueueOK
<1>7. ResultOK
  <2>1. NoBoxes = [free |-> NoBoxes.free, coll |-> NoBoxes.coll] /\ NoBoxes.free = <<>> /\ NoBoxes.coll = <<>>
    BY DEF NoBoxes
  <2> QED
    BY <1>1, <2>1 DEF ResultOK
<1> QED
  BY <1>2, <1>3, <1>4, <1>5, <1>6, <1>7

\* The invariant holds when a call begins.
LEMMA InitInv ==
  ASSUME Init
  PROVE  SweepInv
<1> USE DEF Init
<1>1. cfg \in Sweeps /\ SweepFits(cfg)
  BY SweepsAssumption
<1>2. CallOK
  <2>1. TreeGood(tree)
    BY <1>1, CallFacts DEF TreeGood, InTree, SweepFits
  <2>2. 0 \in 0..cfg.start /\ 0 \in 0..cfg.max
    BY <1>1, CallFacts
  <2> QED
    BY <1>1, <2>1, <2>2 DEF CallOK
<1>3. FrontOK
  <2>1. Root \in Nodes /\ DepthOf(Root) = 0 /\ IsRange(NodeInterval(Root)) /\ Res \in Nat /\ 2^Res \in Nat
    BY <1>1, CallFacts, RootFacts, NodeRange
  <2>2. PICK items : /\ frontier = InDomain(items) /\ AllHeld(items)
                     /\ \A x \in Range(items) : /\ x.node = Root
                                                /\ ~cfg.virtual => x.iv = NodeInterval(Root)
                     /\ \A u \in AllUnits : Hits(items, u) = 1
    <3>1. CASE cfg.virtual
      <4> DEFINE items == [i \in DOMAIN cfg.roots |-> Item(Root, cfg.roots[i])]
      <4>1. /\ IsSeq(cfg.roots) /\ Len(cfg.roots) \in Nat /\ DOMAIN cfg.roots = 1..Len(cfg.roots)
            /\ \A i \in DOMAIN cfg.roots : IsRange(cfg.roots[i])
        BY <1>1, CallFacts, SeqShape
      <4>2. IsSeq(items) /\ Len(items) = Len(cfg.roots) /\ Range(items) = {items[i] : i \in 1..Len(cfg.roots)}
        <5>1. items = [k \in 1..Len(cfg.roots) |-> items[k]]
          BY <4>1
        <5> HIDE DEF items
        <5> QED
          BY <4>1, <5>1, SeqFunction
      <4>3. \A x \in Range(items) : \E i \in DOMAIN cfg.roots : x = Item(Root, cfg.roots[i])
        BY <4>1, <4>2
      <4>4. \A x \in Range(items) : Held(x) /\ x.node = Root
        BY <2>1, <3>1, <4>1, <4>3 DEF Held, Item
      <4>5. \A u \in AllUnits : Hits(items, u) = 1
        <5> TAKE u \in AllUnits
        <5>1. CoveredBy(items, u) = {i \in DOMAIN cfg.roots : u \in UnitsOf(cfg.roots[i])}
          BY DEF CoveredBy, Item
        <5>2. Cardinality({i \in DOMAIN cfg.roots : u \in UnitsOf(cfg.roots[i])}) = 1
          BY <1>1, <3>1 DEF SweepFits, AllUnits
        <5> QED
          BY <5>1, <5>2 DEF Hits
      <4>6. frontier = InDomain(items)
        BY <3>1
      <4> HIDE DEF items
      <4> QED
        BY <3>1, <4>2, <4>4, <4>5, <4>6 DEF AllHeld
    <3>2. CASE ~cfg.virtual
      <4> DEFINE it == Item(Root, NodeInterval(Root))
      <4>1. frontier = InDomain(<<it>>)
        BY <3>2
      <4>2. it.node = Root /\ it.iv = NodeInterval(Root) /\ Held(it)
        BY <2>1 DEF Held, Item
      <4>3. \A u \in AllUnits : u \in UnitsOf(NodeInterval(Root))
        BY <1>1, RootHolds
      <4> HIDE DEF it
      <4>4. \A u \in AllUnits : Hits(<<it>>, u) = 1
        BY <4>2, <4>3, HitsSingle DEF One
      <4>5. AllHeld(<<it>>) /\ Range(<<it>>) = {it}
        BY <4>2, SeqSingle DEF AllHeld
      <4> QED
        BY <3>2, <4>1, <4>2, <4>4, <4>5
    <3> QED
      BY <3>1, <3>2
  <2>3. /\ AllHeld(frontier) /\ \A x \in Range(frontier) : x \in Range(items)
        /\ \A u \in AllUnits : Hits(frontier, u) = 1
    <3>1. /\ AllHeld(InDomain(items)) /\ \A x \in Range(InDomain(items)) : x \in Range(items)
          /\ \A u \in AllUnits : Hits(InDomain(items), u) = Hits(items, u)
      BY <1>1, <2>2, InDomainFacts
    <3>2. frontier = InDomain(items)
      BY <2>2
    <3> QED
      BY <2>2, <3>1, <3>2
  <2>4. ASSUME NEW x \in Range(frontier)
        PROVE  PendGood(x, tree, level) /\ (~cfg.virtual => x.iv = NodeInterval(x.node))
    <3>1. /\ Held(x) /\ x.node = Root /\ (~cfg.virtual => x.iv = NodeInterval(x.node))
      BY <2>2, <2>3 DEF AllHeld
    <3>2. DepthOf(x.node) <= level
      BY <2>1, <3>1
    <3> QED
      BY <3>1, <3>2 DEF PendGood, InTree, Several
  <2> QED
    BY <2>3, <2>4 DEF FrontOK, AllHeld
<1> QED
  BY <1>2, <1>3, StartGood DEF SweepInv

-----------------------------------------------------------------------------
(* The steps.                                                              *)

\* One level of the start frontier: each unit keeps its one item.
LEMMA SplitFacts ==
  ASSUME cfg \in Sweeps, NEW items, IsSeq(items), NEW d \in Nat, d < cfg.max,
         \A x \in Range(items) : PendGood(x, tree, d) /\ (~cfg.virtual => x.iv = NodeInterval(x.node)),
         NEW t, Grown(tree, t),
         \A x \in Range(items) : (~cfg.virtual /\ ~stopped /\ CanSplit(x)) => x.node \in t
  PROVE  /\ IsSeq(SplitLevel(items))
         /\ \A y \in Range(SplitLevel(items)) :
              PendGood(y, t, d + 1) /\ (~cfg.virtual => y.iv = NodeInterval(y.node))
         /\ \A u \in AllUnits : Hits(SplitLevel(items), u) = Hits(items, u)
<1> DEFINE part(x) == IF stopped \/ ~CanSplit(x) THEN <<x>> ELSE InDomain(Children(x))
           ss == [i \in DOMAIN items |-> part(items[i])]
           Fine(y) == PendGood(y, t, d + 1) /\ (~cfg.virtual => y.iv = NodeInterval(y.node))
<1>1. SplitLevel(items) = FlattenSeq(ss)
  BY DEF SplitLevel
<1>2. /\ Len(items) \in Nat /\ DOMAIN items = 1..Len(items)
      /\ \A i \in 1..Len(items) : items[i] \in Range(items)
  BY SeqShape
<1>3. IsSeq(ss) /\ Len(ss) = Len(items) /\ \A i \in 1..Len(ss) : ss[i] = part(items[i])
  <2>1. ss = [i \in 1..Len(items) |-> ss[i]] /\ \A i \in 1..Len(items) : ss[i] = part(items[i])
    BY <1>2
  <2> HIDE DEF ss, part
  <2> QED
    BY <1>2, <2>1, SeqFunction
<1>4. Res \in Nat /\ cfg.max \in 0..Res /\ cfg.max \in Int
  BY CallFacts
<1>5. ASSUME NEW x \in Range(items)
      PROVE  /\ IsSeq(part(x)) /\ \A y \in Range(part(x)) : Fine(y)
             /\ \A u \in AllUnits : Hits(part(x), u) = One(x, u)
  <2>1. /\ PendGood(x, tree, d) /\ Held(x) /\ DepthOf(x.node) <= d /\ DepthOf(x.node) \in 0..Res
        /\ (~cfg.virtual => x.iv = NodeInterval(x.node))
    BY <1>4, DepthFacts DEF PendGood, Held
  <2>2. CASE stopped \/ ~CanSplit(x)
    <3>1. part(x) = <<x>>
      BY <2>2
    <3>2. IsSeq(<<x>>) /\ Range(<<x>>) = {x} /\ \A u \in AllUnits : Hits(<<x>>, u) = One(x, u)
      BY SeqSingle, HitsSingle
    <3>3. PendGood(x, t, d)
      BY <2>1, GrownKeeps
    <3>4. Fine(x)
      BY <1>4, <2>1, <3>3 DEF PendGood
    <3> HIDE DEF Fine, part
    <3> QED
      BY <3>1, <3>2, <3>4
  <2>3. CASE ~stopped /\ CanSplit(x)
    <3> DEFINE kids == InDomain(Children(x))
    <3>1. part(x) = kids
      BY <2>3
    <3>2. DepthOf(x.node) < Res
      BY <1>4, <2>1
    <3>3. /\ AllHeld(Children(x))
          /\ \A y \in Range(Children(x)) :
                /\ DepthOf(y.node) = DepthOf(x.node) + 1 /\ y.node \div 2 = x.node
                /\ ~cfg.virtual => y.iv = NodeInterval(y.node)
          /\ \A u \in AllUnits : Hits(Children(x), u) = One(x, u)
      BY <2>1, <3>2, ChildrenFacts
    <3>4. /\ AllHeld(kids) /\ \A y \in Range(kids) : y \in Range(Children(x))
          /\ \A u \in AllUnits : Hits(kids, u) = One(x, u)
      BY <3>3, InDomainFacts
    <3> HIDE DEF kids
    <3>5. ASSUME NEW y \in Range(kids) PROVE Fine(y)
      <4>1. /\ Held(y) /\ DepthOf(y.node) = DepthOf(x.node) + 1 /\ y.node \div 2 = x.node
            /\ (~cfg.virtual => y.iv = NodeInterval(y.node))
        BY <3>3, <3>4 DEF AllHeld
      <4>2. DepthOf(y.node) <= d + 1
        BY <2>1, <4>1
      <4>3. ~cfg.virtual => x.node \in t
        BY <2>3
      <4> QED
        BY <4>1, <4>2, <4>3 DEF PendGood, InTree, Several
    <3> HIDE DEF Fine, part
    <3> QED
      BY <3>1, <3>4, <3>5 DEF AllHeld
  <2> QED
    BY <2>2, <2>3
<1> HIDE DEF part, Fine, ss
<1>6. \A i \in 1..Len(ss) : IsSeq(ss[i])
  BY <1>2, <1>3, <1>5
<1>7. /\ IsSeq(FlattenSeq(ss))
      /\ \A y \in Range(FlattenSeq(ss)) : \E i \in 1..Len(ss) : y \in Range(ss[i])
  BY <1>3, <1>6, JoinedFacts
<1>8. \A y \in Range(FlattenSeq(ss)) : Fine(y)
  BY <1>2, <1>3, <1>5, <1>7
<1>9. ASSUME NEW u \in AllUnits PROVE Hits(FlattenSeq(ss), u) = Hits(items, u)
  <2>1. \A i \in 1..Len(ss) : Hits(ss[i], u) = One(items[i], u)
    BY <1>2, <1>3, <1>5
  <2> QED
    BY <1>3, <1>6, <2>1, JoinedFacts
<1> QED
  BY <1>1, <1>7, <1>8, <1>9 DEF Fine

\* Descending the start frontier by one level keeps the invariant.
LEMMA MaterializeKeeps ==
  ASSUME SweepInv, Materialize
  PROVE  SweepInv'
<1> USE DEF Materialize
<1>1. /\ CallOK /\ GroupsOK /\ FrontOK /\ ListsOK /\ BatchOK /\ SumOK /\ CoverOK /\ QueueOK /\ ResultOK
      /\ cfg \in Sweeps /\ TreeGood(tree)
  BY DEF SweepInv, CallOK
<1>2. /\ level \in Nat /\ level < cfg.max /\ level + 1 \in 0..cfg.start /\ level + 1 \in Nat
  <2>1. level \in 0..cfg.start /\ cfg.start \in Nat /\ cfg.max \in Nat /\ cfg.start <= cfg.max
    BY <1>1, CallFacts DEF CallOK
  <2> QED
    BY <2>1
<1> DEFINE N == {frontier[i].node : i \in {j \in DOMAIN frontier : CanSplit(frontier[j])}}
<1>3. /\ IsSeq(frontier) /\ DOMAIN frontier = 1..Len(frontier)
      /\ \A i \in 1..Len(frontier) : frontier[i] \in Range(frontier)
      /\ \A x \in Range(frontier) : \E i \in 1..Len(frontier) : frontier[i] = x
      /\ \A x \in Range(frontier) : PendGood(x, tree, level) /\ (~cfg.virtual => x.iv = NodeInterval(x.node))
  BY <1>1, SeqShape DEF FrontOK
<1>4. /\ TreeGood(tree') /\ Grown(tree, tree')
      /\ \A x \in Range(frontier) : (~cfg.virtual /\ ~stopped /\ CanSplit(x)) => x.node \in tree'
  <2>1. CASE cfg.virtual \/ stopped
    BY <1>1, <2>1 DEF Grown
  <2>2. CASE ~cfg.virtual /\ ~stopped
    <3>1. tree' = tree \cup N
      BY <2>2
    <3>2. \A n \in N : n \in Nodes /\ InTree(n, tree) /\ (n \in tree \/ n \notin cfg.stuck)
      BY <1>3, <2>2 DEF CanSplit, IsLeaf, PendGood, Held
    <3>3. \A x \in Range(frontier) : CanSplit(x) => x.node \in N
      BY <1>3
    <3> HIDE DEF N
    <3>4. N \subseteq Nodes
      BY <3>2
    <3>5. TreeGood(tree \cup N) /\ Grown(tree, tree \cup N)
      BY <1>1, <2>2, <3>2, <3>4, GrownBy
    <3> QED
      BY <3>1, <3>3, <3>5
  <2> QED
    BY <2>1, <2>2
<1> HIDE DEF N
<1>5. /\ IsSeq(SplitLevel(frontier))
      /\ \A y \in Range(SplitLevel(frontier)) :
              PendGood(y, tree', level + 1) /\ (~cfg.virtual => y.iv = NodeInterval(y.node))
      /\ \A u \in AllUnits : Hits(SplitLevel(frontier), u) = Hits(frontier, u)
  BY <1>1, <1>2, <1>3, <1>4, SplitFacts
<1>6. FrontOK'
  <2>1. \A u \in AllUnits : Hits(SplitLevel(frontier), u) = 1
    BY <1>1, <1>5 DEF FrontOK
  <2>2. frontier' = SplitLevel(frontier) /\ level' = level + 1 /\ cfg' = cfg
    OBVIOUS
  <2>3. /\ IsSeq(frontier')
        /\ \A x \in Range(frontier') : PendGood(x, tree', level') /\ (~cfg.virtual => x.iv = NodeInterval(x.node))
        /\ \A u \in AllUnits : Hits(frontier', u) = 1
    BY <1>5, <2>1, <2>2
  <2> QED
    BY <2>2, <2>3 DEF FrontOK, AllUnits, PendGood, Held, InTree, Several
<1>7. CallOK'
  BY <1>1, <1>2, <1>4 DEF CallOK, TreeGood, InTree
<1>8. GroupsOK' /\ BatchOK' /\ SumOK' /\ CoverOK' /\ QueueOK' /\ ResultOK' /\ ListsOK'
  BY <1>1, <1>4, FrameGroups, FrameBatch, FrameSum, FrameCover, FrameQueue, FrameResult, FrameLists
<1> QED
  BY <1>6, <1>7, <1>8 DEF SweepInv

\* Clustering the obstacles keeps the invariant.
LEMMA ClusterKeeps ==
  ASSUME SweepInv, Cluster
  PROVE  SweepInv'
<1> USE DEF Cluster
<1>1. /\ CallOK /\ GroupsOK /\ FrontOK /\ ListsOK /\ BatchOK /\ SumOK /\ CoverOK /\ QueueOK /\ ResultOK
      /\ cfg \in Sweeps
  BY DEF SweepInv, CallOK
<1>2. Grown(tree, tree') /\ Len(<<>>) = 0 /\ Range(<<>>) = {}
  BY SeqEmpty DEF Grown
<1>3. groups = <<>> /\ swept = <<>> /\ pending = <<>>
  <2>1. groups = <<>> /\ IsSeq(swept) /\ Len(swept) <= 0
    BY <1>1, <1>2 DEF GroupsOK
  <2>2. swept = <<>>
    BY <2>1, SeqShape DEF IsSeq
  <2> QED
    BY <1>1, <2>1, <2>2 DEF ListsOK
<1>4. /\ IsSeq(ClusterObstacles) /\ Len(ClusterObstacles) >= 1
      /\ \A g \in 1..Len(ClusterObstacles) : ClusterObstacles[g] \subseteq DOMAIN cfg.obstacles
      /\ \A o \in DOMAIN cfg.obstacles : \E g \in 1..Len(ClusterObstacles) : o \in ClusterObstacles[g]
  BY <1>1, ClusterFacts
<1>5. pc' \in {"groups", "threw"} /\ (pc' = "groups" => Several \/ Len(groups') = 1)
  BY DEF Several
<1>6. GroupsOK'
  <2>1. Len(ClusterObstacles) \in Nat
    BY <1>4, SeqShape
  <2>2. cfg' = cfg /\ groups' = ClusterObstacles /\ swept' = swept
    OBVIOUS
  <2>3. IsSeq(swept)
    BY <1>1 DEF GroupsOK
  <2> QED
    BY <1>2, <1>3, <1>4, <1>5, <2>1, <2>2, <2>3 DEF GroupsOK, Several
<1>7. CallOK'
  BY <1>1, <1>5 DEF CallOK, TreeGood, InTree
<1>8. FrontOK'
  BY <1>1, <1>2, FrameFront
<1>9. BatchOK' /\ SumOK'
  BY <1>1, <1>5, FrameBatch, FrameSum
<1>10. ListsOK' /\ CoverOK'
  BY <1>1, <1>2, <1>3 DEF ListsOK, CoverOK
<1>11. ~Composing /\ ~Composing'
  BY <1>5 DEF Composing
<1>12. QueueOK'
  <2>1. queue = <<>> /\ IsSeq(queue)
    BY <1>1, <1>11 DEF QueueOK, Composing
  <2> QED
    BY <1>2, <1>11, <2>1 DEF QueueOK, Composing
<1>13. ResultOK'
  BY <1>1, <1>11, FrameResult
<1> QED
  BY <1>6, <1>7, <1>8, <1>9, <1>10, <1>12, <1>13 DEF SweepInv

\* The checkpoints lie between the root and the maximal depth.
LEMMA ActiveFacts ==
  ASSUME cfg \in Sweeps
  PROVE  FirstActive \in 0..cfg.max /\ \A d : NextActive(d) \in 0..cfg.max
<1>1. cfg.max \in Nat /\ Checkpoints \subseteq 0..cfg.max
  <2>1. cfg.max \in Nat /\ cfg.checkpoints \in SUBSET (0..Res) /\ Res \in Nat
    BY CallFacts
  <2> QED
    BY <2>1 DEF Checkpoints
<1>2. ASSUME NEW S, S \subseteq Checkpoints, S # {} PROVE Min(S) \in 0..cfg.max
  <2>1. S \in SUBSET Nat
    BY <1>1, <1>2
  <2>2. \E n \in S : \A m \in S : n <= m
    BY <1>2, <2>1, LeastNat
  <2>3. Min(S) \in S
    BY <2>2 DEF Min
  <2> QED
    BY <1>1, <1>2, <2>3
<1>3. FirstActive \in 0..cfg.max
  BY <1>1, <1>2 DEF FirstActive
<1>4. ASSUME NEW d PROVE NextActive(d) \in 0..cfg.max
  <2> DEFINE later == {e \in Checkpoints : e > d}
  <2>1. later \subseteq Checkpoints
    OBVIOUS
  <2>2. NextActive(d) = IF later = {} THEN cfg.max ELSE Min(later)
    BY DEF NextActive
  <2> HIDE DEF later
  <2>3. cfg.max \in 0..cfg.max
    BY <1>1
  <2>4. CASE later = {}
    BY <2>2, <2>3, <2>4
  <2>5. CASE later # {}
    BY <1>2, <2>1, <2>2, <2>5
  <2> QED
    BY <2>4, <2>5
<1> QED
  BY <1>3, <1>4

\* The first entry of the compose queue holds every unit and claims nothing.
LEMMA FirstEntry ==
  ASSUME cfg \in Sweeps, NEW q, q = <<[node |-> Root, free |-> {}, coll |-> {}]>>
  PROVE  /\ IsSeq(q) /\ \A x \in Range(q) : EntryGood(x)
         /\ \A u \in AllUnits : Hits(Cells(q), u) = 1
<1> DEFINE x == [node |-> Root, free |-> {}, coll |-> {}]
           c == Item(Root, NodeInterval(Root))
<1>1. IsSeq(q) /\ Range(q) = {x} /\ Len(q) = 1 /\ q[1] = x /\ DOMAIN q = 1..1
  <2> HIDE DEF x
  <2> QED
    BY SeqSingle, SeqShape DEF x
<1>2. EntryGood(x)
  BY CallFacts, RootFacts DEF EntryGood
<1>3. Cells(q) = <<c>>
  <2>1. q[1].node = Root
    BY <1>1
  <2>2. Cells(q) = [i \in 1..1 |-> Item(q[i].node, NodeInterval(q[i].node))]
    BY <1>1 DEF Cells
  <2>3. \A i \in 1..1 : Item(q[i].node, NodeInterval(q[i].node)) = c
    BY <2>1
  <2> HIDE DEF c
  <2>4. Cells(q) = [i \in 1..1 |-> c]
    BY <2>2, <2>3
  <2> QED
    BY <2>4
<1>4. \A u \in AllUnits : Hits(<<c>>, u) = 1
  <2>1. c.iv = NodeInterval(Root)
    BY DEF Item
  <2> QED
    BY <2>1, HitsSingle, RootHolds DEF One
<1> QED
  BY <1>1, <1>2, <1>3, <1>4

\* Beginning a cluster, or the composition, keeps the invariant.
LEMMA NextGroupKeeps ==
  ASSUME SweepInv, NextGroup
  PROVE  SweepInv'
<1>1. /\ CallOK /\ GroupsOK /\ FrontOK /\ ListsOK /\ BatchOK /\ SumOK /\ CoverOK /\ QueueOK /\ ResultOK
      /\ cfg \in Sweeps
  BY DEF SweepInv, CallOK
<1>2. pc = "groups" /\ UNCHANGED <<cfg, tree, groups, frontier, level, batch, result, stopped>>
  BY DEF NextGroup
<1>3. Grown(tree, tree')
  BY <1>2 DEF Grown
<1>4. FrontOK'
  BY <1>1, <1>2, <1>3, FrameFront
<1>5. /\ IsSeq(groups) /\ IsSeq(swept) /\ Len(groups) \in Nat /\ Len(swept) \in Nat
      /\ Len(swept) <= Len(groups) /\ pending = <<>> /\ result = NoBoxes /\ queue = <<>> /\ batch = <<>>
  BY <1>1, <1>2, SeqShape DEF GroupsOK, ListsOK, ResultOK, QueueOK, BatchOK
<1>6. BatchOK' <=> (pc' = "batch" \/ batch = <<>>)
  <2>1. pc' # "batch"
    BY DEF NextGroup
  <2> QED
    BY <1>2, <1>5, <2>1 DEF BatchOK
<1>7. CASE stopped \/ Len(swept) = Len(groups)
  <2>1. /\ pc' = "compose" /\ queue' = <<[node |-> Root, free |-> {}, coll |-> {}]>>
        /\ deadline' = (deadline \/ (stopped /\ Len(swept) < Len(groups)))
        /\ UNCHANGED <<pending, active, swept>>
    BY <1>7 DEF NextGroup
  <2>2. CallOK'
    BY <1>1, <1>2, <1>5, <2>1 DEF CallOK, TreeGood, InTree
  <2>3. GroupsOK'
    BY <1>1, <1>2, <1>7, <2>1 DEF GroupsOK, Several
  <2>4. ListsOK' /\ SumOK' /\ CoverOK' /\ BatchOK'
    BY <1>1, <1>2, <1>3, <1>5, <1>6, <2>1, FrameLists, FrameSum, FrameCover
  <2>5. QueueOK'
    <3>1. /\ IsSeq(queue') /\ \A x \in Range(queue') : EntryGood(x)
          /\ \A u \in AllUnits : Hits(Cells(queue'), u) = 1
      BY <1>1, <2>1, FirstEntry
    <3>2. \A x \in Range(queue') : EntryGood(x)'
      BY <1>2, <3>1 DEF EntryGood, Meets
    <3>3. \A u : Hits(result.free, u) = 0 /\ Hits(result.coll, u) = 0
      BY <1>5, HitsEmpty DEF NoBoxes
    <3>4. \A u \in AllUnits : Owned(Hits(Cells(queue'), u) + Hits(result.free, u) + Hits(result.coll, u), ~stopped)
      BY <3>1, <3>3 DEF Owned
    <3> QED
      BY <1>2, <2>1, <3>1, <3>2, <3>4 DEF QueueOK, AllUnits
  <2>6. ResultOK'
    <3>1. IsSeq(<<>>) /\ Range(<<>>) = {}
      BY SeqEmpty
    <3> QED
      BY <1>2, <1>5, <2>1, <3>1 DEF ResultOK, NoBoxes
  <2> QED
    BY <1>4, <2>2, <2>3, <2>4, <2>5, <2>6 DEF SweepInv
<1>8. CASE ~(stopped \/ Len(swept) = Len(groups))
  <2>1. /\ pc' = "sweep" /\ swept' = Append(swept, NoBoxes) /\ pending' = frontier
        /\ active' = (IF cfg.callback THEN FirstActive ELSE cfg.max)
        /\ UNCHANGED <<queue, deadline>>
    BY <1>8 DEF NextGroup
  <2>2. active' \in 0..cfg.max /\ (Several => active' = cfg.max)
    BY <1>1, <2>1, ActiveFacts, CallFacts DEF Several
  <2>3. CallOK'
    BY <1>1, <1>2, <2>1, <2>2 DEF CallOK, TreeGood, InTree
  <2>4. /\ IsSeq(swept') /\ Len(swept') = Len(swept) + 1
        /\ \A g \in 1..Len(swept) : swept'[g] = swept[g]
        /\ swept'[Len(swept) + 1] = NoBoxes
    BY <1>5, <2>1, SeqAppend
  <2>5. GroupsOK'
    BY <1>1, <1>2, <1>5, <1>8, <2>1, <2>2, <2>4 DEF GroupsOK, Several
  <2>6. Boxes' = NoBoxes
    BY <2>4 DEF Boxes
  <2>7. ListsOK'
    <3>1. ASSUME NEW g \in 1..Len(swept') PROVE GroupGood(swept'[g], groups[g], tree)
      <4>1. g \in 1..Len(swept) \/ g = Len(swept) + 1
        BY <1>5, <2>4
      <4>2. GroupGood(NoBoxes, groups[g], tree)
        BY SeqEmpty DEF GroupGood, NoBoxes
      <4> QED
        BY <1>1, <2>4, <4>1, <4>2 DEF ListsOK
    <3>2. level \in Nat /\ level <= cfg.max /\ cfg.max \in Nat
      <4>1. level \in 0..cfg.start /\ cfg.start \in Nat /\ cfg.max \in Nat /\ cfg.start <= cfg.max
        BY <1>1, CallFacts DEF CallOK
      <4> QED
        BY <4>1
    <3>3. IsSeq(frontier) /\ \A x \in Range(frontier) : PendGood(x, tree, cfg.max)
      <4>1. \A x \in Range(frontier) : PendGood(x, tree, level)
        BY <1>1 DEF FrontOK
      <4>2. \A x : PendGood(x, tree, level) => DepthOf(x.node) \in Nat
        BY <1>1, CallFacts, DepthFacts DEF PendGood, Held
      <4>3. \A x : PendGood(x, tree, level) => PendGood(x, tree, cfg.max)
        BY <3>2, <4>2 DEF PendGood
      <4> QED
        BY <1>1, <4>1, <4>3 DEF FrontOK
    <3> QED
      BY <1>2, <2>1, <3>1, <3>3 DEF ListsOK, GroupGood, FreeGood, CollGood, PendGood, Held, InTree, Deepest, Several, Meets
  <2>8. \A u : Hits(NoBoxes.free, u) = 0 /\ Hits(NoBoxes.coll, u) = 0
    BY HitsEmpty DEF NoBoxes
  <2>9. \A u \in AllUnits : Hits(frontier, u) = 1
    BY <1>1 DEF FrontOK
  <2>10. SumOK'
    <3>1. \A u \in AllUnits : Hits(pending', u) + Hits(NoBoxes.free, u) + Hits(NoBoxes.coll, u) = 1
      BY <2>1, <2>8, <2>9
    <3> QED
      BY <1>2, <2>6, <3>1 DEF SumOK, AllUnits, Owned
  <2>11. CoverOK'
    <3> SUFFICES ASSUME ~stopped, cfg.maxColl = 0, ~cfg.callback, NEW g \in 1..Len(swept'), NEW u \in AllUnits,
                        Blocked(groups[g], u)
                 PROVE  Hits(swept'[g].coll, u) + (IF g = Len(swept') THEN Hits(pending', u) ELSE 0) >= 1
      BY <1>2 DEF CoverOK, AllUnits, Blocked
    <3>1. CASE g = Len(swept) + 1
      BY <2>1, <2>4, <2>8, <2>9, <3>1
    <3>2. CASE g \in 1..Len(swept)
      <4>1. Hits(swept[g].coll, u) + (IF g = Len(swept) THEN Hits(pending, u) ELSE 0) >= 1
        BY <1>1, <3>2 DEF CoverOK
      <4>2. Hits(pending, u) = 0
        BY <1>5, HitsEmpty
      <4>3. Hits(swept[g].coll, u) \in Nat
        BY <1>1, <3>2, HitsType DEF ListsOK, GroupGood
      <4>4. g # Len(swept')
        BY <1>5, <2>4, <3>2
      <4> QED
        BY <2>4, <3>2, <4>1, <4>2, <4>3, <4>4
    <3> QED
      BY <1>5, <2>4, <3>1, <3>2
  <2>12. ~Composing /\ ~Composing'
    BY <1>2, <2>1 DEF Composing
  <2>13. QueueOK' /\ ResultOK' /\ BatchOK'
    BY <1>1, <1>2, <1>5, <1>6, <2>1, <2>12, FrameQueue, FrameResult
  <2> QED
    BY <1>4, <2>3, <2>5, <2>7, <2>10, <2>11, <2>13 DEF SweepInv
<1> QED
  BY <1>7, <1>8

\* The state a sweep settles its items on.
LEMMA WorkingGood ==
  ASSUME SweepInv, pc \in {"sweep", "batch"}, NEW rest, IsSeq(rest), Range(rest) \subseteq Range(pending)
  PROVE  /\ WorkGood(Working(rest), Group) /\ Working(rest).tree = tree
         /\ Group \subseteq DOMAIN cfg.obstacles
         /\ Len(swept) \in 1..Len(groups) /\ Len(groups) \in Nat /\ swept # <<>>
         /\ cfg \in Sweeps /\ active \in 0..cfg.max /\ (Several => active = cfg.max)
         /\ \A x \in Range(pending) : PendGood(x, tree, cfg.max)
         /\ IsSeq(pending)
<1>1. CallOK /\ GroupsOK /\ ListsOK
  BY DEF SweepInv
<1>2. /\ IsSeq(groups) /\ IsSeq(swept) /\ Len(groups) \in Nat /\ Len(swept) \in Nat
      /\ Len(swept) >= 1 /\ Len(swept) <= Len(groups)
  BY <1>1, SeqShape DEF GroupsOK
<1>3. Len(swept) \in 1..Len(groups) /\ Len(swept) \in 1..Len(swept)
  BY <1>2
<1>4. GroupGood(Boxes, Group, tree)
  BY <1>1, <1>3 DEF ListsOK, Boxes, Group
<1>5. swept # <<>>
  <2>1. Len(<<>>) = 0
    OBVIOUS
  <2> QED
    BY <1>2, <2>1
<1>6. Working(rest) = Work(Boxes.free, Boxes.coll, rest, tree)
  BY DEF Working, Work
<1>7. /\ Working(rest).free = Boxes.free /\ Working(rest).coll = Boxes.coll
      /\ Working(rest).pending = rest /\ Working(rest).tree = tree
  BY DEF Working
<1>8. WorkGood(Working(rest), Group)
  BY <1>1, <1>4, <1>6, <1>7 DEF WorkGood, GroupGood, ListsOK, CallOK
<1>9. Group \subseteq DOMAIN cfg.obstacles
  BY <1>1, <1>3 DEF GroupsOK, Group
<1> QED
  BY <1>1, <1>2, <1>3, <1>5, <1>7, <1>8, <1>9 DEF CallOK, GroupsOK, ListsOK

\* Settling items taken from the pending ones keeps the invariant.
LEMMA SettledKeeps ==
  ASSUME SweepInv, pc \in {"sweep", "batch"}, pc' = "sweep", batch' = <<>>,
         UNCHANGED <<cfg, groups, frontier, level, active, queue, result, deadline, stopped>>,
         NEW rest, IsSeq(rest), Range(rest) \subseteq Range(pending),
         NEW s, WorkGood(s, Group), Grown(tree, s.tree), Settled(s),
         \A u \in AllUnits : \E h \in Nat : /\ Adds(Working(rest), s, Group, u, h)
                                            /\ Hits(pending, u) = h + Hits(rest, u)
  PROVE  SweepInv'
<1> DEFINE m == Len(swept)
           b == [free |-> s.free, coll |-> s.coll]
<1>1. /\ CallOK /\ GroupsOK /\ FrontOK /\ ListsOK /\ BatchOK /\ SumOK /\ CoverOK /\ QueueOK /\ ResultOK
  BY DEF SweepInv
<1>2. /\ Len(swept) \in 1..Len(groups) /\ Len(groups) \in Nat /\ swept # <<>>
      /\ cfg \in Sweeps /\ active \in 0..cfg.max /\ (Several => active = cfg.max)
      /\ WorkGood(Working(rest), Group)
  BY WorkingGood
<1>3. swept' = [swept EXCEPT ![m] = b] /\ pending' = s.pending /\ tree' = s.tree
  BY DEF Settled
<1>4. /\ IsSeq(swept) /\ DOMAIN swept = 1..m /\ m \in Nat /\ m \in 1..m
  BY <1>1, <1>2, SeqShape DEF GroupsOK
<1>5. /\ IsSeq(swept') /\ Len(swept') = m /\ swept'[m] = b
      /\ \A g \in 1..m : g # m => swept'[g] = swept[g]
  <2>1. swept' = [i \in 1..m |-> IF i = m THEN b ELSE swept[i]]
    <3> HIDE DEF b
    <3> QED
      BY <1>3, <1>4
  <2>2. swept' = [i \in 1..m |-> swept'[i]] /\ swept'[m] = b /\ \A g \in 1..m : g # m => swept'[g] = swept[g]
    <3> HIDE DEF b
    <3> QED
      BY <1>4, <2>1
  <2> HIDE DEF b, m
  <2>3. IsSeq(swept') /\ Len(swept') = m
    BY <1>4, <2>2, SeqFunction
  <2> QED
    BY <2>2, <2>3
<1>6. Boxes' = b /\ swept' # <<>>
  <2>1. Len(<<>>) = 0
    OBVIOUS
  <2> HIDE DEF b, m
  <2>2. Boxes' = b
    BY <1>5 DEF Boxes
  <2>3. Len(swept') # 0
    BY <1>4, <1>5
  <2> QED
    BY <2>1, <2>2, <2>3
<1>7. b.free = s.free /\ b.coll = s.coll
  OBVIOUS
<1>8. /\ Working(rest).free = Boxes.free /\ Working(rest).coll = Boxes.coll /\ Working(rest).pending = rest
  BY DEF Working
<1>9. CallOK'
  BY <1>1, <1>3 DEF CallOK, WorkGood, TreeGood, InTree
<1>10. GroupsOK'
  <2> HIDE DEF b
  <2>1. Len(swept') = Len(swept) /\ IsSeq(swept')
    BY <1>5
  <2>2. UNCHANGED <<cfg, groups, active, stopped>> /\ pc' = "sweep"
    OBVIOUS
  <2>3. /\ IsSeq(groups)
        /\ \A g \in 1..Len(groups) : groups[g] \subseteq DOMAIN cfg.obstacles
        /\ \A o \in DOMAIN cfg.obstacles : \E g \in 1..Len(groups) : o \in groups[g]
        /\ Len(groups) >= 1 /\ (Several \/ Len(groups) = 1)
        /\ Len(swept) <= Len(groups) /\ Len(swept) >= 1 /\ (Several => active = cfg.max)
    BY <1>1 DEF GroupsOK
  <2> HIDE DEF m
  <2> QED
    BY <2>1, <2>2, <2>3 DEF GroupsOK, Several
<1>11. FrontOK'
  BY <1>1, <1>3, FrameFront
<1>12. ListsOK'
  <2>1. ASSUME NEW g \in 1..m PROVE GroupGood(swept'[g], groups[g], s.tree)
    <3>1. CASE g = m
      <4>1. GroupGood(b, Group, s.tree)
        BY DEF GroupGood, WorkGood
      <4> HIDE DEF b
      <4> QED
        BY <1>5, <3>1, <4>1 DEF Group
    <3>2. CASE g # m
      <4>1. GroupGood(swept[g], groups[g], tree)
        BY <1>1 DEF ListsOK
      <4>2. \A x : CollGood(x, tree) => CollGood(x, s.tree)
        BY GrownKeeps
      <4>3. GroupGood(swept[g], groups[g], s.tree)
        BY <4>1, <4>2 DEF GroupGood
      <4> QED
        BY <1>5, <3>2, <4>3
    <3> QED
      BY <3>1, <3>2
  <2>2. IsSeq(s.pending) /\ \A x \in Range(s.pending) : PendGood(x, s.tree, cfg.max)
    BY DEF WorkGood
  <2> HIDE DEF b, m
  <2> QED
    BY <1>3, <1>5, <2>1, <2>2 DEF ListsOK, GroupGood, FreeGood, CollGood, PendGood, Held, InTree, Deepest, Several, Meets
<1>13. \A u : /\ Hits(s.free, u) \in Nat /\ Hits(s.coll, u) \in Nat /\ Hits(s.pending, u) \in Nat
              /\ Hits(Boxes.free, u) \in Nat /\ Hits(Boxes.coll, u) \in Nat /\ Hits(rest, u) \in Nat
  BY <1>2, <1>8, HitsType DEF WorkGood
<1>14. ASSUME NEW u \in AllUnits
       PROVE  /\ Total(s, u) <= Hits(pending, u) + Hits(Boxes.free, u) + Hits(Boxes.coll, u)
              /\ NoCaps => Total(s, u) = Hits(pending, u) + Hits(Boxes.free, u) + Hits(Boxes.coll, u)
              /\ (cfg.maxColl = 0 /\ Blocked(Group, u)) => Open(s, u) = Hits(pending, u) + Hits(Boxes.coll, u)
  <2>1. PICK h \in Nat : /\ Adds(Working(rest), s, Group, u, h)
                         /\ Hits(pending, u) = h + Hits(rest, u)
    OBVIOUS
  <2>2. Total(Working(rest), u) = Hits(rest, u) + Hits(Boxes.free, u) + Hits(Boxes.coll, u)
        /\ Open(Working(rest), u) = Hits(rest, u) + Hits(Boxes.coll, u)
    BY <1>8 DEF Total, Open
  <2>3. Total(s, u) \in Nat /\ Open(s, u) \in Nat
    BY <1>13 DEF Total, Open
  <2>4. /\ Total(s, u) <= Total(Working(rest), u) + h
        /\ NoCaps => Total(s, u) = Total(Working(rest), u) + h
        /\ (cfg.maxColl = 0 /\ Blocked(Group, u)) => Open(s, u) = Open(Working(rest), u) + h
    BY <2>1 DEF Adds
  <2> QED
    BY <1>13, <2>1, <2>2, <2>3, <2>4, SMTT(30)
<1>15. SumOK'
  <2>1. ASSUME NEW u \in AllUnits
        PROVE  Owned(Hits(s.pending, u) + Hits(s.free, u) + Hits(s.coll, u), ~stopped /\ NoCaps)
    <3>1. Owned(Hits(pending, u) + Hits(Boxes.free, u) + Hits(Boxes.coll, u), ~stopped /\ NoCaps)
      BY <1>1, <1>2 DEF SumOK
    <3>2. Hits(pending, u) \in Nat
      BY <1>1, HitsType DEF ListsOK
    <3> QED
      BY <1>13, <1>14, <3>1, <3>2 DEF Owned, Total
  <2> HIDE DEF b
  <2> QED
    BY <1>3, <1>6, <1>7, <2>1 DEF SumOK, AllUnits, NoCaps
<1>16. CoverOK'
  <2> SUFFICES ASSUME ~stopped, cfg.maxColl = 0, ~cfg.callback, NEW g \in 1..Len(swept'), NEW u \in AllUnits,
                        Blocked(groups[g], u)
                 PROVE  Hits(swept'[g].coll, u) + (IF g = Len(swept') THEN Hits(pending', u) ELSE 0) >= 1
    BY DEF CoverOK, AllUnits, Blocked
  <2> HIDE DEF b
  <2>1. g \in 1..m
    BY <1>5
  <2>2. Hits(swept[g].coll, u) + (IF g = Len(swept) THEN Hits(pending, u) ELSE 0) >= 1
    BY <1>1, <2>1 DEF CoverOK
  <2>3. CASE g = m
    <3>1. Open(s, u) = Hits(pending, u) + Hits(Boxes.coll, u)
      BY <1>14, <2>3 DEF Group
    <3>2. Hits(Boxes.coll, u) + Hits(pending, u) >= 1
      BY <2>2, <2>3 DEF Boxes
    <3>3. Hits(s.coll, u) + Hits(s.pending, u) >= 1
      <4>1. Hits(pending, u) \in Nat
        BY <1>1, HitsType DEF ListsOK
      <4> QED
        BY <1>13, <3>1, <3>2, <4>1 DEF Open
    <3> QED
      BY <1>3, <1>5, <1>7, <2>3, <3>3
  <2>4. CASE g # m
    BY <1>5, <2>1, <2>2, <2>4
  <2> QED
    BY <2>3, <2>4
<1>17. BatchOK'
  BY DEF BatchOK
<1>18. ~Composing /\ ~Composing'
  BY DEF Composing
<1>19. QueueOK' /\ ResultOK'
  BY <1>1, <1>18, FrameQueue, FrameResult
<1> QED
  BY <1>9, <1>10, <1>11, <1>12, <1>15, <1>16, <1>17, <1>19 DEF SweepInv

\* Settling one item serially keeps the invariant.
LEMMA SweepItemKeeps ==
  ASSUME SweepInv, SweepItem
  PROVE  SweepInv'
<1> DEFINE item == Head(pending)
           isFree == CertifiedFree(Group, item.iv)
           rest == Tail(pending)
           s == Settle(Working(rest), item, isFree)
<1>1. /\ pc = "sweep" /\ pending # <<>> /\ Settled(s)
      /\ UNCHANGED <<cfg, pc, groups, frontier, level, batch, active, queue, result, deadline, stopped>>
  BY DEF SweepItem
<1>2. IsSeq(pending) /\ batch = <<>>
  BY <1>1 DEF SweepInv, ListsOK, BatchOK
<1>3. /\ IsSeq(rest) /\ item \in Range(pending) /\ Range(rest) \subseteq Range(pending)
      /\ \A u : Hits(pending, u) = One(item, u) + Hits(rest, u)
  BY <1>1, <1>2, SeqTail, HitsTail
<1>4. isFree \in BOOLEAN
  BY DEF CertifiedFree
<1> HIDE DEF item, isFree, rest
<1>5. /\ WorkGood(Working(rest), Group) /\ Working(rest).tree = tree
      /\ Group \subseteq DOMAIN cfg.obstacles
      /\ cfg \in Sweeps /\ active \in 0..cfg.max /\ (Several => active = cfg.max)
      /\ PendGood(item, tree, cfg.max)
  BY <1>1, <1>3, WorkingGood
<1>6. isFree => CertifiedFree(Group, item.iv)
  BY DEF isFree
<1>7. /\ WorkGood(s, Group) /\ Grown(tree, s.tree)
      /\ \A u \in AllUnits : Adds(Working(rest), s, Group, u, One(item, u))
  BY <1>4, <1>5, <1>6, SettleFacts
<1> HIDE DEF s
<1>8. \A u \in AllUnits : \E h \in Nat : /\ Adds(Working(rest), s, Group, u, h)
                                         /\ Hits(pending, u) = h + Hits(rest, u)
  BY <1>3, <1>7 DEF One
<1> QED
  BY <1>1, <1>2, <1>3, <1>7, <1>8, SettledKeeps

\* Settling the outcomes of a batch keeps the invariant.
LEMMA CommitBatchKeeps ==
  ASSUME SweepInv, CommitBatch
  PROVE  SweepInv'
<1> DEFINE n == Len(batch)
           rest == SubSeq(pending, Len(batch) + 1, Len(pending))
           s == SettleAll(Working(rest), pending, batch)
<1>1. /\ pc = "batch" /\ pc' = "sweep" /\ batch' = <<>> /\ Settled(s)
      /\ \A i \in DOMAIN batch : batch[i] # "none"
      /\ UNCHANGED <<cfg, groups, frontier, level, active, queue, result, deadline, stopped>>
  BY DEF CommitBatch
<1>2. /\ IsSeq(pending) /\ IsSeq(batch) /\ n \in Nat /\ Len(pending) \in Nat /\ n <= Len(pending)
      /\ DOMAIN batch = 1..n /\ cfg.virtual
      /\ \A i \in 1..n : batch[i] = "free" => CertifiedFree(Group, pending[i].iv)
  BY <1>1, SeqShape DEF SweepInv, ListsOK, BatchOK
<1>3. n \in 0..Len(pending)
  BY <1>2
<1>4. /\ IsSeq(SubSeq(pending, 1, n)) /\ IsSeq(rest) /\ Range(rest) \subseteq Range(pending)
      /\ \A u : Hits(pending, u) = Hits(SubSeq(pending, 1, n), u) + Hits(rest, u)
  BY <1>2, <1>3, HitsCut
<1> HIDE DEF rest
<1>5. /\ WorkGood(Working(rest), Group) /\ Working(rest).tree = tree
      /\ Group \subseteq DOMAIN cfg.obstacles
      /\ cfg \in Sweeps /\ active \in 0..cfg.max
      /\ \A x \in Range(pending) : PendGood(x, tree, cfg.max)
  BY <1>1, <1>4, WorkingGood
<1>6. /\ WorkGood(s, Group) /\ s.tree = tree
      /\ \A u \in AllUnits : Adds(Working(rest), s, Group, u, Hits(SubSeq(pending, 1, n), u))
  BY <1>2, <1>5, SettleAllFacts
<1>7. Grown(tree, s.tree)
  BY <1>6 DEF Grown
<1>8. \A u : Hits(SubSeq(pending, 1, n), u) \in Nat
  BY <1>4, HitsType
<1> HIDE DEF s, n
<1>9. \A u \in AllUnits : \E h \in Nat : /\ Adds(Working(rest), s, Group, u, h)
                                         /\ Hits(pending, u) = h + Hits(rest, u)
  BY <1>4, <1>6, <1>8
<1> QED
  BY <1>1, <1>4, <1>6, <1>7, <1>9, SettledKeeps

\* Handing a batch to the pool keeps the invariant.
LEMMA TakeBatchKeeps ==
  ASSUME SweepInv, TakeBatch
  PROVE  SweepInv'
<1> DEFINE n == Min({Len(pending), cfg.batch})
<1>1. /\ CallOK /\ GroupsOK /\ FrontOK /\ ListsOK /\ BatchOK /\ SumOK /\ CoverOK /\ QueueOK /\ ResultOK
  BY DEF SweepInv
<1>2. /\ pc = "sweep" /\ pc' = "batch" /\ cfg.virtual /\ batch' = [i \in 1..n |-> "none"]
      /\ UNCHANGED <<cfg, tree, groups, frontier, level, pending, active, swept, queue, result, deadline, stopped>>
  BY DEF TakeBatch, InParallel
<1>3. IsSeq(pending) /\ Len(pending) \in Nat /\ cfg.batch \in Nat
  BY <1>1, SeqShape, CallFacts DEF ListsOK, CallOK
<1>4. n \in Nat /\ n <= Len(pending)
  <2>1. {Len(pending), cfg.batch} \in SUBSET Nat /\ {Len(pending), cfg.batch} # {}
    BY <1>3
  <2>2. PICK k \in {Len(pending), cfg.batch} : \A j \in {Len(pending), cfg.batch} : k <= j
    BY <2>1, LeastNat
  <2>3. n \in {Len(pending), cfg.batch} /\ \A j \in {Len(pending), cfg.batch} : n <= j
    BY <2>2 DEF Min
  <2> QED
    BY <1>3, <2>3
<1> HIDE DEF n
<1>5. IsSeq(batch') /\ Len(batch') = n /\ \A i \in 1..n : batch'[i] = "none"
  <2>1. batch' = [i \in 1..n |-> batch'[i]] /\ \A i \in 1..n : batch'[i] = "none"
    BY <1>2
  <2>2. IsSeq(batch') /\ Len(batch') = n
    BY <1>4, <2>1, SeqFunction
  <2> QED
    BY <2>1, <2>2
<1>6. BatchOK'
  <2>1. /\ pc' = "batch" /\ cfg'.virtual /\ IsSeq(batch') /\ Len(batch') <= Len(pending')
        /\ \A i \in 1..Len(batch') : batch'[i] = "none"
    BY <1>2, <1>4, <1>5
  <2> QED
    BY <2>1 DEF BatchOK
<1>7. Grown(tree, tree') /\ ~Composing /\ ~Composing'
  BY <1>2 DEF Grown, Composing
<1>8. CallOK' /\ GroupsOK'
  BY <1>1, <1>2 DEF CallOK, GroupsOK, TreeGood, InTree, Several
<1> QED
  BY <1>1, <1>2, <1>6, <1>7, <1>8, FrameFront, FrameLists, FrameSum, FrameCover, FrameQueue, FrameResult
     DEF SweepInv

\* A worker that validates an item keeps the invariant.
LEMMA ValidateItemKeeps ==
  ASSUME SweepInv, NEW i \in DOMAIN batch, ValidateItem(i)
  PROVE  SweepInv'
<1> DEFINE v(j) == IF CertifiedFree(Group, pending[j].iv) THEN "free" ELSE "maybe"
<1>1. /\ CallOK /\ GroupsOK /\ FrontOK /\ ListsOK /\ BatchOK /\ SumOK /\ CoverOK /\ QueueOK /\ ResultOK
  BY DEF SweepInv
<1>2. /\ pc = "batch" /\ batch' = [batch EXCEPT ![i] = v(i)]
      /\ UNCHANGED <<cfg, pc, tree, groups, frontier, level, pending, active, swept, queue, result, deadline, stopped>>
  BY DEF ValidateItem
<1>3. /\ cfg.virtual /\ IsSeq(batch) /\ Len(batch) \in Nat /\ DOMAIN batch = 1..Len(batch)
      /\ Len(batch) <= Len(pending)
      /\ \A j \in 1..Len(batch) : batch[j] = "none" \/ batch[j] = v(j)
  BY <1>1, <1>2, SeqShape DEF BatchOK
<1>4. \A j : v(j)' = v(j)
  BY <1>2 DEF Group, CertifiedFree
<1> HIDE DEF v
<1>5. /\ batch' = [j \in 1..Len(batch) |-> batch'[j]]
      /\ \A j \in 1..Len(batch) : batch'[j] = IF j = i THEN v(i) ELSE batch[j]
  BY <1>2, <1>3
<1>6. IsSeq(batch') /\ Len(batch') = Len(batch)
  BY <1>3, <1>5, SeqFunction
<1>7. \A j \in 1..Len(batch') : batch'[j] = "none" \/ batch'[j] = v(j)'
  BY <1>3, <1>4, <1>5, <1>6
<1>8. BatchOK'
  BY <1>2, <1>3, <1>6, <1>7 DEF BatchOK, v
<1>9. Grown(tree, tree')
  BY <1>2 DEF Grown
<1>10. CallOK'
  BY <1>1, <1>2 DEF CallOK, TreeGood, InTree
<1> QED
  BY <1>1, <1>2, <1>8, <1>9, <1>10, FrameGroups, FrameFront, FrameLists, FrameSum, FrameCover, FrameQueue,
     FrameResult DEF SweepInv

\* Forgetting the pending items after a stop keeps the invariant.
LEMMA DropPendingKeeps ==
  ASSUME SweepInv, DropPending
  PROVE  SweepInv'
<1>1. /\ CallOK /\ GroupsOK /\ FrontOK /\ ListsOK /\ BatchOK /\ SumOK /\ CoverOK /\ QueueOK /\ ResultOK
  BY DEF SweepInv
<1>2. /\ pc = "sweep" /\ stopped /\ pending' = <<>> /\ deadline' = TRUE
      /\ UNCHANGED <<cfg, pc, tree, groups, frontier, level, batch, active, swept, queue, result, stopped>>
  BY DEF DropPending
<1>3. IsSeq(<<>>) /\ Range(<<>>) = {}
  BY SeqEmpty
<1>4. Grown(tree, tree')
  BY <1>2 DEF Grown
<1>5. CallOK'
  BY <1>1, <1>2 DEF CallOK, TreeGood, InTree
<1>6. ListsOK'
  <2>1. \A g \in 1..Len(swept) : GroupGood(swept[g], groups[g], tree)
    BY <1>1 DEF ListsOK
  <2> QED
    BY <1>2, <1>3, <2>1 DEF ListsOK, GroupGood, FreeGood, CollGood, PendGood, Held, InTree, Deepest, Several, Meets
<1>7. BatchOK'
  BY <1>1, <1>2 DEF BatchOK
<1>8. CoverOK'
  BY <1>2 DEF CoverOK
<1>9. SumOK'
  <2> SUFFICES ASSUME swept # <<>>, NEW u \in AllUnits
               PROVE  Owned(Hits(<<>>, u) + Hits(Boxes.free, u) + Hits(Boxes.coll, u), FALSE)
    BY <1>2 DEF SumOK, AllUnits, Boxes, Owned
  <2>1. Owned(Hits(pending, u) + Hits(Boxes.free, u) + Hits(Boxes.coll, u), ~stopped /\ NoCaps)
    BY <1>1 DEF SumOK
  <2>2. Hits(pending, u) \in Nat /\ Hits(Boxes.free, u) \in Nat /\ Hits(Boxes.coll, u) \in Nat
    <3>1. IsSeq(pending)
      BY <1>1 DEF ListsOK
    <3>2. WorkGood(Working(pending), Group)
      BY <1>2, <3>1, WorkingGood
    <3> QED
      BY <3>1, <3>2, HitsType DEF WorkGood, Working
  <2>3. Hits(<<>>, u) = 0
    BY HitsEmpty
  <2> QED
    BY <2>1, <2>2, <2>3 DEF Owned
<1> QED
  BY <1>1, <1>2, <1>4, <1>5, <1>6, <1>7, <1>8, <1>9, FrameGroups, FrameFront, FrameQueue, FrameResult DEF SweepInv

\* The deadline keeps the invariant, at whatever point it falls.
LEMMA StopKeeps ==
  ASSUME SweepInv, stopped' = TRUE,
         UNCHANGED <<cfg, pc, tree, groups, frontier, level, pending, batch, active, swept, queue, result, deadline>>
  PROVE  SweepInv'
<1>1. /\ CallOK /\ GroupsOK /\ FrontOK /\ ListsOK /\ BatchOK /\ SumOK /\ CoverOK /\ QueueOK /\ ResultOK
  BY DEF SweepInv
<1>2. Grown(tree, tree')
  BY DEF Grown
<1>3. CallOK' /\ GroupsOK' /\ CoverOK'
  BY <1>1 DEF CallOK, GroupsOK, CoverOK, TreeGood, InTree, Several
<1>4. SumOK'
  BY <1>1 DEF SumOK, AllUnits, Boxes, Owned
<1>5. QueueOK'
  <2>1. \A x : EntryGood(x)' <=> EntryGood(x)
    BY DEF EntryGood, Meets
  <2> QED
    BY <1>1, <2>1 DEF QueueOK, AllUnits, Owned
<1>6. ResultOK'
  BY <1>1 DEF ResultOK, AllUnits, Meets, BlameAll, BlameGood, NoCaps, Owned
<1> QED
  BY <1>1, <1>2, <1>3, <1>4, <1>5, <1>6, FrameFront, FrameLists, FrameBatch DEF SweepInv

\* A checkpoint, resumed or not, keeps the invariant.
LEMMA EndOfPendingKeeps ==
  ASSUME SweepInv, NEW callerStops \in BOOLEAN, EndOfPending(callerStops)
  PROVE  SweepInv'
<1> DEFINE advance == AtCheckpoint /\ ~callerStops /\ active < cfg.max
           again == advance /\ Boxes.coll # <<>> /\ ~stopped
           m == Len(swept)
<1>1. /\ CallOK /\ GroupsOK /\ FrontOK /\ ListsOK /\ BatchOK /\ SumOK /\ CoverOK /\ QueueOK /\ ResultOK
  BY DEF SweepInv
<1>2. /\ pc = "sweep" /\ pending = <<>>
      /\ pc' = (IF again THEN "sweep" ELSE "groups")
      /\ pending' = (IF again THEN Boxes.coll ELSE <<>>)
      /\ active' = (IF again THEN NextActive(active) ELSE active)
      /\ swept' = (IF advance THEN [swept EXCEPT ![m].coll = <<>>] ELSE swept)
      /\ UNCHANGED <<cfg, tree, groups, frontier, level, batch, queue, result, deadline, stopped>>
  BY DEF EndOfPending
<1>3. advance => cfg.callback
  BY DEF AtCheckpoint
<1> HIDE DEF advance
<1>4. IsSeq(<<>>) /\ Range(<<>>) = {} /\ Len(<<>>) = 0
  BY SeqEmpty
<1>5. /\ Len(swept) \in 1..Len(groups) /\ Len(groups) \in Nat /\ swept # <<>>
      /\ cfg \in Sweeps /\ active \in 0..cfg.max /\ (Several => active = cfg.max)
  BY <1>1, <1>2, WorkingGood DEF ListsOK
<1>6. /\ IsSeq(swept) /\ DOMAIN swept = 1..m /\ m \in Nat /\ m \in 1..m /\ Boxes = swept[m]
      /\ GroupGood(Boxes, Group, tree)
  <2>1. IsSeq(swept) /\ DOMAIN swept = 1..m /\ m \in Nat /\ m \in 1..m /\ Boxes = swept[m]
    BY <1>1, <1>5, SeqShape DEF GroupsOK, Boxes
  <2> QED
    BY <1>1, <2>1 DEF ListsOK, Group
<1>7. Grown(tree, tree') /\ ~Composing /\ ~Composing'
  BY <1>2 DEF Grown, Composing
<1>8. CallOK'
  BY <1>1, <1>2, <1>5, ActiveFacts DEF CallOK, TreeGood, InTree
<1>9. FrontOK' /\ BatchOK' /\ QueueOK' /\ ResultOK'
  BY <1>1, <1>2, <1>7, FrameFront, FrameBatch, FrameQueue, FrameResult
<1>10. CASE ~advance
  <2>1. pc' = "groups" /\ UNCHANGED <<pending, active, swept>>
    BY <1>2, <1>10
  <2>2. GroupsOK'
    BY <1>1, <1>2, <2>1 DEF GroupsOK, Several
  <2>3. ListsOK' /\ SumOK' /\ CoverOK'
    BY <1>1, <1>2, <1>7, <2>1, FrameLists, FrameSum, FrameCover
  <2> QED
    BY <1>8, <1>9, <2>2, <2>3 DEF SweepInv
<1>11. CASE advance
  <2> DEFINE b == [free |-> Boxes.free, coll |-> <<>>]
  <2>1. swept' = [i \in 1..m |-> IF i = m THEN b ELSE swept[i]]
    <3>1. Boxes = [free |-> Boxes.free, coll |-> Boxes.coll]
      BY <1>6 DEF GroupGood
    <3>2. [Boxes EXCEPT !.coll = <<>>] = b
      BY <3>1
    <3>3. swept' = [swept EXCEPT ![m] = [Boxes EXCEPT !.coll = <<>>]]
      BY <1>2, <1>6, <1>11
    <3> HIDE DEF b, m
    <3> QED
      BY <1>6, <3>2, <3>3
  <2>2. b = [free |-> b.free, coll |-> b.coll] /\ b.free = Boxes.free /\ b.coll = <<>>
    OBVIOUS
  <2> HIDE DEF b
  <2>3. swept' = [i \in 1..m |-> swept'[i]] /\ swept'[m] = b /\ \A g \in 1..m : g # m => swept'[g] = swept[g]
    BY <1>6, <2>1
  <2>4. IsSeq(swept') /\ Len(swept') = m
    <3> HIDE DEF m
    <3> QED
      BY <1>6, <2>3, SeqFunction
  <2>5. Boxes' = b
    BY <2>3, <2>4 DEF Boxes
  <2>6. GroupsOK'
    <3>1. Len(swept') = Len(swept) /\ IsSeq(swept')
      BY <2>4
    <3>2. UNCHANGED <<cfg, groups, stopped>> /\ pc' \in {"sweep", "groups"}
      BY <1>2
    <3>3. /\ IsSeq(groups)
          /\ \A g \in 1..Len(groups) : groups[g] \subseteq DOMAIN cfg.obstacles
          /\ \A o \in DOMAIN cfg.obstacles : \E g \in 1..Len(groups) : o \in groups[g]
          /\ Len(groups) >= 1 /\ (Several \/ Len(groups) = 1)
          /\ Len(swept) <= Len(groups) /\ Len(swept) >= 1 /\ ~Several
      BY <1>1, <1>2, <1>3, <1>11 DEF GroupsOK, Several
    <3> HIDE DEF m
    <3> QED
      BY <3>1, <3>2, <3>3 DEF GroupsOK, Several
  <2>7. ListsOK'
    <3>1. ASSUME NEW g \in 1..m PROVE GroupGood(swept'[g], groups[g], tree)
      <4>1. GroupGood(b, Group, tree)
        BY <1>4, <1>6, <2>2 DEF GroupGood
      <4>2. CASE g = m
        BY <2>3, <4>1, <4>2 DEF Group
      <4>3. CASE g # m
        BY <1>1, <2>3, <4>3 DEF ListsOK
      <4> QED
        BY <4>2, <4>3
    <3>2. /\ IsSeq(pending') /\ \A x \in Range(pending') : PendGood(x, tree, cfg.max)
          /\ pc' \notin {"sweep", "batch"} => pending' = <<>>
      <4>1. CASE again
        <5>1. IsSeq(Boxes.coll) /\ \A x \in Range(Boxes.coll) : CollGood(x, tree)
          BY <1>6 DEF GroupGood
        <5>2. \A x : CollGood(x, tree) => PendGood(x, tree, cfg.max)
          BY <1>3, <1>11 DEF CollGood, PendGood, Several
        <5> QED
          BY <1>2, <4>1, <5>1, <5>2
      <4>2. CASE ~again
        BY <1>2, <1>4, <4>2
      <4> QED
        BY <4>1, <4>2
    <3> HIDE DEF m, again
    <3> QED
      BY <1>2, <2>4, <3>1, <3>2 DEF ListsOK, GroupGood, FreeGood, CollGood, PendGood, Held, InTree, Deepest, Several, Meets
  <2>8. CoverOK'
    BY <1>2, <1>3, <1>11 DEF CoverOK
  <2>9. SumOK'
    <3> SUFFICES ASSUME NEW u \in AllUnits
                 PROVE  Owned(Hits(pending', u) + Hits(b.free, u) + Hits(b.coll, u), ~stopped /\ NoCaps)
      BY <1>2, <2>5 DEF SumOK, AllUnits, NoCaps
    <3>1. Owned(Hits(pending, u) + Hits(Boxes.free, u) + Hits(Boxes.coll, u), ~stopped /\ NoCaps)
      BY <1>1, <1>5 DEF SumOK
    <3>2. Hits(<<>>, u) = 0 /\ Hits(Boxes.free, u) \in Nat /\ Hits(Boxes.coll, u) \in Nat
      BY <1>6, HitsEmpty, HitsType DEF GroupGood
    <3>3. CASE again
      BY <1>2, <2>2, <3>1, <3>2, <3>3
    <3>4. CASE ~again
      <4>1. pending' = <<>> /\ (Boxes.coll = <<>> \/ stopped)
        BY <1>2, <1>11, <3>4
      <4> QED
        BY <1>2, <2>2, <3>1, <3>2, <4>1 DEF Owned
    <3> QED
      BY <3>3, <3>4
  <2> QED
    BY <1>8, <1>9, <2>6, <2>7, <2>8, <2>9 DEF SweepInv
<1> QED
  BY <1>10, <1>11

-----------------------------------------------------------------------------
(* Nodes that share a unit.                                                *)

\* A node other than the root is a child of its parent and lies in it.
LEMMA ParentFacts ==
  ASSUME Res \in Nat, NEW n \in Nodes, n # Root
  PROVE  /\ n \div 2 \in Nodes /\ DepthOf(n) \in 1..Res /\ DepthOf(n \div 2) = DepthOf(n) - 1
         /\ \A u : u \in UnitsOf(NodeInterval(n)) => u \in UnitsOf(NodeInterval(n \div 2))
<1> DEFINE p == n \div 2
           d == DepthOf(n)
<1>1. d \in 0..Res /\ 2^d <= n /\ n < 2^(d + 1) /\ n \in Nat
  BY DepthFacts DEF Nodes
<1>2. n >= 2
  BY <1>1 DEF Nodes, Root
<1>3. d # 0
  <2>1. 2^(0 + 1) = 2
    BY PowerOfTwo
  <2>2. SUFFICES ASSUME d = 0 PROVE FALSE
    OBVIOUS
  <2>3. n < 2^(0 + 1)
    BY <1>1, <2>2
  <2> HIDE DEF d
  <2> QED
    BY <1>1, <1>2, <2>1, <2>3
<1>4. PICK c : c = d - 1
  OBVIOUS
<1>5. c \in Nat /\ c + 1 = d /\ c \in 0..Res /\ c < Res /\ d \in 1..Res
  <2> HIDE DEF d
  <2> QED
    BY <1>1, <1>3, <1>4
<1>6. PICK a \in Nat, b \in Nat : a = 2^c /\ b = 2^(c + 1) /\ b = 2 * a /\ 2^((c + 1) + 1) = 2 * b
  BY <1>5, PowerOfTwo
<1>7. 2^d = b /\ 2^(d + 1) = 2 * b
  <2>1. 2^d = 2^(c + 1) /\ 2^(d + 1) = 2^((c + 1) + 1)
    BY <1>5, Zenon
  <2> QED
    BY <1>6, <2>1
<1>8. b <= n /\ n < 2 * b
  BY <1>1, <1>7
<1>9. p \in Nat /\ 2 * p <= n /\ n <= 2 * p + 1 /\ a <= p /\ p < b /\ p <= n /\ p >= 1
  BY <1>1, <1>2, <1>6, <1>8
<1>10. p \in Nodes
  BY <1>9 DEF Nodes
<1> HIDE DEF p, d
<1>11. DepthOf(p) = c
  <2>1. 2^c <= p /\ p < 2^(c + 1)
    BY <1>6, <1>9
  <2> QED
    BY <1>5, <1>10, <2>1, DepthIs
<1>12. PICK x, y, z \in 0..2^Res :
           /\ x <= y /\ y <= z /\ NodeInterval(p) = <<x, z>>
           /\ NodeInterval(2 * p) = <<x, y>> /\ NodeInterval(2 * p + 1) = <<y, z>>
  BY <1>5, <1>10, <1>11, ChildHalves
<1>13. n = 2 * p \/ n = 2 * p + 1
  BY <1>1, <1>9
<1>14. 2^Res \in Nat
  BY PowerOfTwo
<1>15. \A u : u \in UnitsOf(NodeInterval(n)) => u \in UnitsOf(NodeInterval(p))
  BY <1>12, <1>13, <1>14 DEF UnitsOf
<1>16. DepthOf(p) = DepthOf(n) - 1 /\ DepthOf(n) \in 1..Res
  BY <1>4, <1>5, <1>11 DEF d
<1> QED
  BY <1>10, <1>15, <1>16 DEF p

\* Nodes of one depth share no unit.
LEMMA SameDepth ==
  ASSUME Res \in Nat, NEW a \in Nodes, NEW b \in Nodes, DepthOf(a) = DepthOf(b),
         NEW u \in Int, u \in UnitsOf(NodeInterval(a)), u \in UnitsOf(NodeInterval(b))
  PROVE  a = b
<1>1. PICK w \in Nat \ {0}, k \in Nat : /\ w = 2^(Res - DepthOf(a)) /\ k = a - 2^DepthOf(a)
                                        /\ NodeInterval(a) = <<k * w, (k + 1) * w>>
  BY NodeShape
<1>2. PICK v \in Nat \ {0}, j \in Nat : /\ v = 2^(Res - DepthOf(b)) /\ j = b - 2^DepthOf(b)
                                        /\ NodeInterval(b) = <<j * v, (j + 1) * v>>
  BY NodeShape
<1>3. v = w /\ j = b - 2^DepthOf(a)
  BY <1>1, <1>2
<1>4. k * w \in Int /\ (k + 1) * w \in Int /\ j * w \in Int /\ (j + 1) * w \in Int
  BY <1>1, <1>2
<1>5. k * w <= u - 1 /\ u - 1 < (k + 1) * w /\ j * w <= u - 1 /\ u - 1 < (j + 1) * w
  <2>1. NodeInterval(a)[1] = k * w /\ NodeInterval(a)[2] = (k + 1) * w
    BY <1>1
  <2>2. NodeInterval(b)[1] = j * w /\ NodeInterval(b)[2] = (j + 1) * w
    BY <1>2, <1>3
  <2>3. PICK k1, k2, j1, j2 \in Int : k1 = k * w /\ k2 = (k + 1) * w /\ j1 = j * w /\ j2 = (j + 1) * w
    BY <1>4
  <2>4. u \in (k1 + 1)..k2 /\ u \in (j1 + 1)..j2
    BY <2>1, <2>2, <2>3 DEF UnitsOf
  <2>5. k1 <= u - 1 /\ u - 1 < k2 /\ j1 <= u - 1 /\ u - 1 < j2
    BY <2>4
  <2> QED
    BY <2>3, <2>5
<1>6. (u - 1) \div w = k /\ (u - 1) \div w = j
  BY <1>1, <1>2, <1>5, DivisionUnique
<1>7. 2^DepthOf(a) \in Nat /\ a \in Int /\ b \in Int
  BY DepthFacts, PowerOfTwo DEF Nodes
<1> QED
  BY <1>1, <1>3, <1>6, <1>7

\* Above a node of the tree whose unit it shares, a node is split.
LEMMA Ancestor ==
  ASSUME Res \in Nat, NEW t, TreeGood(t), NEW a \in Nodes, NEW b \in Nodes, DepthOf(a) < DepthOf(b), InTree(b, t),
         NEW u \in Int, u \in UnitsOf(NodeInterval(a)), u \in UnitsOf(NodeInterval(b))
  PROVE  a \in t
<1> DEFINE Below(d) == {n \in Nodes : /\ DepthOf(n) = d /\ InTree(n, t)
                                      /\ u \in UnitsOf(NodeInterval(n)) /\ DepthOf(a) < d}
           S == {d \in Nat : Below(d) # {} => a \in t}
<1>1. 0 \in S
  <2>1. DepthOf(a) \in Nat
    BY DepthFacts
  <2> QED
    BY <2>1
<1>2. ASSUME NEW d \in Nat, d \in S PROVE d + 1 \in S
  <2> SUFFICES ASSUME NEW n \in Below(d + 1) PROVE a \in t
    OBVIOUS
  <2>1. n \in Nodes /\ DepthOf(n) = d + 1 /\ InTree(n, t) /\ u \in UnitsOf(NodeInterval(n)) /\ DepthOf(a) < d + 1
    OBVIOUS
  <2>2. n # Root
    BY <2>1, RootFacts
  <2>3. /\ n \div 2 \in Nodes /\ DepthOf(n \div 2) = d /\ u \in UnitsOf(NodeInterval(n \div 2))
    BY <2>1, <2>2, ParentFacts
  <2>4. n \div 2 \in t
    BY <2>1, <2>2 DEF InTree
  <2>5. CASE DepthOf(a) = d
    BY <2>3, <2>4, <2>5, SameDepth
  <2>6. CASE DepthOf(a) # d
    <3>1. DepthOf(a) < d
      BY <2>1, <2>6, DepthFacts
    <3>2. InTree(n \div 2, t)
      BY <2>4 DEF TreeGood
    <3>3. n \div 2 \in Below(d)
      BY <2>3, <3>1, <3>2
    <3> QED
      BY <1>2, <3>3
  <2> QED
    BY <2>5, <2>6
<1>3. Nat \subseteq S
  <2> HIDE DEF S
  <2> QED
    BY <1>1, <1>2, NatSetInduction
<1>4. DepthOf(b) \in Nat /\ b \in Below(DepthOf(b))
  BY DepthFacts
<1> QED
  BY <1>3, <1>4

\* Two collision boxes that share a unit have the same node: neither is above
\* the other, because neither is split.
LEMMA DeepestSame ==
  ASSUME Res \in Nat, NEW t, TreeGood(t), NEW a \in Nodes, NEW b \in Nodes, cfg.max \in Nat,
         InTree(a, t), InTree(b, t), Deepest(a, t), Deepest(b, t), DepthOf(a) <= cfg.max, DepthOf(b) <= cfg.max,
         NEW u \in Int, u \in UnitsOf(NodeInterval(a)), u \in UnitsOf(NodeInterval(b))
  PROVE  a = b
<1>1. DepthOf(a) \in Nat /\ DepthOf(b) \in Nat
  BY DepthFacts
<1>2. CASE DepthOf(a) = DepthOf(b)
  BY <1>2, SameDepth
<1>3. CASE DepthOf(a) < DepthOf(b)
  <2>1. a \in t
    BY <1>3, Ancestor
  <2> QED
    BY <1>1, <1>3, <2>1 DEF Deepest
<1>4. CASE DepthOf(b) < DepthOf(a)
  <2>1. b \in t
    BY <1>4, Ancestor
  <2> QED
    BY <1>1, <1>4, <2>1 DEF Deepest
<1> QED
  BY <1>1, <1>2, <1>3, <1>4

-----------------------------------------------------------------------------
(* The composition.                                                        *)

\* A node of the queue, as a box of the result: clipped, with its units.
LEMMA PushFacts ==
  ASSUME cfg \in Sweeps, NEW n \in Nodes, NEW boxes, IsSeq(boxes), NEW b,
         b.iv = Clip(NodeInterval(n), cfg.domain)
  PROVE  /\ IsSeq(Append(boxes, b)) /\ Range(Append(boxes, b)) = Range(boxes) \cup {b}
         /\ Overlaps(NodeInterval(n), cfg.domain) =>
              \A u \in AllUnits : Hits(Append(boxes, b), u) = Hits(boxes, u) + One(Item(n, NodeInterval(n)), u)
         /\ ~Overlaps(NodeInterval(n), cfg.domain) =>
              \A u \in AllUnits : One(Item(n, NodeInterval(n)), u) = 0
<1>1. Res \in Nat /\ IsRange(NodeInterval(n)) /\ IsRange(cfg.domain)
  BY CallFacts, NodeRange
<1>2. \A u \in AllUnits : u \in UnitsOf(Clip(NodeInterval(n), cfg.domain)) <=> u \in UnitsOf(NodeInterval(n))
  BY <1>1, ClipFacts DEF AllUnits
<1>3. IsSeq(Append(boxes, b)) /\ Range(Append(boxes, b)) = Range(boxes) \cup {b}
  BY SeqAppend
<1>4. ASSUME NEW u \in AllUnits PROVE Hits(Append(boxes, b), u) = Hits(boxes, u) + One(Item(n, NodeInterval(n)), u)
  <2>1. Hits(Append(boxes, b), u) = Hits(boxes, u) + One(b, u)
    BY HitsAppend
  <2>2. One(b, u) = One(Item(n, NodeInterval(n)), u)
    BY <1>2 DEF One, Item
  <2> QED
    BY <2>1, <2>2
<1>5. ASSUME ~Overlaps(NodeInterval(n), cfg.domain), NEW u \in AllUnits
      PROVE  One(Item(n, NodeInterval(n)), u) = 0
  BY <1>1, <1>5, ClipFacts DEF One, Item, AllUnits
<1> QED
  BY <1>3, <1>4, <1>5

\* Two lists with the same elements in the same places are the same.
LEMMA SameSeq ==
  ASSUME NEW s, NEW t, IsSeq(s), IsSeq(t), Len(s) = Len(t), \A i \in 1..Len(s) : s[i] = t[i]
  PROVE  s = t
<1>1. s \in Seq(Range(s) \cup Range(t)) /\ t \in Seq(Range(s) \cup Range(t))
  BY SeqWider
<1> QED
  BY <1>1, SeqEqual

\* The cells of a queue that loses its head and gains entries.
LEMMA CellsFacts ==
  ASSUME NEW q, IsSeq(q)
  PROVE  /\ IsSeq(Cells(q))
         /\ \A u : q # <<>> => Hits(Cells(q), u) = One(Item(Head(q).node, NodeInterval(Head(q).node)), u)
                                                    + Hits(Cells(Tail(q)), u)
         /\ \A x, u : Hits(Cells(Append(q, x)), u) = Hits(Cells(q), u) + One(Item(x.node, NodeInterval(x.node)), u)
<1> DEFINE cell(x) == Item(x.node, NodeInterval(x.node))
<1>1. ASSUME NEW s, IsSeq(s)
      PROVE  IsSeq(Cells(s)) /\ Len(Cells(s)) = Len(s) /\ Len(s) \in Nat /\ \A i \in 1..Len(s) : Cells(s)[i] = cell(s[i])
  <2>1. Len(s) \in Nat /\ DOMAIN s = 1..Len(s)
    BY <1>1, SeqShape
  <2>2. Cells(s) = [i \in 1..Len(s) |-> cell(s[i])]
    BY <2>1 DEF Cells
  <2> HIDE DEF cell
  <2>3. Cells(s) = [i \in 1..Len(s) |-> Cells(s)[i]] /\ \A i \in 1..Len(s) : Cells(s)[i] = cell(s[i])
    BY <2>2
  <2> QED
    BY <2>1, <2>3, SeqFunction
<1> HIDE DEF cell
<1>2. ASSUME q # <<>>
      PROVE  Cells(q) # <<>> /\ Head(Cells(q)) = cell(Head(q)) /\ Tail(Cells(q)) = Cells(Tail(q))
  <2>1. /\ IsSeq(Tail(q)) /\ Head(q) = q[1] /\ Len(q) \in Nat \ {0} /\ Len(Tail(q)) = Len(q) - 1
        /\ \A i \in 1..Len(q) - 1 : Tail(q)[i] = q[i + 1]
    BY <1>2, SeqTail
  <2>2. Cells(q) # <<>>
    <3>1. Len(Cells(q)) # 0
      BY <1>1, <2>1
    <3> QED
      BY <3>1, SeqEmpty
  <2>3. /\ IsSeq(Tail(Cells(q))) /\ Head(Cells(q)) = Cells(q)[1] /\ Len(Tail(Cells(q))) = Len(Cells(q)) - 1
        /\ \A i \in 1..Len(Cells(q)) - 1 : Tail(Cells(q))[i] = Cells(q)[i + 1]
    BY <1>1, <2>2, SeqTail
  <2>4. Head(Cells(q)) = cell(Head(q))
    BY <1>1, <2>1, <2>3
  <2>5. \A i \in 1..Len(Tail(q)) : Tail(Cells(q))[i] = Cells(Tail(q))[i]
    <3> TAKE i \in 1..Len(Tail(q))
    <3>1. i \in 1..Len(q) - 1 /\ i + 1 \in 1..Len(q)
      BY <2>1
    <3> QED
      BY <1>1, <2>1, <2>3, <3>1
  <2>6. Tail(Cells(q)) = Cells(Tail(q))
    <3>1. Len(Tail(Cells(q))) = Len(Cells(Tail(q)))
      BY <1>1, <2>1, <2>3
    <3>2. IsSeq(Cells(Tail(q))) /\ Len(Cells(Tail(q))) = Len(Tail(q))
      BY <1>1, <2>1
    <3> QED
      BY <2>1, <2>3, <2>5, <3>1, <3>2, SameSeq
  <2> QED
    BY <2>2, <2>4, <2>6
<1>3. ASSUME NEW x PROVE Cells(Append(q, x)) = Append(Cells(q), cell(x))
  <2>1. /\ IsSeq(Append(q, x)) /\ Len(Append(q, x)) = Len(q) + 1 /\ Append(q, x)[Len(q) + 1] = x
        /\ \A i \in 1..Len(q) : Append(q, x)[i] = q[i]
    BY SeqAppend
  <2>2. /\ IsSeq(Cells(q)) /\ Len(Cells(q)) = Len(q) /\ Len(q) \in Nat
        /\ \A i \in 1..Len(q) : Cells(q)[i] = cell(q[i])
    BY <1>1
  <2>3. /\ IsSeq(Append(Cells(q), cell(x))) /\ Len(Append(Cells(q), cell(x))) = Len(q) + 1
        /\ Append(Cells(q), cell(x))[Len(q) + 1] = cell(x)
        /\ \A i \in 1..Len(q) : Append(Cells(q), cell(x))[i] = cell(q[i])
    BY <2>2, SeqAppend
  <2>4. /\ IsSeq(Cells(Append(q, x))) /\ Len(Cells(Append(q, x))) = Len(q) + 1
        /\ \A i \in 1..Len(q) + 1 : Cells(Append(q, x))[i] = cell(Append(q, x)[i])
    BY <1>1, <2>1
  <2>5. \A i \in 1..Len(q) + 1 : Cells(Append(q, x))[i] = Append(Cells(q), cell(x))[i]
    <3> TAKE i \in 1..Len(q) + 1
    <3>1. i \in 1..Len(q) \/ i = Len(q) + 1
      BY <2>2
    <3> QED
      BY <2>1, <2>3, <2>4, <3>1
  <2> QED
    BY <2>3, <2>4, <2>5, SameSeq
<1>4. \A u : q # <<>> => Hits(Cells(q), u) = One(cell(Head(q)), u) + Hits(Cells(Tail(q)), u)
  <2> SUFFICES ASSUME NEW u, q # <<>>
               PROVE  Hits(Cells(q), u) = One(cell(Head(q)), u) + Hits(Cells(Tail(q)), u)
    OBVIOUS
  <2>1. IsSeq(Cells(q)) /\ Cells(q) # <<>>
    BY <1>1, <1>2
  <2>2. Hits(Cells(q), u) = One(Head(Cells(q)), u) + Hits(Tail(Cells(q)), u)
    BY <2>1, HitsTail
  <2> QED
    BY <2>2, <1>2
<1>5. \A x, u : Hits(Cells(Append(q, x)), u) = Hits(Cells(q), u) + One(cell(x), u)
  <2> SUFFICES ASSUME NEW x, NEW u
               PROVE  Hits(Cells(Append(q, x)), u) = Hits(Cells(q), u) + One(cell(x), u)
    OBVIOUS
  <2>1. IsSeq(Cells(q))
    BY <1>1
  <2>2. Hits(Append(Cells(q), cell(x)), u) = Hits(Cells(q), u) + One(cell(x), u)
    BY <2>1, HitsAppend
  <2>3. Cells(Append(q, x)) = Append(Cells(q), cell(x))
    BY <1>3
  <2> QED
    BY <2>2, <2>3
<1> QED
  BY <1>1, <1>4, <1>5 DEF cell

\* The result of a single group is what its sweep left.
LEMMA ComposeOneKeeps ==
  ASSUME SweepInv, ComposeOne
  PROVE  SweepInv'
<1>1. /\ CallOK /\ GroupsOK /\ FrontOK /\ ListsOK /\ BatchOK /\ SumOK /\ CoverOK /\ QueueOK /\ ResultOK
  BY DEF SweepInv
<1>2. /\ pc = "compose" /\ Len(groups) = 1 /\ pc' = "done"
      /\ result' = IF swept = <<>> THEN NoBoxes
                   ELSE [free |-> Boxes.free,
                         coll |-> [i \in DOMAIN Boxes.coll |-> Blamed(Boxes.coll[i], groups[1])]]
      /\ UNCHANGED <<cfg, tree, groups, frontier, level, pending, batch, active, swept, queue, deadline, stopped>>
  BY DEF ComposeOne
<1>3. Grown(tree, tree') /\ pending = <<>>
  BY <1>1, <1>2 DEF Grown, ListsOK
<1>4. CallOK' /\ GroupsOK'
  BY <1>1, <1>2 DEF CallOK, GroupsOK, TreeGood, InTree, Several
<1>5. QueueOK'
  <2>1. \A x : EntryGood(x)' <=> EntryGood(x)
    BY <1>2 DEF EntryGood, Meets
  <2> QED
    BY <1>1, <1>2, <2>1 DEF QueueOK
<1>6. /\ IsSeq(<<>>) /\ Range(<<>>) = {} /\ \A u : Hits(<<>>, u) = 0
  BY SeqEmpty, HitsEmpty
<1>7. CASE swept = <<>>
  <2>1. stopped
    <3>1. Len(swept) = 0
      BY <1>7, SeqEmpty
    <3> QED
      BY <1>1, <1>2, <3>1 DEF GroupsOK, CallOK
  <2>2. result' = [free |-> <<>>, coll |-> <<>>]
    BY <1>2, <1>7 DEF NoBoxes
  <2>3. result'.free = <<>> /\ result'.coll = <<>> /\ result' = [free |-> result'.free, coll |-> result'.coll]
    BY <2>2
  <2>4. ResultOK'
    BY <1>2, <1>6, <2>1, <2>3 DEF ResultOK, Owned
  <2> QED
    BY <1>1, <1>2, <1>3, <1>4, <1>5, <2>4, FrameFront, FrameLists, FrameBatch, FrameSum, FrameCover DEF SweepInv
<1>8. CASE swept # <<>>
  <2> DEFINE coll == [i \in DOMAIN Boxes.coll |-> Blamed(Boxes.coll[i], groups[1])]
  <2>1. Len(swept) = 1 /\ Boxes = swept[1] /\ GroupGood(Boxes, groups[1], tree)
    <3>1. IsSeq(swept) /\ Len(swept) <= 1 /\ Len(swept) \in Nat /\ Len(swept) # 0
      BY <1>1, <1>2, <1>8, SeqShape, SeqEmpty, SeqTail DEF GroupsOK
    <3> QED
      BY <1>1, <3>1, SMTT(30) DEF ListsOK, Boxes
  <2>2. /\ IsSeq(Boxes.free) /\ IsSeq(Boxes.coll)
        /\ Len(Boxes.coll) \in Nat /\ DOMAIN Boxes.coll = 1..Len(Boxes.coll)
    BY <2>1, SeqShape DEF GroupGood
  <2>3. coll = [i \in 1..Len(Boxes.coll) |-> coll[i]]
    BY <2>2
  <2>4. \A i \in 1..Len(Boxes.coll) : coll[i].blame = groups[1] /\ coll[i].iv = Boxes.coll[i].iv
    BY <2>2 DEF Blamed
  <2>5. result' = [free |-> Boxes.free, coll |-> coll]
    BY <1>2, <1>8
  <2> HIDE DEF coll
  <2>6. IsSeq(coll) /\ Len(coll) = Len(Boxes.coll) /\ Range(coll) = {coll[i] : i \in 1..Len(Boxes.coll)}
    BY <2>2, <2>3, SeqFunction
  <2>7. result'.free = Boxes.free /\ result'.coll = coll /\ result' = [free |-> result'.free, coll |-> result'.coll]
    BY <2>5
  <2>8. \A o \in DOMAIN cfg.obstacles : o \in groups[1]
    BY <1>1, <1>2 DEF GroupsOK
  <2>9. \A x \in Range(Boxes.free) : \A o \in DOMAIN cfg.obstacles : ~Meets(x.iv, o)
    BY <2>1, <2>8 DEF GroupGood, FreeGood
  <2>10. \A x \in Range(coll) : BlameGood(x)
    BY <2>4, <2>6, <2>8 DEF BlameGood
  <2>11. ASSUME NEW u \in AllUnits
         PROVE  Owned(Hits(Boxes.free, u) + Hits(coll, u), ~stopped /\ NoCaps)
    <3>1. Owned(Hits(pending, u) + Hits(Boxes.free, u) + Hits(Boxes.coll, u), ~stopped /\ NoCaps)
      BY <1>1, <1>8 DEF SumOK
    <3>2. Hits(pending, u) = 0 /\ Hits(Boxes.free, u) \in Nat /\ Hits(Boxes.coll, u) \in Nat
      BY <1>3, <1>6, <2>2, HitsType
    <3>3. Hits(coll, u) = Hits(Boxes.coll, u)
      <4>1. DOMAIN coll = 1..Len(Boxes.coll)
        BY <2>3
      <4>2. CoveredBy(coll, u) = CoveredBy(Boxes.coll, u)
        BY <2>2, <2>4, <4>1 DEF CoveredBy
      <4> QED
        BY <4>2 DEF Hits
    <3>4. Hits(pending, u) + Hits(Boxes.free, u) + Hits(Boxes.coll, u) = Hits(Boxes.free, u) + Hits(coll, u)
      BY <3>2, <3>3
    <3> QED
      BY <3>1, <3>4
  <2>12. ResultOK'
    <3>1. \A x \in Range(result'.free) : \A o \in DOMAIN cfg.obstacles : ~Meets(x.iv, o)
      BY <2>7, <2>9
    <3>2. \A x \in Range(result'.coll) : BlameGood(x)
      BY <2>7, <2>10
    <3>3. \A u \in AllUnits : Owned(Hits(result'.free, u) + Hits(result'.coll, u), ~stopped /\ NoCaps)
      BY <2>7, <2>11
    <3>4. /\ result' = [free |-> result'.free, coll |-> result'.coll]
          /\ IsSeq(result'.free) /\ IsSeq(result'.coll)
      BY <2>2, <2>6, <2>7
    <3> QED
      BY <1>2, <3>1, <3>2, <3>3, <3>4 DEF ResultOK, Meets, BlameGood, AllUnits, NoCaps
  <2> QED
    BY <1>1, <1>2, <1>3, <1>4, <1>5, <2>12, FrameFront, FrameLists, FrameBatch, FrameSum, FrameCover DEF SweepInv
<1> QED
  BY <1>7, <1>8

\* The composition ends with nothing left in the queue.
LEMMA ComposeEndsKeeps ==
  ASSUME SweepInv, ComposeEnds
  PROVE  SweepInv'
<1>1. /\ CallOK /\ GroupsOK /\ FrontOK /\ ListsOK /\ BatchOK /\ SumOK /\ CoverOK /\ QueueOK /\ ResultOK
  BY DEF SweepInv
<1>2. /\ pc = "compose" /\ Len(groups) # 1 /\ (queue = <<>> \/ stopped) /\ pc' = "done" /\ queue' = <<>>
      /\ deadline' = (deadline \/ queue # <<>>)
      /\ UNCHANGED <<cfg, tree, groups, frontier, level, pending, batch, active, swept, result, stopped>>
  BY DEF ComposeEnds
<1>3. Grown(tree, tree') /\ pending = <<>>
  BY <1>1, <1>2 DEF Grown, ListsOK
<1>4. CallOK' /\ GroupsOK'
  BY <1>1, <1>2 DEF CallOK, GroupsOK, TreeGood, InTree, Several
<1>5. /\ IsSeq(<<>>) /\ Range(<<>>) = {} /\ Cells(<<>>) = <<>>
  BY SeqEmpty DEF Cells
<1>6. QueueOK'
  <2>1. ASSUME NEW u \in AllUnits
        PROVE  Owned(Hits(Cells(<<>>), u) + Hits(result.free, u) + Hits(result.coll, u), ~stopped)
    <3>1. Owned(Hits(Cells(queue), u) + Hits(result.free, u) + Hits(result.coll, u), ~stopped)
      BY <1>1, <1>2 DEF QueueOK
    <3>2. Hits(Cells(queue), u) \in Nat /\ Hits(result.free, u) \in Nat /\ Hits(result.coll, u) \in Nat
      <4>1. IsSeq(Cells(queue)) /\ IsSeq(result.free) /\ IsSeq(result.coll)
        BY <1>1, CellsFacts DEF QueueOK, ResultOK
      <4> QED
        BY <4>1, HitsType
    <3>3. Hits(Cells(<<>>), u) = 0
      BY <1>5, HitsEmpty
    <3>4. CASE stopped
      BY <3>1, <3>2, <3>3, <3>4 DEF Owned
    <3>5. CASE ~stopped
      BY <1>2, <3>1, <3>5
    <3> QED
      BY <3>4, <3>5
  <2> QED
    BY <1>2, <1>5, <2>1 DEF QueueOK, AllUnits
<1>7. ResultOK'
  BY <1>1, <1>2 DEF ResultOK, Meets, BlameGood, BlameAll
<1> QED
  BY <1>1, <1>2, <1>3, <1>4, <1>6, <1>7, FrameFront, FrameLists, FrameBatch, FrameSum, FrameCover DEF SweepInv

\* Nothing added to a list, and two elements added.
LEMMA JoinPair ==
  ASSUME NEW s, IsSeq(s), NEW a, NEW b
  PROVE  s \o <<>> = s /\ s \o <<a, b>> = Append(Append(s, a), b)
<1>1. Len(s) \in Nat
  BY SeqShape
<1>2. s \o <<>> = s
  <2>1. IsSeq(<<>>) /\ Len(<<>>) = 0
    BY SeqEmpty
  <2>2. IsSeq(s \o <<>>) /\ Len(s \o <<>>) = Len(s) + 0 /\ \A i \in 1..Len(s) : (s \o <<>>)[i] = s[i]
    BY <2>1, SeqConcat
  <2> QED
    BY <1>1, <2>2, SameSeq
<1>3. s \o <<a, b>> = Append(Append(s, a), b)
  <2>1. IsSeq(<<a, b>>) /\ Len(<<a, b>>) = 2 /\ <<a, b>>[1] = a /\ <<a, b>>[2] = b
    BY SeqPair
  <2>2. /\ IsSeq(s \o <<a, b>>) /\ Len(s \o <<a, b>>) = Len(s) + 2
        /\ \A i \in 1..Len(s) : (s \o <<a, b>>)[i] = s[i]
        /\ (s \o <<a, b>>)[Len(s) + 1] = a /\ (s \o <<a, b>>)[Len(s) + 2] = b
    BY <2>1, SeqConcat
  <2>3. /\ IsSeq(Append(s, a)) /\ Len(Append(s, a)) = Len(s) + 1
        /\ \A i \in 1..Len(s) : Append(s, a)[i] = s[i]
        /\ Append(s, a)[Len(s) + 1] = a
    BY SeqAppend
  <2> DEFINE t == Append(s, a)
             both == Append(t, b)
             joined == s \o <<a, b>>
  <2> HIDE DEF t
  <2>4. /\ IsSeq(t) /\ Len(t) = Len(s) + 1 /\ \A i \in 1..Len(s) : t[i] = s[i] /\ t[Len(s) + 1] = a
    BY <2>3 DEF t
  <2>5. /\ IsSeq(both) /\ Len(both) = Len(t) + 1
        /\ \A i \in 1..Len(t) : both[i] = t[i]
        /\ both[Len(t) + 1] = b
    BY <2>4, SeqAppend
  <2> HIDE DEF both, joined
  <2>6. /\ Len(joined) = Len(both)
        /\ \A i \in 1..Len(joined) : joined[i] = both[i]
    <3>1. Len(joined) = Len(s) + 2 /\ Len(both) = Len(s) + 2
      BY <1>1, <2>2, <2>4, <2>5 DEF joined
    <3>2. ASSUME NEW i \in 1..Len(s) + 2 PROVE joined[i] = both[i]
      <4>1. CASE i \in 1..Len(s)
        <5>1. i \in 1..Len(t)
          BY <1>1, <2>4, <4>1
        <5> QED
          BY <2>2, <2>4, <2>5, <4>1, <5>1 DEF joined
      <4>2. CASE i = Len(s) + 1
        <5>1. Len(s) + 1 \in 1..Len(t) /\ t[Len(s) + 1] = a
          BY <1>1, <2>3, <2>4 DEF t
        <5>2. both[Len(s) + 1] = a
          BY <2>5, <5>1
        <5> QED
          BY <2>2, <4>2, <5>2 DEF joined
      <4>3. CASE i = Len(s) + 2
        <5>1. Len(t) + 1 = Len(s) + 2
          BY <1>1, <2>4
        <5> QED
          BY <2>2, <2>5, <4>3, <5>1 DEF joined
      <4> QED
        BY <1>1, <4>1, <4>2, <4>3
    <3> QED
      BY <3>1, <3>2
  <2>7. IsSeq(joined) /\ IsSeq(both)
    BY <2>2, <2>5 DEF joined
  <2> QED
    BY <2>6, <2>7, SameSeq DEF joined, both, t
<1> QED
  BY <1>2, <1>3

\* When several groups are composed without a stop, all of them were swept.
LEMMA ComposeFacts ==
  ASSUME SweepInv, pc = "compose", Len(groups) # 1, ~stopped
  PROVE  /\ cfg \in Sweeps /\ Several /\ TreeGood(tree) /\ pending = <<>>
         /\ IsSeq(groups) /\ IsSeq(swept) /\ Len(swept) = Len(groups) /\ Len(groups) \in Nat
         /\ DOMAIN groups = 1..Len(groups) /\ DOMAIN swept = 1..Len(groups)
         /\ \A g \in 1..Len(groups) : groups[g] \subseteq DOMAIN cfg.obstacles /\ GroupGood(swept[g], groups[g], tree)
         /\ \A o \in DOMAIN cfg.obstacles : \E g \in 1..Len(groups) : o \in groups[g]
         /\ cfg.maxColl = 0 => \A g \in 1..Len(groups) : \A u \in AllUnits :
                                 Blocked(groups[g], u) => Hits(swept[g].coll, u) >= 1
<1>1. /\ CallOK /\ GroupsOK /\ ListsOK /\ CoverOK
  BY DEF SweepInv
<1>2. /\ cfg \in Sweeps /\ Several /\ TreeGood(tree) /\ pending = <<>>
      /\ IsSeq(groups) /\ IsSeq(swept) /\ Len(swept) = Len(groups)
      /\ \A o \in DOMAIN cfg.obstacles : \E g \in 1..Len(groups) : o \in groups[g]
  BY <1>1 DEF CallOK, GroupsOK, ListsOK
<1>3. Len(groups) \in Nat /\ DOMAIN groups = 1..Len(groups) /\ DOMAIN swept = 1..Len(groups)
  BY <1>2, SeqShape
<1>4. \A g \in 1..Len(groups) : groups[g] \subseteq DOMAIN cfg.obstacles /\ GroupGood(swept[g], groups[g], tree)
  BY <1>1, <1>2 DEF GroupsOK, ListsOK
<1>5. ASSUME cfg.maxColl = 0, NEW g \in 1..Len(groups), NEW u \in AllUnits, Blocked(groups[g], u)
      PROVE  Hits(swept[g].coll, u) >= 1
  <2>1. Hits(swept[g].coll, u) + (IF g = Len(swept) THEN Hits(pending, u) ELSE 0) >= 1
    BY <1>1, <1>2, <1>5 DEF CoverOK, Several
  <2>2. Hits(pending, u) = 0 /\ Hits(swept[g].coll, u) \in Nat
    BY <1>2, <1>4, HitsEmpty, HitsType DEF GroupGood
  <2> QED
    BY <2>1, <2>2
<1> QED
  BY <1>2, <1>3, <1>4, <1>5

\* What the boxes of the groups at a node say of it: the groups marked free
\* have no obstacle there, and when nothing is pruned or dropped the groups
\* marked as collisions are all those with an obstacle in the node, which is
\* then one that no group went below.
LEMMA MarkedFacts ==
  ASSUME SweepInv, pc = "compose", Len(groups) # 1, ~stopped, NEW y, EntryGood(y), NEW x, x = Marked(y)
  PROVE  /\ x = [node |-> x.node, free |-> x.free, coll |-> x.coll] /\ x.node \in Nodes
         /\ \A g \in x.free : g \in 1..Len(groups) /\ \A o \in groups[g] : ~Meets(NodeInterval(x.node), o)
         /\ x.coll \subseteq 1..Len(groups)
         /\ (cfg.pruneDepth < 0 /\ x.coll # {}) =>
              /\ InTree(x.node, tree) /\ Deepest(x.node, tree) /\ DepthOf(x.node) <= cfg.max
              /\ cfg.maxColl = 0 => \A g \in 1..Len(groups) : \A u \in AllUnits :
                                      (Blocked(groups[g], u) /\ u \in UnitsOf(NodeInterval(x.node))) => g \in x.coll
<1>1. /\ cfg \in Sweeps /\ Several /\ TreeGood(tree)
      /\ Len(groups) \in Nat /\ DOMAIN swept = 1..Len(groups)
      /\ \A g \in 1..Len(groups) : GroupGood(swept[g], groups[g], tree)
      /\ cfg.maxColl = 0 => \A g \in 1..Len(groups) : \A u \in AllUnits :
                                 Blocked(groups[g], u) => Hits(swept[g].coll, u) >= 1
  BY ComposeFacts
<1>2. /\ y = [node |-> y.node, free |-> y.free, coll |-> y.coll] /\ y.node \in Nodes
      /\ \A g \in y.free : g \in 1..Len(groups) /\ \A o \in groups[g] : ~Meets(NodeInterval(y.node), o)
      /\ y.coll \subseteq 1..Len(groups)
      /\ cfg.pruneDepth < 0 => y.coll = {}
  BY DEF EntryGood
<1>3. /\ x = [node |-> y.node, free |-> y.free \cup GroupsWith("free", y.node),
              coll |-> y.coll \cup GroupsWith("coll", y.node)]
  BY <1>2 DEF Marked
<1>4. /\ x.node = y.node /\ x.free = y.free \cup GroupsWith("free", y.node)
      /\ x.coll = y.coll \cup GroupsWith("coll", y.node)
      /\ x = [node |-> x.node, free |-> x.free, coll |-> x.coll]
  BY <1>3
<1>5. ASSUME NEW g \in GroupsWith("free", y.node)
      PROVE  g \in 1..Len(groups) /\ \A o \in groups[g] : ~Meets(NodeInterval(y.node), o)
  <2>1. g \in 1..Len(groups) /\ y.node \in NodesOf(swept[g].free)
    BY <1>1 DEF GroupsWith
  <2>2. PICK b \in Range(swept[g].free) : b.node = y.node
    BY <2>1 DEF NodesOf, Range
  <2> QED
    BY <1>1, <2>1, <2>2 DEF GroupGood, FreeGood
<1>6. ASSUME NEW g \in GroupsWith("coll", y.node)
      PROVE  g \in 1..Len(groups) /\ \E b \in Range(swept[g].coll) : b.node = y.node /\ CollGood(b, tree)
  <2>1. g \in 1..Len(groups) /\ y.node \in NodesOf(swept[g].coll)
    BY <1>1 DEF GroupsWith
  <2>2. PICK b \in Range(swept[g].coll) : b.node = y.node
    BY <2>1 DEF NodesOf, Range
  <2> QED
    BY <1>1, <2>1, <2>2 DEF GroupGood
<1>7. ASSUME cfg.pruneDepth < 0, x.coll # {}
      PROVE  /\ InTree(x.node, tree) /\ Deepest(x.node, tree) /\ DepthOf(x.node) <= cfg.max
             /\ cfg.maxColl = 0 => \A g \in 1..Len(groups) : \A u \in AllUnits :
                                      (Blocked(groups[g], u) /\ u \in UnitsOf(NodeInterval(x.node))) => g \in x.coll
  <2>1. PICK h \in GroupsWith("coll", y.node) : TRUE
    BY <1>2, <1>4, <1>7
  <2>2. PICK b : b.node = y.node /\ CollGood(b, tree)
    BY <1>6
  <2>3. InTree(x.node, tree) /\ Deepest(x.node, tree) /\ DepthOf(x.node) <= cfg.max
    BY <1>1, <1>4, <1>7, <2>2 DEF CollGood, Several
  <2>4. ASSUME cfg.maxColl = 0, NEW g \in 1..Len(groups), NEW u \in AllUnits,
               Blocked(groups[g], u), u \in UnitsOf(NodeInterval(x.node))
        PROVE  g \in x.coll
    <3>1. Hits(swept[g].coll, u) >= 1 /\ IsSeq(swept[g].coll)
      BY <1>1, <2>4 DEF GroupGood
    <3>2. PICK z \in Range(swept[g].coll) : u \in UnitsOf(z.iv)
      BY <3>1, HitsType
    <3>3. CollGood(z, tree)
      BY <1>1, <3>2 DEF GroupGood
    <3>4. /\ Held(z) /\ z.node \in Nodes /\ InTree(z.node, tree) /\ Deepest(z.node, tree)
          /\ DepthOf(z.node) <= cfg.max /\ ~cfg.virtual
      BY <1>1, <1>7, <3>3 DEF CollGood, Held, Several
    <3>5. u \in UnitsOf(NodeInterval(z.node))
      BY <1>1, <3>2, <3>4, HeldUnits
    <3>6. Res \in Nat /\ cfg.max \in Nat /\ u \in Int
      <4>1. Res \in Nat /\ cfg.max \in 0..Res /\ IsRange(cfg.domain)
        BY <1>1, CallFacts
      <4> QED
        BY <4>1 DEF AllUnits, UnitsOf, IsRange
    <3>7. z.node = x.node
      BY <1>1, <1>2, <1>4, <2>3, <2>4, <3>4, <3>5, <3>6, DeepestSame
    <3>8. x.node \in NodesOf(swept[g].coll)
      <4>1. PICK i \in DOMAIN swept[g].coll : swept[g].coll[i] = z
        BY <3>2 DEF Range
      <4> QED
        BY <3>7, <4>1 DEF NodesOf
    <3> QED
      BY <1>1, <1>4, <3>8 DEF GroupsWith
  <2> QED
    BY <2>3, <2>4
<1> QED
  BY <1>2, <1>4, <1>5, <1>6, <1>7

\* A cell added to the boxes of the composition.
LEMMA PushedFacts ==
  ASSUME SweepInv, NEW n \in Nodes, NEW B
  PROVE  /\ LET r == PushFree(result, n)
                b == Item(n, Clip(NodeInterval(n), cfg.domain))
            IN /\ r = [free |-> r.free, coll |-> r.coll] /\ IsSeq(r.free) /\ IsSeq(r.coll)
               /\ Range(r.free) \subseteq Range(result.free) \cup {b} /\ r.coll = result.coll
               /\ \A u \in AllUnits : Hits(r.free, u) + Hits(r.coll, u)
                     = Hits(result.free, u) + Hits(result.coll, u) + One(Item(n, NodeInterval(n)), u)
         /\ LET r == PushCollision(result, n, B)
                b == Blamed(Item(n, Clip(NodeInterval(n), cfg.domain)), UNION {groups[g] : g \in B})
            IN /\ r = [free |-> r.free, coll |-> r.coll] /\ IsSeq(r.free) /\ IsSeq(r.coll)
               /\ Range(r.coll) \subseteq Range(result.coll) \cup {b} /\ r.free = result.free
               /\ \A u \in AllUnits : Hits(r.free, u) + Hits(r.coll, u)
                     = Hits(result.free, u) + Hits(result.coll, u) + One(Item(n, NodeInterval(n)), u)
<1>1. /\ cfg \in Sweeps
      /\ result = [free |-> result.free, coll |-> result.coll] /\ IsSeq(result.free) /\ IsSeq(result.coll)
  BY DEF SweepInv, CallOK, ResultOK
<1> DEFINE clip == Clip(NodeInterval(n), cfg.domain)
           f == Item(n, clip)
           c == Blamed(Item(n, clip), UNION {groups[g] : g \in B})
           in == Overlaps(NodeInterval(n), cfg.domain)
           cell == Item(n, NodeInterval(n))
           rf == PushFree(result, n)
           rc == PushCollision(result, n, B)
<1>2. f.iv = clip /\ c.iv = clip
  BY DEF Item, Blamed
<1>3. /\ in => rf = [free |-> Append(result.free, f), coll |-> result.coll]
      /\ ~in => rf = result
  BY <1>1 DEF PushFree
<1>4. /\ in => rc = [free |-> result.free, coll |-> Append(result.coll, c)]
      /\ ~in => rc = result
  BY <1>1 DEF PushCollision
<1>5. \A u \in AllUnits : Hits(result.free, u) \in Nat /\ Hits(result.coll, u) \in Nat /\ One(cell, u) \in Nat
  BY <1>1, HitsType DEF One
<1> HIDE DEF f, c, rf, rc
<1>6. /\ IsSeq(Append(result.free, f)) /\ Range(Append(result.free, f)) = Range(result.free) \cup {f}
      /\ in => \A u \in AllUnits : Hits(Append(result.free, f), u) = Hits(result.free, u) + One(cell, u)
      /\ ~in => \A u \in AllUnits : One(cell, u) = 0
  BY <1>1, <1>2, PushFacts
<1>7. /\ IsSeq(Append(result.coll, c)) /\ Range(Append(result.coll, c)) = Range(result.coll) \cup {c}
      /\ in => \A u \in AllUnits : Hits(Append(result.coll, c), u) = Hits(result.coll, u) + One(cell, u)
  BY <1>1, <1>2, PushFacts
<1> HIDE DEF in, cell
<1>8. CASE in
  <2>1. rf.free = Append(result.free, f) /\ rf.coll = result.coll /\ rf = [free |-> rf.free, coll |-> rf.coll]
    BY <1>3, <1>8
  <2>2. rc.free = result.free /\ rc.coll = Append(result.coll, c) /\ rc = [free |-> rc.free, coll |-> rc.coll]
    BY <1>4, <1>8
  <2>3. ASSUME NEW u \in AllUnits
        PROVE  /\ Hits(rf.free, u) + Hits(rf.coll, u) = Hits(result.free, u) + Hits(result.coll, u) + One(cell, u)
               /\ Hits(rc.free, u) + Hits(rc.coll, u) = Hits(result.free, u) + Hits(result.coll, u) + One(cell, u)
    <3>1. Hits(rf.free, u) = Hits(result.free, u) + One(cell, u) /\ Hits(rf.coll, u) = Hits(result.coll, u)
      BY <1>6, <1>8, <2>1
    <3>2. Hits(rc.coll, u) = Hits(result.coll, u) + One(cell, u) /\ Hits(rc.free, u) = Hits(result.free, u)
      BY <1>7, <1>8, <2>2
    <3> QED
      BY <1>5, <3>1, <3>2
  <2> QED
    BY <1>1, <1>6, <1>7, <2>1, <2>2, <2>3 DEF f, c, rf, rc, cell
<1>9. CASE ~in
  <2>1. rf = result /\ rc = result
    BY <1>3, <1>4, <1>9
  <2>2. \A u \in AllUnits : Hits(result.free, u) + Hits(result.coll, u)
                              = Hits(result.free, u) + Hits(result.coll, u) + One(cell, u)
    BY <1>5, <1>6, <1>9
  <2> QED
    BY <1>1, <2>1, <2>2 DEF f, c, rf, rc, cell
<1> QED
  BY <1>8, <1>9

\* What becomes of a node of the queue: it is classified, or it goes on with
\* its children.
LEMMA ComposeCases ==
  ASSUME cfg \in Sweeps, NEW x, x.node \in Nodes
  PROVE  \/ Descends(x) /\ Classified(x) = result
         \/ ~Descends(x) /\ x.coll # {} /\ Classified(x) = PushCollision(result, x.node, x.coll)
         \/ ~Descends(x) /\ Classified(x) = PushCollision(result, x.node, Unclassified(x))
         \/ ~Descends(x) /\ x.free = DOMAIN groups /\ Classified(x) = PushFree(result, x.node)
<1>1. PICK d \in Int : d = DepthOf(x.node)
  BY CallFacts, DepthFacts
<1>2. cfg.start \in Int /\ cfg.max \in Int
  BY CallFacts
<1>3. CASE d < cfg.start
  BY <1>1, <1>3 DEF Classified, Descends
<1>4. CASE ~(d < cfg.start) /\ x.coll # {}
  BY <1>1, <1>4 DEF Classified, Descends
<1>5. CASE ~(d < cfg.start) /\ x.coll = {}
  <2>1. d >= cfg.max <=> ~(d < cfg.max)
    BY <1>2
  <2> QED
    BY <1>1, <1>5, <2>1 DEF Classified, Descends
<1> QED
  BY <1>3, <1>4, <1>5

\* The halves of a cell hold its units, one of them each, and meet no obstacle
\* that the cell does not meet.
LEMMA HalvesHold ==
  ASSUME cfg \in Sweeps, NEW n \in Nodes, DepthOf(n) < Res
  PROVE  /\ 2 * n \in Nodes /\ 2 * n + 1 \in Nodes
         /\ \A u \in AllUnits : One(Item(n, NodeInterval(n)), u)
              = One(Item(2 * n, NodeInterval(2 * n)), u) + One(Item(2 * n + 1, NodeInterval(2 * n + 1)), u)
         /\ \A o \in DOMAIN cfg.obstacles : ~Meets(NodeInterval(n), o) =>
              ~Meets(NodeInterval(2 * n), o) /\ ~Meets(NodeInterval(2 * n + 1), o)
<1>1. Res \in Nat /\ 2^Res \in Nat
  BY CallFacts
<1>2. 2 * n \in Nodes /\ 2 * n + 1 \in Nodes
  <2>1. 2 * n + 0 \in Nodes /\ 2 * n + 1 \in Nodes
    BY <1>1, ChildDepth
  <2>2. 2 * n + 0 = 2 * n
    BY DEF Nodes
  <2> QED
    BY <2>1, <2>2
<1>3. PICK a, b, c \in 0..2^Res :
        /\ a <= b /\ b <= c /\ NodeInterval(n) = <<a, c>>
        /\ NodeInterval(2 * n) = <<a, b>> /\ NodeInterval(2 * n + 1) = <<b, c>>
  BY <1>1, ChildHalves
<1>4. a \in Int /\ b \in Int /\ c \in Int
  BY <1>1
<1>5. ASSUME NEW u \in AllUnits
      PROVE  One(Item(n, NodeInterval(n)), u)
              = One(Item(2 * n, NodeInterval(2 * n)), u) + One(Item(2 * n + 1, NodeInterval(2 * n + 1)), u)
  <2>1. u \in Int
    <3>1. cfg.domain[1] \in Int /\ cfg.domain[2] \in Int
      BY <1>1, CallFacts DEF IsRange
    <3> QED
      BY <3>1 DEF AllUnits, UnitsOf
  <2>2. /\ One(Item(n, NodeInterval(n)), u) = IF a + 1 <= u /\ u <= c THEN 1 ELSE 0
        /\ One(Item(2 * n, NodeInterval(2 * n)), u) = IF a + 1 <= u /\ u <= b THEN 1 ELSE 0
        /\ One(Item(2 * n + 1, NodeInterval(2 * n + 1)), u) = IF b + 1 <= u /\ u <= c THEN 1 ELSE 0
    BY <1>3, <1>4, <2>1 DEF One, Item, UnitsOf
  <2> QED
    BY <1>3, <1>4, <2>1, <2>2
<1>6. ASSUME NEW o \in DOMAIN cfg.obstacles, ~Meets(NodeInterval(n), o)
      PROVE  ~Meets(NodeInterval(2 * n), o) /\ ~Meets(NodeInterval(2 * n + 1), o)
  <2>1. PICK d, e \in Int : cfg.obstacles[o][1] = d /\ cfg.obstacles[o][2] = e
    BY CallFacts
  <2> QED
    BY <1>3, <1>4, <1>6, <2>1 DEF Meets, Overlaps
<1> QED
  BY <1>2, <1>5, <1>6

\* The children of a node that goes on know of it what it knows.
LEMMA DescendGood ==
  ASSUME SweepInv, pc = "compose", Len(groups) # 1, ~stopped, NEW y, EntryGood(y),
         NEW x, x = Marked(y), Descends(x)
  PROVE  /\ EntryGood([x EXCEPT !.node = 2 * @]) /\ EntryGood([x EXCEPT !.node = 2 * @ + 1])
         /\ [x EXCEPT !.node = 2 * @].node = 2 * x.node
         /\ [x EXCEPT !.node = 2 * @ + 1].node = 2 * x.node + 1
         /\ DepthOf(x.node) < Res
<1>1. /\ cfg \in Sweeps /\ \A g \in 1..Len(groups) : groups[g] \subseteq DOMAIN cfg.obstacles
  BY ComposeFacts
<1>2. /\ x = [node |-> x.node, free |-> x.free, coll |-> x.coll] /\ x.node \in Nodes
      /\ \A g \in x.free : g \in 1..Len(groups) /\ \A o \in groups[g] : ~Meets(NodeInterval(x.node), o)
      /\ x.coll \subseteq 1..Len(groups)
      /\ (cfg.pruneDepth < 0 /\ x.coll # {}) => Deepest(x.node, tree)
  BY MarkedFacts
<1>3. /\ Res \in Nat /\ cfg.start \in 0..Res /\ cfg.max \in 0..Res /\ cfg.start <= cfg.max
      /\ DepthOf(x.node) \in 0..Res
  BY <1>1, <1>2, CallFacts, DepthFacts
<1>4. x.node \in tree /\ DepthOf(x.node) < cfg.max /\ (DepthOf(x.node) < cfg.start \/ x.coll = {})
  <2>1. x.node \in tree /\ (DepthOf(x.node) < cfg.start \/ (x.coll = {} /\ DepthOf(x.node) < cfg.max))
    BY DEF Descends, IsLeaf
  <2> QED
    BY <1>3, <2>1
<1>5. DepthOf(x.node) < Res
  BY <1>3, <1>4
<1>6. cfg.pruneDepth < 0 => x.coll = {}
  BY <1>2, <1>3, <1>4 DEF Deepest
<1>7. /\ 2 * x.node \in Nodes /\ 2 * x.node + 1 \in Nodes
      /\ \A o \in DOMAIN cfg.obstacles : ~Meets(NodeInterval(x.node), o) =>
              ~Meets(NodeInterval(2 * x.node), o) /\ ~Meets(NodeInterval(2 * x.node + 1), o)
  BY <1>1, <1>2, <1>5, HalvesHold
<1> DEFINE l == [x EXCEPT !.node = 2 * @]
           r == [x EXCEPT !.node = 2 * @ + 1]
<1>8. /\ l = [node |-> 2 * x.node, free |-> x.free, coll |-> x.coll]
      /\ r = [node |-> 2 * x.node + 1, free |-> x.free, coll |-> x.coll]
  BY <1>2
<1> HIDE DEF l, r
<1>9. /\ l.node = 2 * x.node /\ l.free = x.free /\ l.coll = x.coll
      /\ l = [node |-> l.node, free |-> l.free, coll |-> l.coll]
      /\ r.node = 2 * x.node + 1 /\ r.free = x.free /\ r.coll = x.coll
      /\ r = [node |-> r.node, free |-> r.free, coll |-> r.coll]
  BY <1>8
<1>10. \A g \in x.free : g \in 1..Len(groups) /\ \A o \in groups[g] :
         ~Meets(NodeInterval(2 * x.node), o) /\ ~Meets(NodeInterval(2 * x.node + 1), o)
  BY <1>1, <1>2, <1>7
<1>11. EntryGood(l) /\ EntryGood(r)
  BY <1>2, <1>6, <1>7, <1>9, <1>10 DEF EntryGood
<1> QED
  BY <1>5, <1>9, <1>11 DEF l, r

\* A cell that is classified as a collision blames every obstacle in it, and
\* one classified as free meets none.
LEMMA ClassifyGood ==
  ASSUME SweepInv, pc = "compose", Len(groups) # 1, ~stopped, NEW y, EntryGood(y),
         NEW x, x = Marked(y), NEW cell, cell = Item(x.node, Clip(NodeInterval(x.node), cfg.domain))
  PROVE  /\ x.free = DOMAIN groups => \A o \in DOMAIN cfg.obstacles : ~Meets(cell.iv, o)
         /\ BlameAll => /\ x.coll # {} => BlameGood(Blamed(cell, UNION {groups[g] : g \in x.coll}))
                        /\ BlameGood(Blamed(cell, UNION {groups[g] : g \in Unclassified(x)}))
<1>1. /\ cfg \in Sweeps /\ DOMAIN groups = 1..Len(groups)
      /\ \A g \in 1..Len(groups) : groups[g] \subseteq DOMAIN cfg.obstacles
      /\ \A o \in DOMAIN cfg.obstacles : \E g \in 1..Len(groups) : o \in groups[g]
  BY ComposeFacts
<1>2. /\ x.node \in Nodes
      /\ \A g \in x.free : g \in 1..Len(groups) /\ \A o \in groups[g] : ~Meets(NodeInterval(x.node), o)
      /\ (cfg.pruneDepth < 0 /\ x.coll # {} /\ cfg.maxColl = 0) =>
            \A g \in 1..Len(groups) : \A u \in AllUnits :
              (Blocked(groups[g], u) /\ u \in UnitsOf(NodeInterval(x.node))) => g \in x.coll
  BY MarkedFacts
<1>3. /\ Res \in Nat /\ IsRange(cfg.domain) /\ IsRange(NodeInterval(x.node))
  BY <1>1, <1>2, CallFacts, NodeRange
<1>4. cell.iv = Clip(NodeInterval(x.node), cfg.domain)
  BY DEF Item
<1>5. ASSUME x.free = DOMAIN groups, NEW o \in DOMAIN cfg.obstacles PROVE ~Meets(cell.iv, o)
  <2>1. PICK g \in 1..Len(groups) : o \in groups[g]
    BY <1>1
  <2>2. ~Meets(NodeInterval(x.node), o)
    BY <1>1, <1>2, <1>5, <2>1
  <2>3. ~Meets(Clip(NodeInterval(x.node), cfg.domain), o)
    BY <1>1, <1>3, <2>1, <2>2, FreeMeans
  <2> QED
    BY <1>4, <2>3
<1>6. ASSUME NEW o \in DOMAIN cfg.obstacles, UnitsOf(Clip(cell.iv, cfg.obstacles[o])) # {}
      PROVE  \E u \in AllUnits : u \in Int /\ u \in UnitsOf(NodeInterval(x.node)) /\ u \in UnitsOf(cfg.obstacles[o])
  <2>1. PICK u : u \in UnitsOf(Clip(cell.iv, cfg.obstacles[o]))
    BY <1>6
  <2>2. PICK a, b \in Int : NodeInterval(x.node) = <<a, b>>
    BY <1>3 DEF IsRange
  <2>3. PICK c, d \in Int : cfg.domain = <<c, d>>
    BY <1>3 DEF IsRange
  <2>4. PICK e, f \in Int : cfg.obstacles[o][1] = e /\ cfg.obstacles[o][2] = f
    BY <1>1, CallFacts
  <2>5. PICK v, w \in Int : cell.iv = <<v, w>> /\ v >= a /\ v >= c /\ w <= b /\ w <= d
    BY <1>4, <2>2, <2>3 DEF Clip
  <2>6. u \in Int /\ u > v /\ u <= w /\ u > e /\ u <= f
    BY <2>1, <2>4, <2>5 DEF Clip, UnitsOf
  <2> QED
    BY <2>2, <2>3, <2>4, <2>5, <2>6 DEF UnitsOf, AllUnits
<1>7. ASSUME BlameAll, x.coll # {}
      PROVE  BlameGood(Blamed(cell, UNION {groups[g] : g \in x.coll}))
  <2>1. cfg.pruneDepth < 0 /\ cfg.maxColl = 0
    BY <1>7 DEF BlameAll
  <2>2. ASSUME NEW o \in DOMAIN cfg.obstacles, UnitsOf(Clip(cell.iv, cfg.obstacles[o])) # {}
        PROVE  o \in UNION {groups[g] : g \in x.coll}
    <3>1. PICK g \in 1..Len(groups) : o \in groups[g]
      BY <1>1
    <3>2. g \in x.coll
      BY <1>2, <1>6, <1>7, <2>1, <2>2, <3>1 DEF Blocked
    <3> QED
      BY <3>1, <3>2
  <2> QED
    BY <2>2 DEF BlameGood, Blamed, Item
<1>8. ASSUME BlameAll
      PROVE  BlameGood(Blamed(cell, UNION {groups[g] : g \in Unclassified(x)}))
  <2>1. ASSUME NEW o \in DOMAIN cfg.obstacles, UnitsOf(Clip(cell.iv, cfg.obstacles[o])) # {}
        PROVE  o \in UNION {groups[g] : g \in Unclassified(x)}
    <3>1. PICK g \in 1..Len(groups) : o \in groups[g]
      BY <1>1
    <3>2. PICK u \in Int : u \in UnitsOf(NodeInterval(x.node)) /\ u \in UnitsOf(cfg.obstacles[o])
      BY <1>6, <2>1
    <3>3. g \notin x.free
      BY <1>1, <1>2, <1>3, <3>1, <3>2, FreeMeans
    <3>4. g \in Unclassified(x)
      BY <1>1, <3>1, <3>3 DEF Unclassified
    <3> QED
      BY <3>1, <3>4
  <2> QED
    BY <2>1 DEF BlameGood, Blamed, Item
<1> QED
  BY <1>5, <1>7, <1>8

\* A node taken from the queue is classified or replaced by its children.
LEMMA ComposeNodeKeeps ==
  ASSUME SweepInv, ComposeNode
  PROVE  SweepInv'
<1>1. /\ CallOK /\ GroupsOK /\ FrontOK /\ ListsOK /\ BatchOK /\ SumOK /\ CoverOK /\ QueueOK /\ ResultOK
  BY DEF SweepInv
<1>2. /\ pc = "compose" /\ Len(groups) # 1 /\ queue # <<>> /\ ~stopped
      /\ UNCHANGED <<cfg, pc, tree, groups, frontier, level, pending, batch, active, swept, deadline, stopped>>
  BY DEF ComposeNode
<1>3. PICK y : y = Head(queue)
  OBVIOUS
<1>4. PICK x : x = Marked(y)
  OBVIOUS
<1>5. /\ result' = Classified(x)
      /\ queue' = Tail(queue) \o IF Descends(x)
                                 THEN <<[x EXCEPT !.node = 2 * @], [x EXCEPT !.node = 2 * @ + 1]>>
                                 ELSE <<>>
  BY <1>3, <1>4 DEF ComposeNode
<1>6. PICK rest : rest = Tail(queue)
  OBVIOUS
<1>7. /\ IsSeq(queue) /\ IsSeq(rest) /\ EntryGood(y) /\ \A z \in Range(rest) : EntryGood(z)
      /\ IsSeq(Cells(rest)) /\ IsSeq(Cells(queue))
  <2>1. IsSeq(queue) /\ \A z \in Range(queue) : EntryGood(z)
    BY <1>1 DEF QueueOK
  <2>2. IsSeq(Tail(queue)) /\ Range(queue) = {Head(queue)} \cup Range(Tail(queue))
    BY <1>2, <2>1, SeqTail
  <2>3. IsSeq(Cells(rest)) /\ IsSeq(Cells(queue))
    BY <1>6, <2>1, <2>2, CellsFacts
  <2> QED
    BY <1>3, <1>6, <2>1, <2>2, <2>3
<1>8. x.node = y.node /\ x.node \in Nodes
  BY <1>4, <1>7 DEF EntryGood, Marked
<1>9. cfg \in Sweeps
  BY <1>1 DEF CallOK
<1> DEFINE cell == Item(x.node, NodeInterval(x.node))
           clip == Item(x.node, Clip(NodeInterval(x.node), cfg.domain))
<1>10. /\ result = [free |-> result.free, coll |-> result.coll] /\ IsSeq(result.free) /\ IsSeq(result.coll)
       /\ \A z \in Range(result.free) : \A o \in DOMAIN cfg.obstacles : ~Meets(z.iv, o)
       /\ BlameAll => \A z \in Range(result.coll) : BlameGood(z)
  BY <1>1 DEF ResultOK
<1>11. \A u \in AllUnits : Owned(Hits(Cells(queue), u) + Hits(result.free, u) + Hits(result.coll, u), TRUE)
  BY <1>1, <1>2 DEF QueueOK
<1>12. \A u : Hits(Cells(queue), u) = One(cell, u) + Hits(Cells(rest), u)
  BY <1>2, <1>3, <1>6, <1>7, <1>8, CellsFacts
<1>13. \A u : /\ Hits(Cells(rest), u) \in Nat /\ One(cell, u) \in Nat
              /\ Hits(result.free, u) \in Nat /\ Hits(result.coll, u) \in Nat
  BY <1>7, <1>10, HitsType DEF One
<1> HIDE DEF cell, clip
<1> DEFINE Good == /\ result' = [free |-> result'.free, coll |-> result'.coll]
                   /\ IsSeq(result'.free) /\ IsSeq(result'.coll)
                   /\ \A z \in Range(result'.free) : \A o \in DOMAIN cfg.obstacles : ~Meets(z.iv, o)
                   /\ BlameAll => \A z \in Range(result'.coll) : BlameGood(z)
                   /\ IsSeq(queue') /\ \A z \in Range(queue') : EntryGood(z)
                   /\ \A u \in AllUnits : Hits(Cells(queue'), u) + Hits(result'.free, u) + Hits(result'.coll, u)
                                        = Hits(Cells(queue), u) + Hits(result.free, u) + Hits(result.coll, u)
<1>14. ASSUME Descends(x), Classified(x) = result
       PROVE  Good
  <2> DEFINE l == [x EXCEPT !.node = 2 * @]
             r == [x EXCEPT !.node = 2 * @ + 1]
  <2>1. /\ EntryGood(l) /\ EntryGood(r) /\ l.node = 2 * x.node /\ r.node = 2 * x.node + 1
        /\ DepthOf(x.node) < Res
    BY <1>2, <1>4, <1>7, <1>14, DescendGood
  <2>2. queue' = Append(Append(rest, l), r)
    <3>1. queue' = rest \o <<l, r>>
      BY <1>5, <1>6, <1>14
    <3> QED
      BY <1>7, <3>1, JoinPair
  <2> HIDE DEF l, r
  <2>3. /\ IsSeq(Append(rest, l)) /\ Range(Append(rest, l)) = Range(rest) \cup {l}
        /\ IsSeq(queue') /\ Range(queue') = (Range(rest) \cup {l}) \cup {r}
    BY <1>7, <2>2, SeqAppend
  <2>4. \A u \in AllUnits : Hits(Cells(queue'), u) = Hits(Cells(queue), u)
    <3>1. SUFFICES ASSUME NEW u \in AllUnits PROVE Hits(Cells(queue'), u) = Hits(Cells(queue), u)
      OBVIOUS
    <3> DEFINE low == Item(2 * x.node, NodeInterval(2 * x.node))
               high == Item(2 * x.node + 1, NodeInterval(2 * x.node + 1))
    <3>2. Hits(Cells(queue'), u) = Hits(Cells(Append(rest, l)), u) + One(high, u)
      BY <2>1, <2>2, <2>3, CellsFacts
    <3>3. Hits(Cells(Append(rest, l)), u) = Hits(Cells(rest), u) + One(low, u)
      BY <1>7, <2>1, CellsFacts
    <3>4. One(cell, u) = One(low, u) + One(high, u)
      BY <1>8, <1>9, <2>1, HalvesHold DEF cell
    <3>5. One(low, u) \in Nat /\ One(high, u) \in Nat
      BY DEF One
    <3> HIDE DEF low, high
    <3> QED
      BY <1>12, <1>13, <3>2, <3>3, <3>4, <3>5
  <2>5. result' = result
    BY <1>5, <1>14
  <2> QED
    BY <1>7, <1>10, <2>1, <2>3, <2>4, <2>5
<1>15. ASSUME ~Descends(x)
       PROVE  queue' = rest
  <2>1. queue' = rest \o <<>>
    BY <1>5, <1>6, <1>15
  <2> QED
    BY <1>7, <2>1, JoinPair
<1>16. ASSUME ~Descends(x), NEW B, Classified(x) = PushCollision(result, x.node, B),
              BlameAll => BlameGood(Blamed(clip, UNION {groups[g] : g \in B}))
       PROVE  Good
  <2>1. PICK r : r = PushCollision(result, x.node, B)
    OBVIOUS
  <2>8. PICK b : b = Blamed(clip, UNION {groups[g] : g \in B})
    OBVIOUS
  <2>2. /\ r = [free |-> r.free, coll |-> r.coll] /\ IsSeq(r.free) /\ IsSeq(r.coll)
        /\ Range(r.coll) \subseteq Range(result.coll) \cup {b}
        /\ r.free = result.free
        /\ \A u \in AllUnits : Hits(r.free, u) + Hits(r.coll, u)
              = Hits(result.free, u) + Hits(result.coll, u) + One(cell, u)
    BY <1>8, <2>1, <2>8, PushedFacts DEF cell, clip
  <2>3. result' = r /\ queue' = rest
    BY <1>5, <1>15, <1>16, <2>1
  <2>4. ASSUME NEW u \in AllUnits
        PROVE  Hits(Cells(rest), u) + Hits(r.free, u) + Hits(r.coll, u)
                 = Hits(Cells(queue), u) + Hits(result.free, u) + Hits(result.coll, u)
    <3>1. Hits(r.free, u) \in Nat /\ Hits(r.coll, u) \in Nat
      BY <2>2, HitsType
    <3>2. Hits(r.free, u) + Hits(r.coll, u) = Hits(result.free, u) + Hits(result.coll, u) + One(cell, u)
      BY <2>2
    <3> QED
      BY <1>12, <1>13, <3>1, <3>2
  <2>9. BlameAll => BlameGood(b)
    BY <1>16, <2>8
  <2>5. BlameAll => \A z \in Range(r.coll) : BlameGood(z)
    BY <1>10, <2>2, <2>9
  <2> QED
    BY <1>7, <1>10, <2>2, <2>3, <2>4, <2>5
<1>17. ASSUME ~Descends(x), x.free = DOMAIN groups, Classified(x) = PushFree(result, x.node)
       PROVE  Good
  <2>1. PICK r : r = PushFree(result, x.node)
    OBVIOUS
  <2>2. /\ r = [free |-> r.free, coll |-> r.coll] /\ IsSeq(r.free) /\ IsSeq(r.coll)
        /\ Range(r.free) \subseteq Range(result.free) \cup {clip}
        /\ r.coll = result.coll
        /\ \A u \in AllUnits : Hits(r.free, u) + Hits(r.coll, u)
              = Hits(result.free, u) + Hits(result.coll, u) + One(cell, u)
    BY <1>8, <2>1, PushedFacts DEF cell, clip
  <2>3. result' = r /\ queue' = rest
    BY <1>5, <1>15, <1>17, <2>1
  <2>4. ASSUME NEW u \in AllUnits
        PROVE  Hits(Cells(rest), u) + Hits(r.free, u) + Hits(r.coll, u)
                 = Hits(Cells(queue), u) + Hits(result.free, u) + Hits(result.coll, u)
    <3>1. Hits(r.free, u) \in Nat /\ Hits(r.coll, u) \in Nat
      BY <2>2, HitsType
    <3>2. Hits(r.free, u) + Hits(r.coll, u) = Hits(result.free, u) + Hits(result.coll, u) + One(cell, u)
      BY <2>2
    <3> QED
      BY <1>12, <1>13, <3>1, <3>2
  <2>5. \A o \in DOMAIN cfg.obstacles : ~Meets(clip.iv, o)
    BY <1>2, <1>4, <1>7, <1>17, ClassifyGood DEF clip
  <2>6. \A z \in Range(r.free) : \A o \in DOMAIN cfg.obstacles : ~Meets(z.iv, o)
    BY <1>10, <2>2, <2>5
  <2> QED
    BY <1>7, <1>10, <2>2, <2>3, <2>4, <2>6
<1>18. Good
  <2>1. BlameAll => /\ x.coll # {} => BlameGood(Blamed(clip, UNION {groups[g] : g \in x.coll}))
                    /\ BlameGood(Blamed(clip, UNION {groups[g] : g \in Unclassified(x)}))
    BY <1>2, <1>4, <1>7, ClassifyGood DEF clip
  <2>2. CASE ~Descends(x) /\ x.coll # {} /\ Classified(x) = PushCollision(result, x.node, x.coll)
    BY <1>16, <2>1, <2>2
  <2>3. CASE ~Descends(x) /\ Classified(x) = PushCollision(result, x.node, Unclassified(x))
    BY <1>16, <2>1, <2>3
  <2>4. CASE ~Descends(x) /\ x.free = DOMAIN groups /\ Classified(x) = PushFree(result, x.node)
    BY <1>17, <2>4
  <2>5. CASE Descends(x) /\ Classified(x) = result
    BY <1>14, <2>5
  <2>6. \/ Descends(x) /\ Classified(x) = result
        \/ ~Descends(x) /\ x.coll # {} /\ Classified(x) = PushCollision(result, x.node, x.coll)
        \/ ~Descends(x) /\ Classified(x) = PushCollision(result, x.node, Unclassified(x))
        \/ ~Descends(x) /\ x.free = DOMAIN groups /\ Classified(x) = PushFree(result, x.node)
    BY <1>8, <1>9, ComposeCases
  <2> HIDE DEF Good
  <2> QED
    BY <2>2, <2>3, <2>4, <2>5, <2>6
<1>19. CallOK' /\ GroupsOK'
  BY <1>1, <1>2 DEF CallOK, GroupsOK, TreeGood, InTree, Several
<1>20. QueueOK'
  <2>1. \A z : EntryGood(z)' <=> EntryGood(z)
    BY <1>2 DEF EntryGood, Meets
  <2>2. \A u \in AllUnits : Owned(Hits(Cells(queue'), u) + Hits(result'.free, u) + Hits(result'.coll, u), TRUE)
    BY <1>11, <1>18
  <2> QED
    BY <1>2, <1>18, <2>1, <2>2 DEF QueueOK, AllUnits
<1>21. ResultOK'
  BY <1>2, <1>18 DEF ResultOK, Meets, BlameGood, BlameAll
<1>22. Grown(tree, tree') /\ pending = <<>>
  BY <1>1, <1>2 DEF Grown, ListsOK
<1> QED
  BY <1>1, <1>2, <1>19, <1>20, <1>21, <1>22, FrameFront, FrameLists, FrameBatch, FrameSum, FrameCover DEF SweepInv

\* A step that changes nothing keeps everything.
LEMMA StutterKeeps ==
  ASSUME SweepInv, UNCHANGED vars
  PROVE  SweepInv'
<1>1. UNCHANGED <<cfg, pc, tree, groups, frontier, level, pending, batch, active,
                  swept, queue, result, deadline, stopped>>
  BY DEF vars
<1>2. CallOK /\ GroupsOK /\ FrontOK /\ ListsOK /\ BatchOK /\ SumOK /\ CoverOK /\ QueueOK /\ ResultOK
  BY DEF SweepInv
<1>3. CallOK'
  BY <1>1, <1>2 DEF CallOK, TreeGood, InTree
<1>4. Grown(tree, tree')
  BY <1>1 DEF Grown
<1> QED
  BY <1>1, <1>2, <1>3, <1>4, FrameGroups, FrameFront, FrameLists, FrameBatch, FrameSum, FrameCover,
     FrameQueue, FrameResult DEF SweepInv

\* Every step of a sweep keeps the invariant.
LEMMA NextKeeps ==
  ASSUME SweepInv, [Next]_vars
  PROVE  SweepInv'
<1>1. CASE SweepStep
  BY <1>1, MaterializeKeeps, ClusterKeeps, NextGroupKeeps, SweepItemKeeps, TakeBatchKeeps, CommitBatchKeeps,
     DropPendingKeeps, ComposeOneKeeps, ComposeNodeKeeps, ComposeEndsKeeps, ValidateItemKeeps DEF SweepStep
<1>2. CASE \E callerStops \in BOOLEAN : EndOfPending(callerStops)
  BY <1>2, EndOfPendingKeeps
<1>3. CASE Stop
  BY <1>3, StopKeeps DEF Stop
<1>4. CASE UNCHANGED vars
  BY <1>4, StutterKeeps
<1> QED
  BY <1>1, <1>2, <1>3, <1>4 DEF Next, Step

\* The invariant holds throughout, for every scene, every domain, every number
\* of threads, batches and checkpoints, and wherever the deadline falls.
THEOREM SweepInvariant == Spec => []SweepInv
<1>1. Init => SweepInv
  BY InitInv
<1>2. SweepInv /\ [Next]_vars => SweepInv'
  BY NextKeeps
<1> QED
  BY <1>1, <1>2, PTL DEF Spec

-----------------------------------------------------------------------------
(* What follows from it.                                                   *)

\* No unit of the domain is lost or given twice while a group is swept
\* (leaf_sweep_grower.cpp, sweep_group).
THEOREM SweepKeepsUnits == Spec => []SweepConserves
<1>1. ASSUME SweepInv PROVE SweepConserves
  <2>1. GroupsOK /\ SumOK
    BY <1>1 DEF SweepInv
  <2>2. SUFFICES ASSUME pc \in {"sweep", "batch"}, NEW u \in AllUnits
                 PROVE  Owned(Hits(pending, u) + Hits(Boxes.free, u) + Hits(Boxes.coll, u), ~stopped /\ NoCaps)
    BY DEF SweepConserves, Owned, Hits, NoCaps
  <2>3. swept # <<>>
    BY <2>1, <2>2, SeqEmpty DEF GroupsOK
  <2> QED
    BY <2>1, <2>2, <2>3 DEF SumOK
<1> QED
  BY <1>1, SweepInvariant, PTL

\* Pairs with one tag are as many as what they tag.
LEMMA TaggedCount ==
  ASSUME NEW tag, NEW S, IsFiniteSet(S)
  PROVE  IsFiniteSet({<<tag, i>> : i \in S}) /\ Cardinality({<<tag, i>> : i \in S}) = Cardinality(S)
<1> DEFINE D == {<<tag, i>> : i \in S}
           f == [i \in S |-> <<tag, i>>]
<1>1. f \in [S -> D]
  OBVIOUS
<1>2. \A i, j \in S : f[i] = f[j] => i = j
  OBVIOUS
<1>3. \A x \in D : \E i \in S : f[i] = x
  OBVIOUS
<1> HIDE DEF f, D
<1>4. f \in Bijection(S, D)
  BY <1>1, <1>2, <1>3 DEF Bijection, Injection, Surjection, IsInjective
<1>5. IsFiniteSet(D) /\ Cardinality(D) = Cardinality(S)
  BY <1>4, FS_Bijection DEF ExistsBijection
<1> QED
  BY <1>5 DEF D

\* The owners of a unit in the result are counted list by list.
LEMMA OwnersAre ==
  ASSUME IsSeq(result.free), IsSeq(result.coll), NEW u
  PROVE  /\ IsFiniteSet(FinalOwners(u))
         /\ Cardinality(FinalOwners(u)) = Hits(result.free, u) + Hits(result.coll, u)
<1> DEFINE A == CoveredBy(result.free, u)
           B == CoveredBy(result.coll, u)
           P == {<<"free", i>> : i \in A}
           Q == {<<"coll", i>> : i \in B}
<1>1. IsFiniteSet(A) /\ IsFiniteSet(B)
  BY HitsType
<1>2. IsFiniteSet(P) /\ Cardinality(P) = Cardinality(A)
  BY <1>1, TaggedCount
<1>3. IsFiniteSet(Q) /\ Cardinality(Q) = Cardinality(B)
  BY <1>1, TaggedCount
<1>4. P \cap Q = {}
  OBVIOUS
<1>5. FinalOwners(u) = P \cup Q
  BY DEF FinalOwners
<1> HIDE DEF P, Q
<1>6. IsFiniteSet(P \cup Q) /\ Cardinality(P \cup Q) = Cardinality(P) + Cardinality(Q) - Cardinality({})
  BY <1>2, <1>3, <1>4, FS_Union
<1>7. Cardinality(A) \in Nat /\ Cardinality(B) \in Nat /\ Cardinality({}) = 0
  BY <1>1, FS_CardinalityType, FS_EmptySet
<1> HIDE DEF A, B
<1>8. Cardinality(P \cup Q) = Cardinality(A) + Cardinality(B)
  BY <1>2, <1>3, <1>6, <1>7
<1> QED
  BY <1>5, <1>6, <1>8 DEF A, B, Hits

\* Cutting an interval to its cell a second time changes nothing.
LEMMA HeldClipSelf ==
  ASSUME cfg \in Sweeps, NEW x, Held(x), ~cfg.virtual
  PROVE  Clip(x.iv, NodeInterval(x.node)) = x.iv
<1>1. PICK r : r = NodeInterval(x.node)
  OBVIOUS
<1>2. PICK d : d = cfg.domain
  OBVIOUS
<1>3. IsRange(r) /\ d[1] \in Int /\ d[2] \in Int /\ 2^Res \in Nat
  <2>1. 2^Res \in Nat
    BY SweepsAssumption, PowerOfTwo
  <2>2. cfg.domain \in (0..2^Res) \X (0..2^Res)
    BY SweepsAssumption DEF SweepType
  <2>3. IsRange(NodeInterval(x.node))
    BY SweepsAssumption, NodeRange DEF Held
  <2> QED
    BY <1>1, <1>2, <2>1, <2>2, <2>3
<1>4. x.iv = r \/ x.iv = Clip(r, d)
  BY <1>1, <1>2 DEF Held
<1>5. r = <<r[1], r[2]>> /\ r[1] \in Int /\ r[2] \in Int
  BY <1>3 DEF IsRange
<1>6. CASE x.iv = r
  BY <1>1, <1>5, <1>6 DEF Clip
<1>7. CASE x.iv = Clip(r, d)
  <2>1. PICK a, b : a = (IF r[1] < d[1] THEN d[1] ELSE r[1]) /\ b = (IF r[2] > d[2] THEN d[2] ELSE r[2])
    OBVIOUS
  <2>2. x.iv = <<a, b>>
    BY <1>7, <2>1 DEF Clip
  <2>3. a \in Int /\ b \in Int /\ ~(a < r[1]) /\ ~(b > r[2])
    BY <1>3, <1>5, <2>1
  <2>4. Clip(x.iv, r) = <<a, b>>
    BY <2>2, <2>3 DEF Clip
  <2> QED
    BY <1>1, <2>2, <2>4
<1> QED
  BY <1>4, <1>6, <1>7

\* A list of boxes or items has the type of one.
LEMMA HeldItems ==
  ASSUME NEW s, IsSeq(s), \A x \in Range(s) : Held(x)
  PROVE  s \in Items
<1>1. Range(s) \subseteq [node : Nodes, iv : (0..2^Res) \X (0..2^Res)]
  BY DEF Held, IsRange
<1> QED
  BY <1>1, SeqWider DEF Items

\* Each unit of the domain has at most one owner in the result, and one when
\* nothing was cut short.
LEMMA ResultCovers ==
  ASSUME SweepInv
  PROVE  ResultCoversDomain
<1>1. GroupsOK /\ QueueOK /\ ResultOK
  BY DEF SweepInv
<1>2. SUFFICES ASSUME pc = "done", NEW u \in AllUnits
               PROVE  /\ Cardinality(FinalOwners(u)) <= 1
                      /\ (~stopped /\ NoCaps) => FinalOwners(u) # {}
  BY DEF ResultCoversDomain, NoCaps
<1>3. IsFiniteSet(FinalOwners(u)) /\ Cardinality(FinalOwners(u)) = Hits(result.free, u) + Hits(result.coll, u)
  BY <1>1, OwnersAre DEF ResultOK
<1>4. Hits(result.free, u) \in Nat /\ Hits(result.coll, u) \in Nat
  BY <1>1, HitsType DEF ResultOK
<1>5. Owned(Hits(result.free, u) + Hits(result.coll, u), ~stopped /\ NoCaps)
  <2>1. CASE Len(groups) = 1
    BY <1>1, <1>2, <2>1 DEF ResultOK
  <2>2. CASE Len(groups) # 1
    <3>1. Owned(Hits(Cells(queue), u) + Hits(result.free, u) + Hits(result.coll, u), ~stopped)
      BY <1>1, <1>2, <2>2 DEF QueueOK
    <3>2. queue = <<>>
      BY <1>1, <1>2, <2>2 DEF QueueOK
    <3>3. CoveredBy(Cells(queue), u) = {}
      BY <3>2 DEF CoveredBy, Cells
    <3>4. Hits(Cells(queue), u) = 0
      BY <3>3, FS_EmptySet DEF Hits
    <3> QED
      BY <1>4, <3>1, <3>4 DEF Owned
  <2> QED
    BY <2>1, <2>2
<1>6. FinalOwners(u) = {} => Cardinality(FinalOwners(u)) = 0
  BY FS_EmptySet
<1> QED
  BY <1>3, <1>5, <1>6 DEF Owned

\* The invariant gives every variable its type.
LEMMA Typed ==
  ASSUME SweepInv
  PROVE  TypeOK
<1>1. CallOK /\ GroupsOK /\ FrontOK /\ ListsOK /\ BatchOK
  BY DEF SweepInv
<1>2. cfg \in Sweeps /\ cfg \in SweepType /\ cfg.start <= cfg.max /\ cfg.start \in 0..Res /\ cfg.max \in 0..Res /\ Res \in Nat
  BY <1>1, SweepsAssumption DEF CallOK, SweepFits, SweepType
<1>3. /\ pc \in {"frontier", "groups", "sweep", "batch", "compose", "done", "threw"}
      /\ tree \subseteq Nodes /\ \A n \in tree : n = Root \/ n \div 2 \in tree
      /\ level \in 0..cfg.start /\ stopped \in BOOLEAN /\ deadline \in BOOLEAN /\ (deadline => stopped)
  BY <1>1 DEF CallOK, TreeGood, InTree
<1>4. active \in 0..Res
  BY <1>1, <1>2 DEF CallOK
<1>5. groups \in Seq(SUBSET DOMAIN cfg.obstacles) /\ Len(swept) <= Len(groups)
  <2>1. IsSeq(groups) /\ Len(swept) <= Len(groups) /\ \A g \in 1..Len(groups) : groups[g] \subseteq DOMAIN cfg.obstacles
    BY <1>1 DEF GroupsOK
  <2>2. Range(groups) \subseteq SUBSET DOMAIN cfg.obstacles
    BY <2>1, SeqShape
  <2> QED
    BY <2>1, <2>2, SeqWider
<1>6. frontier \in Items
  BY <1>1, HeldItems DEF FrontOK, PendGood
<1>7. IsSeq(pending) /\ (\A x \in Range(pending) : Held(x)) /\ pending \in Items
  <2>1. IsSeq(pending) /\ \A x \in Range(pending) : Held(x)
    BY <1>1 DEF ListsOK, PendGood
  <2> QED
    BY <2>1, HeldItems
<1>8. ~cfg.virtual => \A i \in DOMAIN pending :
                        Clip(pending[i].iv, NodeInterval(pending[i].node)) = pending[i].iv
  <2>1. SUFFICES ASSUME ~cfg.virtual, NEW i \in DOMAIN pending
                 PROVE  Clip(pending[i].iv, NodeInterval(pending[i].node)) = pending[i].iv
    OBVIOUS
  <2>2. Held(pending[i])
    BY <1>7, SeqShape
  <2> QED
    BY <1>2, <2>1, <2>2, HeldClipSelf
<1>9. batch \in Seq({"none", "free", "maybe"}) /\ Len(batch) <= Len(pending)
  <2>1. CASE pc = "batch"
    <3>1. /\ IsSeq(batch) /\ Len(batch) <= Len(pending)
          /\ \A i \in 1..Len(batch) :
               batch[i] = "none" \/ batch[i] = IF CertifiedFree(Group, pending[i].iv) THEN "free" ELSE "maybe"
      BY <1>1, <2>1 DEF BatchOK
    <3>2. Range(batch) \subseteq {"none", "free", "maybe"}
      BY <3>1, SeqShape
    <3> QED
      BY <3>1, <3>2, SeqWider
  <2>2. CASE pc # "batch"
    <3>1. batch = <<>>
      BY <1>1, <2>2 DEF BatchOK
    <3>2. Len(pending) \in Nat /\ Len(<<>>) = 0
      BY <1>7, SeqShape
    <3>3. Len(batch) <= Len(pending)
      BY <3>1, <3>2
    <3> QED
      BY <3>1, <3>3
  <2> QED
    BY <2>1, <2>2
<1>10. \A g \in DOMAIN swept : swept[g].free \in Items /\ swept[g].coll \in Items
  <2>1. SUFFICES ASSUME NEW g \in DOMAIN swept
                 PROVE  swept[g].free \in Items /\ swept[g].coll \in Items
    OBVIOUS
  <2>2. g \in 1..Len(swept)
    BY <1>1, SeqShape DEF GroupsOK
  <2>3. GroupGood(swept[g], groups[g], tree)
    BY <1>1, <2>2 DEF ListsOK
  <2> QED
    BY <2>3, HeldItems DEF GroupGood, FreeGood, CollGood
<1> QED
  BY <1>2, <1>3, <1>4, <1>5, <1>6, <1>7, <1>8, <1>9, <1>10 DEF TypeOK

\* A finished sweep covers its domain once, its free boxes meet no obstacle, and
\* each collision box names the obstacles that meet it
\* (leaf_sweep_grower.cpp:1164-1300).
THEOREM SweepResultSound == Spec => []ResultSound
<1>1. ASSUME SweepInv PROVE ResultSound
  <2>1. TypeOK /\ ResultCoversDomain
    BY <1>1, Typed, ResultCovers
  <2>2. ResultOK
    BY <1>1 DEF SweepInv
  <2>3. FreeBoxesFree
    BY <2>2, SeqShape DEF FreeBoxesFree, ResultOK, Meets
  <2>4. BlameComplete
    BY <2>2, SeqShape DEF BlameComplete, ResultOK, BlameAll, BlameGood
  <2> QED
    BY <2>1, <2>3, <2>4 DEF ResultSound
<1> QED
  BY <1>1, SweepInvariant, PTL
=============================================================================
