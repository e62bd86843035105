----------------------------- MODULE DataLemmas -----------------------------
(***************************************************************************)
(* Facts about data that the proofs of several components share: induction *)
(* over the natural numbers with sets in the place of predicates,          *)
(* sequences whose elements need no common type, and powers of two.        *)
(***************************************************************************)
EXTENDS Integers, SequencesExt, SequenceTheorems, FiniteSetTheorems, WellFoundedInduction, TLAPS

-----------------------------------------------------------------------------
(* Natural numbers. *)

\* A non-empty set of natural numbers has a least element.
LEMMA LeastNat ==
  ASSUME NEW T \in SUBSET Nat, T # {}
  PROVE  \E n \in T : \A m \in T : n <= m
<1> DEFINE R == OpToRel(<, Nat)
<1>1. IsWellFoundedOn(R, Nat)
  BY NatLessThanWellFounded
<1>2. \A x, y \in Nat : y < x => <<y, x>> \in R
  BY DEF OpToRel
<1> HIDE DEF R
<1>3. \E x \in T : \A y \in T : ~(<<y, x>> \in R)
  BY <1>1, WFMin
<1>4. PICK x \in T : \A y \in T : ~(<<y, x>> \in R)
  BY <1>3
<1>5. \A y \in T : x <= y
  <2> TAKE y \in T
  <2>1. x \in Nat /\ y \in Nat
    OBVIOUS
  <2>2. ~(y < x)
    BY <2>1, <1>2, <1>4
  <2>3. QED
    BY <2>1, <2>2
<1>6. QED
  BY <1>5

\* Induction: a set that holds 0, and n + 1 with every n, holds every natural
\* number.  The set stands for the predicate that is proved.
LEMMA NatSetInduction ==
  ASSUME NEW S, 0 \in S, \A n \in Nat : n \in S => n + 1 \in S
  PROVE  Nat \subseteq S
<1>1. SUFFICES ASSUME Nat \ S # {} PROVE FALSE
  OBVIOUS
<1>2. PICK n \in Nat \ S : \A m \in Nat \ S : n <= m
  BY <1>1, LeastNat
<1>3. n # 0 /\ n - 1 \in Nat /\ n - 1 \in S
  BY <1>2
<1>4. QED
  BY <1>2, <1>3

\* A non-empty set of natural numbers with a bound has a greatest element.
LEMMA GreatestNat ==
  ASSUME NEW T \in SUBSET Nat, NEW b \in Nat, \A m \in T : m <= b, T # {}
  PROVE  \E n \in T : \A m \in T : m <= n
<1> DEFINE U == {b - m : m \in T}
<1>1. U \in SUBSET Nat /\ U # {}
  <2>1. \A m \in T : b - m \in Nat
    OBVIOUS
  <2>2. U \in SUBSET Nat
    BY <2>1
  <2>3. U # {}
    OBVIOUS
  <2>4. QED
    BY <2>2, <2>3
<1>2. PICK u \in U : \A w \in U : u <= w
  BY <1>1, LeastNat
<1>3. PICK n \in T : u = b - n
  BY <1>2
<1>4. \A m \in T : m <= n
  <2> TAKE m \in T
  <2>1. b - m \in U
    OBVIOUS
  <2>2. u <= b - m
    BY <1>2, <2>1
  <2>3. m \in Nat /\ n \in Nat
    OBVIOUS
  <2> HIDE DEF U
  <2>4. QED
    BY <1>3, <2>2, <2>3
<1>5. QED
  BY <1>4

\* Induction up to a bound.
LEMMA UpTo ==
  ASSUME NEW n \in Nat, NEW T, 0 \in T, \A k \in 1..n : k - 1 \in T => k \in T
  PROVE  \A k \in 0..n : k \in T
<1> DEFINE S == {k \in Nat : k <= n => k \in T}
<1>1. 0 \in S
  OBVIOUS
<1>2. ASSUME NEW k \in Nat, k \in S PROVE k + 1 \in S
  <2>1. SUFFICES ASSUME k + 1 <= n PROVE k + 1 \in T
    OBVIOUS
  <2>2. k \in T
    BY <1>2, <2>1
  <2>3. k + 1 \in 1..n /\ (k + 1) - 1 = k
    BY <2>1
  <2> QED
    BY <2>2, <2>3
<1>3. Nat \subseteq S
  <2> HIDE DEF S
  <2> QED
    BY <1>1, <1>2, NatSetInduction
<1> QED
  BY <1>3

\* g is what the recursion with these steps, given as a function, computes.
Computes(g, n, base, step) ==
  g = [k \in 0..n |-> IF k = 0 THEN base ELSE step[<<k, g[k - 1]>>]]

\* A bounded recursion whose steps stay in a set S has a solution, with its
\* values in S.
LEMMA Recursion ==
  ASSUME NEW n \in Nat, NEW S, NEW base \in S, NEW step,
         \A k \in 1..n : \A x \in S : step[<<k, x>>] \in S
  PROVE  \E g : Computes(g, n, base, step) /\ \A k \in 0..n : g[k] \in S
<1> DEFINE Is(g, m) == /\ g = [k \in 0..m |-> IF k = 0 THEN base ELSE step[<<k, g[k - 1]>>]]
                       /\ \A k \in 0..m : g[k] \in S
           T == {m \in Nat : \E g : Is(g, m)}
<1>1. 0 \in T
  <2> DEFINE g == [k \in 0..0 |-> base]
  <2>1. g = [k \in 0..0 |-> IF k = 0 THEN base ELSE step[<<k, g[k - 1]>>]]
    OBVIOUS
  <2>2. Is(g, 0)
    BY <2>1
  <2> QED
    BY <2>2
<1>2. ASSUME NEW m \in 1..n, m - 1 \in T PROVE m \in T
  <2>1. PICK f : Is(f, m - 1)
    BY <1>2
  <2>2. \A k \in 0..m - 1 : f[k] = (IF k = 0 THEN base ELSE step[<<k, f[k - 1]>>]) /\ f[k] \in S
    BY <2>1
  <2> DEFINE g == [k \in 0..m |-> IF k <= m - 1 THEN f[k] ELSE step[<<m, f[m - 1]>>]]
  <2>3. ASSUME NEW k \in 0..m
        PROVE  g[k] = (IF k = 0 THEN base ELSE step[<<k, g[k - 1]>>]) /\ g[k] \in S
    <3>1. CASE k = 0
      <4>1. 0 \in 0..m - 1
        OBVIOUS
      <4>2. f[0] = base
        BY <2>2, <4>1
      <4>3. g[0] = f[0]
        BY <4>1
      <4> HIDE DEF g
      <4> QED
        BY <4>2, <4>3, <3>1
    <3>2. CASE k \in 1..m - 1
      <4>1. k \in 0..m - 1 /\ k - 1 \in 0..m - 1 /\ k # 0
        BY <3>2
      <4>2. g[k] = f[k] /\ g[k - 1] = f[k - 1]
        BY <4>1
      <4> QED
        BY <4>1, <4>2, <2>2
    <3>3. CASE k = m
      <4>1. g[k] = step[<<k, f[m - 1]>>] /\ g[k - 1] = f[m - 1] /\ k # 0
        BY <3>3
      <4>2. f[m - 1] \in S
        <5>1. m - 1 \in 0..m - 1
          OBVIOUS
        <5> QED
          BY <5>1, <2>2
      <4> QED
        BY <4>1, <4>2, <3>3
    <3> QED
      BY <3>1, <3>2, <3>3
  <2>4. g = [k \in 0..m |-> IF k = 0 THEN base ELSE step[<<k, g[k - 1]>>]]
    BY <2>3
  <2>5. \A k \in 0..m : g[k] \in S
    BY <2>3
  <2>6. m \in Nat
    OBVIOUS
  <2> HIDE DEF g
  <2> QED
    BY <2>4, <2>5, <2>6
<1>3. n \in T
  <2> HIDE DEF T
  <2> QED
    BY <1>1, <1>2, UpTo
<1> QED
  BY <1>3 DEF Computes

-----------------------------------------------------------------------------
(* Sequences. *)

IsSeq(s) == s \in Seq(Range(s))

\* A sequence over some set is a sequence over the set of its elements.
LEMMA SeqTyped ==
  ASSUME NEW S, NEW s \in Seq(S)
  PROVE  IsSeq(s) /\ Range(s) \subseteq S
<1>1. s \in [1..Len(s) -> S] /\ Len(s) \in Nat /\ DOMAIN s = 1..Len(s)
  BY LenProperties
<1>2. s \in [1..Len(s) -> Range(s)]
  BY <1>1 DEF Range
<1>3. s \in Seq(Range(s))
  BY <1>1, <1>2, SeqDef
<1> QED
  BY <1>1, <1>3 DEF IsSeq, Range

\* The length, the domain and the elements of a sequence.
LEMMA SeqShape ==
  ASSUME NEW s, IsSeq(s)
  PROVE  /\ Len(s) \in Nat /\ DOMAIN s = 1..Len(s)
         /\ \A i \in 1..Len(s) : s[i] \in Range(s)
         /\ \A x \in Range(s) : \E i \in 1..Len(s) : s[i] = x
BY LenProperties DEF IsSeq, Range

\* The empty sequence.
LEMMA SeqEmpty == IsSeq(<<>>) /\ Range(<<>>) = {} /\ Len(<<>>) = 0
BY DEF IsSeq, Range

\* A sequence is one over every set that holds its elements.
LEMMA SeqWider ==
  ASSUME NEW s, IsSeq(s), NEW S, Range(s) \subseteq S
  PROVE  s \in Seq(S)
BY SeqMonotonic DEF IsSeq

\* What Append adds, and what it leaves alone.
LEMMA SeqAppend ==
  ASSUME NEW s, NEW x, IsSeq(s)
  PROVE  /\ IsSeq(Append(s, x))
         /\ Range(Append(s, x)) = Range(s) \cup {x}
         /\ Len(Append(s, x)) = Len(s) + 1
         /\ \A i \in 1..Len(s) : Append(s, x)[i] = s[i]
         /\ Append(s, x)[Len(s) + 1] = x
<1> DEFINE S == Range(s) \cup {x}
           t == Append(s, x)
<1>1. s \in Seq(S)
  BY SeqWider
<1>2. t \in Seq(S) /\ Len(t) = Len(s) + 1 /\ Len(s) \in Nat
      /\ (\A i \in 1..Len(s) : t[i] = s[i]) /\ t[Len(s) + 1] = x
  BY <1>1
<1>3. IsSeq(t) /\ Range(t) \subseteq S
  BY <1>2, SeqTyped
<1>4. DOMAIN t = 1..Len(s) + 1
  BY <1>2, <1>3, SeqShape
<1>5. S \subseteq Range(t)
  <2>1. x \in Range(t)
    BY <1>2, <1>4 DEF Range
  <2>2. Range(s) \subseteq Range(t)
    BY <1>2, <1>4, SeqShape DEF Range
  <2> QED
    BY <2>1, <2>2
<1> QED
  BY <1>2, <1>3, <1>5

\* What the elements of a concatenation are.
LEMMA SeqConcat ==
  ASSUME NEW s, NEW t, IsSeq(s), IsSeq(t)
  PROVE  /\ IsSeq(s \o t)
         /\ Range(s \o t) = Range(s) \cup Range(t)
         /\ Len(s \o t) = Len(s) + Len(t)
         /\ \A i \in 1..Len(s) : (s \o t)[i] = s[i]
         /\ \A i \in 1..Len(t) : (s \o t)[Len(s) + i] = t[i]
<1> DEFINE S == Range(s) \cup Range(t)
<1>1. s \in Seq(S) /\ t \in Seq(S) /\ Len(s) \in Nat /\ Len(t) \in Nat
  BY SeqWider, SeqShape
<1>2. /\ s \o t \in Seq(S)
      /\ Len(s \o t) = Len(s) + Len(t)
      /\ \A i \in 1..Len(s) + Len(t) : (s \o t)[i] = IF i <= Len(s) THEN s[i] ELSE t[i - Len(s)]
  BY <1>1, ConcatProperties
<1>3. \A i \in 1..Len(s) : (s \o t)[i] = s[i]
  BY <1>1, <1>2
<1>4. \A i \in 1..Len(t) : (s \o t)[Len(s) + i] = t[i]
  BY <1>1, <1>2
<1>5. IsSeq(s \o t) /\ Range(s \o t) \subseteq S
  BY <1>2, SeqTyped
<1>6. DOMAIN (s \o t) = 1..Len(s) + Len(t)
  BY <1>2, <1>5, SeqShape
<1>7. Range(s) \subseteq Range(s \o t)
  <2> SUFFICES ASSUME NEW i \in 1..Len(s) PROVE s[i] \in Range(s \o t)
    BY SeqShape
  <2> QED
    BY <1>1, <1>3, <1>6 DEF Range
<1>8. Range(t) \subseteq Range(s \o t)
  <2> SUFFICES ASSUME NEW i \in 1..Len(t) PROVE t[i] \in Range(s \o t)
    BY SeqShape
  <2>1. Len(s) + i \in DOMAIN (s \o t)
    BY <1>1, <1>6
  <2> QED
    BY <1>4, <2>1 DEF Range
<1> QED
  BY <1>2, <1>3, <1>4, <1>5, <1>7, <1>8

\* What Tail leaves of a sequence.
LEMMA SeqTail ==
  ASSUME NEW s, IsSeq(s), s # <<>>
  PROVE  /\ IsSeq(Tail(s)) /\ Head(s) = s[1] /\ Head(s) \in Range(s)
         /\ Len(s) \in Nat \ {0} /\ Len(Tail(s)) = Len(s) - 1
         /\ \A i \in 1..Len(s) - 1 : Tail(s)[i] = s[i + 1]
         /\ Range(s) = {Head(s)} \cup Range(Tail(s))
<1>1. /\ Tail(s) \in Seq(Range(s)) /\ Len(Tail(s)) = Len(s) - 1
      /\ \A i \in 1..Len(Tail(s)) : Tail(s)[i] = s[i + 1]
  BY HeadTailProperties DEF IsSeq
<1>2. Len(s) \in Nat \ {0} /\ Head(s) = s[1]
  BY EmptySeq DEF IsSeq
<1>3. IsSeq(Tail(s)) /\ Range(Tail(s)) \subseteq Range(s)
  BY <1>1, SeqTyped
<1>4. Head(s) \in Range(s)
  BY <1>2, SeqShape
<1>5. Range(s) \subseteq {Head(s)} \cup Range(Tail(s))
  <2> SUFFICES ASSUME NEW i \in 1..Len(s) PROVE s[i] \in {Head(s)} \cup Range(Tail(s))
    BY SeqShape
  <2>1. CASE i = 1
    BY <1>2, <2>1
  <2>2. CASE i # 1
    <3>1. i - 1 \in 1..Len(Tail(s))
      BY <1>1, <1>2, <2>2
    <3>2. Tail(s)[i - 1] = s[i]
      BY <1>1, <3>1
    <3> QED
      BY <1>3, <3>1, <3>2, SeqShape
  <2> QED
    BY <2>1, <2>2
<1> QED
  BY <1>1, <1>2, <1>3, <1>4, <1>5

\* What a prefix holds.
LEMMA SeqPrefix ==
  ASSUME NEW s, IsSeq(s), NEW n \in 0..Len(s)
  PROVE  /\ IsSeq(SubSeq(s, 1, n)) /\ Len(SubSeq(s, 1, n)) = n
         /\ \A i \in 1..n : SubSeq(s, 1, n)[i] = s[i]
         /\ Range(SubSeq(s, 1, n)) \subseteq Range(s)
<1>1. Len(s) \in Nat /\ \A i \in 1..n : s[i] \in Range(s)
  BY SeqShape
<1>2. /\ SubSeq(s, 1, n) \in Seq(Range(s))
      /\ Len(SubSeq(s, 1, n)) = IF 1 <= n THEN n - 1 + 1 ELSE 0
      /\ \A i \in 1..n - 1 + 1 : SubSeq(s, 1, n)[i] = s[1 + i - 1]
  BY <1>1, SubSeqProperties
<1>3. IsSeq(SubSeq(s, 1, n)) /\ Range(SubSeq(s, 1, n)) \subseteq Range(s)
  BY <1>2, SeqTyped
<1>4. Len(SubSeq(s, 1, n)) = n
  BY <1>1, <1>2
<1>5. \A i \in 1..n : 1 + i - 1 = i
  BY <1>1
<1> QED
  BY <1>1, <1>2, <1>3, <1>4, <1>5

\* A sequence of one element.
LEMMA SeqSingle ==
  ASSUME NEW x
  PROVE  IsSeq(<<x>>) /\ Range(<<x>>) = {x} /\ Len(<<x>>) = 1 /\ <<x>>[1] = x
<1>1. <<x>> \in Seq({x})
  OBVIOUS
<1>2. IsSeq(<<x>>) /\ Range(<<x>>) \subseteq {x}
  BY <1>1, SeqTyped
<1> QED
  BY <1>2 DEF Range

\* A function on 1..n is a sequence.
LEMMA SeqFunction ==
  ASSUME NEW n \in Nat, NEW f, f = [k \in 1..n |-> f[k]]
  PROVE  IsSeq(f) /\ Len(f) = n /\ Range(f) = {f[k] : k \in 1..n}
<1>1. DOMAIN f = 1..n
  OBVIOUS
<1>2. f \in [1..n -> Range(f)]
  BY <1>1 DEF Range
<1>3. f \in Seq(Range(f))
  BY <1>2, SeqDef
<1>4. Len(f) \in Nat /\ 1..Len(f) = 1..n
  BY <1>1, <1>3, LenProperties
<1>5. Len(f) = n
  <2>1. CASE n = 0
    <3>1. ~(1 \in 1..Len(f))
      BY <1>4, <2>1
    <3> QED
      BY <1>4, <2>1, <3>1
  <2>2. CASE n > 0
    <3>1. n \in 1..Len(f)
      BY <1>4, <2>2
    <3>2. Len(f) \in 1..n
      BY <1>4, <3>1
    <3> QED
      BY <1>4, <3>1, <3>2
  <2> QED
    BY <2>1, <2>2
<1> QED
  BY <1>1, <1>3, <1>5 DEF IsSeq, Range

\* A sequence of two elements.
LEMMA SeqPair ==
  ASSUME NEW x, NEW y
  PROVE  /\ IsSeq(<<x, y>>) /\ Range(<<x, y>>) = {x, y} /\ Len(<<x, y>>) = 2
         /\ <<x, y>>[1] = x /\ <<x, y>>[2] = y
<1>1. <<x, y>> \in Seq({x, y}) /\ Len(<<x, y>>) = 2
  OBVIOUS
<1>2. IsSeq(<<x, y>>) /\ Range(<<x, y>>) \subseteq {x, y}
  BY <1>1, SeqTyped
<1>3. <<x, y>>[1] = x /\ <<x, y>>[2] = y
  OBVIOUS
<1>4. x \in Range(<<x, y>>) /\ y \in Range(<<x, y>>)
  BY <1>1, <1>2, <1>3, SeqShape
<1> QED
  BY <1>1, <1>2, <1>3, <1>4

-----------------------------------------------------------------------------
(* Powers of two and division.                                             *)

\* The powers of two are positive and double.
LEMMA PowerOfTwo ==
  ASSUME NEW n \in Nat
  PROVE  2^n \in Nat \ {0} /\ 2^(n + 1) = 2 * 2^n
<1> DEFINE S == SUBSET (1..n)
           f == [A \in S |-> A \cup {n + 1}]
           T == Range(f)
<1>1. \A m \in Nat : /\ IsFiniteSet(SUBSET (1..m))
                     /\ Cardinality(SUBSET (1..m)) = 2^m
                     /\ Cardinality(SUBSET (1..m)) \in Nat
  <2>1. SUFFICES ASSUME NEW m \in Nat
                 PROVE  /\ IsFiniteSet(SUBSET (1..m))
                        /\ Cardinality(SUBSET (1..m)) = 2^m
                        /\ Cardinality(SUBSET (1..m)) \in Nat
    OBVIOUS
  <2>2. IsFiniteSet(1..m) /\ Cardinality(1..m) = m
    BY FS_Interval
  <2> QED
    BY <2>2, FS_SUBSET, FS_CardinalityType
<1>2. f \in Surjection(S, T) /\ f \in Injection(S, T)
  <2>1. f \in Surjection(S, T) /\ f \in [S -> T] /\ DOMAIN f = S
    BY DEF Surjection, Range
  <2>2. \A A, B \in S : A \cup {n + 1} = B \cup {n + 1} => A = B
    <3>1. \A A \in S : n + 1 \notin A
      OBVIOUS
    <3>2. \A A \in S : A = (A \cup {n + 1}) \ {n + 1}
      BY <3>1
    <3> QED
      BY <3>2, Zenon
  <2>3. \A A, B \in S : f[A] = f[B] => A = B
    BY <2>2
  <2> HIDE DEF f, S, T
  <2> QED
    BY <2>1, <2>3 DEF Injection, IsInjective
<1>3. IsFiniteSet(S) /\ Cardinality(S) = 2^n /\ 2^n \in Nat
  BY <1>1
<1>4. IsFiniteSet(T) /\ Cardinality(T) = 2^n
  BY <1>2, <1>3, FS_Surjection
<1>5. S \cap T = {}
  <2>1. \A A \in S : n + 1 \notin A /\ n + 1 \in f[A]
    OBVIOUS
  <2>2. \A B \in T : \E A \in S : B = f[A]
    BY DEF Range
  <2> HIDE DEF f, S, T
  <2> QED
    BY <2>1, <2>2
<1>6. SUBSET (1..(n + 1)) = S \cup T
  <2>5. \A x : x \in 1..(n + 1) <=> x \in 1..n \/ x = n + 1
    OBVIOUS
  <2>6. \A B \in T : \E A \in S : B = A \cup {n + 1}
    BY DEF Range
  <2>7. S \subseteq SUBSET (1..(n + 1)) /\ T \subseteq SUBSET (1..(n + 1))
    BY <2>5, <2>6
  <2>8. \A A \in SUBSET (1..(n + 1)) : n + 1 \notin A => A \in S
    BY <2>5
  <2>1. SUFFICES ASSUME NEW A \in SUBSET (1..(n + 1)), n + 1 \in A PROVE A \in T
    BY <2>7, <2>8
  <2>2. A \ {n + 1} \in S
    <3>1. \A x \in A : x # n + 1 => x \in 1..n
      OBVIOUS
    <3> QED
      BY <3>1
  <2>3. A = f[A \ {n + 1}]
    BY <2>1, <2>2
  <2> QED
    BY <2>2, <2>3 DEF Range
<1>7. Cardinality(S \cup T) = 2^n + 2^n
  <2>1. Cardinality(S \cup T) = Cardinality(S) + Cardinality(T) - Cardinality(S \cap T)
    BY <1>3, <1>4, FS_Union
  <2>2. Cardinality(S \cap T) = 0
    BY <1>5, FS_EmptySet
  <2> QED
    BY <1>3, <1>4, <2>1, <2>2
<1>8. 2^(n + 1) = Cardinality(SUBSET (1..(n + 1)))
  BY <1>1
<1>9. {} \in S
  OBVIOUS
<1>10. 2^n # 0
  BY <1>3, <1>9, FS_EmptySet
<1>11. 2^(n + 1) = 2^n + 2^n
  BY <1>6, <1>7, <1>8, Zenon
<1>12. \A x \in Nat : x + x = 2 * x
  OBVIOUS
<1> QED
  BY <1>3, <1>10, <1>11, <1>12

\* A product of integers compares as its factors do.
LEMMA ProductLess ==
  ASSUME NEW a \in Int, NEW b \in Int, NEW v \in Nat \ {0}, a * v < b * v
  PROVE  a < b
<1>1. SUFFICES ASSUME b <= a PROVE FALSE
  OBVIOUS
<1>2. (a - b) * v >= 0
  <2>1. PICK e \in Nat : e = a - b
    BY <1>1
  <2>2. e * v >= 0
    OBVIOUS
  <2> QED
    BY <2>1, <2>2
<1> QED
  BY <1>2

\* Division is characterised by its bounds.
LEMMA DivisionFacts ==
  ASSUME NEW x \in Int, NEW v \in Nat \ {0}
  PROVE  /\ x \div v \in Int
         /\ (x \div v) * v <= x
         /\ x < (x \div v + 1) * v
<1>1. x \div v \in Int
  OBVIOUS
<1>2. (x \div v) * v <= x /\ x < (x \div v) * v + v
  OBVIOUS
<1> QED
  BY <1>1, <1>2

\* The quotient is the number whose multiples enclose.
LEMMA DivisionUnique ==
  ASSUME NEW x \in Int, NEW v \in Nat \ {0}, NEW k \in Int, k * v <= x, x < (k + 1) * v
  PROVE  x \div v = k
<1>1. PICK j \in Int : j = x \div v /\ j * v <= x /\ x < (j + 1) * v
  BY DivisionFacts
<1>2. j * v < (k + 1) * v /\ k * v < (j + 1) * v
  <2>1. j * v \in Int /\ k * v \in Int /\ (j + 1) * v \in Int /\ (k + 1) * v \in Int
    OBVIOUS
  <2> QED
    BY <1>1, <2>1
<1>3. j < k + 1 /\ k < j + 1
  BY <1>2, ProductLess
<1> QED
  BY <1>1, <1>3

\* The powers split over a sum.
LEMMA PowerSplit ==
  ASSUME NEW n \in Nat, NEW d \in 0..n
  PROVE  2^n = 2^d * 2^(n - d)
<1> DEFINE T == {e \in 0..n : 2^n = 2^e * 2^(n - e)}
<1>1. 0 \in T
  <2>1. 2^0 = 1 /\ 2^n \in Nat
    BY PowerOfTwo
  <2> QED
    BY <2>1
<1>2. \A e \in 1..n : e - 1 \in T => e \in T
  <2>1. SUFFICES ASSUME NEW e \in 1..n, e - 1 \in T PROVE 2^n = 2^e * 2^(n - e)
    OBVIOUS
  <2>2. PICK c \in Nat, m \in Nat : c = e - 1 /\ m = n - e
    OBVIOUS
  <2>3. 2^(c + 1) = 2 * 2^c /\ 2^(m + 1) = 2 * 2^m /\ 2^c \in Nat /\ 2^m \in Nat
    BY PowerOfTwo
  <2>4. c + 1 = e /\ m + 1 = n - (e - 1) /\ e - 1 = c /\ n - e = m
    BY <2>2
  <2>5. 2^n = 2^c * (2 * 2^m)
    BY <2>1, <2>3, <2>4
  <2>6. 2^e = 2 * 2^c
    BY <2>3, <2>4
  <2>7. \A x, y \in Nat : x * (2 * y) = (2 * x) * y
    OBVIOUS
  <2> QED
    BY <2>3, <2>4, <2>5, <2>6, <2>7
<1> HIDE DEF T
<1>3. \A e \in 0..n : e \in T
  BY <1>1, <1>2, UpTo
<1> QED
  BY <1>3 DEF T
=============================================================================
