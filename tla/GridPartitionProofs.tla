------------------------ MODULE GridPartitionProofs ------------------------
(***************************************************************************)
(* The partition that answers queries shows the forest it is kept beside,  *)
(* and merge_boxes keeps what the boxes it merges cover: for any number of *)
(* dimensions, root copies, regions, growths, thresholds and rounds, and   *)
(* wherever a deadline cuts a merge short.                                 *)
(***************************************************************************)
EXTENDS GridPartition, DataLemmas, FiniteSetTheorems

-----------------------------------------------------------------------------
(* Least and greatest elements of finite sets.                             *)

\* R is a set of pairs that orders S, ties allowed.
Orders(R, S) ==
  /\ \A x, y \in S : <<x, y>> \in R \/ <<y, x>> \in R
  /\ \A x, y, z \in S : <<x, y>> \in R /\ <<y, z>> \in R => <<x, z>> \in R

\* A finite set that is ordered has a least element.
LEMMA Extreme ==
  ASSUME NEW S, IsFiniteSet(S), S # {}, NEW R, Orders(R, S)
  PROVE  \E m \in S : \A x \in S : <<m, x>> \in R
<1>1. PICK n \in Nat : ExistsBijection(1..n, S)
  BY FS_NatBijection
<1>2. PICK f : f \in Surjection(1..n, S)
  BY <1>1 DEF ExistsBijection, Bijection
<1>3. f \in [1..n -> S] /\ \A x \in S : \E i \in 1..n : f[i] = x
  BY <1>2 DEF Surjection, Range
<1> DEFINE T == {k \in 0..n : k = 0 \/ \E m \in S : \A i \in 1..k : <<m, f[i]>> \in R}
<1>4. 0 \in T
  OBVIOUS
<1>5. \A k \in 1..n : k - 1 \in T => k \in T
  <2> SUFFICES ASSUME NEW k \in 1..n, k - 1 \in T PROVE k \in T
    OBVIOUS
  <2>1. k \in 0..n /\ f[k] \in S /\ k - 1 \in 0..n
    BY <1>3
  <2>2. <<f[k], f[k]>> \in R
    BY <2>1 DEF Orders
  <2>3. CASE k = 1
    <3>1. \A i \in 1..k : i = k
      BY <2>3
    <3>2. \A i \in 1..k : <<f[k], f[i]>> \in R
      BY <3>1, <2>2
    <3> QED
      BY <2>1, <3>2
  <2>4. CASE k # 1
    <3>1. k - 1 # 0
      BY <2>4
    <3>2. PICK m \in S : \A i \in 1..(k - 1) : <<m, f[i]>> \in R
      BY <3>1
    <3>3. \A i \in 1..k : i \in 1..(k - 1) \/ i = k
      OBVIOUS
    <3>4. \A i \in 1..k : f[i] \in S
      BY <1>3
    <3>5. CASE <<m, f[k]>> \in R
      <4>1. \A i \in 1..k : <<m, f[i]>> \in R
        BY <3>2, <3>3, <3>5
      <4> QED
        BY <2>1, <4>1
    <3>6. CASE <<f[k], m>> \in R
      <4>1. \A i \in 1..k : <<f[k], f[i]>> \in R
        BY <2>1, <2>2, <3>2, <3>3, <3>4, <3>6 DEF Orders
      <4> QED
        BY <2>1, <4>1
    <3> QED
      BY <2>1, <3>5, <3>6 DEF Orders
  <2> QED
    BY <2>3, <2>4
<1>6. n \in T
  <2> HIDE DEF T
  <2>1. \A k \in 0..n : k \in T
    BY <1>4, <1>5, UpTo
  <2> QED
    BY <2>1
<1>7. n # 0
  BY <1>3
<1>8. PICK m \in S : \A i \in 1..n : <<m, f[i]>> \in R
  BY <1>6, <1>7
<1> QED
  BY <1>3, <1>8

\* Max and Min of a finite set of integers are in it and bound it.
LEMMA FiniteBounds ==
  ASSUME NEW S \in SUBSET Int, IsFiniteSet(S), S # {}
  PROVE  /\ Max(S) \in S /\ \A x \in S : x <= Max(S)
         /\ Min(S) \in S /\ \A x \in S : Min(S) <= x
<1> DEFINE up == {p \in S \X S : p[1] <= p[2]}
           down == {p \in S \X S : p[2] <= p[1]}
<1>1. \A x, y \in S : (<<x, y>> \in up <=> x <= y) /\ (<<x, y>> \in down <=> y <= x)
  OBVIOUS
<1> HIDE DEF up, down
<1>2. Orders(up, S) /\ Orders(down, S)
  BY <1>1 DEF Orders
<1>3. \E m \in S : \A x \in S : <<m, x>> \in up
  BY <1>2, Extreme
<1>4. \E m \in S : \A x \in S : <<m, x>> \in down
  BY <1>2, Extreme
<1>5. (\E m \in S : \A x \in S : m <= x) /\ (\E m \in S : \A x \in S : m >= x)
  BY <1>1, <1>3, <1>4
<1>6. Max(S) \in S /\ \A x \in S : Max(S) >= x
  BY <1>5 DEF Max
<1>7. Min(S) \in S /\ \A x \in S : Min(S) <= x
  BY <1>5 DEF Min
<1> QED
  BY <1>6, <1>7

-----------------------------------------------------------------------------
(* Elements of a finite set by their rank.                                 *)

Ranks(S, key) == [b \in S |-> Cardinality({c \in S : key[c] <= key[b]})]

\* key tells the elements of S apart.
KeyOf(key, S) == key \in [S -> Int] /\ \A b, c \in S : key[b] = key[c] => b = c

\* Every rank up to the size of the set is that of exactly one element.
LEMMA Ranked ==
  ASSUME NEW S, IsFiniteSet(S), NEW key, KeyOf(key, S)
  PROVE  /\ Cardinality(S) \in Nat
         /\ \A b \in S : Ranks(S, key)[b] \in 1..Cardinality(S)
         /\ \A i \in 1..Cardinality(S) : \E b \in S : Ranks(S, key)[b] = i
         /\ \A b, c \in S : Ranks(S, key)[b] = Ranks(S, key)[c] => b = c
<1> DEFINE upto(b) == {c \in S : key[c] <= key[b]}
           n == Cardinality(S)
           r == Ranks(S, key)
<1>1. n \in Nat
  BY FS_CardinalityType
<1>2. \A b \in S : r[b] = Cardinality(upto(b))
  BY DEF Ranks
<1>3. \A b \in S : upto(b) \in SUBSET S /\ b \in upto(b)
  BY DEF KeyOf
<1>4. \A b \in S : IsFiniteSet(upto(b)) /\ Cardinality(upto(b)) <= n
  <2> TAKE b \in S
  <2> DEFINE U == upto(b)
  <2>1. U \in SUBSET S
    OBVIOUS
  <2> HIDE DEF U
  <2>2. IsFiniteSet(U) /\ Cardinality(U) <= Cardinality(S)
    BY <2>1, FS_Subset
  <2> QED
    BY <2>2 DEF U
<1>5. \A b \in S : Cardinality(upto(b)) \in 1..n
  <2> TAKE b \in S
  <2> DEFINE U == upto(b)
  <2>1. IsFiniteSet(U) /\ b \in U /\ Cardinality(U) <= n
    BY <1>3, <1>4
  <2> HIDE DEF U, n
  <2>2. Cardinality(U) \in Nat /\ Cardinality(U) # 0
    BY <2>1, FS_CardinalityType, FS_EmptySet
  <2>3. Cardinality(U) \in 1..n
    BY <1>1, <2>1, <2>2
  <2> QED
    BY <2>3 DEF U, n
<1>6. \A b, c \in S : key[b] < key[c] => Cardinality(upto(b)) # Cardinality(upto(c))
  <2> SUFFICES ASSUME NEW b \in S, NEW c \in S, key[b] < key[c],
                      Cardinality(upto(b)) = Cardinality(upto(c))
               PROVE  FALSE
    OBVIOUS
  <2> DEFINE U == upto(b)
             V == upto(c)
  <2>1. U \in SUBSET V
    BY DEF KeyOf
  <2>2. c \in V /\ c \notin U
    BY <1>3 DEF KeyOf
  <2>3. IsFiniteSet(V) /\ Cardinality(V) = Cardinality(U)
    BY <1>4
  <2> HIDE DEF U, V
  <2>4. V = U
    BY <2>1, <2>3, FS_Subset
  <2> QED
    BY <2>2, <2>4
<1>7. \A b, c \in S : r[b] = r[c] => b = c
  <2> SUFFICES ASSUME NEW b \in S, NEW c \in S, r[b] = r[c] PROVE b = c
    OBVIOUS
  <2>1. key[b] \in Int /\ key[c] \in Int
    BY DEF KeyOf
  <2>2. ~(key[b] < key[c]) /\ ~(key[c] < key[b])
    BY <1>2, <1>6
  <2>3. key[b] = key[c]
    BY <2>1, <2>2
  <2> QED
    BY <2>3 DEF KeyOf
<1>8. r \in [S -> 1..n]
  BY <1>5 DEF Ranks
<1> HIDE DEF upto, n, r
<1>9. r \in Injection(S, 1..n)
  BY <1>7, <1>8 DEF Injection, IsInjective
<1>10. IsFiniteSet(1..n) /\ Cardinality(1..n) = n
  BY <1>1, FS_Interval
<1>11. r \in Surjection(S, 1..n)
  BY <1>9, <1>10, FS_Injection DEF n
<1>12. \A i \in 1..n : \E b \in S : r[b] = i
  BY <1>8, <1>11 DEF Surjection, Range
<1> QED
  BY <1>1, <1>7, <1>8, <1>12 DEF n, r

-----------------------------------------------------------------------------
(* Lists of records that are told apart by their ids.                      *)

Distinct(s) == \A i, j \in DOMAIN s : s[i].id = s[j].id => i = j

\* f renumbers the elements of t, without loss, as the places K of s.
Renumbers(f, t, s, K) ==
  /\ f \in [DOMAIN t -> K] /\ \A i \in DOMAIN t : t[i] = s[f[i]]
  /\ \A j \in K : \E i \in DOMAIN t : f[i] = j
  /\ \A i, k \in DOMAIN t : f[i] = f[k] => i = k

\* Without keeps every other element, once and in a new place.
LEMMA WithoutMap ==
  ASSUME NEW bs, IsSeq(bs), NEW gone \in SUBSET DOMAIN bs
  PROVE  /\ IsSeq(Without(bs, gone))
         /\ \E f : Renumbers(f, Without(bs, gone), bs, DOMAIN bs \ gone)
<1> DEFINE S == DOMAIN bs \ gone
           n == Len(bs) - Cardinality(gone)
           key == [j \in S |-> j]
           pick == [i \in 1..n |-> CHOOSE j \in S : Cardinality({k \in S : k <= j}) = i]
           W == Without(bs, gone)
<1>1. Len(bs) \in Nat /\ DOMAIN bs = 1..Len(bs)
  BY SeqShape
<1>2. IsFiniteSet(DOMAIN bs) /\ Cardinality(DOMAIN bs) = Len(bs)
  BY <1>1, FS_Interval
<1>3. IsFiniteSet(gone) /\ IsFiniteSet(S)
  BY <1>2, FS_Subset
<1>4. Cardinality(S) = n
  <2>1. DOMAIN bs \cap gone = gone
    OBVIOUS
  <2>2. Cardinality(S) = Cardinality(DOMAIN bs) - Cardinality(DOMAIN bs \cap gone)
    BY <1>2, FS_Difference
  <2> QED
    BY <1>2, <2>1, <2>2
<1>5. KeyOf(key, S)
  BY <1>1 DEF KeyOf
<1>6. \A j \in S : Ranks(S, key)[j] = Cardinality({k \in S : k <= j})
  <2> TAKE j \in S
  <2>1. {k \in S : key[k] <= key[j]} = {k \in S : k <= j}
    OBVIOUS
  <2> QED
    BY <2>1 DEF Ranks
<1>7. W = [i \in 1..n |-> bs[pick[i]]]
  BY DEF Without
<1> HIDE DEF S, key
<1>8. /\ n \in Nat /\ \A j \in S : Cardinality({k \in S : k <= j}) \in 1..n
      /\ \A i \in 1..n : \E j \in S : Cardinality({k \in S : k <= j}) = i
      /\ \A j, k \in S : Cardinality({l \in S : l <= j}) = Cardinality({l \in S : l <= k}) => j = k
  <2>1. /\ Cardinality(S) \in Nat
        /\ \A b \in S : Ranks(S, key)[b] \in 1..Cardinality(S)
        /\ \A i \in 1..Cardinality(S) : \E b \in S : Ranks(S, key)[b] = i
        /\ \A b, c \in S : Ranks(S, key)[b] = Ranks(S, key)[c] => b = c
    BY <1>3, <1>5, Ranked
  <2> HIDE DEF n
  <2> QED
    BY <1>4, <1>6, <2>1
<1> HIDE DEF W, n
<1>9. \A i \in 1..n : pick[i] \in S /\ Cardinality({k \in S : k <= pick[i]}) = i
  BY <1>8
<1>10. pick \in [1..n -> S]
  BY <1>9
<1>11. DOMAIN pick = 1..n
  OBVIOUS
<1> HIDE DEF pick
<1>12. \A j \in S : \E i \in 1..n : pick[i] = j
  <2> TAKE j \in S
  <2> DEFINE i == Cardinality({k \in S : k <= j})
  <2>1. i \in 1..n
    BY <1>8
  <2>2. pick[i] \in S /\ Cardinality({k \in S : k <= pick[i]}) = i
    BY <1>9, <2>1
  <2>3. pick[i] = j
    BY <1>8, <2>2
  <2> QED
    BY <2>1, <2>3
<1>13. \A i, k \in 1..n : pick[i] = pick[k] => i = k
  BY <1>9
<1>14. DOMAIN W = 1..n /\ \A i \in 1..n : W[i] = bs[pick[i]]
  BY <1>7
<1>15. IsSeq(W)
  <2>1. W = [i \in 1..n |-> W[i]]
    BY <1>7
  <2> QED
    BY <1>8, <2>1, SeqFunction
<1>16. Renumbers(pick, W, bs, S)
  BY <1>10, <1>12, <1>13, <1>14 DEF Renumbers
<1> QED
  BY <1>15, <1>16 DEF W, S

\* Excluding keeps the elements whose id is not excluded.
LEMMA ExcludingFacts ==
  ASSUME NEW bs, IsSeq(bs), Distinct(bs), NEW ids
  PROVE  /\ IsSeq(Excluding(bs, ids)) /\ Distinct(Excluding(bs, ids))
         /\ Range(Excluding(bs, ids)) = {b \in Range(bs) : b.id \notin ids}
<1> DEFINE gone == {i \in DOMAIN bs : bs[i].id \in ids}
           E == Excluding(bs, ids)
<1>1. E = Without(bs, gone) /\ gone \in SUBSET DOMAIN bs
  BY DEF Excluding
<1>2. \A j \in DOMAIN bs : j \in DOMAIN bs \ gone <=> bs[j].id \notin ids
  OBVIOUS
<1> HIDE DEF E, gone
<1>3. IsSeq(E) /\ \E f : Renumbers(f, E, bs, DOMAIN bs \ gone)
  BY <1>1, WithoutMap
<1>4. PICK f : Renumbers(f, E, bs, DOMAIN bs \ gone)
  BY <1>3
<1>5. Distinct(E)
  <2> SUFFICES ASSUME NEW i \in DOMAIN E, NEW j \in DOMAIN E, E[i].id = E[j].id PROVE i = j
    BY DEF Distinct
  <2>1. f[i] \in DOMAIN bs /\ f[j] \in DOMAIN bs /\ bs[f[i]].id = bs[f[j]].id
    BY <1>4 DEF Renumbers
  <2>2. f[i] = f[j]
    BY <2>1 DEF Distinct
  <2> QED
    BY <1>4, <2>2 DEF Renumbers
<1>6. ASSUME NEW b \in Range(E) PROVE b \in Range(bs) /\ b.id \notin ids
  <2>1. PICK i \in DOMAIN E : b = E[i]
    BY DEF Range
  <2>2. f[i] \in DOMAIN bs \ gone /\ b = bs[f[i]]
    BY <1>4, <2>1 DEF Renumbers
  <2> QED
    BY <1>2, <2>2 DEF Range
<1>7. ASSUME NEW b \in Range(bs), b.id \notin ids PROVE b \in Range(E)
  <2>1. PICK j \in DOMAIN bs : b = bs[j]
    BY DEF Range
  <2>2. PICK i \in DOMAIN E : f[i] = j
    BY <1>2, <1>4, <1>7, <2>1 DEF Renumbers
  <2>3. b = E[i]
    BY <1>4, <2>1, <2>2 DEF Renumbers
  <2> QED
    BY <2>3 DEF Range
<1> QED
  BY <1>3, <1>5, <1>6, <1>7 DEF E

\* A finite set of records with distinct ids, listed by id.
LEMMA InIdOrderFacts ==
  ASSUME NEW S, IsFiniteSet(S), \A b \in S : b.id \in Int,
         \A b, c \in S : b.id = c.id => b = c
  PROVE  /\ IsSeq(InIdOrder(S)) /\ Range(InIdOrder(S)) = S
         /\ Distinct(InIdOrder(S))
<1> DEFINE key == [b \in S |-> b.id]
           n == Cardinality(S)
           pick == [k \in 1..n |-> CHOOSE b \in S : Cardinality({c \in S : c.id <= b.id}) = k]
           L == InIdOrder(S)
<1>1. KeyOf(key, S)
  BY DEF KeyOf
<1>2. \A b \in S : Ranks(S, key)[b] = Cardinality({c \in S : c.id <= b.id})
  <2> TAKE b \in S
  <2>1. {c \in S : key[c] <= key[b]} = {c \in S : c.id <= b.id}
    OBVIOUS
  <2> QED
    BY <2>1 DEF Ranks
<1>3. L = pick
  BY DEF InIdOrder
<1> HIDE DEF key, n, L
<1>4. /\ n \in Nat /\ \A b \in S : Cardinality({c \in S : c.id <= b.id}) \in 1..n
      /\ \A i \in 1..n : \E b \in S : Cardinality({c \in S : c.id <= b.id}) = i
      /\ \A b, c \in S : Cardinality({d \in S : d.id <= b.id}) = Cardinality({d \in S : d.id <= c.id}) => b = c
  <2>1. /\ Cardinality(S) \in Nat
        /\ \A b \in S : Ranks(S, key)[b] \in 1..Cardinality(S)
        /\ \A i \in 1..Cardinality(S) : \E b \in S : Ranks(S, key)[b] = i
        /\ \A b, c \in S : Ranks(S, key)[b] = Ranks(S, key)[c] => b = c
    BY <1>1, Ranked
  <2> QED
    BY <1>2, <2>1 DEF n
<1>5. \A k \in 1..n : L[k] \in S /\ Cardinality({c \in S : c.id <= L[k].id}) = k
  BY <1>3, <1>4
<1>6. L = [k \in 1..n |-> L[k]] /\ DOMAIN L = 1..n
  <2>1. pick \in [1..n -> S]
    BY <1>4
  <2> HIDE DEF pick
  <2>2. pick = [k \in 1..n |-> pick[k]] /\ DOMAIN pick = 1..n
    BY <2>1
  <2> QED
    BY <1>3, <2>2
<1> HIDE DEF pick
<1>7. IsSeq(L) /\ Range(L) = {L[k] : k \in 1..n}
  BY <1>4, <1>6, SeqFunction
<1>8. \A b \in S : \E k \in 1..n : L[k] = b
  <2> TAKE b \in S
  <2> DEFINE k == Cardinality({c \in S : c.id <= b.id})
  <2>1. k \in 1..n
    BY <1>4
  <2>2. L[k] \in S /\ Cardinality({c \in S : c.id <= L[k].id}) = k
    BY <1>5, <2>1
  <2>3. L[k] = b
    BY <1>4, <2>2
  <2> QED
    BY <2>1, <2>3
<1>9. Range(L) = S
  <2>1. \A x \in Range(L) : x \in S
    BY <1>5, <1>7
  <2>2. \A x \in S : x \in Range(L)
    BY <1>7, <1>8
  <2> QED
    BY <2>1, <2>2
<1>10. Distinct(L)
  <2> SUFFICES ASSUME NEW i \in 1..n, NEW j \in 1..n, L[i].id = L[j].id PROVE i = j
    BY <1>6 DEF Distinct
  <2>1. L[i] = L[j]
    BY <1>5
  <2> QED
    BY <1>5, <2>1
<1> QED
  BY <1>7, <1>9, <1>10 DEF L

\* Two lists that share no id stay distinct when one follows the other.
LEMMA DistinctConcat ==
  ASSUME NEW s, NEW t, IsSeq(s), IsSeq(t), Distinct(s), Distinct(t),
         \A b \in Range(s), c \in Range(t) : b.id # c.id
  PROVE  Distinct(s \o t)
<1> DEFINE w == s \o t
<1>1. /\ IsSeq(w) /\ Len(w) = Len(s) + Len(t)
      /\ \A i \in 1..Len(s) : w[i] = s[i]
      /\ \A i \in 1..Len(t) : w[Len(s) + i] = t[i]
  BY SeqConcat
<1>2. /\ Len(s) \in Nat /\ Len(t) \in Nat /\ DOMAIN s = 1..Len(s) /\ DOMAIN t = 1..Len(t)
      /\ DOMAIN w = 1..Len(w)
      /\ (\A i \in 1..Len(s) : s[i] \in Range(s)) /\ (\A i \in 1..Len(t) : t[i] \in Range(t))
  BY <1>1, SeqShape
<1> HIDE DEF w
<1>3. \A i \in DOMAIN w : i \in 1..Len(s) \/ (i > Len(s) /\ i - Len(s) \in 1..Len(t) /\ w[i] = t[i - Len(s)])
  <2> TAKE i \in DOMAIN w
  <2>1. i \in Nat /\ i >= 1 /\ i <= Len(s) + Len(t)
    BY <1>1, <1>2
  <2>2. i <= Len(s) \/ i > Len(s)
    BY <1>2, <2>1
  <2>3. CASE i <= Len(s)
    BY <1>2, <2>1, <2>3
  <2>4. CASE i > Len(s)
    <3>1. i - Len(s) \in 1..Len(t) /\ Len(s) + (i - Len(s)) = i
      BY <1>2, <2>1, <2>4
    <3>2. w[i] = t[i - Len(s)]
      BY <1>1, <3>1
    <3> QED
      BY <2>4, <3>1, <3>2
  <2> QED
    BY <2>2, <2>3, <2>4
<1>4. SUFFICES ASSUME NEW i \in DOMAIN w, NEW j \in DOMAIN w, w[i].id = w[j].id PROVE i = j
  BY DEF Distinct, w
<1>5. CASE i \in 1..Len(s) /\ j \in 1..Len(s)
  BY <1>1, <1>2, <1>4, <1>5 DEF Distinct
<1>6. CASE i \notin 1..Len(s) /\ j \notin 1..Len(s)
  <2>1. /\ i - Len(s) \in DOMAIN t /\ j - Len(s) \in DOMAIN t
        /\ t[i - Len(s)].id = t[j - Len(s)].id
    BY <1>2, <1>3, <1>4, <1>6
  <2>2. i - Len(s) = j - Len(s)
    BY <2>1 DEF Distinct
  <2>3. i \in Int /\ j \in Int
    BY <1>2
  <2> QED
    BY <1>2, <2>2, <2>3
<1>7. CASE i \in 1..Len(s) /\ j \notin 1..Len(s)
  BY <1>1, <1>2, <1>3, <1>4, <1>7
<1>8. CASE i \notin 1..Len(s) /\ j \in 1..Len(s)
  BY <1>1, <1>2, <1>3, <1>4, <1>8
<1> QED
  BY <1>5, <1>6, <1>7, <1>8

-----------------------------------------------------------------------------
(* Regions, and what a list of boxes covers.                               *)

Region == [Dim -> Int \X Int]
Point == [Dim -> Int]
BoxRecords == [id : Nat, region : Region]
Holds(r, p) == \A d \in Dim : r[d][1] <= p[d] /\ p[d] < r[d][2]
Covers(B, p) == \E b \in B : Holds(b.region, p)

\* A list of boxes as the facade and the partition hold it.
BoxesGood(bs) == IsSeq(bs) /\ Range(bs) \subseteq BoxRecords /\ Distinct(bs)

\* The boxes B stand for the boxes A: they cover the same points, and each has
\* the id of one of them and at least its region.
StandFor(B, A) ==
  /\ \A b \in B : \E a \in A : a.id = b.id
  /\ \A a \in A, b \in B : a.id = b.id => Inside(a.region, b.region)
  /\ \A p \in Point : Covers(A, p) <=> Covers(B, p)

OneEach(A) == \A a, b \in A : a.id = b.id => a = b

\* Regions inside one another: reflexive, transitive, and what one holds.
LEMMA InsideFacts ==
  /\ \A r \in Region : Inside(r, r)
  /\ \A r, s, t \in Region : Inside(r, s) /\ Inside(s, t) => Inside(r, t)
  /\ \A r, s \in Region, p \in Point : Inside(r, s) /\ Holds(r, p) => Holds(s, p)
<1>1. \A r \in Region, d \in Dim : r[d][1] \in Int /\ r[d][2] \in Int
  BY DEF Region
<1>2. \A p \in Point, d \in Dim : p[d] \in Int
  BY DEF Point
<1>3. \A r \in Region : Inside(r, r)
  BY <1>1 DEF Inside
<1>4. ASSUME NEW r \in Region, NEW s \in Region, NEW t \in Region, Inside(r, s), Inside(s, t)
      PROVE  Inside(r, t)
  <2> SUFFICES ASSUME NEW d \in Dim PROVE t[d][1] <= r[d][1] /\ r[d][2] <= t[d][2]
    BY DEF Inside
  <2>1. t[d][1] <= s[d][1] /\ s[d][2] <= t[d][2] /\ s[d][1] <= r[d][1] /\ r[d][2] <= s[d][2]
    BY <1>4 DEF Inside
  <2> QED
    BY <1>1, <2>1
<1>5. ASSUME NEW r \in Region, NEW s \in Region, NEW p \in Point, Inside(r, s), Holds(r, p)
      PROVE  Holds(s, p)
  <2> SUFFICES ASSUME NEW d \in Dim PROVE s[d][1] <= p[d] /\ p[d] < s[d][2]
    BY DEF Holds
  <2>1. s[d][1] <= r[d][1] /\ r[d][2] <= s[d][2] /\ r[d][1] <= p[d] /\ p[d] < r[d][2]
    BY <1>5 DEF Inside, Holds
  <2> QED
    BY <1>1, <1>2, <2>1
<1> QED
  BY <1>3, <1>4, <1>5

\* The boxes of a good list have distinct ids.
LEMMA GoodOneEach ==
  ASSUME NEW bs, BoxesGood(bs)
  PROVE  OneEach(Range(bs))
BY DEF BoxesGood, Distinct, Range, OneEach

\* Boxes stand for themselves.
LEMMA StandForItself ==
  ASSUME NEW A \in SUBSET BoxRecords, OneEach(A)
  PROVE  StandFor(A, A)
<1>1. \A a \in A : a.region \in Region
  BY DEF BoxRecords
<1>2. \A a, b \in A : a.id = b.id => Inside(a.region, b.region)
  BY <1>1, InsideFacts DEF OneEach
<1> QED
  BY <1>2 DEF StandFor

\* Standing for boxes that stand for others.
LEMMA StandForChain ==
  ASSUME NEW A \in SUBSET BoxRecords, NEW B \in SUBSET BoxRecords, NEW C \in SUBSET BoxRecords,
         StandFor(B, A), StandFor(C, B)
  PROVE  StandFor(C, A)
<1>1. \A c \in C : \E a \in A : a.id = c.id
  <2> TAKE c \in C
  <2>1. PICK b \in B : b.id = c.id
    BY DEF StandFor
  <2>2. PICK a \in A : a.id = b.id
    BY DEF StandFor
  <2> QED
    BY <2>1, <2>2
<1>2. ASSUME NEW a \in A, NEW c \in C, a.id = c.id PROVE Inside(a.region, c.region)
  <2>1. PICK b \in B : b.id = c.id
    BY DEF StandFor
  <2>2. Inside(a.region, b.region) /\ Inside(b.region, c.region)
    BY <1>2, <2>1 DEF StandFor
  <2>3. a.region \in Region /\ b.region \in Region /\ c.region \in Region
    BY DEF BoxRecords
  <2> QED
    BY <2>2, <2>3, InsideFacts
<1>3. \A p \in Point : Covers(A, p) <=> Covers(C, p)
  BY DEF StandFor
<1> QED
  BY <1>1, <1>2, <1>3 DEF StandFor

\* Two groups of boxes that share no id may be replaced independently.
LEMMA StandForBoth ==
  ASSUME NEW A1, NEW A2, NEW B1, NEW B2, StandFor(B1, A1), StandFor(B2, A2),
         \A a \in A1, b \in A2 : a.id # b.id
  PROVE  StandFor(B1 \cup B2, A1 \cup A2)
<1>1. \A b \in B1 \cup B2 : \E a \in A1 \cup A2 : a.id = b.id
  BY DEF StandFor
<1>2. ASSUME NEW a \in A1 \cup A2, NEW b \in B1 \cup B2, a.id = b.id
      PROVE  Inside(a.region, b.region)
  <2>1. CASE b \in B1
    <3>1. PICK c \in A1 : c.id = b.id
      BY <2>1 DEF StandFor
    <3>2. a \in A1
      BY <1>2, <3>1
    <3> QED
      BY <1>2, <2>1, <3>2 DEF StandFor
  <2>2. CASE b \in B2
    <3>1. PICK c \in A2 : c.id = b.id
      BY <2>2 DEF StandFor
    <3>2. a \in A2
      BY <1>2, <3>1
    <3> QED
      BY <1>2, <2>2, <3>2 DEF StandFor
  <2> QED
    BY <2>1, <2>2
<1>3. ASSUME NEW p \in Point PROVE Covers(A1 \cup A2, p) <=> Covers(B1 \cup B2, p)
  <2>1. (Covers(A1, p) <=> Covers(B1, p)) /\ (Covers(A2, p) <=> Covers(B2, p))
    BY DEF StandFor
  <2>2. Covers(A1 \cup A2, p) <=> Covers(A1, p) \/ Covers(A2, p)
    BY DEF Covers
  <2>3. Covers(B1 \cup B2, p) <=> Covers(B1, p) \/ Covers(B2, p)
    BY DEF Covers
  <2> QED
    BY <2>1, <2>2, <2>3
<1> QED
  BY <1>1, <1>2, <1>3 DEF StandFor

\* A list that renumbers some boxes of a good list is good.
LEMMA KeptGood ==
  ASSUME NEW bs, BoxesGood(bs), NEW C, IsSeq(C), NEW K \in SUBSET DOMAIN bs,
         \E f : Renumbers(f, C, bs, K)
  PROVE  BoxesGood(C) /\ Range(C) = {bs[j] : j \in K}
<1>1. PICK f : Renumbers(f, C, bs, K)
  OBVIOUS
<1>2. Distinct(C)
  <2> SUFFICES ASSUME NEW i \in DOMAIN C, NEW j \in DOMAIN C, C[i].id = C[j].id PROVE i = j
    BY DEF Distinct
  <2>1. f[i] \in DOMAIN bs /\ f[j] \in DOMAIN bs /\ bs[f[i]].id = bs[f[j]].id
    BY <1>1 DEF Renumbers
  <2>2. f[i] = f[j]
    BY <2>1 DEF BoxesGood, Distinct
  <2> QED
    BY <1>1, <2>2 DEF Renumbers
<1>3. \A x \in Range(C) : x \in {bs[j] : j \in K}
  BY <1>1 DEF Range, Renumbers
<1>4. \A j \in K : bs[j] \in Range(C)
  <2> TAKE j \in K
  <2>1. PICK i \in DOMAIN C : f[i] = j
    BY <1>1 DEF Renumbers
  <2>2. C[i] = bs[j]
    BY <1>1, <2>1 DEF Renumbers
  <2> QED
    BY <2>2 DEF Range
<1>5. Range(C) = {bs[j] : j \in K}
  BY <1>3, <1>4
<1>6. \A j \in K : bs[j] \in BoxRecords
  BY DEF BoxesGood, Range
<1> QED
  BY <1>2, <1>5, <1>6 DEF BoxesGood

\* u is the containment pass, one examined cell at a time.
PruneSteps(u, bs, n) ==
  /\ u[0] = {}
  /\ \A k \in 1..n : u[k] = u[k - 1] \cup {i \in {k} : \E o \in DOMAIN bs \ u[k - 1] : Swallows(bs, o, i)}

\* The boxes the containment pass has released, one examined cell at a time.
LEMMA PrunedUnfolds ==
  ASSUME NEW bs, NEW examined \in Nat
  PROVE  \E u : PruneSteps(u, bs, examined) /\ PrunedBoxes(bs, examined) = Without(bs, u[examined])
<1> DEFINE n == examined
           Op(x, k) == x \cup {i \in {k} : \E o \in DOMAIN bs \ x : Swallows(bs, o, i)}
           P(m, f) == f = [k \in 0..m |-> IF k = 0 THEN {} ELSE Op(f[k - 1], k)]
           T == {m \in 0..n : \E f : P(m, f)}
           u == CHOOSE f : P(n, f)
<1>1. n \in Nat
  OBVIOUS
<1>2. PrunedBoxes(bs, examined) = Without(bs, u[n])
  BY Zenon DEF PrunedBoxes
<1> HIDE DEF n, Op
<1>3. 0 \in T
  <2> DEFINE f == [k \in 0..0 |-> {}]
  <2>1. f = [k \in 0..0 |-> IF k = 0 THEN {} ELSE Op(f[k - 1], k)]
    OBVIOUS
  <2>2. P(0, f) /\ 0 \in 0..n
    BY <1>1, <2>1
  <2> HIDE DEF P, f
  <2> QED
    BY <2>2
<1>4. \A m \in 1..n : m - 1 \in T => m \in T
  <2> SUFFICES ASSUME NEW m \in 1..n, m - 1 \in T PROVE m \in T
    OBVIOUS
  <2>1. PICK f : f = [k \in 0..(m - 1) |-> IF k = 0 THEN {} ELSE Op(f[k - 1], k)]
    OBVIOUS
  <2> DEFINE h == [k \in 0..m |-> IF k = m THEN Op(f[m - 1], m) ELSE f[k]]
  <2>2. \A k \in 0..m : h[k] = IF k = 0 THEN {} ELSE Op(h[k - 1], k)
    <3> TAKE k \in 0..m
    <3>1. k \in 0..(m - 1) \/ k = m
      OBVIOUS
    <3>2. CASE k = m
      <4>1. m - 1 \in 0..m /\ m - 1 # m /\ m # 0
        OBVIOUS
      <4>2. h[m - 1] = f[m - 1]
        BY <4>1
      <4> QED
        BY <3>2, <4>1, <4>2
    <3>3. CASE k \in 0..(m - 1) /\ k # 0
      <4>1. k # m /\ k - 1 \in 0..m /\ k - 1 # m
        BY <3>3
      <4>2. h[k] = f[k] /\ h[k - 1] = f[k - 1]
        BY <4>1
      <4>3. f[k] = Op(f[k - 1], k)
        BY <2>1, <3>3
      <4> QED
        BY <3>3, <4>2, <4>3
    <3>4. CASE k = 0
      <4>1. 0 # m /\ 0 \in 0..(m - 1)
        OBVIOUS
      <4>2. h[0] = f[0] /\ f[0] = {}
        BY <2>1, <4>1
      <4> QED
        BY <3>4, <4>2
    <3> QED
      BY <3>1, <3>2, <3>3, <3>4
  <2>3. h = [k \in 0..m |-> IF k = 0 THEN {} ELSE Op(h[k - 1], k)]
    <3>1. h = [k \in 0..m |-> h[k]]
      OBVIOUS
    <3> HIDE DEF h
    <3> QED
      BY <2>2, <3>1
  <2>4. P(m, h)
    BY <2>3
  <2>5. m \in 0..n
    BY <1>1
  <2> HIDE DEF P, h
  <2> QED
    BY <2>4, <2>5
<1>5. n \in T
  <2> HIDE DEF T
  <2>1. \A m \in 0..n : m \in T
    BY <1>1, <1>3, <1>4, UpTo
  <2> QED
    BY <1>1, <2>1
<1>6. P(n, u)
  <2> HIDE DEF P
  <2>1. \E f : P(n, f)
    BY <1>5
  <2> QED
    BY <2>1
<1> HIDE DEF u
<1>7. \A k \in 0..n : u[k] = IF k = 0 THEN {} ELSE Op(u[k - 1], k)
  BY <1>6
<1> HIDE DEF P
<1>8. u[0] = {}
  BY <1>1, <1>7
<1>9. \A k \in 1..n : u[k] = Op(u[k - 1], k)
  BY <1>1, <1>7
<1>10. \A k \in 1..n : u[k] = u[k - 1] \cup {i \in {k} : \E o \in DOMAIN bs \ u[k - 1] : Swallows(bs, o, i)}
  BY Zenon, <1>9 DEF Op
<1> QED
  <2>1. PruneSteps(u, bs, examined)
    BY <1>8, <1>10 DEF n, PruneSteps
  <2> QED
    BY <1>2, <2>1 DEF n

\* Whatever it examines before a deadline, the containment pass leaves boxes
\* that stand for those it was given.
LEMMA PrunedStands ==
  ASSUME NEW bs, BoxesGood(bs), NEW examined \in 0..Len(bs)
  PROVE  BoxesGood(PrunedBoxes(bs, examined)) /\ StandFor(Range(PrunedBoxes(bs, examined)), Range(bs))
<1> DEFINE K(g) == DOMAIN bs \ g
           Fits(g) == g \subseteq DOMAIN bs /\ \A i \in g : \E o \in K(g) : Inside(bs[i].region, bs[o].region)
           C == PrunedBoxes(bs, examined)
<1>1. /\ examined \in Nat /\ Len(bs) \in Nat /\ DOMAIN bs = 1..Len(bs)
      /\ \A i \in DOMAIN bs : bs[i] \in Range(bs) /\ bs[i] \in BoxRecords /\ bs[i].region \in Region
  <2>1. /\ Len(bs) \in Nat /\ DOMAIN bs = 1..Len(bs) /\ \A i \in DOMAIN bs : bs[i] \in Range(bs)
    BY SeqShape DEF BoxesGood
  <2> QED
    BY <2>1 DEF BoxesGood, BoxRecords
<1>2. PICK u : PruneSteps(u, bs, examined) /\ C = Without(bs, u[examined])
  <2>1. examined \in Nat
    BY <1>1
  <2> QED
    BY <2>1, PrunedUnfolds
<1> HIDE DEF C
<1> DEFINE T == {k \in 0..examined : Fits(u[k])}
<1>3. 0 \in T
  <2>1. ASSUME NEW g, g = {} PROVE Fits(g)
    BY <2>1
  <2>2. Fits(u[0]) /\ 0 \in 0..examined
    BY <1>1, <1>2, <2>1 DEF PruneSteps
  <2> QED
    BY <2>2
<1>4. \A k \in 1..examined : k - 1 \in T => k \in T
  <2> SUFFICES ASSUME NEW k \in 1..examined, k - 1 \in T PROVE k \in T
    OBVIOUS
  <2> DEFINE g == u[k - 1]
             h == u[k]
  <2>1. h = g \cup {i \in {k} : \E o \in DOMAIN bs \ g : Swallows(bs, o, i)}
    BY <1>2 DEF PruneSteps
  <2>2. Fits(g) /\ k \in 0..examined /\ k \in DOMAIN bs
    BY <1>1
  <2> HIDE DEF g, h
  <2>3. CASE h = g
    BY <2>2, <2>3 DEF h
  <2>4. CASE h # g
    <3>1. PICK o \in DOMAIN bs \ g : Swallows(bs, o, k)
      BY <2>1, <2>4
    <3>2. h = g \cup {k}
      BY <2>1, <3>1
    <3>3. o # k /\ o \in K(h) /\ Inside(bs[k].region, bs[o].region)
      BY <3>1, <3>2 DEF Swallows
    <3>4. h \subseteq DOMAIN bs
      BY <2>2, <3>2
    <3>5. ASSUME NEW i \in h PROVE \E q \in K(h) : Inside(bs[i].region, bs[q].region)
      <4>1. CASE i = k
        BY <3>3, <4>1
      <4>2. CASE i # k
        <5>1. i \in g
          BY <3>2, <4>2
        <5>2. PICK q \in K(g) : Inside(bs[i].region, bs[q].region)
          BY <2>2, <5>1
        <5>3. CASE q = k
          <6>1. Inside(bs[i].region, bs[o].region)
            BY <1>1, <2>2, <3>3, <3>4, <5>2, <5>3, InsideFacts
          <6> QED
            BY <3>3, <6>1
        <5>4. CASE q # k
          BY <3>2, <5>2, <5>4
        <5> QED
          BY <5>3, <5>4
      <4> QED
        BY <4>1, <4>2
    <3>6. Fits(h)
      BY <3>4, <3>5
    <3> QED
      BY <2>2, <3>6 DEF h
  <2> QED
    BY <2>3, <2>4
<1>5. Fits(u[examined])
  <2> HIDE DEF T
  <2>1. \A k \in 0..examined : k \in T
    BY <1>1, <1>3, <1>4, UpTo
  <2>2. examined \in T
    BY <1>1, <2>1
  <2> QED
    BY <2>2 DEF T
<1>6. PICK g : g = u[examined]
  OBVIOUS
<1>7. Fits(g) /\ C = Without(bs, g) /\ g \in SUBSET DOMAIN bs
  BY <1>2, <1>5, <1>6
<1> HIDE DEF Fits
<1>8. IsSeq(C) /\ \E f : Renumbers(f, C, bs, DOMAIN bs \ g)
  <2>1. IsSeq(bs)
    BY DEF BoxesGood
  <2> QED
    BY <1>7, <2>1, WithoutMap
<1>9. BoxesGood(C) /\ Range(C) = {bs[j] : j \in DOMAIN bs \ g}
  BY <1>8, KeptGood
<1> DEFINE A == Range(bs)
           B == Range(C)
<1>10. \A b \in B : b \in A
  BY <1>1, <1>9
<1>11. OneEach(A)
  BY GoodOneEach
<1>12. A \subseteq BoxRecords
  BY DEF BoxesGood
<1>13. \A p \in Point : Covers(A, p) <=> Covers(B, p)
  <2> TAKE p \in Point
  <2>1. ASSUME Covers(B, p) PROVE Covers(A, p)
    BY <1>10, <2>1 DEF Covers
  <2>2. ASSUME Covers(A, p) PROVE Covers(B, p)
    <3>1. PICK i \in DOMAIN bs : Holds(bs[i].region, p)
      BY <2>2 DEF Covers, Range
    <3>2. CASE i \in g
      <4>1. PICK o \in DOMAIN bs \ g : Inside(bs[i].region, bs[o].region)
        BY <1>7, <3>2 DEF Fits
      <4>2. Holds(bs[o].region, p)
        BY <1>1, <3>1, <4>1, InsideFacts
      <4> QED
        BY <1>9, <4>1, <4>2 DEF Covers
    <3>3. CASE i \notin g
      BY <1>9, <3>1, <3>3 DEF Covers
    <3> QED
      BY <3>2, <3>3
  <2> QED
    BY <2>1, <2>2
<1>14. \A a \in A, b \in B : a.id = b.id => Inside(a.region, b.region)
  <2> SUFFICES ASSUME NEW a \in A, NEW b \in B, a.id = b.id PROVE Inside(a.region, b.region)
    OBVIOUS
  <2>1. a = b
    BY <1>10, <1>11 DEF OneEach
  <2>2. a.region \in Region
    BY <1>12 DEF BoxRecords
  <2> QED
    BY <2>1, <2>2, InsideFacts
<1>15. StandFor(B, A)
  BY <1>10, <1>13, <1>14 DEF StandFor
<1> QED
  BY <1>9, <1>15 DEF C

-----------------------------------------------------------------------------
(* The cells of one merge line in order, and the runs that have no gap.    *)

Line(bs, d, i) == LineOf(bs[i].region, d)
Lo(bs, d, i) == bs[i].region[d][1]
Hi(bs, d, i) == bs[i].region[d][2]
NotAfter(bs, d, i, j) ==
  Line(bs, d, i) = Line(bs, d, j) /\ (Lo(bs, d, i) < Lo(bs, d, j) \/ (Lo(bs, d, i) = Lo(bs, d, j) /\ i <= j))
Starts(bs, d, live) ==
  {i \in live : \A j \in live \ {i} : NotAfter(bs, d, j, i) => Hi(bs, d, j) < Lo(bs, d, i)}
StartOf(bs, d, live, i) ==
  CHOOSE s \in Starts(bs, d, live) :
    NotAfter(bs, d, s, i) /\ \A t \in Starts(bs, d, live) : NotAfter(bs, d, t, i) => NotAfter(bs, d, t, s)
Run(bs, d, live, s) == {i \in live : StartOf(bs, d, live, i) = s}
Merged(bs, d, live, s) == [id |-> bs[s].id, region |-> Hull({bs[i].region : i \in Run(bs, d, live, s)})]

\* What the lemmas on runs assume of the cells at hand.
LineSetting(bs, d, live) == BoxesGood(bs) /\ d \in Dim /\ live \subseteq DOMAIN bs

\* The numbers a line is ordered by.
LEMMA LineNumbers ==
  ASSUME NEW bs, NEW d, NEW live, LineSetting(bs, d, live)
  PROVE  /\ Len(bs) \in Nat /\ DOMAIN bs = 1..Len(bs) /\ IsFiniteSet(live)
         /\ \A i \in live : /\ i \in Nat /\ Lo(bs, d, i) \in Int /\ Hi(bs, d, i) \in Int
                            /\ bs[i] \in BoxRecords /\ bs[i].region \in Region
<1>1. Len(bs) \in Nat /\ DOMAIN bs = 1..Len(bs)
  BY SeqShape DEF LineSetting, BoxesGood
<1>2. IsFiniteSet(live)
  <2>1. IsFiniteSet(DOMAIN bs) /\ live \in SUBSET DOMAIN bs
    BY <1>1, FS_Interval DEF LineSetting
  <2> QED
    BY <2>1, FS_Subset
<1>3. \A i \in live : bs[i] \in BoxRecords
  BY DEF LineSetting, BoxesGood, Range
<1>4. \A i \in live : bs[i].region \in Region
  BY <1>3 DEF BoxRecords
<1>5. \A i \in live : Lo(bs, d, i) \in Int /\ Hi(bs, d, i) \in Int
  <2> TAKE i \in live
  <2>1. bs[i].region[d] \in Int \X Int
    BY <1>4 DEF Region, LineSetting
  <2> QED
    BY <2>1 DEF Lo, Hi
<1> QED
  BY <1>1, <1>2, <1>3, <1>4, <1>5 DEF LineSetting

\* notAfter orders the cells of a line.
LEMMA NotAfterOrder ==
  ASSUME NEW bs, NEW d, NEW live, LineSetting(bs, d, live)
  PROVE  /\ \A i \in live : NotAfter(bs, d, i, i)
         /\ \A i, j \in live : Line(bs, d, i) = Line(bs, d, j) => NotAfter(bs, d, i, j) \/ NotAfter(bs, d, j, i)
         /\ \A i, j \in live : NotAfter(bs, d, i, j) /\ NotAfter(bs, d, j, i) => i = j
         /\ \A i, j, k \in live : NotAfter(bs, d, i, j) /\ NotAfter(bs, d, j, k) => NotAfter(bs, d, i, k)
         /\ \A i, j \in live : NotAfter(bs, d, i, j) => Line(bs, d, i) = Line(bs, d, j) /\ Lo(bs, d, i) <= Lo(bs, d, j)
<1>1. \A i \in live : i \in Nat /\ Lo(bs, d, i) \in Int
  BY LineNumbers
<1> QED
  BY <1>1 DEF NotAfter

\* Every live cell has a start: the last one not after it.
LEMMA StartFacts ==
  ASSUME NEW bs, NEW d, NEW live, LineSetting(bs, d, live), NEW i \in live
  PROVE  /\ StartOf(bs, d, live, i) \in Starts(bs, d, live)
         /\ NotAfter(bs, d, StartOf(bs, d, live, i), i)
         /\ \A t \in Starts(bs, d, live) : NotAfter(bs, d, t, i) => NotAfter(bs, d, t, StartOf(bs, d, live, i))
<1> DEFINE before == {j \in live : NotAfter(bs, d, j, i)}
           S == {t \in Starts(bs, d, live) : NotAfter(bs, d, t, i)}
           up == {p \in live \X live : NotAfter(bs, d, p[1], p[2])}
           down == {p \in live \X live : NotAfter(bs, d, p[2], p[1])}
<1>1. IsFiniteSet(live)
  BY LineNumbers
<1>2. before \subseteq live /\ S \subseteq before /\ i \in before
  BY NotAfterOrder DEF Starts
<1>3. IsFiniteSet(before) /\ IsFiniteSet(S)
  BY <1>1, <1>2, FS_Subset
<1>4. \A x, y \in live : (<<x, y>> \in up <=> NotAfter(bs, d, x, y)) /\ (<<x, y>> \in down <=> NotAfter(bs, d, y, x))
  OBVIOUS
<1>5. \A x \in before : x \in live /\ NotAfter(bs, d, x, i)
  OBVIOUS
<1>6. \A x, y \in before : NotAfter(bs, d, x, y) \/ NotAfter(bs, d, y, x)
  BY <1>5, NotAfterOrder
<1>7. \A x, y, z \in before : NotAfter(bs, d, x, y) /\ NotAfter(bs, d, y, z) => NotAfter(bs, d, x, z)
  BY <1>5, NotAfterOrder
<1>8. \A x \in live : NotAfter(bs, d, x, i) => x \in before
  OBVIOUS
<1>9. \A x \in S : x \in before /\ x \in Starts(bs, d, live)
  BY <1>2
<1>10. \A x \in before : x \in Starts(bs, d, live) => x \in S
  OBVIOUS
<1> HIDE DEF before, S, up, down
<1>11. Orders(up, before) /\ Orders(down, S)
  BY <1>2, <1>4, <1>5, <1>6, <1>7 DEF Orders
<1>12. PICK m \in before : \A x \in before : <<m, x>> \in up
  BY <1>2, <1>3, <1>11, Extreme
<1>13. m \in Starts(bs, d, live)
  <2>1. m \in live
    BY <1>5
  <2>2. \A j \in live \ {m} : ~NotAfter(bs, d, j, m)
    <3> SUFFICES ASSUME NEW j \in live \ {m}, NotAfter(bs, d, j, m) PROVE FALSE
      OBVIOUS
    <3>1. j \in before
      BY <1>5, <1>8, <2>1, NotAfterOrder
    <3>2. NotAfter(bs, d, m, j)
      BY <1>4, <1>12, <2>1, <3>1
    <3> QED
      BY <2>1, <3>2, NotAfterOrder
  <2> QED
    BY <2>1, <2>2 DEF Starts
<1>14. S # {}
  BY <1>10, <1>13
<1>15. PICK s \in S : \A x \in S : <<s, x>> \in down
  BY <1>3, <1>11, <1>14, Extreme
<1>16. \A t \in Starts(bs, d, live) : NotAfter(bs, d, t, i) => NotAfter(bs, d, t, s)
  <2> SUFFICES ASSUME NEW t \in Starts(bs, d, live), NotAfter(bs, d, t, i) PROVE NotAfter(bs, d, t, s)
    OBVIOUS
  <2>1. t \in live
    BY DEF Starts
  <2>2. t \in S /\ s \in live
    BY <1>5, <1>8, <1>9, <1>10, <2>1
  <2>3. <<s, t>> \in down
    BY <1>15, <2>2
  <2> QED
    BY <1>4, <2>1, <2>2, <2>3
<1>17. s \in Starts(bs, d, live) /\ NotAfter(bs, d, s, i)
  BY <1>5, <1>9
<1>18. \E x \in Starts(bs, d, live) :
         NotAfter(bs, d, x, i) /\ \A t \in Starts(bs, d, live) : NotAfter(bs, d, t, i) => NotAfter(bs, d, t, x)
  BY <1>16, <1>17
<1> QED
  BY <1>18 DEF StartOf

\* A run starts with its start and stays on its line.
LEMMA RunFacts ==
  ASSUME NEW bs, NEW d, NEW live, LineSetting(bs, d, live), NEW s \in Starts(bs, d, live)
  PROVE  /\ s \in live /\ s \in Run(bs, d, live, s) /\ Run(bs, d, live, s) \subseteq live
         /\ \A i \in Run(bs, d, live, s) : /\ NotAfter(bs, d, s, i) /\ Line(bs, d, i) = Line(bs, d, s)
                                           /\ Lo(bs, d, s) <= Lo(bs, d, i)
<1>1. s \in live
  BY DEF Starts
<1>2. StartOf(bs, d, live, s) = s
  <2>1. NotAfter(bs, d, s, s)
    BY <1>1, NotAfterOrder
  <2>2. /\ NotAfter(bs, d, StartOf(bs, d, live, s), s) /\ NotAfter(bs, d, s, StartOf(bs, d, live, s))
        /\ StartOf(bs, d, live, s) \in Starts(bs, d, live)
    BY <1>1, <2>1, StartFacts
  <2>3. StartOf(bs, d, live, s) \in live
    BY <2>2 DEF Starts
  <2> QED
    BY <1>1, <2>2, <2>3, NotAfterOrder
<1>3. ASSUME NEW i \in Run(bs, d, live, s)
      PROVE  i \in live /\ NotAfter(bs, d, s, i)
  <2>1. i \in live /\ StartOf(bs, d, live, i) = s
    BY DEF Run
  <2> QED
    BY <2>1, StartFacts
<1>4. \A i \in Run(bs, d, live, s) : Line(bs, d, i) = Line(bs, d, s) /\ Lo(bs, d, s) <= Lo(bs, d, i)
  BY <1>1, <1>3, NotAfterOrder
<1>5. s \in Run(bs, d, live, s)
  BY <1>1, <1>2 DEF Run
<1> QED
  BY <1>1, <1>3, <1>4, <1>5

\* A run has no gap: below any point that a cell of the run reaches over and
\* that its start does not lie behind, some cell of the run holds the point.
LEMMA RunHasNoGap ==
  ASSUME NEW bs, NEW d, NEW live, LineSetting(bs, d, live), NEW s \in Starts(bs, d, live),
         NEW x \in Int, Lo(bs, d, s) <= x, NEW t \in Run(bs, d, live, s), x < Hi(bs, d, t)
  PROVE  \E i \in Run(bs, d, live, s) : Lo(bs, d, i) <= x /\ x < Hi(bs, d, i)
<1>1. SUFFICES ASSUME \A i \in Run(bs, d, live, s) : ~(Lo(bs, d, i) <= x /\ x < Hi(bs, d, i))
               PROVE  FALSE
  OBVIOUS
<1>2. /\ s \in live /\ s \in Run(bs, d, live, s) /\ Run(bs, d, live, s) \subseteq live
      /\ \A i \in Run(bs, d, live, s) : /\ NotAfter(bs, d, s, i) /\ Line(bs, d, i) = Line(bs, d, s)
                                        /\ Lo(bs, d, s) <= Lo(bs, d, i)
  BY RunFacts
<1>3. /\ IsFiniteSet(live)
      /\ \A i \in live : i \in Nat /\ Lo(bs, d, i) \in Int /\ Hi(bs, d, i) \in Int
  BY LineNumbers
<1> DEFINE U == {i \in Run(bs, d, live, s) : x < Lo(bs, d, i)}
           up == {p \in live \X live : NotAfter(bs, d, p[1], p[2])}
<1>4. t \in U
  BY <1>1, <1>2, <1>3
<1>5. U \subseteq live /\ \A i \in U : i \in Run(bs, d, live, s) /\ x < Lo(bs, d, i)
  BY <1>2
<1>6. \A i \in Run(bs, d, live, s) : x < Lo(bs, d, i) => i \in U
  OBVIOUS
<1>7. \A i, j \in live : <<i, j>> \in up <=> NotAfter(bs, d, i, j)
  OBVIOUS
<1> HIDE DEF U, up
<1>8. IsFiniteSet(U)
  BY <1>3, <1>5, FS_Subset
<1>9. Orders(up, U)
  <2>1. \A i, j \in U : i \in live /\ j \in live /\ Line(bs, d, i) = Line(bs, d, j)
    BY <1>2, <1>5
  <2>2. \A i, j \in U : NotAfter(bs, d, i, j) \/ NotAfter(bs, d, j, i)
    BY <2>1, NotAfterOrder
  <2>3. \A i, j, k \in U : NotAfter(bs, d, i, j) /\ NotAfter(bs, d, j, k) => NotAfter(bs, d, i, k)
    BY <1>5, NotAfterOrder
  <2> QED
    BY <1>7, <2>1, <2>2, <2>3 DEF Orders
<1>10. PICK m \in U : \A i \in U : <<m, i>> \in up
  BY <1>4, <1>8, <1>9, Extreme
<1>11. m \in live /\ m \in Run(bs, d, live, s) /\ x < Lo(bs, d, m) /\ StartOf(bs, d, live, m) = s
  BY <1>5 DEF Run
<1>12. m # s
  BY <1>2, <1>3, <1>11
<1>13. m \notin Starts(bs, d, live)
  <2> SUFFICES ASSUME m \in Starts(bs, d, live) PROVE FALSE
    OBVIOUS
  <2>1. m \in Run(bs, d, live, m)
    BY RunFacts
  <2>2. StartOf(bs, d, live, m) = m
    BY <2>1 DEF Run
  <2> QED
    BY <1>11, <1>12, <2>2
<1>14. PICK j \in live \ {m} : NotAfter(bs, d, j, m) /\ ~(Hi(bs, d, j) < Lo(bs, d, m))
  BY <1>11, <1>13 DEF Starts
<1>15. x < Hi(bs, d, j)
  BY <1>3, <1>11, <1>14
<1>16. NotAfter(bs, d, s, j)
  <2>1. Line(bs, d, s) = Line(bs, d, j)
    BY <1>2, <1>11, <1>14, NotAfterOrder
  <2>2. ASSUME NotAfter(bs, d, j, s), j # s PROVE FALSE
    <3>1. Hi(bs, d, j) < Lo(bs, d, s)
      BY <2>2 DEF Starts
    <3> QED
      BY <1>2, <1>3, <1>15, <3>1
  <2>3. j = s => NotAfter(bs, d, s, j)
    BY <1>2, NotAfterOrder
  <2>4. NotAfter(bs, d, s, j) \/ NotAfter(bs, d, j, s)
    BY <1>2, <2>1, NotAfterOrder
  <2> QED
    BY <2>2, <2>3, <2>4
<1>17. j \in Run(bs, d, live, s)
  <2> DEFINE q == StartOf(bs, d, live, j)
  <2>1. q \in Starts(bs, d, live) /\ NotAfter(bs, d, q, j) /\ NotAfter(bs, d, s, q)
    BY <1>14, <1>16, StartFacts
  <2>2. q \in live
    BY <2>1 DEF Starts
  <2>3. NotAfter(bs, d, q, m)
    BY <1>11, <1>14, <2>1, <2>2, NotAfterOrder
  <2>4. NotAfter(bs, d, q, s)
    BY <1>11, <2>1, <2>3, StartFacts
  <2>5. q = s
    BY <1>2, <2>1, <2>2, <2>4, NotAfterOrder
  <2> QED
    BY <2>5 DEF Run
<1>18. x < Lo(bs, d, j)
  BY <1>1, <1>3, <1>14, <1>15, <1>17
<1>19. NotAfter(bs, d, m, j)
  BY <1>6, <1>7, <1>10, <1>11, <1>14, <1>17, <1>18
<1> QED
  BY <1>11, <1>14, <1>19, NotAfterOrder

\* The hull of some regions holds each of them and takes its sides from them.
LEMMA HullFacts ==
  ASSUME NEW S \in SUBSET Region, IsFiniteSet(S), S # {}
  PROVE  /\ Hull(S) \in Region /\ \A r \in S : Inside(r, Hull(S))
         /\ \A d \in Dim : (\E r \in S : Hull(S)[d][1] = r[d][1]) /\ (\E r \in S : Hull(S)[d][2] = r[d][2])
<1> DEFINE min == [d \in Dim |-> Min({r[d][1] : r \in S})]
           max == [d \in Dim |-> Max({r[d][2] : r \in S})]
           h == Hull(S)
<1>0. h = [d \in Dim |-> <<min[d], max[d]>>]
  BY DEF Hull
<1>1. \A d \in Dim : min[d] = Min({r[d][1] : r \in S}) /\ max[d] = Max({r[d][2] : r \in S})
  OBVIOUS
<1> HIDE DEF min, max, h
<1>2. \A r \in S, d \in Dim : r[d] \in Int \X Int /\ r[d][1] \in Int /\ r[d][2] \in Int
  BY DEF Region
<1>3. ASSUME NEW d \in Dim
      PROVE  /\ min[d] \in Int /\ max[d] \in Int
             /\ \A r \in S : min[d] <= r[d][1] /\ r[d][2] <= max[d]
             /\ (\E r \in S : min[d] = r[d][1]) /\ (\E r \in S : max[d] = r[d][2])
  <2> DEFINE lows == {r[d][1] : r \in S}
             highs == {r[d][2] : r \in S}
             low == [r \in S |-> r[d][1]]
             high == [r \in S |-> r[d][2]]
  <2>1. low \in Surjection(S, lows) /\ high \in Surjection(S, highs)
    BY DEF Surjection, Range
  <2>2. lows \subseteq Int /\ highs \subseteq Int /\ lows # {} /\ highs # {}
    BY <1>2
  <2>3. \A r \in S : r[d][1] \in lows /\ r[d][2] \in highs
    OBVIOUS
  <2>4. (\A x \in lows : \E r \in S : x = r[d][1]) /\ (\A x \in highs : \E r \in S : x = r[d][2])
    OBVIOUS
  <2>5. min[d] = Min(lows) /\ max[d] = Max(highs)
    BY <1>1
  <2> HIDE DEF lows, highs, low, high
  <2>6. IsFiniteSet(lows) /\ IsFiniteSet(highs)
    BY <2>1, FS_Surjection
  <2>7. Min(lows) \in lows /\ \A x \in lows : Min(lows) <= x
    BY <2>2, <2>6, FiniteBounds
  <2>8. Max(highs) \in highs /\ \A x \in highs : x <= Max(highs)
    BY <2>2, <2>6, FiniteBounds
  <2> QED
    BY <2>2, <2>3, <2>4, <2>5, <2>7, <2>8
<1>4. \A d \in Dim : h[d] = <<min[d], max[d]>> /\ h[d][1] = min[d] /\ h[d][2] = max[d]
  BY <1>0
<1>5. h \in Region
  BY <1>0, <1>3 DEF Region
<1>6. \A r \in S : Inside(r, h)
  BY <1>3, <1>4 DEF Inside
<1>7. \A d \in Dim : (\E r \in S : h[d][1] = r[d][1]) /\ (\E r \in S : h[d][2] = r[d][2])
  BY <1>3, <1>4
<1> QED
  BY <1>5, <1>6, <1>7 DEF h

\* Cells of one line have the same sides in every other dimension.
LEMMA LineSides ==
  ASSUME NEW bs, NEW d, NEW i, NEW j, Line(bs, d, i) = Line(bs, d, j)
  PROVE  \A e \in Dim \ {d} : bs[i].region[e] = bs[j].region[e]
<1> DEFINE si == [e \in Dim \ {d} |-> bs[i].region[e]]
           sj == [e \in Dim \ {d} |-> bs[j].region[e]]
<1>1. Line(bs, d, i) = <<RootOf(bs[i].region), si>> /\ Line(bs, d, j) = <<RootOf(bs[j].region), sj>>
  BY DEF Line, LineOf
<1>2. \A e \in Dim \ {d} : si[e] = bs[i].region[e] /\ sj[e] = bs[j].region[e]
  OBVIOUS
<1> HIDE DEF si, sj
<1>3. si = sj
  <2>1. \A w, x, y, z : <<w, x>> = <<y, z>> => x = z
    OBVIOUS
  <2>2. <<RootOf(bs[i].region), si>> = <<RootOf(bs[j].region), sj>>
    BY <1>1, Zenon
  <2> QED
    BY <2>1, <2>2, Zenon
<1> QED
  BY <1>2, <1>3

\* The box that replaces a run covers what the cells of the run cover.
LEMMA MergedFacts ==
  ASSUME NEW bs, NEW d, NEW live, LineSetting(bs, d, live), NEW s \in Starts(bs, d, live)
  PROVE  /\ Merged(bs, d, live, s) \in BoxRecords /\ Merged(bs, d, live, s).id = bs[s].id
         /\ Inside(bs[s].region, Merged(bs, d, live, s).region)
         /\ \A p \in Point : Holds(Merged(bs, d, live, s).region, p)
                               <=> \E i \in Run(bs, d, live, s) : Holds(bs[i].region, p)
<1> DEFINE R == Run(bs, d, live, s)
           S == {bs[i].region : i \in R}
           region == [i \in R |-> bs[i].region]
           h == Hull(S)
<1>1. /\ s \in live /\ s \in R /\ R \subseteq live
      /\ \A i \in R : Line(bs, d, i) = Line(bs, d, s) /\ Lo(bs, d, s) <= Lo(bs, d, i)
  BY RunFacts
<1>2. /\ IsFiniteSet(live)
      /\ \A i \in live : /\ Lo(bs, d, i) \in Int /\ Hi(bs, d, i) \in Int
                         /\ bs[i] \in BoxRecords /\ bs[i].region \in Region
  BY LineNumbers
<1>3. region \in Surjection(R, S)
  BY DEF Surjection, Range
<1>4. \A i \in R : bs[i].region \in S
  OBVIOUS
<1>5. \A r \in S : \E i \in R : r = bs[i].region
  OBVIOUS
<1>6. Merged(bs, d, live, s) = [id |-> bs[s].id, region |-> h]
  BY DEF Merged
<1> HIDE DEF R, S, region, h
<1>7. S \in SUBSET Region /\ IsFiniteSet(S) /\ S # {}
  <2>1. IsFiniteSet(R)
    BY <1>1, <1>2, FS_Subset
  <2>2. IsFiniteSet(S)
    BY <1>3, <2>1, FS_Surjection
  <2>3. S \subseteq Region
    BY <1>1, <1>2, <1>5
  <2> QED
    BY <1>1, <1>4, <2>2, <2>3
<1>8. /\ h \in Region /\ \A r \in S : Inside(r, h)
      /\ \A e \in Dim : (\E r \in S : h[e][1] = r[e][1]) /\ (\E r \in S : h[e][2] = r[e][2])
  BY <1>7, HullFacts DEF h
<1>9. \A i \in R : bs[i].region \in Region /\ Inside(bs[i].region, h)
  BY <1>1, <1>2, <1>4, <1>8
<1>10. ASSUME NEW p \in Point, NEW i \in R, Holds(bs[i].region, p) PROVE Holds(h, p)
  BY <1>8, <1>9, <1>10, InsideFacts
<1>11. ASSUME NEW p \in Point, Holds(h, p) PROVE \E i \in R : Holds(bs[i].region, p)
  <2> DEFINE x == p[d]
  <2>1. d \in Dim
    BY DEF LineSetting
  <2>2. x \in Int /\ h[d][1] <= x /\ x < h[d][2]
    BY <1>11, <2>1 DEF Point, Holds
  <2>3. PICK a \in R : h[d][1] = Lo(bs, d, a)
    BY <1>5, <1>8, <2>1 DEF Lo
  <2>4. PICK t \in R : h[d][2] = Hi(bs, d, t)
    BY <1>5, <1>8, <2>1 DEF Hi
  <2>5. Lo(bs, d, s) <= x /\ x < Hi(bs, d, t)
    <3>1. Lo(bs, d, s) <= Lo(bs, d, a) /\ Lo(bs, d, s) \in Int /\ Lo(bs, d, a) \in Int
      BY <1>1, <1>2
    <3> HIDE DEF x
    <3> QED
      BY <2>2, <2>3, <2>4, <3>1
  <2>6. PICK i \in R : Lo(bs, d, i) <= x /\ x < Hi(bs, d, i)
    <3>1. t \in Run(bs, d, live, s)
      BY DEF R
    <3> HIDE DEF x
    <3>2. \E i \in Run(bs, d, live, s) : Lo(bs, d, i) <= x /\ x < Hi(bs, d, i)
      BY <2>2, <2>5, <3>1, RunHasNoGap
    <3> QED
      BY <3>2 DEF R
  <2>7. ASSUME NEW e \in Dim PROVE bs[i].region[e][1] <= p[e] /\ p[e] < bs[i].region[e][2]
    <3>1. CASE e = d
      BY <2>6, <3>1 DEF Lo, Hi
    <3>2. CASE e # d
      <4>1. \A j \in R : bs[j].region[e] = bs[i].region[e]
        BY <1>1, <3>2, LineSides
      <4>2. h[e][1] = bs[i].region[e][1] /\ h[e][2] = bs[i].region[e][2]
        <5>1. PICK r \in S : h[e][1] = r[e][1]
          BY <1>8
        <5>2. PICK q \in S : h[e][2] = q[e][2]
          BY <1>8
        <5>3. r[e] = bs[i].region[e] /\ q[e] = bs[i].region[e]
          BY <1>5, <4>1
        <5> QED
          BY <5>1, <5>2, <5>3
      <4>3. h[e][1] <= p[e] /\ p[e] < h[e][2]
        BY <1>11 DEF Holds
      <4> QED
        BY <4>2, <4>3
    <3> QED
      BY <3>1, <3>2
  <2>8. Holds(bs[i].region, p)
    BY <2>7 DEF Holds
  <2> QED
    BY <2>8
<1>12. bs[s].id \in Nat
  BY <1>1, <1>2 DEF BoxRecords
<1>13. Merged(bs, d, live, s) \in BoxRecords /\ Merged(bs, d, live, s).id = bs[s].id
       /\ Merged(bs, d, live, s).region = h
  BY <1>6, <1>8, <1>12 DEF BoxRecords
<1> QED
  BY <1>1, <1>9, <1>10, <1>11, <1>13 DEF R

RunBoxes(bs, d, live, long) == {bs[i] : i \in UNION {Run(bs, d, live, s) : s \in long}}
MergedBoxes(bs, d, live, long) == {Merged(bs, d, live, s) : s \in long}

\* The boxes that replace some runs stand for the cells of those runs.
LEMMA RunsStand ==
  ASSUME NEW bs, NEW d, NEW live, LineSetting(bs, d, live), NEW long \in SUBSET Starts(bs, d, live),
         NEW A, A = RunBoxes(bs, d, live, long), NEW B, B = MergedBoxes(bs, d, live, long)
  PROVE  /\ A \subseteq BoxRecords /\ B \subseteq BoxRecords /\ IsFiniteSet(B) /\ OneEach(B)
         /\ StandFor(B, A)
<1> DEFINE merged == [s \in long |-> Merged(bs, d, live, s)]
<1>1. /\ IsFiniteSet(live) /\ \A i \in live : bs[i] \in BoxRecords /\ i \in DOMAIN bs
  BY LineNumbers DEF LineSetting
<1>2. \A s \in long : /\ s \in live /\ s \in Run(bs, d, live, s) /\ Run(bs, d, live, s) \subseteq live
  BY RunFacts
<1>3. \A s \in long : /\ Merged(bs, d, live, s) \in BoxRecords /\ Merged(bs, d, live, s).id = bs[s].id
                      /\ Inside(bs[s].region, Merged(bs, d, live, s).region)
                      /\ \A p \in Point : Holds(Merged(bs, d, live, s).region, p)
                                            <=> \E i \in Run(bs, d, live, s) : Holds(bs[i].region, p)
  BY MergedFacts
<1>4. \A i, j \in live : bs[i].id = bs[j].id => i = j
  BY <1>1 DEF LineSetting, BoxesGood, Distinct
<1>5. merged \in Surjection(long, B)
  BY DEF Surjection, Range, MergedBoxes
<1>6. \A a \in A : \E s \in long : \E i \in Run(bs, d, live, s) : a = bs[i]
  BY DEF RunBoxes
<1>7. \A s \in long : \A i \in Run(bs, d, live, s) : bs[i] \in A
  BY DEF RunBoxes
<1>8. \A b \in B : \E s \in long : b = Merged(bs, d, live, s)
  BY DEF MergedBoxes
<1>9. \A s \in long : Merged(bs, d, live, s) \in B
  BY DEF MergedBoxes
<1> HIDE DEF merged
<1>10. IsFiniteSet(B)
  <2>1. IsFiniteSet(long)
    BY <1>1, <1>2, FS_Subset
  <2> QED
    BY <1>5, <2>1, FS_Surjection
<1>11. A \subseteq BoxRecords /\ B \subseteq BoxRecords
  BY <1>1, <1>2, <1>3, <1>6, <1>8
<1>12. OneEach(B)
  BY <1>2, <1>3, <1>4, <1>8 DEF OneEach
<1>13. \A b \in B : \E a \in A : a.id = b.id
  BY <1>2, <1>3, <1>7, <1>8
<1>14. ASSUME NEW a \in A, NEW b \in B, a.id = b.id PROVE Inside(a.region, b.region)
  <2>1. PICK s \in long : b = Merged(bs, d, live, s)
    BY <1>8
  <2>2. PICK t \in long : \E i \in Run(bs, d, live, t) : a = bs[i]
    BY <1>6
  <2>3. PICK i \in Run(bs, d, live, t) : a = bs[i]
    BY <2>2
  <2>4. i = s
    BY <1>2, <1>3, <1>4, <1>14, <2>1, <2>3
  <2> QED
    BY <1>3, <2>1, <2>3, <2>4
<1>15. ASSUME NEW p \in Point PROVE Covers(A, p) <=> Covers(B, p)
  <2>1. ASSUME Covers(A, p) PROVE Covers(B, p)
    <3>1. PICK s \in long : \E i \in Run(bs, d, live, s) : Holds(bs[i].region, p)
      BY <1>6, <2>1 DEF Covers
    <3> QED
      BY <1>3, <1>9, <3>1 DEF Covers
  <2>2. ASSUME Covers(B, p) PROVE Covers(A, p)
    <3>1. PICK s \in long : Holds(Merged(bs, d, live, s).region, p)
      BY <1>8, <2>2 DEF Covers
    <3>2. PICK i \in Run(bs, d, live, s) : Holds(bs[i].region, p)
      BY <1>3, <3>1
    <3> QED
      BY <1>7, <3>2 DEF Covers
  <2> QED
    BY <2>1, <2>2
<1>16. StandFor(B, A)
  BY <1>13, <1>14, <1>15 DEF StandFor
<1> QED
  BY <1>10, <1>11, <1>12, <1>16

-----------------------------------------------------------------------------
(* Passes and rounds of merge_boxes.                                       *)

IsRound(st) == st = [bs |-> st.bs, gone |-> st.gone, new |-> st.new]
GoneBoxes(st) == {st.bs[i] : i \in st.gone}

\* In the course of a round, the new boxes stand for those that are gone.
RoundFits(st) ==
  /\ IsRound(st) /\ BoxesGood(st.bs) /\ st.gone \subseteq DOMAIN st.bs
  /\ BoxesGood(st.new) /\ StandFor(Range(st.new), GoneBoxes(st))

PassLive(st, d, lines) ==
  {i \in DOMAIN st.bs \ st.gone : RootOf(st.bs[i].region) # 0 /\ LineOf(st.bs[i].region, d) \in lines}
LongStarts(st, d, live) == {s \in Starts(st.bs, d, live) : Cardinality(Run(st.bs, d, live, s)) > 1}

PassShape(m, st, d, lines, live, long) ==
  /\ live = PassLive(st, d, lines) /\ long = LongStarts(st, d, live)
  /\ m = [bs   |-> st.bs,
          gone |-> st.gone \cup UNION {Run(st.bs, d, live, s) : s \in long},
          new  |-> st.new \o InIdOrder({Merged(st.bs, d, live, s) : s \in long})]

\* What a pass adds to a round, in the terms of the lemmas above.
LEMMA PassAdds ==
  ASSUME NEW st, NEW d, NEW lines
  PROVE  \E live, long : PassShape(MergePass(st, d, lines), st, d, lines, live, long)
<1> DEFINE bs == st.bs
           line(i) == LineOf(bs[i].region, d)
           lo(i) == bs[i].region[d][1]
           hi(i) == bs[i].region[d][2]
           live == {i \in DOMAIN bs \ st.gone : RootOf(bs[i].region) # 0 /\ line(i) \in lines}
           notAfter(i, j) == line(i) = line(j) /\ (lo(i) < lo(j) \/ (lo(i) = lo(j) /\ i <= j))
           starts == {i \in live : \A j \in live \ {i} : notAfter(j, i) => hi(j) < lo(i)}
           start(i) == CHOOSE s \in starts : notAfter(s, i) /\ \A t \in starts : notAfter(t, i) => notAfter(t, s)
           run(s) == {i \in live : start(i) = s}
           long == {s \in starts : Cardinality(run(s)) > 1}
           hulls == {[id |-> bs[s].id, region |-> Hull({bs[i].region : i \in run(s)})] : s \in long}
           m == [bs |-> bs, gone |-> st.gone \cup UNION {run(s) : s \in long}, new |-> st.new \o InIdOrder(hulls)]
<1>1. MergePass(st, d, lines) = m
  BY Zenon DEF MergePass
<1>2. live = PassLive(st, d, lines)
  BY Zenon DEF PassLive
<1>3. \A i, j : notAfter(i, j) <=> NotAfter(bs, d, i, j)
  BY Zenon DEF NotAfter, Line, Lo
<1> HIDE DEF notAfter, live
<1>4. starts = Starts(bs, d, live)
  <2>1. starts = {i \in live : \A j \in live \ {i} : NotAfter(bs, d, j, i) => hi(j) < lo(i)}
    BY <1>3
  <2> QED
    BY Zenon, <2>1 DEF Starts, Hi, Lo
<1> HIDE DEF starts
<1>5. \A i : start(i) = StartOf(bs, d, live, i)
  <2> TAKE i
  <2>1. start(i) = CHOOSE s \in starts : NotAfter(bs, d, s, i) /\ \A t \in starts : NotAfter(bs, d, t, i) => NotAfter(bs, d, t, s)
    BY <1>3
  <2> QED
    BY Zenon, <1>4, <2>1 DEF StartOf
<1> HIDE DEF start
<1>6. \A s : run(s) = Run(bs, d, live, s)
  <2> TAKE s
  <2>1. run(s) = {i \in live : StartOf(bs, d, live, i) = s}
    BY <1>5
  <2> QED
    BY Zenon, <2>1 DEF Run
<1> HIDE DEF run
<1>7. long = LongStarts(st, d, live)
  <2>1. long = {s \in Starts(bs, d, live) : Cardinality(Run(bs, d, live, s)) > 1}
    BY <1>4, <1>6
  <2> QED
    BY Zenon, <2>1 DEF LongStarts
<1> HIDE DEF long
<1>8. UNION {run(s) : s \in long} = UNION {Run(bs, d, live, s) : s \in long}
  BY <1>6
<1>9. hulls = {Merged(bs, d, live, s) : s \in long}
  <2>1. \A s \in long : [id |-> bs[s].id, region |-> Hull({bs[i].region : i \in run(s)})] = Merged(bs, d, live, s)
    <3> TAKE s \in long
    <3>1. run(s) = Run(bs, d, live, s)
      BY <1>6
    <3> QED
      BY Zenon, <3>1 DEF Merged
  <2> QED
    BY <2>1
<1> HIDE DEF hulls
<1>10. PassShape(MergePass(st, d, lines), st, d, lines, live, long)
  <2>1. m = [bs |-> bs, gone |-> st.gone \cup UNION {Run(bs, d, live, s) : s \in long},
             new |-> st.new \o InIdOrder({Merged(bs, d, live, s) : s \in long})]
    BY <1>8, <1>9
  <2> HIDE DEF m
  <2> QED
    BY <1>1, <1>2, <1>7, <2>1 DEF PassShape
<1> QED
  BY <1>10

\* A pass keeps what the round promises, whichever lines it gets to.
LEMMA PassFits ==
  ASSUME NEW st, RoundFits(st), NEW d \in Dim, NEW lines
  PROVE  RoundFits(MergePass(st, d, lines)) /\ MergePass(st, d, lines).bs = st.bs
<1> DEFINE m == MergePass(st, d, lines)
<1>0. PICK live, long : PassShape(m, st, d, lines, live, long)
  BY PassAdds
<1> HIDE DEF m
<1>1. /\ live = PassLive(st, d, lines) /\ long = LongStarts(st, d, live)
      /\ m = [bs   |-> st.bs,
              gone |-> st.gone \cup UNION {Run(st.bs, d, live, s) : s \in long},
              new  |-> st.new \o InIdOrder({Merged(st.bs, d, live, s) : s \in long})]
  BY <1>0 DEF PassShape
<1>2. PICK bs : bs = st.bs
  OBVIOUS
<1>3. /\ BoxesGood(bs) /\ st.gone \subseteq DOMAIN bs /\ live \subseteq DOMAIN bs \ st.gone
      /\ BoxesGood(st.new) /\ StandFor(Range(st.new), GoneBoxes(st))
  BY <1>1, <1>2 DEF RoundFits, PassLive
<1>4. LineSetting(bs, d, live)
  BY <1>3 DEF LineSetting
<1>5. long \in SUBSET Starts(bs, d, live)
  BY <1>1, <1>2 DEF LongStarts
<1>6. PICK U : U = UNION {Run(bs, d, live, s) : s \in long}
  OBVIOUS
<1>7. PICK B : B = {Merged(bs, d, live, s) : s \in long}
  OBVIOUS
<1>8. PICK A : A = {bs[i] : i \in U}
  OBVIOUS
<1>9. /\ A \subseteq BoxRecords /\ B \subseteq BoxRecords /\ IsFiniteSet(B) /\ OneEach(B)
      /\ StandFor(B, A)
  <2>1. A = RunBoxes(bs, d, live, long) /\ B = MergedBoxes(bs, d, live, long)
    BY <1>6, <1>7, <1>8 DEF RunBoxes, MergedBoxes
  <2> QED
    BY <1>4, <1>5, <2>1, RunsStand
<1>10. U \subseteq live
  <2>1. \A s \in long : Run(bs, d, live, s) \subseteq live
    BY DEF Run
  <2> QED
    BY <1>6, <2>1
<1>11. PICK L : L = InIdOrder(B)
  OBVIOUS
<1>12. m.bs = bs /\ m.gone = st.gone \cup U /\ m.new = st.new \o L /\ IsRound(m)
  BY <1>1, <1>2, <1>6, <1>7, <1>11 DEF IsRound
<1>13. IsSeq(L) /\ Range(L) = B /\ Distinct(L)
  <2>1. (\A b \in B : b.id \in Int) /\ \A b, c \in B : b.id = c.id => b = c
    BY <1>9 DEF BoxRecords, OneEach
  <2> QED
    BY <1>9, <1>11, <2>1, InIdOrderFacts
<1>14. \A a \in GoneBoxes(st), b \in A : a.id # b.id
  <2> SUFFICES ASSUME NEW a \in GoneBoxes(st), NEW b \in A, a.id = b.id PROVE FALSE
    OBVIOUS
  <2>1. PICK i \in st.gone : a = bs[i]
    BY <1>2 DEF GoneBoxes
  <2>2. PICK j \in U : b = bs[j]
    BY <1>8
  <2>3. i = j
    BY <1>3, <1>10, <2>1, <2>2 DEF BoxesGood, Distinct
  <2> QED
    BY <1>3, <1>10, <2>1, <2>2, <2>3
<1>15. \A b \in Range(st.new), c \in B : b.id # c.id
  <2> SUFFICES ASSUME NEW b \in Range(st.new), NEW c \in B, b.id = c.id PROVE FALSE
    OBVIOUS
  <2>1. PICK a \in GoneBoxes(st) : a.id = b.id
    BY <1>3 DEF StandFor
  <2>2. PICK e \in A : e.id = c.id
    BY <1>9 DEF StandFor
  <2> QED
    BY <1>14, <2>1, <2>2
<1>16. BoxesGood(m.new) /\ Range(m.new) = Range(st.new) \cup B
  <2>1. IsSeq(st.new) /\ Distinct(st.new) /\ Range(st.new) \subseteq BoxRecords
    BY <1>3 DEF BoxesGood
  <2>2. IsSeq(st.new \o L) /\ Range(st.new \o L) = Range(st.new) \cup Range(L)
    BY <1>13, <2>1, SeqConcat
  <2>3. Distinct(st.new \o L)
    BY <1>13, <1>15, <2>1, DistinctConcat
  <2> QED
    BY <1>9, <1>12, <1>13, <2>1, <2>2, <2>3 DEF BoxesGood
<1>17. GoneBoxes(m) = GoneBoxes(st) \cup A
  BY <1>2, <1>8, <1>12 DEF GoneBoxes
<1>18. StandFor(Range(m.new), GoneBoxes(m))
  BY <1>3, <1>9, <1>14, <1>16, <1>17, StandForBoth
<1>19. m.gone \subseteq DOMAIN m.bs
  BY <1>3, <1>10, <1>12
<1> QED
  BY <1>2, <1>3, <1>12, <1>16, <1>18, <1>19 DEF RoundFits, m

\* A round that starts has released nothing.
LEMMA RoundStarts ==
  ASSUME NEW bs, BoxesGood(bs)
  PROVE  RoundFits([bs |-> bs, gone |-> {}, new |-> <<>>])
<1> DEFINE st == [bs |-> bs, gone |-> {}, new |-> <<>>]
<1>1. IsRound(st) /\ st.bs = bs /\ st.gone = {} /\ st.new = <<>>
  BY DEF IsRound
<1> HIDE DEF st
<1>2. IsSeq(<<>>) /\ Range(<<>>) = {}
  BY SeqEmpty
<1>3. Distinct(<<>>)
  BY DEF Distinct
<1>4. GoneBoxes(st) = {}
  BY <1>1 DEF GoneBoxes
<1>5. StandFor({}, {})
  BY DEF StandFor
<1>6. RoundFits(st)
  BY <1>1, <1>2, <1>3, <1>4, <1>5 DEF RoundFits, BoxesGood
<1> QED
  BY <1>6 DEF st

\* The boxes at the end of a round stand for those at its beginning.
LEMMA RoundEnds ==
  ASSUME NEW st, RoundFits(st)
  PROVE  /\ RoundFits(EndRound(st)) /\ BoxesGood(EndRound(st).bs)
         /\ StandFor(Range(EndRound(st).bs), Range(st.bs))
<1>1. PICK bs : bs = st.bs
  OBVIOUS
<1>2. PICK gone : gone = st.gone
  OBVIOUS
<1>3. PICK W : W = Without(bs, gone)
  OBVIOUS
<1>4. /\ BoxesGood(bs) /\ gone \in SUBSET DOMAIN bs
      /\ BoxesGood(st.new) /\ StandFor(Range(st.new), GoneBoxes(st))
  BY <1>1, <1>2 DEF RoundFits
<1>5. EndRound(st) = [bs |-> W \o st.new, gone |-> {}, new |-> <<>>]
  BY <1>1, <1>2, <1>3 DEF EndRound
<1>6. BoxesGood(W) /\ Range(W) = {bs[j] : j \in DOMAIN bs \ gone}
  <2>1. IsSeq(W) /\ \E f : Renumbers(f, W, bs, DOMAIN bs \ gone)
    BY <1>3, <1>4, WithoutMap DEF BoxesGood
  <2> QED
    BY <1>4, <2>1, KeptGood
<1>7. GoneBoxes(st) = {bs[j] : j \in gone}
  BY <1>1, <1>2 DEF GoneBoxes
<1>8. \A a \in Range(W), b \in GoneBoxes(st) : a.id # b.id
  <2> SUFFICES ASSUME NEW a \in Range(W), NEW b \in GoneBoxes(st), a.id = b.id PROVE FALSE
    OBVIOUS
  <2>1. PICK i \in DOMAIN bs \ gone : a = bs[i]
    BY <1>6
  <2>2. PICK j \in gone : b = bs[j]
    BY <1>7
  <2>3. i = j
    BY <1>4, <2>1, <2>2 DEF BoxesGood, Distinct
  <2> QED
    BY <2>1, <2>3
<1>9. Range(W) \cup GoneBoxes(st) = Range(bs)
  BY <1>4, <1>6, <1>7 DEF Range
<1>10. \A a \in Range(W), b \in Range(st.new) : a.id # b.id
  <2> SUFFICES ASSUME NEW a \in Range(W), NEW b \in Range(st.new), a.id = b.id PROVE FALSE
    OBVIOUS
  <2>1. PICK c \in GoneBoxes(st) : c.id = b.id
    BY <1>4 DEF StandFor
  <2> QED
    BY <1>8, <2>1
<1>11. BoxesGood(W \o st.new) /\ Range(W \o st.new) = Range(W) \cup Range(st.new)
  <2>1. /\ IsSeq(W) /\ Distinct(W) /\ Range(W) \subseteq BoxRecords
        /\ IsSeq(st.new) /\ Distinct(st.new) /\ Range(st.new) \subseteq BoxRecords
    BY <1>4, <1>6 DEF BoxesGood
  <2>2. IsSeq(W \o st.new) /\ Range(W \o st.new) = Range(W) \cup Range(st.new)
    BY <2>1, SeqConcat
  <2>3. Distinct(W \o st.new)
    BY <1>10, <2>1, DistinctConcat
  <2> QED
    BY <2>1, <2>2, <2>3 DEF BoxesGood
<1>12. StandFor(Range(W), Range(W))
  BY <1>6, GoodOneEach, StandForItself DEF BoxesGood
<1>13. StandFor(Range(W \o st.new), Range(bs))
  BY <1>4, <1>8, <1>9, <1>11, <1>12, StandForBoth
<1>14. RoundFits([bs |-> W \o st.new, gone |-> {}, new |-> <<>>])
  BY <1>11, RoundStarts
<1>15. EndRound(st).bs = W \o st.new
  BY <1>5
<1> QED
  BY <1>1, <1>5, <1>11, <1>13, <1>14, <1>15

AfterPass(x, k) ==
  LET d == 1 + ((k - 1) % Dims)
      st == MergePass(x, d, Lines(x.bs, d))
  IN  IF k % Dims = 0 THEN EndRound(st) ELSE st
MergeSteps(u, bs, n) == u[0] = [bs |-> bs, gone |-> {}, new |-> <<>>] /\ \A k \in 1..n : u[k] = AfterPass(u[k - 1], k)

\* Rounds of passes, one pass at a time.
LEMMA MergedUpToUnfolds ==
  ASSUME NEW bs, NEW passes \in Nat
  PROVE  \E u : MergeSteps(u, bs, passes) /\ MergedUpTo(bs, passes) = u[passes]
<1> DEFINE n == passes
           Op(x, k) == AfterPass(x, k)
           P(m, f) == f = [k \in 0..m |-> IF k = 0 THEN [bs |-> bs, gone |-> {}, new |-> <<>>] ELSE Op(f[k - 1], k)]
           T == {m \in 0..n : \E f : P(m, f)}
           u == CHOOSE f : P(n, f)
<1>1. n \in Nat
  OBVIOUS
<1>2. MergedUpTo(bs, passes) = u[n]
  BY Zenon DEF MergedUpTo, AfterPass
<1> HIDE DEF n, Op
<1>3. 0 \in T
  <2> DEFINE f == [k \in 0..0 |-> [bs |-> bs, gone |-> {}, new |-> <<>>]]
  <2>1. f = [k \in 0..0 |-> IF k = 0 THEN [bs |-> bs, gone |-> {}, new |-> <<>>] ELSE Op(f[k - 1], k)]
    OBVIOUS
  <2>2. P(0, f) /\ 0 \in 0..n
    BY <1>1, <2>1
  <2> HIDE DEF P, f
  <2> QED
    BY <2>2
<1>4. \A m \in 1..n : m - 1 \in T => m \in T
  <2> SUFFICES ASSUME NEW m \in 1..n, m - 1 \in T PROVE m \in T
    OBVIOUS
  <2>1. PICK f : f = [k \in 0..(m - 1) |-> IF k = 0 THEN [bs |-> bs, gone |-> {}, new |-> <<>>] ELSE Op(f[k - 1], k)]
    OBVIOUS
  <2> DEFINE h == [k \in 0..m |-> IF k = m THEN Op(f[m - 1], m) ELSE f[k]]
  <2>2. \A k \in 0..m : h[k] = IF k = 0 THEN [bs |-> bs, gone |-> {}, new |-> <<>>] ELSE Op(h[k - 1], k)
    <3> TAKE k \in 0..m
    <3>1. k \in 0..(m - 1) \/ k = m
      OBVIOUS
    <3>2. CASE k = m
      <4>1. m - 1 \in 0..m /\ m - 1 # m /\ m # 0
        OBVIOUS
      <4>2. h[m - 1] = f[m - 1]
        BY <4>1
      <4> QED
        BY <3>2, <4>1, <4>2
    <3>3. CASE k \in 0..(m - 1) /\ k # 0
      <4>1. k # m /\ k - 1 \in 0..m /\ k - 1 # m
        BY <3>3
      <4>2. h[k] = f[k] /\ h[k - 1] = f[k - 1]
        BY <4>1
      <4>3. f[k] = Op(f[k - 1], k)
        BY <2>1, <3>3
      <4> QED
        BY <3>3, <4>2, <4>3
    <3>4. CASE k = 0
      <4>1. 0 # m /\ 0 \in 0..(m - 1)
        OBVIOUS
      <4>2. h[0] = f[0] /\ f[0] = [bs |-> bs, gone |-> {}, new |-> <<>>]
        BY <2>1, <4>1
      <4> QED
        BY <3>4, <4>2
    <3> QED
      BY <3>1, <3>2, <3>3, <3>4
  <2>3. h = [k \in 0..m |-> IF k = 0 THEN [bs |-> bs, gone |-> {}, new |-> <<>>] ELSE Op(h[k - 1], k)]
    <3>1. h = [k \in 0..m |-> h[k]]
      OBVIOUS
    <3> HIDE DEF h
    <3> QED
      BY <2>2, <3>1
  <2>4. P(m, h)
    BY <2>3
  <2>5. m \in 0..n
    BY <1>1
  <2> HIDE DEF P, h
  <2> QED
    BY <2>4, <2>5
<1>5. n \in T
  <2> HIDE DEF T
  <2>1. \A m \in 0..n : m \in T
    BY <1>1, <1>3, <1>4, UpTo
  <2> QED
    BY <1>1, <2>1
<1>6. P(n, u)
  <2> HIDE DEF P
  <2>1. \E f : P(n, f)
    BY <1>5
  <2> QED
    BY <2>1
<1> HIDE DEF u
<1>7. \A k \in 0..n : u[k] = IF k = 0 THEN [bs |-> bs, gone |-> {}, new |-> <<>>] ELSE Op(u[k - 1], k)
  BY <1>6
<1> HIDE DEF P
<1>8. u[0] = [bs |-> bs, gone |-> {}, new |-> <<>>]
  BY <1>1, <1>7
<1>9. \A k \in 1..n : u[k] = Op(u[k - 1], k)
  BY <1>1, <1>7
<1>10. \A k \in 1..n : u[k] = AfterPass(u[k - 1], k)
  BY Zenon, <1>9 DEF Op
<1> QED
  <2>1. MergeSteps(u, bs, passes)
    BY <1>8, <1>10 DEF n, MergeSteps
  <2> QED
    BY <1>2, <2>1 DEF n

\* The round in hand fits after any number of passes, and its boxes stand for
\* those the merge began with.
LEMMA MergedUpToFits ==
  ASSUME NEW bs, BoxesGood(bs), NEW passes \in Nat
  PROVE  /\ RoundFits(MergedUpTo(bs, passes)) /\ BoxesGood(MergedUpTo(bs, passes).bs)
         /\ StandFor(Range(MergedUpTo(bs, passes).bs), Range(bs))
<1> DEFINE Fits(st) == RoundFits(st) /\ BoxesGood(st.bs) /\ StandFor(Range(st.bs), Range(bs))
<1>1. PICK u : MergeSteps(u, bs, passes) /\ MergedUpTo(bs, passes) = u[passes]
  BY MergedUpToUnfolds
<1> DEFINE T == {k \in 0..passes : Fits(u[k])}
<1>2. 0 \in T
  <2>1. PICK st : st = [bs |-> bs, gone |-> {}, new |-> <<>>]
    OBVIOUS
  <2>2. StandFor(Range(bs), Range(bs))
    BY GoodOneEach, StandForItself DEF BoxesGood
  <2>3. RoundFits(st) /\ st.bs = bs
    BY <2>1, RoundStarts
  <2>4. Fits(st) /\ u[0] = st
    BY <1>1, <2>1, <2>2, <2>3 DEF MergeSteps
  <2> HIDE DEF Fits
  <2> QED
    BY <2>4
<1>3. \A k \in 1..passes : k - 1 \in T => k \in T
  <2> SUFFICES ASSUME NEW k \in 1..passes, k - 1 \in T PROVE k \in T
    OBVIOUS
  <2>1. PICK x : x = u[k - 1]
    OBVIOUS
  <2>2. PICK d : d = 1 + ((k - 1) % Dims)
    OBVIOUS
  <2>3. d \in Dim
    <3>1. Dims \in Nat \ {0} /\ k - 1 \in Nat
      BY RegionAssumption
    <3>2. (k - 1) % Dims \in 0..(Dims - 1)
      BY <3>1
    <3> QED
      BY <2>2, <3>1, <3>2 DEF Dim
  <2>4. PICK st : st = MergePass(x, d, Lines(x.bs, d))
    OBVIOUS
  <2>5. u[k] = IF k % Dims = 0 THEN EndRound(st) ELSE st
    BY <1>1, <2>1, <2>2, <2>4 DEF MergeSteps, AfterPass
  <2>6. RoundFits(x) /\ BoxesGood(x.bs) /\ StandFor(Range(x.bs), Range(bs))
    BY <2>1
  <2>7. RoundFits(st) /\ st.bs = x.bs
    BY <2>3, <2>4, <2>6, PassFits
  <2>8. Fits(st)
    BY <2>6, <2>7
  <2>9. Fits(EndRound(st))
    <3>1. /\ RoundFits(EndRound(st)) /\ BoxesGood(EndRound(st).bs)
          /\ StandFor(Range(EndRound(st).bs), Range(st.bs))
      BY <2>7, RoundEnds
    <3>2. StandFor(Range(EndRound(st).bs), Range(bs))
      BY <2>6, <2>7, <3>1, StandForChain DEF BoxesGood
    <3> QED
      BY <3>1, <3>2
  <2>10. k \in 0..passes
    OBVIOUS
  <2> HIDE DEF Fits
  <2> QED
    BY <2>5, <2>8, <2>9, <2>10
<1>4. passes \in T
  <2> HIDE DEF T
  <2>1. \A k \in 0..passes : k \in T
    BY <1>2, <1>3, UpTo
  <2> QED
    BY <2>1
<1> QED
  BY <1>1, <1>4

\* Whatever a merge returns, with or without the containment pass and wherever
\* its deadline falls, stands for the boxes it was given.
LEMMA OutcomesStand ==
  ASSUME NEW bs, BoxesGood(bs), NEW prune \in BOOLEAN, NEW out \in MergeOutcomes(bs, prune)
  PROVE  BoxesGood(out) /\ StandFor(Range(out), Range(bs))
<1>1. ASSUME NEW cs, BoxesGood(cs), NEW o \in LineMergeOutcomes(cs)
      PROVE  BoxesGood(o) /\ StandFor(Range(o), Range(cs))
  <2>1. PICK k \in 0..(MaxRounds * Dims - 1) :
          o \in LET st == MergedUpTo(cs, k)  d == 1 + (k % Dims)
                IN  {EndRound(MergePass(st, d, lines)).bs : lines \in SUBSET Lines(st.bs, d)}
    BY <1>1 DEF LineMergeOutcomes
  <2>2. PICK st : st = MergedUpTo(cs, k)
    OBVIOUS
  <2>3. PICK d : d = 1 + (k % Dims)
    OBVIOUS
  <2>4. PICK lines \in SUBSET Lines(st.bs, d) : o = EndRound(MergePass(st, d, lines)).bs
    BY <2>1, <2>2, <2>3
  <2>5. k \in Nat /\ d \in Dim
    <3>1. Dims \in Nat \ {0} /\ MaxRounds \in Nat
      BY RegionAssumption, ThresholdAssumption
    <3>2. MaxRounds * Dims \in Nat
      BY <3>1
    <3>3. k \in Nat
      BY <3>2
    <3>4. k % Dims \in 0..(Dims - 1)
      BY <3>1, <3>3
    <3> QED
      BY <2>3, <3>1, <3>3, <3>4 DEF Dim
  <2>6. RoundFits(st) /\ BoxesGood(st.bs) /\ StandFor(Range(st.bs), Range(cs))
    BY <1>1, <2>2, <2>5, MergedUpToFits
  <2>7. PICK m : m = MergePass(st, d, lines)
    OBVIOUS
  <2>8. RoundFits(m) /\ m.bs = st.bs
    BY <2>5, <2>6, <2>7, PassFits
  <2>9. BoxesGood(o) /\ StandFor(Range(o), Range(m.bs))
    BY <2>4, <2>7, <2>8, RoundEnds
  <2> QED
    BY <1>1, <2>6, <2>8, <2>9, StandForChain DEF BoxesGood
<1>2. Len(bs) \in Nat
  BY SeqShape DEF BoxesGood
<1>3. CASE out \in LineMergeOutcomes(bs)
  BY <1>1, <1>3
<1>4. CASE \E k \in 0..Len(bs) - 1 : out = PrunedBoxes(bs, k)
  <2>1. PICK k \in 0..Len(bs) - 1 : out = PrunedBoxes(bs, k)
    BY <1>4
  <2>2. k \in 0..Len(bs)
    BY <1>2
  <2> QED
    BY <2>1, <2>2, PrunedStands
<1>5. CASE out \in LineMergeOutcomes(PrunedBoxes(bs, Len(bs)))
  <2>1. PICK cs : cs = PrunedBoxes(bs, Len(bs))
    OBVIOUS
  <2>2. BoxesGood(cs) /\ StandFor(Range(cs), Range(bs))
    <3>1. Len(bs) \in 0..Len(bs)
      BY <1>2
    <3> QED
      BY <2>1, <3>1, PrunedStands
  <2>3. BoxesGood(out) /\ StandFor(Range(out), Range(cs))
    BY <1>1, <1>5, <2>1, <2>2
  <2> QED
    BY <2>2, <2>3, StandForChain DEF BoxesGood
<1> QED
  BY <1>3, <1>4, <1>5 DEF MergeOutcomes

-----------------------------------------------------------------------------
(* The partition: what each operation does to cells and overlay edges.     *)

IsGrid(g) ==
  g = [cells |-> g.cells, nbrs |-> g.nbrs, island |-> g.island, islands |-> g.islands,
       largest |-> g.largest, overlay |-> g.overlay, classes |-> g.classes]

\* h differs from g at most in what is derived from cells and overlay edges.
SameShown(h, g) == IsGrid(h) /\ h.cells = g.cells /\ h.overlay = g.overlay

\* Setting one of the derived fields.
LEMMA SetDerived ==
  ASSUME NEW g, IsGrid(g), NEW x
  PROVE  /\ SameShown([g EXCEPT !.classes = x], g)
         /\ SameShown([g EXCEPT !.nbrs = x], g)
         /\ SameShown([g EXCEPT !.island = x], g)
         /\ SameShown([g EXCEPT !.islands = x], g)
         /\ SameShown([g EXCEPT !.largest = x], g)
BY DEF IsGrid, SameShown

\* The same holds one after the other.
LEMMA SameShownChain ==
  ASSUME NEW f, NEW g, NEW h, SameShown(g, f), SameShown(h, g)
  PROVE  SameShown(h, f)
BY DEF SameShown

\* Setting the labels of the islands and their counters.
LEMMA SetIslands ==
  ASSUME NEW g, IsGrid(g), NEW x, NEW y, NEW z, NEW h,
         \/ h = [g EXCEPT !.island = x, !.islands = y, !.largest = z]
         \/ h = [g EXCEPT !.island = x, !.largest = z, !.islands = y]
  PROVE  SameShown(h, g)
<1>1. PICK a : a = [g EXCEPT !.island = x]
  OBVIOUS
<1>2. SameShown(a, g) /\ IsGrid(a)
  BY <1>1, SetDerived DEF SameShown
<1>3. PICK b : b = [a EXCEPT !.islands = y]
  OBVIOUS
<1>4. PICK c : c = [a EXCEPT !.largest = z]
  OBVIOUS
<1>5. SameShown(b, a) /\ SameShown(c, a) /\ IsGrid(b) /\ IsGrid(c)
  BY <1>2, <1>3, <1>4, SetDerived DEF SameShown
<1>6. SameShown([b EXCEPT !.largest = z], b) /\ SameShown([c EXCEPT !.islands = y], c)
  BY <1>5, SetDerived
<1>7. SameShown([b EXCEPT !.largest = z], g) /\ SameShown([c EXCEPT !.islands = y], g)
  BY <1>2, <1>5, <1>6, SameShownChain
<1> QED
  BY <1>1, <1>3, <1>4, <1>7

\* The derived fields are rebuilt from cells and overlay edges, which stay.
LEMMA DerivedOnly ==
  ASSUME NEW g, IsGrid(g)
  PROVE  /\ SameShown(ResetOverlayComponents(g), g) /\ SameShown(EnsureOverlayParentSize(g), g)
         /\ SameShown(RebuildNeighborCache(g), g) /\ SameShown(RebuildIslands(g), g)
         /\ \A c, found : SameShown(UpdateIslands(g, c, found), g)
<1>1. SameShown(ResetOverlayComponents(g), g)
  BY SetDerived DEF ResetOverlayComponents
<1>2. SameShown(EnsureOverlayParentSize(g), g)
  BY <1>1, SetDerived DEF EnsureOverlayParentSize
<1>3. SameShown(RebuildNeighborCache(g), g)
  BY SetDerived DEF RebuildNeighborCache
<1>4. SameShown(RebuildIslands(g), g)
  <2> DEFINE parts == Components(Len(g.cells), g.nbrs)
             index(P) == Cardinality({Q \in parts : Min(Q) < Min(P)})
             x == [c \in Cells(g) |-> index(CHOOSE P \in parts : c \in P)]
             y == Cardinality(parts)
             z == Max({0} \cup {Cardinality(P) : P \in parts})
  <2>1. RebuildIslands(g) = [g EXCEPT !.island = x, !.islands = y, !.largest = z]
    BY DEF RebuildIslands
  <2> HIDE DEF x, y, z
  <2> QED
    BY <2>1, SetIslands
<1>5. ASSUME NEW c, NEW found PROVE SameShown(UpdateIslands(g, c, found), g)
  <2> DEFINE old == {g.island[e] : e \in found}
             label == IF old = {} THEN Max({0} \cup {l + 1 : l \in Range(g.island)}) ELSE Min(old)
             x == [e \in DOMAIN g.island |-> IF g.island[e] \in old THEN label ELSE g.island[e]] \o <<label>>
             y == g.islands + (IF old = {} THEN 1 ELSE 1 - Cardinality(old))
             z == LargestOf(x)
  <2>1. UpdateIslands(g, c, found) = [g EXCEPT !.island = x, !.largest = z, !.islands = y]
    BY DEF UpdateIslands
  <2> HIDE DEF x, y, z
  <2> QED
    BY <2>1, SetIslands
<1> QED
  BY <1>1, <1>2, <1>3, <1>4, <1>5

\* RebuildIndices changes nothing that is shown.
LEMMA RebuildIndicesShown ==
  ASSUME NEW g, IsGrid(g)
  PROVE  SameShown(RebuildIndices(g), g)
<1>1. PICK a : a = RebuildNeighborCache(g)
  OBVIOUS
<1>2. PICK b : b = RebuildIslands(a)
  OBVIOUS
<1>3. SameShown(a, g)
  BY <1>1, DerivedOnly
<1>4. SameShown(b, a)
  BY <1>2, <1>3, DerivedOnly DEF SameShown
<1>5. SameShown(ResetOverlayComponents(b), b)
  BY <1>4, DerivedOnly DEF SameShown
<1>6. RebuildIndices(g) = ResetOverlayComponents(b)
  BY <1>1, <1>2 DEF RebuildIndices
<1> QED
  BY <1>3, <1>4, <1>5, <1>6, SameShownChain

\* Nor does the incremental update for an appended cell.
LEMMA AppendCellShown ==
  ASSUME NEW g, IsGrid(g), NEW c
  PROVE  SameShown(AppendCellToIndices(g, c), g)
<1> DEFINE found == {e \in Cells(g) \ {c} : Adjacent(RegionOf(g, c), RegionOf(g, e))}
           linked == [g EXCEPT !.nbrs = @ \cup (found \X {c}) \cup ({c} \X found)]
           updated == UpdateIslands(linked, c, found)
           sized == EnsureOverlayParentSize(updated)
           united == [sized EXCEPT !.classes = Unite(@, {c} \cup found)]
<1>1. AppendCellToIndices(g, c) = IF sized.classes = {} THEN sized ELSE united
  BY DEF AppendCellToIndices
<1>2. SameShown(linked, g)
  BY SetDerived
<1> HIDE DEF linked, found
<1>3. SameShown(updated, linked)
  BY <1>2, DerivedOnly DEF SameShown
<1> HIDE DEF updated
<1>4. SameShown(sized, updated)
  BY <1>3, DerivedOnly DEF SameShown
<1> HIDE DEF sized
<1>5. SameShown(united, sized)
  BY <1>4, SetDerived DEF SameShown
<1> HIDE DEF united
<1>6. SameShown(sized, g)
  BY <1>2, <1>3, <1>4, SameShownChain
<1> QED
  BY <1>1, <1>5, <1>6, SameShownChain

\* g with other cells.
WithCells(h, g, cs) == IsGrid(h) /\ h.cells = cs /\ h.overlay = g.overlay

\* A box that has no cell gets one behind the others.
LEMMA AddCellFresh ==
  ASSUME NEW g, IsGrid(g), NEW b, ~HasCell(g, b.id)
  PROVE  /\ WithCells(AddCell(g, b), g, Append(g.cells, b))
         /\ WithCells(AppendBox(g, b), g, Append(g.cells, b))
<1>1. AddCell(g, b) = [g EXCEPT !.cells = Append(g.cells, b)]
  BY DEF AddCell
<1>2. WithCells(AddCell(g, b), g, Append(g.cells, b))
  BY <1>1 DEF WithCells, IsGrid
<1>3. AppendBox(g, b) = AppendCellToIndices(AddCell(g, b), Len(g.cells) + 1)
  BY DEF AppendBox
<1>4. SameShown(AppendBox(g, b), AddCell(g, b))
  BY <1>2, <1>3, AppendCellShown DEF WithCells
<1> QED
  BY <1>2, <1>4 DEF WithCells, SameShown

AddCellSteps(u, g, bs, n) == u[0] = g /\ \A k \in 1..n : u[k] = AddCell(u[k - 1], bs[k])

\* AddCells, one box at a time.
LEMMA AddCellsUnfolds ==
  ASSUME NEW g, NEW bs, IsSeq(bs)
  PROVE  \E u : AddCellSteps(u, g, bs, Len(bs)) /\ AddCells(g, bs) = u[Len(bs)]
<1> DEFINE n == Len(bs)
           Op(x, k) == AddCell(x, bs[k])
           P(m, f) == f = [k \in 0..m |-> IF k = 0 THEN g ELSE Op(f[k - 1], k)]
           T == {m \in 0..n : \E f : P(m, f)}
           u == CHOOSE f : P(n, f)
<1>1. n \in Nat
  BY SeqShape
<1>2. AddCells(g, bs) = u[n]
  BY Zenon DEF AddCells
<1> HIDE DEF n, Op
<1>3. 0 \in T
  <2> DEFINE f == [k \in 0..0 |-> g]
  <2>1. f = [k \in 0..0 |-> IF k = 0 THEN g ELSE Op(f[k - 1], k)]
    OBVIOUS
  <2>2. P(0, f) /\ 0 \in 0..n
    BY <1>1, <2>1
  <2> HIDE DEF P, f
  <2> QED
    BY <2>2
<1>4. \A m \in 1..n : m - 1 \in T => m \in T
  <2> SUFFICES ASSUME NEW m \in 1..n, m - 1 \in T PROVE m \in T
    OBVIOUS
  <2>1. PICK f : f = [k \in 0..(m - 1) |-> IF k = 0 THEN g ELSE Op(f[k - 1], k)]
    OBVIOUS
  <2> DEFINE h == [k \in 0..m |-> IF k = m THEN Op(f[m - 1], m) ELSE f[k]]
  <2>2. \A k \in 0..m : h[k] = IF k = 0 THEN g ELSE Op(h[k - 1], k)
    <3> TAKE k \in 0..m
    <3>1. k \in 0..(m - 1) \/ k = m
      OBVIOUS
    <3>2. CASE k = m
      <4>1. m - 1 \in 0..m /\ m - 1 # m /\ m # 0
        OBVIOUS
      <4>2. h[m - 1] = f[m - 1]
        BY <4>1
      <4> QED
        BY <3>2, <4>1, <4>2
    <3>3. CASE k \in 0..(m - 1) /\ k # 0
      <4>1. k # m /\ k - 1 \in 0..m /\ k - 1 # m
        BY <3>3
      <4>2. h[k] = f[k] /\ h[k - 1] = f[k - 1]
        BY <4>1
      <4>3. f[k] = Op(f[k - 1], k)
        BY <2>1, <3>3
      <4> QED
        BY <3>3, <4>2, <4>3
    <3>4. CASE k = 0
      <4>1. 0 # m /\ 0 \in 0..(m - 1)
        OBVIOUS
      <4>2. h[0] = f[0] /\ f[0] = g
        BY <2>1, <4>1
      <4> QED
        BY <3>4, <4>2
    <3> QED
      BY <3>1, <3>2, <3>3, <3>4
  <2>3. h = [k \in 0..m |-> IF k = 0 THEN g ELSE Op(h[k - 1], k)]
    <3>1. h = [k \in 0..m |-> h[k]]
      OBVIOUS
    <3> HIDE DEF h
    <3> QED
      BY <2>2, <3>1
  <2>4. P(m, h)
    BY <2>3
  <2>5. m \in 0..n
    BY <1>1
  <2> HIDE DEF P, h
  <2> QED
    BY <2>4, <2>5
<1>5. n \in T
  <2> HIDE DEF T
  <2>1. \A m \in 0..n : m \in T
    BY <1>1, <1>3, <1>4, UpTo
  <2> QED
    BY <1>1, <2>1
<1>6. P(n, u)
  <2> HIDE DEF P
  <2>1. \E f : P(n, f)
    BY <1>5
  <2> QED
    BY <2>1
<1> HIDE DEF u
<1>7. \A k \in 0..n : u[k] = IF k = 0 THEN g ELSE Op(u[k - 1], k)
  BY <1>6
<1> HIDE DEF P
<1>8. u[0] = g
  BY <1>1, <1>7
<1>9. \A k \in 1..n : u[k] = Op(u[k - 1], k)
  BY <1>1, <1>7
<1>10. \A k \in 1..n : u[k] = AddCell(u[k - 1], bs[k])
  BY Zenon, <1>9 DEF Op
<1> QED
  <2>1. AddCellSteps(u, g, bs, Len(bs))
    BY <1>8, <1>10 DEF n, AddCellSteps
  <2> QED
    BY <1>2, <2>1 DEF n

AppendBoxSteps(u, g, bs, n) == u[0] = g /\ \A k \in 1..n : u[k] = AppendBox(u[k - 1], bs[k])

\* AppendBoxes, one box at a time.
LEMMA AppendBoxesUnfolds ==
  ASSUME NEW g, NEW bs, IsSeq(bs)
  PROVE  \E u : AppendBoxSteps(u, g, bs, Len(bs)) /\ AppendBoxes(g, bs) = u[Len(bs)]
<1> DEFINE n == Len(bs)
           Op(x, k) == AppendBox(x, bs[k])
           P(m, f) == f = [k \in 0..m |-> IF k = 0 THEN g ELSE Op(f[k - 1], k)]
           T == {m \in 0..n : \E f : P(m, f)}
           u == CHOOSE f : P(n, f)
<1>1. n \in Nat
  BY SeqShape
<1>2. AppendBoxes(g, bs) = u[n]
  BY Zenon DEF AppendBoxes
<1> HIDE DEF n, Op
<1>3. 0 \in T
  <2> DEFINE f == [k \in 0..0 |-> g]
  <2>1. f = [k \in 0..0 |-> IF k = 0 THEN g ELSE Op(f[k - 1], k)]
    OBVIOUS
  <2>2. P(0, f) /\ 0 \in 0..n
    BY <1>1, <2>1
  <2> HIDE DEF P, f
  <2> QED
    BY <2>2
<1>4. \A m \in 1..n : m - 1 \in T => m \in T
  <2> SUFFICES ASSUME NEW m \in 1..n, m - 1 \in T PROVE m \in T
    OBVIOUS
  <2>1. PICK f : f = [k \in 0..(m - 1) |-> IF k = 0 THEN g ELSE Op(f[k - 1], k)]
    OBVIOUS
  <2> DEFINE h == [k \in 0..m |-> IF k = m THEN Op(f[m - 1], m) ELSE f[k]]
  <2>2. \A k \in 0..m : h[k] = IF k = 0 THEN g ELSE Op(h[k - 1], k)
    <3> TAKE k \in 0..m
    <3>1. k \in 0..(m - 1) \/ k = m
      OBVIOUS
    <3>2. CASE k = m
      <4>1. m - 1 \in 0..m /\ m - 1 # m /\ m # 0
        OBVIOUS
      <4>2. h[m - 1] = f[m - 1]
        BY <4>1
      <4> QED
        BY <3>2, <4>1, <4>2
    <3>3. CASE k \in 0..(m - 1) /\ k # 0
      <4>1. k # m /\ k - 1 \in 0..m /\ k - 1 # m
        BY <3>3
      <4>2. h[k] = f[k] /\ h[k - 1] = f[k - 1]
        BY <4>1
      <4>3. f[k] = Op(f[k - 1], k)
        BY <2>1, <3>3
      <4> QED
        BY <3>3, <4>2, <4>3
    <3>4. CASE k = 0
      <4>1. 0 # m /\ 0 \in 0..(m - 1)
        OBVIOUS
      <4>2. h[0] = f[0] /\ f[0] = g
        BY <2>1, <4>1
      <4> QED
        BY <3>4, <4>2
    <3> QED
      BY <3>1, <3>2, <3>3, <3>4
  <2>3. h = [k \in 0..m |-> IF k = 0 THEN g ELSE Op(h[k - 1], k)]
    <3>1. h = [k \in 0..m |-> h[k]]
      OBVIOUS
    <3> HIDE DEF h
    <3> QED
      BY <2>2, <3>1
  <2>4. P(m, h)
    BY <2>3
  <2>5. m \in 0..n
    BY <1>1
  <2> HIDE DEF P, h
  <2> QED
    BY <2>4, <2>5
<1>5. n \in T
  <2> HIDE DEF T
  <2>1. \A m \in 0..n : m \in T
    BY <1>1, <1>3, <1>4, UpTo
  <2> QED
    BY <1>1, <2>1
<1>6. P(n, u)
  <2> HIDE DEF P
  <2>1. \E f : P(n, f)
    BY <1>5
  <2> QED
    BY <2>1
<1> HIDE DEF u
<1>7. \A k \in 0..n : u[k] = IF k = 0 THEN g ELSE Op(u[k - 1], k)
  BY <1>6
<1> HIDE DEF P
<1>8. u[0] = g
  BY <1>1, <1>7
<1>9. \A k \in 1..n : u[k] = Op(u[k - 1], k)
  BY <1>1, <1>7
<1>10. \A k \in 1..n : u[k] = AppendBox(u[k - 1], bs[k])
  BY Zenon, <1>9 DEF Op
<1> QED
  <2>1. AppendBoxSteps(u, g, bs, Len(bs))
    BY <1>8, <1>10 DEF n, AppendBoxSteps
  <2> QED
    BY <1>2, <2>1 DEF n

SyncSteps(u, g, es, n) == u[0] = g /\ \A k \in 1..n : u[k] = AppendSegmentEdge(u[k - 1], es[k])

\* SyncSegmentEdges, one edge at a time.
LEMMA SyncUnfolds ==
  ASSUME NEW g, NEW es, IsSeq(es)
  PROVE  \E u : SyncSteps(u, g, es, Len(es)) /\ SyncSegmentEdges(g, es) = u[Len(es)]
<1> DEFINE n == Len(es)
           Op(x, k) == AppendSegmentEdge(x, es[k])
           P(m, f) == f = [k \in 0..m |-> IF k = 0 THEN g ELSE Op(f[k - 1], k)]
           T == {m \in 0..n : \E f : P(m, f)}
           u == CHOOSE f : P(n, f)
<1>1. n \in Nat
  BY SeqShape
<1>2. SyncSegmentEdges(g, es) = u[n]
  BY Zenon DEF SyncSegmentEdges
<1> HIDE DEF n, Op
<1>3. 0 \in T
  <2> DEFINE f == [k \in 0..0 |-> g]
  <2>1. f = [k \in 0..0 |-> IF k = 0 THEN g ELSE Op(f[k - 1], k)]
    OBVIOUS
  <2>2. P(0, f) /\ 0 \in 0..n
    BY <1>1, <2>1
  <2> HIDE DEF P, f
  <2> QED
    BY <2>2
<1>4. \A m \in 1..n : m - 1 \in T => m \in T
  <2> SUFFICES ASSUME NEW m \in 1..n, m - 1 \in T PROVE m \in T
    OBVIOUS
  <2>1. PICK f : f = [k \in 0..(m - 1) |-> IF k = 0 THEN g ELSE Op(f[k - 1], k)]
    OBVIOUS
  <2> DEFINE h == [k \in 0..m |-> IF k = m THEN Op(f[m - 1], m) ELSE f[k]]
  <2>2. \A k \in 0..m : h[k] = IF k = 0 THEN g ELSE Op(h[k - 1], k)
    <3> TAKE k \in 0..m
    <3>1. k \in 0..(m - 1) \/ k = m
      OBVIOUS
    <3>2. CASE k = m
      <4>1. m - 1 \in 0..m /\ m - 1 # m /\ m # 0
        OBVIOUS
      <4>2. h[m - 1] = f[m - 1]
        BY <4>1
      <4> QED
        BY <3>2, <4>1, <4>2
    <3>3. CASE k \in 0..(m - 1) /\ k # 0
      <4>1. k # m /\ k - 1 \in 0..m /\ k - 1 # m
        BY <3>3
      <4>2. h[k] = f[k] /\ h[k - 1] = f[k - 1]
        BY <4>1
      <4>3. f[k] = Op(f[k - 1], k)
        BY <2>1, <3>3
      <4> QED
        BY <3>3, <4>2, <4>3
    <3>4. CASE k = 0
      <4>1. 0 # m /\ 0 \in 0..(m - 1)
        OBVIOUS
      <4>2. h[0] = f[0] /\ f[0] = g
        BY <2>1, <4>1
      <4> QED
        BY <3>4, <4>2
    <3> QED
      BY <3>1, <3>2, <3>3, <3>4
  <2>3. h = [k \in 0..m |-> IF k = 0 THEN g ELSE Op(h[k - 1], k)]
    <3>1. h = [k \in 0..m |-> h[k]]
      OBVIOUS
    <3> HIDE DEF h
    <3> QED
      BY <2>2, <3>1
  <2>4. P(m, h)
    BY <2>3
  <2>5. m \in 0..n
    BY <1>1
  <2> HIDE DEF P, h
  <2> QED
    BY <2>4, <2>5
<1>5. n \in T
  <2> HIDE DEF T
  <2>1. \A m \in 0..n : m \in T
    BY <1>1, <1>3, <1>4, UpTo
  <2> QED
    BY <1>1, <2>1
<1>6. P(n, u)
  <2> HIDE DEF P
  <2>1. \E f : P(n, f)
    BY <1>5
  <2> QED
    BY <2>1
<1> HIDE DEF u
<1>7. \A k \in 0..n : u[k] = IF k = 0 THEN g ELSE Op(u[k - 1], k)
  BY <1>6
<1> HIDE DEF P
<1>8. u[0] = g
  BY <1>1, <1>7
<1>9. \A k \in 1..n : u[k] = Op(u[k - 1], k)
  BY <1>1, <1>7
<1>10. \A k \in 1..n : u[k] = AppendSegmentEdge(u[k - 1], es[k])
  BY Zenon, <1>9 DEF Op
<1> QED
  <2>1. SyncSteps(u, g, es, Len(es))
    BY <1>8, <1>10 DEF n, SyncSteps
  <2> QED
    BY <1>2, <2>1 DEF n

\* Sequences with the same elements are the same.
LEMMA SeqSame ==
  ASSUME NEW s, NEW t, IsSeq(s), IsSeq(t), Len(s) = Len(t), \A i \in 1..Len(s) : s[i] = t[i]
  PROVE  s = t
<1>1. DOMAIN s = 1..Len(s) /\ DOMAIN t = 1..Len(t)
  BY SeqShape
<1>2. s = [i \in 1..Len(s) |-> s[i]] /\ t = [i \in 1..Len(t) |-> t[i]]
  <2>1. PICK m \in Nat : s \in [1..m -> Range(s)]
    BY SeqDef DEF IsSeq
  <2>2. PICK n \in Nat : t \in [1..n -> Range(t)]
    BY SeqDef DEF IsSeq
  <2>3. s = [i \in DOMAIN s |-> s[i]] /\ t = [i \in DOMAIN t |-> t[i]]
    BY <2>1, <2>2
  <2> QED
    BY <1>1, <2>3
<1> QED
  BY <1>2

\* u holds the first n elements of w, and the step to n + 1.
LEMMA PrefixStep ==
  ASSUME NEW w, IsSeq(w), NEW n \in Nat, n + 1 <= Len(w)
  PROVE  /\ IsSeq(SubSeq(w, 1, n)) /\ SubSeq(w, 1, n + 1) = Append(SubSeq(w, 1, n), w[n + 1])
         /\ Len(SubSeq(w, 1, n)) = n /\ \A i \in 1..n : SubSeq(w, 1, n)[i] = w[i]
<1>1. Len(w) \in Nat
  BY SeqShape
<1>2. n \in 0..Len(w) /\ n + 1 \in 0..Len(w)
  BY <1>1
<1> DEFINE s == SubSeq(w, 1, n)
           t == SubSeq(w, 1, n + 1)
           a == Append(s, w[n + 1])
<1>3. IsSeq(s) /\ Len(s) = n /\ \A i \in 1..n : s[i] = w[i]
  BY <1>2, SeqPrefix
<1>4. IsSeq(t) /\ Len(t) = n + 1 /\ \A i \in 1..(n + 1) : t[i] = w[i]
  BY <1>2, SeqPrefix
<1> HIDE DEF s, t
<1>5. IsSeq(a) /\ Len(a) = n + 1 /\ (\A i \in 1..n : a[i] = s[i]) /\ a[n + 1] = w[n + 1]
  BY <1>3, SeqAppend
<1> HIDE DEF a
<1>6. \A i \in 1..(n + 1) : t[i] = a[i]
  <2> TAKE i \in 1..(n + 1)
  <2>1. i \in 1..n \/ i = n + 1
    OBVIOUS
  <2> QED
    BY <1>3, <1>4, <1>5, <2>1
<1>7. t = a
  BY <1>4, <1>5, <1>6, SeqSame
<1> QED
  BY <1>3, <1>7 DEF s, t, a

\* Boxes with new ids get cells behind the others, in their order.
LEMMA CellsAdded ==
  ASSUME NEW g, IsGrid(g), IsSeq(g.cells), NEW bs, IsSeq(bs), Distinct(g.cells \o bs)
  PROVE  /\ WithCells(AddCells(g, bs), g, g.cells \o bs)
         /\ WithCells(AppendBoxes(g, bs), g, g.cells \o bs)
<1>1. PICK w : w = g.cells \o bs
  OBVIOUS
<1>2. PICK n : n = Len(g.cells)
  OBVIOUS
<1>3. PICK m : m = Len(bs)
  OBVIOUS
<1>4. /\ IsSeq(w) /\ Len(w) = n + m /\ n \in Nat /\ m \in Nat /\ DOMAIN w = 1..(n + m)
      /\ \A i \in 1..n : w[i] = g.cells[i]
      /\ \A i \in 1..m : w[n + i] = bs[i]
  <2>1. /\ IsSeq(w) /\ Len(w) = n + m
        /\ \A i \in 1..n : w[i] = g.cells[i]
        /\ \A i \in 1..m : w[n + i] = bs[i]
    <3>1. PICK s : s = g.cells
      OBVIOUS
    <3>2. w = s \o bs /\ n = Len(s) /\ IsSeq(s)
      BY <1>1, <1>2, <3>1
    <3>3. /\ IsSeq(s \o bs) /\ Len(s \o bs) = Len(s) + Len(bs)
          /\ \A i \in 1..Len(s) : (s \o bs)[i] = s[i]
          /\ \A i \in 1..Len(bs) : (s \o bs)[Len(s) + i] = bs[i]
      BY <3>2, SeqConcat
    <3>4. /\ IsSeq(w) /\ Len(w) = n + m
          /\ \A i \in 1..n : w[i] = s[i]
          /\ \A i \in 1..m : w[n + i] = bs[i]
      BY <1>3, <3>2, <3>3, Zenon
    <3> QED
      BY <3>1, <3>4, Zenon
  <2>2. n \in Nat /\ m \in Nat /\ DOMAIN w = 1..(n + m)
    BY <1>2, <1>3, <2>1, SeqShape
  <2> QED
    BY <2>1, <2>2
<1> DEFINE At(h, k) == WithCells(h, g, SubSeq(w, 1, n + k))
<1>5. At(g, 0)
  <2>1. n \in 0..Len(w)
    BY <1>4
  <2>2. IsSeq(SubSeq(w, 1, n)) /\ Len(SubSeq(w, 1, n)) = n /\ \A i \in 1..n : SubSeq(w, 1, n)[i] = w[i]
    BY <1>4, <2>1, SeqPrefix
  <2>3. SubSeq(w, 1, n) = g.cells
    <3>1. PICK p : p = SubSeq(w, 1, n)
      OBVIOUS
    <3>2. IsSeq(p) /\ Len(p) = Len(g.cells) /\ \A i \in 1..Len(p) : p[i] = g.cells[i]
      BY <1>2, <1>4, <2>2, <3>1
    <3>3. p = g.cells
      BY <3>2, SeqSame
    <3> QED
      BY <3>1, <3>3
  <2>4. n + 0 = n
    BY <1>4
  <2> QED
    BY <2>3, <2>4 DEF WithCells
<1>6. ASSUME NEW k \in 1..m, NEW h, At(h, k - 1)
      PROVE  At(AddCell(h, bs[k]), k) /\ At(AppendBox(h, bs[k]), k)
  <2>1. PICK p : p = n + k - 1
    OBVIOUS
  <2>2. p \in Nat /\ p + 1 = n + k /\ p = n + (k - 1) /\ p + 1 <= Len(w)
    BY <1>4, <2>1
  <2>3. /\ IsSeq(SubSeq(w, 1, p)) /\ SubSeq(w, 1, p + 1) = Append(SubSeq(w, 1, p), w[p + 1])
        /\ Len(SubSeq(w, 1, p)) = p /\ \A i \in 1..p : SubSeq(w, 1, p)[i] = w[i]
    BY <1>4, <2>2, PrefixStep
  <2>4. IsGrid(h) /\ h.cells = SubSeq(w, 1, p) /\ h.overlay = g.overlay
    BY <1>6, <2>2 DEF WithCells
  <2>5. bs[k] = w[p + 1]
    BY <1>4, <2>2
  <2>6. ~HasCell(h, bs[k].id)
    <3> SUFFICES ASSUME NEW c \in DOMAIN h.cells, h.cells[c].id = bs[k].id PROVE FALSE
      BY DEF HasCell, Cells
    <3>1. c \in 1..p
      BY <2>3, <2>4, SeqShape
    <3>2. h.cells[c] = w[c] /\ c \in DOMAIN w /\ p + 1 \in DOMAIN w /\ c # p + 1
      BY <1>4, <2>2, <2>3, <2>4, <3>1
    <3> QED
      BY <1>1, <2>5, <3>2 DEF Distinct
  <2>7. Append(h.cells, bs[k]) = SubSeq(w, 1, n + k)
    BY <2>2, <2>3, <2>4, <2>5
  <2>8. /\ WithCells(AddCell(h, bs[k]), h, Append(h.cells, bs[k]))
        /\ WithCells(AppendBox(h, bs[k]), h, Append(h.cells, bs[k]))
    BY <2>4, <2>6, AddCellFresh
  <2> QED
    BY <2>4, <2>7, <2>8 DEF WithCells
<1>7. SubSeq(w, 1, n + m) = w
  <2>1. Len(w) \in 0..Len(w)
    BY <1>4
  <2>2. /\ IsSeq(SubSeq(w, 1, Len(w))) /\ Len(SubSeq(w, 1, Len(w))) = Len(w)
        /\ \A i \in 1..Len(w) : SubSeq(w, 1, Len(w))[i] = w[i]
    BY <1>4, <2>1, SeqPrefix
  <2> QED
    BY <1>4, <2>2, SeqSame
<1>8. ASSUME NEW h, At(h, m) PROVE WithCells(h, g, g.cells \o bs)
  BY <1>1, <1>7, <1>8
<1> HIDE DEF At
<1>9. PICK u : AddCellSteps(u, g, bs, Len(bs)) /\ AddCells(g, bs) = u[Len(bs)]
  BY AddCellsUnfolds
<1>10. PICK v : AppendBoxSteps(v, g, bs, Len(bs)) /\ AppendBoxes(g, bs) = v[Len(bs)]
  BY AppendBoxesUnfolds
<1> DEFINE T == {k \in 0..m : At(u[k], k) /\ At(v[k], k)}
<1>11. 0 \in T
  BY <1>4, <1>5, <1>9, <1>10 DEF AddCellSteps, AppendBoxSteps
<1>12. \A k \in 1..m : k - 1 \in T => k \in T
  <2> SUFFICES ASSUME NEW k \in 1..m, k - 1 \in T PROVE k \in T
    OBVIOUS
  <2>1. u[k] = AddCell(u[k - 1], bs[k]) /\ v[k] = AppendBox(v[k - 1], bs[k])
    BY <1>3, <1>9, <1>10 DEF AddCellSteps, AppendBoxSteps
  <2>2. At(u[k - 1], k - 1) /\ At(v[k - 1], k - 1)
    OBVIOUS
  <2>3. At(u[k], k) /\ At(v[k], k)
    BY <1>6, <2>1, <2>2
  <2> QED
    BY <1>4, <2>3
<1>13. m \in T
  <2> HIDE DEF T
  <2>1. \A k \in 0..m : k \in T
    BY <1>4, <1>11, <1>12, UpTo
  <2> QED
    BY <1>4, <2>1
<1> QED
  BY <1>3, <1>8, <1>9, <1>10, <1>13

\* A partition rebuilt from a list of boxes has their cells and no edge.
LEMMA RebuiltShown ==
  ASSUME NEW bs, IsSeq(bs), Distinct(bs)
  PROVE  IsGrid(Rebuilt(bs)) /\ Rebuilt(bs).cells = bs /\ Rebuilt(bs).overlay = {}
<1>1. IsGrid(EmptyGrid) /\ EmptyGrid.cells = <<>> /\ EmptyGrid.overlay = {}
  BY DEF EmptyGrid, IsGrid
<1>2. PICK w : w = <<>> \o bs
  OBVIOUS
<1>3. w = bs
  <2>1. IsSeq(<<>>) /\ Len(<<>>) = 0
    BY SeqEmpty
  <2>2. IsSeq(w) /\ Len(w) = 0 + Len(bs) /\ \A i \in 1..Len(bs) : w[0 + i] = bs[i]
    BY <1>2, <2>1, SeqConcat
  <2>3. Len(bs) \in Nat
    BY SeqShape
  <2>4. Len(w) = Len(bs) /\ \A i \in 1..Len(w) : w[i] = bs[i]
    BY <2>2, <2>3
  <2> QED
    BY <2>2, <2>4, SeqSame
<1>4. IsSeq(EmptyGrid.cells) /\ EmptyGrid.cells \o bs = bs
  BY <1>1, <1>2, <1>3, SeqEmpty
<1>5. PICK a : a = AddCells(EmptyGrid, bs)
  OBVIOUS
<1>6. WithCells(a, EmptyGrid, bs)
  BY <1>1, <1>4, <1>5, CellsAdded
<1>7. SameShown(RebuildIndices(a), a)
  BY <1>6, RebuildIndicesShown DEF WithCells
<1> QED
  BY <1>1, <1>5, <1>6, <1>7 DEF Rebuilt, WithCells, SameShown

\* replace_box_ids: the cells of other boxes, then the new ones; no edge.
LEMMA ReplacedShown ==
  ASSUME NEW g, NEW ids, NEW bs, IsSeq(g.cells), Distinct(g.cells), IsSeq(bs),
         Distinct(Excluding(g.cells, ids) \o bs)
  PROVE  /\ IsGrid(ReplaceBoxIds(g, ids, bs)) /\ ReplaceBoxIds(g, ids, bs).overlay = {}
         /\ ReplaceBoxIds(g, ids, bs).cells = Excluding(g.cells, ids) \o bs
<1>1. PICK K : K = Excluding(g.cells, ids)
  OBVIOUS
<1>2. IsSeq(K)
  BY <1>1, ExcludingFacts
<1>3. PICK s : s = [EmptyGrid EXCEPT !.cells = K]
  OBVIOUS
<1>4. IsGrid(s) /\ s.cells = K /\ s.overlay = {}
  BY <1>3 DEF EmptyGrid, IsGrid
<1>5. PICK a : a = AddCells(s, bs)
  OBVIOUS
<1>6. WithCells(a, s, K \o bs)
  BY <1>1, <1>2, <1>4, <1>5, CellsAdded
<1>7. SameShown(RebuildIndices(a), a)
  BY <1>6, RebuildIndicesShown DEF WithCells
<1>8. ReplaceBoxIds(g, ids, bs) = RebuildIndices(a)
  BY <1>1, <1>3, <1>5 DEF ReplaceBoxIds
<1> QED
  BY <1>1, <1>4, <1>6, <1>7, <1>8 DEF WithCells, SameShown

-----------------------------------------------------------------------------
(* Overlay edges and segment edges.                                        *)

\* The overlay edge o is one direction of the segment edge e.
Shows(g, o, e) ==
  /\ o.id = e.id /\ o.from \in DOMAIN g.cells /\ o.to \in DOMAIN g.cells
  /\ {g.cells[o.from].id, g.cells[o.to].id} = {e.from, e.to}
OverlaySound(g, E) == \A o \in g.overlay : \E e \in E : Shows(g, o, e)
\* Every edge of E whose ends have cells is in the overlay.
OverlayFull(g, E) ==
  \A e \in E : HasCell(g, e.from) /\ HasCell(g, e.to) => \E o \in g.overlay : o.id = e.id

\* append_segment_edge adds its edge unless it is there, and nothing else.
LEMMA EdgeAppended ==
  ASSUME NEW g, IsGrid(g), NEW E, NEW e \in E, OverlaySound(g, E)
  PROVE  /\ IsGrid(AppendSegmentEdge(g, e)) /\ AppendSegmentEdge(g, e).cells = g.cells
         /\ g.overlay \subseteq AppendSegmentEdge(g, e).overlay
         /\ OverlaySound(AppendSegmentEdge(g, e), E) /\ OverlayFull(AppendSegmentEdge(g, e), {e})
<1>1. CASE \E o \in g.overlay : o.id = e.id
  <2>1. AppendSegmentEdge(g, e) = g
    BY <1>1 DEF AppendSegmentEdge
  <2> QED
    BY <1>1, <2>1 DEF OverlayFull
<1>2. CASE ~HasCell(g, e.from) \/ ~HasCell(g, e.to)
  <2>1. AppendSegmentEdge(g, e) = g
    BY <1>2 DEF AppendSegmentEdge
  <2> QED
    BY <1>2, <2>1 DEF OverlayFull
<1>3. CASE ~(\E o \in g.overlay : o.id = e.id) /\ HasCell(g, e.from) /\ HasCell(g, e.to)
  <2> DEFINE s == CellOf(g, e.from)
             t == CellOf(g, e.to)
             there == [id |-> e.id, from |-> s, to |-> t]
             back == [id |-> e.id, from |-> t, to |-> s]
             edged == [g EXCEPT !.overlay = @ \cup {there, back}]
             linked == EnsureOverlayParentSize(edged)
             united == [linked EXCEPT !.classes = Unite(@, {s, t})]
             h == AppendSegmentEdge(g, e)
  <2>1. h = IF linked.classes = {} THEN linked ELSE united
    BY <1>3 DEF AppendSegmentEdge
  <2>2. s \in DOMAIN g.cells /\ g.cells[s].id = e.from /\ t \in DOMAIN g.cells /\ g.cells[t].id = e.to
    BY <1>3 DEF CellOf, HasCell, Cells
  <2>3. /\ there.id = e.id /\ there.from = s /\ there.to = t
        /\ back.id = e.id /\ back.from = t /\ back.to = s
    OBVIOUS
  <2> HIDE DEF there, back
  <2>4. IsGrid(edged) /\ edged.cells = g.cells /\ edged.overlay = g.overlay \cup {there, back}
    BY DEF IsGrid
  <2> HIDE DEF edged
  <2>5. SameShown(linked, edged)
    BY <2>4, DerivedOnly
  <2> HIDE DEF linked
  <2>6. SameShown(united, linked)
    BY <2>5, SetDerived DEF SameShown
  <2> HIDE DEF united
  <2>7. IsGrid(h) /\ h.cells = g.cells /\ h.overlay = g.overlay \cup {there, back}
    BY <2>1, <2>4, <2>5, <2>6 DEF SameShown
  <2> HIDE DEF s, t, h
  <2>8. Shows(h, there, e) /\ Shows(h, back, e)
    BY <2>2, <2>3, <2>7 DEF Shows
  <2>9. \A o \in g.overlay, f \in E : Shows(g, o, f) => Shows(h, o, f)
    BY <2>7 DEF Shows
  <2>10. OverlaySound(h, E)
    BY <2>7, <2>8, <2>9 DEF OverlaySound
  <2>11. OverlayFull(h, {e})
    BY <2>3, <2>7 DEF OverlayFull
  <2> QED
    BY <2>7, <2>10, <2>11 DEF h
<1> QED
  BY <1>1, <1>2, <1>3

\* sync_segment_edges: every edge whose ends have cells is in the overlay.
LEMMA Synced ==
  ASSUME NEW g, IsGrid(g), NEW es, IsSeq(es), OverlaySound(g, Range(es))
  PROVE  /\ IsGrid(SyncSegmentEdges(g, es)) /\ SyncSegmentEdges(g, es).cells = g.cells
         /\ OverlaySound(SyncSegmentEdges(g, es), Range(es)) /\ OverlayFull(SyncSegmentEdges(g, es), Range(es))
<1> DEFINE n == Len(es)
           E == Range(es)
           At(h, k) == /\ IsGrid(h) /\ h.cells = g.cells /\ OverlaySound(h, E)
                       /\ \A i \in 1..k : OverlayFull(h, {es[i]})
<1>1. PICK u : SyncSteps(u, g, es, n) /\ SyncSegmentEdges(g, es) = u[n]
  BY SyncUnfolds
<1>2. n \in Nat /\ (\A i \in 1..n : es[i] \in E) /\ \A e \in E : \E i \in 1..n : es[i] = e
  BY SeqShape
<1> DEFINE T == {k \in 0..n : At(u[k], k)}
<1>3. 0 \in T
  <2>1. u[0] = g /\ 0 \in 0..n
    BY <1>1, <1>2 DEF SyncSteps
  <2>2. At(g, 0)
    OBVIOUS
  <2> HIDE DEF At
  <2> QED
    BY <2>1, <2>2
<1>4. \A k \in 1..n : k - 1 \in T => k \in T
  <2> SUFFICES ASSUME NEW k \in 1..n, k - 1 \in T PROVE k \in T
    OBVIOUS
  <2>1. PICK h : h = u[k - 1]
    OBVIOUS
  <2>2. PICK j : j = u[k]
    OBVIOUS
  <2>3. j = AppendSegmentEdge(h, es[k]) /\ At(h, k - 1) /\ es[k] \in E
    BY <1>1, <1>2, <2>1, <2>2 DEF SyncSteps
  <2>4. /\ IsGrid(j) /\ j.cells = h.cells /\ h.overlay \subseteq j.overlay
        /\ OverlaySound(j, E) /\ OverlayFull(j, {es[k]})
    BY <2>3, EdgeAppended
  <2>5. \A i \in 1..k : OverlayFull(j, {es[i]})
    <3> TAKE i \in 1..k
    <3>1. CASE i = k
      BY <2>4, <3>1
    <3>2. CASE i # k
      <4>1. i \in 1..(k - 1)
        BY <3>2
      <4>2. OverlayFull(h, {es[i]})
        BY <2>3, <4>1
      <4> QED
        BY <2>4, <4>2 DEF OverlayFull, HasCell, Cells
    <3> QED
      BY <3>1, <3>2
  <2>6. At(j, k)
    BY <2>3, <2>4, <2>5
  <2> HIDE DEF At
  <2> QED
    BY <1>2, <2>2, <2>6
<1>5. n \in T
  <2> HIDE DEF T
  <2>1. \A k \in 0..n : k \in T
    BY <1>2, <1>3, <1>4, UpTo
  <2> QED
    BY <1>2, <2>1
<1>6. PICK h : h = u[n]
  OBVIOUS
<1>7. At(h, n)
  BY <1>5, <1>6
<1>8. OverlayFull(h, E)
  BY <1>2, <1>7 DEF OverlayFull
<1> QED
  BY <1>1, <1>6, <1>7, <1>8

-----------------------------------------------------------------------------
(* Parts of sequences.                                                     *)

\* A stretch of a sequence.
LEMMA Stretch ==
  ASSUME NEW s, IsSeq(s), NEW m \in Nat, NEW n \in Nat, m <= n, n <= Len(s)
  PROVE  /\ IsSeq(SubSeq(s, m + 1, n)) /\ Len(SubSeq(s, m + 1, n)) = n - m
         /\ \A i \in 1..(n - m) : SubSeq(s, m + 1, n)[i] = s[m + i]
<1>1. PICK a : a = m + 1
  OBVIOUS
<1>2. Len(s) \in Nat /\ \A i \in 1..Len(s) : s[i] \in Range(s)
  BY SeqShape
<1>3. a \in Int /\ n \in Int /\ \A i \in a..n : s[i] \in Range(s)
  BY <1>1, <1>2
<1>4. /\ SubSeq(s, a, n) \in Seq(Range(s))
      /\ Len(SubSeq(s, a, n)) = IF a <= n THEN n - a + 1 ELSE 0
      /\ \A i \in 1..n - a + 1 : SubSeq(s, a, n)[i] = s[a + i - 1]
  BY <1>3, SubSeqProperties
<1>5. PICK t : t = SubSeq(s, a, n)
  OBVIOUS
<1>6. IsSeq(t)
  BY <1>4, <1>5, SeqTyped
<1>7. Len(t) = n - m
  <2>1. (IF a <= n THEN n - a + 1 ELSE 0) = n - m
    BY <1>1
  <2> QED
    BY <1>4, <1>5, <2>1
<1>8. \A i \in 1..(n - m) : t[i] = s[m + i]
  <2> TAKE i \in 1..(n - m)
  <2>1. i \in 1..n - a + 1 /\ a + i - 1 = m + i
    BY <1>1
  <2> QED
    BY <1>4, <1>5, <2>1
<1> QED
  BY <1>1, <1>5, <1>6, <1>7, <1>8

\* A sequence is its first elements followed by the others.
LEMMA SplitSeq ==
  ASSUME NEW s, IsSeq(s), NEW n \in 0..Len(s)
  PROVE  /\ IsSeq(SubSeq(s, 1, n)) /\ IsSeq(SubSeq(s, n + 1, Len(s)))
         /\ Len(SubSeq(s, n + 1, Len(s))) = Len(s) - n
         /\ SubSeq(s, 1, n) \o SubSeq(s, n + 1, Len(s)) = s
<1>1. PICK a : a = SubSeq(s, 1, n)
  OBVIOUS
<1>2. PICK b : b = SubSeq(s, n + 1, Len(s))
  OBVIOUS
<1>3. Len(s) \in Nat /\ n \in Nat /\ n <= Len(s) /\ Len(s) <= Len(s)
  BY SeqShape
<1>4. IsSeq(a) /\ Len(a) = n /\ \A i \in 1..n : a[i] = s[i]
  BY <1>1, SeqPrefix
<1>5. IsSeq(b) /\ Len(b) = Len(s) - n /\ \A i \in 1..(Len(s) - n) : b[i] = s[n + i]
  BY <1>2, <1>3, Stretch
<1>6. PICK w : w = a \o b
  OBVIOUS
<1>7. /\ IsSeq(w) /\ Len(w) = Len(a) + Len(b)
      /\ \A i \in 1..Len(a) : w[i] = a[i]
      /\ \A i \in 1..Len(b) : w[Len(a) + i] = b[i]
  BY <1>4, <1>5, <1>6, SeqConcat
<1>8. Len(w) = Len(s)
  BY <1>3, <1>4, <1>5, <1>7
<1>9. \A i \in 1..Len(w) : w[i] = s[i]
  <2> TAKE i \in 1..Len(w)
  <2>1. i <= n \/ i > n
    BY <1>3, <1>8
  <2>2. CASE i <= n
    <3>1. i \in 1..n
      BY <1>3, <1>8, <2>2
    <3>2. i \in 1..Len(a)
      BY <1>4, <3>1
    <3>3. w[i] = a[i]
      BY <1>7, <3>2
    <3> QED
      BY <1>4, <3>1, <3>3
  <2>3. CASE i > n
    <3>1. i - n \in 1..(Len(s) - n) /\ n + (i - n) = i
      BY <1>3, <1>8, <2>3
    <3>2. i - n \in 1..Len(b) /\ Len(a) + (i - n) = i
      BY <1>4, <1>5, <3>1
    <3>3. w[i] = b[i - n] /\ b[i - n] = s[i]
      BY <1>5, <1>7, <3>1, <3>2
    <3> QED
      BY <3>3
  <2> QED
    BY <2>1, <2>2, <2>3
<1>10. w = s
  BY <1>7, <1>8, <1>9, SeqSame
<1> QED
  BY <1>1, <1>2, <1>4, <1>5, <1>6, <1>10

\* The parts of a concatenation.
LEMMA JoinedParts ==
  ASSUME NEW s, NEW t, IsSeq(s), IsSeq(t)
  PROVE  /\ \A k \in 0..Len(s) : SubSeq(s \o t, 1, k) = SubSeq(s, 1, k)
         /\ SubSeq(s \o t, Len(s) + 1, Len(s) + Len(t)) = t
<1>1. PICK w : w = s \o t
  OBVIOUS
<1>2. /\ IsSeq(w) /\ Len(w) = Len(s) + Len(t)
      /\ \A i \in 1..Len(s) : w[i] = s[i]
      /\ \A i \in 1..Len(t) : w[Len(s) + i] = t[i]
  BY <1>1, SeqConcat
<1>3. Len(s) \in Nat /\ Len(t) \in Nat
  BY SeqShape
<1>4. ASSUME NEW k \in 0..Len(s) PROVE SubSeq(w, 1, k) = SubSeq(s, 1, k)
  <2>1. PICK a : a = SubSeq(w, 1, k)
    OBVIOUS
  <2>2. PICK b : b = SubSeq(s, 1, k)
    OBVIOUS
  <2>3. k \in 0..Len(w)
    BY <1>2, <1>3
  <2>4. IsSeq(a) /\ Len(a) = k /\ \A i \in 1..k : a[i] = w[i]
    BY <1>2, <2>1, <2>3, SeqPrefix
  <2>5. IsSeq(b) /\ Len(b) = k /\ \A i \in 1..k : b[i] = s[i]
    BY <2>2, SeqPrefix
  <2>6. \A i \in 1..k : i \in 1..Len(s)
    BY <1>3
  <2>7. Len(a) = Len(b) /\ \A i \in 1..Len(a) : a[i] = b[i]
    BY <1>2, <2>4, <2>5, <2>6
  <2> QED
    BY <2>1, <2>2, <2>4, <2>5, <2>7, SeqSame
<1>5. SubSeq(w, Len(s) + 1, Len(s) + Len(t)) = t
  <2>1. PICK n : n = Len(s) + Len(t)
    OBVIOUS
  <2>2. n \in Nat /\ Len(s) <= n /\ n <= Len(w) /\ n - Len(s) = Len(t)
    BY <1>2, <1>3, <2>1
  <2>3. PICK a : a = SubSeq(w, Len(s) + 1, n)
    OBVIOUS
  <2>4. IsSeq(a) /\ Len(a) = n - Len(s) /\ \A i \in 1..(n - Len(s)) : a[i] = w[Len(s) + i]
    BY <1>2, <1>3, <2>2, <2>3, Stretch
  <2>5. Len(a) = Len(t) /\ \A i \in 1..Len(a) : a[i] = t[i]
    BY <1>2, <2>2, <2>4
  <2>6. a = t
    BY <2>4, <2>5, SeqSame
  <2> QED
    BY <2>1, <2>3, <2>6
<1> QED
  BY <1>1, <1>4, <1>5

-----------------------------------------------------------------------------
(* Boxes the facade adds.                                                  *)

\* next_box_id is above every id in use.
LEMMA NextIdAbove ==
  ASSUME NEW bs, IsSeq(bs), \A b \in Range(bs) : b.id \in Nat
  PROVE  NextBoxId(bs) \in Nat /\ \A b \in Range(bs) : b.id < NextBoxId(bs)
<1> DEFINE I == {0} \cup {id + 1 : id \in Ids(bs)}
           f == [i \in 0..Len(bs) |-> IF i = 0 THEN 0 ELSE bs[i].id + 1]
<1>1. Len(bs) \in Nat /\ DOMAIN bs = 1..Len(bs) /\ \A i \in 1..Len(bs) : bs[i] \in Range(bs)
  BY SeqShape
<1>2. \A x \in Ids(bs) : x \in Nat /\ \E i \in 1..Len(bs) : x = bs[i].id
  BY <1>1 DEF Ids
<1>3. \A i \in 1..Len(bs) : bs[i].id \in Ids(bs)
  BY <1>1 DEF Ids
<1>4. f \in Surjection(0..Len(bs), I)
  <2>1. \A i \in 0..Len(bs) : f[i] \in I
    BY <1>1, <1>3
  <2>2. \A x \in I : \E i \in 0..Len(bs) : f[i] = x
    <3> TAKE x \in I
    <3>1. CASE x = 0
      <4>1. 0 \in 0..Len(bs) /\ f[0] = 0
        BY <1>1
      <4> QED
        BY <3>1, <4>1
    <3>2. CASE x # 0
      <4>1. PICK id \in Ids(bs) : x = id + 1
        BY <3>2
      <4>2. PICK i \in 1..Len(bs) : id = bs[i].id
        BY <1>2
      <4>3. i \in 0..Len(bs) /\ i # 0
        BY <1>1
      <4>4. f[i] = bs[i].id + 1
        BY <4>3
      <4> QED
        BY <4>1, <4>2, <4>3, <4>4
    <3> QED
      BY <3>1, <3>2
  <2>3. f \in [0..Len(bs) -> I]
    BY <2>1
  <2> HIDE DEF f, I
  <2> QED
    BY <2>2, <2>3 DEF Surjection, Range
<1>5. I \subseteq Nat /\ 0 \in I
  BY <1>2
<1>6. \A b \in Range(bs) : b.id + 1 \in I
  BY <1>1 DEF Ids, Range
<1>7. NextBoxId(bs) = Max(I)
  BY DEF NextBoxId
<1>8. IsFiniteSet(0..Len(bs))
  BY <1>1, FS_Interval
<1> HIDE DEF f, I
<1>9. IsFiniteSet(I)
  BY <1>4, <1>8, FS_Surjection
<1>10. Max(I) \in I /\ \A x \in I : x <= Max(I)
  <2>1. I \in SUBSET Int /\ I # {}
    BY <1>5
  <2> QED
    BY <1>9, <2>1, FiniteBounds
<1>11. \A b \in Range(bs) : b.id < Max(I)
  <2> TAKE b \in Range(bs)
  <2>1. b.id + 1 <= Max(I) /\ b.id \in Nat /\ Max(I) \in Nat
    BY <1>5, <1>6, <1>10
  <2> QED
    BY <2>1
<1> QED
  BY <1>5, <1>7, <1>10, <1>11

NewBoxes(bs, rs) == [i \in DOMAIN rs |-> [id |-> NextBoxId(bs) + i - 1, region |-> rs[i]]]

\* Grown appends boxes of the given regions under ids that are new.
LEMMA GrownFacts ==
  ASSUME NEW bs, BoxesGood(bs), NEW rs, IsSeq(rs), Range(rs) \subseteq Region
  PROVE  /\ BoxesGood(Grown(bs, rs)) /\ Grown(bs, rs) = bs \o NewBoxes(bs, rs)
         /\ IsSeq(NewBoxes(bs, rs)) /\ Len(NewBoxes(bs, rs)) = Len(rs)
         /\ SubSeq(Grown(bs, rs), Len(bs) + 1, Len(bs) + Len(rs)) = NewBoxes(bs, rs)
         /\ Ids(bs) \subseteq Ids(Grown(bs, rs)) /\ Len(Grown(bs, rs)) = Len(bs) + Len(rs)
<1> DEFINE new == NewBoxes(bs, rs)
           n == NextBoxId(bs)
<1>1. Grown(bs, rs) = bs \o new
  BY DEF Grown, NewBoxes
<1>2. /\ Len(rs) \in Nat /\ DOMAIN rs = 1..Len(rs) /\ \A i \in 1..Len(rs) : rs[i] \in Region
  BY SeqShape
<1>3. IsSeq(bs) /\ Distinct(bs) /\ \A b \in Range(bs) : b \in BoxRecords /\ b.id \in Nat
  BY DEF BoxesGood, BoxRecords
<1>4. n \in Nat /\ \A b \in Range(bs) : b.id < n
  BY <1>3, NextIdAbove
<1> HIDE DEF n
<1>5. DOMAIN new = 1..Len(rs) /\ \A i \in 1..Len(rs) : new[i] = [id |-> n + i - 1, region |-> rs[i]]
  BY <1>2 DEF NewBoxes, n
<1>6. \A i \in 1..Len(rs) : new[i].id = n + i - 1 /\ new[i].id \in Nat /\ new[i] \in BoxRecords
  BY <1>2, <1>4, <1>5 DEF BoxRecords
<1>7. IsSeq(new) /\ Len(new) = Len(rs) /\ Range(new) = {new[k] : k \in 1..Len(rs)}
  <2>1. new = [k \in 1..Len(rs) |-> new[k]]
    BY <1>2 DEF NewBoxes
  <2> HIDE DEF new
  <2> QED
    BY <1>2, <2>1, SeqFunction
<1> HIDE DEF new
<1>8. Distinct(new)
  <2> SUFFICES ASSUME NEW i \in 1..Len(rs), NEW j \in 1..Len(rs), new[i].id = new[j].id PROVE i = j
    BY <1>5 DEF Distinct
  <2>1. n + i - 1 = n + j - 1
    BY <1>6
  <2> QED
    BY <1>4, <2>1
<1>9. \A b \in Range(bs), c \in Range(new) : b.id # c.id
  <2> SUFFICES ASSUME NEW b \in Range(bs), NEW c \in Range(new), b.id = c.id PROVE FALSE
    OBVIOUS
  <2>1. PICK k \in 1..Len(rs) : c = new[k]
    BY <1>7
  <2>2. b.id < n /\ c.id = n + k - 1 /\ b.id \in Nat
    BY <1>3, <1>4, <1>6, <2>1
  <2> QED
    BY <1>4, <2>2
<1>10. Distinct(bs \o new)
  BY <1>3, <1>7, <1>8, <1>9, DistinctConcat
<1>11. /\ IsSeq(bs \o new) /\ Range(bs \o new) = Range(bs) \cup Range(new)
       /\ Len(bs \o new) = Len(bs) + Len(new)
  BY <1>3, <1>7, SeqConcat
<1>12. BoxesGood(bs \o new)
  BY <1>3, <1>6, <1>7, <1>10, <1>11 DEF BoxesGood
<1>13. SubSeq(bs \o new, Len(bs) + 1, Len(bs) + Len(new)) = new
  BY <1>3, <1>7, JoinedParts
<1>14. Ids(bs) \subseteq Ids(bs \o new)
  <2>1. Ids(bs) = {b.id : b \in Range(bs)} /\ Ids(bs \o new) = {b.id : b \in Range(bs \o new)}
    BY DEF Ids, Range
  <2> QED
    BY <1>11, <2>1
<1> QED
  BY <1>1, <1>7, <1>11, <1>12, <1>13, <1>14 DEF new

\* A cell list that starts with the cells of g still has the cells g shows.
LEMMA StillSound ==
  ASSUME NEW g, NEW h, NEW E, NEW F, OverlaySound(g, E), E \subseteq F, h.overlay = g.overlay,
         \A c \in DOMAIN g.cells : c \in DOMAIN h.cells /\ h.cells[c] = g.cells[c]
  PROVE  OverlaySound(h, F)
<1> SUFFICES ASSUME NEW o \in g.overlay PROVE \E e \in F : Shows(h, o, e)
  BY DEF OverlaySound
<1>1. PICK e \in E : Shows(g, o, e)
  BY DEF OverlaySound
<1>2. Shows(h, o, e)
  BY <1>1 DEF Shows
<1> QED
  BY <1>2

\* The regions a step may give a box are regions.
LEMMA RegionsFit ==
  /\ Regions \subseteq Region
  /\ \A s \in Sweeps : IsSeq(s) /\ Range(s) \subseteq Region
<1>1. \A r \in Regions \cup Range(Roots) \cup UNION {Range(s) : s \in Sweeps} : r \in Region
  BY RegionAssumption DEF Region
<1>2. \A s \in Sweeps : IsSeq(s)
  BY RegionAssumption DEF IsSeq
<1> QED
  BY <1>1, <1>2

\* So are the lists of regions that fit in the forest.
LEMMA NewRegionsFit ==
  ASSUME NEW bs, BoxesGood(bs), NEW rs \in NewRegions(bs)
  PROVE  IsSeq(rs) /\ Range(rs) \subseteq Region
<1> DEFINE x == MaxBoxes - Len(bs)
           y == MaxId + 1 - NextBoxId(bs)
           room == {MaxNew, x, y}
           most == {0, Room(bs)}
<1>1. Len(bs) \in Nat /\ NextBoxId(bs) \in Nat
  <2>1. IsSeq(bs) /\ \A b \in Range(bs) : b.id \in Nat
    BY DEF BoxesGood, BoxRecords
  <2> QED
    BY <2>1, NextIdAbove, SeqShape
<1>2. MaxNew \in Int /\ x \in Int /\ y \in Int
  BY <1>1, ThresholdAssumption
<1>3. Room(bs) = Min(room)
  BY DEF Room
<1> HIDE DEF x, y
<1>4. IsFiniteSet(room)
  <2>1. IsFiniteSet({} \cup {MaxNew})
    BY FS_EmptySet, FS_AddElement
  <2>2. IsFiniteSet(({} \cup {MaxNew}) \cup {x})
    BY <2>1, FS_AddElement
  <2>3. IsFiniteSet((({} \cup {MaxNew}) \cup {x}) \cup {y})
    BY <2>2, FS_AddElement
  <2>4. room = (({} \cup {MaxNew}) \cup {x}) \cup {y}
    OBVIOUS
  <2> QED
    BY <2>3, <2>4
<1>5. Room(bs) \in Int
  <2>1. room \in SUBSET Int /\ room # {}
    BY <1>2
  <2>2. Min(room) \in room
    BY <1>4, <2>1, FiniteBounds
  <2> QED
    BY <1>3, <2>1, <2>2
<1>6. IsFiniteSet(most)
  <2>1. IsFiniteSet({} \cup {0})
    BY FS_EmptySet, FS_AddElement
  <2>2. IsFiniteSet(({} \cup {0}) \cup {Room(bs)})
    BY <2>1, FS_AddElement
  <2>3. most = ({} \cup {0}) \cup {Room(bs)}
    OBVIOUS
  <2> QED
    BY <2>2, <2>3
<1>7. Max(most) \in Int
  <2>1. most \in SUBSET Int /\ most # {}
    BY <1>5
  <2>2. Max(most) \in most
    BY <1>6, <2>1, FiniteBounds
  <2> QED
    BY <2>1, <2>2
<1> HIDE DEF most
<1>8. PICK k \in 0..Max(most) : rs \in [1..k -> Regions]
  BY DEF NewRegions, most
<1>9. k \in Nat
  BY <1>7, <1>8
<1>10. rs = [i \in 1..k |-> rs[i]] /\ \A i \in 1..k : rs[i] \in Regions
  BY <1>8
<1>11. IsSeq(rs) /\ Range(rs) = {rs[i] : i \in 1..k}
  BY <1>9, <1>10, SeqFunction
<1> QED
  BY <1>10, <1>11, RegionsFit

-----------------------------------------------------------------------------
(* The invariant.                                                          *)

\* Segment edges have distinct ids and join boxes of the list.
SegsGood(es, bs) ==
  /\ IsSeq(es) /\ Distinct(es)
  /\ \A e \in Range(es) : e.id \in Nat /\ e.from \in Ids(bs) /\ e.to \in Ids(bs)
\* The partition g shows all but the last p of the boxes bs and, unless boxes
\* are pending, the segment edges es.
Mirrors(g, bs, p, es) ==
  /\ IsGrid(g) /\ g.cells = SubSeq(bs, 1, Len(bs) - p) /\ OverlaySound(g, Range(es))
  /\ p = 0 => OverlayFull(g, Range(es))
GridInv ==
  /\ BoxesGood(boxes) /\ pending \in 0..Len(boxes) /\ SegsGood(segs, boxes)
  /\ enabled /\ ~behind => Mirrors(grid, boxes, pending, segs)
  /\ grown # <<>> => BoxesGood(grown) /\ StandFor(Range(boxes), Range(grown))

\* Ids of a list are those of its elements.
LEMMA IdsOfRange ==
  ASSUME NEW bs
  PROVE  Ids(bs) = {b.id : b \in Range(bs)}
BY DEF Ids, Range

\* A whole list as its own part.
LEMMA SubSeqWhole ==
  ASSUME NEW s, IsSeq(s)
  PROVE  SubSeq(s, 1, Len(s) - 0) = s
<1>1. Len(s) \in 0..Len(s) /\ Len(s) - 0 = Len(s)
  BY SeqShape
<1>2. PICK a : a = SubSeq(s, 1, Len(s))
  OBVIOUS
<1>3. IsSeq(a) /\ Len(a) = Len(s) /\ \A i \in 1..Len(a) : a[i] = s[i]
  BY <1>1, <1>2, SeqPrefix
<1> QED
  BY <1>1, <1>2, <1>3, SeqSame

\* A partition with a cell per box that has synchronised its segment edges
\* shows the forest.
LEMMA SyncedMirrors ==
  ASSUME NEW g, IsGrid(g), IsSeq(g.cells), NEW es, IsSeq(es), OverlaySound(g, Range(es))
  PROVE  Mirrors(SyncSegmentEdges(g, es), g.cells, 0, es)
BY Synced, SubSeqWhole DEF Mirrors

\* Edges stay good when the boxes keep their ends.
LEMMA SegsKept ==
  ASSUME NEW es, NEW bs, NEW cs, SegsGood(es, bs), Ids(bs) \subseteq Ids(cs)
  PROVE  SegsGood(es, cs)
BY DEF SegsGood

\* The empty list of boxes and edges.
LEMMA EmptyLists ==
  /\ BoxesGood(<<>>) /\ Len(<<>>) = 0 /\ SubSeq(<<>>, 1, Len(<<>>) - 0) = <<>>
  /\ \A bs : SegsGood(<<>>, bs)
<1>1. IsSeq(<<>>) /\ Range(<<>>) = {} /\ Len(<<>>) = 0
  BY SeqEmpty
<1>2. Distinct(<<>>)
  BY DEF Distinct
<1>3. SubSeq(<<>>, 1, Len(<<>>) - 0) = <<>>
  BY <1>1, SubSeqWhole
<1> QED
  BY <1>1, <1>2, <1>3 DEF BoxesGood, SegsGood

\* At first there is neither a box nor a cell.
LEMMA GridInvInit ==
  ASSUME Init
  PROVE  GridInv
<1>1. boxes = <<>> /\ pending = 0 /\ segs = <<>> /\ enabled = FALSE /\ grown = <<>>
  BY DEF Init
<1>2. pending \in 0..Len(boxes)
  BY <1>1, EmptyLists
<1> QED
  BY <1>1, <1>2, EmptyLists DEF GridInv

\* build_adaptive_deep_leaf_sweep_cover.
LEMMA BuildAdaptiveCoverKeeps ==
  ASSUME GridInv, BuildAdaptiveCover
  PROVE  GridInv'
<1>1. PICK c \in AdaptiveCovers : boxes' = c.merged /\ grid' = c.grid /\ grown' = c.grown
  BY DEF BuildAdaptiveCover
<1>2. PICK s \in Sweeps, prune \in BOOLEAN :
        \E bs \in MergeOutcomes(Grown(<<>>, s), prune) :
          c = [grown |-> Grown(<<>>, s), merged |-> bs, grid |-> Rebuilt(bs)]
  BY DEF AdaptiveCovers
<1>3. PICK bs \in MergeOutcomes(Grown(<<>>, s), prune) :
        c = [grown |-> Grown(<<>>, s), merged |-> bs, grid |-> Rebuilt(bs)]
  BY <1>2
<1>4. PICK gs : gs = Grown(<<>>, s)
  OBVIOUS
<1>5. boxes' = bs /\ grid' = Rebuilt(bs) /\ grown' = gs
  BY <1>1, <1>3, <1>4
<1>6. segs' = <<>> /\ pending' = 0
  BY DEF BuildAdaptiveCover
<1>7. BoxesGood(gs)
  BY <1>4, EmptyLists, RegionsFit, GrownFacts
<1>8. BoxesGood(bs) /\ StandFor(Range(bs), Range(gs))
  BY <1>3, <1>4, <1>7, OutcomesStand
<1>9. IsGrid(Rebuilt(bs)) /\ Rebuilt(bs).cells = bs /\ Rebuilt(bs).overlay = {}
  BY <1>8, RebuiltShown DEF BoxesGood
<1>10. Mirrors(Rebuilt(bs), bs, 0, <<>>)
  <2>1. SubSeq(bs, 1, Len(bs) - 0) = bs
    BY <1>8, SubSeqWhole DEF BoxesGood
  <2>2. Range(<<>>) = {}
    BY SeqEmpty
  <2> QED
    BY <1>9, <2>1, <2>2 DEF Mirrors, OverlaySound, OverlayFull
<1>11. pending' \in 0..Len(boxes')
  <2>1. Len(bs) \in Nat
    BY <1>8, SeqShape DEF BoxesGood
  <2> QED
    BY <1>5, <1>6, <2>1
<1>12. SegsGood(segs', boxes')
  BY <1>6, EmptyLists
<1> QED
  BY <1>5, <1>6, <1>7, <1>8, <1>10, <1>11, <1>12 DEF GridInv

\* build_leaf_sweep and build_subtractive: the partition is left behind.
LEMMA BuildLeafSweepKeeps ==
  ASSUME GridInv, NEW s \in Sweeps, BuildLeafSweep(s)
  PROVE  GridInv'
<1>1. /\ boxes' = Grown(<<>>, s) /\ segs' = <<>> /\ behind' = enabled /\ grown' = <<>>
      /\ pending' = 0 /\ enabled' = enabled
  BY DEF BuildLeafSweep
<1>2. BoxesGood(boxes')
  BY <1>1, EmptyLists, RegionsFit, GrownFacts
<1>3. pending' \in 0..Len(boxes')
  <2>1. Len(boxes') \in Nat
    BY <1>2, SeqShape DEF BoxesGood
  <2> QED
    BY <1>1, <2>1
<1>4. SegsGood(segs', boxes')
  BY <1>1, EmptyLists
<1> QED
  BY <1>1, <1>2, <1>3, <1>4 DEF GridInv

\* Clearing leaves nothing to show.
LEMMA ClearForestKeeps ==
  ASSUME GridInv, ClearForest
  PROVE  GridInv'
<1>1. boxes' = <<>> /\ pending' = 0 /\ segs' = <<>> /\ enabled' = FALSE /\ grown' = <<>>
  BY DEF ClearForest
<1>2. pending' \in 0..Len(boxes')
  BY <1>1, EmptyLists
<1> QED
  BY <1>1, <1>2, EmptyLists DEF GridInv

\* A box of a bridge waits at the end of boxes_.
LEMMA PushBoxKeeps ==
  ASSUME GridInv, NEW r \in Regions, PushBox(r)
  PROVE  GridInv'
<1>1. /\ boxes' = Grown(boxes, <<r>>) /\ pending' = pending + 1 /\ grown' = <<>>
      /\ segs' = segs /\ grid' = grid /\ enabled' = enabled /\ behind' = behind
  BY DEF PushBox
<1>2. BoxesGood(boxes) /\ pending \in 0..Len(boxes) /\ SegsGood(segs, boxes)
  BY DEF GridInv
<1>3. IsSeq(<<r>>) /\ Range(<<r>>) \subseteq Region /\ Len(<<r>>) = 1
  BY RegionsFit, SeqSingle
<1>4. PICK bs : bs = Grown(boxes, <<r>>)
  OBVIOUS
<1>5. PICK new : new = NewBoxes(boxes, <<r>>)
  OBVIOUS
<1>6. /\ BoxesGood(bs) /\ bs = boxes \o new /\ IsSeq(new) /\ Ids(boxes) \subseteq Ids(bs)
      /\ Len(bs) = Len(boxes) + 1
  BY <1>2, <1>3, <1>4, <1>5, GrownFacts
<1>7. IsSeq(boxes) /\ Len(boxes) \in Nat
  BY <1>2, SeqShape DEF BoxesGood
<1>8. pending + 1 \in 0..Len(bs) /\ Len(bs) - (pending + 1) = Len(boxes) - pending
  BY <1>2, <1>6, <1>7
<1>9. SubSeq(bs, 1, Len(boxes) - pending) = SubSeq(boxes, 1, Len(boxes) - pending)
  <2>1. Len(boxes) - pending \in 0..Len(boxes)
    BY <1>2, <1>7
  <2> QED
    BY <1>6, <1>7, <2>1, JoinedParts
<1>10. ASSUME Mirrors(grid, boxes, pending, segs) PROVE Mirrors(grid, bs, pending + 1, segs)
  <2>1. pending + 1 # 0
    BY <1>2, <1>7
  <2> QED
    BY <1>8, <1>9, <1>10, <2>1 DEF Mirrors
<1>11. SegsGood(segs, bs)
  BY <1>2, <1>6, SegsKept
<1>12. enabled /\ ~behind => Mirrors(grid, bs, pending + 1, segs)
  BY <1>10 DEF GridInv
<1> QED
  BY <1>1, <1>4, <1>6, <1>8, <1>11, <1>12 DEF GridInv

\* The boxes of a batch get cells behind the others, and then their edges.
LEMMA AppendPendingKeeps ==
  ASSUME GridInv, AppendPending
  PROVE  GridInv'
<1>1. PICK new : new = SubSeq(boxes, Len(boxes) - pending + 1, Len(boxes))
  OBVIOUS
<1>2. /\ grid' = AppendedAndSynced(grid, new, segs) /\ pending' = 0 /\ grown' = <<>>
      /\ boxes' = boxes /\ segs' = segs /\ enabled' = enabled /\ behind' = behind /\ pending > 0
  BY <1>1 DEF AppendPending
<1>3. BoxesGood(boxes) /\ pending \in 0..Len(boxes) /\ SegsGood(segs, boxes)
  BY DEF GridInv
<1>4. IsSeq(boxes) /\ Len(boxes) \in Nat
  BY <1>3, SeqShape DEF BoxesGood
<1>5. PICK n : n = Len(boxes) - pending
  OBVIOUS
<1>6. n \in 0..Len(boxes) /\ n < Len(boxes)
  BY <1>2, <1>3, <1>4, <1>5
<1>7. ASSUME Mirrors(grid, boxes, pending, segs)
      PROVE  Mirrors(AppendedAndSynced(grid, new, segs), boxes, 0, segs)
  <2>1. IsGrid(grid) /\ grid.cells = SubSeq(boxes, 1, n) /\ OverlaySound(grid, Range(segs))
    BY <1>5, <1>7 DEF Mirrors
  <2>2. IsSeq(grid.cells) /\ IsSeq(new) /\ grid.cells \o new = boxes
    BY <1>1, <1>4, <1>5, <1>6, <2>1, SplitSeq
  <2>3. PICK a : a = AppendBoxes(grid, new)
    OBVIOUS
  <2>4. Distinct(grid.cells \o new)
    BY <1>3, <2>2 DEF BoxesGood
  <2>5. IsGrid(a) /\ a.cells = boxes /\ a.overlay = grid.overlay
    BY <2>1, <2>2, <2>3, <2>4, CellsAdded DEF WithCells
  <2>6. Len(grid.cells) = n /\ \A i \in 1..n : grid.cells[i] = boxes[i]
    BY <1>4, <1>6, <2>1, SeqPrefix
  <2>7. a # grid
    BY <1>6, <2>5, <2>6
  <2>8. DOMAIN grid.cells = 1..n /\ DOMAIN boxes = 1..Len(boxes)
    BY <1>4, <2>2, <2>6, SeqShape
  <2>9. \A c \in DOMAIN grid.cells : c \in DOMAIN a.cells /\ a.cells[c] = grid.cells[c]
    BY <1>4, <1>6, <2>5, <2>6, <2>8
  <2>10. OverlaySound(a, Range(segs))
    BY <2>1, <2>5, <2>9, StillSound
  <2>11. Mirrors(SyncSegmentEdges(a, segs), boxes, 0, segs)
    BY <1>3, <1>4, <2>5, <2>10, SyncedMirrors DEF SegsGood
  <2>12. AppendedAndSynced(grid, new, segs) = SyncSegmentEdges(a, segs)
    BY <2>3, <2>7 DEF AppendedAndSynced
  <2> QED
    BY <2>11, <2>12
<1>8. 0 \in 0..Len(boxes)
  BY <1>4
<1>9. enabled /\ ~behind => Mirrors(AppendedAndSynced(grid, new, segs), boxes, 0, segs)
  BY <1>7 DEF GridInv
<1> QED
  BY <1>2, <1>3, <1>8, <1>9 DEF GridInv

\* The endpoint box of a query gets its cell at once; it has no edge yet.
LEMMA AnchorBoxKeeps ==
  ASSUME GridInv, NEW r \in Regions, AnchorBox(r)
  PROVE  GridInv'
<1>1. PICK b : b = [id |-> NextBoxId(boxes), region |-> r]
  OBVIOUS
<1>2. /\ boxes' = Grown(boxes, <<r>>) /\ grid' = AppendBox(grid, b) /\ pending = 0 /\ pending' = 0
      /\ grown' = <<>> /\ segs' = segs /\ enabled' = enabled /\ behind' = behind
  BY <1>1 DEF AnchorBox
<1>3. BoxesGood(boxes) /\ SegsGood(segs, boxes)
  BY DEF GridInv
<1>4. IsSeq(boxes) /\ Len(boxes) \in Nat /\ DOMAIN boxes = 1..Len(boxes)
  BY <1>3, SeqShape DEF BoxesGood
<1>5. IsSeq(<<r>>) /\ Range(<<r>>) \subseteq Region /\ Len(<<r>>) = 1
  BY RegionsFit, SeqSingle
<1>6. PICK bs : bs = Grown(boxes, <<r>>)
  OBVIOUS
<1>7. PICK new : new = NewBoxes(boxes, <<r>>)
  OBVIOUS
<1>8. /\ BoxesGood(bs) /\ bs = boxes \o new /\ IsSeq(new) /\ Len(new) = 1
      /\ Ids(boxes) \subseteq Ids(bs) /\ Len(bs) = Len(boxes) + 1
  BY <1>3, <1>5, <1>6, <1>7, GrownFacts
<1>9. new[1] = b
  <2>1. DOMAIN <<r>> = 1..1 /\ <<r>>[1] = r
    BY <1>5, SeqShape, SeqSingle
  <2>2. new[1] = [id |-> NextBoxId(boxes) + 1 - 1, region |-> <<r>>[1]]
    BY <1>7, <2>1 DEF NewBoxes
  <2>3. NextBoxId(boxes) \in Nat
    BY <1>3, NextIdAbove DEF BoxesGood, BoxRecords
  <2>4. NextBoxId(boxes) + 1 - 1 = NextBoxId(boxes)
    BY <2>3
  <2> QED
    BY <1>1, <2>1, <2>2, <2>4
<1>10. bs = Append(boxes, b)
  <2>1. PICK a : a = Append(boxes, b)
    OBVIOUS
  <2>2. /\ IsSeq(a) /\ Len(a) = Len(boxes) + 1 /\ a[Len(boxes) + 1] = b
        /\ \A i \in 1..Len(boxes) : a[i] = boxes[i]
    BY <1>4, <2>1, SeqAppend
  <2>3. /\ IsSeq(bs) /\ \A i \in 1..Len(boxes) : bs[i] = boxes[i]
        /\ \A i \in 1..Len(new) : bs[Len(boxes) + i] = new[i]
    BY <1>4, <1>8, SeqConcat
  <2>4. 1 \in 1..Len(new)
    BY <1>8
  <2>5. bs[Len(boxes) + 1] = b
    BY <1>9, <2>3, <2>4
  <2>6. \A i \in 1..Len(bs) : i \in 1..Len(boxes) \/ i = Len(boxes) + 1
    BY <1>4, <1>8
  <2>7. \A i \in 1..Len(bs) : bs[i] = a[i]
    BY <2>2, <2>3, <2>5, <2>6
  <2>8. bs = a
    BY <1>8, <2>2, <2>3, <2>7, SeqSame
  <2> QED
    BY <2>1, <2>8
<1>11. ASSUME Mirrors(grid, boxes, pending, segs) PROVE Mirrors(AppendBox(grid, b), bs, 0, segs)
  <2>1. SubSeq(boxes, 1, Len(boxes) - 0) = boxes
    BY <1>4, SubSeqWhole
  <2>2. /\ IsGrid(grid) /\ grid.cells = boxes
        /\ OverlaySound(grid, Range(segs)) /\ OverlayFull(grid, Range(segs))
    BY <1>2, <1>11, <2>1 DEF Mirrors
  <2>3. ~HasCell(grid, b.id)
    <3>1. \A x \in Range(boxes) : x.id \in Nat /\ x.id < NextBoxId(boxes)
      BY <1>3, NextIdAbove DEF BoxesGood, BoxRecords
    <3>2. \A c \in DOMAIN boxes : boxes[c].id \in Nat /\ boxes[c].id < NextBoxId(boxes)
      BY <3>1 DEF Range
    <3>3. \A c \in DOMAIN boxes : boxes[c].id # NextBoxId(boxes)
      BY <3>2
    <3> QED
      BY <1>1, <2>2, <3>3 DEF HasCell, Cells
  <2>4. PICK a : a = AppendBox(grid, b)
    OBVIOUS
  <2>5. IsGrid(a) /\ a.cells = bs /\ a.overlay = grid.overlay
    BY <1>10, <2>2, <2>3, <2>4, AddCellFresh DEF WithCells
  <2>6. \A c \in DOMAIN grid.cells : c \in DOMAIN a.cells /\ a.cells[c] = grid.cells[c]
    <3>1. IsSeq(bs) /\ \A i \in 1..Len(boxes) : bs[i] = boxes[i]
      BY <1>4, <1>8, SeqConcat
    <3>2. DOMAIN bs = 1..Len(bs)
      BY <3>1, SeqShape
    <3>3. \A i \in 1..Len(boxes) : i \in 1..Len(bs)
      BY <1>4, <1>8
    <3> QED
      BY <1>4, <2>2, <2>5, <3>1, <3>2, <3>3
  <2>7. OverlaySound(a, Range(segs))
    BY <2>2, <2>5, <2>6, StillSound
  <2>8. \A e \in Range(segs) : HasCell(grid, e.from) /\ HasCell(grid, e.to)
    BY <1>3, <2>2 DEF SegsGood, Ids, HasCell, Cells
  <2>9. OverlayFull(a, Range(segs))
    BY <2>2, <2>5, <2>8 DEF OverlayFull
  <2>10. SubSeq(bs, 1, Len(bs) - 0) = bs
    BY <1>8, SubSeqWhole DEF BoxesGood
  <2> QED
    BY <2>4, <2>5, <2>7, <2>9, <2>10 DEF Mirrors
<1>12. SegsGood(segs, bs)
  BY <1>3, <1>8, SegsKept
<1>13. 0 \in 0..Len(bs)
  BY <1>4, <1>8
<1>14. enabled /\ ~behind => Mirrors(AppendBox(grid, b), bs, 0, segs)
  BY <1>11 DEF GridInv
<1> QED
  BY <1>2, <1>6, <1>8, <1>12, <1>13, <1>14 DEF GridInv

\* A new segment edge is synchronised at once.
LEMMA AddSegmentEdgeKeeps ==
  ASSUME GridInv, NEW s \in Ids(boxes), NEW t \in Ids(boxes), AddSegmentEdge(s, t)
  PROVE  GridInv'
<1>1. PICK e : e = [id |-> NextBoxId(segs), from |-> s, to |-> t]
  OBVIOUS
<1>2. PICK es : es = Append(segs, e)
  OBVIOUS
<1>3. /\ segs' = es /\ grid' = SyncSegmentEdges(grid, es) /\ grown' = <<>>
      /\ boxes' = boxes /\ pending' = pending /\ enabled' = enabled /\ behind' = behind
  BY <1>1, <1>2 DEF AddSegmentEdge
<1>4. BoxesGood(boxes) /\ pending \in 0..Len(boxes) /\ SegsGood(segs, boxes)
  BY DEF GridInv
<1>5. /\ IsSeq(segs) /\ Distinct(segs)
      /\ \A x \in Range(segs) : x.id \in Nat /\ x.from \in Ids(boxes) /\ x.to \in Ids(boxes)
  BY <1>4 DEF SegsGood
<1>6. NextBoxId(segs) \in Nat /\ \A x \in Range(segs) : x.id < NextBoxId(segs)
  BY <1>5, NextIdAbove
<1>7. e.id = NextBoxId(segs) /\ e.from = s /\ e.to = t
  BY <1>1
<1>8. /\ IsSeq(es) /\ Range(es) = Range(segs) \cup {e} /\ Len(es) = Len(segs) + 1
      /\ (\A i \in 1..Len(segs) : es[i] = segs[i]) /\ es[Len(segs) + 1] = e
  BY <1>2, <1>5, SeqAppend
<1>9. Distinct(es)
  <2>1. IsSeq(<<e>>) /\ Range(<<e>>) = {e} /\ Len(<<e>>) = 1 /\ <<e>>[1] = e
    BY SeqSingle
  <2>2. DOMAIN <<e>> = 1..1
    BY <2>1, SeqShape
  <2>3. Distinct(<<e>>)
    BY <2>2 DEF Distinct
  <2>4. \A x \in Range(segs), y \in Range(<<e>>) : x.id # y.id
    <3> SUFFICES ASSUME NEW x \in Range(segs), NEW y \in Range(<<e>>), x.id = y.id PROVE FALSE
      OBVIOUS
    <3>1. y = e /\ x.id \in Nat /\ x.id < NextBoxId(segs)
      BY <1>5, <1>6, <2>1
    <3> QED
      BY <1>6, <1>7, <3>1
  <2>5. Distinct(segs \o <<e>>)
    BY <1>5, <2>1, <2>3, <2>4, DistinctConcat
  <2>6. segs \o <<e>> = es
    <3>1. PICK w : w = segs \o <<e>>
      OBVIOUS
    <3>2. /\ IsSeq(w) /\ Len(w) = Len(segs) + 1 /\ \A i \in 1..Len(segs) : w[i] = segs[i]
          /\ \A i \in 1..1 : w[Len(segs) + i] = <<e>>[i]
      BY <1>5, <2>1, <3>1, SeqConcat
    <3>3. w[Len(segs) + 1] = e
      BY <2>1, <3>2
    <3>4. Len(segs) \in Nat
      BY <1>5, SeqShape
    <3>5. \A i \in 1..Len(w) : i \in 1..Len(segs) \/ i = Len(segs) + 1
      BY <3>2, <3>4
    <3>6. \A i \in 1..Len(w) : w[i] = es[i]
      BY <1>8, <3>2, <3>3, <3>5
    <3>7. w = es
      BY <1>8, <3>2, <3>6, SeqSame
    <3> QED
      BY <3>1, <3>7
  <2> QED
    BY <2>5, <2>6
<1>10. SegsGood(es, boxes)
  BY <1>5, <1>6, <1>7, <1>8, <1>9 DEF SegsGood
<1>11. ASSUME Mirrors(grid, boxes, pending, segs)
       PROVE  Mirrors(SyncSegmentEdges(grid, es), boxes, pending, es)
  <2>1. OverlaySound(grid, Range(es)) /\ IsGrid(grid)
    BY <1>8, <1>11 DEF Mirrors, OverlaySound
  <2> QED
    BY <1>8, <1>11, <2>1, Synced DEF Mirrors
<1>12. enabled /\ ~behind => Mirrors(SyncSegmentEdges(grid, es), boxes, pending, es)
  BY <1>11 DEF GridInv
<1> QED
  BY <1>3, <1>4, <1>10, <1>12 DEF GridInv

\* A rebuild from the boxes shows them and the edges it is given.
LEMMA RebuiltMirrors ==
  ASSUME NEW bs, BoxesGood(bs), NEW es, IsSeq(es)
  PROVE  Mirrors(SyncSegmentEdges(Rebuilt(bs), es), bs, 0, es)
<1>1. IsGrid(Rebuilt(bs)) /\ Rebuilt(bs).cells = bs /\ Rebuilt(bs).overlay = {}
  BY RebuiltShown DEF BoxesGood
<1>2. OverlaySound(Rebuilt(bs), Range(es)) /\ IsSeq(Rebuilt(bs).cells)
  BY <1>1 DEF OverlaySound, BoxesGood
<1> QED
  BY <1>1, <1>2, SyncedMirrors

\* refresh_dynamic_partition_after_remove_append, and what it falls back to.
LEMMA RemoveAppendMirrors ==
  ASSUME NEW g, BoxesGood(g.cells), NEW removed, NEW kept, kept = Excluding(g.cells, removed),
         NEW rs, IsSeq(rs), Range(rs) \subseteq Region, NEW es, IsSeq(es)
  PROVE  BoxesGood(kept) /\ Mirrors(RefreshAfterRemoveAppend(g, removed, kept, rs, es), Grown(kept, rs), 0, es)
<1>1. IsSeq(g.cells) /\ Distinct(g.cells) /\ Range(g.cells) \subseteq BoxRecords
  BY DEF BoxesGood
<1>2. BoxesGood(kept)
  <2>1. /\ IsSeq(kept) /\ Distinct(kept)
        /\ Range(kept) = {b \in Range(g.cells) : b.id \notin removed}
    BY <1>1, ExcludingFacts
  <2> QED
    BY <1>1, <2>1 DEF BoxesGood
<1>3. PICK bs : bs = Grown(kept, rs)
  OBVIOUS
<1>4. PICK new : new = NewBoxes(kept, rs)
  OBVIOUS
<1>5. /\ BoxesGood(bs) /\ bs = kept \o new /\ IsSeq(new) /\ Len(bs) = Len(kept) + Len(rs)
      /\ SubSeq(bs, Len(kept) + 1, Len(kept) + Len(rs)) = new
  BY <1>2, <1>3, <1>4, GrownFacts
<1>6. PICK delta : delta = ReplaceBoxIds(g, removed, new)
  OBVIOUS
<1>7. IsGrid(delta) /\ delta.overlay = {} /\ delta.cells = bs
  <2>1. Excluding(g.cells, removed) \o new = bs /\ Distinct(bs)
    BY <1>5 DEF BoxesGood
  <2>2. IsSeq(g.cells) /\ Distinct(g.cells) /\ IsSeq(new) /\ Distinct(Excluding(g.cells, removed) \o new)
    BY <1>1, <1>5, <2>1
  <2>3. /\ IsGrid(ReplaceBoxIds(g, removed, new)) /\ ReplaceBoxIds(g, removed, new).overlay = {}
        /\ ReplaceBoxIds(g, removed, new).cells = Excluding(g.cells, removed) \o new
    BY <2>2, ReplacedShown
  <2> QED
    BY <1>6, <2>1, <2>3
<1>8. Mirrors(SyncSegmentEdges(delta, es), bs, 0, es)
  <2>1. OverlaySound(delta, Range(es)) /\ IsSeq(delta.cells)
    BY <1>5, <1>7 DEF OverlaySound, BoxesGood
  <2> QED
    BY <1>7, <2>1, SyncedMirrors
<1>9. Mirrors(RefreshAfterUpdate(bs, es), bs, 0, es)
  BY <1>5, RebuiltMirrors DEF RefreshAfterUpdate
<1>10. SubSeq(bs, Len(kept) + 1, Len(bs)) = new
  BY <1>5
<1>11. \/ RefreshAfterRemoveAppend(g, removed, kept, rs, es) = SyncSegmentEdges(delta, es)
       \/ RefreshAfterRemoveAppend(g, removed, kept, rs, es) = RefreshAfterUpdate(bs, es)
  BY <1>3, <1>6, <1>10 DEF RefreshAfterRemoveAppend
<1> QED
  BY <1>2, <1>3, <1>8, <1>9, <1>11

\* refresh_dynamic_partition_after_append, and what it falls back to.
LEMMA AppendMirrors ==
  ASSUME NEW g, NEW bs, BoxesGood(bs), NEW es, IsSeq(es), Mirrors(g, bs, 0, es),
         NEW rs, IsSeq(rs), Range(rs) \subseteq Region
  PROVE  Mirrors(RefreshAfterAppend(g, bs, rs, es), Grown(bs, rs), 0, es)
<1>1. IsSeq(bs) /\ Len(bs) \in Nat /\ DOMAIN bs = 1..Len(bs)
  BY SeqShape DEF BoxesGood
<1>2. IsGrid(g) /\ g.cells = bs /\ OverlaySound(g, Range(es))
  BY <1>1, SubSeqWhole DEF Mirrors
<1>3. PICK cs : cs = Grown(bs, rs)
  OBVIOUS
<1>4. PICK new : new = NewBoxes(bs, rs)
  OBVIOUS
<1>5. /\ BoxesGood(cs) /\ cs = bs \o new /\ IsSeq(new)
      /\ SubSeq(cs, Len(bs) + 1, Len(bs) + Len(rs)) = new
  BY <1>3, <1>4, GrownFacts
<1>6. PICK a : a = AppendBoxes(g, new)
  OBVIOUS
<1>7. IsGrid(a) /\ a.cells = cs /\ a.overlay = g.overlay
  <2>1. Distinct(g.cells \o new)
    BY <1>2, <1>5 DEF BoxesGood
  <2> QED
    BY <1>1, <1>2, <1>5, <1>6, <2>1, CellsAdded DEF WithCells
<1>8. \A c \in DOMAIN g.cells : c \in DOMAIN a.cells /\ a.cells[c] = g.cells[c]
  <2>1. IsSeq(cs) /\ Len(cs) = Len(bs) + Len(new) /\ \A i \in 1..Len(bs) : cs[i] = bs[i]
    BY <1>1, <1>5, SeqConcat
  <2>2. DOMAIN cs = 1..Len(cs) /\ Len(new) \in Nat
    BY <1>5, <2>1, SeqShape
  <2>3. \A i \in 1..Len(bs) : i \in 1..Len(cs)
    BY <1>1, <2>1, <2>2
  <2> QED
    BY <1>1, <1>2, <1>7, <2>1, <2>2, <2>3
<1>9. OverlaySound(a, Range(es))
  BY <1>2, <1>7, <1>8, StillSound
<1>10. Mirrors(SyncSegmentEdges(a, es), cs, 0, es)
  BY <1>5, <1>7, <1>9, SyncedMirrors DEF BoxesGood
<1>11. Mirrors(RefreshAfterUpdate(cs, es), cs, 0, es)
  BY <1>5, RebuiltMirrors DEF RefreshAfterUpdate
<1>12. \/ RefreshAfterAppend(g, bs, rs, es) = SyncSegmentEdges(a, es)
       \/ RefreshAfterAppend(g, bs, rs, es) = RefreshAfterUpdate(cs, es)
  BY <1>3, <1>5, <1>6 DEF RefreshAfterAppend
<1> QED
  BY <1>3, <1>10, <1>11, <1>12

\* Obstacles come: boxes and edges go, refilled boxes come.
LEMMA AddObstaclesKeeps ==
  ASSUME GridInv, NEW removed \in SUBSET Ids(boxes), NEW rs \in Refills(removed),
         NEW failed, AddObstacles(removed, rs, failed)
  PROVE  GridInv'
<1>1. PICK kept : kept = Excluding(boxes, removed)
  OBVIOUS
<1>2. PICK dead : dead = EdgesOf(removed) \cup failed
  OBVIOUS
<1>3. PICK alive : alive = Excluding(segs, dead)
  OBVIOUS
<1>4. /\ boxes' = Grown(kept, rs) /\ segs' = alive /\ pending = 0 /\ pending' = 0 /\ grown' = <<>>
      /\ grid' = RefreshAfterRemoveAppend(grid, removed, kept, rs, alive)
      /\ enabled' = enabled /\ behind' = behind
  BY <1>1, <1>2, <1>3 DEF AddObstacles
<1>5. BoxesGood(boxes) /\ SegsGood(segs, boxes)
  BY DEF GridInv
<1>6. /\ BoxesGood(kept) /\ Range(kept) = {b \in Range(boxes) : b.id \notin removed}
  <2>1. IsSeq(boxes) /\ Distinct(boxes) /\ Range(boxes) \subseteq BoxRecords
    BY <1>5 DEF BoxesGood
  <2>2. /\ IsSeq(kept) /\ Distinct(kept)
        /\ Range(kept) = {b \in Range(boxes) : b.id \notin removed}
    BY <1>1, <2>1, ExcludingFacts
  <2> QED
    BY <2>1, <2>2 DEF BoxesGood
<1>7. IsSeq(rs) /\ Range(rs) \subseteq Region
  <2>1. rs \in NewRegions(kept)
    BY <1>1 DEF Refills
  <2> QED
    BY <1>6, <2>1, NewRegionsFit
<1>8. PICK bs : bs = Grown(kept, rs)
  OBVIOUS
<1>9. BoxesGood(bs) /\ Ids(kept) \subseteq Ids(bs)
  BY <1>6, <1>7, <1>8, GrownFacts
<1>10. IsSeq(alive) /\ Distinct(alive) /\ Range(alive) = {e \in Range(segs) : e.id \notin dead}
  BY <1>3, <1>5, ExcludingFacts DEF SegsGood
<1>11. SegsGood(alive, bs)
  <2> SUFFICES ASSUME NEW e \in Range(alive)
               PROVE  e.id \in Nat /\ e.from \in Ids(bs) /\ e.to \in Ids(bs)
    BY <1>10 DEF SegsGood
  <2>1. e \in Range(segs) /\ e.id \notin EdgesOf(removed)
    BY <1>2, <1>10
  <2>2. e.id \in Nat /\ e.from \in Ids(boxes) /\ e.to \in Ids(boxes)
    BY <1>5, <2>1 DEF SegsGood
  <2>3. e.from \notin removed /\ e.to \notin removed
    <3>1. PICK j \in DOMAIN segs : e = segs[j]
      BY <2>1 DEF Range
    <3>2. {segs[j].from, segs[j].to} \cap removed # {} => e.id \in EdgesOf(removed)
      BY <3>1 DEF EdgesOf
    <3> QED
      BY <2>1, <3>1, <3>2
  <2>4. \A x \in Ids(boxes) : x \notin removed => x \in Ids(kept)
    BY <1>6, IdsOfRange
  <2> QED
    BY <1>9, <2>2, <2>3, <2>4
<1>12. ASSUME Mirrors(grid, boxes, pending, segs)
       PROVE  Mirrors(RefreshAfterRemoveAppend(grid, removed, kept, rs, alive), bs, 0, alive)
  <2>1. grid.cells = boxes
    BY <1>4, <1>5, <1>12, SubSeqWhole DEF Mirrors, BoxesGood
  <2> QED
    BY <1>1, <1>5, <1>7, <1>8, <1>10, <2>1, RemoveAppendMirrors
<1>13. 0 \in 0..Len(bs)
  BY <1>9, SeqShape DEF BoxesGood
<1>14. enabled /\ ~behind => Mirrors(RefreshAfterRemoveAppend(grid, removed, kept, rs, alive), bs, 0, alive)
  BY <1>12 DEF GridInv
<1> QED
  BY <1>4, <1>8, <1>9, <1>11, <1>13, <1>14 DEF GridInv

\* An obstacle goes: promoted boxes come.
LEMMA RemoveObstacleKeeps ==
  ASSUME GridInv, NEW rs \in NewRegions(boxes), RemoveObstacle(rs)
  PROVE  GridInv'
<1>1. /\ boxes' = Grown(boxes, rs) /\ grid' = RefreshAfterAppend(grid, boxes, rs, segs)
      /\ pending = 0 /\ pending' = 0 /\ grown' = <<>> /\ segs' = segs
      /\ enabled' = enabled /\ behind' = behind
  BY DEF RemoveObstacle
<1>2. BoxesGood(boxes) /\ SegsGood(segs, boxes)
  BY DEF GridInv
<1>3. IsSeq(rs) /\ Range(rs) \subseteq Region
  BY <1>2, NewRegionsFit
<1>4. PICK bs : bs = Grown(boxes, rs)
  OBVIOUS
<1>5. BoxesGood(bs) /\ Ids(boxes) \subseteq Ids(bs)
  BY <1>2, <1>3, <1>4, GrownFacts
<1>6. SegsGood(segs, bs)
  BY <1>2, <1>5, SegsKept
<1>7. ASSUME Mirrors(grid, boxes, pending, segs)
      PROVE  Mirrors(RefreshAfterAppend(grid, boxes, rs, segs), bs, 0, segs)
  BY <1>1, <1>2, <1>3, <1>4, <1>7, AppendMirrors DEF SegsGood
<1>8. 0 \in 0..Len(bs)
  BY <1>5, SeqShape DEF BoxesGood
<1>9. enabled /\ ~behind => Mirrors(RefreshAfterAppend(grid, boxes, rs, segs), bs, 0, segs)
  BY <1>7 DEF GridInv
<1> QED
  BY <1>1, <1>4, <1>5, <1>6, <1>8, <1>9 DEF GridInv

\* Every step keeps the invariant.
LEMMA GridInvStep ==
  ASSUME GridInv, [Next]_vars
  PROVE  GridInv'
<1>1. CASE BuildAdaptiveCover
  BY <1>1, BuildAdaptiveCoverKeeps
<1>2. CASE ClearForest
  BY <1>2, ClearForestKeeps
<1>3. CASE AppendPending
  BY <1>3, AppendPendingKeeps
<1>4. CASE \E s \in Sweeps : BuildLeafSweep(s)
  BY <1>4, BuildLeafSweepKeeps
<1>5. CASE \E r \in Regions : PushBox(r) \/ AnchorBox(r)
  BY <1>5, PushBoxKeeps, AnchorBoxKeeps
<1>6. CASE \E s, t \in Ids(boxes) : s < t /\ AddSegmentEdge(s, t)
  BY <1>6, AddSegmentEdgeKeeps
<1>7. CASE \E removed \in SUBSET Ids(boxes) :
             \E failed \in SUBSET (Ids(segs) \ EdgesOf(removed)), rs \in Refills(removed) :
               AddObstacles(removed, rs, failed)
  BY <1>7, AddObstaclesKeeps
<1>8. CASE \E rs \in NewRegions(boxes) : RemoveObstacle(rs)
  BY <1>8, RemoveObstacleKeeps
<1>9. CASE UNCHANGED vars
  BY <1>9 DEF vars, GridInv
<1> QED
  BY <1>1, <1>2, <1>3, <1>4, <1>5, <1>6, <1>7, <1>8, <1>9 DEF Next

-----------------------------------------------------------------------------
(* What the invariant says of the properties.                              *)

\* A partition that mirrors the forest shows a cell per box and the segment
\* edges, each by its id and its ends.
LEMMA InvMirrors ==
  ASSUME GridInv
  PROVE  PartitionMirrorsForest
<1> SUFFICES ASSUME enabled, ~behind PROVE MirrorsForest
  BY DEF PartitionMirrorsForest
<1>1. /\ BoxesGood(boxes) /\ pending \in 0..Len(boxes) /\ SegsGood(segs, boxes)
      /\ Mirrors(grid, boxes, pending, segs)
  BY DEF GridInv
<1>2. IsSeq(boxes) /\ Len(boxes) \in Nat
  BY <1>1, SeqShape DEF BoxesGood
<1>3. PICK n : n = Len(boxes) - pending
  OBVIOUS
<1>4. n \in 0..Len(boxes) /\ grid.cells = SubSeq(boxes, 1, n)
  BY <1>1, <1>2, <1>3 DEF Mirrors
<1>5. Range(grid.cells) = {boxes[i] : i \in 1..n}
  <2>1. IsSeq(grid.cells) /\ Len(grid.cells) = n /\ \A i \in 1..n : grid.cells[i] = boxes[i]
    BY <1>2, <1>4, SeqPrefix
  <2>2. DOMAIN grid.cells = 1..n
    BY <2>1, SeqShape
  <2> QED
    BY <2>1, <2>2 DEF Range
<1>6. ASSUME pending = 0
      PROVE  {[id |-> e.id, ends |-> {grid.cells[e.from].id, grid.cells[e.to].id}] : e \in grid.overlay}
               = {[id |-> e.id, ends |-> {e.from, e.to}] : e \in Range(segs)}
  <2> DEFINE there(o) == [id |-> o.id, ends |-> {grid.cells[o.from].id, grid.cells[o.to].id}]
             here(e) == [id |-> e.id, ends |-> {e.from, e.to}]
  <2>1. \A o, e : Shows(grid, o, e) => there(o) = here(e)
    BY DEF Shows
  <2>2. \A o \in grid.overlay : \E e \in Range(segs) : Shows(grid, o, e)
    BY <1>1 DEF Mirrors, OverlaySound
  <2>3. grid.cells = boxes
    BY <1>1, <1>2, <1>6, SubSeqWhole DEF Mirrors
  <2>4. \A e \in Range(segs) : \E o \in grid.overlay : o.id = e.id
    <3>1. \A e \in Range(segs) : HasCell(grid, e.from) /\ HasCell(grid, e.to)
      BY <1>1, <2>3 DEF SegsGood, Ids, HasCell, Cells
    <3> QED
      BY <1>1, <1>6, <3>1 DEF Mirrors, OverlayFull
  <2>5. \A e \in Range(segs) : \E o \in grid.overlay : Shows(grid, o, e)
    <3> TAKE e \in Range(segs)
    <3>1. PICK o \in grid.overlay : o.id = e.id
      BY <2>4
    <3>2. PICK f \in Range(segs) : Shows(grid, o, f)
      BY <2>2
    <3>3. f.id = e.id
      BY <3>1, <3>2 DEF Shows
    <3>4. f = e
      BY <1>1, <3>3 DEF SegsGood, Distinct, Range
    <3> QED
      BY <3>2, <3>4
  <2> HIDE DEF there, here
  <2>6. {there(o) : o \in grid.overlay} = {here(e) : e \in Range(segs)}
    BY <2>1, <2>2, <2>5
  <2> QED
    BY <2>6 DEF there, here
<1> QED
  BY <1>3, <1>5, <1>6 DEF MirrorsForest

\* A good list has as many ids as boxes.
LEMMA IdsCounted ==
  ASSUME NEW bs, BoxesGood(bs)
  PROVE  Cardinality(Ids(bs)) = Len(bs)
<1> DEFINE f == [i \in 1..Len(bs) |-> bs[i].id]
<1>1. Len(bs) \in Nat /\ DOMAIN bs = 1..Len(bs)
  BY SeqShape DEF BoxesGood
<1>2. f \in Bijection(1..Len(bs), Ids(bs))
  <2>1. f \in [1..Len(bs) -> Ids(bs)]
    BY <1>1 DEF Ids
  <2>2. \A x \in Ids(bs) : \E i \in 1..Len(bs) : f[i] = x
    BY <1>1 DEF Ids
  <2>3. \A i, j \in 1..Len(bs) : f[i] = f[j] => i = j
    BY <1>1 DEF BoxesGood, Distinct
  <2> HIDE DEF f
  <2> QED
    BY <2>1, <2>2, <2>3 DEF Bijection, Injection, Surjection, IsInjective, Range
<1>3. ExistsBijection(1..Len(bs), Ids(bs))
  BY <1>2 DEF ExistsBijection
<1>4. IsFiniteSet(1..Len(bs)) /\ Cardinality(1..Len(bs)) = IF 1 > Len(bs) THEN 0 ELSE Len(bs) - 1 + 1
  BY <1>1, FS_Interval
<1>5. Cardinality(1..Len(bs)) = Len(bs)
  BY <1>1, <1>4
<1> QED
  BY <1>3, <1>4, <1>5, FS_Bijection

\* Boxes that stand for the grown ones keep what those cover.
LEMMA InvKeepsCover ==
  ASSUME GridInv
  PROVE  MergeKeepsCover
<1> SUFFICES ASSUME grown # <<>>
             PROVE  /\ CellsCovered(boxes) = CellsCovered(grown)
                    /\ Ids(boxes) \subseteq Ids(grown) /\ Cardinality(Ids(boxes)) = Len(boxes)
                    /\ \A i \in DOMAIN grown, o \in DOMAIN boxes :
                         grown[i].id = boxes[o].id => Inside(grown[i].region, boxes[o].region)
  BY DEF MergeKeepsCover
<1>1. BoxesGood(boxes) /\ BoxesGood(grown) /\ StandFor(Range(boxes), Range(grown))
  BY DEF GridInv
<1>2. CellsCovered(boxes) = CellsCovered(grown)
  <2> DEFINE lo == Min({r[d][1] : r \in Range(Roots), d \in Dim})
             hi == Max({r[d][2] : r \in Range(Roots), d \in Dim})
             box == [Dim -> lo..hi]
  <2>1. \A bs : CellsCovered(bs) =
          {p \in box : \E i \in DOMAIN bs : \A d \in Dim : bs[i].region[d][1] <= p[d] /\ p[d] < bs[i].region[d][2]}
    BY DEF CellsCovered
  <2>2. lo..hi \subseteq Int
    OBVIOUS
  <2> HIDE DEF lo, hi
  <2>3. \A p \in box : p \in Point
    BY <2>2 DEF Point
  <2> HIDE DEF box
  <2>4. \A bs, p : (\E i \in DOMAIN bs : \A d \in Dim : bs[i].region[d][1] <= p[d] /\ p[d] < bs[i].region[d][2])
                     <=> Covers(Range(bs), p)
    BY DEF Covers, Holds, Range
  <2>5. \A bs, p : p \in CellsCovered(bs) <=> p \in box /\ Covers(Range(bs), p)
    BY <2>1, <2>4
  <2>6. \A p \in box : Covers(Range(boxes), p) <=> Covers(Range(grown), p)
    BY <1>1, <2>3 DEF StandFor
  <2>7. \A p : p \in CellsCovered(boxes) <=> p \in CellsCovered(grown)
    BY <2>5, <2>6
  <2>8. CellsCovered(boxes) \subseteq box /\ CellsCovered(grown) \subseteq box
    BY <2>1
  <2> QED
    BY <2>7, <2>8
<1>3. Ids(boxes) \subseteq Ids(grown)
  BY <1>1, IdsOfRange DEF StandFor
<1>4. Cardinality(Ids(boxes)) = Len(boxes)
  BY <1>1, IdsCounted
<1>5. \A i \in DOMAIN grown, o \in DOMAIN boxes :
        grown[i].id = boxes[o].id => Inside(grown[i].region, boxes[o].region)
  BY <1>1 DEF StandFor, Range
<1> QED
  BY <1>2, <1>3, <1>4, <1>5

\* The invariant of the partition and the forest it is kept beside.
THEOREM GridInvAlways == Spec => []GridInv
BY GridInvInit, GridInvStep, PTL DEF Spec

\* Unless a build of the forest left it behind, the partition that answers
\* queries has a cell per box a bridge has handed over and an overlay edge per
\* segment edge, no other (adaptive_grid_partition.cpp:633-765, 1230-1330 and
\* the facade's refreshes): whatever appends, removals, refills, promotions and
\* edges came before, in any number of dimensions.
THEOREM PartitionShowsForest == Spec => []PartitionMirrorsForest
BY GridInvAlways, InvMirrors, PTL

\* merge_boxes with its deadline falling anywhere: the boxes of the forest cover
\* what was grown, under ids that were grown and are given once, and a box that
\* is not released keeps what it covered.
THEOREM MergesKeepCover == Spec => []MergeKeepsCover
BY GridInvAlways, InvKeepsCover, PTL

=============================================================================
