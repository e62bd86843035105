------------------------- MODULE DynamicSceneProofs -------------------------
(***************************************************************************)
(* What the dynamic box forest keeps whatever obstacles come and go, for   *)
(* every depth of the tree, scene, list of batches and pair of validators: *)
(* its graph is the one a rebuild would compute (GraphCorrect), no update  *)
(* makes a box collide (UpdatesSafe), its regions and books are exact      *)
(* (BookkeepingCorrect), and no update loses what the cache knows of the   *)
(* obstacles that stay (KnowledgeKept).                                    *)
(*                                                                         *)
(* The argument follows a forest through the method that changes it        *)
(* (Grown): every helper appends boxes behind those that were there, with  *)
(* fresh ids, and each box it appends is free of the scene the method ends *)
(* with.  For the books: two nodes of the tree are apart or nested, the    *)
(* nodes a sweep returns do not overlap, and the leaves below a removed    *)
(* box fill it exactly.  Each recursion of the model is unrolled with      *)
(* Recursion and UpTo of DataLemmas.                                       *)
(***************************************************************************)
EXTENDS DynamicScene, DataLemmas, FiniteSetTheorems

-----------------------------------------------------------------------------
(* Nodes. *)

\* The powers of two, and the recursion they obey.
LEMMA TwoToFacts ==
  /\ TwoTo[0] = 1
  /\ \A d \in 1..MaxDepth : TwoTo[d] = 2 * TwoTo[d - 1]
  /\ \A d \in 0..MaxDepth : TwoTo[d] \in Nat \ {0}
<1> DEFINE step == [y \in (1..MaxDepth) \X Nat |-> 2 * y[2]]
<1>1. MaxDepth \in Nat
  BY DepthAssumption
<1>2. \A k \in 1..MaxDepth : \A x \in Nat : step[<<k, x>>] = 2 * x /\ step[<<k, x>>] \in Nat
  OBVIOUS
<1> HIDE DEF step
<1>3. PICK g : Computes(g, MaxDepth, 1, step) /\ \A k \in 0..MaxDepth : g[k] \in Nat
  <2>1. 1 \in Nat /\ \A k \in 1..MaxDepth : \A x \in Nat : step[<<k, x>>] \in Nat
    BY <1>2
  <2> QED
    BY <1>1, <2>1, Recursion
<1>4. g = [d \in 0..MaxDepth |-> IF d = 0 THEN 1 ELSE 2 * g[d - 1]]
  <2>1. ASSUME NEW k \in 0..MaxDepth, k # 0 PROVE step[<<k, g[k - 1]>>] = 2 * g[k - 1]
    <3>1. k \in 1..MaxDepth /\ k - 1 \in 0..MaxDepth
      BY <1>1, <2>1
    <3>2. g[k - 1] \in Nat
      BY <1>3, <3>1
    <3> QED
      BY <3>1, <3>2, <1>2
  <2>2. \A k \in 0..MaxDepth : (IF k = 0 THEN 1 ELSE step[<<k, g[k - 1]>>])
                                 = (IF k = 0 THEN 1 ELSE 2 * g[k - 1])
    BY <2>1
  <2> QED
    BY <1>3, <2>2 DEF Computes
<1>5. TwoTo = [d \in 0..MaxDepth |-> IF d = 0 THEN 1 ELSE 2 * TwoTo[d - 1]]
  <2> DEFINE P(f) == f = [d \in 0..MaxDepth |-> IF d = 0 THEN 1 ELSE 2 * f[d - 1]]
  <2>1. \E f : P(f)
    BY <1>4
  <2>2. TwoTo = CHOOSE f : P(f)
    BY DEF TwoTo
  <2> HIDE DEF P
  <2>3. P(TwoTo)
    BY <2>1, <2>2
  <2> QED
    BY <2>3 DEF P
<1>6. \A d \in 0..MaxDepth : TwoTo[d] = IF d = 0 THEN 1 ELSE 2 * TwoTo[d - 1]
  BY <1>5
<1>7. TwoTo[0] = 1 /\ \A d \in 1..MaxDepth : TwoTo[d] = 2 * TwoTo[d - 1]
  <2>1. 0 \in 0..MaxDepth /\ \A d \in 1..MaxDepth : d \in 0..MaxDepth /\ d # 0
    BY <1>1
  <2> QED
    BY <1>6, <2>1
<1> DEFINE T == {d \in 0..MaxDepth : TwoTo[d] \in Nat \ {0}}
<1>8. 0 \in T
  BY <1>1, <1>7
<1>9. ASSUME NEW d \in 1..MaxDepth, d - 1 \in T PROVE d \in T
  <2>1. TwoTo[d] = 2 * TwoTo[d - 1] /\ TwoTo[d - 1] \in Nat \ {0} /\ d \in 0..MaxDepth
    BY <1>1, <1>7, <1>9
  <2> QED
    BY <2>1
<1>10. \A d \in 0..MaxDepth : d \in T
  <2> HIDE DEF T
  <2> QED
    BY <1>1, <1>8, <1>9, UpTo
<1> QED
  BY <1>7, <1>10

\* A node is a depth and a position among the nodes of that depth.
LEMMA NodeParts ==
  ASSUME NEW n
  PROVE  n \in Node <=> \E d \in 0..MaxDepth : \E k \in 0..(TwoTo[d] - 1) : n = <<d, k>>
BY DEF Node

\* The children of a node above the last depth are nodes, one deeper.
LEMMA ChildIsNode ==
  ASSUME NEW n \in Node, n[1] < MaxDepth, NEW side \in {0, 1}
  PROVE  Child(n, side) \in Node /\ Child(n, side)[1] = n[1] + 1 /\ n[1] \in 0..MaxDepth
<1>1. MaxDepth \in Nat
  BY DepthAssumption
<1>2. PICK d \in 0..MaxDepth : \E k \in 0..(TwoTo[d] - 1) : n = <<d, k>>
  BY NodeParts
<1>20. PICK k \in 0..(TwoTo[d] - 1) : n = <<d, k>>
  BY <1>2
<1>3. n[1] = d /\ n[2] = k /\ d < MaxDepth
  BY <1>20
<1>4. d + 1 \in 1..MaxDepth /\ d + 1 \in 0..MaxDepth /\ (d + 1) - 1 = d
  BY <1>1, <1>3
<1>5. TwoTo[d + 1] = 2 * TwoTo[d] /\ TwoTo[d] \in Nat
  BY <1>4, TwoToFacts
<1>6. 2 * k + side \in 0..(TwoTo[d + 1] - 1)
  BY <1>5
<1>7. Child(n, side) = <<d + 1, 2 * k + side>>
  BY <1>3 DEF Child
<1> QED
  BY <1>3, <1>4, <1>6, <1>7, NodeParts

-----------------------------------------------------------------------------
(* Sequences the model computes. *)

\* How the model keeps the elements of a sequence that are in a set.
LEMMA KeptUnfolds ==
  ASSUME NEW s, IsSeq(s), NEW S
  PROVE  \E u : /\ u[0] = <<>> /\ Kept(s, S) = u[Len(s)] /\ Len(s) \in Nat
               /\ \A k \in 1..Len(s) :
                    u[k] = IF s[k] \in S THEN Append(u[k - 1], s[k]) ELSE u[k - 1]
<1> DEFINE n == Len(s)
           U == Seq(Range(s))
           Op(x, k) == IF s[k] \in S THEN Append(x, s[k]) ELSE x
           step == [y \in (1..n) \X U |-> Op(y[2], y[1])]
           P(f) == f = [k \in 0..n |-> IF k = 0 THEN <<>> ELSE Op(f[k - 1], k)]
           u == CHOOSE f : P(f)
<1>1. n \in Nat /\ \A k \in 1..n : s[k] \in Range(s)
  BY SeqShape
<1>2. \A k \in 1..n : \A x \in U : step[<<k, x>>] = Op(x, k) /\ step[<<k, x>>] \in U
  BY <1>1
<1>3. Kept(s, S) = u[n]
  BY DEF Kept
<1> HIDE DEF step, U, n
<1>4. PICK g : Computes(g, n, <<>>, step) /\ \A k \in 0..n : g[k] \in U
  <2>1. <<>> \in U /\ \A k \in 1..n : \A x \in U : step[<<k, x>>] \in U
    BY <1>2 DEF U
  <2> QED
    BY <1>1, <2>1, Recursion
<1> HIDE DEF Op
<1>5. P(g)
  <2>1. ASSUME NEW k \in 0..n, k # 0 PROVE step[<<k, g[k - 1]>>] = Op(g[k - 1], k)
    <3>1. k \in 1..n /\ k - 1 \in 0..n
      BY <1>1, <2>1
    <3> QED
      BY <3>1, <1>2, <1>4
  <2>2. \A k \in 0..n : (IF k = 0 THEN <<>> ELSE step[<<k, g[k - 1]>>])
                          = (IF k = 0 THEN <<>> ELSE Op(g[k - 1], k))
    BY <2>1
  <2> QED
    BY <1>4, <2>2 DEF Computes
<1>6. P(u)
  <2> HIDE DEF P
  <2> QED
    BY <1>5
<1>7. \A k \in 0..n : u[k] = IF k = 0 THEN <<>> ELSE Op(u[k - 1], k)
  <2> HIDE DEF u
  <2> QED
    BY <1>6
<1> HIDE DEF u, P
<1>8. u[0] = <<>>
  BY <1>1, <1>7
<1>9. \A k \in 1..n : u[k] = Op(u[k - 1], k)
  BY <1>1, <1>7
<1> QED
  BY <1>1, <1>3, <1>8, <1>9 DEF n, Op

\* What Kept keeps, and that it keeps nothing twice.
LEMMA KeptFacts ==
  ASSUME NEW s, IsSeq(s), NEW S
  PROVE  /\ IsSeq(Kept(s, S))
         /\ Range(Kept(s, S)) = Range(s) \cap S
         /\ (\A i, j \in 1..Len(s) : s[i] = s[j] => i = j)
              => \A i, j \in 1..Len(Kept(s, S)) : Kept(s, S)[i] = Kept(s, S)[j] => i = j
<1>1. PICK u :
        /\ u[0] = <<>> /\ Kept(s, S) = u[Len(s)] /\ Len(s) \in Nat
        /\ \A k \in 1..Len(s) : u[k] = IF s[k] \in S THEN Append(u[k - 1], s[k]) ELSE u[k - 1]
  BY KeptUnfolds
<1> DEFINE n == Len(s)
           Seen(k) == {s[i] : i \in 1..k}
           Single == \A i, j \in 1..n : s[i] = s[j] => i = j
           Ok(x, k) == /\ IsSeq(x) /\ Range(x) = Seen(k) \cap S
                       /\ Single => \A i, j \in 1..Len(x) : x[i] = x[j] => i = j
           T == {k \in 0..n : Ok(u[k], k)}
<1>8. 0 \in T
  <2>1. u[0] = <<>> /\ 0 \in 0..n
    BY <1>1
  <2>2. Seen(0) = {}
    OBVIOUS
  <2>3. Ok(<<>>, 0)
    BY <2>2, SeqEmpty
  <2> QED
    BY <2>1, <2>3
<1>9. ASSUME NEW k \in 1..n, k - 1 \in T PROVE k \in T
  <2>1. k \in 0..n /\ k # 0 /\ u[k] = IF s[k] \in S THEN Append(u[k - 1], s[k]) ELSE u[k - 1]
    BY <1>1
  <2> DEFINE x == u[k - 1]
  <2>2. Ok(x, k - 1)
    BY <1>9
  <2> HIDE DEF x
  <2>3. Seen(k) = Seen(k - 1) \cup {s[k]}
    <3>1. 1..k = (1..k - 1) \cup {k}
      BY <1>1
    <3> QED
      BY <3>1
  <2>4. CASE s[k] \notin S
    <3>1. u[k] = x
      BY <2>1, <2>4 DEF x
    <3>2. Seen(k) \cap S = Seen(k - 1) \cap S
      BY <2>3, <2>4
    <3>3. Ok(x, k)
      BY <2>2, <3>2
    <3> QED
      BY <2>1, <3>1, <3>3
  <2>5. CASE s[k] \in S
    <3>1. u[k] = Append(x, s[k])
      BY <2>1, <2>5 DEF x
    <3>2. /\ IsSeq(Append(x, s[k])) /\ Range(Append(x, s[k])) = Range(x) \cup {s[k]}
          /\ Len(Append(x, s[k])) = Len(x) + 1 /\ Len(x) \in Nat
          /\ \A i \in 1..Len(x) : Append(x, s[k])[i] = x[i] /\ x[i] \in Range(x)
          /\ Append(x, s[k])[Len(x) + 1] = s[k]
      BY <2>2, SeqAppend, SeqShape
    <3>3. Range(Append(x, s[k])) = Seen(k) \cap S
      BY <2>2, <2>3, <2>5, <3>2
    <3>4. ASSUME Single PROVE \A i, j \in 1..Len(x) + 1 : Append(x, s[k])[i] = Append(x, s[k])[j] => i = j
      <4> DEFINE y == Append(x, s[k])
      <4>1. s[k] \notin Range(x)
        <5>1. SUFFICES ASSUME s[k] \in Range(x) PROVE FALSE
          OBVIOUS
        <5>2. PICK i \in 1..k - 1 : s[i] = s[k]
          BY <2>2, <5>1
        <5>3. i \in 1..n /\ i # k
          BY <1>1
        <5> QED
          BY <5>2, <5>3, <3>4
      <4>2. \A i, j \in 1..Len(x) : x[i] = x[j] => i = j
        BY <2>2, <3>4
      <4>3. \A i \in 1..Len(x) : y[i] = x[i] /\ y[i] # s[k]
        BY <3>2, <4>1
      <4>4. y[Len(x) + 1] = s[k]
        BY <3>2
      <4>5. \A i \in 1..Len(x) + 1 : i \in 1..Len(x) \/ i = Len(x) + 1
        BY <3>2
      <4> HIDE DEF y
      <4>6. \A i, j \in 1..Len(x) + 1 : y[i] = y[j] => i = j
        BY <4>2, <4>3, <4>4, <4>5
      <4> QED
        BY <4>6 DEF y
    <3>5. Ok(Append(x, s[k]), k)
      BY <3>2, <3>3, <3>4
    <3> QED
      BY <2>1, <3>1, <3>5
  <2> QED
    BY <2>4, <2>5
<1>10. n \in T
  <2> HIDE DEF T
  <2>1. n \in 0..n
    BY <1>1
  <2> QED
    BY <1>1, <1>8, <1>9, <2>1, UpTo
<1>11. Ok(u[n], n)
  BY <1>10
<1>12. Seen(n) = Range(s)
  <2>1. DOMAIN s = 1..n
    BY SeqShape DEF n
  <2> QED
    BY <2>1 DEF Range
<1> QED
  BY <1>1, <1>11, <1>12

\* The breadth-first list of the nodes is built depth by depth.
LEMMA NodesInOrderUnfolds ==
  \E u : /\ u[0] = <<<<0, 0>>>> /\ NodesInOrder = u[LeafDepth] /\ LeafDepth \in Nat
         /\ \A d \in 1..LeafDepth : u[d] = u[d - 1] \o [k \in 1..TwoTo[d] |-> <<d, k - 1>>]
         /\ \A d \in 0..LeafDepth : u[d] \in Seq(Int \X Int)
<1> DEFINE n == LeafDepth
           U == Seq(Int \X Int)
           Op(x, d) == x \o [k \in 1..TwoTo[d] |-> <<d, k - 1>>]
           step == [y \in (1..n) \X U |-> Op(y[2], y[1])]
           P(f) == f = [d \in 0..n |-> IF d = 0 THEN <<<<0, 0>>>> ELSE Op(f[d - 1], d)]
           u == CHOOSE f : P(f)
<1>1. n \in Nat /\ \A d \in 1..n : TwoTo[d] \in Nat
  <2>1. n \in 0..MaxDepth /\ MaxDepth \in Nat
    BY DepthAssumption
  <2> QED
    BY <2>1, TwoToFacts
<1>2. ASSUME NEW d \in 1..n, NEW x \in U PROVE step[<<d, x>>] = Op(x, d) /\ Op(x, d) \in U
  <2>1. [k \in 1..TwoTo[d] |-> <<d, k - 1>>] \in U
    <3> DEFINE row == [k \in 1..TwoTo[d] |-> <<d, k - 1>>]
    <3>1. d \in Int /\ \A k \in 1..TwoTo[d] : <<d, k - 1>> \in Int \X Int
      BY <1>1
    <3>2. \A k \in 1..TwoTo[d] : row[k] \in Int \X Int
      BY <3>1
    <3>3. TwoTo[d] \in Nat /\ row = [k \in 1..TwoTo[d] |-> row[k]]
      BY <1>1
    <3> HIDE DEF row
    <3>4. IsSeq(row) /\ Range(row) = {row[k] : k \in 1..TwoTo[d]}
      BY <3>3, SeqFunction
    <3>5. Range(row) \subseteq Int \X Int
      BY <3>2, <3>4
    <3>6. row \in U
      BY <3>4, <3>5, SeqWider
    <3> QED
      BY <3>6 DEF row
  <2>2. Op(x, d) \in U
    BY <2>1, ConcatProperties
  <2> QED
    BY <2>2
<1>3. NodesInOrder = u[n]
  BY DEF NodesInOrder
<1> HIDE DEF step, n
<1>4. PICK g : Computes(g, n, <<<<0, 0>>>>, step) /\ \A k \in 0..n : g[k] \in U
  <2>1. <<<<0, 0>>>> \in U
    OBVIOUS
  <2>2. \A k \in 1..n : \A x \in U : step[<<k, x>>] \in U
    BY <1>2
  <2> HIDE DEF U
  <2> QED
    BY <1>1, <2>1, <2>2, Recursion
<1> HIDE DEF Op, U
<1>5. P(g)
  <2>1. ASSUME NEW k \in 0..n, k # 0 PROVE step[<<k, g[k - 1]>>] = Op(g[k - 1], k)
    <3>1. k \in 1..n /\ k - 1 \in 0..n
      BY <1>1, <2>1
    <3> QED
      BY <3>1, <1>2, <1>4
  <2>2. \A k \in 0..n : (IF k = 0 THEN <<<<0, 0>>>> ELSE step[<<k, g[k - 1]>>])
                          = (IF k = 0 THEN <<<<0, 0>>>> ELSE Op(g[k - 1], k))
    BY <2>1
  <2> QED
    BY <1>4, <2>2 DEF Computes
<1>6. P(u)
  <2> HIDE DEF P
  <2> QED
    BY <1>5
<1>7. \A k \in 0..n : u[k] = IF k = 0 THEN <<<<0, 0>>>> ELSE Op(u[k - 1], k)
  <2> HIDE DEF u
  <2> QED
    BY <1>6
<1> HIDE DEF u, P
<1> DEFINE T == {k \in 0..n : u[k] \in U}
<1>8. 0 \in T
  BY <1>1, <1>7 DEF U
<1>9. ASSUME NEW k \in 1..n, k - 1 \in T PROVE k \in T
  <2>1. k \in 0..n /\ k # 0 /\ u[k] = Op(u[k - 1], k)
    BY <1>1, <1>7
  <2> QED
    BY <1>2, <1>9, <2>1
<1>10. \A k \in 0..n : k \in T
  <2> HIDE DEF T
  <2> QED
    BY <1>1, <1>8, <1>9, UpTo
<1>11. u[0] = <<<<0, 0>>>>
  <2>1. 0 \in 0..n
    BY <1>1
  <2> QED
    BY <1>7, <2>1
<1>12. \A k \in 1..n : u[k] = Op(u[k - 1], k)
  BY <1>1, <1>7
<1> QED
  BY <1>1, <1>3, <1>10, <1>11, <1>12 DEF n, Op, U, T

\* The breadth-first list of the nodes is a sequence.
LEMMA NodesInOrderSeq == IsSeq(NodesInOrder)
<1>1. PICK u :
        /\ u[0] = <<<<0, 0>>>> /\ NodesInOrder = u[LeafDepth] /\ LeafDepth \in Nat
        /\ \A d \in 1..LeafDepth : u[d] = u[d - 1] \o [k \in 1..TwoTo[d] |-> <<d, k - 1>>]
        /\ \A d \in 0..LeafDepth : u[d] \in Seq(Int \X Int)
  BY NodesInOrderUnfolds
<1>2. NodesInOrder \in Seq(Int \X Int)
  BY <1>1
<1> QED
  BY <1>2, SeqTyped

\* A breadth-first list of a set holds nothing outside the set.
LEMMA BreadthFirstFacts ==
  ASSUME NEW S
  PROVE  IsSeq(BreadthFirst(S)) /\ Range(BreadthFirst(S)) \subseteq S
BY NodesInOrderSeq, KeptFacts DEF BreadthFirst

\* P maps each node to what a refill pops below it.
IsPops(P, sc, reserved) ==
  \A x \in Node : P[x] = IF x \in reserved \/ NodeFree(x, sc) \/ x[1] = MaxDepth THEN <<x>>
                       ELSE <<x>> \o (P[Child(x, 0)] \o P[Child(x, 1)])

\* What is popped below a node, by what is popped below its children.
LEMMA PopsUnfold ==
  ASSUME NEW sc, NEW reserved
  PROVE  IsPops(Pops(sc, reserved), sc, reserved)
<1> DEFINE Deep(m) == {x \in Node : x[1] >= MaxDepth - m}
           Body(f, x) == IF x \in reserved \/ NodeFree(x, sc) \/ x[1] = MaxDepth THEN <<x>>
                         ELSE <<x>> \o (f[Child(x, 0)] \o f[Child(x, 1)])
           P(f, m) == f = [x \in Deep(m) |-> Body(f, x)]
<1>1. MaxDepth \in Nat /\ \A x \in Node : x[1] \in 0..MaxDepth
  BY DepthAssumption, NodeParts
<1>2. ASSUME NEW m \in 1..MaxDepth, NEW x \in Deep(m), x[1] # MaxDepth
      PROVE  Child(x, 0) \in Deep(m - 1) /\ Child(x, 1) \in Deep(m - 1)
  <2>1. x \in Node /\ x[1] < MaxDepth
    BY <1>1, <1>2
  <2>2. \A side \in {0, 1} : Child(x, side) \in Node /\ Child(x, side)[1] = x[1] + 1
    BY <2>1, ChildIsNode
  <2>3. x[1] >= MaxDepth - m /\ x[1] \in 0..MaxDepth
    BY <1>1
  <2>4. x[1] + 1 >= MaxDepth - (m - 1)
    BY <1>1, <2>3
  <2> QED
    BY <2>2, <2>4
<1>3. \A x \in Deep(0) : x[1] = MaxDepth
  BY <1>1
<1>4. ASSUME NEW m \in 1..MaxDepth, NEW x \in Deep(m), x \notin Deep(m - 1) PROVE x[1] # MaxDepth
  BY <1>1, <1>4
<1>5. \A m \in 1..MaxDepth : Deep(m - 1) \subseteq Deep(m)
  BY <1>1
<1>6. ASSUME NEW m \in 1..MaxDepth, NEW f, NEW g, NEW x \in Deep(m), \A y \in Deep(m - 1) : f[y] = g[y]
      PROVE  Body(f, x) = Body(g, x)
  <2>1. CASE x[1] = MaxDepth
    BY <2>1
  <2>2. CASE x[1] # MaxDepth
    BY <1>2, <1>6, <2>2
  <2> QED
    BY <2>1, <2>2
<1> DEFINE T == {m \in 0..MaxDepth : \E f : P(f, m)}
<1>7. 0 \in T
  <2> DEFINE f == [x \in Deep(0) |-> <<x>>]
  <2>1. \A x \in Deep(0) : Body(f, x) = <<x>>
    BY <1>3
  <2>2. P(f, 0)
    BY <2>1
  <2>3. 0 \in 0..MaxDepth
    BY <1>1
  <2> HIDE DEF P, f
  <2> QED
    BY <2>2, <2>3
<1>8. ASSUME NEW m \in 1..MaxDepth, m - 1 \in T PROVE m \in T
  <2>1. PICK f : P(f, m - 1)
    BY <1>8
  <2> HIDE DEF Body
  <2> DEFINE g == [x \in Deep(m) |-> IF x \in Deep(m - 1) THEN f[x] ELSE Body(f, x)]
  <2>2. \A y \in Deep(m - 1) : f[y] = g[y] /\ f[y] = Body(f, y)
    <3> HIDE DEF Deep
    <3> QED
      BY <1>5, <2>1
  <2>3. \A x \in Deep(m) : g[x] = Body(g, x)
    <3> TAKE x \in Deep(m)
    <3>1. Body(f, x) = Body(g, x)
      <4> HIDE DEF g, Deep
      <4> QED
        BY <1>6, <2>2
    <3>2. g[x] = Body(f, x)
      <4> HIDE DEF Deep
      <4> QED
        BY <2>2
    <3> QED
      BY <3>1, <3>2
  <2>4. P(g, m)
    <3> HIDE DEF Deep
    <3>1. g = [x \in Deep(m) |-> g[x]]
      OBVIOUS
    <3> HIDE DEF g
    <3> QED
      BY <2>3, <3>1
  <2>5. m \in 0..MaxDepth
    BY <1>1
  <2> HIDE DEF P, g
  <2> QED
    BY <2>4, <2>5
<1>9. MaxDepth \in T
  <2> HIDE DEF T
  <2>1. MaxDepth \in 0..MaxDepth
    BY <1>1
  <2> QED
    BY <1>1, <1>7, <1>8, <2>1, UpTo
<1> DEFINE W(f) == f = [x \in Node |-> Body(f, x)]
           L == CHOOSE f : W(f)
<1>10. Pops(sc, reserved) = L
  BY DEF Pops
<1>11. W(L)
  <2>1. Deep(MaxDepth) = Node
    BY <1>1
  <2>2. \E f : P(f, MaxDepth)
    BY <1>9
  <2>3. \E f : W(f)
    <3> HIDE DEF Deep, Body
    <3> QED
      BY <2>1, <2>2
  <2> HIDE DEF W
  <2> QED
    BY <2>3
<1> HIDE DEF L
<1>12. \A x \in Node : L[x] = Body(L, x)
  <2> HIDE DEF Body
  <2> QED
    BY <1>11
<1> QED
  BY <1>10, <1>12 DEF IsPops

\* What is popped below a node are nodes, in a sequence.
LEMMA PopsAreNodes ==
  ASSUME NEW sc, NEW reserved, NEW n \in Node
  PROVE  Pops(sc, reserved)[n] \in Seq(Node)
<1> DEFINE Deep(m) == {x \in Node : x[1] >= MaxDepth - m}
<1>1. MaxDepth \in Nat /\ \A x \in Node : x[1] \in 0..MaxDepth
  BY DepthAssumption, NodeParts
<1>2. ASSUME NEW m \in 1..MaxDepth, NEW x \in Deep(m), x[1] # MaxDepth
      PROVE  Child(x, 0) \in Deep(m - 1) /\ Child(x, 1) \in Deep(m - 1)
  <2>1. x \in Node /\ x[1] < MaxDepth
    BY <1>1, <1>2
  <2>2. \A side \in {0, 1} : Child(x, side) \in Node /\ Child(x, side)[1] = x[1] + 1
    BY <2>1, ChildIsNode
  <2>3. x[1] >= MaxDepth - m /\ x[1] \in 0..MaxDepth
    BY <1>1
  <2>4. x[1] + 1 >= MaxDepth - (m - 1)
    BY <1>1, <2>3
  <2> QED
    BY <2>2, <2>4
<1>3. \A x \in Deep(0) : x[1] = MaxDepth
  BY <1>1
<1>10. PICK L : L = Pops(sc, reserved)
  OBVIOUS
<1>4. IsPops(L, sc, reserved)
  BY <1>10, PopsUnfold
<1>12. \A x \in Node :
         /\ L[x] = <<x>> \/ L[x] = <<x>> \o (L[Child(x, 0)] \o L[Child(x, 1)])
         /\ x[1] = MaxDepth => L[x] = <<x>>
  BY <1>4 DEF IsPops
<1>17. <<>> \in Seq(Node) /\ \A x \in Node : <<x>> \in Seq(Node)
  OBVIOUS
<1> DEFINE V == {m \in 0..MaxDepth : \A x \in Deep(m) : L[x] \in Seq(Node)}
<1>13. 0 \in V
  <2>1. ASSUME NEW x \in Deep(0) PROVE L[x] \in Seq(Node)
    <3>1. x \in Node /\ x[1] = MaxDepth
      BY <1>3
    <3>2. L[x] = <<x>>
      BY <1>12, <3>1
    <3> QED
      BY <3>1, <3>2, <1>17
  <2> QED
    BY <1>1, <2>1
<1>14. ASSUME NEW m \in 1..MaxDepth, m - 1 \in V PROVE m \in V
  <2>1. ASSUME NEW x \in Deep(m) PROVE L[x] \in Seq(Node)
    <3>1. x \in Node
      OBVIOUS
    <3>2. CASE x[1] = MaxDepth
      <4>1. L[x] = <<x>>
        BY <1>12, <3>1, <3>2
      <4> QED
        BY <3>1, <4>1, <1>17
    <3>3. CASE x[1] # MaxDepth
      <4>1. Child(x, 0) \in Deep(m - 1) /\ Child(x, 1) \in Deep(m - 1)
        BY <1>2, <3>3
      <4>2. L[Child(x, 0)] \in Seq(Node) /\ L[Child(x, 1)] \in Seq(Node)
        BY <1>14, <4>1
      <4>3. <<x>> \o (L[Child(x, 0)] \o L[Child(x, 1)]) \in Seq(Node)
        BY <1>17, <3>1, <4>2, ConcatProperties
      <4>4. L[x] = <<x>> \/ L[x] = <<x>> \o (L[Child(x, 0)] \o L[Child(x, 1)])
        BY <1>12, <3>1
      <4> QED
        BY <3>1, <4>3, <4>4, <1>17
    <3> QED
      BY <3>2, <3>3
  <2>2. m \in 0..MaxDepth
    BY <1>1
  <2> QED
    BY <2>1, <2>2
<1>15. MaxDepth \in V
  <2> HIDE DEF V
  <2>1. MaxDepth \in 0..MaxDepth
    BY <1>1
  <2> QED
    BY <1>1, <1>13, <1>14, <2>1, UpTo
<1>16. n \in Deep(MaxDepth)
  BY <1>1
<1> QED
  BY <1>10, <1>15, <1>16

-----------------------------------------------------------------------------
(* Forests. *)

BoxNodes == [id : Nat, node : Node]
CachedBoxes == [node : Node, blockers : SUBSET (0..(MaxScene - 1)), active : BOOLEAN]
Indices == [0..(MaxScene - 1) -> Seq(Nat)]
ReservationMaps == UNION {[D -> Nat] : D \in SUBSET Node}
Forests == [boxes : Seq(BoxNodes), res : ReservationMaps, cache : Seq(CachedBoxes),
            index : Indices, count : Int, nextId : Nat]

FreshIds(f) ==
  /\ \A i \in 1..Len(f.boxes) : f.boxes[i].id < f.nextId
  /\ \A i, j \in 1..Len(f.boxes) : f.boxes[i].id = f.boxes[j].id => i = j
BlamedIn(cache) == {p \in DOMAIN cache : Blamed(cache[p])}
CountExact(f) == f.count = Cardinality(BlamedIn(f.cache))
IndexInCache(f) ==
  \A i \in 0..(MaxScene - 1) : \A k \in 1..Len(f.index[i]) : f.index[i][k] \in 1..Len(f.cache)
CacheExact(f) == CountExact(f) /\ IndexInCache(f)
Extends(f, bs) ==
  Len(bs) \in 0..Len(f.boxes) /\ \A i \in 1..Len(bs) : f.boxes[i] = bs[i]
FreeFrom(f, m, sc) == \A i \in (m + 1)..Len(f.boxes) : NodeFree(f.boxes[i].node, sc)

\* The pops a refill makes before it breaks are some of them, in their order.
LEMMA FirstPopsFacts ==
  ASSUME NEW s, IsSeq(s)
  PROVE  /\ IsSeq(FirstPops(s)) /\ Range(FirstPops(s)) \subseteq Range(s)
         /\ (\A i, j \in 1..Len(s) : s[i] = s[j] => i = j)
              => \A i, j \in 1..Len(FirstPops(s)) : FirstPops(s)[i] = FirstPops(s)[j] => i = j
         /\ Len(s) <= MaxPops => FirstPops(s) = s
<1>1. MaxPops \in Nat /\ Len(s) \in Nat
  BY DepthAssumption, SeqShape
<1>2. CASE Len(s) <= MaxPops
  BY <1>2 DEF FirstPops
<1>3. CASE ~(Len(s) <= MaxPops)
  <2>1. MaxPops \in 0..Len(s)
    BY <1>1, <1>3
  <2>2. PICK t : t = SubSeq(s, 1, MaxPops)
    OBVIOUS
  <2>3. /\ IsSeq(t) /\ Len(t) = MaxPops /\ Range(t) \subseteq Range(s)
        /\ \A i \in 1..MaxPops : t[i] = s[i]
    BY <2>1, <2>2, SeqPrefix
  <2>4. FirstPops(s) = t
    BY <1>3, <2>2 DEF FirstPops
  <2>5. \A i \in 1..MaxPops : i \in 1..Len(s)
    BY <1>1, <2>1
  <2> QED
    BY <1>3, <2>3, <2>4, <2>5
<1> QED
  BY <1>2, <1>3

\* The leaves a refill finds are nodes, in a sequence.
LEMMA LeavesAreNodes ==
  ASSUME NEW sc, NEW reserved, NEW n \in Node
  PROVE  Leaves(n, sc, reserved) \in Seq(Node)
<1>1. PICK s : s = FirstPops(Pops(sc, reserved)[n])
  OBVIOUS
<1>2. IsSeq(s)
  BY <1>1, PopsAreNodes, SeqTyped, FirstPopsFacts
<1>3. PICK S : S = {m \in Node : IsLeaf(m, sc, reserved)}
  OBVIOUS
<1>4. IsSeq(Kept(s, S)) /\ Range(Kept(s, S)) \subseteq Node
  BY <1>2, <1>3, KeptFacts
<1>5. Leaves(n, sc, reserved) = Kept(s, S)
  BY <1>1, <1>3 DEF Leaves
<1> QED
  BY <1>4, <1>5, SeqWider

\* A forest, spelled out field by field.
LEMMA ForestParts ==
  ASSUME NEW f
  PROVE  f \in Forests <=>
           /\ f = [boxes |-> f.boxes, res |-> f.res, cache |-> f.cache, index |-> f.index,
                   count |-> f.count, nextId |-> f.nextId]
           /\ f.boxes \in Seq(BoxNodes) /\ f.res \in ReservationMaps
           /\ f.cache \in Seq(CachedBoxes) /\ f.index \in Indices
           /\ f.count \in Int /\ f.nextId \in Nat
BY DEF Forests

\* g is f with one more box, on node n.
IsCommit(g, f, n) ==
  /\ g \in Forests
  /\ g.boxes = Append(f.boxes, [id |-> f.nextId, node |-> n])
  /\ g.cache = f.cache /\ g.index = f.index /\ g.count = f.count
  /\ g.nextId = f.nextId + 1
  /\ FreshIds(f) => FreshIds(g)
  /\ \A bs : Extends(f, bs) => Extends(g, bs)
  /\ \A m \in Nat : \A sc : FreeFrom(f, m, sc) /\ NodeFree(n, sc) => FreeFrom(g, m, sc)

\* A box committed by CommitBox: the forest stays one, ids stay fresh, earlier boxes
\* stay in place, and boxes that were free of a scene stay free of it.
LEMMA CommitBoxKeeps ==
  ASSUME NEW f \in Forests, NEW n \in Node
  PROVE  IsCommit(CommitBox(f, n), f, n)
<1> DEFINE g == CommitBox(f, n)
           b == [id |-> f.nextId, node |-> n]
           r == [m \in DOMAIN f.res \cup {n} |-> IF m = n THEN f.nextId ELSE f.res[m]]
<1>1. /\ f = [boxes |-> f.boxes, res |-> f.res, cache |-> f.cache, index |-> f.index,
              count |-> f.count, nextId |-> f.nextId]
      /\ f.boxes \in Seq(BoxNodes) /\ f.res \in ReservationMaps
      /\ f.cache \in Seq(CachedBoxes) /\ f.index \in Indices
      /\ f.count \in Int /\ f.nextId \in Nat
  BY ForestParts
<1>2. b \in BoxNodes
  BY <1>1 DEF BoxNodes
<1>3. r \in ReservationMaps
  <2>1. PICK D \in SUBSET Node : f.res \in [D -> Nat]
    BY <1>1 DEF ReservationMaps
  <2>2. r \in [D \cup {n} -> Nat]
    BY <1>1, <2>1
  <2> HIDE DEF r
  <2> QED
    BY <2>2 DEF ReservationMaps
<1> HIDE DEF b, r, g
<1>4. g = [boxes |-> Append(f.boxes, b), res |-> r, cache |-> f.cache, index |-> f.index,
           count |-> f.count, nextId |-> f.nextId + 1]
  <2>1. g = [f EXCEPT !.boxes = Append(f.boxes, b), !.res = r, !.nextId = f.nextId + 1]
    BY DEF CommitBox, b, r, g
  <2> QED
    BY <1>1, <2>1
<1>5. /\ Append(f.boxes, b) \in Seq(BoxNodes) /\ Len(f.boxes) \in Nat
      /\ Len(Append(f.boxes, b)) = Len(f.boxes) + 1
      /\ \A i \in 1..Len(f.boxes) : Append(f.boxes, b)[i] = f.boxes[i] /\ f.boxes[i] \in BoxNodes
      /\ Append(f.boxes, b)[Len(f.boxes) + 1] = b
  BY <1>1, <1>2, AppendProperties, LenProperties, ElementOfSeq
<1>6. b.id = f.nextId /\ b.node = n
  BY DEF b
<1> DEFINE bs == f.boxes
           cs == Append(f.boxes, b)
<1>7. g.boxes = cs /\ g.nextId = f.nextId + 1
  BY <1>4
<1>8. g \in Forests
  <2>1. f.nextId + 1 \in Nat
    BY <1>1
  <2> QED
    BY <1>1, <1>3, <1>4, <1>5, <2>1, ForestParts
<1>9. ASSUME FreshIds(f) PROVE FreshIds(g)
  <2>1. \A i \in 1..Len(cs) : i \in 1..Len(bs) \/ i = Len(bs) + 1
    BY <1>5
  <2>2. \A i \in 1..Len(bs) : bs[i].id < f.nextId /\ bs[i].id \in Nat
    BY <1>5, <1>9 DEF FreshIds, BoxNodes
  <2>3. \A i \in 1..Len(bs) : cs[i].id = bs[i].id
    BY <1>5
  <2>4. cs[Len(bs) + 1].id = f.nextId
    BY <1>5, <1>6
  <2>5. \A i, j \in 1..Len(bs) : bs[i].id = bs[j].id => i = j
    BY <1>9 DEF FreshIds
  <2> HIDE DEF cs, bs
  <2>6. \A i \in 1..Len(cs) : cs[i].id < f.nextId + 1
    BY <1>1, <2>1, <2>2, <2>3, <2>4
  <2>7. \A i, j \in 1..Len(cs) : cs[i].id = cs[j].id => i = j
    <3>1. \A i \in 1..Len(bs) : cs[i].id < f.nextId
      BY <2>2, <2>3
    <3>2. f.nextId \in Int /\ \A i \in 1..Len(bs) : cs[i].id \in Int
      BY <1>1, <2>2, <2>3
    <3>3. \A i \in 1..Len(bs) : cs[i].id # cs[Len(bs) + 1].id
      BY <2>4, <3>1, <3>2
    <3>4. \A i, j \in 1..Len(bs) : cs[i].id = cs[j].id => i = j
      BY <2>3, <2>5
    <3> QED
      BY <2>1, <3>3, <3>4, Zenon
  <2> QED
    BY <1>7, <2>6, <2>7 DEF FreshIds
<1>10. ASSUME NEW ds, Extends(f, ds) PROVE Extends(g, ds)
  <2>1. Len(ds) \in 0..Len(bs) /\ \A i \in 1..Len(ds) : bs[i] = ds[i]
    BY <1>10 DEF Extends
  <2>2. Len(ds) \in 0..Len(cs)
    BY <1>5, <2>1
  <2>3. \A i \in 1..Len(ds) : cs[i] = ds[i]
    BY <1>5, <2>1
  <2> HIDE DEF cs
  <2> QED
    BY <1>7, <2>2, <2>3 DEF Extends
<1>11. ASSUME NEW m \in Nat, NEW sc, FreeFrom(f, m, sc), NodeFree(n, sc) PROVE FreeFrom(g, m, sc)
  <2>1. \A i \in (m + 1)..Len(bs) : NodeFree(bs[i].node, sc)
    BY <1>11 DEF FreeFrom
  <2>2. \A i \in (m + 1)..Len(cs) : (i \in (m + 1)..Len(bs) /\ i \in 1..Len(bs)) \/ i = Len(bs) + 1
    BY <1>5
  <2>3. \A i \in (m + 1)..Len(cs) : NodeFree(cs[i].node, sc)
    BY <1>5, <1>6, <1>11, <2>1, <2>2
  <2> HIDE DEF cs
  <2> QED
    BY <1>7, <2>3 DEF FreeFrom
<1>12. g.boxes = Append(f.boxes, [id |-> f.nextId, node |-> n])
  BY <1>7 DEF b
<1>13. g.cache = f.cache /\ g.index = f.index /\ g.count = f.count
  BY <1>4
<1> HIDE DEF cs, bs
<1> QED
  BY <1>7, <1>8, <1>9, <1>10, <1>11, <1>12, <1>13 DEF IsCommit, g

\* The blamed positions of a cache are finitely many, and lie in it.
LEMMA BlamedFinite ==
  ASSUME NEW cache \in Seq(CachedBoxes)
  PROVE  /\ IsFiniteSet(BlamedIn(cache)) /\ Cardinality(BlamedIn(cache)) \in Nat
         /\ Cardinality(BlamedIn(cache)) <= Len(cache)
         /\ BlamedIn(cache) \subseteq 1..Len(cache)
<1>1. Len(cache) \in Nat /\ DOMAIN cache = 1..Len(cache)
  BY LenProperties
<1>2. IsFiniteSet(1..Len(cache)) /\ Cardinality(1..Len(cache)) = Len(cache)
  BY <1>1, FS_Interval, SMTT(30)
<1>3. BlamedIn(cache) \subseteq 1..Len(cache)
  BY <1>1 DEF BlamedIn
<1>4. IsFiniteSet(BlamedIn(cache)) /\ Cardinality(BlamedIn(cache)) <= Cardinality(1..Len(cache))
  BY <1>2, <1>3, FS_Subset
<1> QED
  BY <1>2, <1>3, <1>4, FS_CardinalityType

\* A leaf cached by add_dynamic_collision_box keeps the counter and the index exact.
LEMMA AddCachedKeeps ==
  ASSUME NEW f \in Forests, NEW n \in Node, NEW blockers \in SUBSET (0..(MaxScene - 1)),
         CacheExact(f), NEW g, g = AddCached(f, n, blockers)
  PROVE  /\ g \in Forests /\ CacheExact(g)
         /\ g.boxes = f.boxes /\ g.nextId = f.nextId /\ g.res = f.res
<1>1. CASE blockers = {}
  BY <1>1 DEF AddCached
<1>2. CASE blockers # {}
  <2> DEFINE e == [node |-> n, blockers |-> blockers, active |-> TRUE]
             cs == f.cache
             ds == Append(f.cache, e)
             idx == [i \in DOMAIN f.index |-> IF i \in blockers
                       THEN Append(f.index[i], Len(f.cache) + 1) ELSE f.index[i]]
  <2>1. /\ f = [boxes |-> f.boxes, res |-> f.res, cache |-> f.cache, index |-> f.index,
                count |-> f.count, nextId |-> f.nextId]
        /\ f.boxes \in Seq(BoxNodes) /\ f.res \in ReservationMaps
        /\ f.cache \in Seq(CachedBoxes) /\ f.index \in Indices
        /\ f.count \in Int /\ f.nextId \in Nat
    BY ForestParts
  <2>2. e \in CachedBoxes /\ e.active /\ e.blockers = blockers
    BY DEF CachedBoxes
  <2>3. g = [f EXCEPT !.cache = ds, !.index = idx, !.count = f.count + 1]
    BY <1>2 DEF AddCached
  <2> HIDE DEF e
  <2>4. /\ ds \in Seq(CachedBoxes) /\ Len(cs) \in Nat /\ Len(ds) = Len(cs) + 1
        /\ \A p \in 1..Len(cs) : ds[p] = cs[p]
        /\ ds[Len(cs) + 1] = e
        /\ DOMAIN cs = 1..Len(cs) /\ DOMAIN ds = 1..Len(ds)
    BY <2>1, <2>2, AppendProperties, LenProperties
  <2> HIDE DEF ds, idx
  <2>5. g = [boxes |-> f.boxes, res |-> f.res, cache |-> ds, index |-> idx,
             count |-> f.count + 1, nextId |-> f.nextId]
    BY <2>1, <2>3
  <2>6. ASSUME NEW i \in 0..(MaxScene - 1)
        PROVE  /\ idx[i] \in Seq(Nat)
               /\ \A k \in 1..Len(idx[i]) : idx[i][k] \in 1..Len(ds)
    <3>1. f.index[i] \in Seq(Nat) /\ DOMAIN f.index = 0..(MaxScene - 1)
      BY <2>1 DEF Indices
    <3>2. \A k \in 1..Len(f.index[i]) : f.index[i][k] \in 1..Len(cs)
      BY DEF CacheExact, IndexInCache
    <3>3. CASE i \notin blockers
      <4>1. idx[i] = f.index[i]
        BY <3>1, <3>3 DEF idx
      <4>2. \A k \in 1..Len(f.index[i]) : f.index[i][k] \in 1..Len(ds)
        <5>1. 1..Len(cs) \subseteq 1..Len(ds)
          BY <2>4
        <5> QED
          BY <3>2, <5>1
      <4> QED
        BY <3>1, <4>1, <4>2
    <3>4. CASE i \in blockers
      <4> DEFINE x == Append(f.index[i], Len(cs) + 1)
      <4>1. idx[i] = x
        BY <3>1, <3>4 DEF idx
      <4>2. /\ x \in Seq(Nat) /\ Len(x) = Len(f.index[i]) + 1 /\ Len(f.index[i]) \in Nat
            /\ \A k \in 1..Len(f.index[i]) : x[k] = f.index[i][k]
            /\ x[Len(f.index[i]) + 1] = Len(cs) + 1
        BY <2>4, <3>1, AppendProperties, LenProperties
      <4> HIDE DEF x
      <4>3. \A k \in 1..Len(x) : k \in 1..Len(f.index[i]) \/ k = Len(f.index[i]) + 1
        BY <4>2
      <4>4. \A k \in 1..Len(f.index[i]) : x[k] \in 1..Len(ds)
        <5> TAKE k \in 1..Len(f.index[i])
        <5>1. x[k] = f.index[i][k]
          BY <4>2
        <5>2. f.index[i][k] \in 1..Len(cs)
          BY <3>2
        <5>3. 1..Len(cs) \subseteq 1..Len(ds)
          BY <2>4
        <5> QED
          BY <5>1, <5>2, <5>3
      <4>5. x[Len(f.index[i]) + 1] \in 1..Len(ds)
        BY <2>4, <4>2
      <4>6. \A k \in 1..Len(x) : x[k] \in 1..Len(ds)
        BY <4>3, <4>4, <4>5
      <4> QED
        BY <4>1, <4>2, <4>6
    <3> QED
      BY <3>3, <3>4
  <2>7. idx \in Indices
    <3>1. DOMAIN f.index = 0..(MaxScene - 1)
      BY <2>1 DEF Indices
    <3>2. idx = [i \in 0..(MaxScene - 1) |-> idx[i]]
      BY <3>1 DEF idx
    <3> QED
      BY <2>6, <3>2 DEF Indices
  <2>8. BlamedIn(ds) = BlamedIn(cs) \cup {Len(cs) + 1} /\ Len(cs) + 1 \notin BlamedIn(cs)
    <3>1. Blamed(e)
      BY <1>2, <2>2 DEF Blamed
    <3>2. \A p \in 1..Len(ds) : p \in 1..Len(cs) \/ p = Len(cs) + 1
      BY <2>4
    <3>3. \A p \in 1..Len(cs) : Blamed(ds[p]) = Blamed(cs[p])
      BY <2>4
    <3>4. \A p : p \in BlamedIn(ds) <=> p \in 1..Len(ds) /\ Blamed(ds[p])
      BY <2>4 DEF BlamedIn
    <3>5. \A p : p \in BlamedIn(cs) <=> p \in 1..Len(cs) /\ Blamed(cs[p])
      BY <2>4 DEF BlamedIn
    <3> HIDE DEF cs
    <3>6. \A p : p \in BlamedIn(ds) <=> p \in BlamedIn(cs) \/ p = Len(cs) + 1
      BY <2>4, <3>1, <3>2, <3>3, <3>4, <3>5
    <3>7. Len(cs) + 1 \notin 1..Len(cs)
      BY <2>4
    <3> QED
      BY <3>5, <3>6, <3>7
  <2>9. f.count + 1 = Cardinality(BlamedIn(ds))
    <3>1. IsFiniteSet(BlamedIn(cs)) /\ Cardinality(BlamedIn(cs)) \in Nat
      BY <2>1, BlamedFinite
    <3>2. Cardinality(BlamedIn(ds)) = Cardinality(BlamedIn(cs)) + 1
      BY <2>8, <3>1, FS_AddElement
    <3> QED
      BY <3>2 DEF CacheExact, CountExact
  <2>10. g \in Forests
    <3>1. f.count + 1 \in Int
      BY <2>1
    <3> QED
      BY <2>1, <2>4, <2>5, <2>7, <3>1, ForestParts
  <2>11. CacheExact(g)
    <3>1. g.cache = ds /\ g.index = idx /\ g.count = f.count + 1
      BY <2>5
    <3> QED
      BY <2>6, <2>9, <3>1 DEF CacheExact, CountExact, IndexInCache
  <2> QED
    BY <2>5, <2>10, <2>11
<1> QED
  BY <1>1, <1>2

\* rebuild_dynamic_collision_cache_index makes the counter and the index exact.
LEMMA RebuildIndexKeeps ==
  ASSUME NEW f \in Forests, NEW g, g = RebuildIndex(f)
  PROVE  /\ g \in Forests /\ CacheExact(g)
         /\ g.boxes = f.boxes /\ g.nextId = f.nextId /\ g.res = f.res /\ g.cache = f.cache
<1> DEFINE positions == [p \in 1..Len(f.cache) |-> p]
           idx == [i \in DOMAIN f.index |->
                     Kept(positions, {p \in BlamedIn(f.cache) : i \in f.cache[p].blockers})]
           c == Cardinality(BlamedIn(f.cache))
<1>1. /\ f = [boxes |-> f.boxes, res |-> f.res, cache |-> f.cache, index |-> f.index,
              count |-> f.count, nextId |-> f.nextId]
      /\ f.boxes \in Seq(BoxNodes) /\ f.res \in ReservationMaps
      /\ f.cache \in Seq(CachedBoxes) /\ f.index \in Indices
      /\ f.count \in Int /\ f.nextId \in Nat
  BY ForestParts
<1>2. g = [f EXCEPT !.index = idx, !.count = c]
  BY DEF RebuildIndex, BlamedIn
<1>3. Len(f.cache) \in Nat /\ c \in Nat
  BY <1>1, BlamedFinite, LenProperties
<1>4. IsSeq(positions) /\ Range(positions) = 1..Len(f.cache)
  <2>1. IsSeq(positions) /\ Range(positions) = {positions[k] : k \in 1..Len(f.cache)}
    <3>1. positions = [k \in 1..Len(f.cache) |-> positions[k]]
      OBVIOUS
    <3> HIDE DEF positions
    <3> QED
      BY <1>3, <3>1, SeqFunction
  <2> QED
    BY <2>1
<1> HIDE DEF positions
<1>5. ASSUME NEW i \in 0..(MaxScene - 1)
      PROVE  /\ idx[i] \in Seq(Nat)
             /\ \A k \in 1..Len(idx[i]) : idx[i][k] \in 1..Len(f.cache)
  <2> DEFINE S == {p \in BlamedIn(f.cache) : i \in f.cache[p].blockers}
             x == Kept(positions, S)
  <2>1. idx[i] = x
    BY <1>1 DEF Indices
  <2> HIDE DEF S, idx
  <2>2. IsSeq(x) /\ Range(x) = (1..Len(f.cache)) \cap S
    BY <1>4, KeptFacts
  <2> HIDE DEF x
  <2>3. x \in Seq(Nat)
    BY <1>3, <2>2, SeqWider
  <2>4. \A k \in 1..Len(x) : x[k] \in Range(x)
    BY <2>2, SeqShape
  <2> QED
    BY <2>1, <2>2, <2>3, <2>4
<1>6. idx \in Indices
  <2>1. DOMAIN f.index = 0..(MaxScene - 1)
    BY <1>1 DEF Indices
  <2>2. idx = [i \in 0..(MaxScene - 1) |-> idx[i]]
    BY <2>1
  <2> HIDE DEF idx
  <2> QED
    BY <1>5, <2>2 DEF Indices
<1> HIDE DEF idx
<1>7. g = [boxes |-> f.boxes, res |-> f.res, cache |-> f.cache, index |-> idx,
           count |-> c, nextId |-> f.nextId]
  BY <1>1, <1>2
<1>8. g.count = c /\ g.index = idx /\ g.cache = f.cache
  BY <1>7
<1>9. g \in Forests
  BY <1>1, <1>3, <1>6, <1>7, ForestParts
<1>10. CacheExact(g)
  BY <1>5, <1>8 DEF CacheExact, CountExact, IndexInCache
<1> QED
  BY <1>7, <1>9, <1>10

-----------------------------------------------------------------------------
(* Inserting obstacles. *)

\* The forests an insertion or a removal passes through: the boxes in bs, and
\* behind them boxes that are free in the scene sc.
Grown(bs, sc) ==
  {f \in Forests : /\ FreshIds(f) /\ CacheExact(f) /\ Extends(f, bs)
                   /\ FreeFrom(f, Len(bs), sc)}

\* A forest with the boxes of a grown one is a grown one, if its cache is exact.
LEMMA SameBoxes ==
  ASSUME NEW bs, NEW sc, NEW f \in Grown(bs, sc), NEW g \in Forests, CacheExact(g),
         g.boxes = f.boxes, g.nextId \in Nat, g.nextId >= f.nextId
  PROVE  g \in Grown(bs, sc)
<1>1. f.boxes \in Seq(BoxNodes) /\ f.nextId \in Nat
  BY ForestParts DEF Grown
<1>2. \A i \in 1..Len(f.boxes) : f.boxes[i].id < f.nextId /\ f.boxes[i].id \in Nat
  <2> TAKE i \in 1..Len(f.boxes)
  <2>1. f.boxes[i] \in BoxNodes
    BY <1>1, ElementOfSeq
  <2>2. FreshIds(f)
    BY DEF Grown
  <2> QED
    BY <2>1, <2>2 DEF FreshIds, BoxNodes
<1>3. \A i \in 1..Len(g.boxes) : g.boxes[i].id < g.nextId
  BY <1>1, <1>2
<1>4. FreshIds(g)
  BY <1>3 DEF Grown, FreshIds
<1> QED
  BY <1>4 DEF Grown, Extends, FreeFrom

\* A leaf of a refill, whichever way it goes, leaves a grown forest.
LEMMA RefillLeafKeeps ==
  ASSUME NEW bs, NEW sc, NEW f \in Grown(bs, sc), NEW n \in Node, NEW blamed \in 0..(MaxScene - 1)
  PROVE  RefillLeaf(f, n, sc, blamed) \in Grown(bs, sc)
<1> DEFINE g == RefillLeaf(f, n, sc, blamed)
<1>0. f \in Forests /\ FreshIds(f) /\ CacheExact(f) /\ Extends(f, bs) /\ FreeFrom(f, Len(bs), sc)
  BY DEF Grown
<1>1. CASE ~NodeFree(n, sc)
  <2>1. g = AddCached(f, n, {blamed}) /\ {blamed} \in SUBSET (0..(MaxScene - 1))
    BY <1>1 DEF RefillLeaf
  <2>2. g \in Forests /\ CacheExact(g) /\ g.boxes = f.boxes /\ g.nextId = f.nextId
    <3> HIDE DEF g
    <3> QED
      BY <1>0, <2>1, AddCachedKeeps
  <2>3. f.nextId \in Nat
    BY <1>0, ForestParts
  <2> HIDE DEF g
  <2>4. g \in Grown(bs, sc)
    BY <2>2, <2>3, SameBoxes
  <2> QED
    BY <2>4 DEF g
<1>2. CASE NodeFree(n, sc) /\ ContainedIn(n, f.boxes)
  <2>1. /\ f = [boxes |-> f.boxes, res |-> f.res, cache |-> f.cache, index |-> f.index,
                count |-> f.count, nextId |-> f.nextId]
        /\ f.boxes \in Seq(BoxNodes) /\ f.res \in ReservationMaps
        /\ f.cache \in Seq(CachedBoxes) /\ f.index \in Indices
        /\ f.count \in Int /\ f.nextId \in Nat
    BY <1>0, ForestParts
  <2>2. g = [f EXCEPT !.nextId = f.nextId + 1]
    BY <1>2 DEF RefillLeaf
  <2> HIDE DEF g
  <2>3. g = [boxes |-> f.boxes, res |-> f.res, cache |-> f.cache, index |-> f.index,
             count |-> f.count, nextId |-> f.nextId + 1]
    BY <2>1, <2>2
  <2>4. f.nextId + 1 \in Nat
    BY <2>1
  <2>5. g \in Forests
    BY <2>1, <2>3, <2>4, ForestParts
  <2>6. CacheExact(g)
    BY <1>0, <2>3 DEF CacheExact, CountExact, IndexInCache
  <2>7. g.boxes = f.boxes /\ g.nextId = f.nextId + 1 /\ g.nextId >= f.nextId /\ g.nextId \in Nat
    BY <2>1, <2>3
  <2>8. g \in Grown(bs, sc)
    BY <2>5, <2>6, <2>7, SameBoxes
  <2> QED
    BY <2>8 DEF g
<1>3. CASE NodeFree(n, sc) /\ ~ContainedIn(n, f.boxes)
  <2>1. g = CommitBox(f, n)
    BY <1>3 DEF RefillLeaf
  <2> HIDE DEF g
  <2>2. Len(bs) \in Nat
    <3>1. Len(f.boxes) \in Nat
      BY <1>0, ForestParts, LenProperties
    <3> QED
      BY <1>0, <3>1 DEF Extends
  <2>3. /\ g \in Forests /\ FreshIds(g) /\ Extends(g, bs) /\ FreeFrom(g, Len(bs), sc)
        /\ g.cache = f.cache /\ g.index = f.index /\ g.count = f.count
    <3>1. IsCommit(CommitBox(f, n), f, n)
      BY <1>0, CommitBoxKeeps
    <3> QED
      BY <1>0, <1>3, <2>1, <2>2, <3>1 DEF IsCommit
  <2>4. CacheExact(g)
    BY <1>0, <2>3 DEF CacheExact, CountExact, IndexInCache
  <2>5. g \in Grown(bs, sc)
    BY <2>3, <2>4 DEF Grown
  <2> QED
    BY <2>5 DEF g
<1> QED
  BY <1>1, <1>2, <1>3

\* The refill of one removed box: its leaves in order, the forest grows at each.
LEMMA RefillUnfolds ==
  ASSUME NEW bs, NEW sc, NEW f \in Grown(bs, sc), NEW b, b.node \in Node,
         NEW blamed \in 0..(MaxScene - 1)
  PROVE  \E u :
           /\ u[0] = f /\ Len(Leaves(b.node, sc, DOMAIN f.res)) \in Nat
           /\ Refill(f, b, sc, blamed) = u[Len(Leaves(b.node, sc, DOMAIN f.res))]
           /\ \A k \in 1..Len(Leaves(b.node, sc, DOMAIN f.res)) :
                u[k] = RefillLeaf(u[k - 1], Leaves(b.node, sc, DOMAIN f.res)[k], sc, blamed)
           /\ \A k \in 0..Len(Leaves(b.node, sc, DOMAIN f.res)) : u[k] \in Grown(bs, sc)
<1> DEFINE cells == Leaves(b.node, sc, DOMAIN f.res)
           n == Len(cells)
           U == Grown(bs, sc)
           Op(x, k) == RefillLeaf(x, cells[k], sc, blamed)
           step == [y \in (1..n) \X U |-> Op(y[2], y[1])]
           P(f_) == f_ = [k \in 0..n |-> IF k = 0 THEN f ELSE Op(f_[k - 1], k)]
           u == CHOOSE f_ : P(f_)
<1>1. n \in Nat
  BY LeavesAreNodes, LenProperties
<1>2. ASSUME NEW k \in 1..n, NEW x \in U PROVE step[<<k, x>>] = Op(x, k) /\ Op(x, k) \in U
  <2>1. Op(x, k) \in U
    <3>1. cells[k] \in Node
      BY LeavesAreNodes, ElementOfSeq
    <3> HIDE DEF cells, U
    <3>2. x \in Grown(bs, sc)
      BY DEF U
    <3>3. RefillLeaf(x, cells[k], sc, blamed) \in Grown(bs, sc)
      BY <3>1, <3>2, RefillLeafKeeps
    <3> QED
      BY <3>3 DEF U
  <2> QED
    BY <2>1
<1>3. Refill(f, b, sc, blamed) = u[n]
  BY DEF Refill
<1>4. f \in U
  OBVIOUS
<1> HIDE DEF step, Op, U, n, cells
<1>5. PICK g : Computes(g, n, f, step) /\ \A k \in 0..n : g[k] \in U
  <2>1. \A k \in 1..n : \A x \in U : step[<<k, x>>] \in U
    BY <1>2
  <2> QED
    BY <1>1, <1>4, <2>1, Recursion
<1>6. P(g)
  <2>1. ASSUME NEW k \in 0..n, k # 0 PROVE step[<<k, g[k - 1]>>] = Op(g[k - 1], k)
    <3>1. k \in 1..n /\ k - 1 \in 0..n
      BY <1>1, <2>1
    <3> QED
      BY <3>1, <1>2, <1>5
  <2>2. \A k \in 0..n : (IF k = 0 THEN f ELSE step[<<k, g[k - 1]>>])
                          = (IF k = 0 THEN f ELSE Op(g[k - 1], k))
    BY <2>1
  <2> QED
    BY <1>5, <2>2 DEF Computes
<1>7. P(u)
  <2> HIDE DEF P
  <2> QED
    BY <1>6
<1>8. \A k \in 0..n : u[k] = IF k = 0 THEN f ELSE Op(u[k - 1], k)
  <2> HIDE DEF u
  <2> QED
    BY <1>7
<1> HIDE DEF u, P
<1> DEFINE T == {k \in 0..n : u[k] \in U}
<1>9. \A k \in 0..n : k \in T
  <2>1. 0 \in T
    BY <1>1, <1>4, <1>8
  <2>2. ASSUME NEW k \in 1..n, k - 1 \in T PROVE k \in T
    <3>1. k \in 0..n /\ k # 0 /\ u[k] = Op(u[k - 1], k)
      BY <1>1, <1>8
    <3> QED
      BY <1>2, <2>2, <3>1
  <2> HIDE DEF T
  <2> QED
    BY <1>1, <2>1, <2>2, UpTo
<1>10. u[0] = f
  BY <1>1, <1>8
<1>11. \A k \in 1..n : u[k] = Op(u[k - 1], k)
  BY <1>1, <1>8
<1>12. n \in 0..n
  BY <1>1
<1> QED
  BY <1>1, <1>3, <1>9, <1>10, <1>11, <1>12 DEF U, Op, n, cells, T

\* So does the refill of one removed box, all its leaves in order.
LEMMA RefillKeeps ==
  ASSUME NEW bs, NEW sc, NEW f \in Grown(bs, sc), NEW b, b.node \in Node,
         NEW blamed \in 0..(MaxScene - 1)
  PROVE  Refill(f, b, sc, blamed) \in Grown(bs, sc)
<1>1. PICK u :
        /\ Len(Leaves(b.node, sc, DOMAIN f.res)) \in Nat
        /\ Refill(f, b, sc, blamed) = u[Len(Leaves(b.node, sc, DOMAIN f.res))]
        /\ \A k \in 0..Len(Leaves(b.node, sc, DOMAIN f.res)) : u[k] \in Grown(bs, sc)
  BY RefillUnfolds
<1> QED
  BY <1>1

\* The refill of all the boxes an insertion removed, one after the other.
LEMMA RefillAllUnfolds ==
  ASSUME NEW bs, NEW sc, NEW f \in Grown(bs, sc), NEW removed, IsSeq(removed),
         \A b \in Range(removed) : b.node \in Node, NEW blamed \in 0..(MaxScene - 1)
  PROVE  \E u :
           /\ u[0] = f /\ Len(removed) \in Nat
           /\ RefillAll(f, removed, sc, blamed) = u[Len(removed)]
           /\ \A k \in 1..Len(removed) : u[k] = Refill(u[k - 1], removed[k], sc, blamed)
           /\ \A k \in 0..Len(removed) : u[k] \in Grown(bs, sc)
<1> DEFINE n == Len(removed)
           U == Grown(bs, sc)
           Op(x, k) == Refill(x, removed[k], sc, blamed)
           step == [y \in (1..n) \X U |-> Op(y[2], y[1])]
           P(f_) == f_ = [k \in 0..n |-> IF k = 0 THEN f ELSE Op(f_[k - 1], k)]
           u == CHOOSE f_ : P(f_)
<1>1. n \in Nat
  BY SeqShape
<1>2. ASSUME NEW k \in 1..n, NEW x \in U PROVE step[<<k, x>>] = Op(x, k) /\ Op(x, k) \in U
  <2>1. Op(x, k) \in U
    <3>1. removed[k].node \in Node
      BY SeqShape
    <3> HIDE DEF U
    <3>2. x \in Grown(bs, sc)
      BY DEF U
    <3>3. Refill(x, removed[k], sc, blamed) \in Grown(bs, sc)
      BY <3>1, <3>2, RefillKeeps
    <3> QED
      BY <3>3 DEF U
  <2> QED
    BY <2>1
<1>3. RefillAll(f, removed, sc, blamed) = u[n]
  BY DEF RefillAll
<1>4. f \in U
  OBVIOUS
<1> HIDE DEF step, Op, U, n
<1>5. PICK g : Computes(g, n, f, step) /\ \A k \in 0..n : g[k] \in U
  <2>1. \A k \in 1..n : \A x \in U : step[<<k, x>>] \in U
    BY <1>2
  <2> QED
    BY <1>1, <1>4, <2>1, Recursion
<1>6. P(g)
  <2>1. ASSUME NEW k \in 0..n, k # 0 PROVE step[<<k, g[k - 1]>>] = Op(g[k - 1], k)
    <3>1. k \in 1..n /\ k - 1 \in 0..n
      BY <1>1, <2>1
    <3> QED
      BY <3>1, <1>2, <1>5
  <2>2. \A k \in 0..n : (IF k = 0 THEN f ELSE step[<<k, g[k - 1]>>])
                          = (IF k = 0 THEN f ELSE Op(g[k - 1], k))
    BY <2>1
  <2> QED
    BY <1>5, <2>2 DEF Computes
<1>7. P(u)
  <2> HIDE DEF P
  <2> QED
    BY <1>6
<1>8. \A k \in 0..n : u[k] = IF k = 0 THEN f ELSE Op(u[k - 1], k)
  <2> HIDE DEF u
  <2> QED
    BY <1>7
<1> HIDE DEF u, P
<1> DEFINE T == {k \in 0..n : u[k] \in U}
<1>9. \A k \in 0..n : k \in T
  <2>1. 0 \in T
    BY <1>1, <1>4, <1>8
  <2>2. ASSUME NEW k \in 1..n, k - 1 \in T PROVE k \in T
    <3>1. k \in 0..n /\ k # 0 /\ u[k] = Op(u[k - 1], k)
      BY <1>1, <1>8
    <3> QED
      BY <1>2, <2>2, <3>1
  <2> HIDE DEF T
  <2> QED
    BY <1>1, <2>1, <2>2, UpTo
<1>10. u[0] = f
  BY <1>1, <1>8
<1>11. \A k \in 1..n : u[k] = Op(u[k - 1], k)
  BY <1>1, <1>8
<1>12. n \in 0..n
  BY <1>1
<1> QED
  BY <1>1, <1>3, <1>9, <1>10, <1>11, <1>12 DEF U, Op, n, T

\* And the refill of all the boxes an insertion removed.
LEMMA RefillAllKeeps ==
  ASSUME NEW bs, NEW sc, NEW f \in Grown(bs, sc), NEW removed, IsSeq(removed),
         \A b \in Range(removed) : b.node \in Node, NEW blamed \in 0..(MaxScene - 1)
  PROVE  RefillAll(f, removed, sc, blamed) \in Grown(bs, sc)
<1>1. PICK u :
        /\ Len(removed) \in Nat /\ RefillAll(f, removed, sc, blamed) = u[Len(removed)]
        /\ \A k \in 0..Len(removed) : u[k] \in Grown(bs, sc)
  BY RefillAllUnfolds
<1> QED
  BY <1>1

\* The reservations of a list of boxes map nodes to ids.
LEMMA ReservationsTyped ==
  ASSUME NEW bs \in Seq(BoxNodes)
  PROVE  Reservations(bs) \in ReservationMaps
<1> DEFINE D == {b.node : b \in Range(bs)}
<1>1. Range(bs) \subseteq BoxNodes
  BY SeqTyped
<1>2. D \in SUBSET Node
  BY <1>1 DEF BoxNodes
<1>3. \A n \in D : (CHOOSE b \in Range(bs) : b.node = n).id \in Nat
  <2> TAKE n \in D
  <2>1. \E b \in Range(bs) : b.node = n
    OBVIOUS
  <2>2. (CHOOSE b \in Range(bs) : b.node = n) \in Range(bs)
    BY <2>1
  <2> QED
    BY <1>1, <2>2 DEF BoxNodes
<1>4. Reservations(bs) \in [D -> Nat]
  BY <1>3 DEF Reservations
<1> HIDE DEF D
<1> QED
  BY <1>2, <1>4 DEF ReservationMaps

\* next_box_id is above every id in use, and at most one above their bound.
LEMMA NextBoxIdAbove ==
  ASSUME NEW bs \in Seq(BoxNodes), NEW m \in Nat, \A b \in Range(bs) : b.id <= m
  PROVE  /\ NextBoxId(bs) \in Nat /\ NextBoxId(bs) <= m + 1
         /\ \A b \in Range(bs) : b.id < NextBoxId(bs)
<1> DEFINE I == {-1} \cup Ids(bs)
           J == {i + 1 : i \in I}
<1>1. Range(bs) \subseteq BoxNodes
  BY SeqTyped
<1>2. I \subseteq Int /\ \A i \in I : i + 1 \in Nat /\ i + 1 <= m + 1
  BY <1>1 DEF Ids, BoxNodes
<1>3. J \in SUBSET Nat /\ J # {} /\ m + 1 \in Nat /\ \A j \in J : j <= m + 1
  BY <1>2
<1>4. PICK j \in J : \A k \in J : k <= j
  <2> HIDE DEF J
  <2> QED
    BY <1>3, GreatestNat
<1>5. PICK i \in I : j = i + 1
  OBVIOUS
<1>6. \A k \in I : i >= k
  <2> TAKE k \in I
  <2>1. k + 1 \in J
    OBVIOUS
  <2>2. k + 1 <= i + 1
    BY <1>4, <1>5, <2>1
  <2> HIDE DEF I, J
  <2> QED
    BY <1>2, <2>2
<1>7. Max(I) \in I /\ \A k \in I : Max(I) >= k
  <2>1. \E x \in I : \A y \in I : x >= y
    BY <1>6
  <2> HIDE DEF I
  <2> QED
    BY <2>1 DEF Max
<1>8. NextBoxId(bs) = 1 + Max(I)
  BY DEF NextBoxId
<1>9. \A b \in Range(bs) : b.id \in I
  BY DEF Ids
<1> HIDE DEF I, J
<1>10. Max(I) \in Int
  BY <1>2, <1>7
<1>11. \A b \in Range(bs) : b.id < 1 + Max(I)
  <2> TAKE b \in Range(bs)
  <2>1. b.id \in I /\ b.id \in Int
    BY <1>2, <1>9
  <2> QED
    BY <1>7, <1>10, <2>1
<1>12. 1 + Max(I) \in Nat /\ 1 + Max(I) <= m + 1
  BY <1>2, <1>7, <1>10
<1> QED
  BY <1>8, <1>11, <1>12

\* A forest just built from a list of boxes with distinct ids.
LEMMA NewForestGood ==
  ASSUME NEW bs \in Seq(BoxNodes), NEW m \in Nat, \A b \in Range(bs) : b.id <= m,
         \A i, j \in 1..Len(bs) : bs[i].id = bs[j].id => i = j,
         NEW res \in ReservationMaps, NEW f, f = NewForest(bs, res)
  PROVE  f \in Forests /\ FreshIds(f) /\ CacheExact(f) /\ f.boxes = bs
<1>1. f = [boxes |-> bs, res |-> res, cache |-> <<>>, index |-> EmptyIndex, count |-> 0,
           nextId |-> NextBoxId(bs)]
  BY DEF NewForest
<1>2. NextBoxId(bs) \in Nat /\ \A b \in Range(bs) : b.id < NextBoxId(bs)
  BY NextBoxIdAbove
<1>3. EmptyIndex \in Indices /\ \A i \in 0..(MaxScene - 1) : EmptyIndex[i] = <<>>
  <2>1. <<>> \in Seq(Nat)
    OBVIOUS
  <2> QED
    BY <2>1 DEF Indices, EmptyIndex
<1>4. <<>> \in Seq(CachedBoxes) /\ 0 \in Int
  OBVIOUS
<1> HIDE DEF EmptyIndex
<1>5. f \in Forests
  <2>1. /\ f.boxes = bs /\ f.res = res /\ f.cache = <<>> /\ f.index = EmptyIndex
        /\ f.count = 0 /\ f.nextId = NextBoxId(bs)
    BY <1>1
  <2> QED
    BY <1>1, <1>2, <1>3, <1>4, <2>1, ForestParts
<1>6. FreshIds(f)
  <2>1. \A i \in 1..Len(bs) : bs[i] \in Range(bs)
    BY SeqTyped, SeqShape
  <2>2. f.boxes = bs /\ f.nextId = NextBoxId(bs)
    BY <1>1
  <2> QED
    BY <1>2, <2>1, <2>2 DEF FreshIds
<1>7. CacheExact(f)
  <2>1. BlamedIn(<<>>) = {}
    BY DEF BlamedIn
  <2>2. f.cache = <<>> /\ f.index = EmptyIndex /\ f.count = 0
    BY <1>1
  <2>3. Cardinality({}) = 0
    BY FS_EmptySet
  <2>4. IndexInCache(f)
    BY <1>3, <2>2 DEF IndexInCache
  <2>5. CountExact(f)
    BY <2>1, <2>2, <2>3 DEF CountExact
  <2> QED
    BY <2>4, <2>5 DEF CacheExact
<1> QED
  BY <1>1, <1>5, <1>6, <1>7

\* The boxes of a leaf sweep, in breadth-first order.
SweptBoxes(sc) ==
  [i \in 1..Len(BreadthFirst(FreeNodes(sc))) |->
     [id |-> i - 1, node |-> BreadthFirst(FreeNodes(sc))[i]]]

\* A leaf sweep makes boxes of its free nodes, then caches the leaves that collide.
LEMMA SweptForestUnfolds ==
  ASSUME NEW sc, sc \in Seq(Obstacle), Len(sc) <= MaxScene, NEW oneGroup \in BOOLEAN
  PROVE  \E u :
           /\ Len(BreadthFirst(CollisionNodes(sc))) \in Nat
           /\ u[0] = NewForest(SweptBoxes(sc), Reservations(SweptBoxes(sc)))
           /\ SweptForest(sc, oneGroup) = u[Len(BreadthFirst(CollisionNodes(sc)))]
           /\ \A k \in 1..Len(BreadthFirst(CollisionNodes(sc))) :
                u[k] = AddCached(u[k - 1], BreadthFirst(CollisionNodes(sc))[k],
                         SweepBlockers(BreadthFirst(CollisionNodes(sc))[k], sc, oneGroup))
           /\ \A k \in 0..Len(BreadthFirst(CollisionNodes(sc))) : u[k] \in Grown(<<>>, sc)
<1> DEFINE free == BreadthFirst(FreeNodes(sc))
           hit  == BreadthFirst(CollisionNodes(sc))
           bs   == [i \in 1..Len(free) |-> [id |-> i - 1, node |-> free[i]]]
           start == NewForest(bs, Reservations(bs))
           n == Len(hit)
           U == Grown(<<>>, sc)
           Op(x, k) == AddCached(x, hit[k], SweepBlockers(hit[k], sc, oneGroup))
           step == [y \in (1..n) \X U |-> Op(y[2], y[1])]
           P(f_) == f_ = [k \in 0..n |-> IF k = 0 THEN start ELSE Op(f_[k - 1], k)]
           u == CHOOSE f_ : P(f_)
<1>1. n \in Nat
  BY BreadthFirstFacts, SeqShape
<1>2. ASSUME NEW k \in 1..n, NEW x \in U PROVE step[<<k, x>>] = Op(x, k) /\ Op(x, k) \in U
  <2>1. Op(x, k) \in U
    <3>1. hit[k] \in Node
      <4>1. hit[k] \in CollisionNodes(sc)
        BY BreadthFirstFacts, SeqShape
      <4> QED
        BY <4>1 DEF CollisionNodes, Swept
    <3>2. SweepBlockers(hit[k], sc, oneGroup) \in SUBSET (0..(MaxScene - 1))
      <4>1. Len(sc) \in Nat /\ MaxScene \in Nat
        BY LenProperties, BoundAssumption
      <4> QED
        BY <4>1 DEF SweepBlockers
    <3> HIDE DEF hit, U, free, bs
    <3>3. x \in Grown(<<>>, sc)
      BY DEF U
    <3> DEFINE y == Op(x, k)
    <3>4. x \in Forests /\ CacheExact(x) /\ x.nextId \in Nat
      BY <3>3, ForestParts DEF Grown
    <3>5. y \in Forests /\ CacheExact(y) /\ y.boxes = x.boxes /\ y.nextId = x.nextId
      <4> HIDE DEF y
      <4>1. y = AddCached(x, hit[k], SweepBlockers(hit[k], sc, oneGroup))
        BY DEF y
      <4> QED
        BY <3>1, <3>2, <3>4, <4>1, AddCachedKeeps
    <3> HIDE DEF y
    <3>6. y \in Grown(<<>>, sc)
      BY <3>3, <3>4, <3>5, SameBoxes
    <3> QED
      BY <3>6 DEF U, y
  <2> QED
    BY <2>1
<1>3. SweptForest(sc, oneGroup) = u[n]
  BY DEF SweptForest
<1>4. start \in U
  <2>1. /\ IsSeq(free) /\ Len(free) \in Nat
        /\ \A i \in 1..Len(free) : free[i] \in FreeNodes(sc)
    BY BreadthFirstFacts, SeqShape
  <2>2. \A i \in 1..Len(free) : free[i] \in Node /\ NodeFree(free[i], sc)
    BY <2>1 DEF FreeNodes, Swept
  <2> HIDE DEF free
  <2>3. \A i \in 1..Len(free) : bs[i] = [id |-> i - 1, node |-> free[i]] /\ bs[i] \in BoxNodes
    BY <2>1, <2>2 DEF BoxNodes
  <2>30. \A i \in 1..Len(free) : bs[i].id = i - 1 /\ bs[i].node = free[i]
    OBVIOUS
  <2>4. bs \in Seq(BoxNodes) /\ Len(bs) = Len(free)
    <3>1. bs = [i \in 1..Len(free) |-> bs[i]]
      OBVIOUS
    <3> HIDE DEF bs
    <3>2. IsSeq(bs) /\ Len(bs) = Len(free) /\ Range(bs) = {bs[i] : i \in 1..Len(free)}
      BY <2>1, <3>1, SeqFunction
    <3>3. Range(bs) \subseteq BoxNodes
      BY <2>3, <3>2
    <3> QED
      BY <3>2, <3>3, SeqWider
  <2> HIDE DEF bs
  <2>5. \A b \in Range(bs) : b.id <= Len(free)
    <3> TAKE b \in Range(bs)
    <3>1. PICK i \in 1..Len(bs) : bs[i] = b
      BY <2>4, SeqTyped, SeqShape
    <3> QED
      BY <2>1, <2>30, <2>4, <3>1
  <2>6. \A i, j \in 1..Len(bs) : bs[i].id = bs[j].id => i = j
    <3> TAKE i, j \in 1..Len(bs)
    <3>1. bs[i].id = i - 1 /\ bs[j].id = j - 1
      BY <2>30, <2>4
    <3> QED
      BY <2>1, <2>4, <3>1
  <2>7. Reservations(bs) \in ReservationMaps
    BY <2>4, ReservationsTyped
  <2>8. start \in Forests /\ FreshIds(start) /\ CacheExact(start) /\ start.boxes = bs
    <3> HIDE DEF start
    <3>1. start = NewForest(bs, Reservations(bs))
      BY DEF start
    <3> QED
      BY <2>1, <2>4, <2>5, <2>6, <2>7, <3>1, NewForestGood
  <2> HIDE DEF start
  <2>9. Extends(start, <<>>)
    BY <2>1, <2>4, <2>8 DEF Extends
  <2>10. FreeFrom(start, Len(<<>>), sc)
    <3>1. Len(<<>>) = 0
      OBVIOUS
    <3>2. \A i \in (0 + 1)..Len(bs) : i \in 1..Len(free)
      BY <2>4
    <3> QED
      BY <2>2, <2>30, <2>4, <2>8, <3>1, <3>2 DEF FreeFrom
  <2> QED
    BY <2>8, <2>9, <2>10 DEF Grown
<1> HIDE DEF step, Op, U, n, hit, start, bs, free
<1>5. PICK g : Computes(g, n, start, step) /\ \A k \in 0..n : g[k] \in U
  <2>1. \A k \in 1..n : \A x \in U : step[<<k, x>>] \in U
    BY <1>2
  <2> QED
    BY <1>1, <1>4, <2>1, Recursion
<1>6. P(g)
  <2>1. ASSUME NEW k \in 0..n, k # 0 PROVE step[<<k, g[k - 1]>>] = Op(g[k - 1], k)
    <3>1. k \in 1..n /\ k - 1 \in 0..n
      BY <1>1, <2>1
    <3> QED
      BY <3>1, <1>2, <1>5
  <2>2. \A k \in 0..n : (IF k = 0 THEN start ELSE step[<<k, g[k - 1]>>])
                          = (IF k = 0 THEN start ELSE Op(g[k - 1], k))
    BY <2>1
  <2> QED
    BY <1>5, <2>2 DEF Computes
<1>7. P(u)
  <2> HIDE DEF P
  <2> QED
    BY <1>6
<1>8. \A k \in 0..n : u[k] = IF k = 0 THEN start ELSE Op(u[k - 1], k)
  <2> HIDE DEF u
  <2> QED
    BY <1>7
<1> HIDE DEF u, P
<1> DEFINE T == {k \in 0..n : u[k] \in U}
<1>9. \A k \in 0..n : k \in T
  <2>1. 0 \in T
    BY <1>1, <1>4, <1>8
  <2>2. ASSUME NEW k \in 1..n, k - 1 \in T PROVE k \in T
    <3>1. k \in 0..n /\ k # 0 /\ u[k] = Op(u[k - 1], k)
      BY <1>1, <1>8
    <3> QED
      BY <1>2, <2>2, <3>1
  <2> HIDE DEF T
  <2> QED
    BY <1>1, <2>1, <2>2, UpTo
<1>10. u[0] = start
  BY <1>1, <1>8
<1>11. \A k \in 1..n : u[k] = Op(u[k - 1], k)
  BY <1>1, <1>8
<1>12. n \in 0..n
  BY <1>1
<1> QED
  BY <1>1, <1>3, <1>9, <1>10, <1>11, <1>12 DEF U, Op, n, T, start, bs, free, hit, SweptBoxes

\* The forest a leaf sweep builds: every box free in the scene it was built for.
LEMMA SweptForestGood ==
  ASSUME NEW sc, sc \in Seq(Obstacle), Len(sc) <= MaxScene, NEW oneGroup \in BOOLEAN
  PROVE  SweptForest(sc, oneGroup) \in Grown(<<>>, sc)
<1>1. PICK u :
        /\ Len(BreadthFirst(CollisionNodes(sc))) \in Nat
        /\ SweptForest(sc, oneGroup) = u[Len(BreadthFirst(CollisionNodes(sc)))]
        /\ \A k \in 0..Len(BreadthFirst(CollisionNodes(sc))) : u[k] \in Grown(<<>>, sc)
  BY SweptForestUnfolds
<1> QED
  BY <1>1

\* The boxes found dirty are collected obstacle by obstacle.
LEMMA DirtyBoxesUnfold ==
  ASSUME IsSeq(boxes), NEW os, IsSeq(os)
  PROVE  \E u :
           /\ u[0] = <<>> /\ Len(os) \in Nat /\ DirtyBoxes(os) = u[Len(os)]
           /\ \A k \in 1..Len(os) :
                u[k] = u[k - 1] \o Kept(boxes, {b \in Range(boxes) : CheckBox(b.node, os[k])} \ Range(u[k - 1]))
<1> DEFINE n == Len(os)
           Hit(k) == {b \in Range(boxes) : CheckBox(b.node, os[k])}
           U == Seq(Range(boxes))
           Op(x, k) == x \o Kept(boxes, Hit(k) \ Range(x))
           step == [y \in (1..n) \X U |-> Op(y[2], y[1])]
           P(f_) == f_ = [k \in 0..n |-> IF k = 0 THEN <<>> ELSE Op(f_[k - 1], k)]
           u == CHOOSE f_ : P(f_)
<1>1. n \in Nat
  BY SeqShape
<1>2. ASSUME NEW k \in 1..n, NEW x \in U PROVE step[<<k, x>>] = Op(x, k) /\ Op(x, k) \in U
  <2>1. Op(x, k) \in U
    <3>1. IsSeq(Kept(boxes, Hit(k) \ Range(x)))
          /\ Range(Kept(boxes, Hit(k) \ Range(x))) \subseteq Range(boxes)
      BY KeptFacts
    <3>2. Kept(boxes, Hit(k) \ Range(x)) \in Seq(Range(boxes))
      BY <3>1, SeqWider
    <3> QED
      BY <3>2, ConcatProperties
  <2> QED
    BY <2>1
<1>3. DirtyBoxes(os) = u[n]
  BY DEF DirtyBoxes
<1>4. <<>> \in U
  OBVIOUS
<1> HIDE DEF step, Op, U, n
<1>5. PICK g : Computes(g, n, <<>>, step) /\ \A k \in 0..n : g[k] \in U
  <2>1. \A k \in 1..n : \A x \in U : step[<<k, x>>] \in U
    BY <1>2
  <2> QED
    BY <1>1, <1>4, <2>1, Recursion
<1>6. P(g)
  <2>1. ASSUME NEW k \in 0..n, k # 0 PROVE step[<<k, g[k - 1]>>] = Op(g[k - 1], k)
    <3>1. k \in 1..n /\ k - 1 \in 0..n
      BY <1>1, <2>1
    <3> QED
      BY <3>1, <1>2, <1>5
  <2>2. \A k \in 0..n : (IF k = 0 THEN <<>> ELSE step[<<k, g[k - 1]>>])
                          = (IF k = 0 THEN <<>> ELSE Op(g[k - 1], k))
    BY <2>1
  <2> QED
    BY <1>5, <2>2 DEF Computes
<1>7. P(u)
  <2> HIDE DEF P
  <2> QED
    BY <1>6
<1>8. \A k \in 0..n : u[k] = IF k = 0 THEN <<>> ELSE Op(u[k - 1], k)
  <2> HIDE DEF u
  <2> QED
    BY <1>7
<1> HIDE DEF u, P
<1> DEFINE T == {k \in 0..n : u[k] \in U}
<1>9. \A k \in 0..n : k \in T
  <2>1. 0 \in T
    BY <1>1, <1>4, <1>8
  <2>2. ASSUME NEW k \in 1..n, k - 1 \in T PROVE k \in T
    <3>1. k \in 0..n /\ k # 0 /\ u[k] = Op(u[k - 1], k)
      BY <1>1, <1>8
    <3> QED
      BY <1>2, <2>2, <3>1
  <2> HIDE DEF T
  <2> QED
    BY <1>1, <2>1, <2>2, UpTo
<1>10. u[0] = <<>>
  BY <1>1, <1>8
<1>11. \A k \in 1..n : u[k] = Op(u[k - 1], k)
  BY <1>1, <1>8
<1>12. n \in 0..n
  BY <1>1
<1> QED
  BY <1>1, <1>3, <1>9, <1>10, <1>11, <1>12 DEF U, Op, n, T

\* The boxes found dirty are those some new obstacle is flagged for.
LEMMA DirtyBoxesFacts ==
  ASSUME IsSeq(boxes), NEW os, IsSeq(os)
  PROVE  /\ IsSeq(DirtyBoxes(os))
         /\ Range(DirtyBoxes(os)) = {b \in Range(boxes) : \E i \in 1..Len(os) : CheckBox(b.node, os[i])}
<1>1. PICK u :
        /\ u[0] = <<>> /\ Len(os) \in Nat /\ DirtyBoxes(os) = u[Len(os)]
        /\ \A k \in 1..Len(os) :
             u[k] = u[k - 1] \o Kept(boxes, {b \in Range(boxes) : CheckBox(b.node, os[k])} \ Range(u[k - 1]))
  BY DirtyBoxesUnfold
<1> DEFINE n == Len(os)
           Hit(k) == {b \in Range(boxes) : CheckBox(b.node, os[k])}
           Ok(x, k) == /\ IsSeq(x)
                       /\ Range(x) = {b \in Range(boxes) : \E i \in 1..k : CheckBox(b.node, os[i])}
           V == {k \in 0..n : Ok(u[k], k)}
<1>11. 0 \in V
  <2>1. u[0] = <<>> /\ 0 \in 0..n
    BY <1>1
  <2>2. Ok(<<>>, 0)
    BY SeqEmpty
  <2> QED
    BY <2>1, <2>2
<1>12. ASSUME NEW k \in 1..n, k - 1 \in V PROVE k \in V
  <2>1. k \in 0..n /\ k # 0 /\ u[k] = u[k - 1] \o Kept(boxes, Hit(k) \ Range(u[k - 1]))
    <3>1. k \in 0..n /\ k # 0
      BY <1>1
    <3>2. u[k] = u[k - 1] \o Kept(boxes, Hit(k) \ Range(u[k - 1]))
      BY <1>1
    <3> QED
      BY <3>1, <3>2
  <2> DEFINE x == u[k - 1]
             y == Kept(boxes, Hit(k) \ Range(x))
  <2>2. Ok(x, k - 1)
    BY <1>12
  <2>3. u[k] = x \o y
    BY <2>1
  <2>4. IsSeq(y) /\ Range(y) = Range(boxes) \cap (Hit(k) \ Range(x))
    BY KeptFacts
  <2> HIDE DEF x, y
  <2>5. IsSeq(x \o y) /\ Range(x \o y) = Range(x) \cup Range(y)
    BY <2>2, <2>4, SeqConcat
  <2>6. \A b : (\E i \in 1..k : CheckBox(b.node, os[i]))
                 <=> (\E i \in 1..(k - 1) : CheckBox(b.node, os[i])) \/ CheckBox(b.node, os[k])
    <3>1. 1..k = (1..(k - 1)) \cup {k}
      BY <1>1
    <3> QED
      BY <3>1
  <2>7. Ok(x \o y, k)
    BY <2>2, <2>4, <2>5, <2>6
  <2> QED
    BY <2>1, <2>3, <2>7
<1>13. n \in V
  <2> HIDE DEF V
  <2>1. n \in 0..n
    BY <1>1
  <2> QED
    BY <1>1, <1>11, <1>12, <2>1, UpTo
<1> QED
  BY <1>1, <1>13

\* What the state holds between two calls.
UniqueIds(bs) == \A i, j \in 1..Len(bs) : bs[i].id = bs[j].id => i = j
BoxesOK == /\ boxes \in Seq(BoxNodes) /\ UniqueIds(boxes)
           /\ \A b \in Range(boxes) : b.id <= MaxId
CacheOK == /\ collisionCache \in Seq(CachedBoxes) /\ blockerIndex \in Indices
           /\ activeCount = Cardinality(BlamedIn(collisionCache))
           /\ \A i \in 0..(MaxScene - 1) : \A k \in 1..Len(blockerIndex[i]) :
                blockerIndex[i][k] \in 1..Len(collisionCache)
SceneOK == scene \in Seq(Obstacle) /\ Len(scene) <= MaxScene

Live(os) == Kept(boxes, Range(boxes) \ Range(DirtyBoxes(os)))
Refilled(os) ==
  RefillAll([Forest EXCEPT !.boxes = Live(os), !.res = Reservations(Live(os)),
                           !.nextId = NextBoxId(Live(os))],
            DirtyBoxes(os), scene \o os, Len(scene))

\* With distinct ids, an id belongs to one box and a box has one place.
LEMMA UniqueMeansOneBox ==
  ASSUME NEW bs, IsSeq(bs), UniqueIds(bs)
  PROVE  /\ \A a, b \in Range(bs) : a.id = b.id => a = b
         /\ \A i, j \in 1..Len(bs) : bs[i] = bs[j] => i = j
<1>1. \A a \in Range(bs) : \E i \in 1..Len(bs) : bs[i] = a
  BY SeqShape
<1> QED
  BY <1>1 DEF UniqueIds

\* The boxes that stay live in an insertion are those no new obstacle is flagged for.
LEMMA LiveFacts ==
  ASSUME BoxesOK, NEW os, IsSeq(os)
  PROVE  /\ Live(os) \in Seq(BoxNodes) /\ UniqueIds(Live(os))
         /\ Range(Live(os)) = {b \in Range(boxes) : \A i \in 1..Len(os) : ~CheckBox(b.node, os[i])}
         /\ Range(Live(os)) = Range(boxes) \ Range(DirtyBoxes(os))
         /\ \A b \in Range(Live(os)) : b.id <= MaxId
<1> DEFINE L == Live(os)
           S == Range(boxes) \ Range(DirtyBoxes(os))
<1>1. IsSeq(boxes) /\ Range(boxes) \subseteq BoxNodes
  BY SeqTyped DEF BoxesOK
<1>2. IsSeq(L) /\ Range(L) = S
  BY <1>1, KeptFacts DEF Live
<1>3. \A i, j \in 1..Len(L) : L[i] = L[j] => i = j
  <2>1. \A i, j \in 1..Len(boxes) : boxes[i] = boxes[j] => i = j
    BY <1>1, UniqueMeansOneBox DEF BoxesOK
  <2> QED
    BY <1>1, <2>1, KeptFacts DEF Live
<1>4. S = {b \in Range(boxes) : \A i \in 1..Len(os) : ~CheckBox(b.node, os[i])}
  BY <1>1, DirtyBoxesFacts
<1> HIDE DEF L, S
<1>5. Range(L) \subseteq Range(boxes)
  BY <1>2, <1>4
<1>6. UniqueIds(L)
  <2>1. \A a, b \in Range(boxes) : a.id = b.id => a = b
    BY <1>1, UniqueMeansOneBox DEF BoxesOK
  <2>2. \A i \in 1..Len(L) : L[i] \in Range(boxes)
    BY <1>2, <1>5, SeqShape
  <2> QED
    BY <1>3, <2>1, <2>2 DEF UniqueIds
<1>7. L \in Seq(BoxNodes)
  BY <1>1, <1>2, <1>5, SeqWider
<1>8. \A b \in Range(L) : b.id <= MaxId
  BY <1>5 DEF BoxesOK
<1> QED
  BY <1>2, <1>4, <1>6, <1>7, <1>8 DEF L, S

Reset(f, L, r, nid) == [f EXCEPT !.boxes = L, !.res = r, !.nextId = nid]

\* A forest with its boxes, reservations and next id replaced.
LEMMA ForestReset ==
  ASSUME NEW f, NEW A, NEW B, NEW C, NEW D, NEW E, NEW N, NEW L, NEW r, NEW nid,
         f = [boxes |-> A, res |-> B, cache |-> C, index |-> D, count |-> E, nextId |-> N]
  PROVE  Reset(f, L, r, nid)
          = [boxes |-> L, res |-> r, cache |-> C, index |-> D, count |-> E, nextId |-> nid]
<1>1. PICK g : g = [f EXCEPT !.boxes = L]
  OBVIOUS
<1>2. g = [boxes |-> L, res |-> B, cache |-> C, index |-> D, count |-> E, nextId |-> N]
  BY <1>1
<1>3. PICK h : h = [g EXCEPT !.res = r]
  OBVIOUS
<1>4. h = [boxes |-> L, res |-> r, cache |-> C, index |-> D, count |-> E, nextId |-> N]
  BY <1>2, <1>3
<1>5. [h EXCEPT !.nextId = nid]
        = [boxes |-> L, res |-> r, cache |-> C, index |-> D, count |-> E, nextId |-> nid]
  BY <1>4
<1>6. Reset(f, L, r, nid) = [h EXCEPT !.nextId = nid]
  BY <1>1, <1>3 DEF Reset
<1> QED
  BY <1>5, <1>6

\* The forest an insertion starts to refill: the live boxes and the old cache.
RefillStart(os) == [Forest EXCEPT !.boxes = Live(os), !.res = Reservations(Live(os)),
                                  !.nextId = NextBoxId(Live(os))]

\* It has the live boxes and an exact cache.
LEMMA RefillStarts ==
  ASSUME BoxesOK, CacheOK, SceneOK, reservations \in ReservationMaps,
         NEW os, os \in Seq(Obstacle), os # <<>>, Len(scene \o os) <= MaxScene
  PROVE  /\ RefillStart(os) \in Grown(Live(os), scene \o os)
         /\ RefillStart(os).boxes = Live(os) /\ RefillStart(os).res = Reservations(Live(os))
         /\ RefillStart(os).cache = collisionCache /\ RefillStart(os).index = blockerIndex
<1> DEFINE L == Live(os)
           r == Reservations(L)
           nid == NextBoxId(L)
           start == [Forest EXCEPT !.boxes = L, !.res = r, !.nextId = nid]
<1>1. start = [boxes |-> L, res |-> Reservations(L), cache |-> collisionCache,
               index |-> blockerIndex, count |-> activeCount, nextId |-> NextBoxId(L)]
  <2>1. Forest = [boxes |-> boxes, res |-> reservations, cache |-> collisionCache,
                  index |-> blockerIndex, count |-> activeCount, nextId |-> NextBoxId(boxes)]
    BY DEF Forest
  <2> HIDE DEF L, r, nid
  <2>2. Reset(Forest, L, r, nid) = [boxes |-> L, res |-> r, cache |-> collisionCache,
                 index |-> blockerIndex, count |-> activeCount, nextId |-> nid]
    BY <2>1, ForestReset
  <2> QED
    BY <2>2 DEF r, nid, Reset
<1>2. IsSeq(os)
  BY SeqTyped
<1>3. /\ L \in Seq(BoxNodes) /\ UniqueIds(L) /\ \A b \in Range(L) : b.id <= MaxId
  BY <1>2, LiveFacts
<1>4. MaxId \in Nat /\ MaxScene \in Nat
  BY BoundAssumption
<1> HIDE DEF L, start
<1>5. Reservations(L) \in ReservationMaps
  BY <1>3, ReservationsTyped
<1>6. NextBoxId(L) \in Nat /\ \A b \in Range(L) : b.id < NextBoxId(L)
  BY <1>3, <1>4, NextBoxIdAbove
<1>7. activeCount \in Int
  BY BlamedFinite DEF CacheOK
<1>8. /\ start.boxes = L /\ start.res = Reservations(L) /\ start.cache = collisionCache
      /\ start.index = blockerIndex /\ start.count = activeCount /\ start.nextId = NextBoxId(L)
  BY <1>1
<1>9. start \in Forests
  <2>1. collisionCache \in Seq(CachedBoxes) /\ blockerIndex \in Indices
    BY DEF CacheOK
  <2> QED
    BY <1>1, <1>3, <1>5, <1>6, <1>7, <1>8, <2>1, ForestParts
<1>10. CacheExact(start)
  BY <1>8 DEF CacheOK, CacheExact, CountExact, IndexInCache
<1>11. FreshIds(start)
  <2>1. \A i \in 1..Len(L) : L[i] \in Range(L)
    BY <1>3, SeqTyped, SeqShape
  <2> QED
    BY <1>3, <1>6, <1>8, <2>1 DEF FreshIds, UniqueIds
<1>12. Extends(start, L) /\ FreeFrom(start, Len(L), scene \o os)
  <2>1. Len(L) \in Nat
    BY <1>3, LenProperties
  <2>2. (Len(L) + 1)..Len(L) = {}
    BY <2>1
  <2> QED
    BY <1>8, <2>1, <2>2 DEF Extends, FreeFrom
<1>13. start \in Grown(L, scene \o os)
  BY <1>9, <1>10, <1>11, <1>12 DEF Grown
<1> QED
  BY <1>8, <1>13 DEF start, L, RefillStart

\* What an insertion ends with: the live boxes, and behind them free boxes.
LEMMA RefilledGood ==
  ASSUME BoxesOK, CacheOK, SceneOK, reservations \in ReservationMaps,
         NEW os, os \in Seq(Obstacle), os # <<>>, Len(scene \o os) <= MaxScene
  PROVE  /\ Refilled(os) \in Grown(Live(os), scene \o os)
         /\ Len(scene) \in 0..(MaxScene - 1)
         /\ IsSeq(DirtyBoxes(os)) /\ \A b \in Range(DirtyBoxes(os)) : b.node \in Node
<1>1. Len(scene) \in 0..(MaxScene - 1)
  <2>1. Len(scene) \in Nat /\ Len(os) \in Nat /\ Len(os) # 0 /\ Len(scene \o os) = Len(scene) + Len(os)
    BY LenProperties, ConcatProperties, EmptySeq DEF SceneOK
  <2> QED
    BY <2>1, BoundAssumption
<1>2. IsSeq(DirtyBoxes(os)) /\ \A b \in Range(DirtyBoxes(os)) : b.node \in Node
  <2>1. IsSeq(boxes) /\ Range(boxes) \subseteq BoxNodes
    BY SeqTyped DEF BoxesOK
  <2>2. IsSeq(DirtyBoxes(os)) /\ Range(DirtyBoxes(os)) \subseteq Range(boxes)
    BY <2>1, SeqTyped, DirtyBoxesFacts
  <2> QED
    BY <2>1, <2>2 DEF BoxNodes
<1>3. RefillStart(os) \in Grown(Live(os), scene \o os)
  BY RefillStarts
<1>4. RefillAll(RefillStart(os), DirtyBoxes(os), scene \o os, Len(scene)) \in Grown(Live(os), scene \o os)
  BY <1>1, <1>2, <1>3, RefillAllKeeps
<1> QED
  BY <1>1, <1>2, <1>4 DEF RefillStart, Refilled

-----------------------------------------------------------------------------
(* Removing obstacles. *)

\* Renumbering keeps blockers within the scene, loses all of them only when all were
\* removed, and leaves alone those in front of every removed index.
LEMMA RemapTyped ==
  ASSUME NEW R, R \subseteq 0..(MaxScene - 1), NEW B \in SUBSET (0..(MaxScene - 1))
  PROVE  /\ Remap(R, B) \in SUBSET (0..(MaxScene - 1))
         /\ Remap(R, B) = {} <=> B \subseteq R
         /\ \A i \in B \ R : (\A r \in R : i < r) => i \in Remap(R, B)
<1>1. MaxScene \in Nat
  BY BoundAssumption
<1>2. ASSUME NEW i \in 0..(MaxScene - 1)
      PROVE  RemovedBefore(R, i) \in 0..i /\ ((\A r \in R : i < r) => RemovedBefore(R, i) = 0)
  <2> DEFINE S == {r \in R : r < i}
  <2>0. i \in Int /\ \A r \in R : r \in Int /\ 0 <= r
    BY <1>1
  <2>1. S \subseteq 0..(i - 1)
    <3> SUFFICES ASSUME NEW r \in R, r < i PROVE r \in 0..(i - 1)
      OBVIOUS
    <3> QED
      BY <2>0
  <2>2. IsFiniteSet(0..(i - 1)) /\ Cardinality(0..(i - 1)) = i
    BY <1>1, FS_Interval
  <2>3. IsFiniteSet(S) /\ Cardinality(S) <= i
    BY <2>1, <2>2, FS_Subset
  <2>4. Cardinality(S) \in Nat
    BY <2>3, FS_CardinalityType
  <2>5. (\A r \in R : i < r) => S = {}
    <3> SUFFICES ASSUME \A r \in R : i < r PROVE S = {}
      OBVIOUS
    <3>1. \A r \in R : ~(r < i)
      BY <2>0
    <3> QED
      BY <3>1
  <2>6. Cardinality({}) = 0
    BY FS_EmptySet
  <2>7. RemovedBefore(R, i) = Cardinality(S)
    BY DEF RemovedBefore
  <2> HIDE DEF S
  <2> QED
    BY <2>3, <2>4, <2>5, <2>6, <2>7
<1>3. \A i \in 0..(MaxScene - 1) : i - RemovedBefore(R, i) \in 0..(MaxScene - 1)
  BY <1>1, <1>2
<1>4. \A i \in B \ R : (\A r \in R : i < r) => i \in Remap(R, B)
  <2> SUFFICES ASSUME NEW i \in B \ R, \A r \in R : i < r PROVE i \in Remap(R, B)
    OBVIOUS
  <2>1. i \in 0..(MaxScene - 1) /\ i - RemovedBefore(R, i) = i
    BY <1>1, <1>2
  <2> QED
    BY <2>1 DEF Remap
<1> QED
  BY <1>3, <1>4 DEF Remap

\* A cached leaf blames every obstacle scene[k] with k in K that reaches it.
BlamesAll(e, S, K) ==
  Blamed(e) => \A k \in K : CellsOf(e.node) \cap Covers[S[k]] # {} => k - 1 \in e.blockers

\* A promoted leaf is free of the obstacles that stay, since it blamed all it met.
LEMMA PromotedIsFree ==
  ASSUME NEW f, NEW e, e.active, NEW R, NEW S, NEW K, NEW sc,
         \A k \in K : k - 1 \notin R, Range(sc) \subseteq {S[k] : k \in K},
         BlamesAll(e, S, K), Fate(f, e, R) = "promoted"
  PROVE  NodeFree(e.node, sc)
<1>1. e.blockers \cap R # {} /\ e.blockers \subseteq R
  BY DEF Fate
<1>2. Blamed(e)
  BY <1>1 DEF Blamed
<1>3. \A k \in K : CellsOf(e.node) \cap Covers[S[k]] = {}
  BY <1>1, <1>2 DEF BlamesAll
<1> QED
  BY <1>3 DEF NodeFree

\* Grown, but for the cache, which is being rewritten.
Growing(bs, sc) ==
  {f \in Forests : FreshIds(f) /\ Extends(f, bs) /\ FreeFrom(f, Len(bs), sc)}

\* A promotion leaves a grown forest, with the cache as it was.
LEMMA PromotedKeeps ==
  ASSUME NEW bs, NEW sc, NEW f \in Growing(bs, sc), NEW e \in CachedBoxes, e.active,
         NEW R, NEW S, NEW K,
         \A k \in K : k - 1 \notin R, Range(sc) \subseteq {S[k] : k \in K}, BlamesAll(e, S, K),
         NEW g, g = Promoted(f, e, R)
  PROVE  /\ g \in Growing(bs, sc)
         /\ g.cache = f.cache /\ g.index = f.index /\ g.count = f.count
<1>1. CASE Fate(f, e, R) = "promoted"
  <2>1. g = CommitBox(f, e.node)
    BY <1>1 DEF Promoted
  <2>2. e.node \in Node /\ NodeFree(e.node, sc)
    BY <1>1, PromotedIsFree DEF CachedBoxes
  <2>3. f \in Forests /\ FreshIds(f) /\ Extends(f, bs) /\ FreeFrom(f, Len(bs), sc)
    BY DEF Growing
  <2>4. Len(bs) \in Nat
    <3>1. Len(f.boxes) \in Nat
      BY <2>3, ForestParts, LenProperties
    <3> QED
      BY <2>3, <3>1 DEF Extends
  <2>5. /\ g \in Forests /\ FreshIds(g) /\ Extends(g, bs) /\ FreeFrom(g, Len(bs), sc)
        /\ g.cache = f.cache /\ g.index = f.index /\ g.count = f.count
    <3>1. IsCommit(g, f, e.node)
      BY <2>1, <2>2, <2>3, CommitBoxKeeps
    <3> QED
      BY <2>2, <2>3, <2>4, <3>1 DEF IsCommit
  <2> QED
    BY <2>5 DEF Growing
<1>2. CASE Fate(f, e, R) # "promoted"
  BY <1>2 DEF Promoted
<1> QED
  BY <1>1, <1>2

\* g is f with the cache entry p set to e.
IsSetEntry(g, f, p, e) ==
  /\ g = [boxes |-> f.boxes, res |-> f.res, cache |-> g.cache, index |-> f.index,
          count |-> f.count, nextId |-> f.nextId]
  /\ g \in Forests /\ Len(g.cache) = Len(f.cache)
  /\ \A q \in 1..Len(f.cache) : g.cache[q] = IF q = p THEN e ELSE f.cache[q]

\* Setting a cache entry leaves a forest, and the other entries.
LEMMA SetEntryKeeps ==
  ASSUME NEW f \in Forests, NEW p \in 1..Len(f.cache), NEW e \in CachedBoxes
  PROVE  IsSetEntry(SetEntry(f, p, e), f, p, e)
<1> DEFINE cs == [f.cache EXCEPT ![p] = e]
           g == SetEntry(f, p, e)
<1>1. /\ f = [boxes |-> f.boxes, res |-> f.res, cache |-> f.cache, index |-> f.index,
              count |-> f.count, nextId |-> f.nextId]
      /\ f.boxes \in Seq(BoxNodes) /\ f.res \in ReservationMaps
      /\ f.cache \in Seq(CachedBoxes) /\ f.index \in Indices
      /\ f.count \in Int /\ f.nextId \in Nat
  BY ForestParts
<1>2. cs \in Seq(CachedBoxes) /\ Len(cs) = Len(f.cache)
  BY <1>1, ExceptSeq
<1>3. \A q \in 1..Len(f.cache) : cs[q] = IF q = p THEN e ELSE f.cache[q]
  BY <1>1, LenProperties
<1>4. g = [f EXCEPT !.cache = cs]
  BY DEF SetEntry
<1> HIDE DEF cs, g
<1>5. g = [boxes |-> f.boxes, res |-> f.res, cache |-> cs, index |-> f.index,
           count |-> f.count, nextId |-> f.nextId]
  BY <1>1, <1>4
<1>6. g.cache = cs
  BY <1>5
<1>7. g \in Forests
  BY <1>1, <1>2, <1>5, ForestParts
<1> QED
  BY <1>2, <1>3, <1>5, <1>6, <1>7 DEF IsSetEntry, g

\* What a changed entry does to the blamed positions.
LEMMA BlamedAfterEntry ==
  ASSUME NEW f \in Forests, NEW g, NEW p \in 1..Len(f.cache), NEW e, IsSetEntry(g, f, p, e)
  PROVE  /\ (Blamed(e) <=> Blamed(f.cache[p])) => BlamedIn(g.cache) = BlamedIn(f.cache)
         /\ ~Blamed(e) => BlamedIn(g.cache) = BlamedIn(f.cache) \ {p}
<1> DEFINE c == f.cache
           d == g.cache
<1>0. /\ c \in Seq(CachedBoxes) /\ d \in Seq(CachedBoxes) /\ Len(d) = Len(c)
      /\ \A q \in 1..Len(c) : d[q] = IF q = p THEN e ELSE c[q]
  BY ForestParts DEF IsSetEntry
<1> HIDE DEF c, d
<1>1. DOMAIN c = 1..Len(c) /\ DOMAIN d = 1..Len(c)
  BY <1>0, LenProperties
<1>2. \A q : q \in BlamedIn(d) <=> q \in 1..Len(c) /\ Blamed(d[q])
  BY <1>1 DEF BlamedIn
<1>3. \A q : q \in BlamedIn(c) <=> q \in 1..Len(c) /\ Blamed(c[q])
  BY <1>1 DEF BlamedIn
<1>4. \A q \in 1..Len(c) : q # p => (Blamed(d[q]) <=> Blamed(c[q]))
  BY <1>0
<1>5. Blamed(d[p]) <=> Blamed(e)
  BY <1>0 DEF c
<1>6. ASSUME Blamed(e) <=> Blamed(f.cache[p]) PROVE BlamedIn(g.cache) = BlamedIn(f.cache)
  <2>1. \A q \in 1..Len(c) : Blamed(d[q]) <=> Blamed(c[q])
    BY <1>4, <1>5, <1>6 DEF c
  <2>2. \A q : q \in BlamedIn(d) <=> q \in BlamedIn(c)
    BY <1>2, <1>3, <2>1
  <2> QED
    BY <2>2 DEF c, d
<1>7. ASSUME ~Blamed(e) PROVE BlamedIn(g.cache) = BlamedIn(f.cache) \ {p}
  <2>1. \A q : q \in BlamedIn(d) <=> q \in BlamedIn(c) /\ q # p
    BY <1>2, <1>3, <1>4, <1>5, <1>7
  <2> QED
    BY <2>1 DEF c, d
<1> QED
  BY <1>6, <1>7

\* The forests a removal of a suffix passes through.
Regrown(bs, sc, S, K, m) ==
  {f \in Grown(bs, sc) : /\ Len(f.cache) = m
                         /\ \A p \in 1..m : BlamesAll(f.cache[p], S, K)}

\* A visit of the suffix path keeps the forest grown, the counter exact and the blame
\* complete, whether the leaf is kept, dropped or promoted.
LEMMA VisitInPlaceKeeps ==
  ASSUME NEW bs, NEW sc, NEW S, NEW K, NEW m, NEW f \in Regrown(bs, sc, S, K, m),
         NEW p \in 1..m, NEW R, R \subseteq 0..(MaxScene - 1),
         \A k \in K : k - 1 \notin R /\ \A r \in R : k - 1 < r,
         Range(sc) \subseteq {S[k] : k \in K}
  PROVE  VisitInPlace(f, p, R) \in Regrown(bs, sc, S, K, m)
<1> DEFINE e == f.cache[p]
<1>1. /\ f \in Forests /\ FreshIds(f) /\ CacheExact(f) /\ Extends(f, bs) /\ FreeFrom(f, Len(bs), sc)
      /\ Len(f.cache) = m /\ \A q \in 1..m : BlamesAll(f.cache[q], S, K)
  BY DEF Regrown, Grown
<1>2. /\ f.cache \in Seq(CachedBoxes) /\ f.index \in Indices /\ f.count \in Int
      /\ f.boxes \in Seq(BoxNodes) /\ f.res \in ReservationMaps /\ f.nextId \in Nat
  BY <1>1, ForestParts
<1>3. e \in CachedBoxes
  BY <1>1, <1>2, ElementOfSeq
<1>4. e.node \in Node /\ e.blockers \in SUBSET (0..(MaxScene - 1)) /\ e.active \in BOOLEAN
      /\ e = [node |-> e.node, blockers |-> e.blockers, active |-> e.active]
  BY <1>3 DEF CachedBoxes
<1>5. BlamesAll(e, S, K)
  BY <1>1
<1>6. CASE ~e.active
  <2>1. VisitInPlace(f, p, R) = f
    BY <1>6 DEF VisitInPlace
  <2> QED
    BY <2>1
<1>7. CASE e.active /\ Fate(f, e, R) = "kept"
  <2> DEFINE B == Remap(R, e.blockers)
             ne == [e EXCEPT !.blockers = B]
             g == SetEntry(f, p, ne)
  <2>1. VisitInPlace(f, p, R) = g
    BY <1>7 DEF VisitInPlace
  <2> HIDE DEF e
  <2>2. /\ B \in SUBSET (0..(MaxScene - 1)) /\ (B = {} <=> e.blockers \subseteq R)
        /\ \A i \in e.blockers \ R : (\A r \in R : i < r) => i \in B
    BY <1>4, RemapTyped
  <2> HIDE DEF B
  <2>3. ne = [node |-> e.node, blockers |-> B, active |-> e.active]
    BY <1>4
  <2>4. ne \in CachedBoxes /\ ne.node = e.node /\ ne.blockers = B /\ ne.active
    BY <1>4, <1>7, <2>2, <2>3 DEF CachedBoxes
  <2>5. Blamed(ne) <=> Blamed(e)
    <3>1. e.blockers \cap R = {} \/ ~(e.blockers \subseteq R)
      BY <1>7 DEF Fate
    <3>2. B = {} <=> e.blockers = {}
      BY <2>2, <3>1
    <3> QED
      BY <1>7, <2>4, <3>2 DEF Blamed
  <2>6. BlamesAll(ne, S, K)
    <3> SUFFICES ASSUME Blamed(e), NEW k \in K, CellsOf(e.node) \cap Covers[S[k]] # {}
                 PROVE  k - 1 \in B
      BY <2>4, <2>5 DEF BlamesAll
    <3>1. k - 1 \in e.blockers
      BY <1>5 DEF BlamesAll
    <3> QED
      BY <2>2, <3>1
  <2> HIDE DEF ne, g
  <2>7. /\ g = [boxes |-> f.boxes, res |-> f.res, cache |-> g.cache, index |-> f.index,
                count |-> f.count, nextId |-> f.nextId]
        /\ g \in Forests /\ Len(g.cache) = Len(f.cache)
        /\ \A q \in 1..Len(f.cache) : g.cache[q] = IF q = p THEN ne ELSE f.cache[q]
    <3>1. p \in 1..Len(f.cache)
      BY <1>1
    <3>2. IsSetEntry(SetEntry(f, p, ne), f, p, ne)
      BY <1>1, <2>4, <3>1, SetEntryKeeps
    <3> QED
      BY <3>2 DEF IsSetEntry, g
  <2>8. g.boxes = f.boxes /\ g.index = f.index /\ g.count = f.count /\ g.nextId = f.nextId
    BY <2>7
  <2>9. BlamedIn(g.cache) = BlamedIn(f.cache)
    <3>1. IsSetEntry(g, f, p, ne) /\ p \in 1..Len(f.cache)
      BY <1>1, <2>7 DEF IsSetEntry
    <3>2. Blamed(ne) <=> Blamed(f.cache[p])
      BY <2>5 DEF e, Blamed
    <3> QED
      BY <1>1, <3>1, <3>2, BlamedAfterEntry
  <2>10. CacheExact(g)
    BY <1>1, <2>7, <2>8, <2>9 DEF CacheExact, CountExact, IndexInCache
  <2>11. g \in Grown(bs, sc)
    BY <1>1, <1>2, <2>7, <2>8, <2>10 DEF Grown, FreshIds, Extends, FreeFrom
  <2>12. \A q \in 1..m : BlamesAll(g.cache[q], S, K)
    BY <1>1, <2>6, <2>7
  <2> QED
    BY <1>1, <2>1, <2>7, <2>11, <2>12 DEF Regrown
<1>8. CASE e.active /\ Fate(f, e, R) # "kept"
  <2> DEFINE dead == [e EXCEPT !.active = FALSE, !.blockers = {}]
             h == Promoted(f, e, R)
             s == SetEntry(h, p, dead)
             g == [s EXCEPT !.count = s.count - 1]
  <2>1. VisitInPlace(f, p, R) = g
    BY <1>8 DEF VisitInPlace
  <2>2. h \in Growing(bs, sc) /\ h.cache = f.cache /\ h.index = f.index /\ h.count = f.count
    <3>1. f \in Growing(bs, sc)
      BY <1>1 DEF Growing
    <3>2. \A k \in K : k - 1 \notin R
      OBVIOUS
    <3> HIDE DEF e
    <3> QED
      BY <1>3, <1>5, <1>8, <3>1, <3>2, PromotedKeeps DEF h
  <2> HIDE DEF h, e
  <2>3. dead = [node |-> e.node, blockers |-> {}, active |-> FALSE]
    <3>1. PICK d : d = [e EXCEPT !.active = FALSE]
      OBVIOUS
    <3>2. d = [node |-> e.node, blockers |-> e.blockers, active |-> FALSE]
      BY <1>4, <3>1
    <3>3. PICK c : c = [d EXCEPT !.blockers = {}]
      OBVIOUS
    <3>4. c = [node |-> e.node, blockers |-> {}, active |-> FALSE]
      BY <3>2, <3>3
    <3> QED
      BY <3>1, <3>3, <3>4
  <2>4. dead \in CachedBoxes /\ ~Blamed(dead)
    BY <1>4, <2>3 DEF CachedBoxes, Blamed
  <2> HIDE DEF dead
  <2>5. /\ h \in Forests /\ FreshIds(h) /\ Extends(h, bs) /\ FreeFrom(h, Len(bs), sc)
    BY <2>2 DEF Growing
  <2> HIDE DEF s
  <2>6. /\ s = [boxes |-> h.boxes, res |-> h.res, cache |-> s.cache, index |-> h.index,
                count |-> h.count, nextId |-> h.nextId]
        /\ s \in Forests /\ Len(s.cache) = Len(f.cache)
        /\ \A q \in 1..Len(f.cache) : s.cache[q] = IF q = p THEN dead ELSE f.cache[q]
    <3>1. p \in 1..Len(h.cache) /\ h.cache = f.cache
      BY <1>1, <2>2
    <3>2. IsSetEntry(SetEntry(h, p, dead), h, p, dead)
      BY <2>4, <2>5, <3>1, SetEntryKeeps
    <3>3. IsSetEntry(s, h, p, dead)
      BY <3>2 DEF s
    <3> QED
      BY <3>1, <3>3 DEF IsSetEntry
  <2>7. g = [boxes |-> h.boxes, res |-> h.res, cache |-> s.cache, index |-> h.index,
             count |-> h.count - 1, nextId |-> h.nextId]
    <3>1. s.count = h.count
      BY <2>6
    <3> QED
      BY <2>6, <3>1
  <2> HIDE DEF g
  <2>8. /\ g.boxes = h.boxes /\ g.cache = s.cache /\ g.index = f.index
        /\ g.count = f.count - 1 /\ g.nextId = h.nextId
    BY <2>2, <2>7
  <2>9. g \in Forests
    <3>1. h.count - 1 \in Int
      BY <1>2, <2>2
    <3>2. s.cache \in Seq(CachedBoxes)
      BY <2>6, ForestParts
    <3>3. h.boxes \in Seq(BoxNodes) /\ h.res \in ReservationMaps /\ h.index \in Indices /\ h.nextId \in Nat
      BY <2>5, ForestParts
    <3>4. g = [boxes |-> g.boxes, res |-> g.res, cache |-> g.cache, index |-> g.index,
               count |-> g.count, nextId |-> g.nextId] /\ g.res = h.res /\ g.index = h.index
          /\ g.count = h.count - 1
      BY <2>7
    <3> QED
      BY <2>8, <3>1, <3>2, <3>3, <3>4, ForestParts
  <2>10. CacheExact(g)
    <3>1. BlamedIn(g.cache) = BlamedIn(f.cache) \ {p}
      <4>1. IsSetEntry(s, h, p, dead)
        BY <2>2, <2>6 DEF IsSetEntry
      <4>2. p \in 1..Len(h.cache)
        BY <1>1, <2>2
      <4>3. BlamedIn(s.cache) = BlamedIn(h.cache) \ {p}
        BY <2>4, <2>5, <4>1, <4>2, BlamedAfterEntry
      <4> QED
        BY <2>2, <2>8, <4>3
    <3>2. p \in BlamedIn(f.cache)
      <4>1. e.blockers # {}
        BY <1>8 DEF Fate
      <4>2. Blamed(f.cache[p])
        BY <1>8, <4>1 DEF Blamed, e
      <4> QED
        BY <1>1, <1>2, <4>2, LenProperties DEF BlamedIn
    <3>3. IsFiniteSet(BlamedIn(f.cache)) /\ Cardinality(BlamedIn(f.cache)) \in Nat
      BY <1>2, BlamedFinite
    <3>4. Cardinality(BlamedIn(g.cache)) = Cardinality(BlamedIn(f.cache)) - 1
      BY <3>1, <3>2, <3>3, FS_RemoveElement
    <3> QED
      BY <1>1, <2>6, <2>8, <3>4 DEF CacheExact, CountExact, IndexInCache
  <2>11. g \in Grown(bs, sc)
    BY <2>5, <2>8, <2>9, <2>10 DEF Grown, FreshIds, Extends, FreeFrom
  <2>12. \A q \in 1..m : BlamesAll(g.cache[q], S, K)
    BY <1>1, <2>4, <2>6, <2>8 DEF BlamesAll
  <2> QED
    BY <1>1, <2>1, <2>6, <2>8, <2>11, <2>12 DEF Regrown
<1> QED
  BY <1>4, <1>6, <1>7, <1>8

\* The visits of the suffix path are the lists of the removed indices, one by one.
LEMMA SuffixVisitsUnfold ==
  ASSUME NEW f \in Forests, IndexInCache(f), NEW first \in Nat, NEW count \in Nat,
         first + count <= MaxScene
  PROVE  \E u :
           /\ u[0] = <<>> /\ SuffixVisits(f, first, count) = u[count]
           /\ \A k \in 1..count : u[k] = u[k - 1] \o f.index[first + k - 1]
           /\ \A k \in 0..count : u[k] \in Seq(1..Len(f.cache))
<1> DEFINE U == Seq(1..Len(f.cache))
           n == count
           Op(x, k) == x \o f.index[first + k - 1]
           step == [y \in (1..n) \X U |-> Op(y[2], y[1])]
           P(f_) == f_ = [k \in 0..n |-> IF k = 0 THEN <<>> ELSE Op(f_[k - 1], k)]
           u == CHOOSE f_ : P(f_)
<1>1. n \in Nat
  OBVIOUS
<1>2. ASSUME NEW k \in 1..n, NEW x \in U PROVE step[<<k, x>>] = Op(x, k) /\ Op(x, k) \in U
  <2>1. Op(x, k) \in U
    <3> DEFINE i == first + k - 1
    <3>1. i \in 0..(MaxScene - 1)
      BY BoundAssumption
    <3>2. f.index[i] \in Seq(Nat)
      BY <3>1, ForestParts DEF Indices
    <3>3. IsSeq(f.index[i]) /\ \A j \in 1..Len(f.index[i]) : f.index[i][j] \in 1..Len(f.cache)
      BY <3>1, <3>2, SeqTyped DEF IndexInCache
    <3> HIDE DEF i
    <3>4. Range(f.index[i]) \subseteq 1..Len(f.cache)
      <4>1. PICK s : s = f.index[i]
        OBVIOUS
      <4>2. \A y \in Range(s) : \E j \in 1..Len(s) : s[j] = y
        BY <3>3, <4>1, SeqShape
      <4> QED
        BY <3>3, <4>1, <4>2
    <3>5. f.index[i] \in Seq(1..Len(f.cache))
      BY <3>3, <3>4, SeqWider
    <3>6. x \o f.index[i] \in Seq(1..Len(f.cache))
      BY <3>5, ConcatProperties
    <3> QED
      BY <3>6 DEF i
  <2> QED
    BY <2>1
<1>3. SuffixVisits(f, first, count) = u[n]
  BY DEF SuffixVisits
<1>4. <<>> \in U
  BY EmptySeq
<1> HIDE DEF step, Op, U, n
<1>5. PICK g : Computes(g, n, <<>>, step) /\ \A k \in 0..n : g[k] \in U
  <2>1. \A k \in 1..n : \A x \in U : step[<<k, x>>] \in U
    BY <1>2
  <2> QED
    BY <1>1, <1>4, <2>1, Recursion
<1>6. P(g)
  <2>1. ASSUME NEW k \in 0..n, k # 0 PROVE step[<<k, g[k - 1]>>] = Op(g[k - 1], k)
    <3>1. k \in 1..n /\ k - 1 \in 0..n
      BY <1>1, <2>1
    <3> QED
      BY <3>1, <1>2, <1>5
  <2>2. \A k \in 0..n : (IF k = 0 THEN <<>> ELSE step[<<k, g[k - 1]>>])
                          = (IF k = 0 THEN <<>> ELSE Op(g[k - 1], k))
    BY <2>1
  <2> QED
    BY <1>5, <2>2 DEF Computes
<1>7. P(u)
  <2> HIDE DEF P
  <2> QED
    BY <1>6
<1>8. \A k \in 0..n : u[k] = IF k = 0 THEN <<>> ELSE Op(u[k - 1], k)
  <2> HIDE DEF u
  <2> QED
    BY <1>7
<1> HIDE DEF u, P
<1> DEFINE T == {k \in 0..n : u[k] \in U}
<1>9. \A k \in 0..n : k \in T
  <2>1. 0 \in T
    BY <1>1, <1>4, <1>8
  <2>2. ASSUME NEW k \in 1..n, k - 1 \in T PROVE k \in T
    <3>1. k \in 0..n /\ k # 0 /\ u[k] = Op(u[k - 1], k)
      BY <1>1, <1>8
    <3> QED
      BY <1>2, <2>2, <3>1
  <2> HIDE DEF T
  <2> QED
    BY <1>1, <2>1, <2>2, UpTo
<1>10. u[0] = <<>>
  <2>1. 0 \in 0..n
    BY <1>1
  <2> QED
    BY <1>8, <2>1
<1>11. \A k \in 1..n : u[k] = Op(u[k - 1], k)
  BY <1>1, <1>8
<1>12. n \in 0..n
  BY <1>1
<1> QED
  BY <1>1, <1>3, <1>9, <1>10, <1>11, <1>12 DEF U, Op, n, T

\* The positions a suffix removal visits are positions of the cache.
LEMMA SuffixVisitsTyped ==
  ASSUME NEW f \in Forests, IndexInCache(f), NEW first \in Nat, NEW count \in Nat,
         first + count <= MaxScene
  PROVE  SuffixVisits(f, first, count) \in Seq(1..Len(f.cache))
<1>1. PICK u :
        /\ u[0] = <<>> /\ SuffixVisits(f, first, count) = u[count]
        /\ \A k \in 1..count : u[k] = u[k - 1] \o f.index[first + k - 1]
        /\ \A k \in 0..count : u[k] \in Seq(1..Len(f.cache))
  BY SuffixVisitsUnfold, ZenonT(60)
<1> QED
  BY <1>1

\* How the suffix path goes through the leaves listed, each state in G.
SuffixRun(u, f, R, first, G) ==
  LET visits == SuffixVisits(f, first, Cardinality(R))
  IN  /\ u[0] = f /\ Len(visits) \in Nat /\ PromoteSuffix(f, R, first) = u[Len(visits)]
      /\ \A k \in 1..Len(visits) : u[k] = VisitInPlace(u[k - 1], visits[k], R)
      /\ \A k \in 0..Len(visits) : u[k] \in G

\* The suffix path visits the leaves listed for the removed indices, in place.
LEMMA PromoteSuffixUnfolds ==
  ASSUME NEW bs, NEW sc, NEW S, NEW K, NEW m, NEW f \in Regrown(bs, sc, S, K, m),
         NEW R, R \subseteq 0..(MaxScene - 1), NEW first \in Nat,
         Cardinality(R) \in Nat, first + Cardinality(R) <= MaxScene,
         \A k \in K : k - 1 \notin R /\ \A r \in R : k - 1 < r,
         Range(sc) \subseteq {S[k] : k \in K}
  PROVE  \E u : SuffixRun(u, f, R, first, Regrown(bs, sc, S, K, m))
<1> DEFINE visits == SuffixVisits(f, first, Cardinality(R))
           n == Len(visits)
           U == Regrown(bs, sc, S, K, m)
           Op(x, k) == VisitInPlace(x, visits[k], R)
           step == [y \in (1..n) \X U |-> Op(y[2], y[1])]
           P(f_) == f_ = [k \in 0..n |-> IF k = 0 THEN f ELSE Op(f_[k - 1], k)]
           u == CHOOSE f_ : P(f_)
<1>1. n \in Nat
  <2>1. visits \in Seq(1..m)
    <3>1. f \in Forests /\ IndexInCache(f) /\ Len(f.cache) = m
      BY DEF Regrown, Grown, CacheExact
    <3> QED
      BY <3>1, SuffixVisitsTyped
  <2> QED
    BY <2>1, LenProperties
<1>2. ASSUME NEW k \in 1..n, NEW x \in U PROVE step[<<k, x>>] = Op(x, k) /\ Op(x, k) \in U
  <2>1. Op(x, k) \in U
    <3>1. f \in Forests /\ IndexInCache(f) /\ Len(f.cache) = m
      BY DEF Regrown, Grown, CacheExact
    <3>2. visits \in Seq(1..m)
      BY <3>1, SuffixVisitsTyped
    <3>3. visits[k] \in 1..m
      BY <3>2, ElementOfSeq
    <3> HIDE DEF visits, U
    <3>4. x \in Regrown(bs, sc, S, K, m)
      BY DEF U
    <3>5. VisitInPlace(x, visits[k], R) \in Regrown(bs, sc, S, K, m)
      BY <3>3, <3>4, VisitInPlaceKeeps
    <3> QED
      BY <3>5 DEF U
  <2> QED
    BY <2>1
<1>3. PromoteSuffix(f, R, first) = u[n]
  BY DEF PromoteSuffix
<1>4. f \in U
  OBVIOUS
<1> HIDE DEF step, Op, U, n, visits
<1>5. PICK g : Computes(g, n, f, step) /\ \A k \in 0..n : g[k] \in U
  <2>1. \A k \in 1..n : \A x \in U : step[<<k, x>>] \in U
    BY <1>2
  <2> QED
    BY <1>1, <1>4, <2>1, Recursion
<1>6. P(g)
  <2>1. ASSUME NEW k \in 0..n, k # 0 PROVE step[<<k, g[k - 1]>>] = Op(g[k - 1], k)
    <3>1. k \in 1..n /\ k - 1 \in 0..n
      BY <1>1, <2>1
    <3> QED
      BY <3>1, <1>2, <1>5
  <2>2. \A k \in 0..n : (IF k = 0 THEN f ELSE step[<<k, g[k - 1]>>])
                          = (IF k = 0 THEN f ELSE Op(g[k - 1], k))
    BY <2>1
  <2> QED
    BY <1>5, <2>2 DEF Computes
<1>7. P(u)
  <2> HIDE DEF P
  <2> QED
    BY <1>6
<1>8. \A k \in 0..n : u[k] = IF k = 0 THEN f ELSE Op(u[k - 1], k)
  <2> HIDE DEF u
  <2> QED
    BY <1>7
<1> HIDE DEF u, P
<1> DEFINE T == {k \in 0..n : u[k] \in U}
<1>9. \A k \in 0..n : k \in T
  <2>1. 0 \in T
    BY <1>1, <1>4, <1>8
  <2>2. ASSUME NEW k \in 1..n, k - 1 \in T PROVE k \in T
    <3>1. k \in 0..n /\ k # 0 /\ u[k] = Op(u[k - 1], k)
      BY <1>1, <1>8
    <3> QED
      BY <1>2, <2>2, <3>1
  <2> HIDE DEF T
  <2> QED
    BY <1>1, <2>1, <2>2, UpTo
<1>10. u[0] = f
  BY <1>1, <1>8
<1>11. \A k \in 1..n : u[k] = Op(u[k - 1], k)
  BY <1>1, <1>8
<1>12. n \in 0..n
  BY <1>1
<1> QED
  BY <1>1, <1>3, <1>9, <1>10, <1>11, <1>12 DEF U, Op, n, T, visits, SuffixRun

\* The suffix path of a removal.
LEMMA PromoteSuffixKeeps ==
  ASSUME NEW bs, NEW sc, NEW S, NEW K, NEW m, NEW f \in Regrown(bs, sc, S, K, m),
         NEW R, R \subseteq 0..(MaxScene - 1), NEW first \in Nat,
         Cardinality(R) \in Nat, first + Cardinality(R) <= MaxScene,
         \A k \in K : k - 1 \notin R /\ \A r \in R : k - 1 < r,
         Range(sc) \subseteq {S[k] : k \in K}
  PROVE  PromoteSuffix(f, R, first) \in Regrown(bs, sc, S, K, m)
<1>1. PICK u : SuffixRun(u, f, R, first, Regrown(bs, sc, S, K, m))
  BY PromoteSuffixUnfolds
<1> QED
  BY <1>1 DEF SuffixRun

\* A visit of the general path, which rewrites the cache behind it.
LEMMA VisitAndRewriteKeeps ==
  ASSUME NEW bs, NEW sc, NEW f \in Growing(bs, sc), NEW e \in CachedBoxes,
         NEW R, R \subseteq 0..(MaxScene - 1), NEW S, NEW K,
         \A k \in K : k - 1 \notin R, Range(sc) \subseteq {S[k] : k \in K}, BlamesAll(e, S, K)
  PROVE  VisitAndRewrite(f, e, R) \in Growing(bs, sc)
<1> DEFINE fate == Fate(f, e, R)
<1>1. CASE ~e.active
  BY <1>1 DEF VisitAndRewrite
<1>2. CASE e.active /\ fate \in {"kept", "disconnected"}
  <2> DEFINE B == Remap(R, e.blockers)
             ne == [e EXCEPT !.blockers = B]
             cs == Append(f.cache, ne)
             g == [f EXCEPT !.cache = cs]
  <2>1. VisitAndRewrite(f, e, R) = g
    BY <1>2 DEF VisitAndRewrite
  <2>2. e.node \in Node /\ e.blockers \in SUBSET (0..(MaxScene - 1)) /\ e.active \in BOOLEAN
        /\ e = [node |-> e.node, blockers |-> e.blockers, active |-> e.active]
    BY DEF CachedBoxes
  <2>3. B \in SUBSET (0..(MaxScene - 1))
    BY <2>2, RemapTyped
  <2> HIDE DEF B
  <2>4. ne = [node |-> e.node, blockers |-> B, active |-> e.active]
    BY <2>2
  <2>5. ne \in CachedBoxes
    BY <2>2, <2>3, <2>4 DEF CachedBoxes
  <2>6. f \in Forests /\ FreshIds(f) /\ Extends(f, bs) /\ FreeFrom(f, Len(bs), sc)
    BY DEF Growing
  <2>7. /\ f = [boxes |-> f.boxes, res |-> f.res, cache |-> f.cache, index |-> f.index,
                count |-> f.count, nextId |-> f.nextId]
        /\ f.boxes \in Seq(BoxNodes) /\ f.res \in ReservationMaps
        /\ f.cache \in Seq(CachedBoxes) /\ f.index \in Indices
        /\ f.count \in Int /\ f.nextId \in Nat
    BY <2>6, ForestParts
  <2> HIDE DEF ne
  <2>8. cs \in Seq(CachedBoxes)
    BY <2>5, <2>7, AppendProperties
  <2> HIDE DEF cs
  <2>9. g = [boxes |-> f.boxes, res |-> f.res, cache |-> cs, index |-> f.index,
             count |-> f.count, nextId |-> f.nextId]
    BY <2>7
  <2> HIDE DEF g
  <2>10. g \in Forests
    BY <2>7, <2>8, <2>9, ForestParts
  <2>11. g.boxes = f.boxes /\ g.nextId = f.nextId
    BY <2>9
  <2>12. g \in Growing(bs, sc)
    BY <2>6, <2>10, <2>11 DEF Growing, FreshIds, Extends, FreeFrom
  <2> QED
    BY <2>1, <2>12
<1>3. CASE e.active /\ fate \notin {"kept", "disconnected"}
  <2>1. VisitAndRewrite(f, e, R) = Promoted(f, e, R)
    BY <1>3 DEF VisitAndRewrite
  <2>2. Promoted(f, e, R) \in Growing(bs, sc)
    BY <1>3, PromotedKeeps
  <2> QED
    BY <2>1, <2>2
<1>4. e.active \in BOOLEAN
  BY DEF CachedBoxes
<1> QED
  BY <1>1, <1>2, <1>3, <1>4

\* How the general path goes through the cache, each state in G.
GeneralRun(u, f, R, G) ==
  /\ u[0] = [f EXCEPT !.cache = <<>>] /\ Len(f.cache) \in Nat
  /\ PromoteGeneral(f, R) = RebuildIndex(u[Len(f.cache)])
  /\ \A k \in 1..Len(f.cache) : u[k] = VisitAndRewrite(u[k - 1], f.cache[k], R)
  /\ \A k \in 0..Len(f.cache) : u[k] \in G

\* The general path rewrites the cache entry by entry.
LEMMA PromoteGeneralUnfolds ==
  ASSUME NEW bs, NEW sc, NEW f \in Growing(bs, sc), NEW S, NEW K,
         \A p \in 1..Len(f.cache) : BlamesAll(f.cache[p], S, K),
         NEW R, R \subseteq 0..(MaxScene - 1),
         \A k \in K : k - 1 \notin R, Range(sc) \subseteq {S[k] : k \in K}
  PROVE  \E u : GeneralRun(u, f, R, Growing(bs, sc))
<1> DEFINE n == Len(f.cache)
           start == [f EXCEPT !.cache = <<>>]
           U == Growing(bs, sc)
           Op(x, k) == VisitAndRewrite(x, f.cache[k], R)
           step == [y \in (1..n) \X U |-> Op(y[2], y[1])]
           P(f_) == f_ = [k \in 0..n |-> IF k = 0 THEN start ELSE Op(f_[k - 1], k)]
           u == CHOOSE f_ : P(f_)
<1>1. n \in Nat
  BY ForestParts, LenProperties DEF Growing
<1>2. ASSUME NEW k \in 1..n, NEW x \in U PROVE step[<<k, x>>] = Op(x, k) /\ Op(x, k) \in U
  <2>1. Op(x, k) \in U
    <3>1. f.cache[k] \in CachedBoxes
      <4>1. f.cache \in Seq(CachedBoxes)
        BY ForestParts DEF Growing
      <4> QED
        BY <4>1, ElementOfSeq
    <3> HIDE DEF U
    <3>2. x \in Growing(bs, sc)
      BY DEF U
    <3>3. BlamesAll(f.cache[k], S, K)
      OBVIOUS
    <3>4. VisitAndRewrite(x, f.cache[k], R) \in Growing(bs, sc)
      BY <3>1, <3>2, <3>3, VisitAndRewriteKeeps
    <3> QED
      BY <3>4 DEF U
  <2> QED
    BY <2>1
<1>3. PromoteGeneral(f, R) = RebuildIndex(u[n])
  BY DEF PromoteGeneral
<1>4. start \in U
  <2>1. /\ f = [boxes |-> f.boxes, res |-> f.res, cache |-> f.cache, index |-> f.index,
                count |-> f.count, nextId |-> f.nextId]
        /\ f.boxes \in Seq(BoxNodes) /\ f.res \in ReservationMaps
        /\ f.cache \in Seq(CachedBoxes) /\ f.index \in Indices
        /\ f.count \in Int /\ f.nextId \in Nat
    BY ForestParts DEF Growing
  <2>2. start = [boxes |-> f.boxes, res |-> f.res, cache |-> <<>>, index |-> f.index,
                 count |-> f.count, nextId |-> f.nextId]
    BY <2>1
  <2> HIDE DEF start
  <2>3. <<>> \in Seq(CachedBoxes)
    BY EmptySeq
  <2>4. start \in Forests
    BY <2>1, <2>2, <2>3, ForestParts
  <2>5. start.boxes = f.boxes /\ start.nextId = f.nextId
    BY <2>2
  <2> QED
    BY <2>4, <2>5 DEF Growing, FreshIds, Extends, FreeFrom
<1> HIDE DEF step, Op, U, n, start
<1>5. PICK g : Computes(g, n, start, step) /\ \A k \in 0..n : g[k] \in U
  <2>1. \A k \in 1..n : \A x \in U : step[<<k, x>>] \in U
    BY <1>2
  <2> QED
    BY <1>1, <1>4, <2>1, Recursion
<1>6. P(g)
  <2>1. ASSUME NEW k \in 0..n, k # 0 PROVE step[<<k, g[k - 1]>>] = Op(g[k - 1], k)
    <3>1. k \in 1..n /\ k - 1 \in 0..n
      BY <1>1, <2>1
    <3> QED
      BY <3>1, <1>2, <1>5
  <2>2. \A k \in 0..n : (IF k = 0 THEN start ELSE step[<<k, g[k - 1]>>])
                          = (IF k = 0 THEN start ELSE Op(g[k - 1], k))
    BY <2>1
  <2> QED
    BY <1>5, <2>2 DEF Computes
<1>7. P(u)
  <2> HIDE DEF P
  <2> QED
    BY <1>6
<1>8. \A k \in 0..n : u[k] = IF k = 0 THEN start ELSE Op(u[k - 1], k)
  <2> HIDE DEF u
  <2> QED
    BY <1>7
<1> HIDE DEF u, P
<1> DEFINE T == {k \in 0..n : u[k] \in U}
<1>9. \A k \in 0..n : k \in T
  <2>1. 0 \in T
    BY <1>1, <1>4, <1>8
  <2>2. ASSUME NEW k \in 1..n, k - 1 \in T PROVE k \in T
    <3>1. k \in 0..n /\ k # 0 /\ u[k] = Op(u[k - 1], k)
      BY <1>1, <1>8
    <3> QED
      BY <1>2, <2>2, <3>1
  <2> HIDE DEF T
  <2> QED
    BY <1>1, <2>1, <2>2, UpTo
<1>10. u[0] = start
  BY <1>1, <1>8
<1>11. \A k \in 1..n : u[k] = Op(u[k - 1], k)
  BY <1>1, <1>8
<1>12. n \in 0..n
  BY <1>1
<1> QED
  BY <1>1, <1>3, <1>9, <1>10, <1>11, <1>12 DEF U, Op, n, T, start, GeneralRun

\* The general path of a removal ends with a counter and an index rebuilt.
LEMMA PromoteGeneralKeeps ==
  ASSUME NEW bs, NEW sc, NEW f \in Growing(bs, sc), NEW S, NEW K,
         \A p \in 1..Len(f.cache) : BlamesAll(f.cache[p], S, K),
         NEW R, R \subseteq 0..(MaxScene - 1),
         \A k \in K : k - 1 \notin R, Range(sc) \subseteq {S[k] : k \in K}
  PROVE  PromoteGeneral(f, R) \in Grown(bs, sc)
<1>1. PICK u :
        /\ Len(f.cache) \in Nat /\ PromoteGeneral(f, R) = RebuildIndex(u[Len(f.cache)])
        /\ u[Len(f.cache)] \in Growing(bs, sc)
  <2>1. PICK u : GeneralRun(u, f, R, Growing(bs, sc))
    BY PromoteGeneralUnfolds
  <2>2. /\ Len(f.cache) \in Nat /\ PromoteGeneral(f, R) = RebuildIndex(u[Len(f.cache)])
        /\ \A k \in 0..Len(f.cache) : u[k] \in Growing(bs, sc)
    BY <2>1 DEF GeneralRun
  <2>3. u[Len(f.cache)] \in Growing(bs, sc)
    BY <2>2
  <2> QED
    BY <2>2, <2>3
<1> QED
  <2> DEFINE h == u[Len(f.cache)]
             d == RebuildIndex(h)
  <2>1. PromoteGeneral(f, R) = d
    BY <1>1
  <2>2. h \in Forests /\ FreshIds(h) /\ Extends(h, bs) /\ FreeFrom(h, Len(bs), sc)
    BY <1>1 DEF Growing
  <2> HIDE DEF h
  <2>3. d \in Forests /\ CacheExact(d) /\ d.boxes = h.boxes /\ d.nextId = h.nextId
    BY <2>2, RebuildIndexKeeps
  <2> HIDE DEF d
  <2>4. d \in Grown(bs, sc)
    BY <2>2, <2>3 DEF Grown, FreshIds, Extends, FreeFrom
  <2> QED
    BY <2>1, <2>4

\* promote_unblocked_collision_cache, by whichever path.
LEMMA PromoteUnblockedKeeps ==
  ASSUME NEW bs, NEW sc, NEW f0 \in Grown(bs, sc), NEW S, NEW K,
         \A p \in 1..Len(f0.cache) : BlamesAll(f0.cache[p], S, K),
         NEW R, R \subseteq 0..(MaxScene - 1), Cardinality(R) \in Nat,
         NEW left \in Nat, left + Cardinality(R) <= MaxScene,
         \A k \in K : k - 1 \notin R, Range(sc) \subseteq {S[k] : k \in K},
         (\A r \in R : r >= left) => \A k \in K : \A r \in R : k - 1 < r
  PROVE  PromoteUnblocked(f0, R, left) \in Grown(bs, sc)
<1> DEFINE f == IF f0.count <= 0 /\ f0.cache # <<>> THEN RebuildIndex(f0) ELSE f0
<1>1. f \in Grown(bs, sc) /\ f.cache = f0.cache
  <2>1. f0 \in Forests /\ FreshIds(f0) /\ Extends(f0, bs) /\ FreeFrom(f0, Len(bs), sc)
    BY DEF Grown
  <2> DEFINE g == RebuildIndex(f0)
  <2>2. /\ g \in Forests /\ CacheExact(g) /\ g.boxes = f0.boxes /\ g.nextId = f0.nextId
        /\ g.cache = f0.cache
    BY <2>1, RebuildIndexKeeps
  <2> HIDE DEF g
  <2>3. g \in Grown(bs, sc)
    BY <2>1, <2>2 DEF Grown, FreshIds, Extends, FreeFrom
  <2> QED
    BY <2>2, <2>3 DEF g
<1>2. \A p \in 1..Len(f.cache) : BlamesAll(f.cache[p], S, K)
  BY <1>1
<1>3. PromoteUnblocked(f0, R, left) = IF f.count <= 0 THEN f
                                      ELSE IF \A r \in R : r >= left THEN PromoteSuffix(f, R, left)
                                      ELSE PromoteGeneral(f, R)
  BY DEF PromoteUnblocked
<1> HIDE DEF f
<1>4. CASE \A r \in R : r >= left
  <2>1. f \in Regrown(bs, sc, S, K, Len(f.cache))
    BY <1>1, <1>2 DEF Regrown
  <2>2. \A k \in K : k - 1 \notin R /\ \A r \in R : k - 1 < r
    BY <1>4
  <2>3. PromoteSuffix(f, R, left) \in Regrown(bs, sc, S, K, Len(f.cache))
    BY <2>1, <2>2, PromoteSuffixKeeps
  <2>4. PromoteSuffix(f, R, left) \in Grown(bs, sc)
    BY <2>3 DEF Regrown
  <2> QED
    BY <1>1, <1>3, <1>4, <2>4
<1>5. CASE ~\A r \in R : r >= left
  <2>1. f \in Growing(bs, sc)
    BY <1>1 DEF Grown, Growing
  <2>2. PromoteGeneral(f, R) \in Grown(bs, sc)
    BY <1>2, <2>1, PromoteGeneralKeeps
  <2> QED
    BY <1>1, <1>3, <1>5, <2>2
<1> QED
  BY <1>4, <1>5

\* A sequence of distinct elements is as long as it has elements.
LEMMA CountDistinct ==
  ASSUME NEW n \in Nat, NEW f, \A i, j \in 1..n : f[i] = f[j] => i = j
  PROVE  Cardinality({f[i] : i \in 1..n}) = n
<1> DEFINE g == [i \in 1..n |-> f[i]]
           T == {f[i] : i \in 1..n}
<1>1. g \in Injection(1..n, T)
  BY DEF Injection, IsInjective
<1>2. g \in Surjection(1..n, T)
  BY DEF Surjection
<1>3. ExistsBijection(1..n, T)
  BY <1>1, <1>2 DEF ExistsBijection, Bijection
<1>4. IsFiniteSet(1..n) /\ Cardinality(1..n) = n
  BY FS_Interval
<1> QED
  BY <1>3, <1>4, FS_Bijection

\* What a removal leaves of the scene.
LeftPositions(R) == Kept([k \in 1..Len(scene) |-> k], {k \in DOMAIN scene : k - 1 \notin R})
Left(R) == [k \in DOMAIN LeftPositions(R) |-> scene[LeftPositions(R)[k]]]
StaysAt(R) == {k \in 1..Len(scene) : k - 1 \notin R}
\* The two shapes of a set of removed indices.
Removal(R) == \E i \in 0..(Len(scene) - 1) : R = {i} \/ R = i..(Len(scene) - 1)

\* A removal leaves the obstacles that are not removed; when it goes by the suffix path,
\* all of them are in front of the removed ones.
LEMMA LeftFacts ==
  ASSUME SceneOK, NEW R, Removal(R)
  PROVE  /\ Left(R) \in Seq(Obstacle) /\ Range(Left(R)) = {scene[k] : k \in StaysAt(R)}
         /\ R \subseteq 0..(MaxScene - 1) /\ Cardinality(R) \in Nat /\ Len(Left(R)) \in Nat
         /\ Len(Left(R)) + Cardinality(R) = Len(scene)
         /\ (\A r \in R : r >= Len(Left(R))) => \A k \in StaysAt(R) : \A r \in R : k - 1 < r
<1> DEFINE n == Len(scene)
           s == [k \in 1..n |-> k]
           K == StaysAt(R)
           kept == LeftPositions(R)
<1>1. n \in Nat /\ n <= MaxScene /\ DOMAIN scene = 1..n /\ MaxScene \in Nat
  BY LenProperties, BoundAssumption DEF SceneOK
<1>2. kept = Kept(s, K)
  BY <1>1 DEF LeftPositions, StaysAt
<1>3. IsSeq(s) /\ Range(s) = 1..n /\ Len(s) = n
  <2>1. s = [k \in 1..n |-> s[k]]
    OBVIOUS
  <2>2. {s[k] : k \in 1..n} = 1..n
    OBVIOUS
  <2> HIDE DEF s, n
  <2> QED
    BY <1>1, <2>1, <2>2, SeqFunction
<1>4. \A i, j \in 1..Len(s) : s[i] = s[j] => i = j
  BY <1>1, <1>3
<1>5. K \subseteq 1..n
  BY DEF StaysAt
<1> HIDE DEF s, n, K, kept
<1>6. /\ IsSeq(kept) /\ Range(kept) = K
      /\ \A i, j \in 1..Len(kept) : kept[i] = kept[j] => i = j
  <2>1. IsSeq(Kept(s, K)) /\ Range(Kept(s, K)) = Range(s) \cap K
    BY <1>3, KeptFacts
  <2>2. \A i, j \in 1..Len(Kept(s, K)) : Kept(s, K)[i] = Kept(s, K)[j] => i = j
    BY <1>3, <1>4, KeptFacts
  <2> QED
    BY <1>2, <1>3, <1>5, <2>1, <2>2
<1>7. /\ Len(kept) \in Nat /\ DOMAIN kept = 1..Len(kept)
      /\ \A i \in 1..Len(kept) : kept[i] \in K
      /\ \A x \in K : \E i \in 1..Len(kept) : kept[i] = x
  BY <1>6, SeqShape
<1>8. Len(kept) = Cardinality(K)
  <2>1. {kept[i] : i \in 1..Len(kept)} = K
    BY <1>7
  <2> QED
    BY <1>6, <1>7, <2>1, CountDistinct
<1>9. Left(R) = [i \in 1..Len(kept) |-> Left(R)[i]] /\ \A i \in 1..Len(kept) : Left(R)[i] = scene[kept[i]]
  BY <1>7 DEF Left, kept
<1>10. IsSeq(Left(R)) /\ Len(Left(R)) = Len(kept) /\ Range(Left(R)) = {Left(R)[i] : i \in 1..Len(kept)}
  BY <1>7, <1>9, SeqFunction
<1>11. Range(Left(R)) = {scene[k] : k \in K}
  BY <1>7, <1>9, <1>10
<1>12. Left(R) \in Seq(Obstacle)
  <2>1. \A k \in 1..n : scene[k] \in Obstacle
    BY ElementOfSeq DEF SceneOK, n
  <2>2. Range(Left(R)) \subseteq Obstacle
    BY <1>5, <1>11, <2>1
  <2> QED
    BY <1>10, <2>2, SeqWider
<1>13. PICK i \in 0..(n - 1) : R = {i} \/ R = i..(n - 1)
  BY DEF Removal, n
<1>14. IsFiniteSet(1..n) /\ Cardinality(1..n) = n
  BY <1>1, FS_Interval
<1>15. R \subseteq 0..(MaxScene - 1)
  BY <1>1, <1>13
<1> DEFINE P == /\ Cardinality(R) \in Nat /\ Len(Left(R)) + Cardinality(R) = n
                /\ (\A r \in R : r >= Len(Left(R))) => \A k \in K : \A r \in R : k - 1 < r
<1>16. ASSUME R = {i} PROVE P
  <2>1. Cardinality(R) = 1
    BY <1>16, FS_Singleton
  <2>2. K = (1..n) \ {i + 1}
    BY <1>1, <1>13, <1>16 DEF K, StaysAt, n
  <2>3. i + 1 \in 1..n
    BY <1>1, <1>13
  <2>4. Cardinality(K) = n - 1
    BY <1>14, <2>2, <2>3, FS_RemoveElement
  <2>5. (\A r \in R : r >= Len(Left(R))) => \A k \in K : \A r \in R : k - 1 < r
    BY <1>1, <1>8, <1>10, <1>16, <2>2, <2>4
  <2> QED
    BY <1>1, <1>8, <1>10, <2>1, <2>4, <2>5
<1>17. ASSUME R = i..(n - 1) PROVE P
  <2>1. Cardinality(R) = n - i
    BY <1>1, <1>13, <1>17, FS_Interval
  <2>2. K = 1..i
    <3>1. \A k \in 1..n : k - 1 \notin i..(n - 1) <=> k <= i
      BY <1>1, <1>13
    <3> QED
      BY <1>1, <1>13, <1>17, <3>1 DEF K, StaysAt, n
  <2>3. Cardinality(K) = i
    BY <1>13, <1>1, <2>2, FS_Interval
  <2>4. \A k \in K : \A r \in R : k - 1 < r
    BY <1>1, <1>13, <1>17, <2>2
  <2> QED
    BY <1>1, <1>8, <1>10, <1>13, <2>1, <2>3, <2>4
<1>18. P
  BY <1>13, <1>16, <1>17
<1> QED
  BY <1>7, <1>10, <1>11, <1>12, <1>15, <1>18 DEF K, n

RegrownForest(R) ==
  PromoteUnblocked([Forest EXCEPT !.res = Reservations(boxes)], R, Len(Left(R)))

\* A removal starts from the boxes of the forest and an exact cache.
LEMMA RegrowStart ==
  ASSUME BoxesOK, CacheOK, NEW sc
  PROVE  /\ [Forest EXCEPT !.res = Reservations(boxes)] \in Grown(boxes, sc)
         /\ [Forest EXCEPT !.res = Reservations(boxes)].cache = collisionCache
         /\ [Forest EXCEPT !.res = Reservations(boxes)].boxes = boxes
         /\ [Forest EXCEPT !.res = Reservations(boxes)].res = Reservations(boxes)
         /\ [Forest EXCEPT !.res = Reservations(boxes)].index = blockerIndex
<1> DEFINE r == Reservations(boxes)
           start == [Forest EXCEPT !.res = r]
<1>1. Forest = [boxes |-> boxes, res |-> reservations, cache |-> collisionCache,
                index |-> blockerIndex, count |-> activeCount, nextId |-> NextBoxId(boxes)]
  BY DEF Forest
<1>2. r \in ReservationMaps
  BY ReservationsTyped DEF BoxesOK
<1> HIDE DEF r
<1>3. start = [boxes |-> boxes, res |-> r, cache |-> collisionCache,
               index |-> blockerIndex, count |-> activeCount, nextId |-> NextBoxId(boxes)]
  BY <1>1
<1> HIDE DEF start
<1>4. NextBoxId(boxes) \in Nat /\ \A b \in Range(boxes) : b.id < NextBoxId(boxes)
  <2>1. MaxId \in Nat
    BY BoundAssumption
  <2> QED
    BY <2>1, NextBoxIdAbove DEF BoxesOK
<1>5. activeCount \in Int
  BY BlamedFinite DEF CacheOK
<1>6. /\ start.boxes = boxes /\ start.res = r /\ start.cache = collisionCache
      /\ start.index = blockerIndex /\ start.count = activeCount
      /\ start.nextId = NextBoxId(boxes)
  BY <1>3
<1>7. start \in Forests
  <2>1. collisionCache \in Seq(CachedBoxes) /\ blockerIndex \in Indices /\ boxes \in Seq(BoxNodes)
    BY DEF CacheOK, BoxesOK
  <2> QED
    BY <1>2, <1>3, <1>4, <1>5, <1>6, <2>1, ForestParts
<1>8. CacheExact(start)
  BY <1>6 DEF CacheOK, CacheExact, CountExact, IndexInCache
<1>9. FreshIds(start)
  <2>1. \A i \in 1..Len(boxes) : boxes[i] \in Range(boxes)
    BY SeqTyped, SeqShape DEF BoxesOK
  <2> QED
    BY <1>4, <1>6, <2>1 DEF FreshIds, UniqueIds, BoxesOK
<1>10. Extends(start, boxes) /\ FreeFrom(start, Len(boxes), sc)
  <2>1. Len(boxes) \in Nat
    BY LenProperties DEF BoxesOK
  <2>2. (Len(boxes) + 1)..Len(boxes) = {}
    BY <2>1
  <2> QED
    BY <1>6, <2>1, <2>2 DEF Extends, FreeFrom
<1> QED
  BY <1>6, <1>7, <1>8, <1>9, <1>10 DEF Grown, start, r

\* A removal keeps the boxes, and what it promotes is free, if the cache blamed
\* completely.
LEMMA RegrownGood ==
  ASSUME BoxesOK, CacheOK, SceneOK, NEW R, Removal(R)
  PROVE  /\ RegrownForest(R) \in Grown(boxes, <<>>)
         /\ BlameComplete => RegrownForest(R) \in Grown(boxes, Left(R))
<1> DEFINE start == [Forest EXCEPT !.res = Reservations(boxes)]
           K == StaysAt(R)
<1>1. start.cache = collisionCache /\ \A sc : start \in Grown(boxes, sc)
  BY RegrowStart
<1>2. /\ R \subseteq 0..(MaxScene - 1) /\ Cardinality(R) \in Nat /\ Len(Left(R)) \in Nat
      /\ Len(Left(R)) + Cardinality(R) <= MaxScene
      /\ Range(Left(R)) = {scene[k] : k \in K}
      /\ (\A r \in R : r >= Len(Left(R))) => \A k \in K : \A r \in R : k - 1 < r
  BY LeftFacts DEF SceneOK
<1>3. \A k \in K : k - 1 \notin R
  BY DEF StaysAt
<1> HIDE DEF start, K
<1>4. RegrownForest(R) \in Grown(boxes, <<>>)
  <2>0. PICK E : E = {}
    OBVIOUS
  <2>1. \A p \in 1..Len(start.cache) : BlamesAll(start.cache[p], scene, E)
    BY <2>0 DEF BlamesAll
  <2>2. Range(<<>>) \subseteq {scene[k] : k \in E}
    BY <2>0, SeqEmpty
  <2>3. start \in Grown(boxes, <<>>)
    BY <1>1
  <2>4. /\ \A k \in E : k - 1 \notin R
        /\ (\A r \in R : r >= Len(Left(R))) => \A k \in E : \A r \in R : k - 1 < r
    BY <2>0
  <2>5. PromoteUnblocked(start, R, Len(Left(R))) \in Grown(boxes, <<>>)
    BY <1>2, <2>1, <2>2, <2>3, <2>4, PromoteUnblockedKeeps
  <2> QED
    BY <2>5 DEF RegrownForest, start
<1>5. ASSUME BlameComplete PROVE RegrownForest(R) \in Grown(boxes, Left(R))
  <2>1. \A p \in 1..Len(start.cache) : BlamesAll(start.cache[p], scene, K)
    <3> SUFFICES ASSUME NEW p \in 1..Len(collisionCache) PROVE BlamesAll(collisionCache[p], scene, K)
      BY <1>1
    <3>1. collisionCache[p] \in Range(collisionCache)
      BY SeqTyped, SeqShape DEF CacheOK
    <3>2. DOMAIN scene = 1..Len(scene)
      BY LenProperties DEF SceneOK
    <3> QED
      BY <1>5, <3>1, <3>2 DEF BlameComplete, BlamesAll, K, StaysAt
  <2>2. Range(Left(R)) \subseteq {scene[k] : k \in K}
    BY <1>2
  <2>3. PromoteUnblocked(start, R, Len(Left(R))) \in Grown(boxes, Left(R))
    BY <1>1, <1>2, <1>3, <2>1, <2>2, PromoteUnblockedKeeps
  <2> QED
    BY <2>3 DEF RegrownForest, start
<1> QED
  BY <1>4, <1>5

-----------------------------------------------------------------------------
(* The query graph. *)

Near(bs, a, b) ==
  \E i, j \in 1..Len(bs) : bs[i].id = a /\ bs[j].id = b /\ Touching(bs[i].node, bs[j].node)
Joined(E, a, b) == \E e \in E : e.ends = {a, b}
Graph(bs, E) == [a \in Ids(bs) |-> {b \in Ids(bs) \ {a} : Near(bs, a, b) \/ Joined(E, a, b)}]
\* A segment edge has two distinct ends among the boxes.
EdgesAmong(E, bs) == \A e \in E : \E a, b \in Ids(bs) : a # b /\ e.ends = {a, b}

\* Touching is symmetric.
LEMMA TouchingSymmetric ==
  ASSUME NEW m \in Node, NEW n \in Node, Touching(m, n)
  PROVE  Touching(n, m)
<1>1. ASSUME NEW x \in Node PROVE CellsOf(x) \subseteq Int
  BY DEF CellsOf
<1>2. PICK c \in CellsOf(m) : \E d \in CellsOf(n) : c - d \in -1..1
  BY DEF Touching
<1>3. PICK d \in CellsOf(n) : c - d \in -1..1
  BY <1>2
<1>4. c \in Int /\ d \in Int
  BY <1>1
<1>5. d - c \in -1..1
  BY <1>3, <1>4
<1> QED
  BY <1>5 DEF Touching

\* The parts of a box in a list.
LEMMA BoxAt ==
  ASSUME NEW bs \in Seq(BoxNodes), NEW i \in 1..Len(bs)
  PROVE  bs[i].node \in Node /\ bs[i].id \in Nat
<1>1. bs[i] \in BoxNodes
  BY ElementOfSeq
<1> QED
  BY <1>1 DEF BoxNodes

\* So is being near.
LEMMA NearSymmetric ==
  ASSUME NEW bs \in Seq(BoxNodes), NEW a, NEW b, Near(bs, a, b)
  PROVE  Near(bs, b, a)
<1>1. PICK i \in 1..Len(bs) : \E j \in 1..Len(bs) :
        bs[i].id = a /\ bs[j].id = b /\ Touching(bs[i].node, bs[j].node)
  BY DEF Near
<1>2. PICK j \in 1..Len(bs) : bs[i].id = a /\ bs[j].id = b /\ Touching(bs[i].node, bs[j].node)
  BY <1>1
<1>3. bs[i].node \in Node /\ bs[j].node \in Node
  BY BoxAt
<1>4. Touching(bs[j].node, bs[i].node)
  BY <1>2, <1>3, TouchingSymmetric
<1> QED
  BY <1>2, <1>4 DEF Near

\* The ids of a list, by position.
LEMMA IdsAt ==
  ASSUME NEW bs, IsSeq(bs)
  PROVE  Ids(bs) = {bs[i].id : i \in 1..Len(bs)}
BY SeqShape DEF Ids

\* The edges a graph has after AppendEdges.
HasAppended(h, g, pairs) ==
  /\ DOMAIN h = DOMAIN g \cup UNION pairs
  /\ h = [a \in DOMAIN h |-> h[a]]
  /\ \A a \in DOMAIN h : \A b :
       b \in h[a] <=> (a \in DOMAIN g /\ b \in g[a]) \/ (b # a /\ \E p \in pairs : a \in p /\ b \in p)

\* AppendEdges adds the pairs, in both directions, and nothing else.
LEMMA AppendEdgesFacts ==
  ASSUME NEW g, NEW pairs
  PROVE  HasAppended(AppendEdges(g, pairs), g, pairs)
<1> DEFINE D == DOMAIN g \cup UNION pairs
           Of(a) == (IF a \in DOMAIN g THEN g[a] ELSE {}) \cup
                      UNION {p \ {a} : p \in {q \in pairs : a \in q}}
           h == [a \in D |-> Of(a)]
<1>1. AppendEdges(g, pairs) = h
  BY DEF AppendEdges
<1>2. ASSUME NEW a, NEW b
      PROVE  b \in Of(a) <=> (a \in DOMAIN g /\ b \in g[a])
                               \/ (b # a /\ \E p \in pairs : a \in p /\ b \in p)
  OBVIOUS
<1> HIDE DEF Of, D
<1>3. DOMAIN h = D /\ h = [a \in D |-> h[a]] /\ \A a \in D : h[a] = Of(a)
  OBVIOUS
<1> HIDE DEF h
<1>4. HasAppended(h, g, pairs)
  <2>1. h = [a \in DOMAIN h |-> h[a]]
    BY <1>3
  <2>2. ASSUME NEW a \in DOMAIN h, NEW b
        PROVE  b \in h[a] <=> (a \in DOMAIN g /\ b \in g[a])
                                 \/ (b # a /\ \E p \in pairs : a \in p /\ b \in p)
    <3>1. h[a] = Of(a)
      BY <1>3
    <3> QED
      BY <1>2, <3>1
  <2>3. DOMAIN h = DOMAIN g \cup UNION pairs
    BY <1>3 DEF D
  <2> QED
    BY <2>1, <2>2, <2>3 DEF HasAppended
<1> QED
  BY <1>1, <1>4

\* A function with the neighbours of the graph is the graph.
LEMMA SameGraph ==
  ASSUME NEW bs, NEW E, NEW h, DOMAIN h = Ids(bs), h = [a \in DOMAIN h |-> h[a]],
         \A a \in Ids(bs) : \A b :
           b \in h[a] <=> b \in Ids(bs) /\ b # a /\ (Near(bs, a, b) \/ Joined(E, a, b))
  PROVE  h = Graph(bs, E)
<1>1. \A a \in Ids(bs) : h[a] = {b \in Ids(bs) \ {a} : Near(bs, a, b) \/ Joined(E, a, b)}
  OBVIOUS
<1> QED
  BY <1>1 DEF Graph

\* A graph over the first k boxes that has every edge between boxes that touch,
\* and none but those and segment edges.
Sandwiched(g, bs, k, E) ==
  /\ DOMAIN g = {bs[i].id : i \in 1..k} /\ g = [a \in DOMAIN g |-> g[a]]
  /\ \A i, j \in 1..k : i # j /\ Touching(bs[i].node, bs[j].node) => bs[j].id \in g[bs[i].id]
  /\ \A a \in DOMAIN g : \A b \in g[a] :
       b \in Ids(bs) /\ b # a /\ (Near(bs, a, b) \/ Joined(E, a, b))

\* connect_incremental_boxes adds every edge of the new boxes and no other.
LEMMA ConnectFacts ==
  ASSUME NEW bs \in Seq(BoxNodes), UniqueIds(bs), NEW k \in 0..Len(bs), NEW E,
         NEW g, Sandwiched(g, bs, k, E), NEW h, h = ConnectIncremental(g, bs, k + 1)
  PROVE  /\ DOMAIN h = Ids(bs) /\ h = [a \in DOMAIN h |-> h[a]]
         /\ \A a, b \in Ids(bs) : a # b /\ Near(bs, a, b) => b \in h[a]
         /\ \A a \in Ids(bs) : \A b \in h[a] :
              b \in Ids(bs) /\ b # a /\ (Near(bs, a, b) \/ Joined(E, a, b))
<1> DEFINE n == Len(bs)
           pairs == UNION {{{bs[i].id, bs[j].id} : j \in {j \in 1..(i - 1) :
                               Touching(bs[i].node, bs[j].node)}} : i \in (k + 1)..n}
           g0 == [id \in DOMAIN g \cup Ids(bs) |-> IF id \in DOMAIN g THEN g[id] ELSE {}]
<1>1. IsSeq(bs) /\ n \in Nat /\ k \in Nat /\ k <= n
  BY SeqTyped, LenProperties
<1>2. Ids(bs) = {bs[i].id : i \in 1..n}
  BY <1>1, IdsAt
<1>3. DOMAIN g \subseteq Ids(bs)
  BY <1>1, <1>2 DEF Sandwiched
<1>4. ASSUME NEW a \in Ids(bs), NEW b \in Ids(bs), a # b, Near(bs, a, b)
      PROVE  (a \in DOMAIN g /\ b \in g[a]) \/ (k + 1 <= n /\ \E p \in pairs : a \in p /\ b \in p)
  <2>1. PICK i \in 1..n : \E j \in 1..n : bs[i].id = a /\ bs[j].id = b /\ Touching(bs[i].node, bs[j].node)
    BY <1>4 DEF Near
  <2>2. PICK j \in 1..n : bs[i].id = a /\ bs[j].id = b /\ Touching(bs[i].node, bs[j].node)
    BY <2>1
  <2>3. i # j
    BY <1>4, <2>2
  <2>4. CASE i <= k /\ j <= k
    <3>1. i \in 1..k /\ j \in 1..k
      BY <1>1, <2>4
    <3> QED
      BY <2>2, <2>3, <3>1 DEF Sandwiched
  <2>5. CASE i > k /\ j < i
    <3>1. i \in (k + 1)..n /\ j \in 1..(i - 1) /\ k + 1 <= n
      BY <1>1, <2>5
    <3>2. {bs[i].id, bs[j].id} \in pairs
      BY <2>2, <3>1
    <3> HIDE DEF pairs
    <3> QED
      BY <2>2, <3>1, <3>2
  <2>6. CASE j > k /\ i < j
    <3>1. j \in (k + 1)..n /\ i \in 1..(j - 1) /\ k + 1 <= n
      BY <1>1, <2>6
    <3>2. bs[i].node \in Node /\ bs[j].node \in Node
      BY BoxAt
    <3>3. Touching(bs[j].node, bs[i].node)
      BY <2>2, <3>2, TouchingSymmetric
    <3>4. {bs[j].id, bs[i].id} \in pairs
      BY <3>1, <3>3
    <3> HIDE DEF pairs
    <3> QED
      BY <2>2, <3>1, <3>4
  <2>7. (i <= k /\ j <= k) \/ (i > k /\ j < i) \/ (j > k /\ i < j)
    BY <1>1, <2>3
  <2> QED
    BY <2>4, <2>5, <2>6, <2>7
<1>5. ASSUME NEW p \in pairs, NEW a \in p, NEW b \in p, a # b
      PROVE  a \in Ids(bs) /\ b \in Ids(bs) /\ Near(bs, a, b)
  <2>1. PICK i \in (k + 1)..n : \E j \in 1..(i - 1) :
          Touching(bs[i].node, bs[j].node) /\ p = {bs[i].id, bs[j].id}
    BY <1>5
  <2>2. PICK j \in 1..(i - 1) : Touching(bs[i].node, bs[j].node) /\ p = {bs[i].id, bs[j].id}
    BY <2>1
  <2>3. i \in 1..n /\ j \in 1..n
    BY <1>1
  <2>4. Near(bs, bs[i].id, bs[j].id)
    BY <2>2, <2>3 DEF Near
  <2>5. Near(bs, bs[j].id, bs[i].id)
    BY <2>4, NearSymmetric
  <2>6. (a = bs[i].id /\ b = bs[j].id) \/ (a = bs[j].id /\ b = bs[i].id)
    BY <1>5, <2>2
  <2> QED
    BY <1>2, <2>3, <2>4, <2>5, <2>6
<1>6. UNION pairs \subseteq Ids(bs)
  <2> SUFFICES ASSUME NEW p \in pairs, NEW a \in p PROVE a \in Ids(bs)
    OBVIOUS
  <2>1. PICK i \in (k + 1)..n : \E j \in 1..(i - 1) : p = {bs[i].id, bs[j].id}
    OBVIOUS
  <2>2. PICK j \in 1..(i - 1) : p = {bs[i].id, bs[j].id}
    BY <2>1
  <2>3. i \in 1..n /\ j \in 1..n
    BY <1>1
  <2> HIDE DEF pairs
  <2> QED
    BY <1>2, <2>2, <2>3
<1>7. CASE k + 1 > n
  <2>1. h = g /\ k = n
    BY <1>1, <1>7 DEF ConnectIncremental
  <2>2. DOMAIN g = Ids(bs)
    BY <1>2, <2>1 DEF Sandwiched
  <2>3. \A a, b \in Ids(bs) : a # b /\ Near(bs, a, b) => b \in g[a]
    BY <1>1, <1>4, <1>7
  <2> HIDE DEF n
  <2> QED
    BY <2>1, <2>2, <2>3 DEF Sandwiched
<1>8. CASE k + 1 <= n
  <2>1. h = AppendEdges(g0, pairs)
    BY <1>1, <1>8 DEF ConnectIncremental
  <2>2. DOMAIN g0 = Ids(bs) /\ \A a \in Ids(bs) : g0[a] = IF a \in DOMAIN g THEN g[a] ELSE {}
    BY <1>3
  <2> HIDE DEF g0, pairs
  <2>3. DOMAIN g0 \cup UNION pairs = Ids(bs)
    BY <1>6, <2>2
  <2>4. /\ DOMAIN h = Ids(bs) /\ h = [a \in DOMAIN h |-> h[a]]
        /\ \A a \in Ids(bs) : \A b :
             b \in h[a] <=> b \in g0[a] \/ (b # a /\ \E p \in pairs : a \in p /\ b \in p)
    <3>1. HasAppended(h, g0, pairs)
      BY <2>1, AppendEdgesFacts
    <3> QED
      BY <2>2, <2>3, <3>1 DEF HasAppended
  <2>5. \A a, b \in Ids(bs) : a # b /\ Near(bs, a, b) => b \in h[a]
    BY <1>4, <2>2, <2>4
  <2>6. \A a \in Ids(bs) : \A b \in h[a] :
          b \in Ids(bs) /\ b # a /\ (Near(bs, a, b) \/ Joined(E, a, b))
    <3> SUFFICES ASSUME NEW a \in Ids(bs), NEW b \in h[a]
                 PROVE  b \in Ids(bs) /\ b # a /\ (Near(bs, a, b) \/ Joined(E, a, b))
      OBVIOUS
    <3>1. CASE b \in g0[a]
      BY <2>2, <3>1 DEF Sandwiched
    <3>2. CASE b # a /\ \E p \in pairs : a \in p /\ b \in p
      BY <1>5, <3>2
    <3> QED
      BY <2>4, <3>1, <3>2
  <2> QED
    BY <2>4, <2>5, <2>6
<1> QED
  BY <1>1, <1>7, <1>8

\* connect_incremental_boxes and apply_segment_edges make the graph of the boxes.
LEMMA ConnectedGraph ==
  ASSUME NEW bs \in Seq(BoxNodes), UniqueIds(bs), NEW k \in 0..Len(bs),
         NEW E, EdgesAmong(E, bs), NEW g, Sandwiched(g, bs, k, E)
  PROVE  ApplySegmentEdges(ConnectIncremental(g, bs, k + 1), E) = Graph(bs, E)
<1> DEFINE h == ConnectIncremental(g, bs, k + 1)
           ends == {e.ends : e \in E}
           r == AppendEdges(h, ends)
<1>1. /\ DOMAIN h = Ids(bs) /\ h = [a \in DOMAIN h |-> h[a]]
      /\ \A a, b \in Ids(bs) : a # b /\ Near(bs, a, b) => b \in h[a]
      /\ \A a \in Ids(bs) : \A b \in h[a] :
           b \in Ids(bs) /\ b # a /\ (Near(bs, a, b) \/ Joined(E, a, b))
  BY ConnectFacts
<1> HIDE DEF h
<1>2. UNION ends \subseteq Ids(bs)
  BY DEF EdgesAmong
<1>3. \A a, b : a # b => ((\E p \in ends : a \in p /\ b \in p) <=> Joined(E, a, b))
  <2> SUFFICES ASSUME NEW a, NEW b, a # b
               PROVE  (\E p \in ends : a \in p /\ b \in p) <=> Joined(E, a, b)
    OBVIOUS
  <2>1. ASSUME NEW e \in E, a \in e.ends, b \in e.ends PROVE e.ends = {a, b}
    <3>1. PICK x, y \in Ids(bs) : x # y /\ e.ends = {x, y}
      BY DEF EdgesAmong
    <3> QED
      BY <2>1, <3>1
  <2> QED
    BY <2>1 DEF Joined
<1>4. DOMAIN h \cup UNION ends = Ids(bs)
  BY <1>1, <1>2
<1> HIDE DEF ends
<1>5. /\ DOMAIN r = Ids(bs) /\ r = [a \in DOMAIN r |-> r[a]]
      /\ \A a \in Ids(bs) : \A b :
           b \in r[a] <=> b \in h[a] \/ (b # a /\ \E p \in ends : a \in p /\ b \in p)
  <2>1. HasAppended(r, h, ends)
    BY AppendEdgesFacts DEF r
  <2> QED
    BY <1>1, <1>4, <2>1 DEF HasAppended
<1> HIDE DEF r
<1>6. \A a \in Ids(bs) : \A b :
        b \in r[a] <=> b \in Ids(bs) /\ b # a /\ (Near(bs, a, b) \/ Joined(E, a, b))
  <2> SUFFICES ASSUME NEW a \in Ids(bs), NEW b
               PROVE  b \in r[a] <=> b \in Ids(bs) /\ b # a /\ (Near(bs, a, b) \/ Joined(E, a, b))
    OBVIOUS
  <2>1. b # a /\ Joined(E, a, b) => b \in Ids(bs)
    BY DEF Joined, EdgesAmong
  <2> QED
    BY <1>1, <1>3, <1>5, <2>1
<1>7. r = Graph(bs, E)
  BY <1>5, <1>6, SameGraph
<1> QED
  BY <1>7 DEF ApplySegmentEdges, r, ends, h

\* The graph rebuilt from nothing.
LEMMA ComputedGraph ==
  ASSUME NEW bs \in Seq(BoxNodes), UniqueIds(bs), NEW E, EdgesAmong(E, bs)
  PROVE  ApplySegmentEdges(ComputeAdjacency(bs), E) = Graph(bs, E)
<1>1. Len(bs) \in Nat
  BY LenProperties
<1>2. 0 \in 0..Len(bs) /\ 0 + 1 = 1
  BY <1>1
<1>3. DOMAIN NoEdges = {} /\ NoEdges = [a \in DOMAIN NoEdges |-> NoEdges[a]] /\ 1..0 = {}
  BY DEF NoEdges
<1>4. Sandwiched(NoEdges, bs, 0, E)
  BY <1>3 DEF Sandwiched
<1>5. ApplySegmentEdges(ConnectIncremental(NoEdges, bs, 0 + 1), E) = Graph(bs, E)
  BY <1>2, <1>4, ConnectedGraph
<1> QED
  BY <1>2, <1>5 DEF ComputeAdjacency

\* The graph of boxes without segment edges.
LEMMA PlainGraph ==
  ASSUME NEW bs \in Seq(BoxNodes), UniqueIds(bs)
  PROVE  ComputeAdjacency(bs) = Graph(bs, {})
<1>1. Len(bs) \in Nat
  BY LenProperties
<1>2. 0 \in 0..Len(bs) /\ 0 + 1 = 1
  BY <1>1
<1>3. DOMAIN NoEdges = {} /\ NoEdges = [a \in DOMAIN NoEdges |-> NoEdges[a]] /\ 1..0 = {}
  BY DEF NoEdges
<1>4. Sandwiched(NoEdges, bs, 0, {})
  BY <1>3 DEF Sandwiched
<1> DEFINE h == ConnectIncremental(NoEdges, bs, 0 + 1)
<1>5. /\ DOMAIN h = Ids(bs) /\ h = [a \in DOMAIN h |-> h[a]]
      /\ \A a, b \in Ids(bs) : a # b /\ Near(bs, a, b) => b \in h[a]
      /\ \A a \in Ids(bs) : \A b \in h[a] :
           b \in Ids(bs) /\ b # a /\ (Near(bs, a, b) \/ Joined({}, a, b))
  BY <1>2, <1>4, ConnectFacts
<1> HIDE DEF h
<1>6. \A a, b : ~Joined({}, a, b)
  BY DEF Joined
<1>7. h = Graph(bs, {})
  BY <1>5, <1>6, SameGraph
<1> QED
  BY <1>2, <1>7 DEF ComputeAdjacency, h

-----------------------------------------------------------------------------
(* The invariant. *)

EdgesOK ==
  /\ segmentEdges \subseteq [ends : SUBSET (0..MaxId), path : Path]
  /\ EdgesAmong(segmentEdges, boxes)
  /\ \A e \in segmentEdges : PathClear(e.path, scene)
DynInv ==
  /\ SceneOK /\ BoxesOK /\ CacheOK /\ EdgesOK
  /\ Len(collisionCache) <= MaxCache /\ reservations \in ReservationMaps
  /\ adjacency = Graph(boxes, segmentEdges)

\* The invariant implies what the run checks.
LEMMA InvGivesGraphExact == DynInv => GraphExact
<1> SUFFICES ASSUME DynInv PROVE GraphExact
  OBVIOUS
<1>1. SceneOK /\ BoxesOK /\ CacheOK /\ EdgesOK /\ Len(collisionCache) <= MaxCache
  BY DEF DynInv
<1>2. IsSeq(boxes) /\ Ids(boxes) = {boxes[i].id : i \in 1..Len(boxes)} /\ Len(boxes) \in Nat
  BY <1>1, SeqTyped, SeqShape, IdsAt DEF BoxesOK
<1>3. ASSUME NEW b \in Range(boxes) PROVE b \in [id : 0..MaxId, node : Node] /\ b.id \in 0..MaxId
  <2>1. b \in BoxNodes /\ b.id <= MaxId
    BY <1>1, <1>3, SeqTyped DEF BoxesOK
  <2> QED
    BY <2>1, BoundAssumption DEF BoxNodes
<1>4. Ids(boxes) \subseteq 0..MaxId
  BY <1>3 DEF Ids
<1>5. Cardinality(Ids(boxes)) = Len(boxes)
  <2> DEFINE f == [i \in 1..Len(boxes) |-> boxes[i].id]
  <2>1. \A i, j \in 1..Len(boxes) : f[i] = f[j] => i = j
    BY <1>1 DEF BoxesOK, UniqueIds
  <2>2. {f[i] : i \in 1..Len(boxes)} = Ids(boxes)
    BY <1>2
  <2> HIDE DEF f
  <2> QED
    <3>1. Cardinality({f[i] : i \in 1..Len(boxes)}) = Len(boxes)
      BY <1>2, <2>1, CountDistinct, SMTT(30)
    <3> QED
      BY <2>2, <3>1
<1>6. DOMAIN adjacency \subseteq 0..MaxId
  BY <1>4 DEF DynInv, Graph
<1>7. Range(collisionCache) \subseteq CachedBoxes
  BY <1>1, SeqTyped DEF CacheOK
<1>8. activeCount \in 0..MaxCache
  <2>1. /\ activeCount \in Nat /\ activeCount <= Len(collisionCache) /\ Len(collisionCache) \in Nat
        /\ MaxCache \in Nat
    BY <1>1, BlamedFinite, LenProperties, BoundAssumption DEF CacheOK
  <2> QED
    BY <1>1, <2>1
<1>9. TypeOK
  BY <1>1, <1>3, <1>5, <1>6, <1>7, <1>8 DEF TypeOK, SceneOK, EdgesOK, CachedBoxes
<1>10. AdjacencyExact
  BY <1>1, ComputedGraph DEF DynInv, AdjacencyExact, EdgesOK, BoxesOK
<1>11. SegmentEdgesAudited
  BY <1>1 DEF SegmentEdgesAudited, EdgesOK, EdgesAmong
<1> QED
  BY <1>9, <1>10, <1>11 DEF GraphExact

\* What the forest a method ends with makes of the state.
LEMMA SetForestKeeps ==
  ASSUME NEW bs, NEW sc, NEW f \in Grown(bs, sc), SetForest(f)
  PROVE  /\ BoxesOK' /\ CacheOK' /\ Len(collisionCache') <= MaxCache
         /\ reservations' \in ReservationMaps /\ boxes' = f.boxes
<1>1. f \in Forests /\ FreshIds(f) /\ CacheExact(f)
  BY DEF Grown
<1>2. /\ f.boxes \in Seq(BoxNodes) /\ f.res \in ReservationMaps
      /\ f.cache \in Seq(CachedBoxes) /\ f.index \in Indices /\ f.nextId \in Nat
  BY <1>1, ForestParts
<1>3. /\ f.nextId <= MaxId + 1 /\ Len(f.cache) <= MaxCache
      /\ boxes' = f.boxes /\ reservations' = f.res
      /\ collisionCache' = f.cache /\ blockerIndex' = f.index /\ activeCount' = f.count
  BY DEF SetForest
<1>4. \A b \in Range(f.boxes) : b.id <= MaxId
  <2> SUFFICES ASSUME NEW i \in 1..Len(f.boxes) PROVE f.boxes[i].id <= MaxId
    BY <1>2, SeqTyped, SeqShape
  <2>1. f.boxes[i].id \in Nat /\ f.boxes[i].id < f.nextId
    BY <1>1, <1>2, BoxAt DEF FreshIds
  <2> QED
    BY <1>2, <1>3, <2>1, BoundAssumption
<1>5. BoxesOK'
  BY <1>1, <1>2, <1>3, <1>4 DEF BoxesOK, FreshIds, UniqueIds
<1>6. CacheOK'
  BY <1>1, <1>2, <1>3 DEF CacheOK, CacheExact, CountExact, IndexInCache
<1> QED
  BY <1>2, <1>3, <1>5, <1>6

\* All boxes of a list are free when each place of it holds a free box.
LEMMA FreeAt ==
  ASSUME NEW bs \in Seq(BoxNodes), NEW sc
  PROVE  (\A b \in Range(bs) : NodeFree(b.node, sc))
           <=> \A i \in 1..Len(bs) : NodeFree(bs[i].node, sc)
BY SeqTyped, SeqShape

\* build_leaf_sweep establishes the invariant, with all boxes free.
LEMMA BuildKeeps ==
  ASSUME NEW sc \in Scenes, NEW oneGroup \in BOOLEAN, BuildLeafSweep(sc, oneGroup)
  PROVE  DynInv' /\ BoxesFree'
<1> DEFINE f == SweptForest(sc, oneGroup)
<1>1. /\ scene' = sc /\ SetForest(f) /\ adjacency' = ComputeAdjacency(boxes')
      /\ segmentEdges' = {}
  BY DEF BuildLeafSweep
<1>2. sc \in Seq(Obstacle) /\ Len(sc) <= MaxScene
  BY ListAssumption
<1>3. f \in Grown(<<>>, sc)
  BY <1>2, SweptForestGood
<1> HIDE DEF f
<1>4. /\ BoxesOK' /\ CacheOK' /\ Len(collisionCache') <= MaxCache
      /\ reservations' \in ReservationMaps /\ boxes' = f.boxes
  BY <1>1, <1>3, SetForestKeeps
<1>5. boxes' \in Seq(BoxNodes) /\ UniqueIds(boxes')
  BY <1>4 DEF BoxesOK
<1>6. adjacency' = Graph(boxes', segmentEdges')
  BY <1>1, <1>5, PlainGraph
<1>7. SceneOK' /\ EdgesOK'
  BY <1>1, <1>2 DEF SceneOK, EdgesOK, EdgesAmong
<1>8. BoxesFree'
  <2>1. \A i \in 1..Len(boxes') : NodeFree(boxes'[i].node, sc)
    <3>1. FreeFrom(f, 0, sc)
      BY <1>3, SeqEmpty DEF Grown
    <3> QED
      BY <1>4, <3>1 DEF FreeFrom
  <2>2. \A b \in Range(boxes') : NodeFree(b.node, sc)
    BY <1>5, <2>1, FreeAt
  <2> QED
    BY <1>1, <2>2 DEF BoxesFree
<1> QED
  BY <1>4, <1>6, <1>7, <1>8 DEF DynInv

\* The forest clear() leaves.
LEMMA EmptyForestGood ==
  ASSUME NEW sc
  PROVE  NewForest(<<>>, [n \in {} |-> 0]) \in Grown(<<>>, sc)
<1> DEFINE r == [n \in {} |-> 0]
           f == NewForest(<<>>, r)
<1>1. <<>> \in Seq(BoxNodes) /\ Range(<<>>) = {} /\ Len(<<>>) = 0
  BY SeqEmpty, EmptySeq
<1>2. r \in ReservationMaps
  <2>1. r \in [{} -> Nat]
    OBVIOUS
  <2> QED
    BY <2>1 DEF ReservationMaps
<1> HIDE DEF r
<1>3. f \in Forests /\ FreshIds(f) /\ CacheExact(f) /\ f.boxes = <<>>
  <2>1. (\A b \in Range(<<>>) : b.id <= 0) /\ 0 \in Nat
    BY <1>1
  <2>2. \A i, j \in 1..Len(<<>>) : <<>>[i].id = <<>>[j].id => i = j
    BY <1>1
  <2> QED
    BY <1>1, <1>2, <2>1, <2>2, NewForestGood
<1> HIDE DEF f
<1>4. Extends(f, <<>>) /\ FreeFrom(f, Len(<<>>), sc)
  BY <1>1, <1>3 DEF Extends, FreeFrom
<1> QED
  BY <1>3, <1>4 DEF Grown, f, r

\* clear() establishes the invariant.
LEMMA ClearKeeps ==
  ASSUME SceneOK, ClearForest
  PROVE  DynInv' /\ BoxesFree'
<1> DEFINE f == NewForest(<<>>, [n \in {} |-> 0])
<1>1. SetForest(f) /\ adjacency' = NoEdges /\ segmentEdges' = {} /\ scene' = scene
  BY DEF ClearForest
<1>2. f \in Grown(<<>>, scene) /\ f.boxes = <<>>
  BY EmptyForestGood DEF NewForest
<1> HIDE DEF f
<1>3. /\ BoxesOK' /\ CacheOK' /\ Len(collisionCache') <= MaxCache
      /\ reservations' \in ReservationMaps /\ boxes' = <<>>
  BY <1>1, <1>2, SetForestKeeps
<1>4. Ids(<<>>) = {} /\ Range(<<>>) = {}
  BY SeqEmpty DEF Ids
<1>5. adjacency' = Graph(boxes', segmentEdges')
  BY <1>1, <1>3, <1>4 DEF Graph, NoEdges
<1>6. SceneOK' /\ EdgesOK'
  BY <1>1 DEF SceneOK, EdgesOK, EdgesAmong
<1>7. BoxesFree'
  BY <1>3, <1>4 DEF BoxesFree
<1> QED
  BY <1>3, <1>5, <1>6, <1>7 DEF DynInv

\* A bridge keeps the invariant.
LEMMA AddSegmentEdgeKeeps ==
  ASSUME DynInv, NEW x \in Ids(boxes), NEW y \in Ids(boxes), NEW p \in Path,
         AddSegmentEdge(x, y, p)
  PROVE  DynInv' /\ (BoxesFree => BoxesFree')
<1> DEFINE ne == [ends |-> {x, y}, path |-> p]
           E == segmentEdges
           g == Graph(boxes, E)
           h == AppendEdges(g, {{x, y}})
<1>1. /\ x # y /\ PathClear(p, scene) /\ segmentEdges' = E \cup {ne}
      /\ adjacency' = AppendEdges(adjacency, {{x, y}})
      /\ UNCHANGED <<scene, boxes, reservations, collisionCache, blockerIndex, activeCount>>
  BY DEF AddSegmentEdge
<1>2. SceneOK' /\ BoxesOK' /\ CacheOK' /\ Len(collisionCache') <= MaxCache
      /\ reservations' \in ReservationMaps
  BY <1>1 DEF DynInv, SceneOK, BoxesOK, CacheOK
<1>3. Ids(boxes) \subseteq 0..MaxId
  <2> SUFFICES ASSUME NEW b \in Range(boxes) PROVE b.id \in 0..MaxId
    BY DEF Ids
  <2>1. b \in BoxNodes /\ b.id <= MaxId
    BY SeqTyped DEF DynInv, BoxesOK
  <2> QED
    BY <2>1, BoundAssumption DEF BoxNodes
<1>4. EdgesOK'
  <2>1. ne \in [ends : SUBSET (0..MaxId), path : Path] /\ ne.ends = {x, y} /\ ne.path = p
    BY <1>3
  <2>2. EdgesOK
    BY DEF DynInv
  <2> HIDE DEF ne
  <2> QED
    BY <1>1, <2>1, <2>2 DEF EdgesOK, EdgesAmong
<1>5. h = Graph(boxes, E \cup {ne})
  <2>1. HasAppended(h, g, {{x, y}})
    BY AppendEdgesFacts
  <2>2. DOMAIN g = Ids(boxes) /\ \A a \in Ids(boxes) :
          g[a] = {b \in Ids(boxes) \ {a} : Near(boxes, a, b) \/ Joined(E, a, b)}
    BY DEF Graph
  <2>3. \A a, b : Joined(E \cup {ne}, a, b) <=> Joined(E, a, b) \/ {a, b} = {x, y}
    <3>1. ne.ends = {x, y}
      OBVIOUS
    <3> HIDE DEF ne, E
    <3> QED
      BY <3>1 DEF Joined
  <2> HIDE DEF g, h, ne
  <2>4. DOMAIN h = Ids(boxes) /\ h = [a \in DOMAIN h |-> h[a]]
    BY <2>1, <2>2 DEF HasAppended
  <2>5. ASSUME NEW a \in Ids(boxes), NEW b
        PROVE  b \in h[a] <=> b \in Ids(boxes) /\ b # a
                                /\ (Near(boxes, a, b) \/ Joined(E \cup {ne}, a, b))
    <3>1. b \in h[a] <=> b \in g[a] \/ (b # a /\ a \in {x, y} /\ b \in {x, y})
      BY <2>1, <2>2, <2>4 DEF HasAppended
    <3>2. b \in g[a] <=> b \in Ids(boxes) /\ b # a /\ (Near(boxes, a, b) \/ Joined(E, a, b))
      BY <2>2
    <3>3. b # a => ((a \in {x, y} /\ b \in {x, y}) <=> {a, b} = {x, y})
      BY <1>1
    <3>4. {a, b} = {x, y} => b \in Ids(boxes)
      OBVIOUS
    <3> QED
      BY <2>3, <3>1, <3>2, <3>3, <3>4
  <2> QED
    BY <2>4, <2>5, SameGraph
<1>6. adjacency' = Graph(boxes', segmentEdges')
  BY <1>1, <1>5 DEF DynInv
<1> QED
  BY <1>1, <1>2, <1>4, <1>6 DEF DynInv, BoxesFree

\* The segment edges an insertion keeps, and the links of those it gives up.
Sound(os) == {e \in segmentEdges : SurvivesUpdate(e, Live(os), scene \o os)}
Cut(os) == {e.ends : e \in {e \in segmentEdges :
              /\ e.ends \subseteq Ids(Live(os)) /\ ~PathClear(e.path, scene \o os)
              /\ \A a, b \in e.ends : a # b =>
                   ~Touching(BoxOf(Live(os), a).node, BoxOf(Live(os), b).node)}}
Surviving(os) ==
  RemoveAdjacencyNodes(RemoveLocalEdges(adjacency, Cut(os)), Ids(DirtyBoxes(os)))

\* AddObstacles in the terms of this module.
LEMMA AddUnfolded ==
  ASSUME NEW os, AddObstacles(os)
  PROVE  /\ Len(scene \o os) <= MaxScene /\ scene' = scene \o os
         /\ SetForest(Refilled(os)) /\ segmentEdges' = Sound(os)
         /\ adjacency' = ApplySegmentEdges(
              ConnectIncremental(Surviving(os), Refilled(os).boxes, Len(Live(os)) + 1), Sound(os))
BY DEF AddObstacles, Refilled, Live, Sound, Cut, Surviving

\* What an insertion leaves of the graph joins the live boxes that touch, and
\* besides them only the ends of segment edges it keeps.
LEMMA SurvivingSandwiched ==
  ASSUME DynInv, NEW os, IsSeq(os), NEW bs, IsSeq(bs), Len(Live(os)) \in 0..Len(bs),
         \A i \in 1..Len(Live(os)) : bs[i] = Live(os)[i]
  PROVE  Sandwiched(Surviving(os), bs, Len(Live(os)), Sound(os))
<1> DEFINE L == Live(os)
           k == Len(L)
           E == segmentEdges
           D == Ids(DirtyBoxes(os))
           g == Graph(boxes, E)
           g1 == [a \in DOMAIN g |-> {b \in g[a] : {a, b} \notin Cut(os)}]
           h == [a \in DOMAIN g1 \ D |-> g1[a] \ D]
<1>1. BoxesOK /\ EdgesOK /\ adjacency = g
  BY DEF DynInv
<1>2. Surviving(os) = h
  BY <1>1 DEF Surviving, RemoveAdjacencyNodes, RemoveLocalEdges
<1>3. /\ L \in Seq(BoxNodes) /\ UniqueIds(L)
      /\ Range(L) = Range(boxes) \ Range(DirtyBoxes(os)) /\ Range(L) \subseteq Range(boxes)
  BY <1>1, LiveFacts
<1>4. IsSeq(boxes) /\ IsSeq(L) /\ k \in Nat
  BY <1>1, <1>3, SeqTyped, SeqShape DEF BoxesOK
<1>5. Range(DirtyBoxes(os)) \subseteq Range(boxes)
  BY <1>4, DirtyBoxesFacts
<1>6. \A x, y \in Range(boxes) : x.id = y.id => x = y
  BY <1>1, <1>4, UniqueMeansOneBox DEF BoxesOK
<1>7. Ids(L) = Ids(boxes) \ D
  <2> HIDE DEF L
  <2> QED
    BY <1>3, <1>5, <1>6 DEF Ids
<1>8. Ids(L) = {L[i].id : i \in 1..k} /\ \A i \in 1..k : L[i] \in Range(L)
  BY <1>4, IdsAt, SeqShape
<1>9. Ids(L) = {bs[i].id : i \in 1..k}
  BY <1>8
<1>10. DOMAIN g = Ids(boxes) /\ \A a \in Ids(boxes) : \A b :
          b \in g[a] <=> b \in Ids(boxes) /\ b # a /\ (Near(boxes, a, b) \/ Joined(E, a, b))
  BY DEF Graph
<1> HIDE DEF g, L, D
<1>11. DOMAIN h = Ids(L) /\ h = [a \in DOMAIN h |-> h[a]] /\ \A a \in Ids(L) : \A b :
         b \in h[a] <=> /\ b \in Ids(L) /\ b # a /\ (Near(boxes, a, b) \/ Joined(E, a, b))
                        /\ {a, b} \notin Cut(os)
  <2>1. DOMAIN g1 = Ids(boxes) /\ \A a \in Ids(boxes) : g1[a] = {b \in g[a] : {a, b} \notin Cut(os)}
    BY <1>10
  <2>2. DOMAIN h = Ids(L) /\ \A a \in Ids(L) : h[a] = g1[a] \ D
    BY <1>7, <2>1
  <2>3. h = [a \in DOMAIN h |-> h[a]]
    OBVIOUS
  <2> HIDE DEF h, g1
  <2>4. \A a \in Ids(L) : \A b : b \in h[a] <=> b \in g[a] /\ {a, b} \notin Cut(os) /\ b \notin D
    BY <1>7, <2>1, <2>2
  <2> QED
    BY <1>7, <1>10, <2>2, <2>3, <2>4
<1> HIDE DEF h
<1>12. \A i \in 1..k : BoxOf(L, L[i].id) = L[i]
  <2> SUFFICES ASSUME NEW i \in 1..k PROVE BoxOf(L, L[i].id) = L[i]
    OBVIOUS
  <2>1. L[i] \in Range(L) /\ \A y \in Range(L) : y.id = L[i].id => y = L[i]
    BY <1>3, <1>6, <1>8
  <2> QED
    BY <2>1 DEF BoxOf
<1>13. ASSUME NEW e \in E, e.ends \subseteq Ids(L), ~PathClear(e.path, scene \o os),
              \A x, y \in e.ends : x # y => ~Touching(BoxOf(L, x).node, BoxOf(L, y).node)
       PROVE  e.ends \in Cut(os)
  BY <1>13 DEF Cut, L
<1>14. ASSUME NEW p \in Cut(os), NEW x \in p, NEW y \in p, x # y
       PROVE  ~Touching(BoxOf(L, x).node, BoxOf(L, y).node)
  BY <1>14 DEF Cut, L
<1>15. ASSUME NEW i \in 1..k, NEW j \in 1..k, i # j, Touching(bs[i].node, bs[j].node)
       PROVE  bs[j].id \in h[bs[i].id]
  <2>1. bs[i] = L[i] /\ bs[j] = L[j]
    BY DEF L
  <2>2. L[i].id \in Ids(L) /\ L[j].id \in Ids(L) /\ L[i].id # L[j].id
    BY <1>3, <1>8, <1>15 DEF UniqueIds
  <2>3. {L[i].id, L[j].id} \notin Cut(os)
    BY <1>12, <1>14, <1>15, <2>1, <2>2
  <2>4. Near(boxes, L[i].id, L[j].id)
    <3>1. L[i] \in Range(boxes) /\ L[j] \in Range(boxes)
      BY <1>3, <1>8
    <3>2. PICK u \in 1..Len(boxes) : boxes[u] = L[i]
      BY <1>4, <3>1, SeqShape
    <3>3. PICK v \in 1..Len(boxes) : boxes[v] = L[j]
      BY <1>4, <3>1, SeqShape
    <3>4. Touching(boxes[u].node, boxes[v].node)
      BY <1>15, <2>1, <3>2, <3>3
    <3> QED
      BY <3>2, <3>3, <3>4 DEF Near
  <2> QED
    BY <1>11, <2>1, <2>2, <2>3, <2>4
<1>16. ASSUME NEW a \in Ids(L), NEW b \in h[a]
       PROVE  b \in Ids(bs) /\ b # a /\ (Near(bs, a, b) \/ Joined(Sound(os), a, b))
  <2>1. b \in Ids(L) /\ b # a /\ (Near(boxes, a, b) \/ Joined(E, a, b)) /\ {a, b} \notin Cut(os)
    BY <1>11, <1>16
  <2>2. PICK i \in 1..k : L[i].id = a
    BY <1>8
  <2>3. PICK j \in 1..k : L[j].id = b
    BY <1>8, <2>1
  <2>4. bs[i] = L[i] /\ bs[j] = L[j] /\ i \in 1..Len(bs) /\ j \in 1..Len(bs)
    BY DEF L
  <2>5. b \in Ids(bs)
    <3>1. bs[j] \in Range(bs)
      BY <2>4, SeqShape
    <3> QED
      BY <2>3, <2>4, <3>1 DEF Ids
  <2>6. CASE Touching(L[i].node, L[j].node)
    BY <2>1, <2>2, <2>3, <2>4, <2>5, <2>6 DEF Near
  <2>7. CASE ~Touching(L[i].node, L[j].node)
    <3>1. ~Near(boxes, a, b)
      <4> SUFFICES ASSUME NEW u \in 1..Len(boxes), NEW v \in 1..Len(boxes),
                          boxes[u].id = a, boxes[v].id = b, Touching(boxes[u].node, boxes[v].node)
                   PROVE  FALSE
        BY DEF Near
      <4>1. boxes[u] \in Range(boxes) /\ boxes[v] \in Range(boxes)
        BY <1>4, SeqShape
      <4>2. L[i] \in Range(boxes) /\ L[j] \in Range(boxes)
        BY <1>3, <1>8
      <4>3. boxes[u] = L[i] /\ boxes[v] = L[j]
        BY <1>6, <2>2, <2>3, <4>1, <4>2
      <4> QED
        BY <2>7, <4>3
    <3>2. PICK e \in E : e.ends = {a, b}
      BY <2>1, <3>1 DEF Joined
    <3>3. e.ends \subseteq Ids(L)
      BY <2>1, <3>2
    <3>4. PathClear(e.path, scene \o os)
      <4>1. SUFFICES ASSUME ~PathClear(e.path, scene \o os) PROVE FALSE
        OBVIOUS
      <4>2. BoxOf(L, a) = L[i] /\ BoxOf(L, b) = L[j]
        BY <1>12, <2>2, <2>3
      <4>3. L[i].node \in Node /\ L[j].node \in Node
        BY <1>3, BoxAt
      <4>4. ~Touching(L[j].node, L[i].node)
        BY <2>7, <4>3, TouchingSymmetric
      <4>5. \A x, y \in e.ends : x # y => ~Touching(BoxOf(L, x).node, BoxOf(L, y).node)
        BY <2>7, <3>2, <4>2, <4>4
      <4>6. e.ends \in Cut(os)
        BY <1>13, <3>3, <4>1, <4>5
      <4> QED
        BY <2>1, <3>2, <4>6
    <3>5. e \in Sound(os)
      BY <3>3, <3>4 DEF Sound, SurvivesUpdate, L
    <3>6. Joined(Sound(os), a, b)
      BY <3>2, <3>5 DEF Joined
    <3> QED
      BY <2>1, <2>5, <3>6
  <2> QED
    BY <2>6, <2>7
<1> QED
  BY <1>2, <1>9, <1>11, <1>15, <1>16 DEF Sandwiched, L

\* add_obstacle(s)_and_rebuild keeps the invariant, and boxes free.
LEMMA AddKeeps ==
  ASSUME DynInv, NEW os, os \in Seq(Obstacle), os # <<>>, AddObstacles(os)
  PROVE  DynInv' /\ (BoxesFree => BoxesFree')
<1> DEFINE L == Live(os)
           f == Refilled(os)
           S == Sound(os)
<1>1. SceneOK /\ BoxesOK /\ CacheOK /\ EdgesOK /\ reservations \in ReservationMaps
  BY DEF DynInv
<1>2. /\ Len(scene \o os) <= MaxScene /\ scene' = scene \o os
      /\ SetForest(f) /\ segmentEdges' = S
      /\ adjacency' = ApplySegmentEdges(ConnectIncremental(Surviving(os), f.boxes, Len(L) + 1), S)
  BY AddUnfolded
<1>3. IsSeq(os) /\ IsSeq(scene) /\ Range(os) \subseteq Obstacle
  BY <1>1, SeqTyped DEF SceneOK
<1>4. f \in Grown(L, scene \o os)
  BY <1>1, <1>2, RefilledGood
<1>5. /\ L \in Seq(BoxNodes)
      /\ Range(L) = {b \in Range(boxes) : \A i \in 1..Len(os) : ~CheckBox(b.node, os[i])}
  BY <1>1, <1>3, LiveFacts
<1> HIDE DEF L, f
<1>6. /\ BoxesOK' /\ CacheOK' /\ Len(collisionCache') <= MaxCache
      /\ reservations' \in ReservationMaps /\ boxes' = f.boxes
  BY <1>2, <1>4, SetForestKeeps
<1>7. /\ boxes' \in Seq(BoxNodes) /\ UniqueIds(boxes') /\ Len(boxes') \in Nat /\ IsSeq(boxes')
      /\ Len(L) \in 0..Len(boxes') /\ \A i \in 1..Len(L) : boxes'[i] = L[i]
      /\ \A i \in (Len(L) + 1)..Len(boxes') : NodeFree(boxes'[i].node, scene \o os)
  <2>1. Extends(f, L) /\ FreeFrom(f, Len(L), scene \o os)
    BY <1>4 DEF Grown
  <2>2. boxes' \in Seq(BoxNodes) /\ UniqueIds(boxes')
    BY <1>6 DEF BoxesOK
  <2> QED
    BY <1>6, <2>1, <2>2, SeqTyped, LenProperties DEF Extends, FreeFrom
<1>8. SceneOK'
  <2>1. scene \o os \in Seq(Obstacle)
    BY <1>1, ConcatProperties DEF SceneOK
  <2> QED
    BY <1>2, <2>1 DEF SceneOK
<1>9. Ids(L) \subseteq Ids(boxes')
  <2>1. IsSeq(L)
    BY <1>5, SeqTyped
  <2>2. Ids(L) = {L[i].id : i \in 1..Len(L)}
    BY <2>1, IdsAt
  <2>3. Ids(boxes') = {boxes'[i].id : i \in 1..Len(boxes')}
    BY <1>7, IdsAt
  <2>4. \A i \in 1..Len(L) : i \in 1..Len(boxes') /\ boxes'[i].id = L[i].id
    BY <1>7
  <2> QED
    BY <2>2, <2>3, <2>4
<1>10. EdgesAmong(S, boxes')
  <2> SUFFICES ASSUME NEW e \in S PROVE \E a, b \in Ids(boxes') : a # b /\ e.ends = {a, b}
    BY DEF EdgesAmong
  <2>1. e \in segmentEdges /\ e.ends \subseteq Ids(L)
    BY DEF Sound, SurvivesUpdate, L
  <2>2. PICK a, b \in Ids(boxes) : a # b /\ e.ends = {a, b}
    BY <1>1, <2>1 DEF EdgesOK, EdgesAmong
  <2> QED
    BY <1>9, <2>1, <2>2
<1>11. EdgesOK'
  <2>1. S \subseteq segmentEdges /\ \A e \in S : PathClear(e.path, scene \o os)
    BY DEF Sound, SurvivesUpdate
  <2>2. segmentEdges \subseteq [ends : SUBSET (0..MaxId), path : Path]
    BY <1>1 DEF EdgesOK
  <2> HIDE DEF S
  <2> QED
    BY <1>2, <1>10, <2>1, <2>2 DEF EdgesOK
<1>12. adjacency' = Graph(boxes', segmentEdges')
  <2>1. Sandwiched(Surviving(os), boxes', Len(L), S)
    BY <1>3, <1>7, SurvivingSandwiched DEF L
  <2> HIDE DEF S
  <2>2. ApplySegmentEdges(ConnectIncremental(Surviving(os), boxes', Len(L) + 1), S) = Graph(boxes', S)
    BY <1>7, <1>10, <2>1, ConnectedGraph
  <2> QED
    BY <1>2, <1>6, <2>2
<1>13. ASSUME BoxesFree PROVE BoxesFree'
  <2>1. Range(scene \o os) = Range(scene) \cup Range(os)
    BY <1>3, SeqConcat
  <2>2. ASSUME NEW b \in Range(L) PROVE NodeFree(b.node, scene \o os)
    <3>1. b \in Range(boxes) /\ \A i \in 1..Len(os) : ~CheckBox(b.node, os[i])
      BY <1>5, <2>2
    <3>2. ASSUME NEW o \in Range(os) PROVE CellsOf(b.node) \cap Covers[o] = {}
      <4>1. PICK i \in 1..Len(os) : os[i] = o
        BY <1>3, SeqShape
      <4>2. Covers[o] \subseteq Flags[o]
        BY <1>3, CoverAssumption
      <4> QED
        BY <3>1, <4>1, <4>2 DEF CheckBox
    <3>3. \A o \in Range(scene) : CellsOf(b.node) \cap Covers[o] = {}
      BY <1>13, <3>1 DEF BoxesFree, NodeFree
    <3> QED
      BY <2>1, <3>2, <3>3 DEF NodeFree
  <2>3. ASSUME NEW i \in 1..Len(boxes') PROVE NodeFree(boxes'[i].node, scene \o os)
    <3>1. CASE i \in 1..Len(L)
      <4>1. L[i] \in Range(L)
        BY <1>5, <3>1, SeqTyped, SeqShape
      <4> QED
        BY <1>7, <2>2, <3>1, <4>1
    <3>2. CASE i \in (Len(L) + 1)..Len(boxes')
      BY <1>7, <3>2
    <3>3. i \in 1..Len(L) \/ i \in (Len(L) + 1)..Len(boxes')
      BY <1>7
    <3> QED
      BY <3>1, <3>2, <3>3
  <2>4. \A b \in Range(boxes') : NodeFree(b.node, scene \o os)
    BY <1>7, <2>3, FreeAt
  <2> QED
    BY <1>2, <2>4 DEF BoxesFree
<1> QED
  BY <1>6, <1>8, <1>11, <1>12, <1>13 DEF DynInv

\* RemoveAndRegrow in the terms of this module.
LEMMA RemoveUnfolded ==
  ASSUME NEW R, RemoveAndRegrow(R)
  PROVE  /\ scene' = Left(R) /\ SetForest(RegrownForest(R)) /\ segmentEdges' = segmentEdges
         /\ adjacency' = IF Len(RegrownForest(R).boxes) = Len(boxes) THEN adjacency
                         ELSE ApplySegmentEdges(
                                ConnectIncremental(adjacency, RegrownForest(R).boxes, Len(boxes) + 1),
                                segmentEdges)
BY DEF RemoveAndRegrow, RegrownForest, Left, LeftPositions

\* remove_obstacle(_suffix)_and_regrow keeps the invariant; it keeps boxes free when the
\* cache blames completely.
LEMMA RemoveKeeps ==
  ASSUME DynInv, NEW R, Removal(R), RemoveAndRegrow(R)
  PROVE  DynInv' /\ (BoxesFree /\ BlameComplete => BoxesFree')
<1> DEFINE f == RegrownForest(R)
           E == segmentEdges
           cs == f.boxes
<1>1. SceneOK /\ BoxesOK /\ CacheOK /\ EdgesOK /\ adjacency = Graph(boxes, E)
  BY DEF DynInv
<1>2. /\ scene' = Left(R) /\ SetForest(f) /\ segmentEdges' = E
      /\ adjacency' = IF Len(cs) = Len(boxes) THEN adjacency
                      ELSE ApplySegmentEdges(ConnectIncremental(adjacency, cs, Len(boxes) + 1), E)
  BY RemoveUnfolded
<1>3. f \in Grown(boxes, <<>>) /\ (BlameComplete => f \in Grown(boxes, Left(R)))
  BY <1>1, RegrownGood
<1>4. /\ Left(R) \in Seq(Obstacle) /\ Range(Left(R)) \subseteq Range(scene)
      /\ Len(Left(R)) <= Len(scene)
  <2>1. /\ Left(R) \in Seq(Obstacle) /\ Range(Left(R)) = {scene[k] : k \in StaysAt(R)}
        /\ Cardinality(R) \in Nat /\ Len(Left(R)) \in Nat
        /\ Len(Left(R)) + Cardinality(R) = Len(scene)
    BY <1>1, LeftFacts
  <2>2. \A k \in 1..Len(scene) : scene[k] \in Range(scene)
    BY <1>1, SeqTyped, SeqShape DEF SceneOK
  <2> QED
    BY <2>1, <2>2 DEF StaysAt
<1> HIDE DEF f
<1>5. /\ BoxesOK' /\ CacheOK' /\ Len(collisionCache') <= MaxCache
      /\ reservations' \in ReservationMaps /\ boxes' = cs
  BY <1>2, <1>3, SetForestKeeps
<1>6. /\ cs \in Seq(BoxNodes) /\ UniqueIds(cs) /\ Len(cs) \in Nat /\ IsSeq(cs)
      /\ Len(boxes) \in 0..Len(cs) /\ \A i \in 1..Len(boxes) : cs[i] = boxes[i]
  <2>1. Extends(f, boxes)
    BY <1>3 DEF Grown
  <2>2. cs \in Seq(BoxNodes) /\ UniqueIds(cs)
    BY <1>5 DEF BoxesOK
  <2> QED
    BY <2>1, <2>2, SeqTyped, LenProperties DEF Extends
<1> HIDE DEF cs
<1>7. SceneOK'
  <2>1. Len(scene) \in Nat /\ Len(Left(R)) \in Nat /\ Len(scene) <= MaxScene /\ MaxScene \in Nat
    BY <1>1, <1>4, LenProperties, BoundAssumption DEF SceneOK
  <2> QED
    BY <1>2, <1>4, <2>1 DEF SceneOK
<1>8. boxes \in Seq(BoxNodes) /\ IsSeq(boxes) /\ Len(boxes) \in Nat
  BY <1>1, SeqTyped, LenProperties DEF BoxesOK
<1>9. Ids(boxes) = {boxes[i].id : i \in 1..Len(boxes)} /\ Ids(cs) = {cs[i].id : i \in 1..Len(cs)}
  BY <1>6, <1>8, IdsAt
<1>10. Ids(boxes) \subseteq Ids(cs)
  <2>1. \A i \in 1..Len(boxes) : i \in 1..Len(cs) /\ cs[i].id = boxes[i].id
    BY <1>6
  <2> QED
    BY <1>9, <2>1
<1>11. EdgesAmong(E, cs)
  BY <1>1, <1>10 DEF EdgesOK, EdgesAmong
<1>12. EdgesOK'
  <2>1. \A e \in E : PathClear(e.path, Left(R))
    BY <1>1, <1>4 DEF EdgesOK, PathClear
  <2> QED
    BY <1>1, <1>2, <1>5, <1>11, <2>1 DEF EdgesOK
<1>13. Sandwiched(adjacency, cs, Len(boxes), E)
  <2>1. DOMAIN adjacency = Ids(boxes) /\ \A a \in Ids(boxes) :
          adjacency[a] = {b \in Ids(boxes) \ {a} : Near(boxes, a, b) \/ Joined(E, a, b)}
    BY <1>1 DEF Graph
  <2>2. adjacency = [a \in DOMAIN adjacency |-> adjacency[a]]
    BY <1>1 DEF Graph
  <2>3. DOMAIN adjacency = {cs[i].id : i \in 1..Len(boxes)}
    BY <1>6, <1>9, <2>1
  <2>4. ASSUME NEW i \in 1..Len(boxes), NEW j \in 1..Len(boxes), i # j,
               Touching(cs[i].node, cs[j].node)
        PROVE  cs[j].id \in adjacency[cs[i].id]
    <3>1. cs[i] = boxes[i] /\ cs[j] = boxes[j]
      BY <1>6
    <3>2. boxes[i].id \in Ids(boxes) /\ boxes[j].id \in Ids(boxes) /\ boxes[i].id # boxes[j].id
      BY <1>1, <1>9, <2>4 DEF BoxesOK, UniqueIds
    <3>3. Near(boxes, boxes[i].id, boxes[j].id)
      BY <2>4, <3>1 DEF Near
    <3> QED
      BY <2>1, <3>1, <3>2, <3>3
  <2>5. ASSUME NEW a, NEW b, Near(boxes, a, b) PROVE Near(cs, a, b)
    <3>1. PICK i \in 1..Len(boxes) : \E j \in 1..Len(boxes) :
            boxes[i].id = a /\ boxes[j].id = b /\ Touching(boxes[i].node, boxes[j].node)
      BY <2>5 DEF Near
    <3>2. PICK j \in 1..Len(boxes) :
            boxes[i].id = a /\ boxes[j].id = b /\ Touching(boxes[i].node, boxes[j].node)
      BY <3>1
    <3>3. i \in 1..Len(cs) /\ j \in 1..Len(cs) /\ cs[i] = boxes[i] /\ cs[j] = boxes[j]
      BY <1>6
    <3> QED
      BY <3>2, <3>3 DEF Near
  <2>6. \A a \in DOMAIN adjacency : \A b \in adjacency[a] :
          b \in Ids(cs) /\ b # a /\ (Near(cs, a, b) \/ Joined(E, a, b))
    BY <1>10, <2>1, <2>5
  <2> QED
    BY <2>2, <2>3, <2>4, <2>6 DEF Sandwiched
<1>14. adjacency' = Graph(boxes', segmentEdges')
  <2>1. CASE Len(cs) = Len(boxes)
    <3>1. cs = boxes
      BY <1>6, <1>8, <2>1, SeqEqual
    <3> QED
      BY <1>1, <1>2, <1>5, <2>1, <3>1
  <2>2. CASE Len(cs) # Len(boxes)
    <3>1. ApplySegmentEdges(ConnectIncremental(adjacency, cs, Len(boxes) + 1), E) = Graph(cs, E)
      BY <1>6, <1>11, <1>13, ConnectedGraph
    <3> QED
      BY <1>2, <1>5, <2>2, <3>1
  <2> QED
    BY <2>1, <2>2
<1>15. ASSUME BoxesFree, BlameComplete PROVE BoxesFree'
  <2>1. FreeFrom(f, Len(boxes), Left(R))
    BY <1>3, <1>15 DEF Grown
  <2>2. \A i \in (Len(boxes) + 1)..Len(cs) : NodeFree(cs[i].node, Left(R))
    BY <2>1 DEF FreeFrom, cs
  <2>3. \A i \in 1..Len(boxes) : NodeFree(boxes[i].node, scene)
    BY <1>8, <1>15, FreeAt DEF BoxesFree
  <2>4. \A i \in 1..Len(boxes) : NodeFree(cs[i].node, Left(R))
    BY <1>4, <1>6, <2>3 DEF NodeFree
  <2>5. \A i \in 1..Len(cs) : i \in 1..Len(boxes) \/ i \in (Len(boxes) + 1)..Len(cs)
    BY <1>6
  <2>6. \A b \in Range(cs) : NodeFree(b.node, Left(R))
    BY <1>6, <2>2, <2>4, <2>5, FreeAt
  <2> QED
    BY <1>2, <1>5, <2>6 DEF BoxesFree
<1> QED
  BY <1>5, <1>7, <1>12, <1>14, <1>15 DEF DynInv

\* The invariant holds of an empty forest.
LEMMA InitInv == Init => DynInv
<1> SUFFICES ASSUME Init PROVE DynInv
  OBVIOUS
<1>1. /\ scene = <<>> /\ boxes = <<>> /\ adjacency = NoEdges /\ segmentEdges = {}
      /\ reservations = [n \in {} |-> 0]
      /\ collisionCache = <<>> /\ blockerIndex = EmptyIndex /\ activeCount = 0
  BY DEF Init
<1>2. /\ <<>> \in Seq(Obstacle) /\ <<>> \in Seq(BoxNodes) /\ <<>> \in Seq(CachedBoxes)
      /\ Len(<<>>) = 0 /\ Range(<<>>) = {} /\ \A i : i \notin 1..Len(<<>>)
  BY SeqEmpty, EmptySeq
<1>3. SceneOK
  BY <1>1, <1>2, BoundAssumption DEF SceneOK
<1>4. BoxesOK
  BY <1>1, <1>2 DEF BoxesOK, UniqueIds
<1>5. CacheOK
  <2>1. BlamedIn(<<>>) = {}
    BY <1>2 DEF BlamedIn
  <2>2. Cardinality({}) = 0
    BY FS_EmptySet
  <2>3. EmptyIndex \in Indices /\ \A i \in 0..(MaxScene - 1) : EmptyIndex[i] = <<>>
    BY EmptySeq DEF EmptyIndex, Indices
  <2> QED
    BY <1>1, <1>2, <2>1, <2>2, <2>3 DEF CacheOK
<1>6. EdgesOK
  BY <1>1 DEF EdgesOK, EdgesAmong
<1>7. reservations \in ReservationMaps
  <2>1. [n \in {} |-> 0] \in [{} -> Nat]
    OBVIOUS
  <2> QED
    BY <1>1, <2>1 DEF ReservationMaps
<1>8. adjacency = Graph(boxes, segmentEdges)
  <2>1. Ids(<<>>) = {}
    BY <1>2 DEF Ids
  <2> QED
    BY <1>1, <2>1 DEF Graph, NoEdges
<1>9. Len(collisionCache) <= MaxCache
  BY <1>1, <1>2, BoundAssumption
<1> QED
  BY <1>3, <1>4, <1>5, <1>6, <1>7, <1>8, <1>9 DEF DynInv

\* The invariant is inductive, and no step makes a free forest collide.
LEMMA NextKeeps ==
  ASSUME DynInv, [Next]_vars
  PROVE  DynInv' /\ (BoxesFree /\ BlameComplete => BoxesFree')
<1>1. CASE UNCHANGED vars
  BY <1>1 DEF vars, DynInv, SceneOK, BoxesOK, CacheOK, EdgesOK, BoxesFree
<1>2. ASSUME NEW sc \in Scenes, NEW oneGroup \in BOOLEAN, BuildLeafSweep(sc, oneGroup)
      PROVE  DynInv' /\ BoxesFree'
  BY <1>2, BuildKeeps
<1>3. ASSUME ClearForest PROVE DynInv' /\ BoxesFree'
  BY <1>3, ClearKeeps DEF DynInv
<1>4. ASSUME NEW a \in Ids(boxes), NEW b \in Ids(boxes), NEW p \in Path, AddSegmentEdge(a, b, p)
      PROVE  DynInv' /\ (BoxesFree => BoxesFree')
  BY <1>4, AddSegmentEdgeKeeps
<1>5. ASSUME NEW o \in Obstacle, AddObstacle(o) PROVE DynInv' /\ (BoxesFree => BoxesFree')
  <2>1. <<o>> \in Seq(Obstacle) /\ <<o>> # <<>>
    OBVIOUS
  <2> QED
    BY <1>5, <2>1, AddKeeps DEF AddObstacle
<1>6. ASSUME NEW os \in Batches, AddObstacles(os) PROVE DynInv' /\ (BoxesFree => BoxesFree')
  BY <1>6, AddKeeps, ListAssumption
<1>7. ASSUME NEW i \in 0..(MaxScene - 1), RemoveObstacle(i) \/ RemoveObstacleSuffix(i)
      PROVE  DynInv' /\ (BoxesFree /\ BlameComplete => BoxesFree')
  <2>1. Len(scene) \in Nat
    BY LenProperties DEF DynInv, SceneOK
  <2>2. i < Len(scene) /\ (RemoveAndRegrow({i}) \/ RemoveAndRegrow(i..(Len(scene) - 1)))
    BY <1>7 DEF RemoveObstacle, RemoveObstacleSuffix
  <2>3. i \in 0..(Len(scene) - 1)
    BY <2>1, <2>2
  <2>4. Removal({i}) /\ Removal(i..(Len(scene) - 1))
    BY <2>3 DEF Removal
  <2> QED
    BY <2>2, <2>4, RemoveKeeps
<1> QED
  BY <1>1, <1>2, <1>3, <1>4, <1>5, <1>6, <1>7 DEF Next

\* Whatever is built, inserted and removed, in whatever order and for every scene: the
\* query graph joins exactly the boxes that touch and those a segment edge joins, every
\* segment edge is between live boxes and clear of the scene
\* (safe_box_forest.cpp:18711-18877, 19437-19481).
THEOREM GraphCorrect == Spec => []GraphExact
<1>1. DynInv /\ [Next]_vars => DynInv'
  BY NextKeeps
<1> QED
  BY <1>1, InitInv, InvGivesGraphExact, PTL DEF Spec

\* In every forest whose boxes are free and whose cache blames completely, no public method
\* makes a box collide: what an insertion leaves and refills is free of the new scene, and a
\* leaf promoted without a collision check was only blocked by what is gone
\* (safe_box_forest.cpp:9694-9985, 18711-19069).
THEOREM UpdatesSafe == Spec => UpdatesKeepBoxesFree
<1>1. DynInv /\ [Next]_vars => DynInv'
  BY NextKeeps
<1>2. DynInv /\ [Next]_vars => [BoxesFree /\ BlameComplete => BoxesFree']_vars
  BY NextKeeps
<1> QED
  BY <1>1, <1>2, InitInv, PTL DEF Spec, UpdatesKeepBoxesFree

-----------------------------------------------------------------------------
(* Two nodes of the tree. *)
Disjoint(m, n) == CellsOf(m) \cap CellsOf(n) = {}

\* The cells of a node, by its depth and position.
LEMMA CellsAt ==
  ASSUME NEW d \in 0..MaxDepth, NEW k \in 0..(TwoTo[d] - 1)
  PROVE  /\ <<d, k>> \in Node /\ MaxDepth - d \in 0..MaxDepth
         /\ TwoTo[MaxDepth - d] \in Nat \ {0} /\ TwoTo[d] \in Nat \ {0} /\ k \in Nat
         /\ CellsOf(<<d, k>>) = (k * TwoTo[MaxDepth - d])..((k + 1) * TwoTo[MaxDepth - d] - 1)
<1>1. MaxDepth \in Nat
  BY DepthAssumption
<1>2. MaxDepth - d \in 0..MaxDepth
  BY <1>1
<1>3. TwoTo[MaxDepth - d] \in Nat \ {0} /\ TwoTo[d] \in Nat \ {0}
  BY <1>2, TwoToFacts
<1>4. <<d, k>> \in Node
  BY NodeParts
<1>5. <<d, k>>[1] = d /\ <<d, k>>[2] = k
  OBVIOUS
<1>6. CellsOf(<<d, k>>) = (k * TwoTo[MaxDepth - d])..((k + 1) * TwoTo[MaxDepth - d] - 1)
  BY <1>5 DEF CellsOf
<1>7. k \in Nat
  BY <1>3
<1> QED
  BY <1>2, <1>3, <1>4, <1>6, <1>7

\* A node has a cell, and its cells are integers.
LEMMA CellsNonEmpty ==
  ASSUME NEW n \in Node
  PROVE  CellsOf(n) # {} /\ CellsOf(n) \subseteq Int
<1>1. PICK d \in 0..MaxDepth : \E k \in 0..(TwoTo[d] - 1) : n = <<d, k>>
  BY NodeParts
<1>2. PICK k \in 0..(TwoTo[d] - 1) : n = <<d, k>>
  BY <1>1
<1>3. PICK w \in Nat \ {0} : k \in Nat /\ CellsOf(n) = (k * w)..((k + 1) * w - 1)
  BY <1>2, CellsAt
<1>4. k * w \in Int /\ (k + 1) * w = k * w + w /\ w >= 1
  BY <1>3
<1>5. k * w \in CellsOf(n)
  BY <1>3, <1>4
<1>6. \A a, b \in Int : a..b \subseteq Int
  OBVIOUS
<1>7. (k + 1) * w - 1 \in Int
  BY <1>3, <1>4
<1>8. CellsOf(n) \subseteq Int
  BY <1>3, <1>4, <1>6, <1>7
<1> QED
  BY <1>5, <1>8

\* The children of a node share its cells out between them.
LEMMA ChildrenPartition ==
  ASSUME NEW n \in Node, n[1] < MaxDepth
  PROVE  /\ CellsOf(n) = CellsOf(Child(n, 0)) \cup CellsOf(Child(n, 1))
         /\ Disjoint(Child(n, 0), Child(n, 1))
<1>1. PICK d \in 0..MaxDepth : \E k \in 0..(TwoTo[d] - 1) : n = <<d, k>>
  BY NodeParts
<1>2. PICK k \in 0..(TwoTo[d] - 1) : n = <<d, k>>
  BY <1>1
<1>3. n[1] = d /\ n[2] = k /\ MaxDepth \in Nat
  BY <1>2, DepthAssumption
<1>4. d + 1 \in 0..MaxDepth /\ d + 1 \in 1..MaxDepth /\ (d + 1) - 1 = d
  BY <1>3
<1>5. TwoTo[d + 1] = 2 * TwoTo[d]
  BY <1>4, TwoToFacts
<1>6. /\ MaxDepth - d \in 1..MaxDepth /\ (MaxDepth - d) - 1 = MaxDepth - (d + 1)
      /\ TwoTo[MaxDepth - d] = 2 * TwoTo[MaxDepth - (d + 1)]
  <2>1. MaxDepth - d \in 1..MaxDepth /\ (MaxDepth - d) - 1 = MaxDepth - (d + 1)
    BY <1>3, <1>4
  <2> QED
    BY <2>1, TwoToFacts
<1>7. /\ TwoTo[d] \in Nat \ {0} /\ k \in Nat
      /\ CellsOf(n) = (k * TwoTo[MaxDepth - d])..((k + 1) * TwoTo[MaxDepth - d] - 1)
  BY <1>2, CellsAt
<1>8. 2 * k + 0 \in 0..(TwoTo[d + 1] - 1) /\ 2 * k + 1 \in 0..(TwoTo[d + 1] - 1)
  BY <1>2, <1>5, <1>7
<1>9. Child(n, 0) = <<d + 1, 2 * k + 0>> /\ Child(n, 1) = <<d + 1, 2 * k + 1>>
  BY <1>3 DEF Child
<1>10. PICK w : w = TwoTo[MaxDepth - (d + 1)]
  OBVIOUS
<1>11. /\ w \in Nat \ {0}
       /\ CellsOf(Child(n, 0)) = ((2 * k + 0) * w)..((2 * k + 0 + 1) * w - 1)
       /\ CellsOf(Child(n, 1)) = ((2 * k + 1) * w)..((2 * k + 1 + 1) * w - 1)
  BY <1>4, <1>8, <1>9, <1>10, CellsAt
<1>12. CellsOf(n) = (k * (2 * w))..((k + 1) * (2 * w) - 1)
  BY <1>6, <1>7, <1>10
<1>13. PICK x \in Int : x = k * w
  BY <1>7, <1>11
<1>14. /\ (2 * k + 0) * w = 2 * x /\ (2 * k + 0 + 1) * w = 2 * x + w
       /\ (2 * k + 1) * w = 2 * x + w /\ (2 * k + 1 + 1) * w = 2 * x + 2 * w
       /\ k * (2 * w) = 2 * x /\ (k + 1) * (2 * w) = 2 * x + 2 * w
  BY <1>7, <1>11, <1>13
<1>15. /\ CellsOf(Child(n, 0)) = (2 * x)..(2 * x + w - 1)
       /\ CellsOf(Child(n, 1)) = (2 * x + w)..(2 * x + 2 * w - 1)
       /\ CellsOf(n) = (2 * x)..(2 * x + 2 * w - 1)
  BY <1>11, <1>12, <1>14
<1> QED
  BY <1>11, <1>13, <1>15 DEF Disjoint

\* Two nodes of one depth are the same or apart.
LEMMA SameDepthApart ==
  ASSUME NEW m \in Node, NEW n \in Node, m[1] = n[1], m # n
  PROVE  Disjoint(m, n)
<1>1. PICK d \in 0..MaxDepth : \E k \in 0..(TwoTo[d] - 1) : n = <<d, k>>
  BY NodeParts
<1>2. PICK k \in 0..(TwoTo[d] - 1) : n = <<d, k>>
  BY <1>1
<1>3. PICK c \in 0..MaxDepth : \E j \in 0..(TwoTo[c] - 1) : m = <<c, j>>
  BY NodeParts
<1>4. PICK j \in 0..(TwoTo[c] - 1) : m = <<c, j>>
  BY <1>3
<1>5. c = d /\ j # k
  BY <1>2, <1>4
<1>6. PICK w : w = TwoTo[MaxDepth - d]
  OBVIOUS
<1>7. w \in Nat \ {0} /\ k \in Nat /\ CellsOf(n) = (k * w)..((k + 1) * w - 1)
  BY <1>2, <1>6, CellsAt
<1>8. j \in Nat /\ CellsOf(m) = (j * w)..((j + 1) * w - 1)
  BY <1>4, <1>5, <1>6, CellsAt
<1>9. \A a, b \in Nat : a < b => (a + 1) * w <= b * w
  <2>1. SUFFICES ASSUME NEW a \in Nat, NEW b \in Nat, a < b PROVE (a + 1) * w <= b * w
    OBVIOUS
  <2>2. PICK e \in Nat : b = (a + 1) + e
    <3>1. b - (a + 1) \in Nat /\ b = (a + 1) + (b - (a + 1))
      BY <2>1
    <3> QED
      BY <3>1
  <2>3. b * w = (a + 1) * w + e * w /\ e * w \in Nat /\ (a + 1) * w \in Nat
    BY <2>2, <1>7
  <2> QED
    BY <2>3
<1>10. j * w \in Int /\ k * w \in Int /\ (j + 1) * w \in Int /\ (k + 1) * w \in Int
  BY <1>7, <1>8
<1>11. CASE j < k
  <2>1. (j + 1) * w <= k * w
    BY <1>7, <1>8, <1>9, <1>11
  <2> QED
    BY <1>7, <1>8, <1>10, <2>1 DEF Disjoint
<1>12. CASE k < j
  <2>1. (k + 1) * w <= j * w
    BY <1>7, <1>8, <1>9, <1>12
  <2> QED
    BY <1>7, <1>8, <1>10, <2>1 DEF Disjoint
<1> QED
  BY <1>5, <1>7, <1>8, <1>11, <1>12

\* A node below the root lies in its parent.
LEMMA InParent ==
  ASSUME NEW n \in Node, n[1] # 0
  PROVE  \E m \in Node : m[1] = n[1] - 1 /\ CellsOf(n) \subseteq CellsOf(m)
<1>1. PICK d \in 0..MaxDepth : \E k \in 0..(TwoTo[d] - 1) : n = <<d, k>>
  BY NodeParts
<1>2. PICK k \in 0..(TwoTo[d] - 1) : n = <<d, k>>
  BY <1>1
<1>3. n[1] = d /\ MaxDepth \in Nat /\ d \in 1..MaxDepth /\ d - 1 \in 0..MaxDepth
  BY <1>2, DepthAssumption
<1>4. TwoTo[d] = 2 * TwoTo[d - 1] /\ TwoTo[d - 1] \in Nat \ {0}
  BY <1>3, TwoToFacts
<1>5. PICK j \in 0..(TwoTo[d - 1] - 1), side \in {0, 1} : k = 2 * j + side
  <2>1. k \in Nat
    BY <1>2, <1>4
  <2>2. k \div 2 \in 0..(TwoTo[d - 1] - 1) /\ k % 2 \in {0, 1} /\ k = 2 * (k \div 2) + (k % 2)
    BY <2>1, <1>2, <1>4
  <2> QED
    BY <2>2
<1>6. PICK m : m = <<d - 1, j>>
  OBVIOUS
<1>7. m \in Node /\ m[1] = d - 1 /\ m[2] = j
  BY <1>3, <1>6, NodeParts
<1>8. Child(m, side) = n
  BY <1>2, <1>3, <1>5, <1>7 DEF Child
<1>9. CellsOf(m) = CellsOf(Child(m, 0)) \cup CellsOf(Child(m, 1))
  BY <1>3, <1>7, ChildrenPartition
<1>10. CellsOf(n) \subseteq CellsOf(m)
  BY <1>5, <1>8, <1>9
<1> QED
  BY <1>3, <1>7, <1>10

\* A node lies in one node of each depth above it.
LEMMA InAncestor ==
  ASSUME NEW n \in Node, NEW d \in 0..n[1]
  PROVE  \E m \in Node : m[1] = d /\ CellsOf(n) \subseteq CellsOf(m)
<1>1. n[1] \in Nat
  <2>1. PICK e \in 0..MaxDepth : \E k \in 0..(TwoTo[e] - 1) : n = <<e, k>>
    BY NodeParts
  <2>2. PICK k \in 0..(TwoTo[e] - 1) : n = <<e, k>>
    BY <2>1
  <2> QED
    BY <2>2
<1> DEFINE T == {h \in 0..n[1] : \E m \in Node : m[1] = n[1] - h /\ CellsOf(n) \subseteq CellsOf(m)}
<1>2. 0 \in T
  BY <1>1
<1>3. ASSUME NEW h \in 1..n[1], h - 1 \in T PROVE h \in T
  <2>1. PICK m \in Node : m[1] = n[1] - (h - 1) /\ CellsOf(n) \subseteq CellsOf(m)
    BY <1>3
  <2>2. m[1] # 0 /\ m[1] - 1 = n[1] - h
    BY <1>1, <2>1
  <2>3. PICK p \in Node : p[1] = m[1] - 1 /\ CellsOf(m) \subseteq CellsOf(p)
    BY <2>2, InParent
  <2>4. p[1] = n[1] - h /\ CellsOf(n) \subseteq CellsOf(p)
    BY <2>1, <2>2, <2>3
  <2> QED
    BY <2>4, <1>1
<1>4. \A h \in 0..n[1] : h \in T
  <2> HIDE DEF T
  <2> QED
    BY <1>1, <1>2, <1>3, UpTo
<1>5. n[1] - d \in 0..n[1] /\ n[1] - (n[1] - d) = d
  BY <1>1
<1>6. n[1] - d \in T
  BY <1>4, <1>5
<1> QED
  BY <1>5, <1>6

\* Two nodes are apart, or the deeper one lies in the other.
LEMMA Laminar ==
  ASSUME NEW m \in Node, NEW n \in Node, n[1] <= m[1]
  PROVE  Disjoint(m, n) \/ CellsOf(m) \subseteq CellsOf(n)
<1>1. n[1] \in Nat /\ m[1] \in Nat
  <2>1. PICK e \in 0..MaxDepth : \E k \in 0..(TwoTo[e] - 1) : n = <<e, k>>
    BY NodeParts
  <2>2. PICK k \in 0..(TwoTo[e] - 1) : n = <<e, k>>
    BY <2>1
  <2>3. PICK d \in 0..MaxDepth : \E j \in 0..(TwoTo[d] - 1) : m = <<d, j>>
    BY NodeParts
  <2>4. PICK j \in 0..(TwoTo[d] - 1) : m = <<d, j>>
    BY <2>3
  <2> QED
    BY <2>2, <2>4
<1>2. n[1] \in 0..m[1]
  BY <1>1
<1>3. PICK a \in Node : a[1] = n[1] /\ CellsOf(m) \subseteq CellsOf(a)
  BY <1>2, InAncestor
<1>4. CASE a = n
  BY <1>3, <1>4
<1>5. CASE a # n
  <2>1. Disjoint(a, n)
    BY <1>3, <1>5, SameDepthApart
  <2> QED
    BY <1>3, <2>1 DEF Disjoint
<1> QED
  BY <1>4, <1>5

-----------------------------------------------------------------------------
(* The leaves below a node. *)

\* One sequence after another repeats nothing if neither does and they share nothing.
LEMMA OnceConcat ==
  ASSUME NEW s, IsSeq(s), \A i, j \in 1..Len(s) : s[i] = s[j] => i = j,
         NEW t, IsSeq(t), \A i, j \in 1..Len(t) : t[i] = t[j] => i = j,
         Range(s) \cap Range(t) = {}
  PROVE  \A i, j \in 1..Len(s \o t) : (s \o t)[i] = (s \o t)[j] => i = j
<1>1. PICK r : r = s \o t
  OBVIOUS
<1>2. /\ IsSeq(r) /\ Len(r) = Len(s) + Len(t)
      /\ \A i \in 1..Len(s) : r[i] = s[i]
      /\ \A i \in 1..Len(t) : r[Len(s) + i] = t[i]
  BY <1>1, SeqConcat
<1>3. /\ Len(s) \in Nat /\ Len(t) \in Nat
      /\ \A i \in 1..Len(s) : s[i] \in Range(s)
      /\ \A i \in 1..Len(t) : t[i] \in Range(t)
  BY SeqShape
<1>4. \A i \in 1..Len(r) : i \in 1..Len(s) \/ \E k \in 1..Len(t) : i = Len(s) + k
  <2> TAKE i \in 1..Len(r)
  <2>1. i \in 1..Len(s) \/ (i - Len(s) \in 1..Len(t) /\ i = Len(s) + (i - Len(s)))
    BY <1>2, <1>3
  <2> QED
    BY <2>1
<1>5. SUFFICES ASSUME NEW i \in 1..Len(r), NEW j \in 1..Len(r), r[i] = r[j] PROVE i = j
  BY <1>1
<1>6. CASE i \in 1..Len(s) /\ j \in 1..Len(s)
  BY <1>2, <1>5, <1>6
<1>7. CASE i \in 1..Len(s) /\ \E k \in 1..Len(t) : j = Len(s) + k
  BY <1>2, <1>3, <1>5, <1>7
<1>8. CASE j \in 1..Len(s) /\ \E k \in 1..Len(t) : i = Len(s) + k
  BY <1>2, <1>3, <1>5, <1>8
<1>9. CASE (\E k \in 1..Len(t) : i = Len(s) + k) /\ (\E k \in 1..Len(t) : j = Len(s) + k)
  <2>1. PICK k \in 1..Len(t) : i = Len(s) + k
    BY <1>9
  <2>2. PICK l \in 1..Len(t) : j = Len(s) + l
    BY <1>9
  <2>3. t[k] = t[l]
    BY <1>2, <1>5, <2>1, <2>2
  <2> QED
    BY <2>1, <2>2, <2>3
<1> QED
  BY <1>4, <1>6, <1>7, <1>8, <1>9

\* What is popped below x is below x, each node once, and those in S share the cells
\* of x out between them.
PopsOf(s, x, S) ==
  /\ IsSeq(s) /\ \A i, j \in 1..Len(s) : s[i] = s[j] => i = j
  /\ \A m \in Range(s) : m \in Node /\ CellsOf(m) \subseteq CellsOf(x) /\ m[1] >= x[1]
  /\ \A m, l \in Range(s) \cap S : m # l => Disjoint(m, l)
  /\ \A c \in CellsOf(x) : \E m \in Range(s) \cap S : c \in CellsOf(m)

\* A node that is a leaf is popped alone.
LEMMA PopsSingle ==
  ASSUME NEW x \in Node, NEW S, x \in S
  PROVE  PopsOf(<<x>>, x, S)
<1>1. PICK s : s = <<x>>
  OBVIOUS
<1>2. IsSeq(s) /\ Len(s) = 1 /\ Range(s) = {x}
  BY <1>1, SeqSingle
<1>3. x[1] \in Int
  BY NodeParts, DepthAssumption
<1> QED
  BY <1>1, <1>2, <1>3 DEF PopsOf

\* What is popped below a node that is split: the node, then what is popped below its
\* children.
LEMMA PopsJoin ==
  ASSUME NEW x \in Node, x[1] < MaxDepth, NEW S, x \notin S,
         NEW l, PopsOf(l, Child(x, 0), S), NEW r, PopsOf(r, Child(x, 1), S)
  PROVE  PopsOf(<<x>> \o (l \o r), x, S)
<1>1. /\ CellsOf(x) = CellsOf(Child(x, 0)) \cup CellsOf(Child(x, 1))
      /\ Disjoint(Child(x, 0), Child(x, 1))
  BY ChildrenPartition
<1>2. \A side \in {0, 1} : Child(x, side) \in Node /\ Child(x, side)[1] = x[1] + 1
  BY ChildIsNode
<1>3. x[1] \in Int
  BY NodeParts, DepthAssumption
<1>4. /\ IsSeq(l) /\ IsSeq(r)
      /\ \A i, j \in 1..Len(l) : l[i] = l[j] => i = j
      /\ \A i, j \in 1..Len(r) : r[i] = r[j] => i = j
  BY DEF PopsOf
<1>5. /\ \A m \in Range(l) : m \in Node /\ CellsOf(m) \subseteq CellsOf(Child(x, 0)) /\ m[1] >= x[1] + 1
      /\ \A m \in Range(r) : m \in Node /\ CellsOf(m) \subseteq CellsOf(Child(x, 1)) /\ m[1] >= x[1] + 1
  BY <1>2 DEF PopsOf
<1>6. \A m \in Range(l), k \in Range(r) : Disjoint(m, k)
  BY <1>1, <1>5 DEF Disjoint
<1>7. Range(l) \cap Range(r) = {}
  <2> SUFFICES ASSUME NEW m \in Range(l), m \in Range(r) PROVE FALSE
    OBVIOUS
  <2>1. Disjoint(m, m) /\ m \in Node
    BY <1>5, <1>6
  <2> QED
    BY <2>1, CellsNonEmpty DEF Disjoint
<1>8. PICK t : t = l \o r
  OBVIOUS
<1>9. IsSeq(t) /\ Range(t) = Range(l) \cup Range(r) /\ \A i, j \in 1..Len(t) : t[i] = t[j] => i = j
  BY <1>4, <1>7, <1>8, SeqConcat, OnceConcat
<1>10. PICK h : h = <<x>>
  OBVIOUS
<1>11. IsSeq(h) /\ Range(h) = {x} /\ Len(h) = 1
  BY <1>10, SeqSingle
<1>12. \A i, j \in 1..Len(h) : h[i] = h[j] => i = j
  BY <1>11
<1>13. x \notin Range(t)
  <2> SUFFICES ASSUME x \in Range(t) PROVE FALSE
    OBVIOUS
  <2>1. x[1] >= x[1] + 1
    BY <1>5, <1>9
  <2> QED
    BY <1>3, <2>1
<1>14. PICK s : s = h \o t
  OBVIOUS
<1>15. Range(h) \cap Range(t) = {}
  BY <1>11, <1>13
<1>16. IsSeq(s) /\ \A i, j \in 1..Len(s) : s[i] = s[j] => i = j
  BY <1>9, <1>11, <1>12, <1>14, <1>15, SeqConcat, OnceConcat
<1>17. Range(s) = {x} \cup (Range(l) \cup Range(r))
  <2>1. Range(s) = Range(h) \cup Range(t)
    BY <1>9, <1>11, <1>14, SeqConcat
  <2> QED
    BY <1>9, <1>11, <2>1
<1>18. \A m \in Range(s) : m \in Node /\ CellsOf(m) \subseteq CellsOf(x) /\ m[1] >= x[1]
  <2> TAKE m \in Range(s)
  <2>1. CASE m = x
    BY <1>3, <2>1
  <2>2. CASE m \in Range(l) \cup Range(r)
    <3>1. m \in Node /\ CellsOf(m) \subseteq CellsOf(x) /\ m[1] >= x[1] + 1
      BY <1>1, <1>5, <2>2
    <3>2. m[1] \in Int
      BY <3>1, NodeParts, DepthAssumption
    <3> QED
      BY <1>3, <3>1, <3>2
  <2> QED
    BY <1>17, <2>1, <2>2
<1>19. Range(s) \cap S = (Range(l) \cap S) \cup (Range(r) \cap S)
  BY <1>17
<1>20. \A m, k \in Range(s) \cap S : m # k => Disjoint(m, k)
  <2> SUFFICES ASSUME NEW m \in Range(s) \cap S, NEW k \in Range(s) \cap S, m # k PROVE Disjoint(m, k)
    OBVIOUS
  <2>1. CASE m \in Range(l) /\ k \in Range(l)
    BY <2>1 DEF PopsOf
  <2>2. CASE m \in Range(r) /\ k \in Range(r)
    BY <2>2 DEF PopsOf
  <2>3. CASE m \in Range(l) /\ k \in Range(r)
    BY <1>6, <2>3
  <2>4. CASE m \in Range(r) /\ k \in Range(l)
    <3>1. Disjoint(k, m)
      BY <1>6, <2>4
    <3> QED
      BY <3>1 DEF Disjoint
  <2> QED
    BY <1>19, <2>1, <2>2, <2>3, <2>4
<1>21. \A c \in CellsOf(x) : \E m \in Range(s) \cap S : c \in CellsOf(m)
  <2> TAKE c \in CellsOf(x)
  <2>1. CASE c \in CellsOf(Child(x, 0))
    BY <1>19, <2>1 DEF PopsOf
  <2>2. CASE c \in CellsOf(Child(x, 1))
    BY <1>19, <2>2 DEF PopsOf
  <2> QED
    BY <1>1, <2>1, <2>2
<1>22. PopsOf(s, x, S)
  BY <1>16, <1>18, <1>20, <1>21 DEF PopsOf
<1> QED
  BY <1>8, <1>10, <1>14, <1>22

\* Below a node none of whose parts is reserved, a refill pops what it would pop were
\* nothing reserved, and the leaves among it fill the node exactly.
LEMMA PopsBelow ==
  ASSUME NEW sc, NEW reserved, NEW n \in Node, \A r \in reserved : Disjoint(r, n),
         NEW S, S = {m \in Node : IsLeaf(m, sc, reserved)}
  PROVE  /\ PopsOf(Pops(sc, reserved)[n], n, S)
         /\ Pops(sc, reserved)[n] = Pops(sc, {})[n]
<1> DEFINE Deep(m) == {x \in Node : x[1] >= MaxDepth - m}
           Apart(x) == \A r \in reserved : Disjoint(r, x)
<1>1. MaxDepth \in Nat /\ \A x \in Node : x[1] \in 0..MaxDepth
  BY DepthAssumption, NodeParts
<1>2. ASSUME NEW m \in 1..MaxDepth, NEW x \in Deep(m), x[1] # MaxDepth
      PROVE  Child(x, 0) \in Deep(m - 1) /\ Child(x, 1) \in Deep(m - 1)
  <2>1. x \in Node /\ x[1] < MaxDepth
    BY <1>1, <1>2
  <2>2. \A side \in {0, 1} : Child(x, side) \in Node /\ Child(x, side)[1] = x[1] + 1
    BY <2>1, ChildIsNode
  <2>3. x[1] >= MaxDepth - m /\ x[1] \in 0..MaxDepth
    BY <1>1
  <2>4. x[1] + 1 >= MaxDepth - (m - 1)
    BY <1>1, <2>3
  <2> QED
    BY <2>2, <2>4
<1>3. PICK P, Q : P = Pops(sc, reserved) /\ Q = Pops(sc, {})
  OBVIOUS
<1>4. IsPops(P, sc, reserved) /\ IsPops(Q, sc, {})
  BY <1>3, PopsUnfold
<1>5. ASSUME NEW x \in Node, Apart(x) PROVE x \notin reserved
  <2>1. CellsOf(x) # {}
    BY CellsNonEmpty
  <2> QED
    BY <1>5, <2>1 DEF Disjoint
<1>6. ASSUME NEW x \in Node, Apart(x), x[1] = MaxDepth \/ NodeFree(x, sc)
      PROVE  PopsOf(P[x], x, S) /\ P[x] = Q[x]
  <2>1. P[x] = <<x>> /\ Q[x] = <<x>>
    BY <1>4, <1>6 DEF IsPops
  <2>2. x \in S
    BY <1>5, <1>6 DEF IsLeaf
  <2> QED
    BY <2>1, <2>2, PopsSingle
<1> DEFINE V == {m \in 0..MaxDepth : \A x \in Deep(m) : Apart(x) => PopsOf(P[x], x, S) /\ P[x] = Q[x]}
<1>7. 0 \in V
  <2>1. \A x \in Deep(0) : x \in Node /\ x[1] = MaxDepth
    BY <1>1
  <2>2. 0 \in 0..MaxDepth
    BY <1>1
  <2> QED
    BY <1>6, <2>1, <2>2
<1>8. ASSUME NEW m \in 1..MaxDepth, m - 1 \in V PROVE m \in V
  <2>1. ASSUME NEW x \in Deep(m), Apart(x) PROVE PopsOf(P[x], x, S) /\ P[x] = Q[x]
    <3>1. x \in Node
      OBVIOUS
    <3>2. CASE x[1] = MaxDepth \/ NodeFree(x, sc)
      BY <1>6, <2>1, <3>1, <3>2
    <3>3. CASE ~(x[1] = MaxDepth \/ NodeFree(x, sc))
      <4>1. Child(x, 0) \in Deep(m - 1) /\ Child(x, 1) \in Deep(m - 1)
        BY <1>2, <3>3
      <4>2. x[1] < MaxDepth
        BY <1>1, <3>1, <3>3
      <4>3. /\ CellsOf(x) = CellsOf(Child(x, 0)) \cup CellsOf(Child(x, 1))
            /\ Disjoint(Child(x, 0), Child(x, 1))
        BY <3>1, <4>2, ChildrenPartition
      <4>4. Apart(Child(x, 0)) /\ Apart(Child(x, 1))
        BY <2>1, <4>3 DEF Disjoint
      <4>5. PICK l, r : l = P[Child(x, 0)] /\ r = P[Child(x, 1)]
        OBVIOUS
      <4>6. /\ PopsOf(l, Child(x, 0), S) /\ PopsOf(r, Child(x, 1), S)
            /\ l = Q[Child(x, 0)] /\ r = Q[Child(x, 1)]
        BY <1>8, <4>1, <4>4, <4>5
      <4>7. x \notin S
        BY <3>3 DEF IsLeaf
      <4>8. PopsOf(<<x>> \o (l \o r), x, S)
        BY <3>1, <4>2, <4>6, <4>7, PopsJoin
      <4>9. P[x] = <<x>> \o (l \o r)
        BY <1>4, <1>5, <2>1, <3>1, <3>3, <4>5 DEF IsPops
      <4>10. Q[x] = <<x>> \o (l \o r)
        BY <1>4, <3>1, <3>3, <4>6 DEF IsPops
      <4> QED
        BY <4>8, <4>9, <4>10
    <3> QED
      BY <3>2, <3>3
  <2>2. m \in 0..MaxDepth
    BY <1>1
  <2> QED
    BY <2>1, <2>2
<1>9. MaxDepth \in V
  <2> HIDE DEF V
  <2>1. MaxDepth \in 0..MaxDepth
    BY <1>1
  <2> QED
    BY <1>1, <1>7, <1>8, <2>1, UpTo
<1>10. n \in Deep(MaxDepth)
  BY <1>1
<1> QED
  BY <1>3, <1>9, <1>10

\* The leaves a refill finds below such a node lie apart inside it, and fill it unless
\* the refill is cut short.
LEMMA LeavesInside ==
  ASSUME NEW sc, NEW reserved, NEW n \in Node, \A r \in reserved : Disjoint(r, n),
         NEW cells, cells = Leaves(n, sc, reserved)
  PROVE  /\ \A k \in 1..Len(cells) : CellsOf(cells[k]) \subseteq CellsOf(n)
         /\ \A j, k \in 1..Len(cells) : j # k => Disjoint(cells[j], cells[k])
         /\ ~PopsCutShort(n, sc) => \A c \in CellsOf(n) : \E k \in 1..Len(cells) : c \in CellsOf(cells[k])
<1>1. PICK S : S = {m \in Node : IsLeaf(m, sc, reserved)}
  OBVIOUS
<1>2. PICK s : s = Pops(sc, reserved)[n]
  OBVIOUS
<1>3. PopsOf(s, n, S) /\ s = Pops(sc, {})[n]
  BY <1>1, <1>2, PopsBelow
<1>4. IsSeq(s) /\ \A i, j \in 1..Len(s) : s[i] = s[j] => i = j
  BY <1>3 DEF PopsOf
<1>5. PICK t : t = FirstPops(s)
  OBVIOUS
<1>6. /\ IsSeq(t) /\ Range(t) \subseteq Range(s) /\ (Len(s) <= MaxPops => t = s)
      /\ \A i, j \in 1..Len(t) : t[i] = t[j] => i = j
  BY <1>4, <1>5, FirstPopsFacts
<1>7. cells = Kept(t, S)
  BY <1>1, <1>2, <1>5 DEF Leaves
<1>8. /\ IsSeq(cells) /\ Range(cells) = Range(t) \cap S
      /\ \A i, j \in 1..Len(cells) : cells[i] = cells[j] => i = j
  BY <1>6, <1>7, KeptFacts
<1>9. \A k \in 1..Len(cells) : cells[k] \in Range(s) \cap S
  BY <1>6, <1>8, SeqShape
<1>10. \A k \in 1..Len(cells) : CellsOf(cells[k]) \subseteq CellsOf(n)
  BY <1>3, <1>9 DEF PopsOf
<1>11. \A j, k \in 1..Len(cells) : j # k => Disjoint(cells[j], cells[k])
  <2> SUFFICES ASSUME NEW j \in 1..Len(cells), NEW k \in 1..Len(cells), j # k
               PROVE  Disjoint(cells[j], cells[k])
    OBVIOUS
  <2>1. cells[j] # cells[k]
    BY <1>8
  <2> QED
    BY <1>3, <1>9, <2>1 DEF PopsOf
<1>12. ASSUME ~PopsCutShort(n, sc), NEW c \in CellsOf(n)
       PROVE  \E k \in 1..Len(cells) : c \in CellsOf(cells[k])
  <2>1. ~(Len(s) > MaxPops)
    BY <1>3, <1>12 DEF PopsCutShort
  <2>2. Len(s) \in Nat /\ MaxPops \in Nat
    BY <1>4, SeqShape, DepthAssumption
  <2>3. t = s
    BY <1>6, <2>1, <2>2
  <2>4. PICK m \in Range(s) \cap S : c \in CellsOf(m)
    BY <1>3 DEF PopsOf
  <2>5. m \in Range(cells)
    BY <1>8, <2>3
  <2> QED
    BY <1>8, <2>4, <2>5, SeqShape
<1> QED
  BY <1>10, <1>11, <1>12

-----------------------------------------------------------------------------
(* The nodes a sweep returns. *)

\* The breadth-first list of the nodes names each once.
LEMMA NodesInOrderOnce ==
  \A i, j \in 1..Len(NodesInOrder) : NodesInOrder[i] = NodesInOrder[j] => i = j
<1>1. PICK u :
         /\ u[0] = <<<<0, 0>>>> /\ NodesInOrder = u[LeafDepth] /\ LeafDepth \in Nat
         /\ \A d \in 1..LeafDepth : u[d] = u[d - 1] \o [k \in 1..TwoTo[d] |-> <<d, k - 1>>]
         /\ \A d \in 0..LeafDepth : u[d] \in Seq(Int \X Int)
  BY NodesInOrderUnfolds
<1>2. \A d \in 1..LeafDepth : TwoTo[d] \in Nat
  <2>1. LeafDepth \in 0..MaxDepth /\ MaxDepth \in Nat
    BY DepthAssumption
  <2> QED
    BY <2>1, TwoToFacts
<1> DEFINE Ok(s, d) == /\ IsSeq(s)
                       /\ \A x \in Range(s) : x[1] <= d /\ x[1] \in Int
                       /\ \A i, j \in 1..Len(s) : s[i] = s[j] => i = j
           T == {d \in 0..LeafDepth : Ok(u[d], d)}
<1>3. 0 \in T
  <2>1. IsSeq(<<<<0, 0>>>>) /\ Range(<<<<0, 0>>>>) = {<<0, 0>>} /\ Len(<<<<0, 0>>>>) = 1
    BY SeqSingle
  <2>2. <<0, 0>>[1] = 0
    OBVIOUS
  <2>3. Ok(<<<<0, 0>>>>, 0)
    <3> HIDE DEF Ok
    <3>1. PICK s : s = <<<<0, 0>>>>
      OBVIOUS
    <3>2. \A x \in Range(s) : x[1] <= 0 /\ x[1] \in Int
      BY <2>1, <2>2, <3>1
    <3>3. \A i, j \in 1..Len(s) : i = j
      BY <2>1, <3>1
    <3>4. Ok(s, 0)
      BY <2>1, <3>1, <3>2, <3>3 DEF Ok
    <3> QED
      BY <3>1, <3>4
  <2>4. 0 \in 0..LeafDepth /\ u[0] = <<<<0, 0>>>>
    BY <1>1
  <2> HIDE DEF Ok
  <2> QED
    BY <2>3, <2>4
<1>4. ASSUME NEW d \in 1..LeafDepth, d - 1 \in T PROVE d \in T
  <2>1. PICK s : s = u[d - 1]
    OBVIOUS
  <2>2. PICK t : t = [k \in 1..TwoTo[d] |-> <<d, k - 1>>]
    OBVIOUS
  <2>3. Ok(s, d - 1) /\ u[d] = s \o t
    BY <1>1, <1>4, <2>1, <2>2
  <2>4. \A k \in 1..TwoTo[d] : t[k] = <<d, k - 1>> /\ t[k][1] = d /\ t[k][2] = k - 1
    BY <2>2
  <2>5. IsSeq(t) /\ Len(t) = TwoTo[d] /\ Range(t) = {t[k] : k \in 1..TwoTo[d]}
    <3>1. TwoTo[d] \in Nat /\ t = [k \in 1..TwoTo[d] |-> t[k]]
      BY <1>2, <2>2
    <3> QED
      BY <3>1, SeqFunction
  <2>6. \A x \in Range(t) : x[1] = d
    BY <2>4, <2>5
  <2>7. \A i, j \in 1..Len(t) : t[i] = t[j] => i = j
    <3> SUFFICES ASSUME NEW i \in 1..Len(t), NEW j \in 1..Len(t), t[i] = t[j] PROVE i = j
      OBVIOUS
    <3>1. t[i][2] = i - 1 /\ t[j][2] = j - 1 /\ TwoTo[d] \in Nat
      BY <1>2, <2>4, <2>5
    <3>2. i - 1 = j - 1
      BY <3>1
    <3> QED
      BY <2>5, <3>1, <3>2
  <2>8. PICK r : r = s \o t
    OBVIOUS
  <2>9. /\ IsSeq(r) /\ Range(r) = Range(s) \cup Range(t) /\ Len(r) = Len(s) + Len(t)
        /\ \A i \in 1..Len(s) : r[i] = s[i]
        /\ \A i \in 1..Len(t) : r[Len(s) + i] = t[i]
    BY <2>3, <2>5, <2>8, SeqConcat
  <2>10. /\ Len(s) \in Nat /\ Len(t) \in Nat
         /\ \A i \in 1..Len(s) : s[i] \in Range(s)
         /\ \A i \in 1..Len(t) : t[i] \in Range(t)
    BY <2>3, <2>5, SeqShape
  <2>11. \A x \in Range(r) : x[1] <= d /\ x[1] \in Int
    BY <2>3, <2>6, <2>9
  <2>12. \A i, j \in 1..Len(r) : r[i] = r[j] => i = j
    <3> SUFFICES ASSUME NEW i \in 1..Len(r), NEW j \in 1..Len(r), r[i] = r[j] PROVE i = j
      OBVIOUS
    <3>1. \A k \in 1..Len(r) : k \in 1..Len(s) \/ (k - Len(s) \in 1..Len(t) /\ k = Len(s) + (k - Len(s)))
      BY <2>9, <2>10
    <3>2. \A k \in 1..Len(s) : r[k] = s[k] /\ r[k][1] # d
      <4>1. \A k \in 1..Len(s) : s[k][1] <= d - 1 /\ s[k][1] \in Int
        BY <2>3, <2>10
      <4>2. \A k \in 1..Len(s) : s[k][1] # d
        BY <4>1
      <4> QED
        BY <2>9, <4>2
    <3>3. \A k \in 1..Len(t) : r[Len(s) + k] = t[k] /\ r[Len(s) + k][1] = d
      BY <2>6, <2>9, <2>10
    <3>4. CASE i \in 1..Len(s) /\ j \in 1..Len(s)
      BY <2>3, <3>2, <3>4
    <3>5. CASE i \notin 1..Len(s) /\ j \notin 1..Len(s)
      <4>1. i - Len(s) \in 1..Len(t) /\ j - Len(s) \in 1..Len(t)
        BY <3>1, <3>5
      <4>2. i = Len(s) + (i - Len(s)) /\ j = Len(s) + (j - Len(s))
        BY <3>1, <3>5
      <4>3. t[i - Len(s)] = t[j - Len(s)]
        BY <3>3, <4>1, <4>2
      <4>4. i - Len(s) = j - Len(s)
        BY <2>7, <4>1, <4>3
      <4> QED
        BY <4>2, <4>4
    <3>8. \A k \in 1..Len(r) : k \notin 1..Len(s) => r[k][1] = d
      <4> SUFFICES ASSUME NEW k \in 1..Len(r), k \notin 1..Len(s) PROVE r[k][1] = d
        OBVIOUS
      <4>1. PICK l : l = k - Len(s)
        OBVIOUS
      <4>2. l \in 1..Len(t) /\ k = Len(s) + l
        BY <3>1, <4>1
      <4> QED
        BY <3>3, <4>2
    <3>6. CASE i \in 1..Len(s) /\ j \notin 1..Len(s)
      <4>1. r[i][1] # d /\ r[j][1] = d
        BY <3>2, <3>6, <3>8
      <4> QED
        BY <4>1
    <3>7. CASE i \notin 1..Len(s) /\ j \in 1..Len(s)
      <4>1. r[j][1] # d /\ r[i][1] = d
        BY <3>2, <3>7, <3>8
      <4> QED
        BY <4>1
    <3> QED
      BY <3>4, <3>5, <3>6, <3>7
  <2>13. Ok(r, d)
    BY <2>9, <2>11, <2>12
  <2>14. d \in 0..LeafDepth /\ u[d] = r
    BY <1>1, <2>3, <2>8
  <2> HIDE DEF Ok
  <2> QED
    BY <2>13, <2>14
<1>5. LeafDepth \in T
  <2> HIDE DEF T
  <2>1. LeafDepth \in 0..LeafDepth
    BY <1>1
  <2> QED
    BY <1>1, <1>3, <1>4, <2>1, UpTo
<1> QED
  BY <1>1, <1>5

\* A breadth-first list of a set of swept nodes names each once.
LEMMA BreadthFirstOnce ==
  ASSUME NEW S
  PROVE  /\ IsSeq(BreadthFirst(S)) /\ Len(BreadthFirst(S)) \in Nat
         /\ \A i \in 1..Len(BreadthFirst(S)) : BreadthFirst(S)[i] \in S
         /\ \A i, j \in 1..Len(BreadthFirst(S)) : i # j => BreadthFirst(S)[i] # BreadthFirst(S)[j]
<1>1. IsSeq(BreadthFirst(S)) /\ Range(BreadthFirst(S)) \subseteq S
  BY BreadthFirstFacts
<1>2. \A i, j \in 1..Len(BreadthFirst(S)) : BreadthFirst(S)[i] = BreadthFirst(S)[j] => i = j
  BY NodesInOrderOnce, NodesInOrderSeq, KeptFacts DEF BreadthFirst
<1> QED
  BY <1>1, <1>2, SeqShape

\* What a sweep frees does not overlap, and is apart from what it finds blocked.
LEMMA SweptApart ==
  ASSUME NEW sc
  PROVE  /\ \A m, n \in FreeNodes(sc) : m # n => Disjoint(m, n)
         /\ \A m, n \in CollisionNodes(sc) : m # n => Disjoint(m, n)
         /\ \A m \in FreeNodes(sc), n \in CollisionNodes(sc) : Disjoint(m, n)
<1>1. \A m \in Node : m[1] \in Int
  BY DepthAssumption, NodeParts
<1>2. \A m, n \in Node : Disjoint(m, n) <=> Disjoint(n, m)
  BY DEF Disjoint
<1>3. \A m, n \in Node : Disjoint(m, n) \/ CellsOf(m) \subseteq CellsOf(n) \/ CellsOf(n) \subseteq CellsOf(m)
  <2> TAKE m, n \in Node
  <2>1. CASE n[1] <= m[1]
    BY <2>1, Laminar
  <2>2. CASE ~(n[1] <= m[1])
    <3>1. m[1] <= n[1]
      BY <1>1, <2>2
    <3>2. Disjoint(n, m) \/ CellsOf(n) \subseteq CellsOf(m)
      BY <3>1, Laminar
    <3> QED
      BY <1>2, <3>2
  <2> QED
    BY <2>1, <2>2
<1>4. \A m, n \in FreeNodes(sc) : m # n => Disjoint(m, n)
  <2> SUFFICES ASSUME NEW m \in FreeNodes(sc), NEW n \in FreeNodes(sc), m # n PROVE Disjoint(m, n)
    OBVIOUS
  <2>1. m \in Swept /\ n \in Swept /\ m \in Node /\ n \in Node /\ NodeFree(m, sc) /\ NodeFree(n, sc)
    BY DEF FreeNodes, Swept
  <2>2. ~(CellsOf(m) \subseteq CellsOf(n)) /\ ~(CellsOf(n) \subseteq CellsOf(m))
    BY <2>1 DEF FreeNodes
  <2> QED
    BY <1>3, <2>1, <2>2
<1>5. \A m, n \in CollisionNodes(sc) : m # n => Disjoint(m, n)
  <2> SUFFICES ASSUME NEW m \in CollisionNodes(sc), NEW n \in CollisionNodes(sc), m # n
               PROVE  Disjoint(m, n)
    OBVIOUS
  <2>1. m \in Node /\ n \in Node /\ m[1] = n[1]
    BY DEF CollisionNodes, Swept
  <2> QED
    BY <2>1, SameDepthApart
<1>6. \A m \in FreeNodes(sc), n \in CollisionNodes(sc) : Disjoint(m, n)
  <2> SUFFICES ASSUME NEW m \in FreeNodes(sc), NEW n \in CollisionNodes(sc) PROVE Disjoint(m, n)
    OBVIOUS
  <2>1. m \in Node /\ n \in Node /\ m[1] <= LeafDepth /\ n[1] = LeafDepth /\ NodeFree(m, sc) /\ ~NodeFree(n, sc)
    BY DEF FreeNodes, CollisionNodes, Swept
  <2>2. Disjoint(n, m) \/ CellsOf(n) \subseteq CellsOf(m)
    BY <2>1, Laminar
  <2>3. ~(CellsOf(n) \subseteq CellsOf(m))
    BY <2>1 DEF NodeFree
  <2> QED
    BY <1>2, <2>1, <2>2, <2>3
<1> QED
  BY <1>4, <1>5, <1>6

-----------------------------------------------------------------------------
(* The cells a forest holds, in a box or in a blamed leaf. *)
BlamedAt(cache) == {p \in 1..Len(cache) : Blamed(cache[p])}
BoxCells(bs) == UNION {CellsOf(bs[i].node) : i \in 1..Len(bs)}
LeafCells(cache) == UNION {CellsOf(cache[p].node) : p \in BlamedAt(cache)}
Held(bs, cache) == BoxCells(bs) \cup LeafCells(cache)

\* No cell is held twice.
HeldApart(bs, cache) ==
  /\ \A i, j \in 1..Len(bs) : i # j => Disjoint(bs[i].node, bs[j].node)
  /\ \A p, q \in 1..Len(cache) :
       p # q /\ Blamed(cache[p]) /\ Blamed(cache[q]) => Disjoint(cache[p].node, cache[q].node)
  /\ \A i \in 1..Len(bs), p \in 1..Len(cache) :
       Blamed(cache[p]) => Disjoint(bs[i].node, cache[p].node)

\* The reservations are those of the boxes.
ReservesAll(res, bs) ==
  /\ DOMAIN res = {bs[i].node : i \in 1..Len(bs)}
  /\ \A i \in 1..Len(bs) : res[bs[i].node] = bs[i].id

\* The index lists a cached leaf under each of its blockers.
Listed(cache, index) ==
  \A p \in 1..Len(cache) : \A i \in cache[p].blockers : \E k \in 1..Len(index[i]) : index[i][k] = p

\* The books of a forest whose cached leaves are all among E.
Book(f, E) ==
  /\ HeldApart(f.boxes, f.cache) /\ ReservesAll(f.res, f.boxes) /\ Listed(f.cache, f.index)
  /\ \A p \in 1..Len(f.cache) : f.cache[p] \in E

\* A held cell is in a box or in a blamed leaf.
LEMMA HeldCell ==
  ASSUME NEW bs, NEW cache, NEW c
  PROVE  c \in Held(bs, cache)
           <=> \/ \E i \in 1..Len(bs) : c \in CellsOf(bs[i].node)
               \/ \E p \in 1..Len(cache) : Blamed(cache[p]) /\ c \in CellsOf(cache[p].node)
<1>1. c \in BoxCells(bs) <=> \E i \in 1..Len(bs) : c \in CellsOf(bs[i].node)
  BY DEF BoxCells
<1>2. c \in LeafCells(cache) <=> \E p \in BlamedAt(cache) : c \in CellsOf(cache[p].node)
  BY DEF LeafCells
<1>3. (\E p \in BlamedAt(cache) : c \in CellsOf(cache[p].node))
        <=> \E p \in 1..Len(cache) : Blamed(cache[p]) /\ c \in CellsOf(cache[p].node)
  BY DEF BlamedAt
<1>4. c \in Held(bs, cache) <=> c \in BoxCells(bs) \/ c \in LeafCells(cache)
  BY DEF Held
<1> QED
  BY <1>1, <1>2, <1>3, <1>4

\* What is apart from all a forest holds is apart from each box and blamed leaf.
LEMMA ApartFromHeld ==
  ASSUME NEW bs, NEW cache, NEW n
  PROVE  CellsOf(n) \cap Held(bs, cache) = {}
           <=> /\ \A i \in 1..Len(bs) : Disjoint(n, bs[i].node)
               /\ \A p \in 1..Len(cache) : Blamed(cache[p]) => Disjoint(n, cache[p].node)
BY HeldCell DEF Disjoint

\* A box added where nothing is held keeps what is held apart.
LEMMA BoxAdded ==
  ASSUME NEW bs, NEW cache, NEW b, NEW cs, IsSeq(bs), HeldApart(bs, cache),
         CellsOf(b.node) \cap Held(bs, cache) = {}, cs = Append(bs, b)
  PROVE  HeldApart(cs, cache) /\ Held(cs, cache) = Held(bs, cache) \cup CellsOf(b.node)
<1>1. /\ Len(bs) \in Nat /\ Len(cs) = Len(bs) + 1
      /\ \A i \in 1..Len(bs) : cs[i] = bs[i]
      /\ cs[Len(bs) + 1] = b
  BY SeqAppend, SeqShape
<1>2. \A i : i \in 1..Len(cs) <=> i \in 1..Len(bs) \/ i = Len(bs) + 1
  BY <1>1
<1>3. /\ \A i \in 1..Len(bs) : Disjoint(b.node, bs[i].node)
      /\ \A p \in 1..Len(cache) : Blamed(cache[p]) => Disjoint(b.node, cache[p].node)
  BY ApartFromHeld
<1>4. \A m, n : Disjoint(m, n) <=> Disjoint(n, m)
  BY DEF Disjoint
<1>5. \A i, j \in 1..Len(cs) : i # j => Disjoint(cs[i].node, cs[j].node)
  <2> TAKE i, j \in 1..Len(cs)
  <2>1. CASE i \in 1..Len(bs) /\ j \in 1..Len(bs)
    BY <1>1, <2>1 DEF HeldApart
  <2>2. CASE i = Len(bs) + 1 /\ j \in 1..Len(bs)
    BY <1>1, <1>3, <2>2
  <2>3. CASE i \in 1..Len(bs) /\ j = Len(bs) + 1
    <3>1. Disjoint(cs[j].node, cs[i].node)
      BY <1>1, <1>3, <2>3
    <3> QED
      BY <1>4, <3>1
  <2> QED
    BY <1>2, <2>1, <2>2, <2>3
<1>6. \A i \in 1..Len(cs), p \in 1..Len(cache) :
        Blamed(cache[p]) => Disjoint(cs[i].node, cache[p].node)
  <2> TAKE i \in 1..Len(cs), p \in 1..Len(cache)
  <2>1. CASE i \in 1..Len(bs)
    BY <1>1, <2>1 DEF HeldApart
  <2>2. CASE i = Len(bs) + 1
    BY <1>1, <1>3, <2>2
  <2> QED
    BY <1>2, <2>1, <2>2
<1>7. HeldApart(cs, cache)
  BY <1>5, <1>6 DEF HeldApart
<1>8. \A c : (\E i \in 1..Len(cs) : c \in CellsOf(cs[i].node))
               <=> (\E i \in 1..Len(bs) : c \in CellsOf(bs[i].node)) \/ c \in CellsOf(b.node)
  BY <1>1, <1>2
<1>9. \A c : c \in Held(cs, cache) <=> c \in Held(bs, cache) \/ c \in CellsOf(b.node)
  BY <1>8, HeldCell
<1> QED
  BY <1>7, <1>9

\* A blamed leaf cached where nothing is held keeps what is held apart; one that
\* blames nothing changes nothing.
LEMMA LeafAdded ==
  ASSUME NEW bs, NEW cache, NEW e, NEW ds, IsSeq(cache), HeldApart(bs, cache),
         Blamed(e) => CellsOf(e.node) \cap Held(bs, cache) = {}, ds = Append(cache, e)
  PROVE  /\ HeldApart(bs, ds)
         /\ Held(bs, ds) = Held(bs, cache) \cup (IF Blamed(e) THEN CellsOf(e.node) ELSE {})
<1>1. /\ Len(cache) \in Nat /\ Len(ds) = Len(cache) + 1
      /\ \A p \in 1..Len(cache) : ds[p] = cache[p]
      /\ ds[Len(cache) + 1] = e
  BY SeqAppend, SeqShape
<1>2. \A p : p \in 1..Len(ds) <=> p \in 1..Len(cache) \/ p = Len(cache) + 1
  BY <1>1
<1>3. Blamed(e) => /\ \A i \in 1..Len(bs) : Disjoint(e.node, bs[i].node)
                   /\ \A p \in 1..Len(cache) : Blamed(cache[p]) => Disjoint(e.node, cache[p].node)
  BY ApartFromHeld
<1>4. \A m, n : Disjoint(m, n) <=> Disjoint(n, m)
  BY DEF Disjoint
<1>5. \A p, q \in 1..Len(ds) :
        p # q /\ Blamed(ds[p]) /\ Blamed(ds[q]) => Disjoint(ds[p].node, ds[q].node)
  <2> TAKE p, q \in 1..Len(ds)
  <2>1. CASE p \in 1..Len(cache) /\ q \in 1..Len(cache)
    BY <1>1, <2>1 DEF HeldApart
  <2>2. CASE p = Len(cache) + 1 /\ q \in 1..Len(cache)
    BY <1>1, <1>3, <2>2
  <2>3. CASE p \in 1..Len(cache) /\ q = Len(cache) + 1
    <3>1. Blamed(ds[p]) /\ Blamed(ds[q]) => Disjoint(ds[q].node, ds[p].node)
      BY <1>1, <1>3, <2>3
    <3> QED
      BY <1>4, <3>1
  <2> QED
    BY <1>2, <2>1, <2>2, <2>3
<1>6. \A i \in 1..Len(bs), p \in 1..Len(ds) :
        Blamed(ds[p]) => Disjoint(bs[i].node, ds[p].node)
  <2> TAKE i \in 1..Len(bs), p \in 1..Len(ds)
  <2>1. CASE p \in 1..Len(cache)
    BY <1>1, <2>1 DEF HeldApart
  <2>2. CASE p = Len(cache) + 1
    <3>1. Blamed(ds[p]) => Disjoint(ds[p].node, bs[i].node)
      BY <1>1, <1>3, <2>2
    <3> QED
      BY <1>4, <3>1
  <2> QED
    BY <1>2, <2>1, <2>2
<1>7. HeldApart(bs, ds)
  BY <1>5, <1>6 DEF HeldApart
<1>8. \A c : (\E p \in 1..Len(ds) : Blamed(ds[p]) /\ c \in CellsOf(ds[p].node))
               <=> \/ \E p \in 1..Len(cache) : Blamed(cache[p]) /\ c \in CellsOf(cache[p].node)
                   \/ Blamed(e) /\ c \in CellsOf(e.node)
  BY <1>1, <1>2
<1>9. \A c : c \in Held(bs, ds) <=> c \in Held(bs, cache) \/ (Blamed(e) /\ c \in CellsOf(e.node))
  BY <1>8, HeldCell
<1> QED
  BY <1>7, <1>9

\* A cached leaf that is rewritten in place, and not to blame more, holds no new cell;
\* one that stops blaming gives its cells up.
LEMMA LeafRewritten ==
  ASSUME NEW bs, NEW cache, NEW ds, NEW p \in 1..Len(cache), Len(ds) = Len(cache),
         \A q \in 1..Len(cache) : q # p => ds[q] = cache[q],
         ds[p].node = cache[p].node, Blamed(ds[p]) => Blamed(cache[p]), HeldApart(bs, cache)
  PROVE  /\ HeldApart(bs, ds)
         /\ Blamed(cache[p]) /\ ~Blamed(ds[p]) => CellsOf(cache[p].node) \cap Held(bs, ds) = {}
<1>1. \A q \in 1..Len(ds) : /\ ds[q].node = cache[q].node
                            /\ Blamed(ds[q]) => Blamed(cache[q])
  <2> TAKE q \in 1..Len(ds)
  <2>1. CASE q = p
    BY <2>1
  <2>2. CASE q # p
    BY <2>2
  <2> QED
    BY <2>1, <2>2
<1>2. HeldApart(bs, ds)
  BY <1>1 DEF HeldApart
<1>3. ASSUME Blamed(cache[p]), ~Blamed(ds[p]) PROVE CellsOf(cache[p].node) \cap Held(bs, ds) = {}
  <2>1. \A m, n : Disjoint(m, n) <=> Disjoint(n, m)
    BY DEF Disjoint
  <2>2. \A i \in 1..Len(bs) : Disjoint(bs[i].node, cache[p].node)
    BY <1>3 DEF HeldApart
  <2>3. \A q \in 1..Len(ds) : Blamed(ds[q]) => Disjoint(cache[p].node, ds[q].node)
    <3> SUFFICES ASSUME NEW q \in 1..Len(ds), Blamed(ds[q])
                 PROVE  Disjoint(cache[p].node, ds[q].node)
      OBVIOUS
    <3>1. q # p
      BY <1>3
    <3>2. Disjoint(cache[p].node, cache[q].node)
      BY <1>1, <1>3, <3>1 DEF HeldApart
    <3> QED
      BY <1>1, <3>2
  <2> QED
    BY <2>1, <2>2, <2>3, ApartFromHeld
<1> QED
  BY <1>2, <1>3

-----------------------------------------------------------------------------
(* One box more, one cached leaf more. *)

\* The reservation of a committed box.
LEMMA CommitReserves ==
  ASSUME NEW f \in Forests, NEW n \in Node
  PROVE  CommitBox(f, n).res = [m \in DOMAIN f.res \cup {n} |-> IF m = n THEN f.nextId ELSE f.res[m]]
<1> DEFINE b == [id |-> f.nextId, node |-> n]
           r == [m \in DOMAIN f.res \cup {n} |-> IF m = n THEN f.nextId ELSE f.res[m]]
<1>1. f = [boxes |-> f.boxes, res |-> f.res, cache |-> f.cache, index |-> f.index,
           count |-> f.count, nextId |-> f.nextId]
  BY ForestParts
<1>2. CommitBox(f, n) = [f EXCEPT !.boxes = Append(f.boxes, b), !.res = r, !.nextId = f.nextId + 1]
  BY DEF CommitBox
<1> HIDE DEF b, r
<1>3. CommitBox(f, n) = [boxes |-> Append(f.boxes, b), res |-> r, cache |-> f.cache,
                         index |-> f.index, count |-> f.count, nextId |-> f.nextId + 1]
  BY <1>1, <1>2
<1>4. CommitBox(f, n).res = r
  BY <1>3
<1> QED
  BY <1>4 DEF r

\* The parts of a forest as sequences, and the nodes of its boxes.
LEMMA ForestShape ==
  ASSUME NEW f \in Forests
  PROVE  /\ IsSeq(f.boxes) /\ IsSeq(f.cache) /\ Len(f.boxes) \in Nat /\ Len(f.cache) \in Nat
         /\ \A i \in 1..Len(f.boxes) : f.boxes[i].node \in Node /\ f.boxes[i].id \in Nat
         /\ \A p \in 1..Len(f.cache) : f.cache[p] \in CachedBoxes /\ f.cache[p].node \in Node
         /\ f.index \in Indices
<1>1. f.boxes \in Seq(BoxNodes) /\ f.cache \in Seq(CachedBoxes) /\ f.index \in Indices
  BY ForestParts
<1>2. \A i \in 1..Len(f.boxes) : f.boxes[i] \in BoxNodes
  BY <1>1, ElementOfSeq
<1>3. \A p \in 1..Len(f.cache) : f.cache[p] \in CachedBoxes
  BY <1>1, ElementOfSeq
<1>4. IsSeq(f.boxes) /\ IsSeq(f.cache) /\ Len(f.boxes) \in Nat /\ Len(f.cache) \in Nat
  BY <1>1, SeqTyped, LenProperties
<1>5. \A b \in BoxNodes : b.node \in Node /\ b.id \in Nat
  BY DEF BoxNodes
<1>6. \A e \in CachedBoxes : e.node \in Node
  BY DEF CachedBoxes
<1> QED
  BY <1>1, <1>2, <1>3, <1>4, <1>5, <1>6

\* A box added for a node that no reservation names is reserved like the others.
LEMMA OneMoreReserved ==
  ASSUME NEW bs, NEW res, NEW b, NEW cs, NEW r, IsSeq(bs), ReservesAll(res, bs),
         \A i \in 1..Len(bs) : bs[i].node # b.node, cs = Append(bs, b),
         r = [m \in DOMAIN res \cup {b.node} |-> IF m = b.node THEN b.id ELSE res[m]]
  PROVE  ReservesAll(r, cs)
<1>1. /\ Len(bs) \in Nat /\ Len(cs) = Len(bs) + 1
      /\ \A i \in 1..Len(bs) : cs[i] = bs[i]
      /\ cs[Len(bs) + 1] = b
  BY SeqAppend, SeqShape
<1>2. \A i : i \in 1..Len(cs) <=> i \in 1..Len(bs) \/ i = Len(bs) + 1
  BY <1>1
<1>3. DOMAIN res = {bs[i].node : i \in 1..Len(bs)}
  BY DEF ReservesAll
<1>4. \A m : m \in {cs[i].node : i \in 1..Len(cs)} <=> m \in DOMAIN res \/ m = b.node
  <2>1. \A m : (\E i \in 1..Len(cs) : m = cs[i].node)
                 <=> (\E i \in 1..Len(bs) : m = bs[i].node) \/ m = b.node
    BY <1>1, <1>2
  <2> QED
    BY <1>3, <2>1
<1>5. DOMAIN r = {cs[i].node : i \in 1..Len(cs)}
  BY <1>4
<1>6. ASSUME NEW i \in 1..Len(cs) PROVE r[cs[i].node] = cs[i].id
  <2>1. CASE i = Len(bs) + 1
    BY <1>1, <2>1
  <2>2. CASE i \in 1..Len(bs)
    <3>1. bs[i].node \in DOMAIN res /\ bs[i].node # b.node /\ res[bs[i].node] = bs[i].id
      BY <1>3, <2>2 DEF ReservesAll
    <3> QED
      BY <1>1, <2>2, <3>1
  <2> QED
    BY <1>2, <2>1, <2>2
<1> QED
  BY <1>5, <1>6 DEF ReservesAll

\* A box committed where neither a box nor a leaf blamed in cache holds anything.
LEMMA CommitApart ==
  ASSUME NEW f \in Forests, NEW n \in Node, NEW cache,
         HeldApart(f.boxes, cache), ReservesAll(f.res, f.boxes),
         CellsOf(n) \cap Held(f.boxes, cache) = {},
         NEW g, g.boxes = CommitBox(f, n).boxes, g.res = CommitBox(f, n).res
  PROVE  /\ HeldApart(g.boxes, cache) /\ ReservesAll(g.res, g.boxes)
         /\ Held(g.boxes, cache) = Held(f.boxes, cache) \cup CellsOf(n)
<1>0. PICK b : b = [id |-> f.nextId, node |-> n]
  OBVIOUS
<1>1. b.node = n /\ b.id = f.nextId
  BY <1>0
<1>2. g.boxes = Append(f.boxes, b)
  BY <1>0, CommitBoxKeeps DEF IsCommit
<1>3. IsSeq(f.boxes) /\ \A i \in 1..Len(f.boxes) : f.boxes[i].node \in Node
  BY ForestShape
<1>4. PICK bs, cs, res, r : bs = f.boxes /\ cs = g.boxes /\ res = f.res /\ r = g.res
  OBVIOUS
<1>5. /\ HeldApart(cs, cache)
      /\ Held(cs, cache) = Held(bs, cache) \cup CellsOf(n)
  <2>1. /\ IsSeq(bs) /\ HeldApart(bs, cache) /\ cs = Append(bs, b)
        /\ CellsOf(b.node) \cap Held(bs, cache) = {}
    BY <1>1, <1>2, <1>3, <1>4
  <2>2. /\ HeldApart(cs, cache)
        /\ Held(cs, cache) = Held(bs, cache) \cup CellsOf(b.node)
    BY <2>1, BoxAdded
  <2> QED
    BY <1>1, <2>2
<1>6. ReservesAll(r, cs)
  <2>1. g.res = [m \in DOMAIN f.res \cup {b.node} |-> IF m = b.node THEN b.id ELSE f.res[m]]
    BY <1>1, CommitReserves
  <2>2. \A i \in 1..Len(f.boxes) : f.boxes[i].node # b.node
    <3>1. \A i \in 1..Len(bs) : Disjoint(n, bs[i].node)
      BY <1>4, ApartFromHeld
    <3>2. CellsOf(n) # {}
      BY CellsNonEmpty
    <3> QED
      BY <1>1, <1>4, <3>1, <3>2 DEF Disjoint
  <2>3. /\ IsSeq(bs) /\ ReservesAll(res, bs) /\ cs = Append(bs, b)
        /\ \A i \in 1..Len(bs) : bs[i].node # b.node
        /\ r = [m \in DOMAIN res \cup {b.node} |-> IF m = b.node THEN b.id ELSE res[m]]
    BY <1>2, <1>3, <1>4, <2>1, <2>2
  <2> QED
    BY <2>3, OneMoreReserved
<1> QED
  BY <1>4, <1>5, <1>6

\* A box committed where nothing is held keeps the books, and holds its node.
LEMMA CommitBook ==
  ASSUME NEW E, NEW f \in Forests, Book(f, E), NEW n \in Node,
         CellsOf(n) \cap Held(f.boxes, f.cache) = {},
         NEW g, g = CommitBox(f, n)
  PROVE  /\ Book(g, E) /\ g.cache = f.cache
         /\ Held(g.boxes, g.cache) = Held(f.boxes, f.cache) \cup CellsOf(n)
<1>1. g.cache = f.cache /\ g.index = f.index
  BY CommitBoxKeeps DEF IsCommit
<1>2. PICK cache : cache = f.cache
  OBVIOUS
<1>3. /\ HeldApart(f.boxes, cache) /\ ReservesAll(f.res, f.boxes)
      /\ CellsOf(n) \cap Held(f.boxes, cache) = {}
      /\ g.boxes = CommitBox(f, n).boxes /\ g.res = CommitBox(f, n).res
  BY <1>2 DEF Book
<1>4. /\ HeldApart(g.boxes, cache) /\ ReservesAll(g.res, g.boxes)
      /\ Held(g.boxes, cache) = Held(f.boxes, cache) \cup CellsOf(n)
  BY <1>3, CommitApart
<1> QED
  BY <1>1, <1>2, <1>4 DEF Book

\* What add_dynamic_collision_box changes.
LEMMA AddCachedParts ==
  ASSUME NEW f \in Forests, NEW n, NEW blockers, blockers # {},
         NEW g, g = AddCached(f, n, blockers)
  PROVE  /\ g.boxes = f.boxes /\ g.res = f.res
         /\ g.cache = Append(f.cache, [node |-> n, blockers |-> blockers, active |-> TRUE])
         /\ g.index = [i \in DOMAIN f.index |-> IF i \in blockers
                         THEN Append(f.index[i], Len(f.cache) + 1) ELSE f.index[i]]
<1> DEFINE ds == Append(f.cache, [node |-> n, blockers |-> blockers, active |-> TRUE])
           idx == [i \in DOMAIN f.index |-> IF i \in blockers
                     THEN Append(f.index[i], Len(f.cache) + 1) ELSE f.index[i]]
<1>1. f = [boxes |-> f.boxes, res |-> f.res, cache |-> f.cache, index |-> f.index,
           count |-> f.count, nextId |-> f.nextId]
  BY ForestParts
<1>2. g = [f EXCEPT !.cache = ds, !.index = idx, !.count = f.count + 1]
  BY DEF AddCached
<1> HIDE DEF ds, idx
<1>3. g = [boxes |-> f.boxes, res |-> f.res, cache |-> ds, index |-> idx,
           count |-> f.count + 1, nextId |-> f.nextId]
  BY <1>1, <1>2
<1>4. g.boxes = f.boxes /\ g.res = f.res /\ g.cache = ds /\ g.index = idx
  BY <1>3
<1> QED
  BY <1>4 DEF ds, idx

\* A leaf appended to the cache, and to the list of each of its blockers.
LEMMA OneMoreListed ==
  ASSUME NEW cache, NEW index, NEW e, NEW ds, NEW idx, IsSeq(cache),
         index \in Indices, Listed(cache, index),
         \A p \in 1..Len(cache) : cache[p].blockers \subseteq 0..(MaxScene - 1),
         e.blockers \subseteq 0..(MaxScene - 1), ds = Append(cache, e),
         idx = [i \in DOMAIN index |-> IF i \in e.blockers
                  THEN Append(index[i], Len(cache) + 1) ELSE index[i]]
  PROVE  Listed(ds, idx)
<1>1. /\ Len(cache) \in Nat /\ Len(ds) = Len(cache) + 1
      /\ \A p \in 1..Len(cache) : ds[p] = cache[p]
      /\ ds[Len(cache) + 1] = e
  BY SeqAppend, SeqShape
<1>2. \A p \in 1..Len(ds) : p \in 1..Len(cache) \/ p = Len(cache) + 1
  BY <1>1
<1>3. DOMAIN index = 0..(MaxScene - 1) /\ \A i \in 0..(MaxScene - 1) : IsSeq(index[i])
  BY SeqTyped DEF Indices
<1>4. ASSUME NEW p \in 1..Len(ds), NEW i \in ds[p].blockers
      PROVE  \E k \in 1..Len(idx[i]) : idx[i][k] = p
  <2>1. i \in 0..(MaxScene - 1)
    BY <1>1, <1>2
  <2>2. PICK s : s = index[i]
    OBVIOUS
  <2>3. IsSeq(s) /\ idx[i] = IF i \in e.blockers THEN Append(s, Len(cache) + 1) ELSE s
    BY <1>3, <2>1, <2>2
  <2>4. /\ Len(s) \in Nat /\ Len(Append(s, Len(cache) + 1)) = Len(s) + 1
        /\ \A k \in 1..Len(s) : Append(s, Len(cache) + 1)[k] = s[k]
        /\ Append(s, Len(cache) + 1)[Len(s) + 1] = Len(cache) + 1
    BY <2>3, SeqAppend, SeqShape
  <2>5. CASE p \in 1..Len(cache)
    <3>1. i \in cache[p].blockers
      BY <1>1, <2>5
    <3>2. PICK k \in 1..Len(s) : s[k] = p
      BY <2>2, <2>5, <3>1 DEF Listed
    <3>3. CASE i \in e.blockers
      <4>1. PICK t : t = idx[i]
        OBVIOUS
      <4>2. Len(t) = Len(s) + 1 /\ t[k] = p
        BY <2>3, <2>4, <3>2, <3>3, <4>1
      <4>3. k \in 1..Len(t)
        BY <2>4, <4>2
      <4> QED
        BY <4>1, <4>2, <4>3
    <3>4. CASE i \notin e.blockers
      BY <2>3, <3>2, <3>4
    <3> QED
      BY <3>3, <3>4
  <2>6. CASE p = Len(cache) + 1
    <3>1. i \in e.blockers
      BY <1>1, <2>6
    <3>2. PICK t : t = idx[i]
      OBVIOUS
    <3>3. Len(t) = Len(s) + 1 /\ t[Len(s) + 1] = p
      BY <2>3, <2>4, <2>6, <3>1, <3>2
    <3>4. Len(s) + 1 \in 1..Len(t)
      BY <2>4, <3>3
    <3> QED
      BY <3>2, <3>3, <3>4
  <2> QED
    BY <1>2, <2>5, <2>6
<1> QED
  BY <1>4 DEF Listed

\* A leaf cached where nothing is held keeps the books, and holds its cells.
LEMMA CachedBook ==
  ASSUME NEW E, NEW f \in Forests, Book(f, E), NEW n \in Node,
         NEW blockers \in SUBSET (0..(MaxScene - 1)), blockers # {},
         [node |-> n, blockers |-> blockers, active |-> TRUE] \in E,
         CellsOf(n) \cap Held(f.boxes, f.cache) = {},
         NEW g, g = AddCached(f, n, blockers)
  PROVE  /\ Book(g, E) /\ g.boxes = f.boxes
         /\ Held(g.boxes, g.cache) = Held(f.boxes, f.cache) \cup CellsOf(n)
<1>1. PICK e : e = [node |-> n, blockers |-> blockers, active |-> TRUE]
  OBVIOUS
<1>2. e.node = n /\ e.blockers = blockers /\ e.active /\ e \in E /\ Blamed(e)
  BY <1>1 DEF Blamed
<1>3. /\ g.boxes = f.boxes /\ g.res = f.res /\ g.cache = Append(f.cache, e)
      /\ g.index = [i \in DOMAIN f.index |-> IF i \in e.blockers
                      THEN Append(f.index[i], Len(f.cache) + 1) ELSE f.index[i]]
  BY <1>1, <1>2, AddCachedParts
<1>4. /\ IsSeq(f.cache) /\ f.index \in Indices
      /\ \A p \in 1..Len(f.cache) : f.cache[p].blockers \subseteq 0..(MaxScene - 1)
  <2>1. \A x \in CachedBoxes : x.blockers \subseteq 0..(MaxScene - 1)
    BY DEF CachedBoxes
  <2> QED
    BY <2>1, ForestShape
<1>5. PICK ds : ds = g.cache
  OBVIOUS
<1>6. /\ HeldApart(f.boxes, ds)
      /\ Held(f.boxes, ds) = Held(f.boxes, f.cache) \cup CellsOf(n)
  <2>1. HeldApart(f.boxes, f.cache) /\ CellsOf(e.node) \cap Held(f.boxes, f.cache) = {}
    BY <1>2 DEF Book
  <2>2. ds = Append(f.cache, e)
    BY <1>3, <1>5
  <2>3. /\ HeldApart(f.boxes, ds)
        /\ Held(f.boxes, ds)
             = Held(f.boxes, f.cache) \cup (IF Blamed(e) THEN CellsOf(e.node) ELSE {})
    BY <1>4, <2>1, <2>2, LeafAdded
  <2> QED
    BY <1>2, <2>3
<1>7. Listed(ds, g.index)
  <2>1. PICK index, idx : index = f.index /\ idx = g.index
    OBVIOUS
  <2>2. Listed(f.cache, index)
    BY <2>1 DEF Book
  <2>3. Listed(ds, idx)
    BY <1>2, <1>3, <1>4, <1>5, <2>1, <2>2, OneMoreListed, ZenonT(60)
  <2> QED
    BY <2>1, <2>3
<1>8. \A p \in 1..Len(ds) : ds[p] \in E
  <2>1. /\ Len(f.cache) \in Nat /\ Len(ds) = Len(f.cache) + 1
        /\ \A p \in 1..Len(f.cache) : ds[p] = f.cache[p]
        /\ ds[Len(f.cache) + 1] = e
    BY <1>3, <1>4, <1>5, SeqAppend, SeqShape
  <2>2. \A p \in 1..Len(f.cache) : f.cache[p] \in E
    BY DEF Book
  <2>3. \A p \in 1..Len(ds) : p \in 1..Len(f.cache) \/ p = Len(f.cache) + 1
    BY <2>1
  <2> QED
    BY <1>2, <2>1, <2>2, <2>3
<1>9. ReservesAll(g.res, g.boxes)
  BY <1>3 DEF Book
<1> QED
  BY <1>3, <1>5, <1>6, <1>7, <1>8, <1>9 DEF Book

\* Rebuilding the index lists every blamed leaf of a cache in which only active
\* leaves have blockers.
LEMMA RebuildBook ==
  ASSUME NEW E, NEW f \in Forests, NEW g, g = RebuildIndex(f),
         HeldApart(f.boxes, f.cache), ReservesAll(f.res, f.boxes),
         \A p \in 1..Len(f.cache) : f.cache[p] \in E,
         \A e \in E : ~e.active => e.blockers = {}
  PROVE  Book(g, E)
<1> DEFINE positions == [p \in 1..Len(f.cache) |-> p]
           Where(i) == {p \in BlamedIn(f.cache) : i \in f.cache[p].blockers}
           idx == [i \in DOMAIN f.index |-> Kept(positions, Where(i))]
<1>1. g.boxes = f.boxes /\ g.res = f.res /\ g.cache = f.cache
  BY RebuildIndexKeeps
<1>2. g.index = idx
  <2> DEFINE c == Cardinality(BlamedIn(f.cache))
  <2>1. f = [boxes |-> f.boxes, res |-> f.res, cache |-> f.cache, index |-> f.index,
             count |-> f.count, nextId |-> f.nextId]
    BY ForestParts
  <2>2. g = [f EXCEPT !.index = idx, !.count = c]
    BY DEF RebuildIndex, BlamedIn
  <2> HIDE DEF idx, c
  <2>3. g = [boxes |-> f.boxes, res |-> f.res, cache |-> f.cache, index |-> idx,
             count |-> c, nextId |-> f.nextId]
    BY <2>1, <2>2
  <2> QED
    BY <2>3
<1>3. IsSeq(f.cache) /\ Len(f.cache) \in Nat /\ DOMAIN f.cache = 1..Len(f.cache)
  BY ForestShape, SeqShape
<1>4. IsSeq(positions) /\ Range(positions) = 1..Len(f.cache)
  <2>1. IsSeq(positions) /\ Range(positions) = {positions[k] : k \in 1..Len(f.cache)}
    <3>1. positions = [k \in 1..Len(f.cache) |-> positions[k]]
      OBVIOUS
    <3> HIDE DEF positions
    <3> QED
      BY <1>3, <3>1, SeqFunction
  <2> QED
    BY <2>1
<1> HIDE DEF positions
<1>5. ASSUME NEW p \in 1..Len(g.cache), NEW i \in g.cache[p].blockers
      PROVE  \E k \in 1..Len(g.index[i]) : g.index[i][k] = p
  <2>1. p \in 1..Len(f.cache) /\ i \in f.cache[p].blockers
    BY <1>1, <1>5
  <2>2. i \in 0..(MaxScene - 1) /\ DOMAIN f.index = 0..(MaxScene - 1)
    <3>1. \A x \in CachedBoxes : x.blockers \subseteq 0..(MaxScene - 1)
      BY DEF CachedBoxes
    <3> QED
      BY <2>1, <3>1, ForestShape DEF Indices
  <2>3. p \in Where(i)
    <3>1. f.cache[p] \in E
      BY <2>1
    <3>2. Blamed(f.cache[p])
      BY <2>1, <3>1 DEF Blamed
    <3> QED
      BY <1>3, <2>1, <3>2 DEF BlamedIn
  <2> HIDE DEF Where
  <2>4. PICK s : s = Kept(positions, Where(i))
    OBVIOUS
  <2>5. g.index[i] = s
    BY <1>2, <2>2, <2>4
  <2>6. IsSeq(s) /\ Range(s) = Range(positions) \cap Where(i)
    BY <1>4, <2>4, KeptFacts
  <2>7. p \in Range(s)
    BY <1>4, <2>1, <2>3, <2>6
  <2> QED
    BY <2>5, <2>6, <2>7, SeqShape
<1>6. Listed(g.cache, g.index)
  BY <1>5 DEF Listed
<1> HIDE DEF idx
<1> QED
  BY <1>1, <1>6 DEF Book

-----------------------------------------------------------------------------
(* Refilling removed boxes. *)

\* A leaf of a refill where nothing is held becomes a box or a cached leaf.
LEMMA RefillLeafBook ==
  ASSUME NEW bs, NEW sc, NEW f \in Grown(bs, sc), NEW n \in Node, NEW blamed \in 0..(MaxScene - 1),
         NEW E, Book(f, E), CellsOf(n) \cap Held(f.boxes, f.cache) = {},
         [node |-> n, blockers |-> {blamed}, active |-> TRUE] \in E,
         NEW g, g = RefillLeaf(f, n, sc, blamed)
  PROVE  Book(g, E) /\ Held(g.boxes, g.cache) = Held(f.boxes, f.cache) \cup CellsOf(n)
<1>1. f \in Forests
  BY DEF Grown
<1>2. ~ContainedIn(n, f.boxes)
  <2>1. SUFFICES ASSUME NEW b \in Range(f.boxes), CellsOf(n) \subseteq CellsOf(b.node) PROVE FALSE
    BY DEF ContainedIn
  <2>2. PICK i \in 1..Len(f.boxes) : f.boxes[i] = b
    BY <1>1, ForestShape, SeqShape
  <2>3. Disjoint(n, f.boxes[i].node)
    BY ApartFromHeld
  <2> QED
    BY <2>1, <2>2, <2>3, CellsNonEmpty DEF Disjoint
<1>3. CASE ~NodeFree(n, sc)
  <2>1. g = AddCached(f, n, {blamed})
    BY <1>3 DEF RefillLeaf
  <2>2. PICK blockers : blockers = {blamed}
    OBVIOUS
  <2>3. blockers \in SUBSET (0..(MaxScene - 1)) /\ blockers # {}
    BY <2>2
  <2>4. g = AddCached(f, n, blockers) /\ [node |-> n, blockers |-> blockers, active |-> TRUE] \in E
    BY <2>1, <2>2
  <2> QED
    BY <1>1, <2>3, <2>4, CachedBook
<1>4. CASE NodeFree(n, sc)
  <2>1. g = CommitBox(f, n)
    BY <1>2, <1>4 DEF RefillLeaf
  <2> QED
    BY <1>1, <2>1, CommitBook
<1> QED
  BY <1>3, <1>4

\* E has every leaf below m, for the obstacle blamed.
LeavesBelow(m, blamed, E) ==
  \A n \in Node : CellsOf(n) \subseteq CellsOf(m)
                    => [node |-> n, blockers |-> {blamed}, active |-> TRUE] \in E

\* The refill of a removed box whose cells nothing else holds accounts for them all,
\* unless it is cut short.
LEMMA RefillBook ==
  ASSUME NEW bs, NEW sc, NEW f \in Grown(bs, sc), NEW b, b.node \in Node,
         NEW blamed \in 0..(MaxScene - 1), NEW E, Book(f, E),
         CellsOf(b.node) \cap Held(f.boxes, f.cache) = {}, LeavesBelow(b.node, blamed, E),
         NEW g, g = Refill(f, b, sc, blamed)
  PROVE  /\ Book(g, E)
         /\ Held(f.boxes, f.cache) \subseteq Held(g.boxes, g.cache)
         /\ Held(g.boxes, g.cache) \subseteq Held(f.boxes, f.cache) \cup CellsOf(b.node)
         /\ ~PopsCutShort(b.node, sc) => CellsOf(b.node) \subseteq Held(g.boxes, g.cache)
<1>1. PICK u :
           /\ u[0] = f /\ Len(Leaves(b.node, sc, DOMAIN f.res)) \in Nat
           /\ Refill(f, b, sc, blamed) = u[Len(Leaves(b.node, sc, DOMAIN f.res))]
           /\ \A k \in 1..Len(Leaves(b.node, sc, DOMAIN f.res)) :
                u[k] = RefillLeaf(u[k - 1], Leaves(b.node, sc, DOMAIN f.res)[k], sc, blamed)
           /\ \A k \in 0..Len(Leaves(b.node, sc, DOMAIN f.res)) : u[k] \in Grown(bs, sc)
  BY RefillUnfolds
<1>2. PICK cells : cells = Leaves(b.node, sc, DOMAIN f.res)
  OBVIOUS
<1>3. /\ u[0] = f /\ Len(cells) \in Nat /\ g = u[Len(cells)]
      /\ \A k \in 1..Len(cells) : u[k] = RefillLeaf(u[k - 1], cells[k], sc, blamed)
      /\ \A k \in 0..Len(cells) : u[k] \in Grown(bs, sc)
  BY <1>1, <1>2
<1>4. \A k \in 1..Len(cells) : cells[k] \in Node
  BY <1>2, LeavesAreNodes, ElementOfSeq
<1>5. \A r \in DOMAIN f.res : Disjoint(r, b.node)
  <2> SUFFICES ASSUME NEW r \in DOMAIN f.res PROVE Disjoint(r, b.node)
    OBVIOUS
  <2>1. PICK i \in 1..Len(f.boxes) : r = f.boxes[i].node
    BY DEF Book, ReservesAll
  <2>2. Disjoint(b.node, f.boxes[i].node)
    BY ApartFromHeld
  <2> QED
    BY <2>1, <2>2 DEF Disjoint
<1>6. /\ \A k \in 1..Len(cells) : CellsOf(cells[k]) \subseteq CellsOf(b.node)
      /\ \A j, k \in 1..Len(cells) : j # k => Disjoint(cells[j], cells[k])
      /\ ~PopsCutShort(b.node, sc)
            => \A c \in CellsOf(b.node) : \E k \in 1..Len(cells) : c \in CellsOf(cells[k])
  <2>1. PICK res, m : res = DOMAIN f.res /\ m = b.node
    OBVIOUS
  <2>2. m \in Node /\ (\A r \in res : Disjoint(r, m)) /\ cells = Leaves(m, sc, res)
    BY <1>2, <1>5, <2>1
  <2>3. /\ \A k \in 1..Len(cells) : CellsOf(cells[k]) \subseteq CellsOf(m)
        /\ \A j, k \in 1..Len(cells) : j # k => Disjoint(cells[j], cells[k])
        /\ ~PopsCutShort(m, sc)
              => \A c \in CellsOf(m) : \E k \in 1..Len(cells) : c \in CellsOf(cells[k])
    BY <2>2, LeavesInside
  <2> QED
    BY <2>1, <2>3
<1> DEFINE Upto(k) == UNION {CellsOf(cells[j]) : j \in 1..k}
           Ok(k) == /\ Book(u[k], E)
                    /\ Held(u[k].boxes, u[k].cache) = Held(f.boxes, f.cache) \cup Upto(k)
           T == {k \in 0..Len(cells) : Ok(k)}
<1>7. Upto(0) = {} /\ \A k \in 1..Len(cells) : Upto(k) = Upto(k - 1) \cup CellsOf(cells[k])
  <2>1. 1..0 = {}
    OBVIOUS
  <2>2. ASSUME NEW k \in 1..Len(cells) PROVE Upto(k) = Upto(k - 1) \cup CellsOf(cells[k])
    <3>1. 1..k = (1..(k - 1)) \cup {k}
      BY <1>3
    <3> QED
      BY <3>1
  <2> QED
    BY <2>1, <2>2
<1>8. \A k \in 1..Len(cells) : CellsOf(cells[k]) \cap Upto(k - 1) = {}
  <2> SUFFICES ASSUME NEW k \in 1..Len(cells), NEW j \in 1..(k - 1)
               PROVE  CellsOf(cells[k]) \cap CellsOf(cells[j]) = {}
    OBVIOUS
  <2>1. j \in 1..Len(cells) /\ j # k
    BY <1>3
  <2> QED
    BY <1>6, <2>1 DEF Disjoint
<1> HIDE DEF Upto
<1>9. \A k \in 0..Len(cells) : k \in T
  <2>1. 0 \in T
    BY <1>3, <1>7
  <2>2. ASSUME NEW k \in 1..Len(cells), k - 1 \in T PROVE k \in T
    <3>1. k - 1 \in 0..Len(cells) /\ k \in 0..Len(cells) /\ Ok(k - 1)
      BY <1>3, <2>2
    <3>2. PICK h : h = u[k - 1]
      OBVIOUS
    <3>3. /\ h \in Grown(bs, sc) /\ Book(h, E)
          /\ Held(h.boxes, h.cache) = Held(f.boxes, f.cache) \cup Upto(k - 1)
      BY <1>3, <3>1, <3>2
    <3>4. cells[k] \in Node /\ CellsOf(cells[k]) \subseteq CellsOf(b.node)
      BY <1>4, <1>6
    <3>5. CellsOf(cells[k]) \cap Held(h.boxes, h.cache) = {}
      BY <1>8, <3>3, <3>4
    <3>6. [node |-> cells[k], blockers |-> {blamed}, active |-> TRUE] \in E
      BY <3>4 DEF LeavesBelow
    <3>7. PICK x : x = u[k]
      OBVIOUS
    <3>8. x = RefillLeaf(h, cells[k], sc, blamed)
      BY <1>3, <3>2, <3>7
    <3>9. Book(x, E) /\ Held(x.boxes, x.cache) = Held(h.boxes, h.cache) \cup CellsOf(cells[k])
      BY <3>3, <3>4, <3>5, <3>6, <3>8, RefillLeafBook
    <3>10. Upto(k) = Upto(k - 1) \cup CellsOf(cells[k])
      BY <1>7
    <3>11. Ok(k)
      BY <3>3, <3>7, <3>9, <3>10
    <3> QED
      BY <3>1, <3>11
  <2> HIDE DEF T
  <2> QED
    BY <1>3, <2>1, <2>2, UpTo
<1>10. Ok(Len(cells))
  BY <1>3, <1>9
<1>11. /\ Upto(Len(cells)) \subseteq CellsOf(b.node)
       /\ ~PopsCutShort(b.node, sc) => CellsOf(b.node) \subseteq Upto(Len(cells))
  BY <1>6 DEF Upto
<1> QED
  BY <1>3, <1>10, <1>11

\* What a refill of removed boxes starts from: they hold apart from each other and
\* from all the forest holds.
RefillReady(f, removed, blamed, E) ==
  /\ IsSeq(removed) /\ (\A b \in Range(removed) : b.node \in Node) /\ Book(f, E)
  /\ \A j \in 1..Len(removed) : CellsOf(removed[j].node) \cap Held(f.boxes, f.cache) = {}
  /\ \A i, j \in 1..Len(removed) : i # j => Disjoint(removed[i].node, removed[j].node)
  /\ \A j \in 1..Len(removed) : LeavesBelow(removed[j].node, blamed, E)

\* The refill of all the removed boxes, one after the other, accounts for all those
\* whose refill is not cut short.
LEMMA RefillAllBook ==
  ASSUME NEW bs, NEW sc, NEW f \in Grown(bs, sc), NEW removed, NEW blamed \in 0..(MaxScene - 1),
         NEW E, RefillReady(f, removed, blamed, E),
         NEW g, g = RefillAll(f, removed, sc, blamed)
  PROVE  /\ Book(g, E)
         /\ Held(f.boxes, f.cache) \subseteq Held(g.boxes, g.cache)
         /\ \A j \in 1..Len(removed) : ~PopsCutShort(removed[j].node, sc)
              => CellsOf(removed[j].node) \subseteq Held(g.boxes, g.cache)
<1>0. /\ IsSeq(removed) /\ (\A b \in Range(removed) : b.node \in Node) /\ Book(f, E)
      /\ \A j \in 1..Len(removed) : CellsOf(removed[j].node) \cap Held(f.boxes, f.cache) = {}
      /\ \A i, j \in 1..Len(removed) : i # j => Disjoint(removed[i].node, removed[j].node)
      /\ \A j \in 1..Len(removed) : LeavesBelow(removed[j].node, blamed, E)
  BY DEF RefillReady
<1>1. PICK u :
           /\ u[0] = f /\ Len(removed) \in Nat
           /\ RefillAll(f, removed, sc, blamed) = u[Len(removed)]
           /\ \A k \in 1..Len(removed) : u[k] = Refill(u[k - 1], removed[k], sc, blamed)
           /\ \A k \in 0..Len(removed) : u[k] \in Grown(bs, sc)
  BY <1>0, RefillAllUnfolds
<1>2. \A k \in 1..Len(removed) : removed[k].node \in Node
  BY <1>0, SeqShape
<1> DEFINE Upto(k) == UNION {CellsOf(removed[j].node) : j \in 1..k}
           Ok(k) == /\ Book(u[k], E)
                    /\ Held(f.boxes, f.cache) \subseteq Held(u[k].boxes, u[k].cache)
                    /\ Held(u[k].boxes, u[k].cache) \subseteq Held(f.boxes, f.cache) \cup Upto(k)
                    /\ \A j \in 1..k : ~PopsCutShort(removed[j].node, sc)
                         => CellsOf(removed[j].node) \subseteq Held(u[k].boxes, u[k].cache)
           T == {k \in 0..Len(removed) : Ok(k)}
<1>3. Upto(0) = {} /\ \A k \in 1..Len(removed) : Upto(k) = Upto(k - 1) \cup CellsOf(removed[k].node)
  <2>1. 1..0 = {}
    OBVIOUS
  <2>2. ASSUME NEW k \in 1..Len(removed) PROVE Upto(k) = Upto(k - 1) \cup CellsOf(removed[k].node)
    <3>1. 1..k = (1..(k - 1)) \cup {k}
      BY <1>1
    <3> QED
      BY <3>1
  <2> QED
    BY <2>1, <2>2
<1>4. \A k \in 1..Len(removed) : CellsOf(removed[k].node) \cap Upto(k - 1) = {}
  <2> SUFFICES ASSUME NEW k \in 1..Len(removed), NEW j \in 1..(k - 1)
               PROVE  CellsOf(removed[k].node) \cap CellsOf(removed[j].node) = {}
    OBVIOUS
  <2>1. j \in 1..Len(removed) /\ j # k
    BY <1>1
  <2> QED
    BY <1>0, <2>1 DEF Disjoint
<1> HIDE DEF Upto
<1>5. \A k \in 0..Len(removed) : k \in T
  <2>1. 0 \in T
    <3>1. 1..0 = {}
      OBVIOUS
    <3> QED
      BY <1>0, <1>1, <1>3, <3>1
  <2>2. ASSUME NEW k \in 1..Len(removed), k - 1 \in T PROVE k \in T
    <3>1. k - 1 \in 0..Len(removed) /\ k \in 0..Len(removed) /\ Ok(k - 1)
      BY <1>1, <2>2
    <3>2. PICK h : h = u[k - 1]
      OBVIOUS
    <3>3. /\ h \in Grown(bs, sc) /\ Book(h, E)
          /\ Held(f.boxes, f.cache) \subseteq Held(h.boxes, h.cache)
          /\ Held(h.boxes, h.cache) \subseteq Held(f.boxes, f.cache) \cup Upto(k - 1)
          /\ \A j \in 1..(k - 1) : ~PopsCutShort(removed[j].node, sc)
               => CellsOf(removed[j].node) \subseteq Held(h.boxes, h.cache)
      BY <1>1, <3>1, <3>2
    <3>4. PICK b : b = removed[k]
      OBVIOUS
    <3>5. b.node \in Node /\ CellsOf(b.node) \cap Held(h.boxes, h.cache) = {}
      BY <1>0, <1>2, <1>4, <3>3, <3>4
    <3>6. LeavesBelow(b.node, blamed, E)
      BY <1>0, <3>4
    <3>7. PICK x : x = u[k]
      OBVIOUS
    <3>8. x = Refill(h, b, sc, blamed)
      BY <1>1, <3>2, <3>4, <3>7
    <3>9. /\ Book(x, E)
          /\ Held(h.boxes, h.cache) \subseteq Held(x.boxes, x.cache)
          /\ Held(x.boxes, x.cache) \subseteq Held(h.boxes, h.cache) \cup CellsOf(b.node)
          /\ ~PopsCutShort(b.node, sc) => CellsOf(b.node) \subseteq Held(x.boxes, x.cache)
      BY <3>3, <3>5, <3>6, <3>8, RefillBook
    <3>10. Upto(k) = Upto(k - 1) \cup CellsOf(removed[k].node)
      BY <1>3
    <3>11. \A j \in 1..k : j \in 1..(k - 1) \/ j = k
      BY <1>1
    <3>12. \A j \in 1..k : ~PopsCutShort(removed[j].node, sc)
             => CellsOf(removed[j].node) \subseteq Held(x.boxes, x.cache)
      BY <3>3, <3>4, <3>9, <3>11
    <3>13. Ok(k)
      BY <3>3, <3>4, <3>7, <3>9, <3>10, <3>12
    <3> QED
      BY <3>1, <3>13
  <2> HIDE DEF T
  <2> QED
    BY <1>1, <2>1, <2>2, UpTo
<1>6. PICK n : n = Len(removed)
  OBVIOUS
<1>7. n \in 0..Len(removed)
  BY <1>1, <1>6
<1>8. u[n] = g
  BY <1>1, <1>6
<1>9. Ok(n)
  <2> HIDE DEF Ok
  <2>1. n \in T
    BY <1>5, <1>7
  <2> QED
    BY <2>1
<1>10. Book(g, E) /\ Held(f.boxes, f.cache) \subseteq Held(g.boxes, g.cache)
  BY <1>8, <1>9
<1>11. \A j \in 1..n : ~PopsCutShort(removed[j].node, sc)
         => CellsOf(removed[j].node) \subseteq Held(g.boxes, g.cache)
  BY <1>8, <1>9
<1> QED
  BY <1>6, <1>10, <1>11

\* A box that several obstacles hit is removed once.
LEMMA DirtyOnce ==
  ASSUME IsSeq(boxes), \A i, j \in 1..Len(boxes) : boxes[i] = boxes[j] => i = j,
         NEW os, IsSeq(os)
  PROVE  \A i, j \in 1..Len(DirtyBoxes(os)) : DirtyBoxes(os)[i] = DirtyBoxes(os)[j] => i = j
<1>1. PICK u :
           /\ u[0] = <<>> /\ Len(os) \in Nat /\ DirtyBoxes(os) = u[Len(os)]
           /\ \A k \in 1..Len(os) :
                u[k] = u[k - 1] \o Kept(boxes, {b \in Range(boxes) : CheckBox(b.node, os[k])} \ Range(u[k - 1]))
  BY DirtyBoxesUnfold, ZenonT(60)
<1> DEFINE Once(s) == IsSeq(s) /\ \A i, j \in 1..Len(s) : s[i] = s[j] => i = j
           T == {k \in 0..Len(os) : Once(u[k])}
<1>2. ASSUME NEW s, NEW t, Once(s), Once(t), Range(t) \cap Range(s) = {}
      PROVE  Once(s \o t)
  <2>1. PICK r : r = s \o t
    OBVIOUS
  <2>2. /\ IsSeq(r) /\ Len(r) = Len(s) + Len(t)
        /\ \A i \in 1..Len(s) : r[i] = s[i]
        /\ \A i \in 1..Len(t) : r[Len(s) + i] = t[i]
    BY <1>2, <2>1, SeqConcat
  <2>3. /\ Len(s) \in Nat /\ Len(t) \in Nat
        /\ \A i \in 1..Len(s) : s[i] \in Range(s)
        /\ \A i \in 1..Len(t) : t[i] \in Range(t)
    BY <1>2, SeqShape
  <2>4. \A i \in 1..Len(r) : i \in 1..Len(s) \/ \E k \in 1..Len(t) : i = Len(s) + k
    <3> TAKE i \in 1..Len(r)
    <3>1. i \in 1..Len(s) \/ (i - Len(s) \in 1..Len(t) /\ i = Len(s) + (i - Len(s)))
      BY <2>2, <2>3
    <3> QED
      BY <3>1
  <2>5. ASSUME NEW i \in 1..Len(r), NEW j \in 1..Len(r), r[i] = r[j] PROVE i = j
    <3>1. CASE i \in 1..Len(s) /\ j \in 1..Len(s)
      BY <1>2, <2>2, <2>5, <3>1
    <3>2. CASE \E k \in 1..Len(t) : i = Len(s) + k
      <4>1. PICK k \in 1..Len(t) : i = Len(s) + k
        BY <3>2
      <4>2. r[i] = t[k] /\ r[i] \in Range(t)
        BY <2>2, <2>3, <4>1
      <4>3. j \notin 1..Len(s)
        <5>1. j \in 1..Len(s) => r[j] \in Range(s)
          BY <2>2, <2>3
        <5> QED
          BY <1>2, <2>5, <4>2, <5>1
      <4>4. PICK m \in 1..Len(t) : j = Len(s) + m
        BY <2>4, <4>3
      <4>5. r[j] = t[m]
        BY <2>2, <4>4
      <4>6. k = m
        BY <1>2, <2>5, <4>2, <4>5
      <4> QED
        BY <4>1, <4>4, <4>6
    <3>3. CASE i \in 1..Len(s) /\ \E k \in 1..Len(t) : j = Len(s) + k
      <4>1. PICK k \in 1..Len(t) : j = Len(s) + k
        BY <3>3
      <4>2. r[j] \in Range(t) /\ r[i] \in Range(s)
        BY <2>2, <2>3, <3>3, <4>1
      <4> QED
        BY <1>2, <2>5, <4>2
    <3> QED
      BY <2>4, <3>1, <3>2, <3>3
  <2> QED
    BY <2>1, <2>2, <2>5
<1> HIDE DEF Once
<1>3. \A k \in 0..Len(os) : k \in T
  <2>1. 0 \in T
    <3>1. PICK s : s = <<>>
      OBVIOUS
    <3>2. IsSeq(s) /\ Len(s) = 0
      BY <3>1, SeqEmpty
    <3>3. Once(s)
      BY <3>2 DEF Once
    <3> QED
      BY <1>1, <3>1, <3>3
  <2>2. ASSUME NEW k \in 1..Len(os), k - 1 \in T PROVE k \in T
    <3>1. PICK s, X : s = u[k - 1] /\ X = {b \in Range(boxes) : CheckBox(b.node, os[k])} \ Range(s)
      OBVIOUS
    <3>2. PICK t : t = Kept(boxes, X)
      OBVIOUS
    <3>3. u[k] = s \o t
      BY <1>1, <3>1, <3>2
    <3>4. /\ IsSeq(t) /\ Range(t) = Range(boxes) \cap X
          /\ \A i, j \in 1..Len(t) : t[i] = t[j] => i = j
      BY <3>2, KeptFacts
    <3>5. Range(t) \cap Range(s) = {} /\ Once(t)
      BY <3>1, <3>4 DEF Once
    <3>6. Once(s)
      BY <2>2, <3>1
    <3>7. Once(u[k]) /\ k \in 0..Len(os)
      BY <1>1, <1>2, <3>3, <3>5, <3>6
    <3> QED
      BY <3>7
  <2> HIDE DEF T
  <2> QED
    BY <1>1, <2>1, <2>2, UpTo
<1>4. Once(u[Len(os)])
  BY <1>1, <1>3
<1> QED
  BY <1>1, <1>4 DEF Once

-----------------------------------------------------------------------------
(* Building and clearing. *)

\* On boxes that are apart, the reservations of the boxes reserve each node for its box.
LEMMA ReservationsReserve ==
  ASSUME NEW bs \in Seq(BoxNodes), NEW res,
         \A i, j \in 1..Len(bs) : i # j => Disjoint(bs[i].node, bs[j].node)
  PROVE  /\ ReservesAll(Reservations(bs), bs)
         /\ res \in ReservationMaps /\ ReservesAll(res, bs) => res = Reservations(bs)
<1>1. IsSeq(bs) /\ \A i \in 1..Len(bs) : bs[i].node \in Node
  BY BoxAt, SeqTyped
<1>2. /\ \A i \in 1..Len(bs) : bs[i] \in Range(bs)
      /\ \A b \in Range(bs) : \E i \in 1..Len(bs) : bs[i] = b
  BY <1>1, SeqShape
<1>3. \A i, j \in 1..Len(bs) : bs[i].node = bs[j].node => i = j
  <2> SUFFICES ASSUME NEW i \in 1..Len(bs), NEW j \in 1..Len(bs), bs[i].node = bs[j].node, i # j
               PROVE  FALSE
    OBVIOUS
  <2>1. Disjoint(bs[i].node, bs[j].node)
    OBVIOUS
  <2> QED
    BY <1>1, <2>1, CellsNonEmpty DEF Disjoint
<1> DEFINE N == {b.node : b \in Range(bs)}
           Owner(n) == CHOOSE b \in Range(bs) : b.node = n
<1>4. N = {bs[i].node : i \in 1..Len(bs)}
  BY <1>2
<1>5. \A i \in 1..Len(bs) : Owner(bs[i].node) = bs[i]
  <2> TAKE i \in 1..Len(bs)
  <2>1. \E b \in Range(bs) : b.node = bs[i].node
    BY <1>2
  <2>2. Owner(bs[i].node) \in Range(bs) /\ Owner(bs[i].node).node = bs[i].node
    BY <2>1
  <2> HIDE DEF Owner
  <2>3. PICK j \in 1..Len(bs) : bs[j] = Owner(bs[i].node)
    BY <1>2, <2>2
  <2> QED
    BY <1>3, <2>2, <2>3
<1>6. Reservations(bs) = [n \in N |-> Owner(n).id]
  BY DEF Reservations
<1> HIDE DEF N, Owner
<1>7. /\ DOMAIN Reservations(bs) = {bs[i].node : i \in 1..Len(bs)}
      /\ \A i \in 1..Len(bs) : Reservations(bs)[bs[i].node] = bs[i].id
  <2>1. \A i \in 1..Len(bs) : bs[i].node \in N
    BY <1>4
  <2> QED
    BY <1>4, <1>5, <1>6, <2>1
<1>8. ASSUME res \in ReservationMaps, ReservesAll(res, bs) PROVE res = Reservations(bs)
  <2>1. res = [n \in DOMAIN res |-> res[n]]
    BY <1>8 DEF ReservationMaps
  <2>2. DOMAIN res = N
    BY <1>4, <1>8 DEF ReservesAll
  <2>3. \A n \in N : res[n] = Owner(n).id
    <3> TAKE n \in N
    <3>1. PICK i \in 1..Len(bs) : n = bs[i].node
      BY <1>4
    <3> QED
      BY <1>5, <1>8, <3>1 DEF ReservesAll
  <2> QED
    BY <1>6, <2>1, <2>2, <2>3
<1> QED
  BY <1>7, <1>8 DEF ReservesAll

\* A forest of boxes that are apart, with nothing cached, keeps the books.
LEMMA NewForestBook ==
  ASSUME NEW E, NEW bs, NEW res, ReservesAll(res, bs),
         \A i, j \in 1..Len(bs) : i # j => Disjoint(bs[i].node, bs[j].node),
         NEW f, f = NewForest(bs, res)
  PROVE  /\ Book(f, E)
         /\ \A c : c \in Held(f.boxes, f.cache) <=> \E i \in 1..Len(bs) : c \in CellsOf(bs[i].node)
<1>1. f.boxes = bs /\ f.res = res /\ f.cache = <<>>
  BY DEF NewForest
<1>2. PICK none : none = <<>>
  OBVIOUS
<1>3. Len(none) = 0
  BY <1>2, SeqEmpty
<1>4. 1..Len(none) = {}
  BY <1>3
<1>5. HeldApart(bs, none) /\ Listed(none, f.index) /\ \A p \in 1..Len(none) : none[p] \in E
  BY <1>4 DEF HeldApart, Listed
<1>6. \A c : c \in Held(bs, none) <=> \E i \in 1..Len(bs) : c \in CellsOf(bs[i].node)
  BY <1>4, HeldCell
<1> QED
  BY <1>1, <1>2, <1>5, <1>6 DEF Book

\* A leaf sweep keeps the books: what it frees and what it finds blocked is apart.
LEMMA SweptBook ==
  ASSUME NEW sc, sc \in Seq(Obstacle), Len(sc) <= MaxScene, NEW oneGroup \in BOOLEAN,
         NEW E, \A n \in CollisionNodes(sc) :
                  [node |-> n, blockers |-> SweepBlockers(n, sc, oneGroup), active |-> TRUE] \in E
  PROVE  Book(SweptForest(sc, oneGroup), E)
<1>1. PICK u :
           /\ Len(BreadthFirst(CollisionNodes(sc))) \in Nat
           /\ u[0] = NewForest(SweptBoxes(sc), Reservations(SweptBoxes(sc)))
           /\ SweptForest(sc, oneGroup) = u[Len(BreadthFirst(CollisionNodes(sc)))]
           /\ \A k \in 1..Len(BreadthFirst(CollisionNodes(sc))) :
                u[k] = AddCached(u[k - 1], BreadthFirst(CollisionNodes(sc))[k],
                         SweepBlockers(BreadthFirst(CollisionNodes(sc))[k], sc, oneGroup))
           /\ \A k \in 0..Len(BreadthFirst(CollisionNodes(sc))) : u[k] \in Grown(<<>>, sc)
  BY SweptForestUnfolds
<1>2. PICK hit, free, bs : /\ hit = BreadthFirst(CollisionNodes(sc)) /\ bs = SweptBoxes(sc)
                           /\ free = BreadthFirst(FreeNodes(sc))
  OBVIOUS
<1>3. /\ Len(hit) \in Nat /\ u[0] = NewForest(bs, Reservations(bs))
      /\ SweptForest(sc, oneGroup) = u[Len(hit)]
      /\ \A k \in 1..Len(hit) : u[k] = AddCached(u[k - 1], hit[k], SweepBlockers(hit[k], sc, oneGroup))
      /\ \A k \in 0..Len(hit) : u[k] \in Forests
  BY <1>1, <1>2 DEF Grown
<1>4. /\ \A i \in 1..Len(hit) : hit[i] \in CollisionNodes(sc)
      /\ \A i, j \in 1..Len(hit) : i # j => hit[i] # hit[j]
  BY <1>2, BreadthFirstOnce
<1>5. /\ Len(free) \in Nat /\ \A i \in 1..Len(free) : free[i] \in FreeNodes(sc)
      /\ \A i, j \in 1..Len(free) : i # j => free[i] # free[j]
  BY <1>2, BreadthFirstOnce
<1>6. Len(bs) = Len(free) /\ IsSeq(bs) /\ \A i \in 1..Len(free) : bs[i].node = free[i]
  <2>1. bs = [i \in 1..Len(free) |-> [id |-> i - 1, node |-> free[i]]]
    BY <1>2 DEF SweptBoxes
  <2>2. bs = [i \in 1..Len(free) |-> bs[i]]
    BY <2>1
  <2>3. IsSeq(bs) /\ Len(bs) = Len(free)
    BY <1>5, <2>2, SeqFunction
  <2> QED
    BY <2>1, <2>3
<1>7. CollisionNodes(sc) \subseteq Node /\ FreeNodes(sc) \subseteq Node
  BY DEF CollisionNodes, FreeNodes, Swept
<1>8. \A i, j \in 1..Len(bs) : i # j => Disjoint(bs[i].node, bs[j].node)
  BY <1>5, <1>6, SweptApart
<1>9. bs \in Seq(BoxNodes)
  <2>1. u[0].boxes = bs
    BY <1>3 DEF NewForest
  <2>2. u[0] \in Forests
    BY <1>3
  <2> QED
    BY <2>1, <2>2, ForestParts
<1>10. Book(u[0], E) /\ \A c : c \in Held(u[0].boxes, u[0].cache)
                                 <=> \E i \in 1..Len(bs) : c \in CellsOf(bs[i].node)
  <2>1. PICK res, f : res = Reservations(bs) /\ f = u[0]
    OBVIOUS
  <2>2. ReservesAll(res, bs)
    BY <1>8, <1>9, <2>1, ReservationsReserve
  <2>3. f = NewForest(bs, res)
    BY <1>3, <2>1
  <2>4. Book(f, E) /\ \A c : c \in Held(f.boxes, f.cache)
                              <=> \E i \in 1..Len(bs) : c \in CellsOf(bs[i].node)
    BY <1>8, <2>2, <2>3, NewForestBook
  <2> QED
    BY <2>1, <2>4
<1> DEFINE Ok(k) == /\ Book(u[k], E)
                    /\ \A j \in (k + 1)..Len(hit) :
                         CellsOf(hit[j]) \cap Held(u[k].boxes, u[k].cache) = {}
           T == {k \in 0..Len(hit) : Ok(k)}
<1>11. \A k \in 0..Len(hit) : k \in T
  <2>1. 0 \in T
    <3>1. ASSUME NEW j \in 1..Len(hit)
          PROVE  CellsOf(hit[j]) \cap Held(u[0].boxes, u[0].cache) = {}
      <4>1. \A i \in 1..Len(bs) : Disjoint(bs[i].node, hit[j])
        BY <1>4, <1>5, <1>6, SweptApart
      <4> QED
        BY <1>10, <4>1 DEF Disjoint
    <3>2. (0 + 1)..Len(hit) = 1..Len(hit) /\ 0 \in 0..Len(hit)
      BY <1>3
    <3> QED
      BY <1>10, <3>1, <3>2
  <2>2. ASSUME NEW k \in 1..Len(hit), k - 1 \in T PROVE k \in T
    <3>1. k - 1 \in 0..Len(hit) /\ k \in 0..Len(hit) /\ k \in ((k - 1) + 1)..Len(hit)
      BY <1>3
    <3>2. PICK h, x : h = u[k - 1] /\ x = u[k]
      OBVIOUS
    <3>3. /\ h \in Forests /\ Book(h, E)
          /\ \A j \in ((k - 1) + 1)..Len(hit) : CellsOf(hit[j]) \cap Held(h.boxes, h.cache) = {}
      BY <1>3, <2>2, <3>1, <3>2
    <3>4. PICK n, blockers : n = hit[k] /\ blockers = SweepBlockers(hit[k], sc, oneGroup)
      OBVIOUS
    <3>5. /\ n \in Node /\ n \in CollisionNodes(sc) /\ x = AddCached(h, n, blockers)
          /\ [node |-> n, blockers |-> blockers, active |-> TRUE] \in E
      BY <1>3, <1>4, <1>7, <3>2, <3>4
    <3>6. blockers \in SUBSET (0..(MaxScene - 1))
      <4>1. Len(sc) \in Nat /\ MaxScene \in Nat
        BY LenProperties, BoundAssumption
      <4> QED
        BY <3>4, <4>1 DEF SweepBlockers
    <3>7. CASE blockers = {}
      <4>1. x = h
        BY <3>5, <3>7 DEF AddCached
      <4>2. \A j \in (k + 1)..Len(hit) : j \in ((k - 1) + 1)..Len(hit)
        BY <1>3
      <4>3. Ok(k)
        BY <3>2, <3>3, <4>1, <4>2
      <4> QED
        BY <3>1, <4>3
    <3>8. CASE blockers # {}
      <4>1. CellsOf(n) \cap Held(h.boxes, h.cache) = {}
        BY <3>1, <3>3, <3>4
      <4>2. Book(x, E) /\ Held(x.boxes, x.cache) = Held(h.boxes, h.cache) \cup CellsOf(n)
        BY <3>3, <3>5, <3>6, <3>8, <4>1, CachedBook
      <4>3. ASSUME NEW j \in (k + 1)..Len(hit)
            PROVE  CellsOf(hit[j]) \cap Held(x.boxes, x.cache) = {}
        <5>1. j \in ((k - 1) + 1)..Len(hit) /\ j \in 1..Len(hit) /\ j # k
          BY <1>3
        <5>2. CellsOf(hit[j]) \cap Held(h.boxes, h.cache) = {}
          BY <3>3, <5>1
        <5>3. Disjoint(hit[j], n)
          BY <1>4, <3>4, <5>1, SweptApart
        <5> QED
          BY <4>2, <5>2, <5>3 DEF Disjoint
      <4>4. Ok(k)
        BY <3>2, <4>2, <4>3
      <4> QED
        BY <3>1, <4>4
    <3> QED
      BY <3>7, <3>8
  <2> HIDE DEF T
  <2> QED
    BY <1>3, <2>1, <2>2, UpTo
<1>12. Ok(Len(hit))
  BY <1>3, <1>11
<1> QED
  BY <1>3, <1>12

-----------------------------------------------------------------------------
(* Inserting obstacles. *)

\* The books of the state, its cached leaves all among E.
BooksKept(E) ==
  /\ HeldApart(boxes, collisionCache) /\ ReservesAll(reservations, boxes)
  /\ Listed(collisionCache, blockerIndex)
  /\ \A p \in 1..Len(collisionCache) : collisionCache[p] \in E

\* The live boxes are some of the boxes, each once.
LEMMA LiveSome ==
  ASSUME BoxesOK, NEW os, IsSeq(os)
  PROVE  /\ \A i \in 1..Len(Live(os)) : \E k \in 1..Len(boxes) : Live(os)[i] = boxes[k]
         /\ \A i, j \in 1..Len(Live(os)) : Live(os)[i] = Live(os)[j] => i = j
<1>1. IsSeq(boxes) /\ \A i, j \in 1..Len(boxes) : boxes[i] = boxes[j] => i = j
  BY SeqTyped, UniqueMeansOneBox DEF BoxesOK
<1>2. \A i, j \in 1..Len(Live(os)) : Live(os)[i] = Live(os)[j] => i = j
  BY <1>1, KeptFacts DEF Live
<1>3. IsSeq(Live(os)) /\ Range(Live(os)) \subseteq Range(boxes)
  BY LiveFacts, SeqTyped
<1>4. \A i \in 1..Len(Live(os)) : Live(os)[i] \in Range(boxes)
  BY <1>3, SeqShape
<1> QED
  BY <1>1, <1>2, <1>4, SeqShape

\* The removed boxes are the others, each once.
Splits(L, D) ==
  /\ IsSeq(D) /\ \A j \in 1..Len(D) : \E k \in 1..Len(boxes) : D[j] = boxes[k]
  /\ \A i, j \in 1..Len(D) : D[i] = D[j] => i = j
  /\ \A i \in 1..Len(L), j \in 1..Len(D) : L[i] # D[j]
  /\ \A k \in 1..Len(boxes) : \/ \E i \in 1..Len(L) : L[i] = boxes[k]
                              \/ \E j \in 1..Len(D) : D[j] = boxes[k]

\* An insertion splits the boxes into the live and the removed ones.
LEMMA DirtySome ==
  ASSUME BoxesOK, NEW os, IsSeq(os)
  PROVE  Splits(Live(os), DirtyBoxes(os))
<1>1. IsSeq(boxes) /\ \A i, j \in 1..Len(boxes) : boxes[i] = boxes[j] => i = j
  BY SeqTyped, UniqueMeansOneBox DEF BoxesOK
<1>2. \A i, j \in 1..Len(DirtyBoxes(os)) : DirtyBoxes(os)[i] = DirtyBoxes(os)[j] => i = j
  BY <1>1, DirtyOnce
<1>3. IsSeq(DirtyBoxes(os)) /\ Range(DirtyBoxes(os)) \subseteq Range(boxes)
  BY <1>1, DirtyBoxesFacts
<1>4. IsSeq(Live(os)) /\ Range(Live(os)) = Range(boxes) \ Range(DirtyBoxes(os))
  BY LiveFacts, SeqTyped
<1>5. \A j \in 1..Len(DirtyBoxes(os)) : DirtyBoxes(os)[j] \in Range(DirtyBoxes(os))
  BY <1>3, SeqShape
<1>6. \A j \in 1..Len(DirtyBoxes(os)) : \E k \in 1..Len(boxes) : DirtyBoxes(os)[j] = boxes[k]
  BY <1>1, <1>3, <1>5, SeqShape
<1>7. \A i \in 1..Len(Live(os)), j \in 1..Len(DirtyBoxes(os)) : Live(os)[i] # DirtyBoxes(os)[j]
  BY <1>4, <1>5, SeqShape
<1>8. \A k \in 1..Len(boxes) : \/ \E i \in 1..Len(Live(os)) : Live(os)[i] = boxes[k]
                               \/ \E j \in 1..Len(DirtyBoxes(os)) : DirtyBoxes(os)[j] = boxes[k]
  <2> TAKE k \in 1..Len(boxes)
  <2>1. boxes[k] \in Range(boxes)
    BY <1>1, SeqShape
  <2> QED
    BY <1>3, <1>4, <2>1, SeqShape
<1> QED
  BY <1>2, <1>3, <1>6, <1>7, <1>8 DEF Splits

\* An insertion keeps the books, and holds all that was held before but the boxes
\* whose refill is cut short.
LEMMA RefilledBook ==
  ASSUME BoxesOK, CacheOK, SceneOK, reservations \in ReservationMaps,
         NEW os, os \in Seq(Obstacle), os # <<>>, Len(scene \o os) <= MaxScene,
         NEW E, BooksKept(E),
         \A k \in 1..Len(boxes) : LeavesBelow(boxes[k].node, Len(scene), E)
  PROVE  /\ Book(Refilled(os), E)
         /\ Held(boxes, collisionCache) \ CutCells(os)
              \subseteq Held(Refilled(os).boxes, Refilled(os).cache)
<1>1. IsSeq(os)
  BY SeqTyped
<1>2. PICK L, D : L = Live(os) /\ D = DirtyBoxes(os)
  OBVIOUS
<1>3. /\ \A i \in 1..Len(L) : \E k \in 1..Len(boxes) : L[i] = boxes[k]
      /\ \A i, j \in 1..Len(L) : L[i] = L[j] => i = j
  BY <1>1, <1>2, LiveSome
<1>4. /\ IsSeq(D) /\ \A j \in 1..Len(D) : \E k \in 1..Len(boxes) : D[j] = boxes[k]
      /\ \A i, j \in 1..Len(D) : D[i] = D[j] => i = j
      /\ \A i \in 1..Len(L), j \in 1..Len(D) : L[i] # D[j]
      /\ \A k \in 1..Len(boxes) : \/ \E i \in 1..Len(L) : L[i] = boxes[k]
                                  \/ \E j \in 1..Len(D) : D[j] = boxes[k]
  <2>1. Splits(L, D)
    BY <1>1, <1>2, DirtySome
  <2> QED
    BY <2>1 DEF Splits
<1>5. /\ \A i, j \in 1..Len(boxes) : i # j => Disjoint(boxes[i].node, boxes[j].node)
      /\ \A i \in 1..Len(boxes), p \in 1..Len(collisionCache) :
           Blamed(collisionCache[p]) => Disjoint(boxes[i].node, collisionCache[p].node)
  BY DEF BooksKept, HeldApart
<1>6. HeldApart(L, collisionCache)
  <2>1. \A i, j \in 1..Len(L) : i # j => Disjoint(L[i].node, L[j].node)
    <3> SUFFICES ASSUME NEW i \in 1..Len(L), NEW j \in 1..Len(L), i # j
                 PROVE  Disjoint(L[i].node, L[j].node)
      OBVIOUS
    <3>1. PICK k \in 1..Len(boxes) : L[i] = boxes[k]
      BY <1>3
    <3>2. PICK m \in 1..Len(boxes) : L[j] = boxes[m]
      BY <1>3
    <3> QED
      BY <1>3, <1>5, <3>1, <3>2
  <2>2. \A i \in 1..Len(L), p \in 1..Len(collisionCache) :
          Blamed(collisionCache[p]) => Disjoint(L[i].node, collisionCache[p].node)
    BY <1>3, <1>5
  <2> QED
    BY <2>1, <2>2 DEF BooksKept, HeldApart
<1>7. ASSUME NEW j \in 1..Len(D) PROVE CellsOf(D[j].node) \cap Held(L, collisionCache) = {}
  <2>1. PICK m \in 1..Len(boxes) : D[j] = boxes[m]
    BY <1>4
  <2>2. \A i \in 1..Len(L) : Disjoint(D[j].node, L[i].node)
    <3> TAKE i \in 1..Len(L)
    <3>1. PICK k \in 1..Len(boxes) : L[i] = boxes[k]
      BY <1>3
    <3>2. k # m
      BY <1>4, <2>1, <3>1
    <3> QED
      BY <1>5, <2>1, <3>1, <3>2
  <2>3. \A p \in 1..Len(collisionCache) :
          Blamed(collisionCache[p]) => Disjoint(D[j].node, collisionCache[p].node)
    BY <1>5, <2>1
  <2> QED
    BY <2>2, <2>3, ApartFromHeld
<1>8. \A i, j \in 1..Len(D) : i # j => Disjoint(D[i].node, D[j].node)
  <2> SUFFICES ASSUME NEW i \in 1..Len(D), NEW j \in 1..Len(D), i # j
               PROVE  Disjoint(D[i].node, D[j].node)
    OBVIOUS
  <2>1. PICK k \in 1..Len(boxes) : D[i] = boxes[k]
    BY <1>4
  <2>2. PICK m \in 1..Len(boxes) : D[j] = boxes[m]
    BY <1>4
  <2> QED
    BY <1>4, <1>5, <2>1, <2>2
<1>9. PICK f : f = RefillStart(os)
  OBVIOUS
<1>10. /\ f \in Grown(L, scene \o os) /\ f.boxes = L /\ f.res = Reservations(L)
       /\ f.cache = collisionCache /\ f.index = blockerIndex
  BY <1>2, <1>9, RefillStarts
<1>11. Book(f, E)
  <2>1. L \in Seq(BoxNodes)
    BY <1>1, <1>2, LiveFacts
  <2>2. \A i, j \in 1..Len(L) : i # j => Disjoint(L[i].node, L[j].node)
    BY <1>6 DEF HeldApart
  <2>3. ReservesAll(Reservations(L), L)
    BY <2>1, <2>2, ReservationsReserve
  <2> QED
    BY <1>6, <1>10, <2>3 DEF Book, BooksKept
<1>12. PICK g, sc, blamed : g = Refilled(os) /\ sc = scene \o os /\ blamed = Len(scene)
  OBVIOUS
<1>13. g = RefillAll(f, D, sc, blamed)
  BY <1>2, <1>9, <1>12 DEF Refilled, RefillStart
<1>14. blamed \in 0..(MaxScene - 1) /\ \A b \in Range(D) : b.node \in Node
  BY <1>2, <1>12, RefilledGood
<1>15. \A j \in 1..Len(D) : LeavesBelow(D[j].node, blamed, E)
  BY <1>4, <1>12
<1>16. \A j \in 1..Len(D) : CellsOf(D[j].node) \cap Held(f.boxes, f.cache) = {}
  BY <1>7, <1>10
<1>17. f \in Grown(L, sc)
  BY <1>10, <1>12
<1>18. RefillReady(f, D, blamed, E)
  BY <1>4, <1>8, <1>11, <1>14, <1>15, <1>16 DEF RefillReady
<1>19. /\ Book(g, E)
       /\ Held(f.boxes, f.cache) \subseteq Held(g.boxes, g.cache)
       /\ \A j \in 1..Len(D) : ~PopsCutShort(D[j].node, sc)
            => CellsOf(D[j].node) \subseteq Held(g.boxes, g.cache)
  BY <1>13, <1>14, <1>17, <1>18, RefillAllBook
<1>20. Held(boxes, collisionCache) \ CutCells(os) \subseteq Held(g.boxes, g.cache)
  <2> SUFFICES ASSUME NEW c \in Held(boxes, collisionCache), c \notin CutCells(os)
               PROVE  c \in Held(g.boxes, g.cache)
    OBVIOUS
  <2>1. CASE \E k \in 1..Len(boxes) : c \in CellsOf(boxes[k].node)
    <3>1. PICK k \in 1..Len(boxes) : c \in CellsOf(boxes[k].node)
      BY <2>1
    <3>2. CASE \E i \in 1..Len(L) : L[i] = boxes[k]
      <4>1. c \in Held(L, collisionCache)
        BY <3>1, <3>2, HeldCell
      <4> QED
        BY <1>10, <1>19, <4>1
    <3>3. CASE \E j \in 1..Len(D) : D[j] = boxes[k]
      <4>1. PICK j \in 1..Len(D) : D[j] = boxes[k]
        BY <3>3
      <4>2. D[j] \in Range(D)
        BY <1>4, SeqShape
      <4>3. ~PopsCutShort(D[j].node, sc)
        BY <1>2, <1>12, <3>1, <4>1, <4>2 DEF CutCells
      <4> QED
        BY <1>19, <3>1, <4>1, <4>3
    <3> QED
      BY <1>4, <3>2, <3>3
  <2>2. CASE \E p \in 1..Len(collisionCache) :
               Blamed(collisionCache[p]) /\ c \in CellsOf(collisionCache[p].node)
    <3>1. c \in Held(L, collisionCache)
      BY <2>2, HeldCell
    <3> QED
      BY <1>10, <1>19, <3>1
  <2> QED
    BY <2>1, <2>2, HeldCell
<1> QED
  BY <1>12, <1>19, <1>20

-----------------------------------------------------------------------------
(* Removing a suffix of the obstacles. *)

\* The cached leaves of a scene of n obstacles: they blame obstacles of the scene,
\* and only active ones blame any.
Entries(n) == {e \in CachedBoxes : /\ e.blockers \subseteq 0..(n - 1)
                                   /\ ~e.active => e.blockers = {}}

\* The fields of a cached leaf of the scene.
LEMMA EntryParts ==
  ASSUME NEW n, NEW e
  PROVE  e \in Entries(n) <=>
           /\ e = [node |-> e.node, blockers |-> e.blockers, active |-> e.active]
           /\ e.node \in Node /\ e.blockers \in SUBSET (0..(MaxScene - 1)) /\ e.active \in BOOLEAN
           /\ e.blockers \subseteq 0..(n - 1) /\ (~e.active => e.blockers = {})
BY DEF Entries, CachedBoxes

\* Blockers in front of every removed index keep their number.
LEMMA RemapOfSuffix ==
  ASSUME NEW R, R \subseteq 0..(MaxScene - 1), NEW B \in SUBSET (0..(MaxScene - 1)),
         \A i \in B : i \notin R => \A r \in R : i < r
  PROVE  Remap(R, B) = B \ R
<1>1. MaxScene \in Nat
  BY BoundAssumption
<1>2. ASSUME NEW i \in B \ R PROVE i - RemovedBefore(R, i) = i
  <2>1. i \in Int /\ \A r \in R : r \in Int /\ i < r
    BY <1>1
  <2>2. {r \in R : r < i} = {}
    <3>1. \A r \in R : ~(r < i)
      BY <2>1
    <3> QED
      BY <3>1
  <2>3. RemovedBefore(R, i) = 0
    BY <2>2, FS_EmptySet DEF RemovedBefore
  <2> QED
    BY <2>1, <2>3
<1> QED
  BY <1>2 DEF Remap

\* g has the cached leaves of f, but e at position p.
Written(g, f, p, e) ==
  /\ g.index = f.index /\ Len(g.cache) = Len(f.cache)
  /\ \A q \in 1..Len(f.cache) : g.cache[q] = IF q = p THEN e ELSE f.cache[q]

\* The leaf e at p is kept, as x.
KeptAs(f, p, e, R, x) ==
  /\ e = f.cache[p] /\ e.active /\ Fate(f, e, R) = "kept"
  /\ x = [node |-> e.node, blockers |-> Remap(R, e.blockers), active |-> TRUE]

\* A visit that keeps a leaf rewrites its blockers.
LEMMA VisitThatKeeps ==
  ASSUME NEW f \in Forests, NEW p \in 1..Len(f.cache), NEW e, NEW R, NEW x \in CachedBoxes,
         NEW g, KeptAs(f, p, e, R, x), g = VisitInPlace(f, p, R)
  PROVE  g.boxes = f.boxes /\ g.res = f.res /\ Written(g, f, p, x)
<1>1. e \in CachedBoxes /\ e = f.cache[p] /\ e.active /\ Fate(f, e, R) = "kept"
  BY ForestShape DEF KeptAs
<1>2. /\ e.node \in Node /\ e.blockers \in SUBSET (0..(MaxScene - 1)) /\ e.active \in BOOLEAN
      /\ e = [node |-> e.node, blockers |-> e.blockers, active |-> e.active]
  BY <1>1 DEF CachedBoxes
<1>3. PICK B : B = Remap(R, e.blockers)
  OBVIOUS
<1>4. PICK ne : ne = [e EXCEPT !.blockers = B]
  OBVIOUS
<1>5. ne = [node |-> e.node, blockers |-> B, active |-> TRUE]
  <2>1. e.active = TRUE
    BY <1>1, <1>2
  <2> QED
    BY <1>2, <1>4, <2>1
<1>7. ne \in CachedBoxes
  BY <1>3, <1>5 DEF KeptAs
<1>8. g = SetEntry(f, p, ne)
  BY <1>1, <1>3, <1>4 DEF VisitInPlace
<1>9. IsSetEntry(g, f, p, ne)
  BY <1>7, <1>8, SetEntryKeeps
<1>10. g.boxes = f.boxes /\ g.res = f.res /\ g.index = f.index
  BY <1>9 DEF IsSetEntry
<1>11. Written(g, f, p, ne)
  BY <1>9, <1>10 DEF IsSetEntry, Written
<1>12. x = ne
  BY <1>3, <1>5 DEF KeptAs
<1> QED
  BY <1>10, <1>11, <1>12

\* A visit that does not keep a leaf empties its entry, and may make a box of it.
LEMMA VisitThatEnds ==
  ASSUME NEW f \in Forests, NEW p \in 1..Len(f.cache), NEW e, NEW R, NEW x, NEW g,
         e = f.cache[p], e.active, Fate(f, e, R) # "kept", g = VisitInPlace(f, p, R),
         x = [node |-> e.node, blockers |-> {}, active |-> FALSE]
  PROVE  /\ \/ g.boxes = f.boxes /\ g.res = f.res
            \/ g.boxes = CommitBox(f, e.node).boxes /\ g.res = CommitBox(f, e.node).res
         /\ Written(g, f, p, x)
<1>1. e \in CachedBoxes
  BY ForestShape
<1>2. /\ e.node \in Node /\ e.blockers \in SUBSET (0..(MaxScene - 1)) /\ e.active \in BOOLEAN
      /\ e = [node |-> e.node, blockers |-> e.blockers, active |-> e.active]
  BY <1>1 DEF CachedBoxes
<1>3. PICK d : d = [e EXCEPT !.active = FALSE, !.blockers = {}]
  OBVIOUS
<1>4. d = [node |-> e.node, blockers |-> {}, active |-> FALSE]
  <2>1. PICK c : c = [e EXCEPT !.active = FALSE]
    OBVIOUS
  <2>2. c = [node |-> e.node, blockers |-> e.blockers, active |-> FALSE]
    BY <1>2, <2>1
  <2>3. d = [c EXCEPT !.blockers = {}]
    BY <1>3, <2>1
  <2> QED
    BY <2>2, <2>3
<1>5. d \in CachedBoxes
  BY <1>2, <1>4 DEF CachedBoxes
<1>6. PICK h : h = Promoted(f, e, R)
  OBVIOUS
<1>7. h = f \/ h = CommitBox(f, e.node)
  BY <1>6 DEF Promoted
<1>8. h \in Forests /\ h.cache = f.cache /\ h.index = f.index
  <2>1. IsCommit(CommitBox(f, e.node), f, e.node)
    BY <1>2, CommitBoxKeeps
  <2> QED
    BY <1>7, <2>1 DEF IsCommit
<1>9. PICK s : s = SetEntry(h, p, d)
  OBVIOUS
<1>10. IsSetEntry(s, h, p, d)
  BY <1>5, <1>8, <1>9, SetEntryKeeps
<1>11. g = [s EXCEPT !.count = s.count - 1]
  BY <1>3, <1>6, <1>9 DEF VisitInPlace
<1>12. s = [boxes |-> h.boxes, res |-> h.res, cache |-> s.cache, index |-> h.index,
            count |-> h.count, nextId |-> h.nextId]
  BY <1>10 DEF IsSetEntry
<1>13. g = [boxes |-> h.boxes, res |-> h.res, cache |-> s.cache, index |-> h.index,
            count |-> s.count - 1, nextId |-> h.nextId]
  BY <1>11, <1>12
<1>14. g.boxes = h.boxes /\ g.res = h.res /\ g.cache = s.cache /\ g.index = f.index
  BY <1>8, <1>13
<1>15. Written(g, f, p, d)
  BY <1>8, <1>10, <1>14 DEF IsSetEntry, Written
<1>16. x = d
  BY <1>4
<1> QED
  BY <1>7, <1>14, <1>15, <1>16

\* g has the leaves of f, and none of them more blockers.
Shrinks(g, f) ==
  /\ g.index = f.index /\ Len(g.cache) = Len(f.cache)
  /\ \A q \in 1..Len(f.cache) : g.cache[q].blockers \subseteq f.cache[q].blockers

\* The leaf e is rewritten as x.
BlamesLess(x, e) ==
  x.node = e.node /\ x.blockers \subseteq e.blockers /\ (Blamed(x) => Blamed(e))

\* If e blames and x does not, nothing of S is where e is.
Frees(e, x, S) == Blamed(e) /\ ~Blamed(x) => CellsOf(e.node) \cap S = {}

\* A leaf rewritten to blame less, the boxes untouched.
LEMMA WrittenApart ==
  ASSUME NEW E, NEW f \in Forests, NEW p \in 1..Len(f.cache), NEW e, NEW x \in E, NEW g,
         Book(f, E), e = f.cache[p], Written(g, f, p, x), BlamesLess(x, e)
  PROVE  /\ HeldApart(f.boxes, g.cache) /\ Listed(g.cache, g.index)
         /\ \A q \in 1..Len(g.cache) : g.cache[q] \in E
         /\ Shrinks(g, f) /\ g.cache[p] = x
         /\ Frees(e, x, Held(f.boxes, g.cache))
<1>1. /\ HeldApart(f.boxes, f.cache) /\ Listed(f.cache, f.index)
      /\ \A q \in 1..Len(f.cache) : f.cache[q] \in E
  BY DEF Book
<1>2. /\ g.index = f.index /\ Len(g.cache) = Len(f.cache)
      /\ \A q \in 1..Len(f.cache) : g.cache[q] = IF q = p THEN x ELSE f.cache[q]
  BY DEF Written
<1>3. Shrinks(g, f)
  BY <1>2 DEF Shrinks, BlamesLess
<1>4. Listed(g.cache, g.index)
  BY <1>1, <1>2 DEF Listed, BlamesLess
<1>5. PICK bs, cache, ds : bs = f.boxes /\ cache = f.cache /\ ds = g.cache
  OBVIOUS
<1>6. /\ p \in 1..Len(cache) /\ Len(ds) = Len(cache) /\ HeldApart(bs, cache)
      /\ \A q \in 1..Len(cache) : q # p => ds[q] = cache[q]
      /\ ds[p].node = cache[p].node /\ (Blamed(ds[p]) => Blamed(cache[p]))
      /\ ds[p] = x /\ cache[p] = e
  BY <1>1, <1>2, <1>5 DEF BlamesLess
<1>7. /\ HeldApart(bs, ds)
      /\ Blamed(cache[p]) /\ ~Blamed(ds[p]) => CellsOf(cache[p].node) \cap Held(bs, ds) = {}
  BY <1>6, LeafRewritten
<1>8. Frees(e, x, Held(f.boxes, g.cache))
  BY <1>5, <1>6, <1>7 DEF Frees
<1> QED
  BY <1>1, <1>2, <1>3, <1>4, <1>5, <1>6, <1>7, <1>8

\* One visit of the suffix path keeps the books, and leaves no removed blocker.
LEMMA VisitBook ==
  ASSUME NEW n, NEW f \in Forests, Book(f, Entries(n)), NEW p \in 1..Len(f.cache),
         NEW R, R \subseteq 0..(MaxScene - 1),
         \A i \in 0..(n - 1) : i \notin R => \A r \in R : i < r,
         NEW g, g = VisitInPlace(f, p, R)
  PROVE  Book(g, Entries(n)) /\ Shrinks(g, f) /\ g.cache[p].blockers \cap R = {}
<1>1. PICK e : e = f.cache[p]
  OBVIOUS
<1>2. PICK E : E = Entries(n)
  OBVIOUS
<1>3. Book(f, E) /\ e \in Entries(n) /\ HeldApart(f.boxes, f.cache) /\ ReservesAll(f.res, f.boxes)
  BY <1>1, <1>2 DEF Book
<1>4. /\ e = [node |-> e.node, blockers |-> e.blockers, active |-> e.active]
      /\ e.node \in Node /\ e.blockers \in SUBSET (0..(MaxScene - 1)) /\ e.active \in BOOLEAN
      /\ e.blockers \subseteq 0..(n - 1) /\ (~e.active => e.blockers = {})
  BY <1>3, EntryParts
<1>5. CASE ~e.active
  <2>1. g = f
    BY <1>1, <1>5 DEF VisitInPlace
  <2> QED
    BY <1>1, <1>3, <1>2, <1>4, <1>5, <2>1 DEF Shrinks
<1>6. CASE e.active /\ Fate(f, e, R) = "kept"
  <2>1. PICK B : B = e.blockers
    OBVIOUS
  <2>2. Remap(R, B) = B \ R
    <3>1. B \in SUBSET (0..(MaxScene - 1)) /\ \A i \in B : i \notin R => \A r \in R : i < r
      BY <1>4, <2>1
    <3> QED
      BY <3>1, RemapOfSuffix
  <2>3. PICK x : x = [node |-> e.node, blockers |-> B \ R, active |-> TRUE]
    OBVIOUS
  <2>4. KeptAs(f, p, e, R, x)
    BY <1>1, <1>6, <2>1, <2>2, <2>3 DEF KeptAs
  <2>6. x.node = e.node /\ x.blockers = B \ R /\ x.active
    BY <2>3
  <2>7. x \in E
    <3>1. x \in Entries(n)
      BY <1>4, <2>1, <2>3, <2>6, EntryParts
    <3> QED
      BY <1>2, <3>1
  <2>5. g.boxes = f.boxes /\ g.res = f.res /\ Written(g, f, p, x)
    <3>1. x \in CachedBoxes
      BY <1>2, <2>7 DEF Entries
    <3> QED
      BY <2>4, <3>1, VisitThatKeeps
  <2>8. BlamesLess(x, e)
    BY <1>6, <2>1, <2>6 DEF Blamed, BlamesLess
  <2>9. /\ HeldApart(f.boxes, g.cache) /\ Listed(g.cache, g.index)
        /\ \A q \in 1..Len(g.cache) : g.cache[q] \in E
        /\ Shrinks(g, f) /\ g.cache[p] = x
    BY <1>1, <1>3, <2>5, <2>6, <2>7, <2>8, WrittenApart
  <2>10. Book(g, E)
    BY <1>3, <2>5, <2>9 DEF Book
  <2> QED
    BY <1>2, <2>6, <2>9, <2>10
<1>7. CASE e.active /\ Fate(f, e, R) # "kept"
  <2>1. Blamed(e)
    BY <1>7 DEF Fate, Blamed
  <2>3. PICK x : x = [node |-> e.node, blockers |-> {}, active |-> FALSE]
    OBVIOUS
  <2>2. /\ \/ g.boxes = f.boxes /\ g.res = f.res
           \/ g.boxes = CommitBox(f, e.node).boxes /\ g.res = CommitBox(f, e.node).res
        /\ Written(g, f, p, x)
    BY <1>1, <1>7, <2>3, VisitThatEnds
  <2>4. x.node = e.node /\ x.blockers = {} /\ x.active = FALSE /\ Written(g, f, p, x)
    BY <2>2, <2>3
  <2>5. x \in E
    <3>1. x \in Entries(n)
      BY <1>4, <2>3, <2>4, EntryParts
    <3> QED
      BY <1>2, <3>1
  <2>6. ~Blamed(x) /\ BlamesLess(x, e)
    BY <2>4 DEF Blamed, BlamesLess
  <2>10. /\ HeldApart(f.boxes, g.cache) /\ Listed(g.cache, g.index)
         /\ \A q \in 1..Len(g.cache) : g.cache[q] \in E
         /\ Shrinks(g, f) /\ g.cache[p] = x
         /\ Frees(e, x, Held(f.boxes, g.cache))
    BY <1>1, <1>3, <2>4, <2>5, <2>6, WrittenApart
  <2>7. CellsOf(e.node) \cap Held(f.boxes, g.cache) = {}
    BY <2>1, <2>6, <2>10 DEF Frees
  <2>8. HeldApart(g.boxes, g.cache) /\ ReservesAll(g.res, g.boxes)
    <3>1. PICK m, cache : m = e.node /\ cache = g.cache
      OBVIOUS
    <3>2. CASE g.boxes = CommitBox(f, e.node).boxes /\ g.res = CommitBox(f, e.node).res
      <4>1. /\ m \in Node /\ HeldApart(f.boxes, cache) /\ CellsOf(m) \cap Held(f.boxes, cache) = {}
            /\ g.boxes = CommitBox(f, m).boxes /\ g.res = CommitBox(f, m).res
        BY <1>4, <2>7, <2>10, <3>1, <3>2
      <4>2. HeldApart(g.boxes, cache) /\ ReservesAll(g.res, g.boxes)
        BY <1>3, <4>1, CommitApart
      <4> QED
        BY <3>1, <4>2
    <3>3. CASE g.boxes = f.boxes /\ g.res = f.res
      BY <1>3, <2>10, <3>3
    <3> QED
      BY <2>2, <3>2, <3>3
  <2>9. Book(g, E)
    BY <2>8, <2>10 DEF Book
  <2> QED
    BY <1>2, <2>4, <2>9, <2>10
<1> QED
  BY <1>5, <1>6, <1>7

\* The suffix path visits every leaf the index lists under a removed obstacle.
LEMMA SuffixVisitsAll ==
  ASSUME NEW f \in Forests, IndexInCache(f), NEW first \in Nat, NEW count \in Nat,
         first + count <= MaxScene, NEW i \in first..(first + count - 1)
  PROVE  /\ IsSeq(SuffixVisits(f, first, count))
         /\ Range(f.index[i]) \subseteq Range(SuffixVisits(f, first, count))
<1>1. PICK u :
        /\ u[0] = <<>> /\ SuffixVisits(f, first, count) = u[count]
        /\ \A k \in 1..count : u[k] = u[k - 1] \o f.index[first + k - 1]
        /\ \A k \in 0..count : u[k] \in Seq(1..Len(f.cache))
  BY SuffixVisitsUnfold, ZenonT(60)
<1>2. \A k \in 0..count : IsSeq(u[k])
  <2> SUFFICES ASSUME NEW k \in 0..count PROVE IsSeq(u[k])
    OBVIOUS
  <2>1. PICK s : s = u[k]
    OBVIOUS
  <2>2. s \in Seq(1..Len(f.cache))
    BY <1>1, <2>1
  <2> QED
    BY <2>1, <2>2, SeqTyped
<1>3. \A k \in 1..count : first + k - 1 \in 0..(MaxScene - 1)
  BY BoundAssumption
<1>4. ASSUME NEW k \in 1..count
      PROVE  Range(u[k]) = Range(u[k - 1]) \cup Range(f.index[first + k - 1])
  <2>1. PICK s, t, v : s = u[k - 1] /\ t = f.index[first + k - 1] /\ v = u[k]
    OBVIOUS
  <2>2. v = s \o t
    BY <1>1, <2>1
  <2>3. IsSeq(s)
    <3>1. k - 1 \in 0..count
      OBVIOUS
    <3> QED
      BY <1>2, <2>1, <3>1
  <2>4. t \in Seq(Nat)
    <3>1. f.index \in [0..(MaxScene - 1) -> Seq(Nat)]
      BY ForestShape DEF Indices
    <3> QED
      BY <1>3, <2>1, <3>1
  <2>5. IsSeq(t)
    BY <2>4, SeqTyped
  <2>6. Range(s \o t) = Range(s) \cup Range(t)
    BY <2>3, <2>5, SeqConcat
  <2> QED
    BY <2>1, <2>2, <2>6
<1> DEFINE T == {k \in 0..count : \A j \in 1..k : Range(f.index[first + j - 1]) \subseteq Range(u[k])}
<1>5. \A k \in 0..count : k \in T
  <2>1. 0 \in T
    OBVIOUS
  <2>2. ASSUME NEW k \in 1..count, k - 1 \in T PROVE k \in T
    <3>1. \A j \in 1..(k - 1) : Range(f.index[first + j - 1]) \subseteq Range(u[k - 1])
      BY <2>2
    <3>2. \A j \in 1..k : j \in 1..(k - 1) \/ j = k
      OBVIOUS
    <3>3. ASSUME NEW j \in 1..k PROVE Range(f.index[first + j - 1]) \subseteq Range(u[k])
      <4>1. CASE j \in 1..(k - 1)
        BY <1>4, <3>1, <4>1
      <4>2. CASE j = k
        BY <1>4, <4>2
      <4> QED
        BY <3>2, <4>1, <4>2
    <3> QED
      BY <3>3
  <2> HIDE DEF T
  <2> QED
    BY <2>1, <2>2, UpTo
<1>6. count \in 0..count /\ i - first + 1 \in 1..count /\ first + (i - first + 1) - 1 = i
  OBVIOUS
<1>7. \A j \in 1..count : Range(f.index[first + j - 1]) \subseteq Range(u[count])
  BY <1>5, <1>6
<1>8. PICK j \in 1..count : first + j - 1 = i
  BY <1>6
<1> QED
  BY <1>1, <1>2, <1>6, <1>7, <1>8

\* No visited leaf of g blames an obstacle of R.
Cleared(g, visits, k, R) == \A j \in 1..k : g.cache[visits[j]].blockers \cap R = {}

\* The suffix path keeps the books, and no leaf it visits keeps a removed blocker.
LEMMA SuffixBook ==
  ASSUME NEW bs, NEW sc, NEW S, NEW K, NEW m, NEW f \in Regrown(bs, sc, S, K, m),
         NEW R, R \subseteq 0..(MaxScene - 1), NEW first \in Nat, NEW u,
         SuffixRun(u, f, R, first, Regrown(bs, sc, S, K, m)),
         NEW n, Book(f, Entries(n)), \A i \in 0..(n - 1) : i \notin R => \A r \in R : i < r,
         NEW visits, visits = SuffixVisits(f, first, Cardinality(R)),
         IsSeq(visits), Range(visits) \subseteq 1..m,
         NEW g, g = PromoteSuffix(f, R, first)
  PROVE  Book(g, Entries(n)) /\ Shrinks(g, f) /\ Cleared(g, visits, Len(visits), R)
<1>1. /\ u[0] = f /\ Len(visits) \in Nat /\ g = u[Len(visits)]
      /\ \A k \in 1..Len(visits) : u[k] = VisitInPlace(u[k - 1], visits[k], R)
      /\ \A k \in 0..Len(visits) : u[k] \in Regrown(bs, sc, S, K, m)
  BY DEF SuffixRun
<1>2. \A k \in 0..Len(visits) : u[k] \in Forests /\ Len(u[k].cache) = m
  BY <1>1 DEF Regrown, Grown
<1>3. \A k \in 1..Len(visits) : visits[k] \in 1..m
  BY SeqShape
<1>4. f \in Forests /\ Len(f.cache) = m
  BY DEF Regrown, Grown
<1> DEFINE Good(k) == Book(u[k], Entries(n)) /\ Shrinks(u[k], f) /\ Cleared(u[k], visits, k, R)
           T == {k \in 0..Len(visits) : Good(k)}
<1>5. \A k \in 0..Len(visits) : k \in T
  <2>1. 0 \in T
    <3>1. Book(u[0], Entries(n)) /\ Shrinks(u[0], f)
      BY <1>1 DEF Shrinks
    <3>2. Cleared(u[0], visits, 0, R)
      BY DEF Cleared
    <3> QED
      BY <1>1, <3>1, <3>2
  <2>2. ASSUME NEW k \in 1..Len(visits), k - 1 \in T PROVE k \in T
    <3>1. PICK x, y, p : x = u[k - 1] /\ y = u[k] /\ p = visits[k]
      OBVIOUS
    <3>2. k - 1 \in 0..Len(visits) /\ k \in 0..Len(visits)
      BY <1>1
    <3>3. /\ x \in Forests /\ Len(x.cache) = m /\ y = VisitInPlace(x, p, R) /\ p \in 1..Len(x.cache)
      BY <1>1, <1>2, <1>3, <3>1, <3>2
    <3>4. Book(x, Entries(n)) /\ Shrinks(x, f) /\ Cleared(x, visits, k - 1, R)
      BY <2>2, <3>1
    <3>5. Book(y, Entries(n)) /\ Shrinks(y, x) /\ y.cache[p].blockers \cap R = {}
      BY <3>3, <3>4, VisitBook
    <3>6. Shrinks(y, f)
      BY <1>4, <3>3, <3>4, <3>5 DEF Shrinks
    <3>7. Cleared(y, visits, k, R)
      <4>1. ASSUME NEW j \in 1..k PROVE y.cache[visits[j]].blockers \cap R = {}
        <5>1. visits[j] \in 1..Len(x.cache)
          BY <1>1, <1>3, <3>3
        <5>2. y.cache[visits[j]].blockers \subseteq x.cache[visits[j]].blockers
          BY <3>5, <5>1 DEF Shrinks
        <5>3. CASE j \in 1..(k - 1)
          BY <3>4, <5>2, <5>3 DEF Cleared
        <5>4. CASE j = k
          BY <3>1, <3>5, <5>4
        <5> QED
          BY <5>3, <5>4
      <4> QED
        BY <4>1 DEF Cleared
    <3> QED
      BY <3>1, <3>2, <3>5, <3>6, <3>7
  <2> HIDE DEF T
  <2> QED
    BY <1>1, <2>1, <2>2, UpTo
<1>6. Len(visits) \in T
  <2>1. Len(visits) \in 0..Len(visits)
    BY <1>1
  <2> HIDE DEF T
  <2> QED
    BY <1>5, <2>1
<1> QED
  BY <1>1, <1>6

\* A suffix removal leaves the books of the scene in front of it.
LEMMA SuffixCleared ==
  ASSUME NEW bs, NEW sc, NEW S, NEW K, NEW m, NEW f \in Regrown(bs, sc, S, K, m),
         NEW R, NEW first \in Nat, NEW n \in Nat, first <= n, n <= MaxScene,
         R = first..(n - 1), Book(f, Entries(n)),
         \A k \in K : k - 1 \notin R /\ \A r \in R : k - 1 < r,
         Range(sc) \subseteq {S[k] : k \in K},
         NEW g, g = PromoteSuffix(f, R, first)
  PROVE  Book(g, Entries(first)) /\ g \in Regrown(bs, sc, S, K, m)
<1>1. /\ f \in Forests /\ IndexInCache(f) /\ Len(f.cache) = m
      /\ IsSeq(f.cache)
  <2>1. f \in Forests /\ IndexInCache(f) /\ Len(f.cache) = m
    BY DEF Regrown, Grown, CacheExact
  <2> QED
    BY <2>1, ForestShape
<1>2. Cardinality(R) = n - first /\ Cardinality(R) \in Nat /\ first + Cardinality(R) = n
  <2>1. PICK last : last = n - 1
    OBVIOUS
  <2>2. last \in Int /\ first \in Int /\ R = first..last
    BY <2>1
  <2>3. Cardinality(R) = IF first > last THEN 0 ELSE last - first + 1
    BY <2>2, FS_Interval
  <2> QED
    BY <2>1, <2>3
<1>3. R \subseteq 0..(MaxScene - 1) /\ \A i \in 0..(n - 1) : i \notin R => \A r \in R : i < r
  BY BoundAssumption
<1>4. PICK u : SuffixRun(u, f, R, first, Regrown(bs, sc, S, K, m))
  <2>1. first + Cardinality(R) <= MaxScene
    BY <1>2
  <2> QED
    BY <1>2, <1>3, <2>1, PromoteSuffixUnfolds
<1>5. PICK visits : visits = SuffixVisits(f, first, Cardinality(R))
  OBVIOUS
<1>6. visits \in Seq(1..m)
  <2>1. PICK c : c = Cardinality(R)
    OBVIOUS
  <2>2. c \in Nat /\ first + c <= MaxScene
    BY <1>2, <2>1
  <2>3. SuffixVisits(f, first, c) \in Seq(1..Len(f.cache))
    BY <1>1, <2>2, SuffixVisitsTyped
  <2> QED
    BY <1>1, <1>5, <2>1, <2>3
<1>7. IsSeq(visits) /\ Range(visits) \subseteq 1..m
  BY <1>6, SeqTyped
<1>8. Book(g, Entries(n)) /\ Shrinks(g, f) /\ Cleared(g, visits, Len(visits), R)
  BY <1>3, <1>4, <1>5, <1>7, SuffixBook
<1>9. g \in Regrown(bs, sc, S, K, m)
  BY <1>4, <1>5 DEF SuffixRun
<1>10. ASSUME NEW p \in 1..Len(g.cache) PROVE g.cache[p] \in Entries(first)
  <2>1. PICK e : e = g.cache[p]
    OBVIOUS
  <2>2. e \in Entries(n)
    BY <1>8, <2>1 DEF Book
  <2>3. p \in 1..Len(f.cache) /\ e.blockers \subseteq f.cache[p].blockers
    BY <1>8, <2>1 DEF Shrinks
  <2>4. ASSUME NEW r \in R, r \in e.blockers PROVE FALSE
    <3>1. PICK k \in 1..Len(f.index[r]) : f.index[r][k] = p
      <4>1. Listed(f.cache, f.index)
        BY DEF Book
      <4> QED
        BY <2>3, <2>4, <4>1 DEF Listed
    <3>2. p \in Range(f.index[r])
      <4>1. r \in 0..(MaxScene - 1)
        BY <1>3
      <4>2. PICK s : s = f.index[r]
        OBVIOUS
      <4>3. s \in Seq(Nat)
        BY <1>1, <4>1, <4>2, ForestShape DEF Indices
      <4>4. IsSeq(s)
        BY <4>3, SeqTyped
      <4>5. k \in 1..Len(s) /\ s[k] = p
        BY <3>1, <4>2
      <4>6. p \in Range(s)
        BY <4>4, <4>5, SeqShape
      <4> QED
        BY <4>2, <4>6
    <3>3. p \in Range(visits)
      <4>1. PICK c : c = Cardinality(R)
        OBVIOUS
      <4>2. c \in Nat /\ first + c <= MaxScene /\ r \in first..(first + c - 1)
        BY <1>2, <4>1
      <4>3. Range(f.index[r]) \subseteq Range(SuffixVisits(f, first, c))
        BY <1>1, <4>2, SuffixVisitsAll
      <4> QED
        BY <1>5, <3>2, <4>1, <4>3
    <3>4. PICK j \in 1..Len(visits) : visits[j] = p
      BY <1>7, <3>3, SeqShape
    <3> QED
      BY <1>8, <2>1, <2>4, <3>4 DEF Cleared
  <2>5. e.blockers \subseteq 0..(first - 1)
    <3>1. e.blockers \subseteq 0..(n - 1)
      BY <2>2, EntryParts
    <3> QED
      BY <2>4, <3>1
  <2>6. e \in Entries(first)
    BY <2>2, <2>5, EntryParts
  <2> QED
    BY <2>1, <2>6
<1> QED
  BY <1>8, <1>9, <1>10 DEF Book

-----------------------------------------------------------------------------
(* Removing obstacles that others follow. *)

\* What the cache keeps of an active leaf when the obstacles of R go.
Moved(e, R) == [node |-> e.node, blockers |-> Remap(R, e.blockers), active |-> TRUE]

\* What a leaf covers if it is blamed.
Covered(e) == IF Blamed(e) THEN CellsOf(e.node) ELSE {}

\* A leaf that is kept is appended to the cache.
LEMMA RewriteAppends ==
  ASSUME NEW x \in Forests, NEW e \in CachedBoxes, NEW R, NEW y, e.active,
         Fate(x, e, R) \in {"kept", "disconnected"}, y = VisitAndRewrite(x, e, R)
  PROVE  y.boxes = x.boxes /\ y.res = x.res /\ y.cache = Append(x.cache, Moved(e, R))
<1>1. PICK B : B = Remap(R, e.blockers)
  OBVIOUS
<1>2. PICK ne : ne = [e EXCEPT !.blockers = B]
  OBVIOUS
<1>3. e = [node |-> e.node, blockers |-> e.blockers, active |-> e.active] /\ e.active \in BOOLEAN
  BY DEF CachedBoxes
<1>4. e.active = TRUE
  BY <1>3
<1>5. ne = [node |-> e.node, blockers |-> B, active |-> TRUE]
  BY <1>2, <1>3, <1>4
<1>6. ne = Moved(e, R)
  BY <1>1, <1>5 DEF Moved
<1>7. PICK cs : cs = Append(x.cache, ne)
  OBVIOUS
<1>8. y = [x EXCEPT !.cache = cs]
  BY <1>1, <1>2, <1>7 DEF VisitAndRewrite
<1>9. x = [boxes |-> x.boxes, res |-> x.res, cache |-> x.cache, index |-> x.index,
           count |-> x.count, nextId |-> x.nextId]
  BY ForestParts
<1>10. y = [boxes |-> x.boxes, res |-> x.res, cache |-> cs, index |-> x.index,
            count |-> x.count, nextId |-> x.nextId]
  BY <1>8, <1>9
<1> QED
  BY <1>6, <1>7, <1>10

\* The books of a forest whose index is yet to be rebuilt.
Pages(f, E) ==
  /\ HeldApart(f.boxes, f.cache) /\ ReservesAll(f.res, f.boxes)
  /\ \A p \in 1..Len(f.cache) : f.cache[p] \in E

\* One visit of the general path keeps the books: what it holds more, the leaf held.
LEMMA RewriteBook ==
  ASSUME NEW E, NEW x \in Forests, NEW e \in CachedBoxes, NEW R, NEW y,
         R \in SUBSET (0..(MaxScene - 1)), Pages(x, E),
         Covered(e) \cap Held(x.boxes, x.cache) = {}, e.active => Moved(e, R) \in E,
         y = VisitAndRewrite(x, e, R)
  PROVE  /\ Pages(y, E)
         /\ Held(y.boxes, y.cache) \subseteq Held(x.boxes, x.cache) \cup Covered(e)
<1>1. /\ HeldApart(x.boxes, x.cache) /\ ReservesAll(x.res, x.boxes)
      /\ \A p \in 1..Len(x.cache) : x.cache[p] \in E
  BY DEF Pages
<1>2. CASE ~e.active
  <2>1. y = x
    BY <1>2 DEF VisitAndRewrite
  <2> QED
    BY <2>1
<1>3. CASE e.active /\ Fate(x, e, R) \in {"kept", "disconnected"}
  <2>1. PICK cache, ne, ds : cache = x.cache /\ ne = Moved(e, R) /\ ds = y.cache
    OBVIOUS
  <2>2. y.boxes = x.boxes /\ y.res = x.res /\ ds = Append(cache, ne)
    BY <1>3, <2>1, RewriteAppends
  <2>3. ne \in E /\ ne.node = e.node /\ ne.blockers = Remap(R, e.blockers)
    BY <1>3, <2>1 DEF Moved
  <2>4. Blamed(ne) => Blamed(e)
    <3>1. PICK B : B = e.blockers
      OBVIOUS
    <3>2. B \in SUBSET (0..(MaxScene - 1))
      BY <3>1 DEF CachedBoxes
    <3>3. R \subseteq 0..(MaxScene - 1)
      OBVIOUS
    <3>4. Remap(R, B) = {} <=> B \subseteq R
      BY <3>2, <3>3, RemapTyped
    <3>5. Remap(R, B) # {} => B # {}
      BY <3>4
    <3> QED
      BY <1>3, <2>3, <3>1, <3>5 DEF Blamed
  <2>5. Blamed(ne) => CellsOf(ne.node) \cap Held(x.boxes, cache) = {}
    BY <2>1, <2>3, <2>4 DEF Covered
  <2>6. IsSeq(cache) /\ HeldApart(x.boxes, cache)
    BY <1>1, <2>1, ForestShape
  <2>7. PICK bs : bs = x.boxes
    OBVIOUS
  <2>8. /\ HeldApart(bs, ds)
        /\ Held(bs, ds) = Held(bs, cache) \cup (IF Blamed(ne) THEN CellsOf(ne.node) ELSE {})
    <3>1. /\ IsSeq(cache) /\ HeldApart(bs, cache) /\ ds = Append(cache, ne)
          /\ Blamed(ne) => CellsOf(ne.node) \cap Held(bs, cache) = {}
      BY <2>2, <2>5, <2>6, <2>7
    <3> QED
      BY <3>1, LeafAdded
  <2>9. Held(y.boxes, y.cache) \subseteq Held(x.boxes, x.cache) \cup Covered(e)
    BY <2>1, <2>2, <2>3, <2>4, <2>7, <2>8 DEF Covered
  <2>10. \A p \in 1..Len(ds) : ds[p] \in E
    <3>1. /\ Len(ds) = Len(cache) + 1 /\ Len(cache) \in Nat
          /\ \A p \in 1..Len(cache) : ds[p] = cache[p]
          /\ ds[Len(cache) + 1] = ne
      BY <2>2, <2>6, SeqAppend, SeqShape
    <3>2. ASSUME NEW p \in 1..Len(ds) PROVE ds[p] \in E
      <4>1. CASE p \in 1..Len(cache)
        BY <1>1, <2>1, <3>1, <4>1
      <4>2. CASE p = Len(cache) + 1
        BY <2>3, <3>1, <4>2
      <4> QED
        BY <3>1, <4>1, <4>2
    <3> QED
      BY <3>2
  <2>11. Pages(y, E)
    BY <1>1, <2>1, <2>2, <2>7, <2>8, <2>10 DEF Pages
  <2> QED
    BY <2>9, <2>11
<1>4. CASE e.active /\ Fate(x, e, R) \notin {"kept", "disconnected"}
  <2>1. y = Promoted(x, e, R)
    BY <1>4 DEF VisitAndRewrite
  <2>2. Blamed(e)
    BY <1>4 DEF Fate, Blamed
  <2>3. CASE y = x
    BY <2>3
  <2>4. CASE y = CommitBox(x, e.node)
    <3>1. PICK m, cache : m = e.node /\ cache = x.cache
      OBVIOUS
    <3>2. m \in Node
      BY <3>1 DEF CachedBoxes
    <3>3. y.cache = cache
      <4>1. IsCommit(CommitBox(x, m), x, m)
        BY <3>2, CommitBoxKeeps
      <4> QED
        BY <2>4, <3>1, <4>1 DEF IsCommit
    <3>4. /\ HeldApart(x.boxes, cache) /\ CellsOf(m) \cap Held(x.boxes, cache) = {}
          /\ y.boxes = CommitBox(x, m).boxes /\ y.res = CommitBox(x, m).res
      BY <1>1, <2>2, <2>4, <3>1 DEF Covered
    <3>5. /\ HeldApart(y.boxes, cache) /\ ReservesAll(y.res, y.boxes)
          /\ Held(y.boxes, cache) = Held(x.boxes, cache) \cup CellsOf(m)
      BY <1>1, <3>2, <3>4, CommitApart
    <3>6. Pages(y, E)
      BY <1>1, <3>1, <3>3, <3>5 DEF Pages
    <3> QED
      BY <2>2, <3>1, <3>3, <3>5, <3>6 DEF Covered
  <2> QED
    BY <2>1, <2>3, <2>4 DEF Promoted
<1> QED
  BY <1>2, <1>3, <1>4

\* What the leaves from k on cover of the cache, nothing holds yet.
Pending(cache, k, H) == \A j \in 1..Len(cache) : j > k => Covered(cache[j]) \cap H = {}

\* The general path keeps the books.
LEMMA GeneralBook ==
  ASSUME NEW bs, NEW sc, NEW f \in Growing(bs, sc), NEW E, NEW F, NEW R, NEW u, NEW g,
         Book(f, E), R \in SUBSET (0..(MaxScene - 1)), GeneralRun(u, f, R, Growing(bs, sc)),
         g = PromoteGeneral(f, R), \A e \in E : e.active => Moved(e, R) \in F,
         \A e \in F : ~e.active => e.blockers = {}
  PROVE  Book(g, F)
<1> DEFINE n == Len(f.cache)
<1>1. /\ u[0] = [f EXCEPT !.cache = <<>>] /\ n \in Nat /\ g = RebuildIndex(u[n])
      /\ \A k \in 1..n : u[k] = VisitAndRewrite(u[k - 1], f.cache[k], R)
      /\ \A k \in 0..n : u[k] \in Growing(bs, sc)
  BY DEF GeneralRun
<1>2. \A k \in 0..n : u[k] \in Forests
  BY <1>1 DEF Growing
<1>3. /\ f \in Forests /\ HeldApart(f.boxes, f.cache) /\ ReservesAll(f.res, f.boxes)
      /\ \A p \in 1..n : f.cache[p] \in E
  BY DEF Growing, Book
<1>4. \A p \in 1..n : f.cache[p] \in CachedBoxes
  BY <1>3, ForestShape
<1>5. \A i, j \in 1..n : i # j => Covered(f.cache[i]) \cap Covered(f.cache[j]) = {}
  <2> SUFFICES ASSUME NEW i \in 1..n, NEW j \in 1..n, i # j, Blamed(f.cache[i]), Blamed(f.cache[j])
               PROVE  CellsOf(f.cache[i].node) \cap CellsOf(f.cache[j].node) = {}
    BY DEF Covered
  <2>1. Disjoint(f.cache[i].node, f.cache[j].node)
    BY <1>3 DEF HeldApart
  <2> QED
    BY <2>1 DEF Disjoint
<1> DEFINE Good(k) == Pages(u[k], F) /\ Pending(f.cache, k, Held(u[k].boxes, u[k].cache))
           T == {k \in 0..n : Good(k)}
<1>6. 0 \in T
  <2>1. PICK x : x = u[0]
    OBVIOUS
  <2>2. x.boxes = f.boxes /\ x.res = f.res /\ x.cache = <<>>
    <3>1. f = [boxes |-> f.boxes, res |-> f.res, cache |-> f.cache, index |-> f.index,
               count |-> f.count, nextId |-> f.nextId]
      BY <1>3, ForestParts
    <3>2. x = [boxes |-> f.boxes, res |-> f.res, cache |-> <<>>, index |-> f.index,
               count |-> f.count, nextId |-> f.nextId]
      BY <1>1, <2>1, <3>1
    <3> QED
      BY <3>2
  <2>3. Len(x.cache) = 0
    BY <2>2, SeqEmpty
  <2>4. HeldApart(x.boxes, x.cache)
    <3>1. \A i, j \in 1..Len(x.boxes) : i # j => Disjoint(x.boxes[i].node, x.boxes[j].node)
      BY <1>3, <2>2 DEF HeldApart
    <3> QED
      BY <2>3, <3>1 DEF HeldApart
  <2>5. Pages(x, F)
    BY <1>3, <2>2, <2>3, <2>4 DEF Pages
  <2>6. ASSUME NEW j \in 1..n, Blamed(f.cache[j])
        PROVE  CellsOf(f.cache[j].node) \cap Held(x.boxes, x.cache) = {}
    <3>1. PICK bs_, cache, m : bs_ = x.boxes /\ cache = x.cache /\ m = f.cache[j].node
      OBVIOUS
    <3>2. \A i \in 1..Len(bs_) : Disjoint(m, bs_[i].node)
      <4>1. \A i \in 1..Len(f.boxes) : Disjoint(f.boxes[i].node, f.cache[j].node)
        BY <1>3, <2>6 DEF HeldApart
      <4> QED
        BY <2>2, <3>1, <4>1 DEF Disjoint
    <3>3. \A p \in 1..Len(cache) : Blamed(cache[p]) => Disjoint(m, cache[p].node)
      BY <2>3, <3>1
    <3>4. CellsOf(m) \cap Held(bs_, cache) = {}
      BY <3>2, <3>3, ApartFromHeld
    <3> QED
      BY <3>1, <3>4
  <2>7. Pending(f.cache, 0, Held(x.boxes, x.cache))
    BY <2>6 DEF Pending, Covered
  <2>8. 0 \in 0..n
    BY <1>1
  <2>9. Good(0)
    BY <2>1, <2>5, <2>7
  <2> HIDE DEF Good, n
  <2> QED
    BY <2>8, <2>9
<1>7. ASSUME NEW k \in 1..n, k - 1 \in T PROVE k \in T
  <2>1. PICK x, y, e : x = u[k - 1] /\ y = u[k] /\ e = f.cache[k]
    OBVIOUS
  <2>2. k - 1 \in 0..n /\ k \in 0..n
    BY <1>1
  <2>3. x \in Forests /\ e \in CachedBoxes /\ e \in E /\ y = VisitAndRewrite(x, e, R)
    BY <1>1, <1>2, <1>3, <1>4, <2>1, <2>2
  <2>4. Pages(x, F) /\ Pending(f.cache, k - 1, Held(x.boxes, x.cache))
    BY <1>7, <2>1
  <2>5. Covered(e) \cap Held(x.boxes, x.cache) = {}
    <3>1. k > k - 1
      OBVIOUS
    <3> QED
      BY <2>1, <2>4, <3>1 DEF Pending
  <2>6. e.active => Moved(e, R) \in F
    BY <2>3
  <2>7. /\ Pages(y, F)
        /\ Held(y.boxes, y.cache) \subseteq Held(x.boxes, x.cache) \cup Covered(e)
    BY <2>3, <2>4, <2>5, <2>6, RewriteBook
  <2>8. Pending(f.cache, k, Held(y.boxes, y.cache))
    <3>1. ASSUME NEW j \in 1..n, j > k
          PROVE  Covered(f.cache[j]) \cap Held(y.boxes, y.cache) = {}
      <4>1. Covered(f.cache[j]) \cap Held(x.boxes, x.cache) = {}
        <5>1. j > k - 1
          BY <3>1
        <5> QED
          BY <2>4, <5>1 DEF Pending
      <4>2. Covered(f.cache[j]) \cap Covered(e) = {}
        <5>1. j # k
          BY <3>1
        <5>2. Covered(f.cache[j]) \cap Covered(f.cache[k]) = {}
          BY <1>5, <5>1
        <5> QED
          BY <2>1, <5>2
      <4> QED
        BY <2>7, <4>1, <4>2
    <3> QED
      BY <3>1 DEF Pending
  <2> QED
    BY <2>1, <2>2, <2>7, <2>8
<1>8. \A k \in 0..n : k \in T
  <2> HIDE DEF T, n
  <2> QED
    BY <1>1, <1>6, <1>7, UpTo
<1>9. PICK x : x = u[n]
  OBVIOUS
<1>10. x \in Forests /\ Pages(x, F)
  <2>1. n \in 0..n
    BY <1>1
  <2> QED
    BY <1>2, <1>8, <1>9, <2>1
<1> QED
  BY <1>1, <1>9, <1>10, RebuildBook DEF Pages

\* The positions left in front of a removed interval stay, those behind it move up.
LEMMA LeftSkips ==
  ASSUME SceneOK, NEW r \in 0..(Len(scene) - 1), NEW c \in 1..(Len(scene) - r),
         NEW R, R = r..(r + c - 1)
  PROVE  /\ Len(Left(R)) = Len(scene) - c
         /\ \A k \in 1..(Len(scene) - c) : Left(R)[k] = scene[IF k <= r THEN k ELSE k + c]
<1> DEFINE n == Len(scene)
           s == [k \in 1..n |-> k]
           S == {k \in DOMAIN scene : k - 1 \notin R}
<1>1. n \in Nat /\ DOMAIN scene = 1..n
  BY LenProperties DEF SceneOK
<1>0. r \in Nat /\ c \in Nat /\ 1 <= c /\ r + c <= n
  BY <1>1
<1>2. IsSeq(s) /\ Len(s) = n /\ \A k \in 1..n : s[k] = k
  <2>1. s = [k \in 1..n |-> s[k]] /\ \A k \in 1..n : s[k] = k
    OBVIOUS
  <2> HIDE DEF s, n
  <2> QED
    BY <1>1, <2>1, SeqFunction
<1>3. \A k \in 1..n : k \in S <=> k <= r \/ k > r + c
  BY <1>1
<1>4. LeftPositions(R) = Kept(s, S)
  BY DEF LeftPositions
<1> HIDE DEF s, S
<1>5. PICK u : /\ u[0] = <<>> /\ Kept(s, S) = u[Len(s)] /\ Len(s) \in Nat
               /\ \A k \in 1..Len(s) :
                    u[k] = IF s[k] \in S THEN Append(u[k - 1], s[k]) ELSE u[k - 1]
  BY <1>2, KeptUnfolds
<1>6. \A k \in 1..n : u[k] = IF k <= r \/ k > r + c THEN Append(u[k - 1], k) ELSE u[k - 1]
  BY <1>2, <1>3, <1>5
<1> DEFINE Size(k) == IF k <= r THEN k ELSE IF k <= r + c THEN r ELSE k - c
           Good(k) == /\ IsSeq(u[k]) /\ Len(u[k]) = Size(k)
                      /\ \A j \in 1..Len(u[k]) : u[k][j] = IF j <= r THEN j ELSE j + c
           T == {k \in 0..n : Good(k)}
<1>7. 0 \in T
  BY <1>1, <1>5, SeqEmpty
<1>8. ASSUME NEW k \in 1..n, k - 1 \in T PROVE k \in T
  <2>1. PICK x, y : x = u[k - 1] /\ y = u[k]
    OBVIOUS
  <2>2. /\ IsSeq(x) /\ Len(x) = Size(k - 1)
        /\ \A j \in 1..Len(x) : x[j] = IF j <= r THEN j ELSE j + c
    BY <1>8, <2>1
  <2>3. CASE k <= r \/ k > r + c
    <3>1. y = Append(x, k)
      BY <1>6, <2>1, <2>3
    <3>2. /\ IsSeq(y) /\ Len(y) = Len(x) + 1 /\ y[Len(x) + 1] = k
          /\ \A j \in 1..Len(x) : y[j] = x[j]
      <4>1. IsSeq(x)
        BY <2>2
      <4>2. /\ IsSeq(Append(x, k)) /\ Len(Append(x, k)) = Len(x) + 1
            /\ \A j \in 1..Len(x) : Append(x, k)[j] = x[j]
            /\ Append(x, k)[Len(x) + 1] = k
        BY <4>1, SeqAppend
      <4> QED
        BY <3>1, <4>2
    <3>3. Len(y) = Size(k) /\ Len(x) + 1 = Size(k)
      BY <2>2, <2>3, <3>2
    <3>4. k = IF Len(x) + 1 <= r THEN Len(x) + 1 ELSE Len(x) + 1 + c
      BY <2>3, <3>3
    <3>5. ASSUME NEW j \in 1..Len(y) PROVE y[j] = IF j <= r THEN j ELSE j + c
      <4>1. CASE j \in 1..Len(x)
        BY <2>2, <3>2, <4>1
      <4>2. CASE j = Len(x) + 1
        BY <3>2, <3>4, <4>2
      <4>3. Len(x) \in Nat
        BY <2>2, <2>3
      <4> QED
        BY <3>2, <4>1, <4>2, <4>3
    <3> QED
      BY <2>1, <3>2, <3>3, <3>5
  <2>4. CASE ~(k <= r \/ k > r + c)
    <3>1. y = x
      BY <1>6, <2>1, <2>4
    <3>2. Size(k - 1) = Size(k)
      BY <2>4
    <3>3. Good(k)
      BY <2>1, <2>2, <3>1, <3>2
    <3>4. k \in 0..n
      BY <1>1
    <3> HIDE DEF Good, n
    <3> QED
      BY <3>3, <3>4
  <2> QED
    BY <2>3, <2>4
<1>9. \A k \in 0..n : k \in T
  <2> HIDE DEF T, n
  <2> QED
    BY <1>1, <1>7, <1>8, UpTo
<1>10. PICK v : v = LeftPositions(R)
  OBVIOUS
<1>11. v = u[n]
  BY <1>2, <1>4, <1>5, <1>10
<1>12. Size(n) = n - c
  <2> HIDE DEF n
  <2> QED
    BY <1>0, <1>1
<1>13. /\ IsSeq(v) /\ Len(v) = n - c
       /\ \A j \in 1..(n - c) : v[j] = IF j <= r THEN j ELSE j + c
  <2>1. n \in T
    <3>1. n \in 0..n
      BY <1>1
    <3> HIDE DEF T
    <3> QED
      BY <1>9, <3>1
  <2> QED
    BY <1>11, <1>12, <2>1
<1>14. DOMAIN v = 1..(n - c) /\ n - c \in Nat
  BY <1>1, <1>13, SeqShape
<1>15. PICK w : w = Left(R)
  OBVIOUS
<1>16. w = [k \in 1..(n - c) |-> scene[v[k]]]
  BY <1>10, <1>14, <1>15 DEF Left
<1>17. Len(w) = n - c
  <2>1. PICK m : m = n - c
    OBVIOUS
  <2>2. m \in Nat /\ w = [k \in 1..m |-> w[k]]
    BY <1>14, <1>16, <2>1
  <2>3. Len(w) = m
    BY <2>2, SeqFunction
  <2> QED
    BY <2>1, <2>3
<1> QED
  BY <1>13, <1>15, <1>16, <1>17

\* A removal takes an interval of the scene: one obstacle, or all from one on.
LEMMA RemovalInterval ==
  ASSUME SceneOK, NEW R, Removal(R)
  PROVE  \E r \in 0..(Len(scene) - 1) : \E c \in 1..(Len(scene) - r) :
           R = r..(r + c - 1) /\ (c = 1 \/ r + c = Len(scene))
<1>1. PICK n : n = Len(scene)
  OBVIOUS
<1>2. n \in Nat
  BY <1>1, LenProperties DEF SceneOK
<1>3. PICK i \in 0..(n - 1) : R = {i} \/ R = i..(n - 1)
  BY <1>1 DEF Removal
<1>4. CASE R = {i}
  <2>1. R = i..(i + 1 - 1) /\ 1 \in 1..(n - i)
    BY <1>2, <1>4
  <2> QED
    BY <1>1, <2>1
<1>5. CASE R = i..(n - 1)
  <2>1. PICK c : c = n - i
    OBVIOUS
  <2>2. c \in 1..(n - i) /\ R = i..(i + c - 1) /\ i + c = n
    BY <1>2, <1>5, <2>1
  <2> QED
    BY <1>1, <2>2
<1> QED
  BY <1>3, <1>4, <1>5

\* The cached leaves of the scene S of n obstacles; if b, they blame completely.
Known(n, S, b) == {e \in Entries(n) : b => BlamesAll(e, S, 1..n)}

\* A known leaf is an entry.
LEMMA KnownParts ==
  ASSUME NEW n, NEW S, NEW b, NEW e
  PROVE  e \in Known(n, S, b) <=> e \in Entries(n) /\ (b => BlamesAll(e, S, 1..n))
BY DEF Known

\* Books over some leaves are books over more of them.
LEMMA BookWider ==
  ASSUME NEW f, NEW E, NEW F, Book(f, E), \A p \in 1..Len(f.cache) : f.cache[p] \in E => f.cache[p] \in F
  PROVE  Book(f, F)
BY DEF Book

\* When obstacle r goes, the leaf's obstacles behind it move up by one.
LEMMA RemapOfOne ==
  ASSUME NEW n \in Nat, NEW r \in 0..(n - 1), NEW B, B \subseteq 0..(n - 1),
         NEW R, R = {r}
  PROVE  /\ Remap(R, B) \subseteq 0..(n - 2)
         /\ \A i \in B : i < r => i \in Remap(R, B)
         /\ \A i \in B : i > r => i - 1 \in Remap(R, B)
<1>1. ASSUME NEW i \in 0..(n - 1), i # r
      PROVE  i - RemovedBefore(R, i) = IF r < i THEN i - 1 ELSE i
  <2>1. CASE r < i
    <3>1. {x \in R : x < i} = {r}
      BY <2>1
    <3>2. RemovedBefore(R, i) = 1
      BY <3>1, FS_Singleton DEF RemovedBefore
    <3> QED
      BY <2>1, <3>2
  <2>2. CASE ~(r < i)
    <3>1. {x \in R : x < i} = {}
      BY <2>2
    <3>2. RemovedBefore(R, i) = 0
      BY <3>1, FS_EmptySet DEF RemovedBefore
    <3> QED
      BY <2>2, <3>2
  <2> QED
    BY <2>1, <2>2
<1>2. \A i \in B \ R : i \in 0..(n - 1) /\ i # r
  OBVIOUS
<1>3. ASSUME NEW j \in Remap(R, B) PROVE j \in 0..(n - 2)
  <2>1. PICK i \in B \ R : j = i - RemovedBefore(R, i)
    BY DEF Remap
  <2>2. j = IF r < i THEN i - 1 ELSE i
    BY <1>1, <1>2, <2>1
  <2> QED
    BY <1>2, <2>2
<1>4. ASSUME NEW i \in B, i # r PROVE (IF r < i THEN i - 1 ELSE i) \in Remap(R, B)
  <2>1. i \in B \ R
    BY <1>4
  <2>2. i - RemovedBefore(R, i) \in Remap(R, B)
    BY <2>1 DEF Remap
  <2> QED
    BY <1>1, <1>2, <2>1, <2>2
<1>5. r \in Int /\ \A i \in B : i \in Int
  OBVIOUS
<1>6. ASSUME NEW i \in B, i < r PROVE i \in Remap(R, B)
  <2>1. i # r /\ ~(r < i)
    BY <1>5, <1>6
  <2> QED
    BY <1>4, <2>1
<1>7. ASSUME NEW i \in B, i > r PROVE i - 1 \in Remap(R, B)
  <2>1. i # r /\ r < i
    BY <1>5, <1>7
  <2> QED
    BY <1>4, <2>1
<1> QED
  BY <1>3, <1>6, <1>7

\* When obstacle r goes, what a leaf blames moves with the obstacles behind it.
LEMMA MovedKnown ==
  ASSUME SceneOK, NEW r \in 0..(Len(scene) - 1), NEW R, R = {r}, NEW b,
         NEW e \in Known(Len(scene), scene, b), e.active, NEW x, x = Moved(e, R)
  PROVE  x \in Known(Len(Left(R)), Left(R), b)
<1>1. PICK n : n = Len(scene)
  OBVIOUS
<1>2. n \in Nat /\ n <= MaxScene /\ MaxScene \in Nat /\ r \in 0..(n - 1)
  BY <1>1, LenProperties, BoundAssumption DEF SceneOK
<1>3. /\ Len(Left(R)) = n - 1
      /\ \A k \in 1..(n - 1) : Left(R)[k] = scene[IF k <= r THEN k ELSE k + 1]
  <2>1. PICK c : c = 1
    OBVIOUS
  <2>2. c \in 1..(Len(scene) - r) /\ R = r..(r + c - 1)
    BY <1>1, <1>2, <2>1
  <2>3. /\ Len(Left(R)) = Len(scene) - c
        /\ \A k \in 1..(Len(scene) - c) : Left(R)[k] = scene[IF k <= r THEN k ELSE k + c]
    BY <2>2, LeftSkips
  <2> QED
    BY <1>1, <2>1, <2>3
<1>4. e \in Entries(n) /\ (b => BlamesAll(e, scene, 1..n))
  BY <1>1, KnownParts
<1>5. /\ e.node \in Node /\ e.blockers \subseteq 0..(n - 1)
  BY <1>4, EntryParts
<1>6. PICK B : B = e.blockers
  OBVIOUS
<1>7. /\ Remap(R, B) \subseteq 0..(n - 2)
      /\ \A i \in B : i < r => i \in Remap(R, B)
      /\ \A i \in B : i > r => i - 1 \in Remap(R, B)
  <2>1. B \subseteq 0..(n - 1)
    BY <1>5, <1>6
  <2> QED
    BY <1>2, <2>1, RemapOfOne
<1>8. PICK C : C = Remap(R, B)
  OBVIOUS
<1>9. x = [node |-> e.node, blockers |-> C, active |-> TRUE]
  BY <1>6, <1>8 DEF Moved
<1>10. x.node = e.node /\ x.blockers = C /\ x.active = TRUE
  BY <1>9
<1>11. C \subseteq 0..((n - 1) - 1) /\ C \in SUBSET (0..(MaxScene - 1))
  <2>1. C \subseteq 0..(n - 2)
    BY <1>7, <1>8
  <2>2. \A j \in 0..(n - 2) : j \in 0..((n - 1) - 1) /\ j \in 0..(MaxScene - 1)
    BY <1>2
  <2> QED
    BY <2>1, <2>2
<1>12. x \in Entries(n - 1)
  BY <1>5, <1>9, <1>10, <1>11, EntryParts
<1>13. ASSUME b PROVE BlamesAll(x, Left(R), 1..(n - 1))
  <2> SUFFICES ASSUME Blamed(x), NEW k \in 1..(n - 1), CellsOf(x.node) \cap Covers[Left(R)[k]] # {}
               PROVE  k - 1 \in C
    BY <1>10 DEF BlamesAll
  <2>1. B # {}
    <3>1. C # {}
      BY <1>10 DEF Blamed
    <3> QED
      BY <1>8, <3>1 DEF Remap
  <2>2. Blamed(e)
    BY <1>6, <2>1 DEF Blamed
  <2>3. PICK m : m = IF k <= r THEN k ELSE k + 1
    OBVIOUS
  <2>4. m \in 1..n /\ CellsOf(e.node) \cap Covers[scene[m]] # {}
    <3>1. m \in 1..n
      BY <1>2, <2>3
    <3>2. Left(R)[k] = scene[m]
      BY <1>3, <2>3
    <3> QED
      BY <1>10, <3>1, <3>2
  <2>5. m - 1 \in B
    BY <1>4, <1>6, <1>13, <2>2, <2>4 DEF BlamesAll
  <2>6. CASE k <= r
    <3>1. m = k /\ k - 1 < r
      BY <1>2, <2>3, <2>6
    <3> QED
      BY <1>7, <1>8, <2>5, <3>1
  <2>7. CASE k > r
    <3>1. m - 1 > r /\ (m - 1) - 1 = k - 1
      BY <1>2, <2>3, <2>7
    <3> QED
      BY <1>7, <1>8, <2>5, <3>1
  <2> QED
    BY <1>2, <2>6, <2>7
<1> QED
  BY <1>3, <1>12, <1>13, KnownParts

\* A removal by the suffix path leaves the books of the scene in front.
LEMMA SuffixKnown ==
  ASSUME SceneOK, NEW first \in 0..(Len(scene) - 1), NEW R, R = first..(Len(scene) - 1), NEW b,
         NEW f \in Grown(boxes, <<>>), Book(f, Known(Len(scene), scene, b)),
         NEW g, g = PromoteSuffix(f, R, Len(Left(R)))
  PROVE  Book(g, Known(Len(Left(R)), Left(R), b))
<1>1. PICK n : n = Len(scene)
  OBVIOUS
<1>2. n \in Nat /\ n <= MaxScene /\ first \in Nat /\ first <= n /\ R = first..(n - 1) /\ first < n
  BY <1>1, LenProperties DEF SceneOK
<1>3. Len(Left(R)) = first /\ \A k \in 1..first : Left(R)[k] = scene[k]
  <2>1. PICK c : c = n - first
    OBVIOUS
  <2>2. c \in 1..(Len(scene) - first) /\ R = first..(first + c - 1)
    BY <1>1, <1>2, <2>1
  <2>3. /\ Len(Left(R)) = Len(scene) - c
        /\ \A k \in 1..(Len(scene) - c) : Left(R)[k] = scene[IF k <= first THEN k ELSE k + c]
    BY <2>2, LeftSkips
  <2> QED
    BY <1>1, <1>2, <2>1, <2>3
<1>4. PICK K : K = IF b THEN 1..first ELSE {}
  OBVIOUS
<1>5. PICK m : m = Len(f.cache)
  OBVIOUS
<1>6. \A p \in 1..m : f.cache[p] \in Entries(n) /\ (b => BlamesAll(f.cache[p], scene, 1..n))
  <2>1. \A p \in 1..m : f.cache[p] \in Known(n, scene, b)
    BY <1>1, <1>5 DEF Book
  <2> QED
    BY <2>1, KnownParts
<1>7. f \in Regrown(boxes, <<>>, scene, K, m)
  <2>1. ASSUME NEW p \in 1..m PROVE BlamesAll(f.cache[p], scene, K)
    <3>1. \A k \in K : b /\ k \in 1..n
      BY <1>2, <1>4
    <3> QED
      BY <1>6, <3>1 DEF BlamesAll
  <2> QED
    BY <1>5, <2>1 DEF Regrown
<1>8. Book(f, Entries(n))
  BY <1>1, <1>5, <1>6 DEF Book
<1>9. \A k \in K : k - 1 \notin R /\ \A r \in R : k - 1 < r
  BY <1>2, <1>4
<1>10. PICK sc : sc = <<>>
  OBVIOUS
<1>11. Range(sc) \subseteq {scene[k] : k \in K}
  BY <1>10, SeqEmpty
<1>12. Book(g, Entries(first)) /\ g \in Regrown(boxes, sc, scene, K, m)
  <2>1. f \in Regrown(boxes, sc, scene, K, m) /\ g = PromoteSuffix(f, R, first)
    BY <1>3, <1>7, <1>10
  <2> QED
    BY <1>2, <1>8, <1>9, <1>11, <2>1, SuffixCleared
<1>13. ASSUME NEW p \in 1..Len(g.cache) PROVE g.cache[p] \in Known(first, Left(R), b)
  <2>1. g.cache[p] \in Entries(first) /\ BlamesAll(g.cache[p], scene, K)
    BY <1>12 DEF Book, Regrown
  <2>2. b => BlamesAll(g.cache[p], Left(R), 1..first)
    BY <1>3, <1>4, <2>1 DEF BlamesAll
  <2> QED
    BY <2>1, <2>2, KnownParts
<1>14. Book(g, Known(first, Left(R), b))
  BY <1>12, <1>13 DEF Book
<1> QED
  BY <1>3, <1>14

\* A removal of one obstacle by the general path leaves the books of the scene left.
LEMMA GeneralKnown ==
  ASSUME SceneOK, NEW r \in 0..(Len(scene) - 1), NEW R, R = {r}, NEW b,
         NEW f \in Grown(boxes, <<>>), Book(f, Known(Len(scene), scene, b)),
         NEW g, g = PromoteGeneral(f, R)
  PROVE  Book(g, Known(Len(Left(R)), Left(R), b))
<1>1. PICK E, F : E = Known(Len(scene), scene, b) /\ F = Known(Len(Left(R)), Left(R), b)
  OBVIOUS
<1>2. PICK sc, K : sc = <<>> /\ K = {}
  OBVIOUS
<1>3. f \in Growing(boxes, sc) /\ Book(f, E)
  BY <1>1, <1>2 DEF Grown, Growing
<1>4. R \in SUBSET (0..(MaxScene - 1)) /\ R \subseteq 0..(MaxScene - 1)
  BY LenProperties, BoundAssumption DEF SceneOK
<1>5. PICK u : GeneralRun(u, f, R, Growing(boxes, sc))
  <2>1. \A p \in 1..Len(f.cache) : BlamesAll(f.cache[p], scene, K)
    BY <1>2 DEF BlamesAll
  <2>2. (\A k \in K : k - 1 \notin R) /\ Range(sc) \subseteq {scene[k] : k \in K}
    BY <1>2, SeqEmpty
  <2> QED
    BY <1>3, <1>4, <2>1, <2>2, PromoteGeneralUnfolds
<1>6. \A e \in E : e.active => Moved(e, R) \in F
  <2> SUFFICES ASSUME NEW e \in E, e.active PROVE Moved(e, R) \in F
    OBVIOUS
  <2>1. PICK x : x = Moved(e, R)
    OBVIOUS
  <2>2. e \in Known(Len(scene), scene, b)
    BY <1>1
  <2>3. x \in Known(Len(Left(R)), Left(R), b)
    BY <2>1, <2>2, MovedKnown
  <2> QED
    BY <1>1, <2>1, <2>3
<1>7. \A e \in F : ~e.active => e.blockers = {}
  BY <1>1, KnownParts, EntryParts
<1>8. Book(g, F)
  BY <1>3, <1>4, <1>5, <1>6, <1>7, GeneralBook
<1> QED
  BY <1>1, <1>8

\* Books that blame nothing are books of any scene.
LEMMA NothingBlamed ==
  ASSUME NEW f \in Forests, CountExact(f), f.count <= 0, NEW n, NEW S, NEW b, NEW m, NEW U,
         Book(f, Known(n, S, b))
  PROVE  Book(f, Known(m, U, b))
<1>1. IsSeq(f.cache) /\ DOMAIN f.cache = 1..Len(f.cache) /\ f.cache \in Seq(CachedBoxes)
  BY ForestParts, ForestShape, SeqShape
<1>2. BlamedIn(f.cache) = {}
  <2>1. IsFiniteSet(BlamedIn(f.cache)) /\ Cardinality(BlamedIn(f.cache)) \in Nat
    BY <1>1, BlamedFinite, FS_CardinalityType
  <2>2. Cardinality(BlamedIn(f.cache)) = 0
    BY <2>1 DEF CountExact
  <2> QED
    BY <2>1, <2>2, FS_EmptySet
<1>3. ASSUME NEW p \in 1..Len(f.cache), f.cache[p] \in Known(n, S, b)
      PROVE  f.cache[p] \in Known(m, U, b)
  <2>1. PICK e : e = f.cache[p]
    OBVIOUS
  <2>2. ~Blamed(e)
    BY <1>1, <1>2, <2>1 DEF BlamedIn
  <2>3. /\ e = [node |-> e.node, blockers |-> e.blockers, active |-> e.active]
        /\ e.node \in Node /\ e.blockers \in SUBSET (0..(MaxScene - 1)) /\ e.active \in BOOLEAN
        /\ (~e.active => e.blockers = {})
    BY <1>3, <2>1, KnownParts, EntryParts
  <2>4. e.blockers = {}
    BY <2>2, <2>3 DEF Blamed
  <2>5. e \in Entries(m)
    BY <2>3, <2>4, EntryParts
  <2>6. BlamesAll(e, U, 1..m)
    BY <2>2 DEF BlamesAll
  <2> QED
    BY <2>1, <2>5, <2>6, KnownParts
<1> QED
  BY <1>3, BookWider

\* A removal keeps the books, and complete blame complete.
LEMMA RemoveBook ==
  ASSUME BoxesOK, CacheOK, SceneOK, NEW R, Removal(R), NEW b,
         BooksKept(Known(Len(scene), scene, b))
  PROVE  Book(RegrownForest(R), Known(Len(Left(R)), Left(R), b))
<1> DEFINE start == [Forest EXCEPT !.res = Reservations(boxes)]
<1>1. PICK f0, sc, E : f0 = start /\ sc = <<>> /\ E = Known(Len(scene), scene, b)
  OBVIOUS
<1>2. /\ f0 \in Grown(boxes, sc) /\ f0.cache = collisionCache /\ f0.boxes = boxes
      /\ f0.res = Reservations(boxes) /\ f0.index = blockerIndex
  BY <1>1, RegrowStart
<1>3. RegrownForest(R) = PromoteUnblocked(f0, R, Len(Left(R)))
  BY <1>1 DEF RegrownForest
<1> HIDE DEF start
<1>4. Book(f0, E)
  <2>1. \A i, j \in 1..Len(boxes) : i # j => Disjoint(boxes[i].node, boxes[j].node)
    BY DEF BooksKept, HeldApart
  <2>2. ReservesAll(Reservations(boxes), boxes)
    BY <2>1, ReservationsReserve DEF BoxesOK
  <2> QED
    BY <1>1, <1>2, <2>2 DEF BooksKept, Book
<1>5. \A e \in E : ~e.active => e.blockers = {}
  BY <1>1, KnownParts, EntryParts
<1>6. PICK f : f = IF f0.count <= 0 /\ f0.cache # <<>> THEN RebuildIndex(f0) ELSE f0
  OBVIOUS
<1>7. f \in Grown(boxes, sc) /\ Book(f, E)
  <2>1. CASE f = f0
    BY <1>2, <1>4, <2>1
  <2>2. CASE f = RebuildIndex(f0)
    <3>1. f0 \in Forests
      BY <1>2 DEF Grown
    <3>2. /\ f \in Forests /\ CacheExact(f)
          /\ f.boxes = f0.boxes /\ f.nextId = f0.nextId /\ f.res = f0.res /\ f.cache = f0.cache
      BY <2>2, <3>1, RebuildIndexKeeps
    <3>3. f \in Grown(boxes, sc)
      BY <1>2, <3>2 DEF Grown, FreshIds, Extends, FreeFrom
    <3>4. Book(f, E)
      BY <1>4, <1>5, <2>2, <3>1, RebuildBook DEF Book
    <3> QED
      BY <3>3, <3>4
  <2> QED
    BY <1>6, <2>1, <2>2
<1>8. f \in Forests /\ CountExact(f)
  BY <1>7 DEF Grown, CacheExact
<1>9. PICK g, n : g = RegrownForest(R) /\ n = Len(scene)
  OBVIOUS
<1>10. f \in Grown(boxes, <<>>) /\ Book(f, Known(Len(scene), scene, b))
  BY <1>1, <1>7
<1>11. CASE f.count <= 0
  <2>1. g = f
    BY <1>3, <1>6, <1>9, <1>11 DEF PromoteUnblocked
  <2> QED
    BY <1>8, <1>9, <1>10, <1>11, <2>1, NothingBlamed
<1>12. CASE ~(f.count <= 0)
  <2>1. PICK r \in 0..(Len(scene) - 1) : \E c \in 1..(Len(scene) - r) :
           R = r..(r + c - 1) /\ (c = 1 \/ r + c = Len(scene))
    BY RemovalInterval
  <2>2. PICK c \in 1..(Len(scene) - r) : R = r..(r + c - 1) /\ (c = 1 \/ r + c = Len(scene))
    BY <2>1
  <2>3. n \in Nat /\ r \in 0..(n - 1) /\ c \in 1..(n - r)
    BY <1>9, LenProperties DEF SceneOK
  <2>4. Len(Left(R)) = n - c
    BY <1>9, <2>2, LeftSkips
  <2>5. (\A x \in R : x >= Len(Left(R))) <=> r + c = n
    BY <1>9, <2>2, <2>3, <2>4
  <2>6. CASE r + c = n
    <3>1. g = PromoteSuffix(f, R, Len(Left(R)))
      BY <1>3, <1>6, <1>9, <1>12, <2>5, <2>6 DEF PromoteUnblocked
    <3>2. R = r..(Len(scene) - 1)
      BY <1>9, <2>2, <2>3, <2>6
    <3> QED
      BY <1>9, <1>10, <3>1, <3>2, SuffixKnown
  <2>7. CASE r + c # n
    <3>1. g = PromoteGeneral(f, R)
      BY <1>3, <1>6, <1>9, <1>12, <2>5, <2>7 DEF PromoteUnblocked
    <3>2. R = {r}
      BY <1>9, <2>2, <2>3, <2>7
    <3> QED
      BY <1>9, <1>10, <3>1, <3>2, GeneralKnown
  <2> QED
    BY <2>6, <2>7
<1> QED
  BY <1>11, <1>12

-----------------------------------------------------------------------------
(* The invariant of the bookkeeping. *)

\* The books of the forest as they stand, for the scene as it stands.
Books(b) == BooksKept(Known(Len(scene), scene, b))
BookInv == DynInv /\ Books(FALSE)

\* The books of a forest a method ends with.
LEMMA SetForestBooks ==
  ASSUME NEW f, NEW S, NEW b, SetForest(f), scene' = S, Book(f, Known(Len(S), S, b))
  PROVE  Books(b)'
<1>1. /\ boxes' = f.boxes /\ reservations' = f.res
      /\ collisionCache' = f.cache /\ blockerIndex' = f.index
  BY DEF SetForest
<1> QED
  BY <1>1 DEF Book, Books, BooksKept

\* What is known of complete blame is known without it.
LEMMA BooksWider ==
  ASSUME NEW f, NEW n, NEW S, Book(f, Known(n, S, TRUE))
  PROVE  Book(f, Known(n, S, FALSE))
<1>1. \A p \in 1..Len(f.cache) : f.cache[p] \in Known(n, S, FALSE)
  <2>1. \A p \in 1..Len(f.cache) : f.cache[p] \in Known(n, S, TRUE)
    BY DEF Book
  <2> QED
    BY <2>1 DEF Known
<1> QED
  BY <1>1 DEF Book

\* A leaf sweep blames all the obstacles it finds.
LEMMA SweepKnown ==
  ASSUME NEW sc, sc \in Seq(Obstacle), Len(sc) <= MaxScene, NEW oneGroup \in BOOLEAN,
         NEW n \in CollisionNodes(sc)
  PROVE  [node |-> n, blockers |-> SweepBlockers(n, sc, oneGroup), active |-> TRUE]
           \in Known(Len(sc), sc, TRUE)
<1>1. PICK B : B = SweepBlockers(n, sc, oneGroup)
  OBVIOUS
<1>2. PICK e : e = [node |-> n, blockers |-> B, active |-> TRUE]
  OBVIOUS
<1>3. Len(sc) \in Nat /\ MaxScene \in Nat
  BY LenProperties, BoundAssumption
<1>4. B \subseteq 0..(Len(sc) - 1) /\ B \in SUBSET (0..(MaxScene - 1))
  <2>1. B \subseteq 0..(Len(sc) - 1)
    BY <1>1 DEF SweepBlockers
  <2>2. \A i \in 0..(Len(sc) - 1) : i \in 0..(MaxScene - 1)
    BY <1>3
  <2> QED
    BY <2>1, <2>2
<1>5. n \in Node /\ e.node = n /\ e.blockers = B /\ e.active = TRUE
  BY <1>2 DEF CollisionNodes, Swept
<1>6. e \in Entries(Len(sc))
  BY <1>2, <1>4, <1>5, EntryParts
<1>7. BlamesAll(e, sc, 1..Len(sc))
  <2> SUFFICES ASSUME NEW k \in 1..Len(sc), CellsOf(n) \cap Covers[sc[k]] # {}
               PROVE  k - 1 \in B
    BY <1>5 DEF BlamesAll
  <2>1. k - 1 \in 0..(Len(sc) - 1) /\ (k - 1) + 1 = k
    BY <1>3
  <2> QED
    BY <1>1, <2>1 DEF SweepBlockers
<1> QED
  BY <1>1, <1>2, <1>6, <1>7, KnownParts

\* build_leaf_sweep starts the books, and blames completely.
LEMMA BuildBooks ==
  ASSUME NEW sc \in Scenes, NEW oneGroup \in BOOLEAN, BuildLeafSweep(sc, oneGroup)
  PROVE  Books(FALSE)' /\ Books(TRUE)'
<1>1. sc \in Seq(Obstacle) /\ Len(sc) <= MaxScene
  BY ListAssumption
<1>2. PICK E, f : E = Known(Len(sc), sc, TRUE) /\ f = SweptForest(sc, oneGroup)
  OBVIOUS
<1>3. \A n \in CollisionNodes(sc) :
        [node |-> n, blockers |-> SweepBlockers(n, sc, oneGroup), active |-> TRUE] \in E
  BY <1>1, <1>2, SweepKnown
<1>4. Book(SweptForest(sc, oneGroup), E)
  BY <1>1, <1>3, SweptBook
<1>5. SetForest(f) /\ scene' = sc
  BY <1>2 DEF BuildLeafSweep
<1>6. Book(f, Known(Len(sc), sc, TRUE)) /\ Book(f, Known(Len(sc), sc, FALSE))
  BY <1>2, <1>4, BooksWider
<1> QED
  BY <1>5, <1>6, SetForestBooks

\* An empty forest has empty books.
LEMMA EmptyBooks ==
  ASSUME boxes = <<>>, reservations = [n \in {} |-> 0], collisionCache = <<>>, NEW b
  PROVE  Books(b)
<1>1. Len(boxes) = 0 /\ Len(collisionCache) = 0
  BY SeqEmpty
<1> QED
  BY <1>1 DEF Books, BooksKept, HeldApart, ReservesAll, Listed

\* clear_forest empties the books.
LEMMA ClearBooks ==
  ASSUME ClearForest
  PROVE  Books(FALSE)' /\ Books(TRUE)'
<1>1. PICK f, r : f = NewForest(<<>>, r) /\ r = [n \in {} |-> 0]
  OBVIOUS
<1>2. SetForest(f) /\ scene' = scene
  BY <1>1 DEF ClearForest
<1>3. f.boxes = <<>> /\ f.res = r /\ f.cache = <<>>
  BY <1>1 DEF NewForest
<1>4. /\ boxes' = <<>> /\ reservations' = [n \in {} |-> 0] /\ collisionCache' = <<>>
  BY <1>1, <1>2, <1>3 DEF SetForest
<1>5. Len(boxes') = 0 /\ Len(collisionCache') = 0
  BY <1>4, SeqEmpty
<1> QED
  BY <1>4, <1>5 DEF Books, BooksKept, HeldApart, ReservesAll, Listed

\* A segment edge, or a step of nobody, leaves the books alone.
LEMMA UntouchedBooks ==
  ASSUME NEW b, Books(b), UNCHANGED <<scene, boxes, reservations, collisionCache, blockerIndex>>
  PROVE  Books(b)'
BY DEF Books, BooksKept

\* A removal keeps the books.
LEMMA RemoveBooks ==
  ASSUME DynInv, NEW b, Books(b), NEW R, Removal(R), RemoveAndRegrow(R)
  PROVE  Books(b)'
<1>1. PICK f, S : f = RegrownForest(R) /\ S = Left(R)
  OBVIOUS
<1>2. SetForest(f) /\ scene' = S
  BY <1>1, RemoveUnfolded
<1>3. Book(RegrownForest(R), Known(Len(Left(R)), Left(R), b))
  BY RemoveBook DEF DynInv, Books
<1>4. Book(f, Known(Len(S), S, b))
  BY <1>1, <1>3
<1> QED
  BY <1>2, <1>4, SetForestBooks

\* The leaves of the scene are leaves of the longer scene.
LEMMA EntriesWider ==
  ASSUME NEW n \in Nat, NEW m \in Nat, n <= m, NEW e \in Entries(n)
  PROVE  e \in Entries(m)
<1>1. \A i \in 0..(n - 1) : i \in 0..(m - 1)
  OBVIOUS
<1> QED
  BY <1>1 DEF Entries

\* An insertion keeps the books; b says whether blame stays complete.
LEMMA AddBooks ==
  ASSUME DynInv, Books(FALSE), NEW os, os \in Seq(Obstacle), os # <<>>, AddObstacles(os), NEW b,
         \A p \in 1..Len(collisionCache) : b => BlamesAll(collisionCache[p], scene \o os, 1..Len(scene \o os)),
         \A k \in 1..Len(boxes) : \A n \in Node : \A e :
           /\ b /\ CellsOf(n) \subseteq CellsOf(boxes[k].node)
           /\ e = [node |-> n, blockers |-> {Len(scene)}, active |-> TRUE]
           => BlamesAll(e, scene \o os, 1..Len(scene \o os))
  PROVE  /\ Books(b)'
         /\ Held(boxes, collisionCache) \ CutCells(os) \subseteq Held(boxes', collisionCache')
<1>1. PICK f, S, E : f = Refilled(os) /\ S = scene \o os /\ E = Known(Len(S), S, b)
  OBVIOUS
<1>2. Len(S) <= MaxScene /\ scene' = S /\ SetForest(f)
  BY <1>1, AddUnfolded
<1>3. SceneOK /\ BoxesOK /\ CacheOK /\ reservations \in ReservationMaps
  BY DEF DynInv
<1>4. PICK n, m : n = Len(scene) /\ m = Len(S)
  OBVIOUS
<1>5. n \in Nat /\ m \in Nat /\ n < m /\ m <= MaxScene /\ MaxScene \in Nat
  <2>1. IsSeq(scene) /\ IsSeq(os)
    BY <1>3, SeqTyped DEF SceneOK
  <2>2. Len(S) = Len(scene) + Len(os) /\ Len(scene) \in Nat
    BY <1>1, <2>1, SeqConcat, SeqShape
  <2>3. Len(os) \in Nat /\ Len(os) # 0
    BY EmptySeq, LenProperties
  <2> QED
    BY <1>2, <1>4, <2>2, <2>3, BoundAssumption
<1>6. BooksKept(E)
  <2>1. ASSUME NEW p \in 1..Len(collisionCache) PROVE collisionCache[p] \in E
    <3>1. PICK e : e = collisionCache[p]
      OBVIOUS
    <3>2. e \in Entries(n)
      BY <1>4, <3>1 DEF Books, BooksKept, Known
    <3>3. e \in Entries(m)
      BY <1>5, <3>2, EntriesWider
    <3>4. b => BlamesAll(e, S, 1..m)
      BY <1>1, <1>4, <3>1
    <3> QED
      BY <1>1, <1>4, <3>1, <3>3, <3>4, KnownParts
  <2> QED
    BY <2>1 DEF Books, BooksKept
<1>7. ASSUME NEW k \in 1..Len(boxes) PROVE LeavesBelow(boxes[k].node, Len(scene), E)
  <2> SUFFICES ASSUME NEW x \in Node, CellsOf(x) \subseteq CellsOf(boxes[k].node)
               PROVE  [node |-> x, blockers |-> {Len(scene)}, active |-> TRUE] \in E
    BY DEF LeavesBelow
  <2>1. PICK e : e = [node |-> x, blockers |-> {n}, active |-> TRUE]
    OBVIOUS
  <2>2. e.node = x /\ e.blockers = {n} /\ e.active = TRUE
    BY <2>1
  <2>3. {n} \subseteq 0..(m - 1) /\ {n} \in SUBSET (0..(MaxScene - 1))
    BY <1>5
  <2>4. e \in Entries(m)
    BY <2>1, <2>2, <2>3, EntryParts
  <2>5. b => BlamesAll(e, S, 1..m)
    BY <1>1, <1>4, <2>1
  <2>6. e \in E
    BY <1>1, <1>4, <2>4, <2>5, KnownParts
  <2> QED
    BY <1>4, <2>1, <2>6
<1>8. Len(scene \o os) <= MaxScene
  BY <1>1, <1>2
<1>9. /\ Book(Refilled(os), E)
      /\ Held(boxes, collisionCache) \ CutCells(os)
           \subseteq Held(Refilled(os).boxes, Refilled(os).cache)
  BY <1>3, <1>6, <1>7, <1>8, RefilledBook
<1>10. Books(b)'
  <2>1. Book(f, Known(Len(S), S, b))
    BY <1>1, <1>9
  <2> QED
    BY <1>2, <2>1, SetForestBooks
<1>11. boxes' = f.boxes /\ collisionCache' = f.cache
  BY <1>2 DEF SetForest
<1> QED
  BY <1>1, <1>9, <1>10, <1>11

\* Complete blame is completely known.
LEMMA CompleteBooks ==
  ASSUME SceneOK, CacheOK
  PROVE  /\ Books(FALSE) /\ BlameComplete => Books(TRUE)
         /\ Books(TRUE) => BlameComplete
<1>1. IsSeq(collisionCache) /\ DOMAIN scene = 1..Len(scene)
  BY SeqTyped, LenProperties DEF CacheOK, SceneOK
<1>2. BlameComplete <=> \A p \in 1..Len(collisionCache) : BlamesAll(collisionCache[p], scene, 1..Len(scene))
  <2>1. /\ \A p \in 1..Len(collisionCache) : collisionCache[p] \in Range(collisionCache)
        /\ \A e \in Range(collisionCache) : \E p \in 1..Len(collisionCache) : collisionCache[p] = e
    BY <1>1, SeqShape
  <2>2. ASSUME BlameComplete, NEW p \in 1..Len(collisionCache)
        PROVE  BlamesAll(collisionCache[p], scene, 1..Len(scene))
    BY <1>1, <2>1, <2>2 DEF BlameComplete, BlamesAll
  <2>3. ASSUME \A p \in 1..Len(collisionCache) : BlamesAll(collisionCache[p], scene, 1..Len(scene))
        PROVE  BlameComplete
    BY <1>1, <2>1, <2>3 DEF BlameComplete, BlamesAll
  <2> QED
    BY <2>2, <2>3
<1> QED
  BY <1>2 DEF Books, BooksKept, Known

\* An obstacle that reaches into no cached leaf, added to a free forest, leaves complete
\* blame complete.
LEMMA AddOneKnows ==
  ASSUME DynInv, Books(FALSE), BlameComplete, BoxesFree, NEW o \in Obstacle, AddObstacle(o),
         \A e \in Range(collisionCache) : Blamed(e) => CellsOf(e.node) \cap Covers[o] = {}
  PROVE  Books(TRUE)'
<1>1. SceneOK /\ BoxesOK /\ CacheOK
  BY DEF DynInv
<1>2. PICK os : os = <<o>>
  OBVIOUS
<1>3. os \in Seq(Obstacle) /\ os # <<>> /\ AddObstacles(os)
  BY <1>2 DEF AddObstacle
<1>4. PICK S, n : S = scene \o os /\ n = Len(scene)
  OBVIOUS
<1>5. /\ n \in Nat /\ Len(S) = n + 1 /\ \A k \in 1..n : S[k] = scene[k]
      /\ S[n + 1] = o
  <2>1. PICK s : s = scene
    OBVIOUS
  <2>0. IsSeq(s) /\ IsSeq(os)
    BY <1>1, <1>2, <2>1, SeqTyped, SeqSingle DEF SceneOK
  <2>2. Len(s) \in Nat
    BY <2>0, SeqShape
  <2>3. Len(os) = 1 /\ os[1] = o
    BY <1>2, SeqSingle
  <2>4. /\ Len(s \o os) = Len(s) + Len(os)
        /\ \A i \in 1..Len(s) : (s \o os)[i] = s[i]
        /\ \A i \in 1..Len(os) : (s \o os)[Len(s) + i] = os[i]
    BY <2>0, SeqConcat
  <2>5. S = s \o os /\ n = Len(s)
    BY <1>4, <2>1
  <2> QED
    BY <2>1, <2>2, <2>3, <2>4, <2>5
<1>6. ASSUME NEW p \in 1..Len(collisionCache) PROVE BlamesAll(collisionCache[p], S, 1..Len(S))
  <2>1. PICK e : e = collisionCache[p]
    OBVIOUS
  <2>2. e \in Range(collisionCache)
    <3>1. IsSeq(collisionCache)
      BY <1>1, SeqTyped DEF CacheOK
    <3> QED
      BY <2>1, <3>1, SeqShape
  <2>3. DOMAIN scene = 1..n
    BY <1>1, <1>4, LenProperties DEF SceneOK
  <2> SUFFICES ASSUME Blamed(e), NEW k \in 1..(n + 1), CellsOf(e.node) \cap Covers[S[k]] # {}
               PROVE  k - 1 \in e.blockers
    BY <1>5, <2>1 DEF BlamesAll
  <2>4. k # n + 1
    BY <1>5, <2>2
  <2>5. k \in 1..n
    BY <1>5, <2>4
  <2> QED
    BY <1>5, <2>2, <2>3, <2>5 DEF BlameComplete
<1>7. ASSUME NEW k \in 1..Len(boxes), NEW x \in Node, NEW e,
             CellsOf(x) \subseteq CellsOf(boxes[k].node),
             e = [node |-> x, blockers |-> {Len(scene)}, active |-> TRUE]
      PROVE  BlamesAll(e, S, 1..Len(S))
  <2>1. e.node = x /\ e.blockers = {n}
    BY <1>4, <1>7
  <2> SUFFICES ASSUME NEW j \in 1..(n + 1), CellsOf(x) \cap Covers[S[j]] # {}
               PROVE  j - 1 \in {n}
    BY <1>5, <2>1 DEF BlamesAll
  <2>2. CASE j \in 1..n
    <3>1. boxes[k] \in Range(boxes)
      <4>1. IsSeq(boxes)
        BY <1>1, SeqTyped DEF BoxesOK
      <4> QED
        BY <4>1, SeqShape
    <3>2. scene[j] \in Range(scene)
      <4>1. IsSeq(scene)
        BY <1>1, SeqTyped DEF SceneOK
      <4> QED
        BY <1>4, <2>2, <4>1, SeqShape
    <3>3. CellsOf(boxes[k].node) \cap Covers[scene[j]] = {}
      BY <3>1, <3>2 DEF BoxesFree, NodeFree
    <3>4. S[j] = scene[j]
      BY <1>5, <2>2
    <3> QED
      BY <1>7, <3>3, <3>4
  <2>3. CASE j = n + 1
    BY <1>5, <2>3
  <2> QED
    BY <1>5, <2>2, <2>3
<1>8. PICK b : b = TRUE
  OBVIOUS
<1>9. \A p \in 1..Len(collisionCache) : b => BlamesAll(collisionCache[p], scene \o os, 1..Len(scene \o os))
  BY <1>4, <1>6
<1>10. \A k \in 1..Len(boxes) : \A x \in Node : \A e :
         /\ b /\ CellsOf(x) \subseteq CellsOf(boxes[k].node)
         /\ e = [node |-> x, blockers |-> {Len(scene)}, active |-> TRUE]
         => BlamesAll(e, scene \o os, 1..Len(scene \o os))
  BY <1>4, <1>7
<1>11. Books(b)'
  BY <1>3, <1>9, <1>10, AddBooks
<1> QED
  BY <1>8, <1>11

\* An insertion keeps the books, and forgets nothing but below refills cut short.
LEMMA AddForgetsNothing ==
  ASSUME DynInv, Books(FALSE), NEW os, os \in Seq(Obstacle), os # <<>>, AddObstacles(os)
  PROVE  /\ Books(FALSE)'
         /\ Held(boxes, collisionCache) \ CutCells(os) \subseteq Held(boxes', collisionCache')
<1>1. PICK b : b = FALSE
  OBVIOUS
<1>2. \A p \in 1..Len(collisionCache) : b => BlamesAll(collisionCache[p], scene \o os, 1..Len(scene \o os))
  BY <1>1
<1>3. \A k \in 1..Len(boxes) : \A n \in Node : \A e :
        /\ b /\ CellsOf(n) \subseteq CellsOf(boxes[k].node)
        /\ e = [node |-> n, blockers |-> {Len(scene)}, active |-> TRUE]
        => BlamesAll(e, scene \o os, 1..Len(scene \o os))
  BY <1>1
<1>4. /\ Books(b)'
      /\ Held(boxes, collisionCache) \ CutCells(os) \subseteq Held(boxes', collisionCache')
  BY <1>1, <1>2, <1>3, AddBooks
<1> QED
  BY <1>1, <1>4

\* The lists an insertion is called with.
LEMMA BatchLists ==
  /\ \A os \in Batches : os \in Seq(Obstacle) /\ os # <<>>
  /\ \A o \in Obstacle : <<o>> \in Seq(Obstacle) /\ <<o>> # <<>>
BY ListAssumption

\* The two removals of a step.
LEMMA RemovalSteps ==
  ASSUME SceneOK, NEW i \in 0..(MaxScene - 1), RemoveObstacle(i) \/ RemoveObstacleSuffix(i)
  PROVE  \E R : Removal(R) /\ RemoveAndRegrow(R)
<1>1. Len(scene) \in Nat
  BY LenProperties DEF SceneOK
<1>2. i < Len(scene) /\ (RemoveAndRegrow({i}) \/ RemoveAndRegrow(i..(Len(scene) - 1)))
  BY DEF RemoveObstacle, RemoveObstacleSuffix
<1>3. i \in 0..(Len(scene) - 1)
  BY <1>1, <1>2
<1>4. Removal({i}) /\ Removal(i..(Len(scene) - 1))
  BY <1>3 DEF Removal
<1> QED
  BY <1>2, <1>4

\* Every step keeps the books.
LEMMA NextKeepsBooks ==
  ASSUME BookInv, [Next]_vars
  PROVE  BookInv'
<1>1. DynInv /\ DynInv' /\ Books(FALSE)
  BY NextKeeps DEF BookInv
<1>2. CASE UNCHANGED vars
  BY <1>1, <1>2, UntouchedBooks DEF vars, BookInv
<1>3. ASSUME NEW sc \in Scenes, NEW oneGroup \in BOOLEAN, BuildLeafSweep(sc, oneGroup)
      PROVE  Books(FALSE)'
  BY <1>3, BuildBooks
<1>4. ASSUME ClearForest PROVE Books(FALSE)'
  BY <1>4, ClearBooks
<1>5. ASSUME NEW x \in Ids(boxes), NEW y \in Ids(boxes), NEW p \in Path, AddSegmentEdge(x, y, p)
      PROVE  Books(FALSE)'
  BY <1>1, <1>5, UntouchedBooks DEF AddSegmentEdge
<1>6. ASSUME NEW o \in Obstacle, AddObstacle(o) PROVE Books(FALSE)'
  <2>1. PICK os : os = <<o>>
    OBVIOUS
  <2>2. os \in Seq(Obstacle) /\ os # <<>> /\ AddObstacles(os)
    BY <1>6, <2>1, BatchLists DEF AddObstacle
  <2> QED
    BY <1>1, <2>2, AddForgetsNothing
<1>7. ASSUME NEW os \in Batches, AddObstacles(os) PROVE Books(FALSE)'
  BY <1>1, <1>7, BatchLists, AddForgetsNothing
<1>8. ASSUME NEW i \in 0..(MaxScene - 1), RemoveObstacle(i) \/ RemoveObstacleSuffix(i)
      PROVE  Books(FALSE)'
  <2>1. PICK R : Removal(R) /\ RemoveAndRegrow(R)
    BY <1>1, <1>8, RemovalSteps DEF DynInv
  <2> QED
    BY <1>1, <2>1, RemoveBooks
<1> QED
  BY <1>1, <1>2, <1>3, <1>4, <1>5, <1>6, <1>7, <1>8 DEF Next, BookInv

\* Initially there is nothing to book.
LEMMA InitBooks == Init => BookInv
<1> SUFFICES ASSUME Init PROVE BookInv
  OBVIOUS
<1>1. DynInv
  BY InitInv
<1>2. boxes = <<>> /\ reservations = [n \in {} |-> 0] /\ collisionCache = <<>>
  BY DEF Init
<1> QED
  BY <1>1, <1>2, EmptyBooks DEF BookInv

\* The nodes of boxes and blamed leaves in one list, and that no two of it overlap.
InOneList(bs, cache) ==
  [i \in 1..Len(bs) |-> bs[i].node] \o
  [i \in 1..Len(cache) |-> IF Blamed(cache[i]) THEN cache[i].node ELSE <<>>]
Apart(held) ==
  \A i, j \in DOMAIN held :
    i < j /\ held[i] # <<>> /\ held[j] # <<>> => CellsOf(held[i]) \cap CellsOf(held[j]) = {}

\* What boxes and blamed leaves hold, in one list.
LEMMA HeldOnce ==
  ASSUME NEW bs, NEW cache, IsSeq(bs), IsSeq(cache), HeldApart(bs, cache)
  PROVE  Apart(InOneList(bs, cache))
<1>0. PICK s, t, held :
        /\ s = [i \in 1..Len(bs) |-> bs[i].node]
        /\ t = [i \in 1..Len(cache) |-> IF Blamed(cache[i]) THEN cache[i].node ELSE <<>>]
        /\ held = s \o t
  OBVIOUS
<1>1. PICK n, m : n = Len(bs) /\ m = Len(cache)
  OBVIOUS
<1>2. n \in Nat /\ m \in Nat
  BY <1>1, SeqShape
<1>3. IsSeq(s) /\ Len(s) = n
  <2>1. s = [k \in 1..n |-> s[k]]
    BY <1>0, <1>1
  <2> QED
    BY <1>2, <2>1, SeqFunction
<1>4. IsSeq(t) /\ Len(t) = m
  <2>1. t = [k \in 1..m |-> t[k]]
    BY <1>0, <1>1
  <2> QED
    BY <1>2, <2>1, SeqFunction
<1>5. /\ IsSeq(held) /\ Len(held) = n + m
      /\ \A i \in 1..n : held[i] = s[i]
      /\ \A i \in 1..m : held[n + i] = t[i]
  BY <1>0, <1>3, <1>4, SeqConcat
<1>6. DOMAIN held = 1..(n + m)
  BY <1>5, SeqShape
<1>7. \A i \in 1..n : held[i] = bs[i].node
  BY <1>0, <1>1, <1>5
<1>8. \A i \in 1..m : held[n + i] # <<>> => Blamed(cache[i]) /\ held[n + i] = cache[i].node
  BY <1>0, <1>1, <1>5
<1> SUFFICES ASSUME NEW i \in 1..(n + m), NEW j \in 1..(n + m),
                    i < j, held[i] # <<>>, held[j] # <<>>
             PROVE  CellsOf(held[i]) \cap CellsOf(held[j]) = {}
  BY <1>0, <1>6 DEF Apart, InOneList
<1>9. CASE j <= n
  <2>1. i \in 1..n /\ j \in 1..n /\ i # j
    BY <1>2, <1>9
  <2> QED
    BY <1>1, <1>7, <2>1 DEF HeldApart, Disjoint
<1>10. CASE i <= n /\ j > n
  <2>1. PICK q : q = j - n
    OBVIOUS
  <2>2. i \in 1..n /\ q \in 1..m /\ j = n + q
    BY <1>2, <1>10, <2>1
  <2>3. Blamed(cache[q]) /\ held[j] = cache[q].node /\ held[i] = bs[i].node
    BY <1>7, <1>8, <2>2
  <2> QED
    BY <1>1, <2>2, <2>3 DEF HeldApart, Disjoint
<1>11. CASE i > n
  <2>1. PICK p, q : p = i - n /\ q = j - n
    OBVIOUS
  <2>2. p \in 1..m /\ q \in 1..m /\ i = n + p /\ j = n + q /\ p # q
    BY <1>2, <1>11, <2>1
  <2>3. Blamed(cache[p]) /\ held[i] = cache[p].node /\ Blamed(cache[q]) /\ held[j] = cache[q].node
    BY <1>8, <2>2
  <2>4. Disjoint(cache[p].node, cache[q].node)
    BY <1>1, <2>2, <2>3 DEF HeldApart
  <2> QED
    BY <2>3, <2>4 DEF Disjoint
<1> QED
  BY <1>2, <1>9, <1>10, <1>11

\* The invariant gives what the run checks.
LEMMA BooksExact == BookInv => BookkeepingExact
<1> SUFFICES ASSUME BookInv PROVE BookkeepingExact
  OBVIOUS
<1>1. /\ BoxesOK /\ CacheOK /\ reservations \in ReservationMaps
      /\ HeldApart(boxes, collisionCache) /\ ReservesAll(reservations, boxes)
      /\ Listed(collisionCache, blockerIndex)
  BY DEF BookInv, DynInv, Books, BooksKept
<1>2. IsSeq(boxes) /\ IsSeq(collisionCache) /\ boxes \in Seq(BoxNodes)
  BY <1>1, SeqTyped DEF BoxesOK, CacheOK
<1>3. NothingCoveredTwice
  <2>1. Apart(InOneList(boxes, collisionCache))
    BY <1>1, <1>2, HeldOnce
  <2> QED
    BY <2>1 DEF NothingCoveredTwice, Apart, InOneList
<1>4. ReservationsExact
  <2>1. \A i, j \in 1..Len(boxes) : i # j => Disjoint(boxes[i].node, boxes[j].node)
    BY <1>1 DEF HeldApart
  <2> QED
    BY <1>1, <1>2, <2>1, ReservationsReserve DEF ReservationsExact
<1>5. IndexFindsEveryBlamed
  <2>1. DOMAIN collisionCache = 1..Len(collisionCache)
    BY <1>2, SeqShape
  <2> QED
    BY <1>1, <2>1 DEF IndexFindsEveryBlamed, Contains, CacheOK, BlamedIn, Listed
<1> QED
  BY <1>3, <1>4, <1>5 DEF BookkeepingExact

\* What is accounted for is what is held.
LEMMA AccountedHeld ==
  ASSUME NEW bs, NEW cache, IsSeq(bs), IsSeq(cache)
  PROVE  UNION ({CellsOf(b.node) : b \in Range(bs)} \cup
                {CellsOf(e.node) : e \in {e \in Range(cache) : Blamed(e)}}) = Held(bs, cache)
<1>1. /\ \A i \in 1..Len(bs) : bs[i] \in Range(bs)
      /\ \A b \in Range(bs) : \E i \in 1..Len(bs) : bs[i] = b
      /\ \A p \in 1..Len(cache) : cache[p] \in Range(cache)
      /\ \A e \in Range(cache) : \E p \in 1..Len(cache) : cache[p] = e
  BY SeqShape
<1> DEFINE A == {CellsOf(b.node) : b \in Range(bs)}
           B == {CellsOf(e.node) : e \in {e \in Range(cache) : Blamed(e)}}
<1>2. ASSUME NEW c PROVE c \in UNION (A \cup B) <=> c \in Held(bs, cache)
  <2>1. c \in UNION (A \cup B)
          <=> \/ \E b \in Range(bs) : c \in CellsOf(b.node)
              \/ \E e \in Range(cache) : Blamed(e) /\ c \in CellsOf(e.node)
    OBVIOUS
  <2> QED
    BY <1>1, <2>1, HeldCell
<1> HIDE DEF A, B
<1>3. UNION (A \cup B) = Held(bs, cache)
  BY <1>2
<1> QED
  BY <1>3 DEF A, B

\* A step that renumbers, or adds one obstacle out of reach, keeps complete blame.
LEMMA NextKeepsBlame ==
  ASSUME BookInv, Next, BlameComplete, BoxesFree,
         \/ Len(scene') < Len(scene)
         \/ \E o \in Obstacle :
              /\ AddObstacle(o)
              /\ \A e \in Range(collisionCache) :
                   Blamed(e) => CellsOf(e.node) \cap Covers[o] = {}
  PROVE  BlameComplete'
<1>1. DynInv /\ DynInv' /\ Books(FALSE) /\ SceneOK /\ CacheOK /\ SceneOK' /\ CacheOK'
  BY NextKeeps DEF BookInv, DynInv
<1>2. Books(TRUE)
  BY <1>1, CompleteBooks
<1>3. Books(TRUE)' => BlameComplete'
  <2>1. SceneOK' /\ CacheOK' => (Books(TRUE)' => BlameComplete')
    BY CompleteBooks, PTL
  <2> QED
    BY <1>1, <2>1
<1>4. ASSUME NEW o \in Obstacle, AddObstacle(o),
             \A e \in Range(collisionCache) : Blamed(e) => CellsOf(e.node) \cap Covers[o] = {}
      PROVE  Books(TRUE)'
  BY <1>1, <1>4, AddOneKnows
<1>5. ASSUME Len(scene') < Len(scene), NEW os, os \in Seq(Obstacle), AddObstacles(os)
      PROVE  FALSE
  <2>1. IsSeq(scene) /\ IsSeq(os)
    BY <1>1, <1>5, SeqTyped DEF SceneOK
  <2>2. Len(scene \o os) = Len(scene) + Len(os) /\ Len(scene) \in Nat /\ Len(os) \in Nat
    BY <2>1, SeqConcat, SeqShape
  <2>3. scene' = scene \o os
    BY <1>5, AddUnfolded
  <2> QED
    BY <1>5, <2>2, <2>3
<1>6. ASSUME Len(scene') < Len(scene) PROVE Books(TRUE)'
  <2>1. ASSUME NEW sc \in Scenes, NEW oneGroup \in BOOLEAN, BuildLeafSweep(sc, oneGroup)
        PROVE  Books(TRUE)'
    BY <2>1, BuildBooks
  <2>2. ASSUME ClearForest PROVE Books(TRUE)'
    BY <2>2, ClearBooks
  <2>3. ASSUME NEW x \in Ids(boxes), NEW y \in Ids(boxes), NEW p \in Path, AddSegmentEdge(x, y, p)
        PROVE  Books(TRUE)'
    BY <1>2, <2>3, UntouchedBooks DEF AddSegmentEdge
  <2>4. ASSUME NEW o \in Obstacle, AddObstacle(o) PROVE FALSE
    <3>1. PICK os : os = <<o>>
      OBVIOUS
    <3>2. os \in Seq(Obstacle) /\ AddObstacles(os)
      BY <2>4, <3>1, BatchLists DEF AddObstacle
    <3> QED
      BY <1>5, <1>6, <3>2
  <2>5. ASSUME NEW os \in Batches, AddObstacles(os) PROVE FALSE
    BY <1>5, <1>6, <2>5, BatchLists
  <2>6. ASSUME NEW i \in 0..(MaxScene - 1), RemoveObstacle(i) \/ RemoveObstacleSuffix(i)
        PROVE  Books(TRUE)'
    <3>1. PICK R : Removal(R) /\ RemoveAndRegrow(R)
      BY <1>1, <2>6, RemovalSteps
    <3> QED
      BY <1>1, <1>2, <3>1, RemoveBooks
  <2> QED
    BY <2>1, <2>2, <2>3, <2>4, <2>5, <2>6 DEF Next
<1> QED
  BY <1>3, <1>4, <1>6

\* Whatever is built, inserted and removed: no region is held twice by boxes and blamed
\* leaves, the oracle reserves exactly the nodes of the boxes for their owners, and a
\* removal that goes through the index finds every leaf that blames what is removed
\* (safe_box_forest.cpp:9653-9985, 19573-19583).
THEOREM BookkeepingCorrect == Spec => []BookkeepingExact
<1>1. BookInv /\ [Next]_vars => BookInv'
  BY NextKeepsBooks
<1> QED
  BY <1>1, InitBooks, BooksExact, PTL DEF Spec

\* Renumbering the obstacles behind a removed one never makes a leaf blame too little, nor
\* does adding an obstacle out of reach of the cache to a free forest; and what a box or a
\* blamed leaf covered before an insertion, a box or a blamed leaf covers after it, but
\* below the removed boxes whose refill its cap on pops cuts short
\* (safe_box_forest.cpp:9694-9985, 9987-10190, 18711-19069).
THEOREM KnowledgeKept == Spec => UpdatesKeepKnowledge
<1>1. BookInv /\ [Next]_vars => BookInv'
  BY NextKeepsBooks
<1>2. BookInv /\ [Next]_vars =>
        [BlameComplete /\ BoxesFree /\
           (\/ Len(scene') < Len(scene)
            \/ \E o \in Obstacle :
                 /\ AddObstacle(o)
                 /\ \A e \in Range(collisionCache) :
                      Blamed(e) => CellsOf(e.node) \cap Covers[o] = {})
             => BlameComplete']_vars
  BY NextKeepsBlame
<1>3. BookInv /\ [Next]_vars =>
        [\A os \in Batches \cup {<<o>> : o \in Obstacle} :
           AddObstacles(os) => Accounted \ CutCells(os) \subseteq Accounted']_vars
  <2> SUFFICES ASSUME BookInv, Next, NEW os \in Batches \cup {<<o>> : o \in Obstacle},
                      AddObstacles(os)
               PROVE  Accounted \ CutCells(os) \subseteq Accounted'
    OBVIOUS
  <2>1. os \in Seq(Obstacle) /\ os # <<>>
    BY BatchLists
  <2>2. Held(boxes, collisionCache) \ CutCells(os) \subseteq Held(boxes', collisionCache')
    BY <2>1, AddForgetsNothing DEF BookInv
  <2>3. BookInv'
    BY NextKeepsBooks
  <2>4. IsSeq(boxes) /\ IsSeq(collisionCache)
    BY SeqTyped DEF BookInv, DynInv, BoxesOK, CacheOK
  <2>5. IsSeq(boxes') /\ IsSeq(collisionCache')
    BY <2>3, SeqTyped DEF BookInv, DynInv, BoxesOK, CacheOK
  <2>6. Accounted = Held(boxes, collisionCache)
    BY <2>4, AccountedHeld DEF Accounted
  <2>7. Accounted' = Held(boxes', collisionCache')
    BY <2>5, AccountedHeld DEF Accounted
  <2> QED
    BY <2>2, <2>6, <2>7
<1> QED
  BY <1>1, <1>2, <1>3, InitBooks, PTL
     DEF Spec, UpdatesKeepKnowledge, RenumberingKeepsBlame, InsertionForgetsNothing
=============================================================================
