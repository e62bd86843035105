------------------------- MODULE ForestGrowthProofs -------------------------
(***************************************************************************)
(* What a search for a free box promises, and what the growth of a forest  *)
(* makes of it, for any tree, any scene and any options.                   *)
(*                                                                         *)
(* find_free_box and the oracle below it: a search answers with a cell and *)
(* the node that is the cell, what it certifies holds no obstacle, and the *)
(* splits of a worker's session can be replayed into the master it was     *)
(* taken from.  The tree is followed by TreeGood (its nodes are the dyadic *)
(* cells of their depths, and the children of a node are its halves) and   *)
(* Extends (a search or a replay only adds to it).                         *)
(*                                                                         *)
(* Growing and consolidating: boxes, nodes and reservations agree, no loop *)
(* grows past max_boxes, boxes hold no obstacle, and consolidation keeps   *)
(* what they cover.  What the grower holds is Core: boxes on their nodes,  *)
(* and the two maps of the reservations.  What a batch in hand promises is *)
(* BatchFits: the results of workers hold on the master, also after the    *)
(* commitments that come before theirs.                                    *)
(***************************************************************************)
EXTENDS ForestGrowth, DataLemmas, FiniteSetTheorems

-----------------------------------------------------------------------------
(* The cells of the line. *)

\* A unit's cell: w units wide, the (k + 1)-th of its depth.
LEMMA CellAt ==
  ASSUME NEW q \in Units, NEW d \in 0..Res
  PROVE  \E w \in Nat \ {0}, k \in Nat :
           /\ w = 2^(Res - d) /\ k = (q - 1) \div w
           /\ Cell(q, d) = <<k * w + 1, (k + 1) * w>>
           /\ k * w + 1 <= q /\ q <= (k + 1) * w /\ (k + 1) * w <= 2^Res
<1>1. Res \in Nat /\ Res - d \in Nat /\ d \in Nat
  BY OracleAssumption
<1>2. PICK w \in Nat \ {0} : w = 2^(Res - d)
  BY <1>1, PowerOfTwo
<1>3. PICK m \in Nat \ {0} : m = 2^d
  BY <1>1, PowerOfTwo
<1>4. PICK n \in Nat \ {0} : n = 2^Res
  BY <1>1, PowerOfTwo
<1>5. n = m * w
  BY <1>1, <1>2, <1>3, <1>4, PowerSplit
<1>6. q \in Nat /\ 1 <= q /\ q <= n
  BY <1>4 DEF Units
<1>7. PICK x \in Nat : x = q - 1
  BY <1>6
<1>8. PICK k \in Int : k = x \div w /\ k * w <= x /\ x < (k + 1) * w
  BY DivisionFacts
<1>9. 0 <= k
  <2>1. 0 * w < (k + 1) * w
    BY <1>7, <1>8
  <2>2. 0 < k + 1
    BY <1>8, <2>1, ProductLess
  <2> QED
    BY <1>8, <2>2
<1>10. (k + 1) * w <= n
  <2>1. k * w < m * w
    BY <1>5, <1>6, <1>7, <1>8
  <2>2. k < m
    BY <1>8, <2>1, ProductLess
  <2>3. PICK e \in Nat : m = k + 1 + e
    <3>1. m - k - 1 \in Nat /\ m = k + 1 + (m - k - 1)
      BY <1>8, <1>9, <2>2
    <3> QED
      BY <3>1
  <2>4. (k + 1 + e) * w = (k + 1) * w + e * w /\ e * w >= 0
    BY <1>8
  <2> QED
    BY <1>5, <2>3, <2>4
<1>11. Cell(q, d) = <<k * w + 1, (k + 1) * w>>
  BY <1>2, <1>7, <1>8 DEF Cell
<1> QED
  BY <1>2, <1>4, <1>7, <1>8, <1>9, <1>10, <1>11, <1>6

\* Its bounds are units and hold it.
LEMMA CellBounds ==
  ASSUME NEW q \in Units, NEW d \in 0..Res
  PROVE  /\ Cell(q, d) = <<Cell(q, d)[1], Cell(q, d)[2]>>
         /\ Cell(q, d)[1] \in Units /\ Cell(q, d)[2] \in Units
         /\ Within(q, Cell(q, d))
<1>1. PICK w \in Nat \ {0} : \E k \in Nat :
           /\ w = 2^(Res - d) /\ k = (q - 1) \div w
           /\ Cell(q, d) = <<k * w + 1, (k + 1) * w>>
           /\ k * w + 1 <= q /\ q <= (k + 1) * w /\ (k + 1) * w <= 2^Res
  BY CellAt
<1>2. PICK k \in Nat :
           /\ w = 2^(Res - d) /\ k = (q - 1) \div w
           /\ Cell(q, d) = <<k * w + 1, (k + 1) * w>>
           /\ k * w + 1 <= q /\ q <= (k + 1) * w /\ (k + 1) * w <= 2^Res
  BY <1>1
<1>3. k * w \in Nat /\ (k + 1) * w \in Nat /\ q \in Nat /\ 1 <= q
  BY DEF Units
<1>4. 2^Res \in Nat
  BY PowerOfTwo, OracleAssumption
<1> QED
  BY <1>2, <1>3, <1>4 DEF Units, Within

\* The units of a cell have the same cell.
LEMMA CellShared ==
  ASSUME NEW p \in Units, NEW q \in Units, NEW d \in 0..Res, Within(p, Cell(q, d))
  PROVE  Cell(p, d) = Cell(q, d)
<1>1. PICK w \in Nat \ {0} : \E k \in Nat :
           /\ w = 2^(Res - d) /\ k = (q - 1) \div w
           /\ Cell(q, d) = <<k * w + 1, (k + 1) * w>>
           /\ k * w + 1 <= q /\ q <= (k + 1) * w /\ (k + 1) * w <= 2^Res
  BY CellAt
<1>2. PICK k \in Nat :
           /\ w = 2^(Res - d) /\ k = (q - 1) \div w
           /\ Cell(q, d) = <<k * w + 1, (k + 1) * w>>
           /\ k * w + 1 <= q /\ q <= (k + 1) * w /\ (k + 1) * w <= 2^Res
  BY <1>1
<1>3. PICK x \in Nat : x = p - 1
  BY DEF Units
<1>4. k * w <= x /\ x < (k + 1) * w
  <2>1. k * w + 1 <= p /\ p <= (k + 1) * w
    BY <1>2 DEF Within
  <2>2. k * w \in Nat /\ (k + 1) * w \in Nat /\ p \in Nat
    BY DEF Units
  <2> QED
    BY <1>3, <2>1, <2>2
<1>5. x \div w = k
  BY <1>4, DivisionUnique
<1> QED
  BY <1>2, <1>3, <1>5 DEF Cell

\* The halves of a cell are the cells of the next depth: each holds a unit, the
\* units of the cell are in one or the other, and never in both.
LEMMA CellHalves ==
  ASSUME NEW q \in Units, NEW d \in 0..Res, d < Res, NEW lower \in BOOLEAN
  PROVE  /\ \E p \in Units : Half(Cell(q, d), lower) = Cell(p, d + 1)
         /\ \A p \in Units : Within(p, Half(Cell(q, d), lower)) =>
              Half(Cell(q, d), lower) = Cell(p, d + 1) /\ Within(p, Cell(q, d))
         /\ \A p \in Units : Within(p, Cell(q, d)) =>
              (Within(p, Half(Cell(q, d), TRUE)) <=> ~Within(p, Half(Cell(q, d), FALSE)))
<1>1. PICK w \in Nat \ {0} : \E k \in Nat :
           /\ w = 2^(Res - d) /\ k = (q - 1) \div w
           /\ Cell(q, d) = <<k * w + 1, (k + 1) * w>>
           /\ k * w + 1 <= q /\ q <= (k + 1) * w /\ (k + 1) * w <= 2^Res
  BY CellAt
<1>2. PICK k \in Nat :
           /\ w = 2^(Res - d) /\ k = (q - 1) \div w
           /\ Cell(q, d) = <<k * w + 1, (k + 1) * w>>
           /\ k * w + 1 <= q /\ q <= (k + 1) * w /\ (k + 1) * w <= 2^Res
  BY <1>1
<1>3. PICK c \in Nat : c = Res - d - 1 /\ c + 1 = Res - d /\ Res - (d + 1) = c
  BY OracleAssumption
<1>4. PICK v \in Nat \ {0} : v = 2^c
  BY PowerOfTwo
<1>5. w = 2 * v
  BY <1>2, <1>3, <1>4, PowerOfTwo
<1>6. PICK a \in Nat : a = k * w
  OBVIOUS
<1>7. (k + 1) * w = a + 2 * v
  BY <1>5, <1>6
<1>8. Cell(q, d) = <<a + 1, a + 2 * v>>
  BY <1>2, <1>6, <1>7
<1>9. (a + 1 + (a + 2 * v) - 1) \div 2 = a + v
  BY <1>6
<1>10. /\ Half(Cell(q, d), TRUE) = <<a + 1, a + v>>
       /\ Half(Cell(q, d), FALSE) = <<a + v + 1, a + 2 * v>>
  BY <1>8, <1>9 DEF Half
<1>11. PICK j \in Nat : j = 2 * k
  OBVIOUS
<1>12. a = j * v /\ a + v = (j + 1) * v /\ a + 2 * v = (j + 2) * v
  BY <1>5, <1>6, <1>11
<1>13. 2^Res \in Nat /\ a + 2 * v <= 2^Res
  BY <1>2, <1>7, PowerOfTwo, OracleAssumption
<1>14. \A p \in Units : Within(p, <<a + 1, a + v>>) => Cell(p, d + 1) = <<a + 1, a + v>>
  <2>1. SUFFICES ASSUME NEW p \in Units, Within(p, <<a + 1, a + v>>)
                 PROVE  Cell(p, d + 1) = <<a + 1, a + v>>
    OBVIOUS
  <2>2. PICK x \in Nat : x = p - 1 /\ a + 1 <= p /\ p <= a + v
    BY <2>1 DEF Units, Within
  <2>5. a <= x /\ x < a + v
    BY <2>2, <1>6 DEF Units
  <2>3. j * v <= x /\ x < (j + 1) * v
    BY <2>5, <1>12, Zenon
  <2>4. x \div v = j
    BY <2>3, DivisionUnique
  <2> QED
    BY <1>3, <1>4, <1>12, <2>2, <2>4 DEF Cell
<1>15. \A p \in Units : Within(p, <<a + v + 1, a + 2 * v>>) =>
                          Cell(p, d + 1) = <<a + v + 1, a + 2 * v>>
  <2>1. SUFFICES ASSUME NEW p \in Units, Within(p, <<a + v + 1, a + 2 * v>>)
                 PROVE  Cell(p, d + 1) = <<a + v + 1, a + 2 * v>>
    OBVIOUS
  <2>2. PICK x \in Nat : x = p - 1 /\ a + v + 1 <= p /\ p <= a + 2 * v
    BY <2>1 DEF Units, Within
  <2>3. PICK i \in Nat : i = j + 1
    OBVIOUS
  <2>4. i * v = a + v /\ (i + 1) * v = a + 2 * v
    BY <1>12, <2>3
  <2>7. a + v <= x /\ x < a + 2 * v
    BY <2>2, <1>6 DEF Units
  <2>5. i * v <= x /\ x < (i + 1) * v
    BY <2>7, <2>4, Zenon
  <2>6. x \div v = i
    BY <2>5, DivisionUnique
  <2> QED
    BY <1>3, <1>4, <2>2, <2>4, <2>6 DEF Cell
<1>16. PICK p1 \in Units : p1 = a + 1
  BY <1>13 DEF Units
<1>17. PICK p2 \in Units : p2 = a + v + 1
  BY <1>13 DEF Units
<1>18. Within(p1, <<a + 1, a + v>>) /\ Within(p2, <<a + v + 1, a + 2 * v>>)
  BY <1>16, <1>17 DEF Within
<1>19. /\ \A p \in Units : Within(p, <<a + 1, a + v>>) => Within(p, Cell(q, d))
       /\ \A p \in Units : Within(p, <<a + v + 1, a + 2 * v>>) => Within(p, Cell(q, d))
       /\ \A p \in Units : Within(p, Cell(q, d)) =>
            (Within(p, <<a + 1, a + v>>) <=> ~Within(p, <<a + v + 1, a + 2 * v>>))
  BY <1>8 DEF Within, Units
<1>20. /\ Cell(p1, d + 1) = <<a + 1, a + v>>
       /\ Cell(p2, d + 1) = <<a + v + 1, a + 2 * v>>
  BY <1>14, <1>15, <1>18
<1>21. CASE lower = TRUE
  BY <1>10, <1>14, <1>19, <1>20, <1>21
<1>22. CASE lower = FALSE
  BY <1>10, <1>15, <1>19, <1>20, <1>22
<1> QED
  BY <1>21, <1>22

-----------------------------------------------------------------------------
(* The tree of an oracle. *)

IsOracle(o1) == o1 = [tree |-> o1.tree, boxOf |-> o1.boxOf, nodeOf |-> o1.nodeOf,
                      rootEv |-> o1.rootEv, store |-> o1.store]
IsNode(x) == x = [at |-> x.at, depth |-> x.depth, left |-> x.left, right |-> x.right]

\* A node is a cell of its depth, and no node is below max_tree_depth().
NodeGood(x) ==
  /\ IsNode(x) /\ x.depth \in 0..MaxTreeDepth - 1
  /\ \E q \in Units : x.at = Cell(q, x.depth)

\* A node that is split has the two halves of its cell for children.
Splits(o1, n) ==
  /\ o1.tree[n].left \in Nodes(o1) /\ o1.tree[n].right \in Nodes(o1)
  /\ Depth(o1, o1.tree[n].left) = Depth(o1, n) + 1
  /\ Depth(o1, o1.tree[n].right) = Depth(o1, n) + 1
  /\ Region(o1, o1.tree[n].left) = Half(Region(o1, n), TRUE)
  /\ Region(o1, o1.tree[n].right) = Half(Region(o1, n), FALSE)
ParentIn(o1, m, n) == ~IsLeaf(o1, m) /\ (n = o1.tree[m].left \/ n = o1.tree[m].right)

TreeGood(o1) ==
  /\ IsOracle(o1) /\ IsSeq(o1.tree) /\ RootNode \in Nodes(o1)
  /\ \A n \in Nodes(o1) : NodeGood(o1.tree[n])
  /\ \A n \in Nodes(o1) : IsLeaf(o1, n) \/ Splits(o1, n)
  /\ \A n \in Nodes(o1) : n = RootNode \/ \E m \in Nodes(o1) : ParentIn(o1, m, n)

\* What a step adds to a tree leaves its nodes and the reservations in place.
Extends(o1, o2) ==
  /\ Nodes(o1) \subseteq Nodes(o2)
  /\ \A n \in Nodes(o1) : Region(o2, n) = Region(o1, n) /\ Depth(o2, n) = Depth(o1, n)
  /\ \A n \in Nodes(o1) : IsLeaf(o2, n) => IsLeaf(o1, n)
  /\ o2.boxOf = o1.boxOf /\ o2.nodeOf = o1.nodeOf /\ o2.store = o1.store

\* Depths are bounded by the resolution, also those of a cell below a worker.
LEMMA DepthBounds ==
  /\ Res \in Nat /\ MaxTreeDepth \in Nat \ {0} /\ MaxTreeDepth - 1 \in 0..Res
  /\ \A d, e \in 0..MaxTreeDepth - 1 : d + e \in 0..Res
  /\ \A d \in 0..MaxTreeDepth - 1 : d \in 0..Res
BY OracleAssumption

\* A node that holds a unit is the unit's cell.
LEMMA PathCell ==
  ASSUME NEW o1, TreeGood(o1), NEW q \in Units, NEW n \in Path(o1, q)
  PROVE  /\ n \in Nodes(o1) /\ Depth(o1, n) \in 0..MaxTreeDepth - 1 /\ Depth(o1, n) \in 0..Res
         /\ Region(o1, n) = Cell(q, Depth(o1, n)) /\ Within(q, Region(o1, n))
<1>1. n \in Nodes(o1) /\ Within(q, Region(o1, n)) /\ NodeGood(o1.tree[n])
  BY DEF Path, TreeGood
<1>2. PICK p \in Units : Region(o1, n) = Cell(p, Depth(o1, n))
  BY <1>1 DEF NodeGood, Region, Depth
<1>3. Depth(o1, n) \in 0..MaxTreeDepth - 1
  BY <1>1 DEF NodeGood, Depth
<1>4. Depth(o1, n) \in 0..Res
  BY <1>3, DepthBounds
<1>5. Within(q, Cell(p, Depth(o1, n)))
  BY <1>1, <1>2
<1> HIDE DEF Path
<1>6. PICK d \in 0..Res : d = Depth(o1, n)
  BY <1>4
<1>7. Cell(q, d) = Cell(p, d)
  BY <1>5, <1>6, CellShared
<1> QED
  BY <1>1, <1>2, <1>3, <1>4, <1>6, <1>7

\* A unit of a split node is in one of its children, and in that cell of the
\* next depth.
LEMMA PathChild ==
  ASSUME NEW o1, TreeGood(o1), NEW q \in Units, NEW n \in Path(o1, q), ~IsLeaf(o1, n)
  PROVE  \E c \in Path(o1, q) : Depth(o1, c) = Depth(o1, n) + 1
<1>1. /\ n \in Nodes(o1) /\ Depth(o1, n) \in 0..Res
      /\ Region(o1, n) = Cell(q, Depth(o1, n)) /\ Within(q, Region(o1, n))
  BY PathCell
<1>2. Splits(o1, n)
  BY <1>1 DEF TreeGood
<1>3. Depth(o1, o1.tree[n].left) \in 0..Res
  <2>1. NodeGood(o1.tree[o1.tree[n].left])
    BY <1>2 DEF TreeGood, Splits
  <2> QED
    BY <2>1, DepthBounds DEF NodeGood, Depth
<1>4. PICK d \in 0..Res : d = Depth(o1, n) /\ d < Res
  <2>1. PICK d \in 0..Res : d = Depth(o1, n)
    BY <1>1
  <2>2. d + 1 \in 0..Res
    BY <1>2, <1>3, <2>1 DEF Splits
  <2> QED
    BY <2>1, <2>2, DepthBounds
<1>5. Within(q, Half(Cell(q, d), TRUE)) <=> ~Within(q, Half(Cell(q, d), FALSE))
  BY <1>1, <1>4, CellHalves
<1> QED
  BY <1>1, <1>2, <1>4, <1>5 DEF Splits, Path

\* A unit of a node that is not the root is in a node one depth above.
LEMMA PathParent ==
  ASSUME NEW o1, TreeGood(o1), NEW q \in Units, NEW n \in Path(o1, q), n # RootNode
  PROVE  \E m \in Path(o1, q) : Depth(o1, n) = Depth(o1, m) + 1
<1>1. n \in Nodes(o1) /\ Depth(o1, n) \in 0..Res /\ Within(q, Region(o1, n))
  BY PathCell
<1>2. PICK m \in Nodes(o1) : ParentIn(o1, m, n)
  BY <1>1 DEF TreeGood
<1>3. Splits(o1, m) /\ NodeGood(o1.tree[m])
  BY <1>2 DEF TreeGood, ParentIn
<1>4. PICK p \in Units : Region(o1, m) = Cell(p, Depth(o1, m))
  BY <1>3 DEF NodeGood, Region, Depth
<1>5. PICK b \in BOOLEAN : Region(o1, n) = Half(Region(o1, m), b) /\ Depth(o1, n) = Depth(o1, m) + 1
  BY <1>2, <1>3 DEF Splits, ParentIn
<1>6. PICK d \in 0..Res : d = Depth(o1, m) /\ d < Res
  <2>1. Depth(o1, m) \in 0..Res
    BY <1>3, DepthBounds DEF NodeGood, Depth
  <2> QED
    BY <1>1, <1>5, <2>1, DepthBounds
<1>7. Within(q, Half(Cell(p, d), b))
  BY <1>1, <1>4, <1>5, <1>6
<1>8. Within(q, Cell(p, d))
  BY <1>6, <1>7, CellHalves
<1> QED
  BY <1>2, <1>4, <1>5, <1>6, <1>8 DEF Path

\* A unit of the root is in a leaf.
LEMMA PathLeaf ==
  ASSUME NEW o1, TreeGood(o1), NEW q \in Units, Within(q, Region(o1, RootNode))
  PROVE  \E n \in Path(o1, q) : IsLeaf(o1, n)
<1>1. SUFFICES ASSUME \A n \in Path(o1, q) : ~IsLeaf(o1, n) PROVE FALSE
  OBVIOUS
<1>2. RootNode \in Path(o1, q)
  BY DEF TreeGood, Path
<1>3. PICK r \in 0..MaxTreeDepth - 1 : r = Depth(o1, RootNode)
  BY <1>2, PathCell
<1>4. MaxTreeDepth \in Nat
  BY DepthBounds
<1> DEFINE T == {k \in 0..MaxTreeDepth : \E n \in Path(o1, q) : Depth(o1, n) = r + k}
<1>5. 0 \in T
  BY <1>2, <1>3, <1>4
<1>6. \A k \in 1..MaxTreeDepth : k - 1 \in T => k \in T
  <2>1. SUFFICES ASSUME NEW k \in 1..MaxTreeDepth, k - 1 \in T
                 PROVE  \E n \in Path(o1, q) : Depth(o1, n) = r + k
    BY <1>4
  <2>2. PICK n \in Path(o1, q) : Depth(o1, n) = r + (k - 1)
    BY <2>1
  <2>3. PICK c \in Path(o1, q) : Depth(o1, c) = Depth(o1, n) + 1
    BY <1>1, PathChild
  <2> QED
    BY <2>2, <2>3
<1>7. \A k \in 0..MaxTreeDepth : k \in T
  <2> HIDE DEF T
  <2> QED
    BY <1>4, <1>5, <1>6, UpTo
<1>8. PICK n \in Path(o1, q) : Depth(o1, n) = r + MaxTreeDepth
  BY <1>4, <1>7
<1>9. Depth(o1, n) \in 0..MaxTreeDepth - 1
  BY PathCell
<1> QED
  BY <1>3, <1>4, <1>8, <1>9

\* The nodes that hold a unit are one at each depth, down from the root.
LEMMA PathChain ==
  ASSUME NEW o1, TreeGood(o1), NEW q \in Units, NEW n \in Path(o1, q)
  PROVE  /\ Depth(o1, RootNode) <= Depth(o1, n)
         /\ \A e \in Depth(o1, RootNode)..Depth(o1, n) : \E m \in Path(o1, q) : Depth(o1, m) = e
<1>1. PICK d \in 0..MaxTreeDepth - 1 : d = Depth(o1, n)
  BY PathCell
<1>2. PICK r \in 0..MaxTreeDepth - 1 : r = Depth(o1, RootNode)
  <2>1. NodeGood(o1.tree[RootNode])
    BY DEF TreeGood
  <2> QED
    BY <2>1 DEF NodeGood, Depth
<1> DEFINE T == {k \in 0..d + 1 : (d - k < r /\ r <= d) \/ \E m \in Path(o1, q) : Depth(o1, m) = d - k}
<1>3. 0 \in T
  <2>1. d - 0 = d /\ 0 \in 0..d + 1
    BY <1>1
  <2>2. \E m \in Path(o1, q) : Depth(o1, m) = d - 0
    BY <1>1, <2>1
  <2> QED
    BY <2>1, <2>2
<1>4. \A k \in 1..d + 1 : k - 1 \in T => k \in T
  <2>1. SUFFICES ASSUME NEW k \in 1..d + 1, k - 1 \in T
                 PROVE  \/ \E m \in Path(o1, q) : Depth(o1, m) = d - k
                        \/ d - k < r /\ r <= d
    OBVIOUS
  <2>2. CASE d - (k - 1) < r /\ r <= d
    BY <2>2, <1>1, <1>2
  <2>3. CASE \E m \in Path(o1, q) : Depth(o1, m) = d - (k - 1)
    <3>1. PICK m \in Path(o1, q) : Depth(o1, m) = d - (k - 1)
      BY <2>3
    <3>2. CASE m = RootNode
      BY <1>1, <1>2, <3>1, <3>2
    <3>3. CASE m # RootNode
      <4>1. PICK u \in Path(o1, q) : Depth(o1, m) = Depth(o1, u) + 1
        BY <3>3, PathParent
      <4>2. Depth(o1, u) \in 0..MaxTreeDepth - 1
        BY PathCell
      <4> QED
        BY <1>1, <3>1, <4>1, <4>2
    <3> QED
      BY <3>2, <3>3
  <2> QED
    BY <2>1, <2>2, <2>3
<1>5. \A k \in 0..d + 1 : k \in T
  <2>1. d + 1 \in Nat
    BY <1>1
  <2> HIDE DEF T
  <2> QED
    BY <1>3, <1>4, <2>1, UpTo
<1>6. r <= d
  <2>1. d + 1 \in T
    BY <1>1, <1>5
  <2>2. ASSUME NEW m \in Path(o1, q), Depth(o1, m) = d - (d + 1) PROVE FALSE
    <3>1. Depth(o1, m) \in 0..MaxTreeDepth - 1
      BY PathCell
    <3> QED
      BY <1>1, <2>2, <3>1
  <2> QED
    BY <2>1, <2>2
<1>7. ASSUME NEW e \in r..d PROVE \E m \in Path(o1, q) : Depth(o1, m) = e
  <2>1. d - e \in 0..d + 1 /\ d - (d - e) = e
    BY <1>1, <1>2
  <2>2. d - e \in T
    BY <1>5, <2>1
  <2> QED
    BY <1>2, <2>1, <2>2
<1> QED
  BY <1>1, <1>2, <1>6, <1>7

\* The leaf a descent ends in.
LEMMA LeafFound ==
  ASSUME NEW o1, TreeGood(o1), NEW q \in Units, Within(q, Region(o1, RootNode))
  PROVE  /\ LeafContaining(o1, q) \in Path(o1, q)
         /\ LeafContaining(o1, q) \in Nodes(o1)
         /\ IsLeaf(o1, LeafContaining(o1, q))
<1>1. \E n \in Path(o1, q) : IsLeaf(o1, n)
  BY PathLeaf
<1>2. LeafContaining(o1, q) \in Path(o1, q) /\ IsLeaf(o1, LeafContaining(o1, q))
  BY <1>1 DEF LeafContaining
<1> QED
  BY <1>2, PathCell

\* A tree whose node n was given children, with what is added to it.
LEMMA TreeWith ==
  ASSUME NEW t, IsSeq(t), NEW n \in 1..Len(t), NEW x, NEW added, IsSeq(added)
  PROVE  /\ IsSeq([t EXCEPT ![n] = x] \o added)
         /\ Len([t EXCEPT ![n] = x] \o added) = Len(t) + Len(added)
         /\ DOMAIN ([t EXCEPT ![n] = x] \o added) = 1..(Len(t) + Len(added))
         /\ ([t EXCEPT ![n] = x] \o added)[n] = x
         /\ \A i \in 1..Len(t) : i # n => ([t EXCEPT ![n] = x] \o added)[i] = t[i]
         /\ \A i \in 1..Len(added) : ([t EXCEPT ![n] = x] \o added)[Len(t) + i] = added[i]
         /\ Len(t) \in Nat /\ Len(added) \in Nat
<1>1. Len(t) \in Nat /\ DOMAIN t = 1..Len(t) /\ Len(added) \in Nat
  BY SeqShape
<1>2. PICK base : base = [t EXCEPT ![n] = x]
  OBVIOUS
<1>3. base = [i \in 1..Len(t) |-> base[i]]
  BY <1>1, <1>2
<1>4. IsSeq(base) /\ Len(base) = Len(t)
  BY <1>1, <1>3, SeqFunction
<1>5. base[n] = x /\ \A i \in 1..Len(t) : i # n => base[i] = t[i]
  BY <1>1, <1>2
<1>6. /\ IsSeq(base \o added) /\ Len(base \o added) = Len(base) + Len(added)
      /\ \A i \in 1..Len(base) : (base \o added)[i] = base[i]
      /\ \A i \in 1..Len(added) : (base \o added)[Len(base) + i] = added[i]
  BY <1>4, SeqConcat
<1>7. DOMAIN (base \o added) = 1..(Len(t) + Len(added))
  BY <1>4, <1>6, SeqShape
<1> QED
  BY <1>1, <1>2, <1>4, <1>5, <1>6, <1>7

\* Halves of a node's cell are cells of the next depth.
LEMMA HalvesGood ==
  ASSUME NEW r, NEW d \in 0..MaxTreeDepth - 1, d + 1 \in 0..MaxTreeDepth - 1, NEW q \in Units,
         r = Cell(q, d), NEW b \in BOOLEAN
  PROVE  NodeGood(NewNode(Half(r, b), d + 1))
<1>1. d \in 0..Res /\ d < Res
  BY DepthBounds
<1>2. PICK p \in Units : Half(Cell(q, d), b) = Cell(p, d + 1)
  BY <1>1, CellHalves
<1>3. NodeGood(NewNode(Half(Cell(q, d), b), d + 1))
  BY <1>2 DEF NodeGood, NewNode, IsNode
<1> QED
  BY <1>3

-----------------------------------------------------------------------------
(* A descent that splits cells. *)

\* New nodes come in pairs: 2i-1 and 2i are the halves of the cell i-1 below the leaf.
BelowNode(q, from, d, k, j) ==
  LET i == (j + 1) \div 2
      r == Half(Cell(q, from + i - 1), j % 2 = 1)
      on == Within(q, r) /\ from + i < d
  IN [NewNode(r, from + i) EXCEPT !.left = IF on THEN k + 2 * i + 1 ELSE NoNode,
                                  !.right = IF on THEN k + 2 * i + 2 ELSE NoNode]
Below(q, from, d, k) == [j \in 1..2 * (d - from) |-> BelowNode(q, from, d, k, j)]

\* The pairs of an even number of nodes.
LEMMA Pairing ==
  ASSUME NEW n \in Nat, NEW j \in 1..2 * n
  PROVE  /\ (j + 1) \div 2 \in 1..n
         /\ j % 2 = 1 => j = 2 * ((j + 1) \div 2) - 1
         /\ j % 2 # 1 => j = 2 * ((j + 1) \div 2)
BY SMT

\* The pair a position of the i-th pair belongs to.
LEMMA PairingBack ==
  ASSUME NEW i \in Nat \ {0}
  PROVE  /\ (2 * i - 1 + 1) \div 2 = i /\ (2 * i - 1) % 2 = 1
         /\ (2 * i + 1) \div 2 = i /\ (2 * i) % 2 # 1
BY SMT

\* A new node: the half r of the i-th cell below the leaf, split itself if it
\* holds q and is not deep enough.
Fits(x, q, r, k, from, i, d) ==
  /\ x.at = r /\ x.depth = from + i /\ IsNode(x)
  /\ Within(q, r) /\ from + i < d => x.left = k + 2 * i + 1 /\ x.right = k + 2 * i + 2
  /\ ~(Within(q, r) /\ from + i < d) => x.left = NoNode

\* The node below a leaf at a position is what the split makes of it.
LEMMA BelowShape ==
  ASSUME NEW q, NEW from \in Nat, NEW d, NEW k \in Nat, NEW j \in Nat, NEW i, i = (j + 1) \div 2,
         NEW r, r = Half(Cell(q, from + i - 1), j % 2 = 1)
  PROVE  Fits(BelowNode(q, from, d, k, j), q, r, k, from, i, d)
<1> DEFINE on == Within(q, r) /\ from + i < d
<1>1. PICK lo : lo = IF on THEN k + 2 * i + 1 ELSE NoNode
  OBVIOUS
<1>2. PICK hi : hi = IF on THEN k + 2 * i + 2 ELSE NoNode
  OBVIOUS
<1>3. BelowNode(q, from, d, k, j) = [NewNode(r, from + i) EXCEPT !.left = lo, !.right = hi]
  BY <1>1, <1>2, Zenon DEF BelowNode
<1>4. PICK x : x = [NewNode(r, from + i) EXCEPT !.left = lo]
  OBVIOUS
<1>5. x = [at |-> r, depth |-> from + i, left |-> lo, right |-> NoNode]
  BY <1>4 DEF NewNode
<1>6. BelowNode(q, from, d, k, j) = [x EXCEPT !.right = hi]
  BY <1>3, <1>4, Zenon
<1>7. BelowNode(q, from, d, k, j) = [at |-> r, depth |-> from + i, left |-> lo, right |-> hi]
  BY <1>5, <1>6
<1> QED
  BY <1>1, <1>2, <1>7 DEF IsNode, Fits

\* What is added below a leaf with cell r of depth d, as nodes k + 1, k + 2, ..:
\* the first two nodes are the leaf's halves, and every other node is a half of
\* one that was added.
Grafts(new, k, r, d) ==
  /\ IsSeq(new) /\ 1 \in DOMAIN new /\ 2 \in DOMAIN new
  /\ \A j \in DOMAIN new : NodeGood(new[j])
  /\ new[1].at = Half(r, TRUE) /\ new[2].at = Half(r, FALSE)
  /\ new[1].depth = d + 1 /\ new[2].depth = d + 1
  /\ \A j \in DOMAIN new : new[j].left = NoNode \/ \E a, b \in DOMAIN new :
       /\ new[j].left = k + a /\ new[j].right = k + b
       /\ new[a].depth = new[j].depth + 1 /\ new[b].depth = new[j].depth + 1
       /\ new[a].at = Half(new[j].at, TRUE) /\ new[b].at = Half(new[j].at, FALSE)
  /\ \A j \in DOMAIN new : j \in {1, 2} \/ \E p \in DOMAIN new :
       new[p].left # NoNode /\ (k + j = new[p].left \/ k + j = new[p].right)

\* A node that was given children.
Parted(x, k) == [x EXCEPT !.left = k + 1, !.right = k + 2]

\* A node that was given children is the node it was otherwise.
LEMMA PartedShape ==
  ASSUME NEW x, NodeGood(x), NEW k
  PROVE  /\ NodeGood(Parted(x, k)) /\ Parted(x, k).at = x.at /\ Parted(x, k).depth = x.depth
         /\ Parted(x, k).left = k + 1 /\ Parted(x, k).right = k + 2
<1>1. x = [at |-> x.at, depth |-> x.depth, left |-> x.left, right |-> x.right]
  BY DEF NodeGood, IsNode
<1>2. PICK y : y = [x EXCEPT !.left = k + 1]
  OBVIOUS
<1>3. y = [at |-> x.at, depth |-> x.depth, left |-> k + 1, right |-> x.right]
  BY <1>1, <1>2
<1>4. Parted(x, k) = [y EXCEPT !.right = k + 2]
  BY <1>2, Zenon DEF Parted
<1>5. Parted(x, k) = [at |-> x.at, depth |-> x.depth, left |-> k + 1, right |-> k + 2]
  BY <1>3, <1>4
<1> QED
  BY <1>5 DEF NodeGood, IsNode

\* The oracle o1 with nodes added below the node n.
Grafted(o1, n, new) ==
  [o1 EXCEPT !.tree = [o1.tree EXCEPT ![n] = Parted(o1.tree[n], Len(o1.tree))] \o new]

\* The nodes of a tree with nodes added below one of its leaves.
LEMMA GraftTree ==
  ASSUME NEW o1, TreeGood(o1), NEW n \in Nodes(o1), NEW new,
         Grafts(new, Len(o1.tree), Region(o1, n), Depth(o1, n))
  PROVE  /\ IsOracle(Grafted(o1, n, new)) /\ IsSeq(Grafted(o1, n, new).tree)
         /\ Len(o1.tree) \in Nat /\ Nodes(o1) = 1..Len(o1.tree)
         /\ Nodes(Grafted(o1, n, new)) = 1..(Len(o1.tree) + Len(new))
         /\ DOMAIN new = 1..Len(new) /\ Len(new) \in Nat
         /\ Grafted(o1, n, new).tree[n] = Parted(o1.tree[n], Len(o1.tree))
         /\ \A i \in 1..Len(o1.tree) : i # n => Grafted(o1, n, new).tree[i] = o1.tree[i]
         /\ \A i \in 1..Len(new) : Grafted(o1, n, new).tree[Len(o1.tree) + i] = new[i]
         /\ Grafted(o1, n, new).boxOf = o1.boxOf /\ Grafted(o1, n, new).nodeOf = o1.nodeOf
         /\ Grafted(o1, n, new).rootEv = o1.rootEv /\ Grafted(o1, n, new).store = o1.store
<1> DEFINE t == o1.tree
           k == Len(t)
           x == Parted(t[n], k)
           u == [t EXCEPT ![n] = x] \o new
           o2 == Grafted(o1, n, new)
<1>1. IsOracle(o1) /\ IsSeq(t) /\ n \in DOMAIN t
  BY DEF TreeGood, Nodes
<1>2. k \in Nat /\ DOMAIN t = 1..k
  BY <1>1, SeqShape
<1>3. o2 = [tree |-> u, boxOf |-> o1.boxOf, nodeOf |-> o1.nodeOf, rootEv |-> o1.rootEv,
            store |-> o1.store]
  <2>1. o2 = [o1 EXCEPT !.tree = u]
    BY Zenon DEF Grafted
  <2> HIDE DEF o2, u
  <2> QED
    BY <1>1, <2>1 DEF IsOracle
<1>4. IsSeq(new)
  BY DEF Grafts
<1>5. DOMAIN new = 1..Len(new) /\ Len(new) \in Nat
  BY <1>4, SeqShape
<1>6. /\ IsSeq(u) /\ DOMAIN u = 1..(k + Len(new)) /\ u[n] = x
      /\ \A i \in 1..k : i # n => u[i] = t[i]
      /\ \A i \in 1..Len(new) : u[k + i] = new[i]
  <2>1. n \in 1..Len(t)
    BY <1>1, <1>2
  <2>2. /\ IsSeq([t EXCEPT ![n] = x] \o new)
        /\ Len([t EXCEPT ![n] = x] \o new) = Len(t) + Len(new)
        /\ DOMAIN ([t EXCEPT ![n] = x] \o new) = 1..(Len(t) + Len(new))
        /\ ([t EXCEPT ![n] = x] \o new)[n] = x
        /\ \A i \in 1..Len(t) : i # n => ([t EXCEPT ![n] = x] \o new)[i] = t[i]
        /\ \A i \in 1..Len(new) : ([t EXCEPT ![n] = x] \o new)[Len(t) + i] = new[i]
        /\ Len(t) \in Nat /\ Len(new) \in Nat
    <3> HIDE DEF t, x
    <3> QED
      BY <1>1, <1>4, <2>1, TreeWith, Zenon
  <2> HIDE DEF u, x, t
  <2> QED
    BY <2>2 DEF u
<1>7. /\ o2.tree = u /\ o2.boxOf = o1.boxOf /\ o2.nodeOf = o1.nodeOf /\ o2.store = o1.store
      /\ o2.rootEv = o1.rootEv /\ IsOracle(o2)
  BY <1>3 DEF IsOracle
<1> HIDE DEF o2, u, x
<1> QED
  BY <1>2, <1>5, <1>6, <1>7 DEF Nodes, o2, x

\* A tree with nodes added below one of its leaves is a good one, and extends it.
LEMMA GraftGood ==
  ASSUME NEW o1, TreeGood(o1), NEW n \in Nodes(o1), IsLeaf(o1, n), NEW new,
         Grafts(new, Len(o1.tree), Region(o1, n), Depth(o1, n))
  PROVE  /\ TreeGood(Grafted(o1, n, new)) /\ Extends(o1, Grafted(o1, n, new))
         /\ ~IsLeaf(Grafted(o1, n, new), n) /\ Grafted(o1, n, new).rootEv = o1.rootEv
<1> DEFINE t == o1.tree
           k == Len(t)
           c == Len(new)
           x == Parted(t[n], k)
           o2 == Grafted(o1, n, new)
           u == o2.tree
<1>1. Region(o1, n) = t[n].at /\ Depth(o1, n) = t[n].depth
  BY DEF Region, Depth
<1> HIDE DEF x, o2
<1>2. /\ IsOracle(o2) /\ IsSeq(u) /\ k \in Nat /\ Nodes(o1) = 1..k /\ DOMAIN t = 1..k
      /\ Nodes(o2) = 1..(k + c) /\ DOMAIN new = 1..c /\ c \in Nat /\ u[n] = x
      /\ \A i \in 1..k : i # n => u[i] = t[i]
      /\ \A i \in 1..c : u[k + i] = new[i]
      /\ o2.boxOf = o1.boxOf /\ o2.nodeOf = o1.nodeOf /\ o2.rootEv = o1.rootEv
      /\ o2.store = o1.store
  <2>1. /\ IsOracle(Grafted(o1, n, new)) /\ IsSeq(Grafted(o1, n, new).tree)
        /\ Len(o1.tree) \in Nat /\ Nodes(o1) = 1..Len(o1.tree)
        /\ Nodes(Grafted(o1, n, new)) = 1..(Len(o1.tree) + Len(new))
        /\ DOMAIN new = 1..Len(new) /\ Len(new) \in Nat
        /\ Grafted(o1, n, new).tree[n] = Parted(o1.tree[n], Len(o1.tree))
        /\ \A i \in 1..Len(o1.tree) : i # n => Grafted(o1, n, new).tree[i] = o1.tree[i]
        /\ \A i \in 1..Len(new) : Grafted(o1, n, new).tree[Len(o1.tree) + i] = new[i]
        /\ Grafted(o1, n, new).boxOf = o1.boxOf /\ Grafted(o1, n, new).nodeOf = o1.nodeOf
        /\ Grafted(o1, n, new).rootEv = o1.rootEv /\ Grafted(o1, n, new).store = o1.store
    BY GraftTree
  <2> QED
    BY <2>1, Zenon DEF Nodes, x, o2
<1>3. /\ NodeGood(t[n]) /\ \A m \in 1..k : NodeGood(t[m])
  BY <1>1, <1>2 DEF TreeGood
<1>4. NodeGood(x) /\ x.at = t[n].at /\ x.depth = t[n].depth /\ x.left = k + 1 /\ x.right = k + 2
  BY <1>1, <1>3, PartedShape, Zenon DEF x
<1>5. /\ 1 \in 1..c /\ 2 \in 1..c /\ \A j \in 1..c : NodeGood(new[j])
      /\ new[1].at = Half(t[n].at, TRUE) /\ new[2].at = Half(t[n].at, FALSE)
      /\ new[1].depth = t[n].depth + 1 /\ new[2].depth = t[n].depth + 1
      /\ \A j \in 1..c : new[j].left = NoNode \/ \E a, b \in 1..c :
           /\ new[j].left = k + a /\ new[j].right = k + b
           /\ new[a].depth = new[j].depth + 1 /\ new[b].depth = new[j].depth + 1
           /\ new[a].at = Half(new[j].at, TRUE) /\ new[b].at = Half(new[j].at, FALSE)
      /\ \A j \in 1..c : j \in {1, 2} \/ \E p \in 1..c :
           new[p].left # NoNode /\ (k + j = new[p].left \/ k + j = new[p].right)
  <2>1. Grafts(new, k, t[n].at, t[n].depth)
    BY <1>1, Zenon
  <2>2. DOMAIN new = 1..c
    BY <1>2
  <2> HIDE DEF t, k, c
  <2>3. /\ 1 \in 1..c /\ 2 \in 1..c /\ \A j \in 1..c : NodeGood(new[j])
        /\ new[1].at = Half(t[n].at, TRUE) /\ new[2].at = Half(t[n].at, FALSE)
        /\ new[1].depth = t[n].depth + 1 /\ new[2].depth = t[n].depth + 1
    BY <2>1, <2>2 DEF Grafts
  <2>4. \A j \in 1..c : new[j].left = NoNode \/ \E a, b \in 1..c :
           /\ new[j].left = k + a /\ new[j].right = k + b
           /\ new[a].depth = new[j].depth + 1 /\ new[b].depth = new[j].depth + 1
           /\ new[a].at = Half(new[j].at, TRUE) /\ new[b].at = Half(new[j].at, FALSE)
    <3>1. SUFFICES ASSUME NEW j \in 1..c, new[j].left # NoNode
                   PROVE  \E a, b \in 1..c :
                            /\ new[j].left = k + a /\ new[j].right = k + b
                            /\ new[a].depth = new[j].depth + 1 /\ new[b].depth = new[j].depth + 1
                            /\ new[a].at = Half(new[j].at, TRUE) /\ new[b].at = Half(new[j].at, FALSE)
      OBVIOUS
    <3>2. PICK a \in DOMAIN new, b \in DOMAIN new :
            /\ new[j].left = k + a /\ new[j].right = k + b
            /\ new[a].depth = new[j].depth + 1 /\ new[b].depth = new[j].depth + 1
            /\ new[a].at = Half(new[j].at, TRUE) /\ new[b].at = Half(new[j].at, FALSE)
      BY <2>1, <2>2, <3>1 DEF Grafts
    <3> QED
      BY <2>2, <3>2
  <2>5. \A j \in 1..c : j \in {1, 2} \/ \E p \in 1..c :
           new[p].left # NoNode /\ (k + j = new[p].left \/ k + j = new[p].right)
    <3>1. SUFFICES ASSUME NEW j \in 1..c, j \notin {1, 2}
                   PROVE  \E p \in 1..c :
                            new[p].left # NoNode /\ (k + j = new[p].left \/ k + j = new[p].right)
      OBVIOUS
    <3>2. PICK p \in DOMAIN new :
            new[p].left # NoNode /\ (k + j = new[p].left \/ k + j = new[p].right)
      BY <2>1, <2>2, <3>1 DEF Grafts
    <3> QED
      BY <2>2, <3>2
  <2> QED
    BY <2>3, <2>4, <2>5, Zenon
<1>6. /\ n \in 1..k /\ \A m \in 1..k : m \in 1..(k + c) /\ \A j \in 1..c : k + j \in 1..(k + c)
      /\ \A m \in 1..(k + c) : m \in 1..k \/ \E j \in 1..c : m = k + j
  <2>1. n \in 1..k
    BY <1>2
  <2>2. ASSUME NEW m \in 1..(k + c), m \notin 1..k PROVE \E j \in 1..c : m = k + j
    <3>1. m - k \in 1..c /\ m = k + (m - k)
      BY <2>2, <1>2
    <3> QED
      BY <3>1
  <2>3. \A m \in 1..k : m \in 1..(k + c)
    BY <1>2
  <2>4. \A j \in 1..c : k + j \in 1..(k + c)
    BY <1>2
  <2> QED
    BY <2>1, <2>2, <2>3, <2>4
<1>7. /\ \A m \in 1..k : u[m].at = t[m].at /\ u[m].depth = t[m].depth
      /\ \A m \in 1..k : m # n => u[m].left = t[m].left /\ u[m].right = t[m].right
  BY <1>2, <1>4
<1>8. \A m \in 1..(k + c) : NodeGood(u[m])
  <2>1. SUFFICES ASSUME NEW m \in 1..(k + c) PROVE NodeGood(u[m])
    OBVIOUS
  <2>2. ASSUME m \in 1..k PROVE NodeGood(u[m])
    BY <2>2, <1>2, <1>3, <1>4, Zenon
  <2>3. ASSUME NEW j \in 1..c, m = k + j PROVE NodeGood(u[m])
    BY <2>3, <1>2, <1>5, Zenon
  <2> QED
    BY <1>6, <2>2, <2>3
<1>9. \A m \in 1..k : t[m].left # NoNode =>
        /\ t[m].left \in 1..k /\ t[m].right \in 1..k
        /\ t[t[m].left].depth = t[m].depth + 1 /\ t[t[m].right].depth = t[m].depth + 1
        /\ t[t[m].left].at = Half(t[m].at, TRUE) /\ t[t[m].right].at = Half(t[m].at, FALSE)
  BY <1>1, <1>2 DEF TreeGood, Splits, Nodes, IsLeaf, Depth, Region
<1>10. t[n].left = NoNode
  BY <1>1 DEF IsLeaf
<1>11. \A m \in 1..(k + c) : u[m].left = NoNode \/ Splits(o2, m)
  <2>1. SUFFICES ASSUME NEW m \in 1..(k + c), u[m].left # NoNode
                 PROVE  \E a, b \in 1..(k + c) :
                          /\ u[m].left = a /\ u[m].right = b
                          /\ u[a].depth = u[m].depth + 1 /\ u[b].depth = u[m].depth + 1
                          /\ u[a].at = Half(u[m].at, TRUE) /\ u[b].at = Half(u[m].at, FALSE)
    <3>1. SUFFICES ASSUME NEW m \in 1..(k + c), NEW a \in 1..(k + c), NEW b \in 1..(k + c),
                          u[m].left = a /\ u[m].right = b,
                          u[a].depth = u[m].depth + 1 /\ u[b].depth = u[m].depth + 1,
                          u[a].at = Half(u[m].at, TRUE) /\ u[b].at = Half(u[m].at, FALSE)
                   PROVE  Splits(o2, m)
      OBVIOUS
    <3>2. Nodes(o2) = 1..(k + c)
      BY <1>2
    <3> HIDE DEF k, c, t
    <3> QED
      BY <3>1, <3>2 DEF Splits, Depth, Region
  <2>2. CASE m = n
    <3>1. PICK a, b \in 1..(k + c) : a = k + 1 /\ b = k + 2
      BY <1>5, <1>6
    <3>2. u[a] = new[1] /\ u[b] = new[2]
      BY <1>2, <1>5, <3>1
    <3>3. u[m].left = a /\ u[m].right = b /\ u[m].depth = t[n].depth /\ u[m].at = t[n].at
      BY <1>2, <1>4, <2>2, <3>1
    <3>4. /\ new[1].at = Half(t[n].at, TRUE) /\ new[2].at = Half(t[n].at, FALSE)
          /\ new[1].depth = t[n].depth + 1 /\ new[2].depth = t[n].depth + 1
      BY <1>5
    <3>5. /\ u[a].depth = u[m].depth + 1 /\ u[b].depth = u[m].depth + 1
          /\ u[a].at = Half(u[m].at, TRUE) /\ u[b].at = Half(u[m].at, FALSE)
      BY <3>2, <3>3, <3>4
    <3> HIDE DEF u, k, c
    <3> QED
      BY <3>3, <3>5
  <2>3. CASE m \in 1..k /\ m # n
    <3>1. u[m].left = t[m].left /\ u[m].right = t[m].right /\ t[m].left # NoNode
      BY <1>7, <2>1, <2>3
    <3>2. PICK a \in 1..k, b \in 1..k : a = t[m].left /\ b = t[m].right
      BY <1>9, <2>3, <3>1
    <3>3. /\ t[a].depth = t[m].depth + 1 /\ t[b].depth = t[m].depth + 1
          /\ t[a].at = Half(t[m].at, TRUE) /\ t[b].at = Half(t[m].at, FALSE)
      BY <1>9, <2>3, <3>1, <3>2
    <3>4. /\ u[m].at = t[m].at /\ u[m].depth = t[m].depth
          /\ u[a].at = t[a].at /\ u[a].depth = t[a].depth
          /\ u[b].at = t[b].at /\ u[b].depth = t[b].depth
      BY <1>7, <2>3, <3>2
    <3>5. a \in 1..(k + c) /\ b \in 1..(k + c)
      BY <1>6
    <3>6. /\ u[m].left = a /\ u[m].right = b
          /\ u[a].depth = u[m].depth + 1 /\ u[b].depth = u[m].depth + 1
          /\ u[a].at = Half(u[m].at, TRUE) /\ u[b].at = Half(u[m].at, FALSE)
      BY <3>1, <3>2, <3>3, <3>4
    <3> HIDE DEF u, k, c
    <3> QED
      BY <3>5, <3>6
  <2>4. ASSUME NEW j \in 1..c, m = k + j
        PROVE  \E a, b \in 1..(k + c) :
                 /\ u[m].left = a /\ u[m].right = b
                 /\ u[a].depth = u[m].depth + 1 /\ u[b].depth = u[m].depth + 1
                 /\ u[a].at = Half(u[m].at, TRUE) /\ u[b].at = Half(u[m].at, FALSE)
    <3>1. u[m] = new[j]
      BY <1>2, <2>4
    <3>2. PICK a \in 1..c, b \in 1..c :
            /\ new[j].left = k + a /\ new[j].right = k + b
            /\ new[a].depth = new[j].depth + 1 /\ new[b].depth = new[j].depth + 1
            /\ new[a].at = Half(new[j].at, TRUE) /\ new[b].at = Half(new[j].at, FALSE)
      BY <1>5, <2>1, <3>1
    <3>3. u[k + a] = new[a] /\ u[k + b] = new[b] /\ k + a \in 1..(k + c) /\ k + b \in 1..(k + c)
      BY <1>2, <1>6
    <3> QED
      BY <3>1, <3>2, <3>3
  <2> QED
    BY <1>6, <2>2, <2>3, <2>4
<1>12. \A m \in 1..(k + c) : m = 1 \/ \E p \in 1..(k + c) :
         u[p].left # NoNode /\ (m = u[p].left \/ m = u[p].right)
  <2>1. SUFFICES ASSUME NEW m \in 1..(k + c), m # 1
                 PROVE  \E p \in 1..(k + c) : u[p].left # NoNode /\ (m = u[p].left \/ m = u[p].right)
    OBVIOUS
  <2>2. ASSUME m \in 1..k
        PROVE  \E p \in 1..(k + c) : u[p].left # NoNode /\ (m = u[p].left \/ m = u[p].right)
    <3>1. PICK p \in 1..k : t[p].left # NoNode /\ (m = t[p].left \/ m = t[p].right)
      <4>1. Nodes(o1) = 1..k /\ m # RootNode
        BY <1>2, <2>1 DEF RootNode
      <4> HIDE DEF k
      <4>2. PICK p \in 1..k : ParentIn(o1, p, m)
        BY <2>2, <4>1 DEF TreeGood
      <4> QED
        BY <4>2 DEF ParentIn, IsLeaf
    <3>2. p # n
      BY <1>10, <3>1
    <3> QED
      BY <1>6, <1>7, <3>1, <3>2
  <2>3. ASSUME NEW j \in 1..c, m = k + j
        PROVE  \E p \in 1..(k + c) : u[p].left # NoNode /\ (m = u[p].left \/ m = u[p].right)
    <3>1. ASSUME j \in {1, 2}
          PROVE  \E p \in 1..(k + c) : u[p].left # NoNode /\ (m = u[p].left \/ m = u[p].right)
      <4>1. k + 1 # NoNode
        BY <1>2 DEF NoNode
      <4> QED
        BY <1>2, <1>4, <1>6, <2>3, <3>1, <4>1
    <3>2. ASSUME NEW p \in 1..c, new[p].left # NoNode,
                 k + j = new[p].left \/ k + j = new[p].right
          PROVE  \E q \in 1..(k + c) : u[q].left # NoNode /\ (m = u[q].left \/ m = u[q].right)
      <4>1. u[k + p] = new[p] /\ k + p \in 1..(k + c)
        BY <1>2, <1>6
      <4> QED
        BY <2>3, <3>2, <4>1
    <3> QED
      BY <1>5, <3>1, <3>2
  <2> QED
    BY <1>6, <2>2, <2>3
<1>13. TreeGood(o2)
  <2>1. 1 \in 1..(k + c)
    BY <1>2, <1>6
  <2>2. \A m \in Nodes(o2) : NodeGood(o2.tree[m])
    BY <1>1, <1>2, <1>8
  <2>3. \A m \in Nodes(o2) : IsLeaf(o2, m) \/ Splits(o2, m)
    BY <1>1, <1>2, <1>11 DEF IsLeaf
  <2>4. \A m \in Nodes(o2) : m = RootNode \/ \E p \in Nodes(o2) : ParentIn(o2, p, m)
    <3>1. Nodes(o2) = 1..(k + c)
      BY <1>2
    <3> HIDE DEF k, c
    <3> QED
      BY <1>12, <3>1, Zenon DEF ParentIn, IsLeaf, RootNode
  <2>5. IsSeq(o2.tree) /\ RootNode \in Nodes(o2)
    BY <1>1, <1>2, <2>1 DEF RootNode
  <2> QED
    BY <1>2, <2>2, <2>3, <2>4, <2>5 DEF TreeGood
<1>14. \A m \in 1..k : u[m].left = NoNode => t[m].left = NoNode
  BY <1>7, <1>10
<1>15. Extends(o1, o2)
  BY <1>1, <1>2, <1>6, <1>7, <1>14 DEF Extends, Region, Depth, IsLeaf
<1>16. ~IsLeaf(o2, n)
  <2>1. k + 1 # NoNode
    BY <1>2 DEF NoNode
  <2> QED
    BY <1>1, <1>2, <1>4, <2>1 DEF IsLeaf
<1> QED
  BY <1>2, <1>13, <1>15, <1>16 DEF o2

\* split_node on a leaf of the tree.
LEMMA SplitNodeGood ==
  ASSUME NEW o1, TreeGood(o1), NEW n \in Nodes(o1), IsLeaf(o1, n), Depth(o1, n) < MaxTreeDepth - 1
  PROVE  /\ TreeGood(SplitNode(o1, n)) /\ Extends(o1, SplitNode(o1, n))
         /\ ~IsLeaf(SplitNode(o1, n), n) /\ SplitNode(o1, n).rootEv = o1.rootEv
<1>1. PICK r, d, lo, hi, new : /\ r = Region(o1, n) /\ d = Depth(o1, n)
                               /\ lo = NewNode(Half(r, TRUE), d + 1)
                               /\ hi = NewNode(Half(r, FALSE), d + 1) /\ new = <<lo, hi>>
  OBVIOUS
<1>2. NodeGood(o1.tree[n])
  BY DEF TreeGood
<1>3. d \in 0..MaxTreeDepth - 1 /\ d + 1 \in 0..MaxTreeDepth - 1
  BY <1>1, <1>2, DepthBounds DEF NodeGood, Depth
<1>4. PICK q \in Units : r = Cell(q, d)
  BY <1>1, <1>2 DEF NodeGood, Region, Depth
<1>5. NodeGood(NewNode(Half(r, TRUE), d + 1)) /\ NodeGood(NewNode(Half(r, FALSE), d + 1))
  BY <1>3, <1>4, HalvesGood
<1>6. /\ lo.depth = d + 1 /\ hi.depth = d + 1 /\ lo.left = NoNode /\ hi.left = NoNode
      /\ lo.at = Half(r, TRUE) /\ hi.at = Half(r, FALSE) /\ NodeGood(lo) /\ NodeGood(hi)
  BY <1>1, <1>5 DEF NewNode
<1>7. /\ IsSeq(new) /\ Len(new) = 2 /\ new[1] = lo /\ new[2] = hi
  BY <1>1, SeqPair, Zenon
<1>8. DOMAIN new = 1..2
  BY <1>7, SeqShape
<1>9. Grafts(new, Len(o1.tree), r, d)
  <2>1. 1 \in DOMAIN new /\ 2 \in DOMAIN new
    BY <1>8
  <2>2. \A j \in DOMAIN new : j \in {1, 2}
    BY <1>8
  <2>3. \A j \in DOMAIN new : NodeGood(new[j]) /\ new[j].left = NoNode
    BY <1>6, <1>7, <2>2
  <2> QED
    BY <1>6, <1>7, <2>1, <2>2, <2>3, Zenon DEF Grafts
<1>10. SplitNode(o1, n) = Grafted(o1, n, new)
  BY <1>1, Zenon DEF SplitNode, Grafted, Parted, Region, Depth
<1>11. Grafts(new, Len(o1.tree), Region(o1, n), Depth(o1, n))
  BY <1>1, <1>9, Zenon
<1>12. /\ TreeGood(Grafted(o1, n, new)) /\ Extends(o1, Grafted(o1, n, new))
       /\ ~IsLeaf(Grafted(o1, n, new), n) /\ Grafted(o1, n, new).rootEv = o1.rootEv
  BY <1>11, GraftGood
<1> QED
  BY <1>10, <1>12, Zenon

\* The nodes a descent adds.
LEMMA BelowGrafts ==
  ASSUME NEW q \in Units, NEW from \in 0..MaxTreeDepth - 1, NEW d \in 0..MaxTreeDepth - 1,
         from < d, NEW k \in Nat
  PROVE  /\ Grafts(Below(q, from, d, k), k, Cell(q, from), from)
         /\ DOMAIN Below(q, from, d, k) = 1..2 * (d - from)
         /\ \E j \in DOMAIN Below(q, from, d, k) :
              /\ Below(q, from, d, k)[j].at = Cell(q, d) /\ Below(q, from, d, k)[j].depth = d
              /\ Within(q, Below(q, from, d, k)[j].at)
<1>1. PICK new, n : new = Below(q, from, d, k) /\ n = d - from
  OBVIOUS
<1>2. n \in Nat \ {0} /\ DOMAIN new = 1..2 * n /\ new = [j \in 1..2 * n |-> new[j]]
  BY <1>1, DepthBounds DEF Below
<1>0. /\ Res \in Nat /\ MaxTreeDepth \in Nat /\ MaxTreeDepth - 1 <= Res /\ from \in Nat /\ d \in Nat
      /\ d <= MaxTreeDepth - 1 /\ from + n = d
  BY <1>1, DepthBounds
<1> DEFINE H(i, b) == Half(Cell(q, from + i - 1), b)
<1>3. \A i \in 1..n : \A b \in BOOLEAN :
        /\ H(i, b) = Half(Cell(q, from + i - 1), b)
        /\ NodeGood(NewNode(H(i, b), from + i))
        /\ Within(q, H(i, b)) => H(i, b) = Cell(q, from + i)
        /\ Within(q, H(i, TRUE)) \/ Within(q, H(i, FALSE))
  <2>1. SUFFICES ASSUME NEW i \in 1..n, NEW b \in BOOLEAN
                 PROVE  /\ NodeGood(NewNode(H(i, b), from + i))
                        /\ Within(q, H(i, b)) => H(i, b) = Cell(q, from + i)
                        /\ Within(q, H(i, TRUE)) \/ Within(q, H(i, FALSE))
    OBVIOUS
  <2>2. PICK e : e = from + i - 1
    OBVIOUS
  <2>3. /\ e \in 0..MaxTreeDepth - 1 /\ e + 1 \in 0..MaxTreeDepth - 1 /\ e \in 0..Res /\ e < Res
        /\ e + 1 = from + i
    BY <1>0, <1>2, <2>2, SMTT(20)
  <2>4. NodeGood(NewNode(Half(Cell(q, e), b), e + 1))
    BY <2>3, HalvesGood
  <2>5. /\ Within(q, Half(Cell(q, e), b)) => Half(Cell(q, e), b) = Cell(q, e + 1)
        /\ Within(q, Cell(q, e))
    <3>1. Within(q, Cell(q, e))
      BY <2>3, CellBounds
    <3>2. \A p \in Units : Within(p, Half(Cell(q, e), b)) =>
              Half(Cell(q, e), b) = Cell(p, e + 1) /\ Within(p, Cell(q, e))
      BY <2>3, CellHalves
    <3> QED
      BY <3>1, <3>2
  <2>6. Within(q, Half(Cell(q, e), TRUE)) \/ Within(q, Half(Cell(q, e), FALSE))
    BY <2>3, <2>5, CellHalves
  <2> QED
    BY <2>2, <2>3, <2>4, <2>5, <2>6
<1>4. \A i \in 1..n : /\ 2 * i - 1 \in 1..2 * n /\ 2 * i \in 1..2 * n
                      /\ (2 * i - 1 + 1) \div 2 = i /\ (2 * i - 1) % 2 = 1
                      /\ (2 * i + 1) \div 2 = i /\ (2 * i) % 2 # 1
  <2>1. \A i \in 1..n : i \in Nat \ {0} /\ 2 * i - 1 \in 1..2 * n /\ 2 * i \in 1..2 * n
    BY <1>2
  <2> QED
    BY <2>1, PairingBack
<1>5. \A j \in 1..2 * n : \E i \in 1..n : j = 2 * i - 1 \/ j = 2 * i
  <2>1. \A j \in 1..2 * n : (j + 1) \div 2 \in 1..n
                       /\ (j = 2 * ((j + 1) \div 2) - 1 \/ j = 2 * ((j + 1) \div 2))
    BY <1>2, Pairing
  <2> QED
    BY <2>1
<1>6. \A i \in 1..n : /\ Fits(new[2 * i - 1], q, H(i, TRUE), k, from, i, d)
                      /\ Fits(new[2 * i], q, H(i, FALSE), k, from, i, d)
  <2>1. SUFFICES ASSUME NEW i \in 1..n
                 PROVE  /\ Fits(new[2 * i - 1], q, H(i, TRUE), k, from, i, d)
                        /\ Fits(new[2 * i], q, H(i, FALSE), k, from, i, d)
    OBVIOUS
  <2>2. PICK lo, hi : lo = 2 * i - 1 /\ hi = 2 * i
    OBVIOUS
  <2>3. /\ lo \in Nat /\ hi \in Nat /\ lo \in 1..2 * n /\ hi \in 1..2 * n
        /\ i = (lo + 1) \div 2 /\ i = (hi + 1) \div 2 /\ lo % 2 = 1 /\ hi % 2 # 1
    <3>1. i \in Nat /\ lo \in 1..2 * n /\ hi \in 1..2 * n
      BY <1>2, <1>4, <2>2
    <3>2. i = (lo + 1) \div 2 /\ i = (hi + 1) \div 2 /\ lo % 2 = 1 /\ hi % 2 # 1
      BY <1>4, <2>2, Zenon
    <3>3. lo \in Nat /\ hi \in Nat
      BY <1>2, <3>1
    <3> QED
      BY <3>1, <3>2, <3>3, Zenon
  <2>4. PICK c : c = Cell(q, from + i - 1)
    OBVIOUS
  <2>5. PICK r, s : r = Half(c, TRUE) /\ s = Half(c, FALSE)
    OBVIOUS
  <2>6. r = Half(c, lo % 2 = 1) /\ s = Half(c, hi % 2 = 1)
    BY <2>3, <2>5 DEF Half
  <2>7. r = Half(Cell(q, from + i - 1), lo % 2 = 1) /\ s = Half(Cell(q, from + i - 1), hi % 2 = 1)
    BY <2>4, <2>6
  <2>8. from \in Nat
    BY DepthBounds
  <2>9. Fits(BelowNode(q, from, d, k, lo), q, r, k, from, i, d)
    BY <2>3, <2>7, <2>8, BelowShape
  <2>10. Fits(BelowNode(q, from, d, k, hi), q, s, k, from, i, d)
    BY <2>3, <2>7, <2>8, BelowShape
  <2>11. new[lo] = BelowNode(q, from, d, k, lo) /\ new[hi] = BelowNode(q, from, d, k, hi)
    BY <1>1, <1>2, <2>3 DEF Below
  <2> QED
    BY <2>2, <2>4, <2>5, <2>9, <2>10, <2>11, Zenon
<1>7. \A i \in 1..n : \A b \in BOOLEAN : \A x : Fits(x, q, H(i, b), k, from, i, d) =>
        /\ NodeGood(x) /\ x.at = H(i, b) /\ x.depth = from + i
        /\ x.left = NoNode \/ /\ i + 1 \in 1..n /\ x.at = Cell(q, from + i)
                              /\ x.left = k + (2 * i + 1) /\ x.right = k + (2 * i + 2)
        /\ Within(q, H(i, b)) /\ i + 1 \in 1..n => x.left = k + (2 * i + 1) /\ x.right = k + (2 * i + 2)
  <2>1. SUFFICES ASSUME NEW i \in 1..n, NEW b \in BOOLEAN, NEW x, Fits(x, q, H(i, b), k, from, i, d)
                 PROVE  /\ NodeGood(x) /\ x.at = H(i, b) /\ x.depth = from + i
                        /\ x.left = NoNode \/ /\ i + 1 \in 1..n /\ x.at = Cell(q, from + i)
                                              /\ x.left = k + (2 * i + 1) /\ x.right = k + (2 * i + 2)
                        /\ Within(q, H(i, b)) /\ i + 1 \in 1..n =>
                             x.left = k + (2 * i + 1) /\ x.right = k + (2 * i + 2)
    BY Zenon
  <2>2. NodeGood(NewNode(H(i, b), from + i)) /\ (Within(q, H(i, b)) => H(i, b) = Cell(q, from + i))
    BY <1>3
  <2>3. from + i < d <=> i + 1 \in 1..n
    BY <1>0, <1>2
  <2>4. k + 2 * i + 1 = k + (2 * i + 1) /\ k + 2 * i + 2 = k + (2 * i + 2)
    OBVIOUS
  <2> HIDE DEF H
  <2>5. NodeGood(x)
    BY <2>1, <2>2 DEF NodeGood, NewNode, Fits
  <2> QED
    BY <2>1, <2>2, <2>3, <2>4, <2>5 DEF Fits
<1> HIDE DEF H
<1>8. \A j \in 1..2 * n : NodeGood(new[j])
  BY <1>5, <1>6, <1>7, ZenonT(40)
<1>9. \A j \in 1..2 * n : new[j].left = NoNode \/ \E a, b \in 1..2 * n :
        /\ new[j].left = k + a /\ new[j].right = k + b
        /\ new[a].depth = new[j].depth + 1 /\ new[b].depth = new[j].depth + 1
        /\ new[a].at = Half(new[j].at, TRUE) /\ new[b].at = Half(new[j].at, FALSE)
  <2>1. SUFFICES ASSUME NEW j \in 1..2 * n, new[j].left # NoNode
                 PROVE  \E a, b \in 1..2 * n :
                          /\ new[j].left = k + a /\ new[j].right = k + b
                          /\ new[a].depth = new[j].depth + 1 /\ new[b].depth = new[j].depth + 1
                          /\ new[a].at = Half(new[j].at, TRUE) /\ new[b].at = Half(new[j].at, FALSE)
    OBVIOUS
  <2>2. PICK i \in 1..n : j = 2 * i - 1 \/ j = 2 * i
    BY <1>5
  <2>3. PICK b \in BOOLEAN : Fits(new[j], q, H(i, b), k, from, i, d)
    BY <1>6, <2>2
  <2>4. /\ i + 1 \in 1..n /\ new[j].at = Cell(q, from + i) /\ new[j].depth = from + i
        /\ new[j].left = k + (2 * i + 1) /\ new[j].right = k + (2 * i + 2)
    BY <1>7, <2>1, <2>3
  <2>5. PICK m \in 1..n : m = i + 1
    BY <2>4
  <2>6. PICK lo, hi \in 1..2 * n : lo = 2 * m - 1 /\ hi = 2 * m
    BY <1>4
  <2>7. /\ Fits(new[lo], q, H(m, TRUE), k, from, m, d) /\ Fits(new[hi], q, H(m, FALSE), k, from, m, d)
    BY <1>6, <2>6
  <2>8. /\ new[lo].at = H(m, TRUE) /\ new[lo].depth = from + m
        /\ new[hi].at = H(m, FALSE) /\ new[hi].depth = from + m
    BY <1>7, <2>7
  <2>9. H(m, TRUE) = Half(new[j].at, TRUE) /\ H(m, FALSE) = Half(new[j].at, FALSE)
    <3>1. from + m - 1 = from + i
      BY <2>5
    <3> QED
      BY <2>4, <3>1, Zenon DEF H
  <2>10. lo = 2 * i + 1 /\ hi = 2 * i + 2 /\ from + m = (from + i) + 1
    BY <2>5, <2>6
  <2>11. /\ new[j].left = k + lo /\ new[j].right = k + hi
         /\ new[lo].depth = new[j].depth + 1 /\ new[hi].depth = new[j].depth + 1
         /\ new[lo].at = Half(new[j].at, TRUE) /\ new[hi].at = Half(new[j].at, FALSE)
    BY <2>4, <2>8, <2>9, <2>10, Zenon
  <2> QED
    BY <2>11
<1>10. \A j \in 1..2 * n : j \in {1, 2} \/ \E p \in 1..2 * n :
         new[p].left # NoNode /\ (k + j = new[p].left \/ k + j = new[p].right)
  <2>1. SUFFICES ASSUME NEW j \in 1..2 * n, j \notin {1, 2}
                 PROVE  \E p \in 1..2 * n :
                          new[p].left # NoNode /\ (k + j = new[p].left \/ k + j = new[p].right)
    OBVIOUS
  <2>2. PICK i \in 1..n : j = 2 * i - 1 \/ j = 2 * i
    BY <1>5
  <2>3. PICK m \in 1..n : i = m + 1
    <3>1. i - 1 \in 1..n /\ i = (i - 1) + 1
      BY <1>2, <2>1, <2>2
    <3> QED
      BY <3>1
  <2>4. PICK b \in BOOLEAN : Within(q, H(m, b))
    BY <1>3 DEF H
  <2>5. PICK p \in 1..2 * n : Fits(new[p], q, H(m, b), k, from, m, d)
    BY <1>4, <1>6
  <2>6. new[p].left = k + (2 * m + 1) /\ new[p].right = k + (2 * m + 2)
    <3>1. m + 1 \in 1..n
      BY <2>3
    <3> QED
      BY <1>7, <2>4, <2>5, <3>1
  <2>7. k + (2 * m + 1) # NoNode
    BY <1>2 DEF NoNode
  <2>8. j = 2 * m + 1 \/ j = 2 * m + 2
    BY <2>2, <2>3
  <2> QED
    BY <2>6, <2>7, <2>8
<1>11. \E j \in 1..2 * n : new[j].at = Cell(q, d) /\ new[j].depth = d /\ Within(q, new[j].at)
  <2>1. n \in 1..n /\ from + n = d
    BY <1>0, <1>2
  <2>2. PICK b \in BOOLEAN : Within(q, H(n, b))
    BY <1>3, <2>1 DEF H
  <2>3. H(n, b) = Cell(q, d)
    BY <1>3, <2>1, <2>2 DEF H
  <2>4. PICK p \in 1..2 * n : Fits(new[p], q, H(n, b), k, from, n, d)
    BY <1>4, <1>6, <2>1
  <2>5. new[p].at = H(n, b) /\ new[p].depth = from + n
    BY <1>7, <2>1, <2>4
  <2> QED
    BY <2>1, <2>2, <2>3, <2>5
<1>12. /\ 1 \in 1..2 * n /\ 2 \in 1..2 * n
       /\ new[1].at = Half(Cell(q, from), TRUE) /\ new[2].at = Half(Cell(q, from), FALSE)
       /\ new[1].depth = from + 1 /\ new[2].depth = from + 1
  <2>1. PICK i \in 1..n : i = 1
    BY <1>2
  <2>2. 2 * i - 1 = 1 /\ 2 * i = 2 /\ from + i - 1 = from /\ from + i = from + 1
    BY <2>1, DepthBounds
  <2>3. Fits(new[1], q, H(i, TRUE), k, from, i, d) /\ Fits(new[2], q, H(i, FALSE), k, from, i, d)
    BY <1>6, <2>2
  <2>4. H(i, TRUE) = Half(Cell(q, from), TRUE) /\ H(i, FALSE) = Half(Cell(q, from), FALSE)
    BY <2>2, Zenon DEF H
  <2> QED
    BY <1>4, <1>7, <2>2, <2>3, <2>4
<1>13. IsSeq(new)
  BY <1>2, SeqFunction
<1>14. Grafts(new, k, Cell(q, from), from)
  BY <1>2, <1>8, <1>9, <1>10, <1>12, <1>13 DEF Grafts
<1> QED
  BY <1>1, <1>2, <1>11, <1>14, Zenon

\* A descent towards a cell of the tree's depths leaves a tree that holds it.
LEMMA SplitDownGood ==
  ASSUME NEW o1, TreeGood(o1), NEW q \in Units, Within(q, Region(o1, RootNode)),
         NEW d \in 0..MaxTreeDepth - 1
  PROVE  /\ TreeGood(SplitDown(o1, q, d)) /\ Extends(o1, SplitDown(o1, q, d))
         /\ SplitDown(o1, q, d).rootEv = o1.rootEv
         /\ Depth(o1, RootNode) <= d => \E n \in Path(SplitDown(o1, q, d), q) :
                                          Depth(SplitDown(o1, q, d), n) = d
<1>1. PICK n, from, k : n = LeafContaining(o1, q) /\ from = Depth(o1, n) /\ k = Len(o1.tree)
  OBVIOUS
<1>2. n \in Path(o1, q) /\ n \in Nodes(o1) /\ IsLeaf(o1, n)
  BY <1>1, LeafFound
<1>3. from \in 0..MaxTreeDepth - 1 /\ Region(o1, n) = Cell(q, from)
  BY <1>1, <1>2, PathCell
<1>4. ASSUME d <= from
      PROVE  SplitDown(o1, q, d) = o1
             /\ (Depth(o1, RootNode) <= d => \E m \in Path(o1, q) : Depth(o1, m) = d)
  <2>1. SplitDown(o1, q, d) = o1
    BY <1>1, <1>4, Zenon DEF SplitDown
  <2>2. ASSUME Depth(o1, RootNode) <= d PROVE d \in Depth(o1, RootNode)..Depth(o1, n)
    <3>1. Depth(o1, RootNode) \in Int
      BY DEF TreeGood, NodeGood, Depth
    <3> QED
      BY <1>1, <1>3, <1>4, <2>2, <3>1, DepthBounds
  <2>3. \A e \in Depth(o1, RootNode)..Depth(o1, n) : \E m \in Path(o1, q) : Depth(o1, m) = e
    BY <1>2, PathChain
  <2> QED
    BY <2>1, <2>2, <2>3
<1>5. Extends(o1, o1)
  BY DEF Extends
<1>6. ASSUME from < d PROVE SplitDown(o1, q, d) = Grafted(o1, n, Below(q, from, d, k))
  <2>1. ~(d <= from)
    BY <1>3, <1>6, DepthBounds
  <2> QED
    BY <1>1, <2>1, Zenon DEF SplitDown, Grafted, Parted, Below, BelowNode
<1>7. ASSUME from < d
      PROVE  LET o2 == SplitDown(o1, q, d) IN
             /\ TreeGood(o2) /\ Extends(o1, o2) /\ o2.rootEv = o1.rootEv
             /\ \E m \in Path(o2, q) : Depth(o2, m) = d
  <2>1. PICK new : new = Below(q, from, d, k)
    OBVIOUS
  <2>2. k \in Nat
    BY <1>1, SeqShape DEF TreeGood
  <2>3. /\ Grafts(Below(q, from, d, k), k, Cell(q, from), from)
        /\ DOMAIN Below(q, from, d, k) = 1..2 * (d - from)
        /\ \E j \in DOMAIN Below(q, from, d, k) :
             /\ Below(q, from, d, k)[j].at = Cell(q, d) /\ Below(q, from, d, k)[j].depth = d
             /\ Within(q, Below(q, from, d, k)[j].at)
    BY <1>3, <1>7, <2>2, BelowGrafts
  <2>4. Grafts(new, Len(o1.tree), Region(o1, n), Depth(o1, n))
    BY <1>1, <1>3, <2>1, <2>3, Zenon
  <2>5. PICK o2 : o2 = Grafted(o1, n, new)
    OBVIOUS
  <2>6. TreeGood(o2) /\ Extends(o1, o2) /\ o2.rootEv = o1.rootEv
    BY <1>2, <2>4, <2>5, GraftGood, Zenon
  <2>7. PICK j \in DOMAIN new : new[j].depth = d /\ Within(q, new[j].at)
    BY <2>1, <2>3
  <2>8. /\ Len(o1.tree) \in Nat /\ Nodes(o2) = 1..(Len(o1.tree) + Len(new))
        /\ DOMAIN new = 1..Len(new) /\ Len(new) \in Nat
        /\ \A i \in 1..Len(new) : o2.tree[Len(o1.tree) + i] = new[i]
    <3>1. /\ IsOracle(Grafted(o1, n, new)) /\ IsSeq(Grafted(o1, n, new).tree)
          /\ Len(o1.tree) \in Nat /\ Nodes(o1) = 1..Len(o1.tree)
          /\ Nodes(Grafted(o1, n, new)) = 1..(Len(o1.tree) + Len(new))
          /\ DOMAIN new = 1..Len(new) /\ Len(new) \in Nat
          /\ Grafted(o1, n, new).tree[n] = Parted(o1.tree[n], Len(o1.tree))
          /\ \A i \in 1..Len(o1.tree) : i # n => Grafted(o1, n, new).tree[i] = o1.tree[i]
          /\ \A i \in 1..Len(new) : Grafted(o1, n, new).tree[Len(o1.tree) + i] = new[i]
          /\ Grafted(o1, n, new).boxOf = o1.boxOf /\ Grafted(o1, n, new).nodeOf = o1.nodeOf
          /\ Grafted(o1, n, new).rootEv = o1.rootEv /\ Grafted(o1, n, new).store = o1.store
      BY <1>2, <2>4, GraftTree
    <3> QED
      BY <2>5, <3>1, Zenon
  <2>9. PICK m : m = Len(o1.tree) + j
    OBVIOUS
  <2>10. m \in Nodes(o2) /\ o2.tree[m] = new[j]
    BY <2>8, <2>9
  <2>11. m \in Path(o2, q) /\ Depth(o2, m) = d
    BY <2>7, <2>10 DEF Path, Depth, Region
  <2> QED
    BY <1>6, <1>7, <2>1, <2>5, <2>6, <2>11, Zenon
<1>8. d <= from \/ from < d
  BY <1>3, DepthBounds
<1> QED
  BY <1>4, <1>5, <1>7, <1>8, Zenon

\* What a replay starts from.
ReplayStart(master, dom) == [o |-> master, map |-> [w \in {RootNode} |-> dom], todo |-> <<RootNode>>]

\* Replay, one step after the other.
LEMMA ReplayUnfolds ==
  ASSUME NEW master, NEW worker, IsSeq(worker.tree), NEW dom
  PROVE  \E u : /\ u[0] = ReplayStart(master, dom) /\ Replay(master, worker, dom) = u[Len(worker.tree)]
               /\ \A k \in 1..Len(worker.tree) : u[k] = ReplayStep(worker, u[k - 1])
<1> DEFINE n == Len(worker.tree)
           base == ReplayStart(master, dom)
           Op(x, k) == ReplayStep(worker, x)
           P(f, m) == f = [k \in 0..m |-> IF k = 0 THEN base ELSE Op(f[k - 1], k)]
           T == {m \in 0..n : \E f : P(f, m)}
           u == CHOOSE f : P(f, n)
<1>1. n \in Nat
  BY SeqShape
<1>2. Replay(master, worker, dom) = u[n]
  BY Zenon DEF Replay, ReplayStart
<1> HIDE DEF n, base, Op
<1>3. 0 \in T
  <2>1. PICK f : f = [k \in 0..0 |-> base]
    OBVIOUS
  <2>2. P(f, 0)
    BY <2>1
  <2> HIDE DEF P
  <2> QED
    BY <1>1, <2>2
<1>4. \A k \in 1..n : k - 1 \in T => k \in T
  <2>1. SUFFICES ASSUME NEW m \in 1..n, m - 1 \in T PROVE \E f : P(f, m)
    BY <1>1
  <2>2. PICK p \in 0..n : p = m - 1 /\ m = p + 1 /\ p \in T
    BY <1>1, <2>1
  <2>3. PICK f : P(f, p)
    BY <2>2
  <2>4. \A k \in 0..p : f[k] = IF k = 0 THEN base ELSE Op(f[k - 1], k)
    BY <2>3
  <2>5. PICK g : g = [k \in 0..m |-> IF k = m THEN Op(f[p], m) ELSE f[k]]
    OBVIOUS
  <2>6. \A k \in 0..m : g[k] = IF k = 0 THEN base ELSE Op(g[k - 1], k)
    <3>1. SUFFICES ASSUME NEW k \in 0..m PROVE g[k] = IF k = 0 THEN base ELSE Op(g[k - 1], k)
      OBVIOUS
    <3>2. CASE k = m
      <4>1. k # 0 /\ k - 1 \in 0..m /\ k - 1 # m /\ k - 1 = p
        BY <1>1, <2>2, <3>2
      <4>2. g[k] = Op(f[p], k) /\ g[k - 1] = f[p]
        BY <2>5, <3>2, <4>1, Zenon
      <4> QED
        BY <4>1, <4>2, Zenon
    <3>3. CASE k # m
      <4>1. k \in 0..p /\ (k # 0 => k - 1 \in 0..m /\ k - 1 # m)
        BY <1>1, <2>2, <3>3
      <4>2. g[k] = f[k] /\ (k # 0 => g[k - 1] = f[k - 1])
        BY <2>5, <3>3, <4>1
      <4> QED
        BY <2>4, <4>1, <4>2, Zenon
    <3> QED
      BY <3>2, <3>3
  <2>7. g = [k \in 0..m |-> g[k]]
    BY <2>5
  <2> QED
    BY <2>6, <2>7
<1>5. n \in T
  <2> HIDE DEF T
  <2>1. \A k \in 0..n : k \in T
    BY <1>1, <1>3, <1>4, UpTo
  <2> QED
    BY <1>1, <2>1
<1>6. P(u, n)
  <2> HIDE DEF P
  <2> QED
    BY <1>5, Zenon
<1>7. \A k \in 0..n : u[k] = IF k = 0 THEN base ELSE Op(u[k - 1], k)
  <2> HIDE DEF u
  <2> QED
    BY <1>6
<1> HIDE DEF u, P, T
<1>8. u[0] = base
  BY <1>1, <1>7
<1>9. \A k \in 1..n : u[k] = Op(u[k - 1], k)
  BY <1>1, <1>7
<1> QED
  BY <1>2, <1>8, <1>9, Zenon DEF n, base, Op

-----------------------------------------------------------------------------
(* Bisection.                                                               *)

\* The turns of a bisection between two depths.
Turns(lo, hi, free) ==
  LET turn[k \in 0..MaxTreeDepth] == IF k = 0 THEN [lo |-> lo, hi |-> hi, seen |-> {hi}]
                                     ELSE Probe(turn[k - 1], free)
  IN turn[MaxTreeDepth]
\* The turns, one after the other.
LEMMA TurnsUnfold ==
  ASSUME NEW lo, NEW hi, NEW free
  PROVE  \E u : /\ u[0] = [lo |-> lo, hi |-> hi, seen |-> {hi}] /\ Turns(lo, hi, free) = u[MaxTreeDepth]
               /\ \A k \in 1..MaxTreeDepth : u[k] = Probe(u[k - 1], free)
<1> DEFINE n == MaxTreeDepth
           base == [lo |-> lo, hi |-> hi, seen |-> {hi}]
           Op(x, k) == Probe(x, free)
           P(f, m) == f = [k \in 0..m |-> IF k = 0 THEN base ELSE Op(f[k - 1], k)]
           T == {m \in 0..n : \E f : P(f, m)}
           u == CHOOSE f : P(f, n)
<1>1. n \in Nat
  BY DepthBounds
<1>2. Turns(lo, hi, free) = u[n]
  BY Zenon DEF Turns
<1> HIDE DEF n, base, Op
<1>3. 0 \in T
  <2>1. PICK f : f = [k \in 0..0 |-> base]
    OBVIOUS
  <2>2. P(f, 0)
    BY <2>1
  <2> HIDE DEF P
  <2> QED
    BY <1>1, <2>2
<1>4. \A k \in 1..n : k - 1 \in T => k \in T
  <2>1. SUFFICES ASSUME NEW m \in 1..n, m - 1 \in T PROVE \E f : P(f, m)
    BY <1>1
  <2>2. PICK p \in 0..n : p = m - 1 /\ m = p + 1 /\ p \in T
    BY <1>1, <2>1
  <2>3. PICK f : P(f, p)
    BY <2>2
  <2>4. \A k \in 0..p : f[k] = IF k = 0 THEN base ELSE Op(f[k - 1], k)
    BY <2>3
  <2>5. PICK g : g = [k \in 0..m |-> IF k = m THEN Op(f[p], m) ELSE f[k]]
    OBVIOUS
  <2>6. \A k \in 0..m : g[k] = IF k = 0 THEN base ELSE Op(g[k - 1], k)
    <3>1. SUFFICES ASSUME NEW k \in 0..m PROVE g[k] = IF k = 0 THEN base ELSE Op(g[k - 1], k)
      OBVIOUS
    <3>2. CASE k = m
      <4>1. k # 0 /\ k - 1 \in 0..m /\ k - 1 # m /\ k - 1 = p
        BY <1>1, <2>2, <3>2
      <4>2. g[k] = Op(f[p], k) /\ g[k - 1] = f[p]
        BY <2>5, <3>2, <4>1, Zenon
      <4> QED
        BY <4>1, <4>2, Zenon
    <3>3. CASE k # m
      <4>1. k \in 0..p /\ (k # 0 => k - 1 \in 0..m /\ k - 1 # m)
        BY <1>1, <2>2, <3>3
      <4>2. g[k] = f[k] /\ (k # 0 => g[k - 1] = f[k - 1])
        BY <2>5, <3>3, <4>1
      <4> QED
        BY <2>4, <4>1, <4>2, Zenon
    <3> QED
      BY <3>2, <3>3
  <2>7. g = [k \in 0..m |-> g[k]]
    BY <2>5
  <2> QED
    BY <2>6, <2>7
<1>5. n \in T
  <2> HIDE DEF T
  <2>1. \A k \in 0..n : k \in T
    BY <1>1, <1>3, <1>4, UpTo
  <2> QED
    BY <1>1, <2>1
<1>6. P(u, n)
  <2> HIDE DEF P
  <2> QED
    BY <1>5, Zenon
<1>7. \A k \in 0..n : u[k] = IF k = 0 THEN base ELSE Op(u[k - 1], k)
  <2> HIDE DEF u
  <2> QED
    BY <1>6
<1> HIDE DEF u, P, T
<1>8. u[0] = base
  BY <1>1, <1>7
<1>9. \A k \in 1..n : u[k] = Op(u[k - 1], k)
  BY <1>1, <1>7
<1> QED
  BY <1>2, <1>8, <1>9, Zenon DEF n, base, Op

\* A turn only adds free depths to the answers.
LEMMA ProbeSeen ==
  ASSUME NEW free, NEW b, b = [lo |-> b.lo, hi |-> b.hi, seen |-> b.seen],
         b.seen # {}, b.seen \subseteq free
  PROVE  LET c == Probe(b, free) IN
         c = [lo |-> c.lo, hi |-> c.hi, seen |-> c.seen] /\ c.seen # {} /\ c.seen \subseteq free
<1> DEFINE mid == b.lo + (b.hi - b.lo) \div 2
<1>1. CASE b.lo >= b.hi
  BY <1>1 DEF Probe
<1>2. CASE ~(b.lo >= b.hi) /\ mid \in free
  <2>1. Probe(b, free) = [lo |-> b.lo, hi |-> mid, seen |-> b.seen \cup {mid}]
    BY <1>2 DEF Probe
  <2> HIDE DEF mid
  <2> QED
    BY <1>2, <2>1
<1>3. CASE ~(b.lo >= b.hi) /\ mid \notin free
  <2>1. Probe(b, free) = [b EXCEPT !.lo = mid + 1]
    BY <1>3 DEF Probe
  <2> HIDE DEF mid
  <2>2. Probe(b, free) = [lo |-> mid + 1, hi |-> b.hi, seen |-> b.seen]
    BY <2>1
  <2> QED
    BY <2>2
<1> QED
  BY <1>1, <1>2, <1>3

\* A bisection that starts from a certified depth sees certified depths only.
LEMMA TurnsSeen ==
  ASSUME NEW lo, NEW hi, NEW free, hi \in free
  PROVE  Turns(lo, hi, free).seen # {} /\ Turns(lo, hi, free).seen \subseteq free
<1>1. PICK u : /\ u[0] = [lo |-> lo, hi |-> hi, seen |-> {hi}]
               /\ Turns(lo, hi, free) = u[MaxTreeDepth]
               /\ \A k \in 1..MaxTreeDepth : u[k] = Probe(u[k - 1], free)
  BY TurnsUnfold
<1> DEFINE Good(b) == /\ b = [lo |-> b.lo, hi |-> b.hi, seen |-> b.seen]
                      /\ b.seen # {} /\ b.seen \subseteq free
           T == {k \in 0..MaxTreeDepth : Good(u[k])}
<1>2. Good(u[0])
  <2>1. PICK v : v = u[0]
    OBVIOUS
  <2>2. Good(v)
    BY <1>1, <2>1
  <2> QED
    BY <2>1, <2>2, Zenon
<1>3. \A b : Good(b) => Good(Probe(b, free))
  BY ProbeSeen
<1> HIDE DEF Good
<1>4. 0 \in T /\ \A k \in 1..MaxTreeDepth : k - 1 \in T => k \in T
  BY <1>1, <1>2, <1>3, DepthBounds
<1>5. MaxTreeDepth \in T
  <2> HIDE DEF T
  <2>1. \A k \in 0..MaxTreeDepth : k \in T
    BY <1>4, UpTo, DepthBounds
  <2> QED
    BY <2>1, DepthBounds
<1>6. Good(Turns(lo, hi, free))
  BY <1>1, <1>5
<1> QED
  BY <1>6 DEF Good

\* The lowest and the highest of some depths are among them.
LEMMA LowestIn ==
  ASSUME NEW S \in SUBSET Nat, S # {}
  PROVE  Lowest(S) \in S /\ \A y \in S : Lowest(S) <= y
BY LeastNat DEF Lowest

\* The higher of two numbers.
LEMMA HighestOfTwo ==
  ASSUME NEW a \in Int, NEW b \in Int
  PROVE  Highest({a, b}) = IF a <= b THEN b ELSE a
BY DEF Highest

\* The lower of two numbers.
LEMMA LowestOfTwo ==
  ASSUME NEW a \in Int, NEW b \in Int
  PROVE  Lowest({a, b}) = IF a <= b THEN a ELSE b
BY DEF Lowest

\* What a bisection answers are free depths.
LEMMA BisectFree ==
  ASSUME NEW free \in SUBSET Nat, NEW start, NEW max, NEW deadline
  PROVE  Bisect(free, start, max, deadline) \subseteq free
<1> DEFINE probe == start + (max - start) \div 2
           probed == max - start >= 4
           hit == probed /\ probe \in free
           lo == IF probed /\ ~hit THEN probe + 1 ELSE start
           hi == IF hit THEN probe ELSE max
<1>1. Bisect(free, start, max, deadline)
        = IF hi \notin free THEN {}
          ELSE IF deadline THEN Turns(lo, hi, free).seen ELSE {Lowest(Turns(lo, hi, free).seen)}
  BY Zenon DEF Bisect, Turns
<1> HIDE DEF lo, hi
<1>2. ASSUME hi \in free
      PROVE  /\ Turns(lo, hi, free).seen # {} /\ Turns(lo, hi, free).seen \subseteq free
             /\ Lowest(Turns(lo, hi, free).seen) \in free
  <2>1. PICK s : s = Turns(lo, hi, free).seen
    OBVIOUS
  <2>2. s # {} /\ s \subseteq free
    BY <1>2, <2>1, TurnsSeen
  <2>3. s \in SUBSET Nat
    BY <2>2
  <2>4. Lowest(s) \in s
    BY <2>2, <2>3, LowestIn
  <2> QED
    BY <2>1, <2>2, <2>4
<1> QED
  BY <1>1, <1>2

-----------------------------------------------------------------------------
(* The answers of a search.                                                *)

\* A search leaves a tree that extends the one it was given, and what it found
\* is a cell; a node it names is that cell.
AnswerGood(o1, a) ==
  /\ TreeGood(a.o) /\ Extends(o1, a.o)
  /\ a.found => /\ \E q \in Units, d \in 0..Res : a.at = Cell(q, d)
                /\ a.node \in Nodes(a.o) \cup {NoNode}
                /\ a.node # NoNode => Region(a.o, a.node) = a.at

\* A refusal promises nothing of a region.
LEMMA RefusalGood ==
  ASSUME NEW o1, NEW o2, TreeGood(o2), Extends(o1, o2), NEW code
  PROVE  AnswerGood(o1, Refusal(o2, code))
BY DEF AnswerGood, Refusal, Answer

\* An answer about a cell, and the node that is the cell.
LEMMA FoundGood ==
  ASSUME NEW o1, NEW o2, TreeGood(o2), Extends(o1, o2), NEW found, NEW node, NEW r, NEW code, NEW cap,
         node \in Nodes(o2) \cup {NoNode}, node # NoNode => Region(o2, node) = r,
         NEW q \in Units, NEW d \in 0..Res, r = Cell(q, d)
  PROVE  AnswerGood(o1, Answer(o2, found, node, r, code, cap))
BY DEF AnswerGood, Answer

\* A tree extends itself.
LEMMA ExtendsItself ==
  ASSUME NEW o1
  PROVE  Extends(o1, o1)
BY DEF Extends

\* Extending is transitive.
LEMMA ExtendsFurther ==
  ASSUME NEW o1, NEW o2, NEW o3, Extends(o1, o2), Extends(o2, o3)
  PROVE  Extends(o1, o3)
<1>1. \A n \in Nodes(o1) : n \in Nodes(o2) /\ n \in Nodes(o3)
  BY DEF Extends
<1> QED
  BY <1>1 DEF Extends

\* Storing evidence leaves the tree as it is.
LEMMA StoredGood ==
  ASSUME NEW o1, TreeGood(o1), NEW scene, NEW n, NEW r
  PROVE  LET o2 == StorePayload(o1, scene, n, r) IN
         /\ TreeGood(o2) /\ Extends(o1, o2) /\ o2.tree = o1.tree
         /\ o2.rootEv = o1.rootEv \/ (o1.store /\ o1.rootEv = NoRegion /\ n = RootNode /\ o2.rootEv = r)
<1>1. CASE ~(o1.store /\ scene # {} /\ n = RootNode /\ o1.rootEv = NoRegion)
  BY <1>1, ExtendsItself DEF StorePayload
<1>2. CASE o1.store /\ scene # {} /\ n = RootNode /\ o1.rootEv = NoRegion
  <2>1. PICK o2 : o2 = [o1 EXCEPT !.rootEv = r]
    OBVIOUS
  <2>2. StorePayload(o1, scene, n, r) = o2
    BY <1>2, <2>1 DEF StorePayload
  <2>3. o2 = [tree |-> o1.tree, boxOf |-> o1.boxOf, nodeOf |-> o1.nodeOf, rootEv |-> r,
              store |-> o1.store]
    BY <2>1 DEF TreeGood, IsOracle
  <2>4. IsOracle(o2) /\ o2.tree = o1.tree
    BY <2>3 DEF IsOracle
  <2>5. \A m : (IsLeaf(o2, m) <=> IsLeaf(o1, m)) /\ (Splits(o2, m) <=> Splits(o1, m))
    BY <2>4 DEF IsLeaf, Splits, Nodes, Depth, Region
  <2>6. \A m, p : ParentIn(o2, m, p) <=> ParentIn(o1, m, p)
    BY <2>4 DEF ParentIn, IsLeaf
  <2>7. TreeGood(o2)
    BY <2>4, <2>5, <2>6 DEF TreeGood, Nodes
  <2>8. Extends(o1, o2)
    BY <2>3 DEF Extends, Nodes, Region, Depth, IsLeaf
  <2> QED
    BY <1>2, <2>2, <2>3, <2>7, <2>8
<1> QED
  BY <1>1, <1>2

\* The node of a depth on a unit's path.
LEMMA NodeAtDepth ==
  ASSUME NEW o1, TreeGood(o1), NEW q \in Units, NEW d, \E n \in Path(o1, q) : Depth(o1, n) = d
  PROVE  /\ NodeAt(o1, q, d) \in Nodes(o1) /\ Depth(o1, NodeAt(o1, q, d)) = d
         /\ Region(o1, NodeAt(o1, q, d)) = Cell(q, d) /\ d \in 0..Res
         /\ NodeAt(o1, q, d) # NoNode
<1>1. PICK n : n = NodeAt(o1, q, d)
  OBVIOUS
<1>2. n \in Path(o1, q) /\ Depth(o1, n) = d
  BY <1>1 DEF NodeAt
<1>3. n \in Nodes(o1) /\ Depth(o1, n) \in 0..Res /\ Region(o1, n) = Cell(q, Depth(o1, n))
  BY <1>2, PathCell
<1>4. n # NoNode
  BY <1>3, SeqShape DEF TreeGood, Nodes, NoNode
<1> QED
  BY <1>1, <1>2, <1>3, <1>4

\* The depth a search may reach is one the tree may have.
LEMMA DepthCap ==
  ASSUME NEW opt, opt.max \in Int
  PROVE  EffectiveMaxDepth(opt) \in 0..MaxTreeDepth - 1
<1>1. PICK a, b : a = opt.max /\ b = MaxTreeDepth - 1
  OBVIOUS
<1>2. a \in Int /\ b \in Int /\ b >= 0
  BY <1>1, DepthBounds
<1>3. Lowest({a, b}) \in Int /\ Lowest({a, b}) <= b
  BY <1>2, LowestOfTwo
<1>4. PICK m \in Int : m = Lowest({a, b})
  BY <1>3
<1>5. Highest({0, m}) \in 0..b
  BY <1>2, <1>3, <1>4, HighestOfTwo
<1> QED
  BY <1>1, <1>4, <1>5 DEF EffectiveMaxDepth

\* The root's depth is one the tree may have.
LEMMA RootDepth ==
  ASSUME NEW o1, TreeGood(o1)
  PROVE  Depth(o1, RootNode) \in 0..MaxTreeDepth - 1
BY DEF TreeGood, NodeGood, Depth

\* A larger tree has the same root.
LEMMA SameRoot ==
  ASSUME NEW o1, NEW o2, TreeGood(o1), Extends(o1, o2)
  PROVE  Region(o2, RootNode) = Region(o1, RootNode) /\ Depth(o2, RootNode) = Depth(o1, RootNode)
BY DEF TreeGood, Extends

\* What SplitDown leaves, read from another oracle with the same root.
LEMMA SplitFurther ==
  ASSUME NEW o1, NEW o2, TreeGood(o1), TreeGood(o2), Extends(o1, o2), NEW q \in Units,
         Within(q, Region(o1, RootNode)), NEW d \in 0..MaxTreeDepth - 1
  PROVE  LET o3 == SplitDown(o2, q, d) IN
         /\ TreeGood(o3) /\ Extends(o1, o3) /\ o3.rootEv = o2.rootEv
         /\ Depth(o1, RootNode) <= d => \E n \in Path(o3, q) : Depth(o3, n) = d
<1>1. /\ TreeGood(SplitDown(o2, q, d)) /\ Extends(o2, SplitDown(o2, q, d))
      /\ SplitDown(o2, q, d).rootEv = o2.rootEv
      /\ Depth(o2, RootNode) <= d => \E n \in Path(SplitDown(o2, q, d), q) :
                                       Depth(SplitDown(o2, q, d), n) = d
  <2>1. Within(q, Region(o2, RootNode))
    BY SameRoot
  <2> QED
    BY <2>1, SplitDownGood
<1>2. Extends(o1, SplitDown(o2, q, d))
  BY <1>1, ExtendsFurther
<1>3. Depth(o2, RootNode) = Depth(o1, RootNode)
  BY SameRoot
<1> QED
  BY <1>1, <1>2, <1>3, Zenon

\* The depth a descent stops at.
StopsAt(o1, scene, q, opt, e) ==
  LET max == EffectiveMaxDepth(opt)
      free(d) == d >= opt.skip /\ Certified(o1, scene, q, d)
  IN IF Taken(o1, q, e) THEN e >= max \/ ~opt.splitReserved
     ELSE (free(e) /\ Accepts(opt, e)) \/ e >= max \/ ~opt.splitUnknown
StopDepth(o1, scene, q, opt) ==
  Lowest({e \in Depth(o1, RootNode)..Highest({Depth(o1, RootNode), EffectiveMaxDepth(opt)}) :
            StopsAt(o1, scene, q, opt, e)})

\* The linear descent stops at a depth the tree may have.
LEMMA StopDepthBounds ==
  ASSUME NEW o1, TreeGood(o1), NEW scene, NEW q, NEW opt, opt.max \in Int
  PROVE  /\ StopDepth(o1, scene, q, opt) \in 0..MaxTreeDepth - 1
         /\ Depth(o1, RootNode) <= StopDepth(o1, scene, q, opt)
<1>1. PICK root, max, top : /\ root = Depth(o1, RootNode) /\ max = EffectiveMaxDepth(opt)
                            /\ top = Highest({root, max})
  OBVIOUS
<1>2. root \in 0..MaxTreeDepth - 1 /\ max \in 0..MaxTreeDepth - 1
  BY <1>1, RootDepth, DepthCap
<1>3. top \in 0..MaxTreeDepth - 1 /\ root <= top /\ max <= top
  BY <1>1, <1>2, HighestOfTwo
<1>4. PICK S : S = {e \in root..top : StopsAt(o1, scene, q, opt, e)}
  OBVIOUS
<1>5. top \in S
  <2>1. StopsAt(o1, scene, q, opt, top)
    BY <1>1, <1>3 DEF StopsAt
  <2> QED
    BY <1>2, <1>3, <1>4, <2>1
<1>6. S \in SUBSET Nat
  BY <1>2, <1>3, <1>4
<1>7. PICK m \in S : m = Lowest(S)
  BY <1>5, <1>6, LowestIn
<1>8. StopDepth(o1, scene, q, opt) = m
  BY <1>1, <1>4, <1>7, Zenon DEF StopDepth
<1>9. m \in 0..MaxTreeDepth - 1 /\ root <= m
  BY <1>2, <1>3, <1>4, DepthBounds
<1> QED
  BY <1>1, <1>8, <1>9

\* The linear descent answers with a cell and its node, on a larger tree.
LEMMA DescendGood ==
  ASSUME NEW o1, TreeGood(o1), NEW scene, NEW q \in Units, Within(q, Region(o1, RootNode)),
         NEW opt, opt.max \in Int, NEW a \in Descend(o1, scene, q, opt)
  PROVE  AnswerGood(o1, a)
<1> DEFINE root == Depth(o1, RootNode)
           max == EffectiveMaxDepth(opt)
           free(e) == e >= opt.skip /\ Certified(o1, scene, q, e)
           stops(e) == IF Taken(o1, q, e) THEN e >= max \/ ~opt.splitReserved
                       ELSE \/ free(e) /\ Accepts(opt, e)
                            \/ e >= max
                            \/ ~opt.splitUnknown
           d == Lowest({e \in root..Highest({root, max}) : stops(e)})
           asked == IF root >= opt.skip /\ ~IsReserved(o1, RootNode)
                    THEN StorePayload(o1, scene, RootNode, Region(o1, RootNode)) ELSE o1
           last == SplitDown(asked, q, d)
           node == NodeAt(last, q, d)
           found == ~Taken(o1, q, d) /\ free(d) /\ Accepts(opt, d)
<1>1. a \in {Answer(last, found, node, Cell(q, d), IF found THEN 0 ELSE 2,
                    ~found /\ ~Taken(o1, q, d))}
            \cup (IF opt.deadline THEN {Refusal(SplitDown(asked, q, e), 4) : e \in root..d} ELSE {})
  BY Zenon DEF Descend
<1>2. d \in 0..MaxTreeDepth - 1 /\ root <= d /\ root \in 0..MaxTreeDepth - 1
  <2>1. d = StopDepth(o1, scene, q, opt)
    BY Zenon DEF StopDepth, StopsAt
  <2> HIDE DEF d
  <2> QED
    BY <2>1, StopDepthBounds, RootDepth
<1> HIDE DEF d, found
<1>3. TreeGood(asked) /\ Extends(o1, asked)
  BY StoredGood, ExtendsItself
<1> HIDE DEF asked
<1>4. \A e \in 0..MaxTreeDepth - 1 :
        /\ TreeGood(SplitDown(asked, q, e)) /\ Extends(o1, SplitDown(asked, q, e))
        /\ root <= e => \E n \in Path(SplitDown(asked, q, e), q) : Depth(SplitDown(asked, q, e), n) = e
  BY <1>3, SplitFurther
<1>5. TreeGood(last) /\ Extends(o1, last) /\ \E n \in Path(last, q) : Depth(last, n) = d
  BY <1>2, <1>4
<1> HIDE DEF last
<1>6. /\ node \in Nodes(last) /\ Region(last, node) = Cell(q, d) /\ d \in 0..Res
  BY <1>5, NodeAtDepth
<1> HIDE DEF node
<1>7. ASSUME NEW hit, NEW code, NEW cap, a = Answer(last, hit, node, Cell(q, d), code, cap)
      PROVE  AnswerGood(o1, a)
  <2>1. PICK r : r = Cell(q, d)
    OBVIOUS
  <2>2. AnswerGood(o1, Answer(last, hit, node, r, code, cap))
    BY <1>5, <1>6, <2>1, FoundGood
  <2> QED
    BY <1>7, <2>1, <2>2, Zenon
<1>8. ASSUME NEW e \in root..d, a = Refusal(SplitDown(asked, q, e), 4)
      PROVE  AnswerGood(o1, a)
  <2>1. e \in 0..MaxTreeDepth - 1
    BY <1>2, DepthBounds
  <2>2. PICK o2 : o2 = SplitDown(asked, q, e)
    OBVIOUS
  <2>3. AnswerGood(o1, Refusal(o2, 4))
    BY <1>4, <2>1, <2>2, RefusalGood
  <2> QED
    BY <1>8, <2>2, <2>3, Zenon
<1> HIDE DEF root
<1> QED
  BY <1>1, <1>7, <1>8, Zenon

\* An answer that found nothing promises nothing of a region.
LEMMA MissGood ==
  ASSUME NEW o1, NEW o2, TreeGood(o2), Extends(o1, o2), NEW node, NEW r, NEW code, NEW cap
  PROVE  AnswerGood(o1, Answer(o2, FALSE, node, r, code, cap))
BY DEF AnswerGood, Answer

\* So does the bisection over virtual cells.
LEMMA BisectVirtualGood ==
  ASSUME NEW o1, TreeGood(o1), NEW scene, NEW q \in Units, Within(q, Region(o1, RootNode)),
         NEW opt, opt.max \in Int, NEW a \in BisectVirtual(o1, scene, q, opt)
  PROVE  AnswerGood(o1, a)
<1> DEFINE root == Depth(o1, RootNode)
           max == EffectiveMaxDepth(opt)
           start == StartDepth(opt)
           first == IF max - start >= 4 THEN start + (max - start) \div 2 ELSE max
           known == IF first >= opt.skip THEN StorePayload(o1, scene, RootNode, Cell(q, root + first))
                    ELSE o1
           free == {d \in 0..max : d >= opt.skip
                                     /\ ValidateNode(known, scene, RootNode, Cell(q, root + d))}
           found == Bisect(free, start, max, opt.deadline)
           tree(d) == SplitDown(known, q, d)
           node(d) == NodeAt(tree(d), q, Highest({root, d}))
           same(d) == Region(tree(d), node(d)) = Cell(q, root + d)
           ok(d) == same(d) \/ ValidateNode(tree(d), scene, node(d), Region(tree(d), node(d)))
           cap(d) == ~same(d) /\ ~ValidateNode(tree(d), scene, node(d), Region(tree(d), node(d)))
<1>1. a \in IF found = {} THEN {Answer(known, FALSE, RootNode, Cell(q, root + max), 2, TRUE)}
            ELSE IF opt.materialise
            THEN {Answer(tree(d), ok(d), node(d), Region(tree(d), node(d)), IF ok(d) THEN 0 ELSE 2,
                         cap(d)) : d \in found}
            ELSE {Answer(known, TRUE, NoNode, Cell(q, root + d), 0, FALSE) : d \in found}
  BY Zenon DEF BisectVirtual
<1> HIDE DEF ok, cap, first
<1>2. root \in 0..MaxTreeDepth - 1 /\ max \in 0..MaxTreeDepth - 1
  BY RootDepth, DepthCap
<1>3. TreeGood(known) /\ Extends(o1, known)
  BY StoredGood, ExtendsItself
<1> HIDE DEF known, root, max, start
<1>4. found \subseteq 0..max
  <2>1. free \in SUBSET Nat /\ free \subseteq 0..max
    BY <1>2, DepthBounds
  <2> HIDE DEF free
  <2> QED
    BY <2>1, BisectFree
<1> HIDE DEF found
<1>5. \A d \in found : /\ TreeGood(tree(d)) /\ Extends(o1, tree(d))
                       /\ node(d) \in Nodes(tree(d))
                       /\ \E e \in 0..Res : Region(tree(d), node(d)) = Cell(q, e)
  <2>1. SUFFICES ASSUME NEW d \in found
                 PROVE  /\ TreeGood(tree(d)) /\ Extends(o1, tree(d))
                        /\ node(d) \in Nodes(tree(d))
                        /\ \E e \in 0..Res : Region(tree(d), node(d)) = Cell(q, e)
    OBVIOUS
  <2>2. d \in 0..MaxTreeDepth - 1 /\ d \in Int /\ root \in Int
    BY <1>2, <1>4, DepthBounds
  <2>3. PICK t : t = tree(d)
    OBVIOUS
  <2>4. /\ TreeGood(t) /\ Extends(o1, t)
        /\ root <= d => \E n \in Path(t, q) : Depth(t, n) = d
    BY <1>3, <2>2, <2>3, SplitFurther DEF root
  <2>5. PICK e : e = Highest({root, d})
    OBVIOUS
  <2>6. \E n \in Path(t, q) : Depth(t, n) = e
    <3>1. CASE root <= d
      <4>1. e = d
        BY <2>2, <2>5, <3>1, HighestOfTwo
      <4> QED
        BY <2>4, <3>1, <4>1
    <3>2. CASE ~(root <= d)
      <4>1. e = root
        BY <2>2, <2>5, <3>2, HighestOfTwo
      <4>2. RootNode \in Path(t, q) /\ Depth(t, RootNode) = root
        BY <2>4, SameRoot DEF root, Path, TreeGood
      <4> QED
        BY <4>1, <4>2
    <3> QED
      BY <3>1, <3>2
  <2>7. PICK n : n = NodeAt(t, q, e)
    OBVIOUS
  <2>8. n \in Nodes(t) /\ Region(t, n) = Cell(q, e) /\ e \in 0..Res
    BY <2>4, <2>6, <2>7, NodeAtDepth
  <2>9. n = node(d)
    BY <2>3, <2>5, <2>7, Zenon
  <2> HIDE DEF tree, node
  <2> QED
    BY <2>3, <2>4, <2>8, <2>9
<1> HIDE DEF tree, node
<1>6. ASSUME a = Answer(known, FALSE, RootNode, Cell(q, root + max), 2, TRUE) PROVE AnswerGood(o1, a)
  <2>1. PICK r : r = Cell(q, root + max)
    OBVIOUS
  <2>2. AnswerGood(o1, Answer(known, FALSE, RootNode, r, 2, TRUE))
    BY <1>3, MissGood
  <2> QED
    BY <1>6, <2>1, <2>2, Zenon
<1>7. ASSUME NEW d \in found,
             a = Answer(tree(d), ok(d), node(d), Region(tree(d), node(d)),
                        IF ok(d) THEN 0 ELSE 2, cap(d))
      PROVE  AnswerGood(o1, a)
  <2>0. PICK e \in 0..Res : Region(tree(d), node(d)) = Cell(q, e)
    BY <1>5
  <2>1. PICK r, t, n, code : /\ t = tree(d) /\ n = node(d) /\ r = Region(tree(d), node(d))
                             /\ code = IF ok(d) THEN 0 ELSE 2
    OBVIOUS
  <2>2. TreeGood(t) /\ Extends(o1, t) /\ n \in Nodes(t) \cup {NoNode} /\ Region(t, n) = r
    BY <1>5, <2>1
  <2>3. AnswerGood(o1, Answer(t, ok(d), n, r, code, cap(d)))
    BY <2>0, <2>1, <2>2, FoundGood
  <2> QED
    BY <1>7, <2>1, <2>3, Zenon
<1>8. ASSUME NEW d \in found, a = Answer(known, TRUE, NoNode, Cell(q, root + d), 0, FALSE)
      PROVE  AnswerGood(o1, a)
  <2>1. root + d \in 0..Res
    BY <1>2, <1>4, DepthBounds
  <2>2. PICK e, r : e = root + d /\ r = Cell(q, e)
    OBVIOUS
  <2>3. AnswerGood(o1, Answer(known, TRUE, NoNode, r, 0, FALSE))
    BY <1>3, <2>1, <2>2, FoundGood
  <2> QED
    BY <1>8, <2>2, <2>3, Zenon
<1> QED
  BY <1>1, <1>6, <1>7, <1>8, Zenon

\* So does the bisection over nodes.
LEMMA BisectNodesGood ==
  ASSUME NEW o1, TreeGood(o1), NEW scene, NEW q \in Units, Within(q, Region(o1, RootNode)),
         NEW opt, opt.max \in Int, NEW a \in BisectNodes(o1, scene, q, opt)
  PROVE  AnswerGood(o1, a)
<1> DEFINE root == Depth(o1, RootNode)
           max == EffectiveMaxDepth(opt)
           blocked == {d \in root..max - 1 : Taken(o1, q, d)}
           target == IF opt.splitReserved \/ blocked = {} THEN max ELSE Lowest(blocked)
           split == SplitDown(o1, q, target)
           known == IF StartDepth(opt) > root \/ IsReserved(o1, RootNode) THEN split
                    ELSE StorePayload(split, scene, RootNode, Region(o1, RootNode))
           free == {d \in root..max : /\ ~Taken(o1, q, d)
                                      /\ d >= opt.skip
                                      /\ Certified(known, scene, q, d)}
           found == Bisect(free, StartDepth(opt), max, opt.deadline)
           at(d) == NodeAt(known, q, d)
<1>1. a \in IF ~opt.splitReserved /\ blocked # {}
              THEN {Answer(split, FALSE, NodeAt(split, q, Lowest(blocked)),
                           Cell(q, Lowest(blocked)), 2, FALSE)}
            ELSE IF found = {}
              THEN {IF root > max THEN Refusal(known, 5)
                    ELSE Answer(known, FALSE, at(max), Cell(q, max), 2, ~Taken(o1, q, max))}
            ELSE {Answer(known, TRUE, at(d), Cell(q, d), 0, FALSE) : d \in found}
  BY Zenon DEF BisectNodes
<1>2. root \in 0..MaxTreeDepth - 1 /\ max \in 0..MaxTreeDepth - 1
  BY RootDepth, DepthCap
<1> HIDE DEF root, max
<1>3. target \in 0..MaxTreeDepth - 1
  <2>1. ASSUME blocked # {} PROVE Lowest(blocked) \in 0..MaxTreeDepth - 1
    <3>1. PICK S : S = blocked
      OBVIOUS
    <3>2. S \in SUBSET Nat /\ S # {}
      BY <1>2, <2>1, <3>1, DepthBounds
    <3>3. PICK m \in S : m = Lowest(S)
      BY <3>2, LowestIn
    <3>4. m \in 0..MaxTreeDepth - 1
      BY <1>2, <3>1, <3>3, DepthBounds
    <3> QED
      BY <3>1, <3>3, <3>4
  <2> HIDE DEF blocked
  <2> QED
    BY <1>2, <2>1
<1>4. /\ TreeGood(split) /\ Extends(o1, split)
      /\ root <= target => \E n \in Path(split, q) : Depth(split, n) = target
  <2> HIDE DEF target
  <2> QED
    BY <1>3, SplitDownGood DEF root
<1> HIDE DEF split, blocked
<1>5. TreeGood(known) /\ Extends(o1, known) /\ known.tree = split.tree
  <2>1. CASE StartDepth(opt) > root \/ IsReserved(o1, RootNode)
    BY <1>4, <2>1
  <2>2. CASE ~(StartDepth(opt) > root \/ IsReserved(o1, RootNode))
    <3>1. PICK k, r : r = Region(o1, RootNode) /\ k = StorePayload(split, scene, RootNode, r)
      OBVIOUS
    <3>2. TreeGood(k) /\ Extends(split, k) /\ k.tree = split.tree
      BY <1>4, <3>1, StoredGood
    <3>3. Extends(o1, k)
      BY <1>4, <3>2, ExtendsFurther
    <3> QED
      BY <2>2, <3>1, <3>2, <3>3
  <2> QED
    BY <2>1, <2>2
<1> HIDE DEF known
<1>6. Path(known, q) = Path(split, q) /\ \A n : Depth(known, n) = Depth(split, n)
  BY <1>5 DEF Path, Nodes, Region, Depth
<1>7. found \subseteq root..max
  <2>1. free \in SUBSET Nat /\ free \subseteq root..max
    BY <1>2, DepthBounds
  <2> HIDE DEF free
  <2> QED
    BY <2>1, BisectFree
<1> HIDE DEF found
<1>8. ASSUME NEW node, NEW r, NEW cap, NEW ora, ora \in {split, known},
             a = Answer(ora, FALSE, node, r, 2, cap)
      PROVE  AnswerGood(o1, a)
  BY <1>4, <1>5, <1>8, MissGood
<1>9. ASSUME a = Refusal(known, 5) PROVE AnswerGood(o1, a)
  BY <1>5, <1>9, RefusalGood
<1>10. ASSUME opt.splitReserved \/ blocked = {}, NEW d \in found,
              a = Answer(known, TRUE, at(d), Cell(q, d), 0, FALSE)
       PROVE  AnswerGood(o1, a)
  <2>1. target = max
    BY <1>10
  <2>2. d \in root..max
    BY <1>7, <1>10
  <2>3. PICK n \in Path(known, q) : Depth(known, n) = max
    BY <1>2, <1>4, <1>6, <2>1, <2>2
  <2>4. d \in Depth(known, RootNode)..Depth(known, n)
    BY <1>5, <2>2, <2>3, SameRoot DEF root
  <2>5. \E m \in Path(known, q) : Depth(known, m) = d
    BY <1>5, <2>3, <2>4, PathChain
  <2>6. PICK m, r : m = at(d) /\ r = Cell(q, d)
    OBVIOUS
  <2>7. m \in Nodes(known) \cup {NoNode} /\ Region(known, m) = r /\ d \in 0..Res
    BY <1>5, <2>5, <2>6, NodeAtDepth
  <2>8. AnswerGood(o1, Answer(known, TRUE, m, r, 0, FALSE))
    BY <1>5, <2>6, <2>7, FoundGood
  <2> QED
    BY <1>10, <2>6, <2>8, Zenon
<1> HIDE DEF target, at
<1> QED
  BY <1>1, <1>8, <1>9, <1>10, Zenon

\* Whichever way find_free_box goes (linear descent, or bisection over virtual
\* cells or nodes: find_free_box.cpp), it answers with a cell and its node, on a tree
\* that extends the one it was given.
THEOREM FindGood ==
  ASSUME NEW o1, TreeGood(o1), NEW scene, NEW q \in Units, NEW opt, opt.max \in Int,
         opt.mode \in {"linear", "virtual", "nodes"}, NEW a \in Find(o1, scene, q, opt)
  PROVE  AnswerGood(o1, a)
<1>1. CASE ~Within(q, Region(o1, RootNode))
  BY <1>1, RefusalGood, ExtendsItself DEF Find
<1>2. CASE Within(q, Region(o1, RootNode)) /\ opt.rejectSeed /\ q \in scene
  BY <1>2, RefusalGood, ExtendsItself DEF Find
<1>3. CASE Within(q, Region(o1, RootNode)) /\ ~(opt.rejectSeed /\ q \in scene)
  <2>1. a \in Descend(o1, scene, q, opt) \/ a \in BisectVirtual(o1, scene, q, opt)
          \/ a \in BisectNodes(o1, scene, q, opt)
    BY <1>3 DEF Find
  <2> QED
    BY <1>3, <2>1, DescendGood, BisectVirtualGood, BisectNodesGood
<1> QED
  BY <1>1, <1>2, <1>3

-----------------------------------------------------------------------------
(* What a search certifies is free.                                        *)

\* The payload kept for the root is its own region's, and a bisection over
\* computed cells, which asks about other regions under the root's id, keeps none.
Evident(o1, mode) ==
  /\ o1.rootEv = NoRegion \/ o1.rootEv = Region(o1, RootNode)
  /\ mode = "virtual" => o1.store = FALSE /\ o1.rootEv = NoRegion
Clear(scene, r) == \A u \in scene : ~Within(u, r)
AnswerFree(scene, mode, a) == Evident(a.o, mode) /\ (a.found => Clear(scene, a.at))

\* A certified region holds no obstacle, if evidence at the root is the root's.
LEMMA ValidClear ==
  ASSUME NEW o1, NEW scene \in SUBSET Int, NEW n, NEW q \in Units, NEW d \in 0..Res, NEW r,
         r = Cell(q, d), n = RootNode => o1.rootEv = NoRegion \/ o1.rootEv = r,
         ValidateNode(o1, scene, n, r)
  PROVE  Clear(scene, r)
<1>1. CASE scene = {}
  BY <1>1 DEF Clear
<1>2. CASE scene # {}
  <2>1. PayloadRegion(o1, n, r) = r
    BY DEF PayloadRegion
  <2>2. Free(scene, r)
    BY <1>2, <2>1 DEF ValidateNode
  <2>3. r[1] \in Int /\ r[2] \in Int /\ r[1] <= r[2]
    BY CellBounds, PowerOfTwo, OracleAssumption DEF Units, Within
  <2>4. PICK pad : pad = (r[2] - r[1] + 1) \div 4
    OBVIOUS
  <2>5. pad \in Nat
    BY <2>3, <2>4
  <2>6. \A u \in scene : u < r[1] - pad \/ u > r[2] + pad
    BY <2>2, <2>4 DEF Free
  <2>7. ASSUME NEW u \in scene PROVE ~(r[1] <= u /\ u <= r[2])
    <3>1. u \in Int /\ (u < r[1] - pad \/ u > r[2] + pad)
      BY <2>6
    <3> HIDE <2>6
    <3> QED
      BY <2>3, <2>5, <3>1
  <2> QED
    BY <2>7 DEF Clear, Within
<1> QED
  BY <1>1, <1>2

\* So does a certified cell on the way to a seed.
LEMMA CertifiedClear ==
  ASSUME NEW o1, TreeGood(o1), NEW mode, Evident(o1, mode), NEW scene \in SUBSET Int,
         NEW q \in Units, Within(q, Region(o1, RootNode)), NEW d \in 0..Res,
         Certified(o1, scene, q, d)
  PROVE  Clear(scene, Cell(q, d))
<1>1. PICK n, r : n = CellNode(o1, q, d) /\ r = Cell(q, d)
  OBVIOUS
<1>2. ValidateNode(o1, scene, n, r)
  BY <1>1 DEF Certified
<1>3. ASSUME n = RootNode PROVE r = Region(o1, RootNode)
  <2>1. d = Depth(o1, RootNode)
    BY <1>1, <1>3 DEF CellNode, RootNode, NoNode
  <2>2. RootNode \in Path(o1, q)
    BY DEF Path, TreeGood
  <2>3. Region(o1, RootNode) = Cell(q, Depth(o1, RootNode))
    BY <2>2, PathCell
  <2> QED
    BY <1>1, <2>1, <2>3, Zenon
<1>4. n = RootNode => o1.rootEv = NoRegion \/ o1.rootEv = r
  BY <1>3 DEF Evident
<1>5. Clear(scene, r)
  BY <1>1, <1>2, <1>4, ValidClear
<1> QED
  BY <1>1, <1>5

\* Evidence that a search stores is the root's own.
LEMMA EvidentKept ==
  ASSUME NEW o1, NEW o2, TreeGood(o1), Extends(o1, o2), NEW mode, Evident(o1, mode),
         o2.rootEv = o1.rootEv \/ (o1.store /\ o1.rootEv = NoRegion /\ o2.rootEv = Region(o1, RootNode))
  PROVE  Evident(o2, mode)
<1>1. Region(o2, RootNode) = Region(o1, RootNode) /\ o2.store = o1.store
  BY SameRoot DEF Extends
<1> QED
  BY <1>1 DEF Evident

\* Storing the root's evidence for the root keeps evidence sound.
LEMMA StoredEvident ==
  ASSUME NEW o1, TreeGood(o1), NEW mode, Evident(o1, mode), NEW scene
  PROVE  Evident(StorePayload(o1, scene, RootNode, Region(o1, RootNode)), mode)
<1>1. PICK r, o2 : r = Region(o1, RootNode) /\ o2 = StorePayload(o1, scene, RootNode, r)
  OBVIOUS
<1>2. /\ Extends(o1, o2)
      /\ o2.rootEv = o1.rootEv \/ (o1.store /\ o1.rootEv = NoRegion /\ o2.rootEv = r)
  BY <1>1, StoredGood
<1>3. Evident(o2, mode)
  BY <1>1, <1>2, EvidentKept
<1> QED
  BY <1>1, <1>3

\* What the linear descent finds is free.
LEMMA DescendFree ==
  ASSUME NEW o1, TreeGood(o1), NEW scene \in SUBSET Int, NEW q \in Units,
         Within(q, Region(o1, RootNode)), NEW opt, opt.max \in Int, NEW mode, Evident(o1, mode),
         NEW a \in Descend(o1, scene, q, opt)
  PROVE  AnswerFree(scene, mode, a)
<1> DEFINE root == Depth(o1, RootNode)
           max == EffectiveMaxDepth(opt)
           free(e) == e >= opt.skip /\ Certified(o1, scene, q, e)
           stops(e) == IF Taken(o1, q, e) THEN e >= max \/ ~opt.splitReserved
                       ELSE \/ free(e) /\ Accepts(opt, e)
                            \/ e >= max
                            \/ ~opt.splitUnknown
           d == Lowest({e \in root..Highest({root, max}) : stops(e)})
           asked == IF root >= opt.skip /\ ~IsReserved(o1, RootNode)
                    THEN StorePayload(o1, scene, RootNode, Region(o1, RootNode)) ELSE o1
           last == SplitDown(asked, q, d)
           node == NodeAt(last, q, d)
           found == ~Taken(o1, q, d) /\ free(d) /\ Accepts(opt, d)
<1>1. a \in {Answer(last, found, node, Cell(q, d), IF found THEN 0 ELSE 2,
                    ~found /\ ~Taken(o1, q, d))}
            \cup (IF opt.deadline THEN {Refusal(SplitDown(asked, q, e), 4) : e \in root..d} ELSE {})
  BY Zenon DEF Descend
<1>2. d \in 0..MaxTreeDepth - 1 /\ root <= d /\ root \in 0..MaxTreeDepth - 1
  <2>1. d = StopDepth(o1, scene, q, opt)
    BY Zenon DEF StopDepth, StopsAt
  <2> HIDE DEF d
  <2> QED
    BY <2>1, StopDepthBounds, RootDepth
<1> HIDE DEF d
<1>3. TreeGood(asked) /\ Extends(o1, asked) /\ Evident(asked, mode)
  BY StoredGood, ExtendsItself, StoredEvident
<1> HIDE DEF asked
<1>4. \A e \in 0..MaxTreeDepth - 1 : Evident(SplitDown(asked, q, e), mode)
  <2>1. SUFFICES ASSUME NEW e \in 0..MaxTreeDepth - 1 PROVE Evident(SplitDown(asked, q, e), mode)
    OBVIOUS
  <2>2. Within(q, Region(asked, RootNode))
    BY <1>3, SameRoot
  <2>3. Extends(asked, SplitDown(asked, q, e)) /\ SplitDown(asked, q, e).rootEv = asked.rootEv
    BY <1>3, <2>2, SplitDownGood
  <2> QED
    BY <1>3, <2>3, EvidentKept
<1>5. Evident(last, mode)
  BY <1>2, <1>4
<1> HIDE DEF last, node
<1>6. ASSUME found PROVE Clear(scene, Cell(q, d))
  <2>1. d \in 0..Res /\ Certified(o1, scene, q, d)
    BY <1>2, <1>6, DepthBounds
  <2> QED
    BY <2>1, CertifiedClear
<1> HIDE DEF found
<1>7. ASSUME NEW code, NEW cap, a = Answer(last, found, node, Cell(q, d), code, cap)
      PROVE  AnswerFree(scene, mode, a)
  BY <1>5, <1>6, <1>7 DEF AnswerFree, Answer
<1>8. ASSUME NEW e \in root..d, a = Refusal(SplitDown(asked, q, e), 4)
      PROVE  AnswerFree(scene, mode, a)
  <2>1. e \in 0..MaxTreeDepth - 1
    BY <1>2, DepthBounds
  <2> QED
    BY <1>4, <1>8, <2>1 DEF AnswerFree, Refusal, Answer
<1> HIDE DEF root
<1> QED
  BY <1>1, <1>7, <1>8, Zenon

\* What the bisection over virtual cells finds is free.
LEMMA BisectVirtualFree ==
  ASSUME NEW o1, TreeGood(o1), NEW scene \in SUBSET Int, NEW q \in Units,
         Within(q, Region(o1, RootNode)), NEW opt, opt.max \in Int, NEW mode, mode = "virtual",
         Evident(o1, mode), NEW a \in BisectVirtual(o1, scene, q, opt)
  PROVE  AnswerFree(scene, mode, a)
<1> DEFINE root == Depth(o1, RootNode)
           max == EffectiveMaxDepth(opt)
           start == StartDepth(opt)
           first == IF max - start >= 4 THEN start + (max - start) \div 2 ELSE max
           known == IF first >= opt.skip THEN StorePayload(o1, scene, RootNode, Cell(q, root + first))
                    ELSE o1
           free == {d \in 0..max : d >= opt.skip
                                     /\ ValidateNode(known, scene, RootNode, Cell(q, root + d))}
           found == Bisect(free, start, max, opt.deadline)
           tree(d) == SplitDown(known, q, d)
           node(d) == NodeAt(tree(d), q, Highest({root, d}))
           same(d) == Region(tree(d), node(d)) = Cell(q, root + d)
           ok(d) == same(d) \/ ValidateNode(tree(d), scene, node(d), Region(tree(d), node(d)))
           cap(d) == ~same(d) /\ ~ValidateNode(tree(d), scene, node(d), Region(tree(d), node(d)))
<1>1. a \in IF found = {} THEN {Answer(known, FALSE, RootNode, Cell(q, root + max), 2, TRUE)}
            ELSE IF opt.materialise
            THEN {Answer(tree(d), ok(d), node(d), Region(tree(d), node(d)), IF ok(d) THEN 0 ELSE 2,
                         cap(d)) : d \in found}
            ELSE {Answer(known, TRUE, NoNode, Cell(q, root + d), 0, FALSE) : d \in found}
  BY Zenon DEF BisectVirtual
<1>2. root \in 0..MaxTreeDepth - 1 /\ max \in 0..MaxTreeDepth - 1
  BY RootDepth, DepthCap
<1>3. o1.store = FALSE /\ o1.rootEv = NoRegion
  BY DEF Evident
<1>4. known = o1
  BY <1>3 DEF StorePayload
<1> HIDE DEF known, root, max, start, first, cap
<1>5. found \subseteq free
  <2>1. free \in SUBSET Nat
    BY <1>2, DepthBounds
  <2> HIDE DEF free
  <2> QED
    BY <2>1, BisectFree
<1>6. \A d \in found : Clear(scene, Cell(q, root + d)) /\ d \in 0..MaxTreeDepth - 1
  <2>1. SUFFICES ASSUME NEW d \in found
                 PROVE  Clear(scene, Cell(q, root + d)) /\ d \in 0..MaxTreeDepth - 1
    OBVIOUS
  <2>2. d \in 0..max /\ ValidateNode(o1, scene, RootNode, Cell(q, root + d))
    BY <1>4, <1>5
  <2>3. root + d \in 0..Res /\ d \in 0..MaxTreeDepth - 1
    BY <1>2, <2>2, DepthBounds
  <2>4. PICK r : r = Cell(q, root + d)
    OBVIOUS
  <2>5. Clear(scene, r)
    BY <1>3, <2>2, <2>3, <2>4, ValidClear
  <2> QED
    BY <2>3, <2>4, <2>5
<1> HIDE DEF found, free
<1>7. \A d \in found : /\ Evident(tree(d), mode)
                       /\ ok(d) => Clear(scene, Region(tree(d), node(d)))
  <2>1. SUFFICES ASSUME NEW d \in found
                 PROVE  /\ Evident(tree(d), mode)
                        /\ ok(d) => Clear(scene, Region(tree(d), node(d)))
    OBVIOUS
  <2>2. d \in 0..MaxTreeDepth - 1 /\ d \in Int /\ root \in Int
    BY <1>2, <1>6, DepthBounds
  <2>3. PICK t, e : t = tree(d) /\ e = Highest({root, d})
    OBVIOUS
  <2>4. /\ TreeGood(t) /\ Extends(o1, t) /\ t.rootEv = o1.rootEv
        /\ root <= d => \E n \in Path(t, q) : Depth(t, n) = d
    BY <1>4, <2>2, <2>3, SplitDownGood DEF root
  <2>5. Evident(t, mode)
    BY <2>4, EvidentKept
  <2>6. \E n \in Path(t, q) : Depth(t, n) = e
    <3>1. CASE root <= d
      <4>1. e = d
        BY <2>2, <2>3, <3>1, HighestOfTwo
      <4> QED
        BY <2>4, <3>1, <4>1
    <3>2. CASE ~(root <= d)
      <4>1. e = root
        BY <2>2, <2>3, <3>2, HighestOfTwo
      <4>2. RootNode \in Path(t, q) /\ Depth(t, RootNode) = root
        BY <2>4, SameRoot DEF root, Path, TreeGood
      <4> QED
        BY <4>1, <4>2
    <3> QED
      BY <3>1, <3>2
  <2>7. PICK n, r : n = NodeAt(t, q, e) /\ r = Region(t, n)
    OBVIOUS
  <2>8. r = Cell(q, e) /\ e \in 0..Res
    BY <2>4, <2>6, <2>7, NodeAtDepth
  <2>9. ASSUME ok(d) PROVE Clear(scene, r)
    <3>1. CASE same(d)
      <4>1. r = Cell(q, root + d)
        BY <2>3, <2>7, <3>1, Zenon
      <4> QED
        BY <1>6, <4>1, Zenon
    <3>2. CASE ~same(d)
      <4>1. ValidateNode(t, scene, n, r)
        BY <2>3, <2>7, <2>9, <3>2, Zenon
      <4>2. t.rootEv = NoRegion
        BY <1>3, <2>4
      <4> QED
        BY <2>8, <4>1, <4>2, ValidClear
    <3> QED
      BY <3>1, <3>2
  <2>10. n = node(d) /\ r = Region(tree(d), node(d))
    BY <2>3, <2>7, Zenon
  <2> QED
    BY <2>3, <2>5, <2>9, <2>10, Zenon
<1> HIDE DEF tree, node, ok
<1>8. ASSUME a = Answer(known, FALSE, RootNode, Cell(q, root + max), 2, TRUE)
      PROVE  AnswerFree(scene, mode, a)
  BY <1>4, <1>8 DEF AnswerFree, Answer
<1>9. ASSUME NEW d \in found, NEW code,
             a = Answer(tree(d), ok(d), node(d), Region(tree(d), node(d)), code, cap(d))
      PROVE  AnswerFree(scene, mode, a)
  BY <1>7, <1>9 DEF AnswerFree, Answer
<1>10. ASSUME NEW d \in found, a = Answer(known, TRUE, NoNode, Cell(q, root + d), 0, FALSE)
       PROVE  AnswerFree(scene, mode, a)
  BY <1>4, <1>6, <1>10 DEF AnswerFree, Answer
<1> QED
  BY <1>1, <1>8, <1>9, <1>10, Zenon

\* What the bisection over nodes finds is free.
LEMMA BisectNodesFree ==
  ASSUME NEW o1, TreeGood(o1), NEW scene \in SUBSET Int, NEW q \in Units,
         Within(q, Region(o1, RootNode)), NEW opt, opt.max \in Int, NEW mode, Evident(o1, mode),
         NEW a \in BisectNodes(o1, scene, q, opt)
  PROVE  AnswerFree(scene, mode, a)
<1> DEFINE root == Depth(o1, RootNode)
           max == EffectiveMaxDepth(opt)
           blocked == {d \in root..max - 1 : Taken(o1, q, d)}
           target == IF opt.splitReserved \/ blocked = {} THEN max ELSE Lowest(blocked)
           split == SplitDown(o1, q, target)
           known == IF StartDepth(opt) > root \/ IsReserved(o1, RootNode) THEN split
                    ELSE StorePayload(split, scene, RootNode, Region(o1, RootNode))
           free == {d \in root..max : /\ ~Taken(o1, q, d)
                                      /\ d >= opt.skip
                                      /\ Certified(known, scene, q, d)}
           found == Bisect(free, StartDepth(opt), max, opt.deadline)
           at(d) == NodeAt(known, q, d)
<1>1. a \in IF ~opt.splitReserved /\ blocked # {}
              THEN {Answer(split, FALSE, NodeAt(split, q, Lowest(blocked)),
                           Cell(q, Lowest(blocked)), 2, FALSE)}
            ELSE IF found = {}
              THEN {IF root > max THEN Refusal(known, 5)
                    ELSE Answer(known, FALSE, at(max), Cell(q, max), 2, ~Taken(o1, q, max))}
            ELSE {Answer(known, TRUE, at(d), Cell(q, d), 0, FALSE) : d \in found}
  BY Zenon DEF BisectNodes
<1>2. root \in 0..MaxTreeDepth - 1 /\ max \in 0..MaxTreeDepth - 1
  BY RootDepth, DepthCap
<1> HIDE DEF root, max
<1>3. target \in 0..MaxTreeDepth - 1
  <2>1. ASSUME blocked # {} PROVE Lowest(blocked) \in 0..MaxTreeDepth - 1
    <3>1. PICK S : S = blocked
      OBVIOUS
    <3>2. S \in SUBSET Nat /\ S # {}
      BY <1>2, <2>1, <3>1, DepthBounds
    <3>3. PICK m \in S : m = Lowest(S)
      BY <3>2, LowestIn
    <3>4. m \in 0..MaxTreeDepth - 1
      BY <1>2, <3>1, <3>3, DepthBounds
    <3> QED
      BY <3>1, <3>3, <3>4
  <2> HIDE DEF blocked
  <2> QED
    BY <1>2, <2>1
<1>4. TreeGood(split) /\ Extends(o1, split) /\ Evident(split, mode)
  <2>1. TreeGood(split) /\ Extends(o1, split) /\ split.rootEv = o1.rootEv
    <3> HIDE DEF target
    <3> QED
      BY <1>3, SplitDownGood
  <2> HIDE DEF split
  <2> QED
    BY <2>1, EvidentKept
<1> HIDE DEF split, blocked, target
<1>5. TreeGood(known) /\ Evident(known, mode) /\ Within(q, Region(known, RootNode))
  <2>1. PICK r : r = Region(split, RootNode) /\ r = Region(o1, RootNode)
    BY <1>4, SameRoot
  <2>2. PICK k : k = StorePayload(split, scene, RootNode, r)
    OBVIOUS
  <2>3. TreeGood(k) /\ Extends(split, k) /\ Evident(k, mode)
    BY <1>4, <2>1, <2>2, StoredGood, StoredEvident
  <2>4. Region(k, RootNode) = Region(split, RootNode)
    BY <1>4, <2>3, SameRoot
  <2>5. known = split \/ known = k
    BY <2>1, <2>2
  <2> HIDE DEF known
  <2> QED
    BY <1>4, <2>1, <2>3, <2>4, <2>5
<1> HIDE DEF known
<1>6. \A d \in found : Clear(scene, Cell(q, d))
  <2>1. free \in SUBSET Nat
    BY <1>2, DepthBounds
  <2>2. found \subseteq free
    <3> HIDE DEF free
    <3> QED
      BY <2>1, BisectFree
  <2> HIDE DEF found
  <2>3. SUFFICES ASSUME NEW d \in found PROVE Clear(scene, Cell(q, d))
    OBVIOUS
  <2>4. d \in 0..Res /\ Certified(known, scene, q, d)
    BY <1>2, <2>2, DepthBounds
  <2> QED
    BY <1>5, <2>4, CertifiedClear
<1> HIDE DEF found, at
<1>7. ASSUME NEW node, NEW r, NEW cap, NEW ora, ora \in {split, known},
             a = Answer(ora, FALSE, node, r, 2, cap)
      PROVE  AnswerFree(scene, mode, a)
  BY <1>4, <1>5, <1>7 DEF AnswerFree, Answer
<1>8. ASSUME a = Refusal(known, 5) PROVE AnswerFree(scene, mode, a)
  BY <1>5, <1>8 DEF AnswerFree, Refusal, Answer
<1>9. ASSUME NEW d \in found, a = Answer(known, TRUE, at(d), Cell(q, d), 0, FALSE)
      PROVE  AnswerFree(scene, mode, a)
  BY <1>5, <1>6, <1>9 DEF AnswerFree, Answer
<1> QED
  BY <1>1, <1>7, <1>8, <1>9, Zenon

\* Whichever way find_free_box goes, what it finds holds no obstacle, where the
\* evidence stored at the root is the root's and is not read for other cells: the
\* certificate it goes by may be that of a larger cell, or of the cell itself.
THEOREM FindFree ==
  ASSUME NEW o1, TreeGood(o1), NEW scene \in SUBSET Int, NEW q \in Units, NEW opt, opt.max \in Int,
         opt.mode \in {"linear", "virtual", "nodes"}, Evident(o1, opt.mode),
         NEW a \in Find(o1, scene, q, opt)
  PROVE  AnswerFree(scene, opt.mode, a)
<1>1. PICK mode : mode = opt.mode
  OBVIOUS
<1>2. \A code : AnswerFree(scene, mode, Refusal(o1, code))
  BY <1>1 DEF AnswerFree, Refusal, Answer
<1>3. CASE ~Within(q, Region(o1, RootNode)) \/ (opt.rejectSeed /\ q \in scene)
  BY <1>1, <1>2, <1>3 DEF Find
<1>4. CASE Within(q, Region(o1, RootNode)) /\ ~(opt.rejectSeed /\ q \in scene)
  <2>1. a \in Descend(o1, scene, q, opt) \/ (mode = "virtual" /\ a \in BisectVirtual(o1, scene, q, opt))
          \/ a \in BisectNodes(o1, scene, q, opt)
    BY <1>1, <1>4 DEF Find
  <2>2. Evident(o1, mode)
    BY <1>1
  <2>3. AnswerFree(scene, mode, a)
    BY <1>4, <2>1, <2>2, DescendFree, BisectVirtualFree, BisectNodesFree
  <2> QED
    BY <1>1, <2>3
<1> QED
  BY <1>3, <1>4

-----------------------------------------------------------------------------
(* Worker sessions.                                                        *)

\* A new oracle has a good tree: its root.
LEMMA NewOracleGood ==
  ASSUME NEW q \in Units, NEW d \in 0..MaxTreeDepth - 1, NEW r, r = Cell(q, d), NEW store
  PROVE  LET o1 == NewOracle(r, d, store) IN
         /\ TreeGood(o1) /\ Region(o1, RootNode) = r /\ Depth(o1, RootNode) = d
         /\ o1.rootEv = NoRegion /\ o1.store = store /\ o1.boxOf = <<>> /\ o1.nodeOf = <<>>
<1>1. PICK o1, x, t : o1 = NewOracle(r, d, store) /\ x = NewNode(r, d) /\ t = <<x>>
  OBVIOUS
<1>2. /\ o1.tree = t /\ o1.boxOf = <<>> /\ o1.nodeOf = <<>> /\ o1.rootEv = NoRegion
      /\ o1.store = store /\ IsOracle(o1)
  BY <1>1 DEF NewOracle, IsOracle
<1>3. IsSeq(t) /\ Len(t) = 1 /\ t[1] = x
  BY <1>1, SeqSingle, Zenon
<1>4. DOMAIN t = {1}
  BY <1>3, SeqShape
<1>5. NodeGood(x) /\ x.left = NoNode /\ x.at = r /\ x.depth = d
  BY <1>1 DEF NodeGood, NewNode, IsNode
<1>6. TreeGood(o1)
  BY <1>2, <1>3, <1>4, <1>5 DEF TreeGood, Nodes, IsLeaf, RootNode
<1> QED
  BY <1>1, <1>2, <1>3, <1>5, <1>6 DEF Region, Depth, RootNode

\* A worker's session is a new oracle over the region of the leaf it is given.
LEMMA SessionGood ==
  ASSUME NEW o1, TreeGood(o1), NEW dom \in Nodes(o1), NEW mode
  PROVE  LET o2 == Session(o1, dom) IN
         /\ TreeGood(o2) /\ Evident(o2, mode)
         /\ Region(o2, RootNode) = Region(o1, dom) /\ Depth(o2, RootNode) = Depth(o1, dom)
<1>1. NodeGood(o1.tree[dom])
  BY DEF TreeGood
<1>2. PICK r, d, store, o2 : /\ r = Region(o1, dom) /\ d = Depth(o1, dom) /\ store = FALSE
                             /\ o2 = NewOracle(r, d, store)
  OBVIOUS
<1>3. PICK q \in Units : r = Cell(q, d)
  BY <1>1, <1>2 DEF NodeGood, Region, Depth
<1>4. d \in 0..MaxTreeDepth - 1
  BY <1>1, <1>2 DEF NodeGood, Depth
<1>5. /\ TreeGood(o2) /\ Region(o2, RootNode) = r /\ Depth(o2, RootNode) = d
      /\ o2.rootEv = NoRegion /\ o2.store = store
  BY <1>2, <1>3, <1>4, NewOracleGood
<1>6. Evident(o2, mode)
  BY <1>2, <1>5 DEF Evident
<1> QED
  BY <1>2, <1>5, <1>6, Zenon DEF Session

\* A replay maps nodes of the worker to nodes of the master with their cells.
Replayed(o1, worker, s) ==
  /\ s = [o |-> s.o, map |-> s.map, todo |-> s.todo]
  /\ TreeGood(s.o) /\ Extends(o1, s.o) /\ s.o.rootEv = o1.rootEv
  /\ IsSeq(s.todo) /\ Range(s.todo) \subseteq DOMAIN s.map /\ DOMAIN s.map \subseteq Nodes(worker)
  /\ \A w \in DOMAIN s.map : /\ s.map[w] \in Nodes(s.o)
                             /\ Region(s.o, s.map[w]) = Region(worker, w)
                             /\ Depth(s.o, s.map[w]) = Depth(worker, w)

\* A step of the replay maps a split of the worker to a split of the master.
LEMMA ReplayStepGood ==
  ASSUME NEW o1, NEW worker, TreeGood(worker), NEW s, Replayed(o1, worker, s)
  PROVE  Replayed(o1, worker, ReplayStep(worker, s))
<1>1. CASE s.todo = <<>>
  BY <1>1 DEF ReplayStep
<1>2. CASE s.todo # <<>>
  <2>1. PICK w, m : w = s.todo[1] /\ m = s.map[w]
    OBVIOUS
  <2>2. /\ IsSeq(s.todo) /\ TreeGood(s.o) /\ Extends(o1, s.o) /\ s.o.rootEv = o1.rootEv
        /\ s = [o |-> s.o, map |-> s.map, todo |-> s.todo]
        /\ Range(s.todo) \subseteq DOMAIN s.map /\ DOMAIN s.map \subseteq Nodes(worker)
    BY DEF Replayed
  <2>3. /\ IsSeq(Tail(s.todo)) /\ Head(s.todo) = s.todo[1] /\ Head(s.todo) \in Range(s.todo)
        /\ Range(s.todo) = {Head(s.todo)} \cup Range(Tail(s.todo))
    BY <1>2, <2>2, SeqTail
  <2>4. /\ w \in DOMAIN s.map /\ w \in Nodes(worker) /\ m \in Nodes(s.o)
        /\ Region(s.o, m) = Region(worker, w) /\ Depth(s.o, m) = Depth(worker, w)
        /\ Range(Tail(s.todo)) \subseteq DOMAIN s.map
    BY <2>1, <2>2, <2>3 DEF Replayed
  <2>5. CASE IsLeaf(worker, w)
    <3>1. PICK t : t = Tail(s.todo)
      OBVIOUS
    <3>2. ReplayStep(worker, s) = [s EXCEPT !.todo = t]
      BY <1>2, <2>1, <2>5, <3>1 DEF ReplayStep
    <3>3. ReplayStep(worker, s) = [o |-> s.o, map |-> s.map, todo |-> t]
      BY <2>2, <3>2
    <3>4. PICK s2 : s2 = ReplayStep(worker, s)
      OBVIOUS
    <3>5. s2 = [o |-> s.o, map |-> s.map, todo |-> t]
      BY <3>3, <3>4
    <3>6. s2.o = s.o /\ s2.map = s.map /\ s2.todo = t
          /\ s2 = [o |-> s2.o, map |-> s2.map, todo |-> s2.todo]
      BY <3>5
    <3>7. Replayed(o1, worker, s2)
      BY <2>2, <2>3, <2>4, <3>1, <3>6 DEF Replayed
    <3> QED
      BY <3>4, <3>7
  <2>6. CASE ~IsLeaf(worker, w)
    <3>1. PICK l, r : l = worker.tree[w].left /\ r = worker.tree[w].right
      OBVIOUS
    <3>2. /\ l \in Nodes(worker) /\ r \in Nodes(worker)
          /\ Depth(worker, l) = Depth(worker, w) + 1 /\ Depth(worker, r) = Depth(worker, w) + 1
          /\ Region(worker, l) = Half(Region(worker, w), TRUE)
          /\ Region(worker, r) = Half(Region(worker, w), FALSE)
      BY <2>4, <2>6, <3>1 DEF TreeGood, Splits
    <3>3. Depth(s.o, m) < MaxTreeDepth - 1
      <4>1. Depth(worker, l) \in 0..MaxTreeDepth - 1 /\ Depth(worker, w) \in 0..MaxTreeDepth - 1
        BY <2>4, <3>2 DEF TreeGood, NodeGood, Depth
      <4> QED
        BY <2>4, <3>2, <4>1, DepthBounds
    <3>4. PICK o2 : o2 = IF IsLeaf(s.o, m) THEN SplitNode(s.o, m) ELSE s.o
      OBVIOUS
    <3>5. TreeGood(o2) /\ Extends(s.o, o2) /\ ~IsLeaf(o2, m) /\ o2.rootEv = s.o.rootEv
      BY <2>2, <2>4, <3>3, <3>4, SplitNodeGood, ExtendsItself
    <3>6. Extends(o1, o2)
      BY <2>2, <3>5, ExtendsFurther
    <3>7. PICK a, b : a = o2.tree[m].left /\ b = o2.tree[m].right
      OBVIOUS
    <3>8. m \in Nodes(o2) /\ Region(o2, m) = Region(s.o, m) /\ Depth(o2, m) = Depth(s.o, m)
      BY <2>4, <3>5 DEF Extends
    <3>9. /\ a \in Nodes(o2) /\ b \in Nodes(o2)
          /\ Depth(o2, a) = Depth(o2, m) + 1 /\ Depth(o2, b) = Depth(o2, m) + 1
          /\ Region(o2, a) = Half(Region(o2, m), TRUE)
          /\ Region(o2, b) = Half(Region(o2, m), FALSE)
      BY <3>5, <3>7, <3>8 DEF TreeGood, Splits
    <3>10. /\ Depth(o2, a) = Depth(worker, l) /\ Depth(o2, b) = Depth(worker, r)
           /\ Region(o2, a) = Region(worker, l) /\ Region(o2, b) = Region(worker, r)
      BY <2>4, <3>2, <3>8, <3>9
    <3>11. PICK t, f, g, pair : /\ f = Put(s.map, r, b) /\ g = Put(f, l, a) /\ pair = <<l, r>>
                                /\ t = pair \o Tail(s.todo)
      OBVIOUS
    <3>12. ReplayStep(worker, s) = [o |-> o2, map |-> g, todo |-> t]
      BY <1>2, <2>1, <2>6, <3>1, <3>4, <3>7, <3>11, Zenon DEF ReplayStep
    <3>13. /\ DOMAIN g = DOMAIN s.map \cup {l, r} /\ g[l] = a /\ (g[r] = b \/ (g[r] = a /\ r = l))
           /\ \A x \in DOMAIN s.map : x = l \/ x = r \/ g[x] = s.map[x]
      <4>1. PICK h : h = s.map
        OBVIOUS
      <4>2. f = Put(h, r, b) /\ g = Put(f, l, a)
        BY <3>11, <4>1
      <4>3. /\ DOMAIN f = DOMAIN h \cup {r} /\ f[r] = b
            /\ \A x \in DOMAIN h : x # r => f[x] = h[x]
        BY <4>2 DEF Put
      <4>4. /\ DOMAIN g = DOMAIN f \cup {l} /\ g[l] = a
            /\ \A x \in DOMAIN f : x # l => g[x] = f[x]
        BY <4>2 DEF Put
      <4> QED
        BY <4>1, <4>3, <4>4
    <3>14. IsSeq(pair) /\ Range(pair) = {l, r}
      BY <3>11, SeqPair, Zenon
    <3>15. IsSeq(t) /\ Range(t) = {l, r} \cup Range(Tail(s.todo))
      <4>1. PICK rest : rest = Tail(s.todo)
        OBVIOUS
      <4>2. IsSeq(rest) /\ IsSeq(pair)
        BY <2>3, <3>14, <4>1
      <4>3. IsSeq(pair \o rest) /\ Range(pair \o rest) = Range(pair) \cup Range(rest)
        BY <4>2, SeqConcat
      <4> QED
        BY <3>11, <3>14, <4>1, <4>3, Zenon
    <3>16. \A x \in DOMAIN g : /\ g[x] \in Nodes(o2) /\ Region(o2, g[x]) = Region(worker, x)
                               /\ Depth(o2, g[x]) = Depth(worker, x)
      <4>1. SUFFICES ASSUME NEW x \in DOMAIN g
                     PROVE  /\ g[x] \in Nodes(o2) /\ Region(o2, g[x]) = Region(worker, x)
                            /\ Depth(o2, g[x]) = Depth(worker, x)
        OBVIOUS
      <4>2. CASE x = l \/ x = r
        BY <3>9, <3>10, <3>13, <4>2
      <4>3. CASE x # l /\ x # r
        <5>1. x \in DOMAIN s.map /\ g[x] = s.map[x]
          BY <3>13, <4>1, <4>3
        <5>2. /\ s.map[x] \in Nodes(s.o) /\ Region(s.o, s.map[x]) = Region(worker, x)
              /\ Depth(s.o, s.map[x]) = Depth(worker, x)
          BY <5>1 DEF Replayed
        <5> QED
          BY <3>5, <5>1, <5>2 DEF Extends
      <4> QED
        BY <4>2, <4>3
    <3>17. PICK s2 : s2 = ReplayStep(worker, s)
      OBVIOUS
    <3>18. s2 = [o |-> o2, map |-> g, todo |-> t]
      BY <3>12, <3>17
    <3>19. s2.o = o2 /\ s2.map = g /\ s2.todo = t /\ s2 = [o |-> s2.o, map |-> s2.map, todo |-> s2.todo]
      BY <3>18
    <3>20. Range(t) \subseteq DOMAIN g /\ DOMAIN g \subseteq Nodes(worker)
      BY <2>2, <2>4, <3>2, <3>13, <3>15
    <3>21. o2.rootEv = o1.rootEv
      BY <2>2, <3>5
    <3>22. Replayed(o1, worker, s2)
      BY <3>5, <3>6, <3>15, <3>16, <3>19, <3>20, <3>21 DEF Replayed
    <3> QED
      BY <3>17, <3>22
  <2> QED
    BY <2>5, <2>6
<1> QED
  BY <1>1, <1>2

\* A worker's splits, replayed below the leaf it was given (replay_structure in
\* oracle.cpp), extend the master's tree and map nodes of the worker to nodes with
\* the same cells, whatever the master was split into meanwhile.
THEOREM ReplayGood ==
  ASSUME NEW o1, TreeGood(o1), NEW worker, TreeGood(worker), NEW dom \in Nodes(o1),
         Region(worker, RootNode) = Region(o1, dom), Depth(worker, RootNode) = Depth(o1, dom)
  PROVE  Replayed(o1, worker, Replay(o1, worker, dom))
<1>1. IsSeq(worker.tree)
  BY DEF TreeGood
<1>2. PICK u : /\ u[0] = ReplayStart(o1, dom)
               /\ Replay(o1, worker, dom) = u[Len(worker.tree)]
               /\ \A k \in 1..Len(worker.tree) : u[k] = ReplayStep(worker, u[k - 1])
  BY <1>1, ReplayUnfolds
<1> DEFINE n == Len(worker.tree)
<1>3. n \in Nat
  BY <1>1, SeqShape
<1>4. /\ u[0] = ReplayStart(o1, dom)
      /\ Replay(o1, worker, dom) = u[n]
      /\ \A k \in 1..n : u[k] = ReplayStep(worker, u[k - 1])
  BY <1>2, Zenon
<1> HIDE DEF n
<1> DEFINE T == {k \in 0..n : Replayed(o1, worker, u[k])}
<1>5. 0 \in T
  <2>1. PICK s : s = u[0]
    OBVIOUS
  <2>2. PICK map, todo : map = [w \in {RootNode} |-> dom] /\ todo = <<RootNode>>
    OBVIOUS
  <2>3. s = [o |-> o1, map |-> map, todo |-> todo]
    BY <1>4, <2>1, <2>2, Zenon DEF ReplayStart
  <2>4. s.o = o1 /\ s.map = map /\ s.todo = todo /\ s = [o |-> s.o, map |-> s.map, todo |-> s.todo]
    BY <2>3
  <2>5. IsSeq(todo) /\ Range(todo) = {RootNode}
    BY <2>2, SeqSingle, Zenon
  <2>6. DOMAIN map = {RootNode} /\ map[RootNode] = dom
    BY <2>2
  <2>7. RootNode \in Nodes(worker)
    BY DEF TreeGood
  <2>8. Replayed(o1, worker, s)
    BY <2>4, <2>5, <2>6, <2>7, ExtendsItself DEF Replayed
  <2> QED
    BY <1>3, <2>1, <2>8
<1>6. \A k \in 1..n : k - 1 \in T => k \in T
  BY <1>3, <1>4, ReplayStepGood
<1>7. n \in T
  <2> HIDE DEF T
  <2>1. \A k \in 0..n : k \in T
    BY <1>3, <1>5, <1>6, UpTo
  <2> QED
    BY <1>3, <2>1
<1> QED
  BY <1>4, <1>7

-----------------------------------------------------------------------------
(* Boxes, nodes and reservations.                                          *)

RegionGood(r) == r = <<r[1], r[2]>> /\ r[1] \in Units /\ r[2] \in Units /\ r[1] <= r[2]
IsBox(b) == b = [id |-> b.id, node |-> b.node, at |-> b.at, seed |-> b.seed,
                 parent |-> b.parent, root |-> b.root]

\* Boxes are regions of the line, and an id is given out once.
BoxesGood(bs, nid) ==
  /\ IsSeq(bs) /\ nid \in Nat
  /\ \A i \in DOMAIN bs : IsBox(bs[i]) /\ RegionGood(bs[i].at) /\ bs[i].id \in 0..nid - 1
  /\ \A i, j \in DOMAIN bs : bs[i].id = bs[j].id => i = j

\* A region that lies on a node, if it has one.
OnNode(o1, n, r) == n \in Nodes(o1) \cup {NoNode} /\ (n # NoNode => Region(o1, n) = r)

\* The two maps of the reservations: what a node is reserved for names the
\* node, what an id is reserved at names the id unless the node was reserved
\* twice, and so does a box that has its node.
MapsAgree(o1, nid, tw) ==
  /\ DOMAIN o1.boxOf \subseteq Nodes(o1) /\ DOMAIN o1.nodeOf \subseteq 0..nid - 1
  /\ \A n \in DOMAIN o1.boxOf : o1.boxOf[n] \in DOMAIN o1.nodeOf /\ o1.nodeOf[o1.boxOf[n]] = n
  /\ \A b \in DOMAIN o1.nodeOf : o1.nodeOf[b] \notin tw =>
       o1.nodeOf[b] \in DOMAIN o1.boxOf /\ o1.boxOf[o1.nodeOf[b]] = b
Reserved(bs, o1, tw) ==
  /\ \A n \in DOMAIN o1.boxOf :
       \E i \in DOMAIN bs : bs[i].id = o1.boxOf[n] /\ Inside(Region(o1, n), bs[i].at)
  /\ \A i \in DOMAIN bs : bs[i].node # NoNode /\ bs[i].node \notin tw =>
       bs[i].node \in DOMAIN o1.boxOf /\ o1.boxOf[bs[i].node] = bs[i].id

Core(bs, o1, nid, tw) ==
  /\ TreeGood(o1) /\ BoxesGood(bs, nid)
  /\ \A i \in DOMAIN bs : OnNode(o1, bs[i].node, bs[i].at)
  /\ MapsAgree(o1, nid, tw) /\ Reserved(bs, o1, tw)

\* The tree is the whole line's.
Whole(o1) == \A q \in Units : Within(q, Region(o1, RootNode))

\* A box on a node stays on it when the tree grows.
LEMMA OnNodeKept ==
  ASSUME NEW o1, NEW o2, Extends(o1, o2), NEW n, NEW r, OnNode(o1, n, r)
  PROVE  OnNode(o2, n, r)
BY Zenon DEF OnNode, Extends

\* The core holds on a larger tree.
LEMMA CoreKept ==
  ASSUME NEW bs, NEW o1, NEW o2, NEW nid, NEW tw, Core(bs, o1, nid, tw), TreeGood(o2), Extends(o1, o2)
  PROVE  Core(bs, o2, nid, tw)
<1>1. \A i \in DOMAIN bs : OnNode(o2, bs[i].node, bs[i].at)
  BY OnNodeKept, Zenon DEF Core
<1>2. o2.boxOf = o1.boxOf /\ o2.nodeOf = o1.nodeOf /\ Nodes(o1) \subseteq Nodes(o2)
  BY DEF Extends
<1>3. MapsAgree(o2, nid, tw)
  BY <1>2, Zenon DEF Core, MapsAgree
<1>4. \A n \in DOMAIN o1.boxOf : Region(o2, n) = Region(o1, n)
  BY Zenon DEF Core, MapsAgree, Extends
<1>5. \A n \in DOMAIN o2.boxOf :
        \E i \in DOMAIN bs : bs[i].id = o2.boxOf[n] /\ Inside(Region(o2, n), bs[i].at)
  BY <1>2, <1>4 DEF Core, Reserved
<1>6. \A i \in DOMAIN bs : bs[i].node # NoNode /\ bs[i].node \notin tw =>
        bs[i].node \in DOMAIN o2.boxOf /\ o2.boxOf[bs[i].node] = bs[i].id
  BY <1>2 DEF Core, Reserved
<1>7. Reserved(bs, o2, tw)
  BY <1>5, <1>6, Zenon DEF Reserved
<1> QED BY <1>1, <1>3, <1>7, Zenon DEF Core

\* The core holds when more ids are used up and more nodes are reserved twice.
LEMMA CoreLater ==
  ASSUME NEW bs, NEW o1, NEW nid, NEW tw, Core(bs, o1, nid, tw), NEW nid2 \in Nat, nid2 >= nid,
         NEW tw2, tw \subseteq tw2
  PROVE  Core(bs, o1, nid2, tw2)
<1>1. nid \in Nat
  BY DEF Core, BoxesGood
<1>2. 0..nid - 1 \subseteq 0..nid2 - 1
  BY <1>1
<1>3. BoxesGood(bs, nid2)
  BY <1>2, Zenon DEF Core, BoxesGood
<1>4. MapsAgree(o1, nid2, tw2)
  BY <1>2, Zenon DEF Core, MapsAgree
<1>5. Reserved(bs, o1, tw2)
  BY Zenon DEF Core, Reserved
<1> QED BY <1>3, <1>4, <1>5, Zenon DEF Core

\* The nodes a box of o1 had and o2 reserves for another.
Changed(o1, o2) == {n \in DOMAIN o2.boxOf : n \in DOMAIN o1.boxOf /\ o2.boxOf[n] # o1.boxOf[n]}

\* A reservation writes both maps and nothing else.
LEMMA ReservedShape ==
  ASSUME NEW o1, TreeGood(o1), NEW n, n # NoNode, NEW b
  PROVE  LET o2 == ReserveNode(o1, n, b) IN
         /\ o2.boxOf = Put(o1.boxOf, n, b) /\ o2.nodeOf = Put(o1.nodeOf, b, n)
         /\ o2.tree = o1.tree /\ o2.rootEv = o1.rootEv /\ o2.store = o1.store /\ IsOracle(o2)
<1> DEFINE o2 == ReserveNode(o1, n, b)
<1>1. o1 = [tree |-> o1.tree, boxOf |-> o1.boxOf, nodeOf |-> o1.nodeOf,
            rootEv |-> o1.rootEv, store |-> o1.store]
  BY Zenon DEF TreeGood, IsOracle
<1>2. o2 = [o1 EXCEPT !.boxOf = Put(o1.boxOf, n, b), !.nodeOf = Put(o1.nodeOf, b, n)]
  BY Zenon DEF ReserveNode
<1>3. o2 = [tree |-> o1.tree, boxOf |-> Put(o1.boxOf, n, b), nodeOf |-> Put(o1.nodeOf, b, n),
            rootEv |-> o1.rootEv, store |-> o1.store]
  BY <1>1, <1>2
<1> HIDE DEF o2
<1>4. /\ o2.boxOf = Put(o1.boxOf, n, b) /\ o2.nodeOf = Put(o1.nodeOf, b, n)
      /\ o2.tree = o1.tree /\ o2.rootEv = o1.rootEv /\ o2.store = o1.store /\ IsOracle(o2)
  BY <1>3 DEF IsOracle
<1> QED BY <1>4, Zenon DEF o2

\* A tree is good whatever is reserved in it.
LEMMA SameTree ==
  ASSUME NEW o1, NEW o2, TreeGood(o1), IsOracle(o2), o2.tree = o1.tree
  PROVE  TreeGood(o2)
<1>1. /\ IsSeq(o2.tree) /\ RootNode \in Nodes(o2)
      /\ \A n \in Nodes(o2) : NodeGood(o2.tree[n])
  BY Zenon DEF TreeGood, Nodes
<1>2. \A n \in Nodes(o2) : IsLeaf(o2, n) \/ Splits(o2, n)
  BY Zenon DEF TreeGood, Nodes, IsLeaf, Splits, Depth, Region
<1>3. \A n \in Nodes(o2) : n = RootNode \/ \E m \in Nodes(o2) : ParentIn(o2, m, n)
  BY Zenon DEF TreeGood, Nodes, IsLeaf, ParentIn
<1> QED BY <1>1, <1>2, <1>3, Zenon DEF TreeGood

\* A region is within itself.
LEMMA SelfInside ==
  ASSUME NEW r, RegionGood(r)
  PROVE  Inside(r, r)
BY DepthBounds, PowerOfTwo DEF RegionGood, Inside, Units

\* A new box takes the next id.
LEMMA BoxAppended ==
  ASSUME NEW bs, NEW b, BoxesGood(bs, b.id), IsBox(b), RegionGood(b.at)
  PROVE  LET bs2 == Append(bs, b) IN
         /\ BoxesGood(bs2, b.id + 1) /\ Len(bs) \in Nat /\ Len(bs2) = Len(bs) + 1
         /\ DOMAIN bs2 = DOMAIN bs \cup {Len(bs) + 1} /\ Len(bs) + 1 \notin DOMAIN bs
         /\ bs2[Len(bs) + 1] = b /\ \A i \in DOMAIN bs : bs2[i] = bs[i]
<1> DEFINE nid == b.id
           bs2 == Append(bs, b)
<1>1. BoxesGood(bs, nid)
  OBVIOUS
<1>4. nid \in Nat /\ IsSeq(bs)
  BY <1>1, Zenon DEF BoxesGood
<1>5. /\ Len(bs) \in Nat /\ IsSeq(bs2) /\ DOMAIN bs = 1..Len(bs) /\ DOMAIN bs2 = 1..Len(bs) + 1
      /\ Len(bs2) = Len(bs) + 1
      /\ bs2[Len(bs) + 1] = b
      /\ \A i \in DOMAIN bs : bs2[i] = bs[i]
  <2>2. IsSeq(bs2) /\ Len(bs2) = Len(bs) + 1
        /\ bs2[Len(bs) + 1] = b /\ \A i \in 1..Len(bs) : bs2[i] = bs[i]
    BY <1>4, SeqAppend
  <2>3. Len(bs) \in Nat /\ DOMAIN bs = 1..Len(bs)
    BY <1>4, SeqShape, Zenon
  <2>4. DOMAIN bs2 = 1..Len(bs2)
    BY <2>2, SeqShape, Zenon
  <2> QED BY <2>2, <2>3, <2>4
<1> HIDE DEF nid, bs2
<1>x. b.id = nid
  BY Zenon DEF nid
<1>6. DOMAIN bs2 = DOMAIN bs \cup {Len(bs) + 1} /\ Len(bs) + 1 \notin DOMAIN bs
  BY <1>5
<1>7. \A x \in 0..nid - 1 : x \in 0..(nid + 1) - 1 /\ x # nid
  BY <1>4
<1>8. nid \in 0..(nid + 1) - 1 /\ nid + 1 \in Nat
  BY <1>4
<1>9. BoxesGood(bs2, nid + 1)
  <2>1. \A i \in DOMAIN bs2 : IsBox(bs2[i]) /\ RegionGood(bs2[i].at)
                             /\ bs2[i].id \in 0..(nid + 1) - 1
    <3>1. \A i \in DOMAIN bs : IsBox(bs[i]) /\ RegionGood(bs[i].at) /\ bs[i].id \in 0..nid - 1
      BY <1>1, Zenon DEF BoxesGood
    <3>2. IsBox(b) /\ RegionGood(b.at) /\ b.id \in 0..(nid + 1) - 1
      BY <1>8, <1>x, Zenon
    <3> QED BY <3>1, <3>2, <1>5, <1>6, <1>7, Zenon
  <2>2. \A i, j \in DOMAIN bs2 : bs2[i].id = bs2[j].id => i = j
    <3>1. \A i \in DOMAIN bs : bs[i].id # nid
      BY <1>1, <1>7, Zenon DEF BoxesGood
    <3>2. \A i, j \in DOMAIN bs : bs[i].id = bs[j].id => i = j
      BY <1>1, Zenon DEF BoxesGood
    <3> QED BY <3>1, <3>2, <1>x, <1>5, <1>6, Zenon
  <2>3. IsSeq(bs2) /\ nid + 1 \in Nat
    BY <1>5, <1>8, Zenon
  <2>4. BoxesGood(bs2, nid + 1) <=>
          /\ IsSeq(bs2) /\ nid + 1 \in Nat
          /\ \A i \in DOMAIN bs2 : IsBox(bs2[i]) /\ RegionGood(bs2[i].at)
                                 /\ bs2[i].id \in 0..(nid + 1) - 1
          /\ \A i, j \in DOMAIN bs2 : bs2[i].id = bs2[j].id => i = j
    BY Zenon DEF BoxesGood
  <2> QED BY <2>1, <2>2, <2>3, <2>4, Zenon
<1>10. /\ BoxesGood(bs2, nid + 1) /\ Len(bs) \in Nat /\ Len(bs2) = Len(bs) + 1
       /\ DOMAIN bs2 = DOMAIN bs \cup {Len(bs) + 1} /\ Len(bs) + 1 \notin DOMAIN bs
       /\ bs2[Len(bs) + 1] = b /\ \A i \in DOMAIN bs : bs2[i] = bs[i]
  BY <1>5, <1>6, <1>9, Zenon
<1> QED BY <1>10, Zenon DEF nid, bs2

\* A new box takes its node for itself.
LEMMA BoxAdded ==
  ASSUME NEW bs, NEW o1, NEW tw, NEW b, Core(bs, o1, b.id, tw), IsBox(b), RegionGood(b.at), 
         OnNode(o1, b.node, b.at), b.node # NoNode,
         NEW tw2, tw \subseteq tw2, Changed(o1, ReserveNode(o1, b.node, b.id)) \subseteq tw2
  PROVE  Core(Append(bs, b), ReserveNode(o1, b.node, b.id), b.id + 1, tw2)
<1> DEFINE nid == b.id
           n == b.node
           bs2 == Append(bs, b)
           o2 == ReserveNode(o1, n, nid)
<1>1. TreeGood(o1) /\ BoxesGood(bs, nid) /\ MapsAgree(o1, nid, tw) /\ Reserved(bs, o1, tw)
      /\ \A i \in DOMAIN bs : OnNode(o1, bs[i].node, bs[i].at)
  BY Zenon DEF Core
<1>2. /\ o2.boxOf = Put(o1.boxOf, n, nid) /\ o2.nodeOf = Put(o1.nodeOf, nid, n)
      /\ o2.tree = o1.tree /\ IsOracle(o2)
  BY <1>1, ReservedShape
<1>3. TreeGood(o2)
  BY <1>1, <1>2, SameTree, Zenon
<1>4. nid \in Nat /\ IsSeq(bs) /\ n \in Nodes(o1) /\ Region(o1, n) = b.at
  BY <1>1, Zenon DEF BoxesGood, OnNode
<1>5. /\ BoxesGood(bs2, nid + 1) /\ Len(bs) \in Nat /\ Len(bs2) = Len(bs) + 1
      /\ DOMAIN bs2 = DOMAIN bs \cup {Len(bs) + 1} /\ Len(bs) + 1 \notin DOMAIN bs
      /\ bs2[Len(bs) + 1] = b /\ \A i \in DOMAIN bs : bs2[i] = bs[i]
  BY <1>1, BoxAppended, Zenon
<1> HIDE DEF nid, n, bs2, o2
<1>x. b.id = nid /\ b.node = n
  BY Zenon DEF nid, n
<1>7. \A x \in 0..nid - 1 : x \in 0..(nid + 1) - 1 /\ x # nid
  BY <1>4
<1>8. nid \in 0..(nid + 1) - 1 /\ nid + 1 \in Nat
  BY <1>4
<1>10. \A i \in DOMAIN bs2 : OnNode(o2, bs2[i].node, bs2[i].at)
  <2>1. Nodes(o2) = Nodes(o1) /\ \A m \in Nodes(o1) : Region(o2, m) = Region(o1, m)
    BY <1>2, Zenon DEF Nodes, Region
  <2>2. \A m, r : OnNode(o1, m, r) => OnNode(o2, m, r)
    BY <2>1, Zenon DEF OnNode
  <2> QED BY <2>2, <1>1, <1>5, Zenon
<1> DEFINE f == o1.boxOf
           g == o1.nodeOf
           f2 == o2.boxOf
           g2 == o2.nodeOf
<1>11. /\ DOMAIN f \subseteq Nodes(o1) /\ DOMAIN g \subseteq 0..nid - 1
       /\ \A m \in DOMAIN f : f[m] \in DOMAIN g /\ g[f[m]] = m
       /\ \A x \in DOMAIN g : g[x] \notin tw => g[x] \in DOMAIN f /\ f[g[x]] = x
  BY <1>1, Zenon DEF MapsAgree
<1>12. /\ DOMAIN f2 = DOMAIN f \cup {n} /\ f2[n] = nid
       /\ \A m \in DOMAIN f : m # n => f2[m] = f[m]
       /\ DOMAIN g2 = DOMAIN g \cup {nid} /\ g2[nid] = n
       /\ \A x \in DOMAIN g : x # nid => g2[x] = g[x]
  <2>1. /\ DOMAIN Put(f, n, nid) = DOMAIN f \cup {n} /\ Put(f, n, nid)[n] = nid
        /\ \A m \in DOMAIN f : m # n => Put(f, n, nid)[m] = f[m]
    BY DEF Put
  <2>2. /\ DOMAIN Put(g, nid, n) = DOMAIN g \cup {nid} /\ Put(g, nid, n)[nid] = n
        /\ \A m \in DOMAIN g : m # nid => Put(g, nid, n)[m] = g[m]
    BY DEF Put
  <2>3. f2 = Put(f, n, nid) /\ g2 = Put(g, nid, n)
    BY <1>2, Zenon
  <2> HIDE DEF f, g, f2, g2
  <2> QED BY <2>1, <2>2, <2>3
<1>13. nid \notin DOMAIN g
  BY <1>7, <1>11, Zenon
<1>14. n \in DOMAIN f /\ f[n] # nid => n \in tw2
  BY <1>12 DEF Changed, o2, n, nid, f, f2
<1>15. \A m \in DOMAIN f : f[m] # nid
  BY <1>11, <1>13, Zenon
<1>16. Nodes(o2) = Nodes(o1)
  BY <1>2, Zenon DEF Nodes
<1> HIDE DEF f, g, f2, g2
<1>17. DOMAIN f2 \subseteq Nodes(o2) /\ DOMAIN g2 \subseteq 0..(nid + 1) - 1
  BY <1>4, <1>7, <1>8, <1>11, <1>12, <1>16, Zenon
<1>18. \A m \in DOMAIN f2 : f2[m] \in DOMAIN g2 /\ g2[f2[m]] = m
  <2>1. SUFFICES ASSUME NEW m \in DOMAIN f2
                 PROVE  f2[m] \in DOMAIN g2 /\ g2[f2[m]] = m
    BY Zenon
  <2>2. CASE m = n
    BY <2>2, <1>12, Zenon
  <2>3. CASE m # n
    <3>1. m \in DOMAIN f /\ f2[m] = f[m]
      BY <2>3, <1>12, Zenon
    <3>2. f[m] \in DOMAIN g /\ g[f[m]] = m /\ f[m] # nid
      BY <3>1, <1>11, <1>15, Zenon
    <3> QED BY <3>1, <3>2, <1>12
  <2> QED BY <2>2, <2>3, Zenon
<1>19. \A x \in DOMAIN g2 : g2[x] \notin tw2 => g2[x] \in DOMAIN f2 /\ f2[g2[x]] = x
  <2>1. SUFFICES ASSUME NEW x \in DOMAIN g2, g2[x] \notin tw2
                 PROVE  g2[x] \in DOMAIN f2 /\ f2[g2[x]] = x
    BY Zenon
  <2>2. CASE x = nid
    BY <2>2, <1>12, Zenon
  <2>3. CASE x # nid
    <3>1. x \in DOMAIN g /\ g2[x] = g[x] /\ g[x] \notin tw
      BY <2>1, <2>3, <1>12, Zenon
    <3>2. g[x] \in DOMAIN f /\ f[g[x]] = x
      BY <3>1, <1>11, Zenon
    <3>3. g[x] # n
      BY <3>1, <3>2, <2>1, <2>3, <1>14, Zenon
    <3> QED BY <3>1, <3>2, <3>3, <1>12, Zenon
  <2> QED BY <2>2, <2>3, Zenon
<1>20. MapsAgree(o2, nid + 1, tw2)
  <2>1. MapsAgree(o2, nid + 1, tw2) <=>
          /\ DOMAIN f2 \subseteq Nodes(o2) /\ DOMAIN g2 \subseteq 0..(nid + 1) - 1
          /\ \A m \in DOMAIN f2 : f2[m] \in DOMAIN g2 /\ g2[f2[m]] = m
          /\ \A x \in DOMAIN g2 : g2[x] \notin tw2 => g2[x] \in DOMAIN f2 /\ f2[g2[x]] = x
    BY Zenon DEF MapsAgree, f2, g2
  <2> QED BY <1>17, <1>18, <1>19, <2>1, Zenon
<1>21. \A m \in DOMAIN f2 :
         \E i \in DOMAIN bs2 : bs2[i].id = f2[m] /\ Inside(Region(o2, m), bs2[i].at)
  <2>1. SUFFICES ASSUME NEW m \in DOMAIN f2
                 PROVE  \E i \in DOMAIN bs2 : bs2[i].id = f2[m] /\ Inside(Region(o2, m), bs2[i].at)
    BY Zenon
  <2>2. Region(o2, m) = Region(o1, m)
    BY <1>2, Zenon DEF Region
  <2>3. CASE m = n
    <3>1. Inside(b.at, b.at)
      BY SelfInside, Zenon
    <3>2. bs2[Len(bs) + 1].id = f2[m] /\ Inside(Region(o2, m), bs2[Len(bs) + 1].at)
      BY <3>1, <2>2, <2>3, <1>x, <1>4, <1>5, <1>12
    <3> QED BY <3>2, <1>5, Zenon
  <2>4. CASE m # n
    <3>1. m \in DOMAIN f /\ f2[m] = f[m]
      BY <2>4, <1>12, Zenon
    <3>2. \E i \in DOMAIN bs : bs[i].id = f[m] /\ Inside(Region(o1, m), bs[i].at)
      BY <3>1, <1>1, Zenon DEF Reserved, f
    <3> QED BY <3>1, <3>2, <2>2, <1>5, Zenon
  <2> QED BY <2>3, <2>4, Zenon
<1>22. \A i \in DOMAIN bs2 : bs2[i].node # NoNode /\ bs2[i].node \notin tw2 =>
         bs2[i].node \in DOMAIN f2 /\ f2[bs2[i].node] = bs2[i].id
  <2>1. SUFFICES ASSUME NEW i \in DOMAIN bs2, bs2[i].node # NoNode, bs2[i].node \notin tw2
                 PROVE  bs2[i].node \in DOMAIN f2 /\ f2[bs2[i].node] = bs2[i].id
    BY Zenon
  <2>2. CASE i \notin DOMAIN bs
    <3>1. bs2[i] = b
      BY <2>2, <1>5, Zenon
    <3> QED BY <3>1, <1>x, <1>12, Zenon
  <2>3. CASE i \in DOMAIN bs
    <3>1. bs2[i] = bs[i]
      BY <2>3, <1>5, Zenon
    <3>2. bs[i].node \in DOMAIN f /\ f[bs[i].node] = bs[i].id
      BY <2>1, <2>3, <3>1, <1>1, Zenon DEF Reserved, f
    <3>3. bs[i].id # nid
      BY <1>15, <3>2, Zenon
    <3>4. bs[i].node # n
      BY <3>1, <3>2, <3>3, <2>1, <1>14, Zenon
    <3> QED BY <3>1, <3>2, <3>4, <1>12, Zenon
  <2> QED BY <2>2, <2>3, Zenon
<1>23. Reserved(bs2, o2, tw2)
  BY <1>21, <1>22, Zenon DEF Reserved, f2
<1> QED BY <1>3, <1>5, <1>10, <1>20, <1>23, Zenon DEF Core, o2, n, nid, bs2

\* The core with a box added that has no node.
LEMMA NodelessBoxAdded ==
  ASSUME NEW bs, NEW o1, NEW tw, NEW b, Core(bs, o1, b.id, tw), IsBox(b), RegionGood(b.at),
         b.node = NoNode
  PROVE  Core(Append(bs, b), o1, b.id + 1, tw)
<1> DEFINE nid == b.id
           bs2 == Append(bs, b)
<1>1. /\ TreeGood(o1) /\ BoxesGood(bs, nid) /\ MapsAgree(o1, nid, tw) /\ Reserved(bs, o1, tw)
      /\ \A i \in DOMAIN bs : OnNode(o1, bs[i].node, bs[i].at)
  BY Zenon DEF Core
<1>2. /\ BoxesGood(bs2, nid + 1) /\ DOMAIN bs2 = DOMAIN bs \cup {Len(bs) + 1}
      /\ bs2[Len(bs) + 1] = b /\ \A i \in DOMAIN bs : bs2[i] = bs[i]
  BY <1>1, BoxAppended, Zenon
<1>3. nid \in Nat
  BY <1>1, Zenon DEF BoxesGood
<1> HIDE DEF nid, bs2
<1>4. 0..nid - 1 \subseteq 0..(nid + 1) - 1
  BY <1>3
<1>5. MapsAgree(o1, nid + 1, tw)
  BY <1>1, <1>4, Zenon DEF MapsAgree
<1>6. OnNode(o1, b.node, b.at)
  BY Zenon DEF OnNode
<1>7. \A i \in DOMAIN bs2 : OnNode(o1, bs2[i].node, bs2[i].at)
  BY <1>1, <1>2, <1>6, Zenon
<1>8. \A m \in DOMAIN o1.boxOf :
        \E i \in DOMAIN bs2 : bs2[i].id = o1.boxOf[m] /\ Inside(Region(o1, m), bs2[i].at)
  <2>1. SUFFICES ASSUME NEW m \in DOMAIN o1.boxOf
                 PROVE  \E i \in DOMAIN bs2 : /\ bs2[i].id = o1.boxOf[m]
                                              /\ Inside(Region(o1, m), bs2[i].at)
    BY Zenon
  <2>2. PICK i \in DOMAIN bs : bs[i].id = o1.boxOf[m] /\ Inside(Region(o1, m), bs[i].at)
    BY <1>1, Zenon DEF Reserved
  <2>3. i \in DOMAIN bs2 /\ bs2[i] = bs[i]
    BY <1>2, Zenon
  <2> QED BY <2>2, <2>3
<1>9. \A i \in DOMAIN bs2 : bs2[i].node # NoNode /\ bs2[i].node \notin tw =>
        bs2[i].node \in DOMAIN o1.boxOf /\ o1.boxOf[bs2[i].node] = bs2[i].id
  BY <1>1, <1>2, Zenon DEF Reserved
<1>10. Reserved(bs2, o1, tw)
  BY <1>8, <1>9, Zenon DEF Reserved
<1> QED BY <1>1, <1>2, <1>5, <1>7, <1>10, Zenon DEF Core, nid, bs2

-----------------------------------------------------------------------------
(* A box that a search found and the grower commits.                       *)

AllClear(scene, bs) == \A i \in DOMAIN bs : Clear(scene, bs[i].at)
\* What a step makes of the boxes bs and the oracle o1.
StateGood(bs, o1, nid, tw, s) ==
  /\ s.nextId \in Nat /\ s.nextId >= nid
  /\ Core(s.boxes, s.o, s.nextId, tw \cup Changed(o1, s.o))
  /\ Nodes(o1) \subseteq Nodes(s.o)
  /\ \A n \in Nodes(o1) : Region(s.o, n) = Region(o1, n)
  /\ Len(s.boxes) <= Len(bs) + 1
StateFree(scene, mode, s) == Evident(s.o, mode) /\ AllClear(scene, s.boxes)

\* A cell is a region.
LEMMA CellRegion ==
  ASSUME NEW r, \E q \in Units, d \in 0..Res : r = Cell(q, d)
  PROVE  RegionGood(r)
<1>1. PICK q \in Units : \E d \in 0..Res : r = Cell(q, d)
  BY Zenon
<1>2. PICK d \in 0..Res : r = Cell(q, d)
  BY <1>1, Zenon
<1>3. /\ r = <<r[1], r[2]>> /\ r[1] \in Units /\ r[2] \in Units /\ Within(q, r)
  BY <1>2, CellBounds, Zenon
<1>4. r[1] <= r[2]
  BY <1>3, DepthBounds, PowerOfTwo DEF Within, Units
<1> QED BY <1>3, <1>4, Zenon DEF RegionGood

\* A refusal keeps the boxes, whatever the search added to the tree.
LEMMA KeptGood ==
  ASSUME NEW bs, NEW o1, NEW nid, NEW tw, Core(bs, o1, nid, tw), NEW o2, TreeGood(o2), Extends(o1, o2),
         NEW ok, NEW nid2 \in Nat, nid2 >= nid, NEW cool, NEW ans
  PROVE  StateGood(bs, o1, nid, tw, State(ok, bs, o2, nid2, cool, ans))
<1> DEFINE s == State(ok, bs, o2, nid2, cool, ans)
<1>1. s.boxes = bs /\ s.o = o2 /\ s.nextId = nid2
  BY DEF State
<1> HIDE DEF s
<1>2. Core(bs, o2, nid, tw)
  BY CoreKept, Zenon
<1>3. Core(bs, o2, nid2, tw \cup Changed(o1, o2))
  BY <1>2, CoreLater, Zenon
<1>4. Nodes(o1) \subseteq Nodes(o2) /\ \A n \in Nodes(o1) : Region(o2, n) = Region(o1, n)
  BY Zenon DEF Extends
<1>5. Len(bs) \in Nat
  BY SeqShape, Zenon DEF Core, BoxesGood
<1>6. Len(s.boxes) <= Len(bs) + 1
  BY <1>1, <1>5
<1>7. StateGood(bs, o1, nid, tw, s)
  BY <1>1, <1>3, <1>4, <1>6, Zenon DEF StateGood
<1> QED BY <1>7, Zenon DEF s

\* The box a commit adds.
LEMMA AddedGood ==
  ASSUME NEW bs, NEW o1, NEW nid, NEW tw, Core(bs, o1, nid, tw), NEW o2, TreeGood(o2), Extends(o1, o2),
         NEW node, NEW r, RegionGood(r), OnNode(o2, node, r), NEW seed, NEW parent, NEW root,
         NEW cool, NEW ans
  PROVE  StateGood(bs, o1, nid, tw, State(TRUE, Append(bs, Box(nid, node, r, seed, parent, root)),
                                          ReserveNode(o2, node, nid), nid + 1, cool, ans))
<1> DEFINE b == Box(nid, node, r, seed, parent, root)
           o3 == ReserveNode(o2, node, nid)
           s == State(TRUE, Append(bs, b), o3, nid + 1, cool, ans)
<1>1. IsBox(b) /\ b.id = nid /\ b.node = node /\ b.at = r
  BY DEF Box, IsBox
<1>2. s.boxes = Append(bs, b) /\ s.o = o3 /\ s.nextId = nid + 1
  BY DEF State
<1>3. Core(bs, o2, nid, tw)
  BY CoreKept, Zenon
<1>4. nid \in Nat /\ BoxesGood(bs, nid)
  BY Zenon DEF Core, BoxesGood
<1> HIDE DEF b, s
<1>5. Core(bs, o2, b.id, tw) /\ RegionGood(b.at) /\ OnNode(o2, b.node, b.at)
  BY <1>1, <1>3
<1>6. BoxesGood(bs, b.id)
  BY <1>1, <1>4
<1>7. Len(Append(bs, b)) = Len(bs) + 1 /\ Len(bs) \in Nat
  BY <1>1, <1>5, <1>6, BoxAppended, Zenon
<1>8. o3.tree = o2.tree
  <2>1. CASE node = NoNode
    BY <2>1, Zenon DEF ReserveNode
  <2>2. CASE node # NoNode
    BY <2>2, ReservedShape
  <2> QED BY <2>1, <2>2, Zenon
<1>9. o2.boxOf = o1.boxOf
  BY Zenon DEF Extends
<1>10. Changed(o2, o3) = Changed(o1, o3)
  BY <1>9, Zenon DEF Changed
<1> DEFINE tw2 == tw \cup Changed(o1, o3)
<1>11. Core(Append(bs, b), o3, nid + 1, tw2)
  <2>1. CASE node = NoNode
    <3>1. b.node = NoNode
      BY <2>1, <1>1
    <3>2. Core(Append(bs, b), o2, b.id + 1, tw)
      BY <1>1, <1>5, <3>1, NodelessBoxAdded, Zenon
    <3>3. o3 = o2
      BY <2>1, Zenon DEF ReserveNode
    <3>4. Core(Append(bs, b), o2, nid + 1, tw)
      BY <3>2, <1>1
    <3>5. nid + 1 \in Nat /\ nid + 1 >= nid + 1
      BY <1>4
    <3>6. Core(Append(bs, b), o2, nid + 1, tw2)
      BY <3>4, <3>5, CoreLater, Zenon
    <3> QED BY <3>3, <3>6, Zenon
  <2>2. CASE node # NoNode
    <3>1. b.node # NoNode
      BY <2>2, <1>1
    <3>2. ReserveNode(o2, b.node, b.id) = o3
      BY <1>1
    <3>3. Changed(o2, ReserveNode(o2, b.node, b.id)) \subseteq tw2 /\ tw \subseteq tw2
      BY <3>2, <1>10, Zenon
    <3> HIDE DEF tw2, o3
    <3>4. Core(Append(bs, b), ReserveNode(o2, b.node, b.id), b.id + 1, tw2)
      BY <1>1, <1>5, <3>1, <3>3, BoxAdded, Zenon
    <3> QED BY <3>4, <3>2, <1>1
  <2> QED BY <2>1, <2>2, Zenon
<1> HIDE DEF o3
<1>12. Nodes(o1) \subseteq Nodes(o3) /\ \A n \in Nodes(o1) : Region(o3, n) = Region(o1, n)
  BY <1>8, Zenon DEF Extends, Nodes, Region
<1>13. nid + 1 \in Nat /\ nid + 1 >= nid
  BY <1>4
<1>14. Len(s.boxes) <= Len(bs) + 1
  BY <1>2, <1>7
<1>15. StateGood(bs, o1, nid, tw, s)
  BY <1>2, <1>11, <1>12, <1>13, <1>14, Zenon DEF StateGood
<1> QED BY <1>15, Zenon DEF s, b, o3

\* A commitment keeps the core, whatever becomes of the box.
LEMMA CommitGood ==
  ASSUME NEW bs, NEW o1, NEW nid, NEW tw, Core(bs, o1, nid, tw), NEW o2, TreeGood(o2), Extends(o1, o2),
         NEW ans, RegionGood(ans.at), OnNode(o2, ans.node, ans.at), NEW seed, NEW parent, NEW root,
         NEW cool
  PROVE  StateGood(bs, o1, nid, tw, Commit(bs, o2, nid, cool, ans, seed, parent, root))
<1> DEFINE new == Box(nid, ans.node, ans.at, seed, parent, root)
           orphan == parent \notin Ids(bs)
           mother == BoxOf(bs, parent).at
           s == Commit(bs, o2, nid, cool, ans, seed, parent, root)
           away == parent >= 0 /\ ~orphan /\ (Inside(ans.at, mother) \/ ~Touching(ans.at, mother))
<1>1. s = IF ~Within(seed, ans.at) THEN State(FALSE, bs, o2, nid, cool, ans)
          ELSE IF away THEN State(FALSE, bs, o2, nid + 1, cool, ans)
          ELSE State(TRUE, Append(bs, new), ReserveNode(o2, ans.node, nid), nid + 1,
                     CoolingSuccess(cool, ans.node), ans)
  BY Zenon DEF Commit
<1>2. nid \in Nat /\ nid + 1 \in Nat /\ nid + 1 >= nid /\ nid >= nid
  BY DEF Core, BoxesGood
<1> HIDE DEF away, s
<1>3. CASE ~Within(seed, ans.at)
  <2>1. StateGood(bs, o1, nid, tw, State(FALSE, bs, o2, nid, cool, ans))
    BY <1>2, KeptGood, Zenon
  <2> QED BY <2>1, <1>1, <1>3, Zenon DEF s
<1>4. CASE Within(seed, ans.at) /\ away
  <2>1. StateGood(bs, o1, nid, tw, State(FALSE, bs, o2, nid + 1, cool, ans))
    BY <1>2, KeptGood, Zenon
  <2> QED BY <2>1, <1>1, <1>4, Zenon DEF s
<1>5. CASE Within(seed, ans.at) /\ ~away
  <2>1. StateGood(bs, o1, nid, tw, State(TRUE, Append(bs, new), ReserveNode(o2, ans.node, nid), nid + 1,
                                         CoolingSuccess(cool, ans.node), ans))
    BY AddedGood, Zenon
  <2> QED BY <2>1, <1>1, <1>5, Zenon DEF s
<1> QED BY <1>3, <1>4, <1>5, Zenon

\* Reserving a node leaves the evidence as it is.
LEMMA ReserveEvident ==
  ASSUME NEW o1, TreeGood(o1), NEW n, NEW b, NEW mode, Evident(o1, mode)
  PROVE  Evident(ReserveNode(o1, n, b), mode)
<1>1. CASE n = NoNode
  BY <1>1, Zenon DEF ReserveNode
<1>2. CASE n # NoNode
  <2> DEFINE o2 == ReserveNode(o1, n, b)
  <2>1. o2.tree = o1.tree /\ o2.rootEv = o1.rootEv /\ o2.store = o1.store
    BY <1>2, ReservedShape
  <2> HIDE DEF o2
  <2>2. Evident(o2, mode)
    BY <2>1, Zenon DEF Evident, Region
  <2> QED BY <2>2, Zenon DEF o2
<1> QED BY <1>1, <1>2, Zenon

\* Free boxes and one more free box.
LEMMA ClearAppended ==
  ASSUME NEW scene, NEW bs, NEW b, BoxesGood(bs, b.id), IsBox(b), RegionGood(b.at),
         AllClear(scene, bs), Clear(scene, b.at)
  PROVE  AllClear(scene, Append(bs, b))
<1> DEFINE bs2 == Append(bs, b)
<1>1. /\ DOMAIN bs2 = DOMAIN bs \cup {Len(bs) + 1}
      /\ bs2[Len(bs) + 1] = b /\ \A i \in DOMAIN bs : bs2[i] = bs[i]
  BY BoxAppended, Zenon
<1> HIDE DEF bs2
<1>2. AllClear(scene, bs2)
  BY <1>1, Zenon DEF AllClear
<1> QED BY <1>2, Zenon DEF bs2

\* A commitment of a free region keeps all boxes free.
LEMMA CommitFree ==
  ASSUME NEW bs, NEW nid, BoxesGood(bs, nid), NEW o2, TreeGood(o2), NEW mode, Evident(o2, mode),
         NEW scene, AllClear(scene, bs),
         NEW ans, RegionGood(ans.at), Clear(scene, ans.at), NEW seed, NEW parent, NEW root, NEW cool
  PROVE  StateFree(scene, mode, Commit(bs, o2, nid, cool, ans, seed, parent, root))
<1> DEFINE b == Box(nid, ans.node, ans.at, seed, parent, root)
           s == Commit(bs, o2, nid, cool, ans, seed, parent, root)
           o3 == ReserveNode(o2, ans.node, nid)
<1>1. \/ s.boxes = bs /\ s.o = o2
      \/ s.boxes = Append(bs, b) /\ s.o = o3
  BY DEF Commit, State
<1>2. IsBox(b) /\ b.id = nid /\ b.at = ans.at
  BY DEF Box, IsBox
<1>3. Evident(o3, mode)
  BY ReserveEvident, Zenon
<1> HIDE DEF b, s, o3
<1>4. BoxesGood(bs, b.id) /\ RegionGood(b.at) /\ Clear(scene, b.at)
  BY <1>2
<1>5. AllClear(scene, Append(bs, b))
  BY <1>2, <1>4, ClearAppended, Zenon
<1>6. Evident(s.o, mode) /\ AllClear(scene, s.boxes)
  BY <1>1, <1>3, <1>5
<1>7. StateFree(scene, mode, s)
  BY <1>6, Zenon DEF StateFree
<1> QED BY <1>7, Zenon DEF s

\* The options of a search of another depth.
LEMMA OptionsShape ==
  ASSUME cfg.ffb \in FfbOptions, NEW depth \in Int
  PROVE  /\ Options(depth).max \in Int /\ Options(depth).mode = cfg.ffb.mode
         /\ Options(depth).mode \in {"linear", "virtual", "nodes"}
<1>1. cfg.ffb = [mode |-> cfg.ffb.mode, max |-> cfg.ffb.max, start |-> cfg.ffb.start,
                 skip |-> cfg.ffb.skip, sched |-> cfg.ffb.sched,
                 splitReserved |-> cfg.ffb.splitReserved, splitUnknown |-> cfg.ffb.splitUnknown,
                 rejectSeed |-> cfg.ffb.rejectSeed, materialise |-> cfg.ffb.materialise,
                 deadline |-> cfg.ffb.deadline]
      /\ cfg.ffb.mode \in {"linear", "virtual", "nodes"}
  BY DEF FfbOptions
<1> DEFINE f == cfg.ffb
<1> HIDE DEF f
<1>2. Options(depth) = [f EXCEPT !.max = depth]
  BY Zenon DEF Options, f
<1>3. f = [mode |-> f.mode, max |-> f.max, start |-> f.start,
                 skip |-> f.skip, sched |-> f.sched,
                 splitReserved |-> f.splitReserved, splitUnknown |-> f.splitUnknown,
                 rejectSeed |-> f.rejectSeed, materialise |-> f.materialise,
                 deadline |-> f.deadline]
  BY <1>1, Zenon DEF f
<1>4. Options(depth).max = depth /\ Options(depth).mode = f.mode
  BY <1>2, <1>3
<1> QED BY <1>1, <1>4, Zenon DEF f

\* What create_box does: a refusal before the search, or what the search makes.
Refused(bs, o1, nid, s) == \E cool, a : s = State(FALSE, bs, o1, nid, cool, a)
Searched(bs, nid, a, seed, parent, root, s) ==
  \E cool : \/ a.found /\ s = Commit(bs, a.o, nid, cool, a, seed, parent, root)
           \/ s = State(FALSE, bs, a.o, nid, cool, a)

\* create_box refuses, or commits what a search found, or keeps what it missed.
LEMMA CreateCases ==
  ASSUME NEW bs, NEW o1, NEW nid, NEW cool, NEW seed, NEW parent, NEW root, NEW depth,
         NEW s \in CreateBox(bs, o1, nid, cool, seed, parent, root, depth)
  PROVE  \/ Refused(bs, o1, nid, s)
         \/ \E a \in Find(o1, occ, seed, Options(depth)) : Searched(bs, nid, a, seed, parent, root, s)
<1> DEFINE dom == IF CoolingOn THEN LeafContaining(o1, seed) ELSE NoNode
           count == Len(bs)
           cool1 == CheckedCooling(cool, dom, count)
           step(a) == IF a.found THEN Commit(bs, a.o, nid, cool1, a, seed, parent, root)
                      ELSE State(FALSE, bs, a.o, nid, RecordCooling(cool1, a, dom, depth, count), a)
           covered == parent >= 0 /\ Covered(bs, seed)
           cold == InCooling(cool1, dom, depth, count)
<1>1. s \in IF covered THEN {State(FALSE, bs, o1, nid, cool, Refusal(o1, 0))}
            ELSE IF cold THEN {State(FALSE, bs, o1, nid, cool1, Refusal(o1, 0))}
            ELSE {step(a) : a \in Find(o1, occ, seed, Options(depth))}
  BY Zenon DEF CreateBox
<1> HIDE DEF covered, cold
<1>2. CASE covered
  BY <1>1, <1>2, Zenon DEF Refused
<1>3. CASE ~covered /\ cold
  BY <1>1, <1>3, Zenon DEF Refused
<1>4. CASE ~covered /\ ~cold
  <2> HIDE DEF step
  <2>1. s \in {step(a) : a \in Find(o1, occ, seed, Options(depth))}
    BY <1>1, <1>4, Zenon
  <2>2. PICK a \in Find(o1, occ, seed, Options(depth)) : s = step(a)
    BY <2>1, Zenon
  <2>3. CASE a.found
    BY <2>2, <2>3, Zenon DEF step, Searched
  <2>4. CASE ~a.found
    BY <2>2, <2>4, Zenon DEF step, Searched
  <2> QED BY <2>3, <2>4, Zenon
<1> QED BY <1>2, <1>3, <1>4, Zenon

\* create_box keeps the core.
LEMMA CreateGood ==
  ASSUME cfg.ffb \in FfbOptions, NEW bs, NEW o1, NEW nid, NEW tw, Core(bs, o1, nid, tw), NEW cool,
         NEW seed \in Units, NEW parent, NEW root, NEW depth \in Int,
         NEW s \in CreateBox(bs, o1, nid, cool, seed, parent, root, depth)
  PROVE  StateGood(bs, o1, nid, tw, s)
<1>1. TreeGood(o1) /\ nid \in Nat /\ nid >= nid
  BY DEF Core, BoxesGood
<1>2. CASE Refused(bs, o1, nid, s)
  <2>1. PICK cool1, a : s = State(FALSE, bs, o1, nid, cool1, a)
    BY <1>2, Zenon DEF Refused
  <2>2. Extends(o1, o1)
    BY ExtendsItself, Zenon
  <2>3. StateGood(bs, o1, nid, tw, State(FALSE, bs, o1, nid, cool1, a))
    BY <1>1, <2>2, KeptGood, Zenon
  <2> QED BY <2>1, <2>3, Zenon
<1>3. CASE \E a \in Find(o1, occ, seed, Options(depth)) : Searched(bs, nid, a, seed, parent, root, s)
  <2> DEFINE opt == Options(depth)
  <2>1. PICK a \in Find(o1, occ, seed, opt) : Searched(bs, nid, a, seed, parent, root, s)
    BY <1>3, Zenon
  <2>2. PICK cool1 :
             \/ a.found /\ s = Commit(bs, a.o, nid, cool1, a, seed, parent, root)
             \/ s = State(FALSE, bs, a.o, nid, cool1, a)
    BY <2>1, Zenon DEF Searched
  <2>3. opt.max \in Int /\ opt.mode \in {"linear", "virtual", "nodes"}
    BY OptionsShape, Zenon
  <2> HIDE DEF opt
  <2>4. AnswerGood(o1, a)
    BY <1>1, <2>3, FindGood, Zenon
  <2>5. TreeGood(a.o) /\ Extends(o1, a.o)
    BY <2>4, Zenon DEF AnswerGood
  <2>6. CASE a.found /\ s = Commit(bs, a.o, nid, cool1, a, seed, parent, root)
    <3>1. RegionGood(a.at) /\ OnNode(a.o, a.node, a.at)
      <4>1. \E q \in Units, d \in 0..Res : a.at = Cell(q, d)
        BY <2>4, <2>6, Zenon DEF AnswerGood
      <4>2. RegionGood(a.at)
        BY <4>1, CellRegion, Zenon
      <4> QED BY <4>2, <2>4, <2>6, Zenon DEF AnswerGood, OnNode
    <3>2. StateGood(bs, o1, nid, tw, Commit(bs, a.o, nid, cool1, a, seed, parent, root))
      BY <2>5, <3>1, CommitGood, Zenon
    <3> QED BY <2>6, <3>2, Zenon
  <2>7. CASE s = State(FALSE, bs, a.o, nid, cool1, a)
    <3>1. StateGood(bs, o1, nid, tw, State(FALSE, bs, a.o, nid, cool1, a))
      BY <1>1, <2>5, KeptGood, Zenon
    <3> QED BY <2>7, <3>1, Zenon
  <2> QED BY <2>2, <2>6, <2>7, Zenon
<1>4. \/ Refused(bs, o1, nid, s)
      \/ \E a \in Find(o1, occ, seed, Options(depth)) : Searched(bs, nid, a, seed, parent, root, s)
  BY CreateCases, Zenon
<1> QED BY <1>2, <1>3, <1>4, Zenon

\* create_box keeps all boxes free.
LEMMA CreateFree ==
  ASSUME cfg.ffb \in FfbOptions, occ \in SUBSET Int, NEW bs, NEW o1, NEW nid, NEW tw,
         Core(bs, o1, nid, tw), Evident(o1, cfg.ffb.mode), AllClear(occ, bs), NEW cool,
         NEW seed \in Units, NEW parent, NEW root, NEW depth \in Int,
         NEW s \in CreateBox(bs, o1, nid, cool, seed, parent, root, depth)
  PROVE  StateFree(occ, cfg.ffb.mode, s)
<1> DEFINE mode == cfg.ffb.mode
<1>1. TreeGood(o1) /\ BoxesGood(bs, nid)
  BY Zenon DEF Core
<1>2. CASE Refused(bs, o1, nid, s)
  <2>1. s.boxes = bs /\ s.o = o1
    BY <1>2 DEF State, Refused
  <2> QED BY <2>1, Zenon DEF StateFree
<1>3. CASE \E a \in Find(o1, occ, seed, Options(depth)) : Searched(bs, nid, a, seed, parent, root, s)
  <2> DEFINE opt == Options(depth)
  <2>1. PICK a \in Find(o1, occ, seed, opt) : Searched(bs, nid, a, seed, parent, root, s)
    BY <1>3, Zenon
  <2>2. PICK cool1 :
             \/ a.found /\ s = Commit(bs, a.o, nid, cool1, a, seed, parent, root)
             \/ s = State(FALSE, bs, a.o, nid, cool1, a)
    BY <2>1, Zenon DEF Searched
  <2>3. opt.max \in Int /\ opt.mode \in {"linear", "virtual", "nodes"} /\ opt.mode = mode
    BY OptionsShape, Zenon
  <2> HIDE DEF opt
  <2>4. Evident(o1, opt.mode)
    BY <2>3, Zenon
  <2>5. AnswerGood(o1, a) /\ AnswerFree(occ, opt.mode, a)
    BY <1>1, <2>3, <2>4, FindGood, FindFree, Zenon
  <2>6. TreeGood(a.o) /\ Evident(a.o, mode) /\ (a.found => Clear(occ, a.at))
    BY <2>3, <2>5, Zenon DEF AnswerGood, AnswerFree
  <2>7. CASE a.found /\ s = Commit(bs, a.o, nid, cool1, a, seed, parent, root)
    <3>1. RegionGood(a.at) /\ Clear(occ, a.at)
      <4>1. \E q \in Units, d \in 0..Res : a.at = Cell(q, d)
        BY <2>5, <2>7, Zenon DEF AnswerGood
      <4> QED BY <2>6, <2>7, <4>1, CellRegion, Zenon
    <3>2. StateFree(occ, mode, Commit(bs, a.o, nid, cool1, a, seed, parent, root))
      BY <1>1, <2>6, <3>1, CommitFree, Zenon
    <3> QED BY <2>7, <3>2, Zenon
  <2>8. CASE s = State(FALSE, bs, a.o, nid, cool1, a)
    <3>1. s.boxes = bs /\ s.o = a.o
      BY <2>8 DEF State
    <3> QED BY <3>1, <2>6, Zenon DEF StateFree
  <2> QED BY <2>2, <2>7, <2>8, Zenon
<1>4. \/ Refused(bs, o1, nid, s)
      \/ \E a \in Find(o1, occ, seed, Options(depth)) : Searched(bs, nid, a, seed, parent, root, s)
  BY CreateCases, Zenon
<1> QED BY <1>2, <1>3, <1>4, Zenon

-----------------------------------------------------------------------------
(* Steps that take over what create_box and commit_box leave.              *)

RegionsKept(o1, o2) ==
  Nodes(o1) \subseteq Nodes(o2) /\ \A n \in Nodes(o1) : Region(o2, n) = Region(o1, n)

\* The tree is still the whole line's when regions are kept.
LEMMA RootKept ==
  ASSUME NEW o1, NEW o2, TreeGood(o1), RegionsKept(o1, o2), Whole(o1)
  PROVE  Whole(o2)
BY Zenon DEF TreeGood, RegionsKept, Whole

\* A box stays on its node when regions are kept.
LEMMA OnNodeStays ==
  ASSUME NEW o1, NEW o2, RegionsKept(o1, o2), NEW n, NEW r, OnNode(o1, n, r)
  PROVE  OnNode(o2, n, r)
BY Zenon DEF RegionsKept, OnNode

\* Taking over a state that keeps the core.
LEMMA TakeGood ==
  ASSUME NEW s, Core(boxes, o, nextId, twice), StateGood(boxes, o, nextId, twice, s), Whole(o), Take(s)
  PROVE  /\ Core(boxes', o', nextId', twice') /\ Whole(o') /\ RegionsKept(o, o')
         /\ Len(boxes') <= Len(boxes) + 1
<1> PICK bs2, o2, nid2, tw2 : bs2 = boxes' /\ o2 = o' /\ nid2 = nextId' /\ tw2 = twice'
  OBVIOUS
<1>1. bs2 = s.boxes /\ o2 = s.o /\ nid2 = s.nextId
  BY DEF Take
<1>2. tw2 = twice \cup Changed(o, s.o)
  BY DEF Take, Changed
<1>3. Core(bs2, o2, nid2, tw2) /\ Len(bs2) <= Len(boxes) + 1 /\ RegionsKept(o, o2)
  BY <1>1, <1>2 DEF StateGood, RegionsKept
<1>4. TreeGood(o)
  BY Zenon DEF Core
<1>5. Whole(o2)
  BY <1>3, <1>4, RootKept, Zenon
<1> QED BY <1>3, <1>5

CountsGood(f) == \A key \in DOMAIN f : f[key] \in Nat

\* The failures of a pair are a number.
LEMMA PairFailsGood ==
  ASSUME CountsGood(pairFail), NEW t
  PROVE  PairFails(t) \in Nat
BY DEF CountsGood, PairFails

\* They are after any result.
LEMMA PairedGood ==
  ASSUME CountsGood(pairFail), NEW t, NEW ok, NEW cap
  PROVE  CountsGood(Paired(t, ok, cap))
<1> DEFINE key == {t.root, t.target}
           v == Lowest({PairFails(t) + 1, MaxTreeDepth})
<1>1. v \in Nat
  <2>1. PairFails(t) + 1 \in Nat /\ MaxTreeDepth \in Nat
    BY PairFailsGood, DepthBounds
  <2> QED BY <2>1, LowestOfTwo
<1> HIDE DEF v, key
<1>2. CountsGood(Restrict(pairFail, DOMAIN pairFail \ {key}))
  BY DEF CountsGood, Restrict
<1>3. CountsGood(Put(pairFail, key, v))
  BY <1>1 DEF CountsGood, Put
<1>4. \/ Paired(t, ok, cap) = pairFail
      \/ Paired(t, ok, cap) = Restrict(pairFail, DOMAIN pairFail \ {key})
      \/ Paired(t, ok, cap) = Put(pairFail, key, v)
  BY Zenon DEF Paired, key, v
<1> QED BY <1>2, <1>3, <1>4, Zenon

\* What the assumption says of a configuration.
LEMMA ConfigGood ==
  ASSUME NEW c \in Configs
  PROVE  /\ c.ffb \in FfbOptions /\ c.depth \in Int /\ c.connectInc \in Int /\ c.connectMax \in Int
         /\ c.maxBoxes \in Nat /\ c.batch \in Nat /\ c.mergeRounds \in Nat
         /\ c.boot \in Int /\ c.boot <= c.maxBoxes
BY GrowthAssumption

\* The depth of a task is a number.
LEMMA TaskDepthGood ==
  ASSUME CountsGood(pairFail), cfg \in Configs, NEW t
  PROVE  TaskDepth(t) \in Int
<1>1. cfg.depth \in Int /\ cfg.connectInc \in Int /\ cfg.connectMax \in Int
  BY ConfigGood
<1>2. PairFails(t) \in Nat
  BY PairFailsGood
<1>3. Highest({cfg.depth, cfg.connectMax}) \in Int
  BY <1>1, HighestOfTwo
<1>4. cfg.depth + cfg.connectInc * PairFails(t) \in Int
  BY <1>1, <1>2
<1>5. Lowest({Highest({cfg.depth, cfg.connectMax}), cfg.depth + cfg.connectInc * PairFails(t)}) \in Int
  BY <1>3, <1>4, LowestOfTwo
<1> QED BY <1>1, <1>5, Zenon DEF TaskDepth

\* A task as the grower plans it.
TaskGood(t) ==
  /\ t = [seed |-> t.seed, parent |-> t.parent, root |-> t.root, target |-> t.target, dom |-> t.dom]
  /\ t.seed \in Units /\ t.dom = NoNode

\* A task that was made is one with its seed on the line.
LEMMA TaskShape ==
  ASSUME NEW q \in Units, NEW parent, NEW root, NEW target
  PROVE  TaskGood(Task(q, parent, root, target))
BY DEF Task, TaskGood

\* So are the tasks that connect components.
LEMMA ConnectTasksGood ==
  ASSUME NEW bs, NEW srcs, NEW t \in ConnectTasks(bs, srcs)
  PROVE  TaskGood(t)
<1> DEFINE apart(i, j) == /\ bs[i].root \in srcs
                          /\ bs[j].root # bs[i].root
                          /\ ~Joined(bs, bs[i].at, bs[j].at)
           towards(i, j) == {q \in OpenFaces(bs, i) :
                               (q > bs[i].at[2]) = (bs[j].at[1] > bs[i].at[2])}
           ones(i, j) == {Task(q, bs[i].id, bs[i].root, bs[j].root) : q \in towards(i, j)}
           some(i, j) == IF apart(i, j) THEN ones(i, j) ELSE {}
<1>1. t \in UNION {some(i, j) : i, j \in DOMAIN bs}
  BY DEF ConnectTasks
<1>2. \A i, j : towards(i, j) \subseteq Units
  BY Zenon DEF OpenFaces, FaceSeeds
<1> HIDE DEF apart, towards
<1>3. \A i, j : \A x \in ones(i, j) : TaskGood(x)
  BY <1>2, TaskShape, Zenon
<1> HIDE DEF ones
<1>4. \A i, j : \A x \in some(i, j) : TaskGood(x)
  BY <1>3, Zenon
<1> HIDE DEF some
<1>5. \E i, j \in DOMAIN bs : t \in some(i, j)
  BY <1>1
<1> QED BY <1>4, <1>5, Zenon

\* So are the tasks of the frontier.
LEMMA FrontierTasksGood ==
  ASSUME NEW bs, NEW t \in FrontierTasks(bs)
  PROVE  TaskGood(t)
<1> DEFINE some(i) == {Task(q, bs[i].id, bs[i].root, NoTarget) : q \in OpenFaces(bs, i)}
<1>1. t \in UNION {some(i) : i \in DOMAIN bs}
  BY Zenon DEF FrontierTasks
<1>2. \A i : OpenFaces(bs, i) \subseteq Units
  BY Zenon DEF OpenFaces, FaceSeeds
<1>3. \A i : \A x \in some(i) : TaskGood(x)
  BY <1>2, TaskShape, Zenon
<1> HIDE DEF some
<1> QED BY <1>1, <1>3, Zenon

\* So are all tasks.
LEMMA TasksGood ==
  ASSUME NEW bs, NEW t \in Tasks(bs)
  PROVE  TaskGood(t)
<1>1. t \in FrontierTasks(bs) \/ t \in ConnectTasks(bs, RootsOf(bs))
  BY Zenon DEF Tasks
<1> QED BY <1>1, FrontierTasksGood, ConnectTasksGood, Zenon

-----------------------------------------------------------------------------
(* The consolidator: boxes that grow and boxes that go.                    *)

\* A sequence without its j-th element.
LEMMA RemoveAtShape ==
  ASSUME NEW s, IsSeq(s), NEW j \in 1..Len(s)
  PROVE  /\ IsSeq(RemoveAt(s, j)) /\ Len(RemoveAt(s, j)) = Len(s) - 1
         /\ \A i \in 1..Len(s) - 1 : RemoveAt(s, j)[i] = s[IF i < j THEN i ELSE i + 1]
<1> DEFINE n == Len(s)
           R == Range(s)
           left == SubSeq(s, 1, j - 1)
           right == SubSeq(s, j + 1, n)
<1>1. n \in Nat /\ s \in Seq(R) /\ \A i \in 1..n : s[i] \in R
  BY SeqShape, Zenon DEF IsSeq
<1> HIDE DEF n, R
<1>j. j \in 1..n /\ j \in Int
  BY <1>1 DEF n
<1>2. /\ left \in Seq(R) /\ Len(left) = j - 1
      /\ \A i \in 1..j - 1 : left[i] = s[i]
  <2>1. \A i \in 1..j - 1 : s[i] \in R
    BY <1>1, <1>j
  <2>2. 1 \in Int /\ j - 1 \in Int
    BY <1>j
  <2>3. /\ left \in Seq(R)
        /\ Len(left) = IF 1 <= j - 1 THEN j - 1 - 1 + 1 ELSE 0
        /\ \A i \in 1..j - 1 - 1 + 1 : left[i] = s[1 + i - 1]
    BY <2>1, <2>2, SubSeqProperties
  <2> HIDE DEF left
  <2> QED BY <2>3, <1>j
<1>3. /\ right \in Seq(R) /\ Len(right) = n - j
      /\ \A i \in 1..n - j : right[i] = s[j + i]
  <2>1. \A i \in j + 1..n : s[i] \in R
    BY <1>1, <1>j
  <2>2. j + 1 \in Int /\ n \in Int
    BY <1>j, <1>1
  <2>3. /\ right \in Seq(R)
        /\ Len(right) = IF j + 1 <= n THEN n - (j + 1) + 1 ELSE 0
        /\ \A i \in 1..n - (j + 1) + 1 : right[i] = s[j + 1 + i - 1]
    BY <2>1, <2>2, SubSeqProperties
  <2> HIDE DEF right
  <2>4. j + 1 <= n \/ n = j
    BY <1>j, <1>1
  <2>5. Len(right) = n - j
    BY <2>3, <2>4, <1>j, <1>1
  <2>6. \A i \in 1..n - j : right[i] = s[j + i]
    <3>1. SUFFICES ASSUME NEW i \in 1..n - j
                   PROVE  right[i] = s[j + i]
      BY Zenon
    <3>2. i \in 1..n - (j + 1) + 1 /\ j + 1 + i - 1 = j + i
      BY <1>j, <1>1
    <3> QED BY <2>3, <3>2
  <2> QED BY <2>3, <2>5, <2>6
<1>4. RemoveAt(s, j) = left \o right
  BY Zenon DEF RemoveAt, n
<1> HIDE DEF left, right
<1>5. left \o right \in Seq(R) /\ Len(left \o right) = n - 1
      /\ \A i \in 1..n - 1 : (left \o right)[i] = s[IF i < j THEN i ELSE i + 1]
  <2>1. /\ left \o right \in Seq(R) /\ Len(left \o right) = Len(left) + Len(right)
        /\ \A i \in 1..Len(left) : (left \o right)[i] = left[i]
        /\ \A i \in 1..Len(right) : (left \o right)[Len(left) + i] = right[i]
    <3>1. IsSeq(left) /\ IsSeq(right) /\ left \o right \in Seq(R)
      BY <1>2, <1>3, SeqTyped
    <3> QED BY <3>1, SeqConcat
  <2>2. Len(left \o right) = n - 1
    BY <2>1, <1>1, <1>2, <1>3, <1>j
  <2>3. SUFFICES ASSUME NEW i \in 1..n - 1
                 PROVE  (left \o right)[i] = s[IF i < j THEN i ELSE i + 1]
    BY <2>1, <2>2, Zenon
  <2>4. CASE i < j
    <3>1. i \in 1..Len(left) /\ i \in 1..j - 1
      BY <2>4, <1>1, <1>2, <1>j
    <3> QED BY <2>1, <2>4, <1>2, <3>1, Zenon
  <2>5. CASE ~(i < j)
    <3> PICK m : m = i + 1 - j
      OBVIOUS
    <3>1. m \in 1..Len(right) /\ m \in 1..n - j /\ Len(left) + m = i /\ j + m = i + 1
      BY <2>5, <1>1, <1>2, <1>3, <1>j
    <3>2. (left \o right)[Len(left) + m] = right[m] /\ right[m] = s[j + m]
      BY <3>1, <2>1, <1>3, Zenon
    <3> QED BY <3>1, <3>2, <2>5
  <2> QED BY <2>4, <2>5, Zenon
<1>6. IsSeq(left \o right)
  BY <1>5, SeqTyped, Zenon
<1> QED BY <1>4, <1>5, <1>6 DEF n

\* bs2 is bs without its box j.
Without(bs, j, bs2) ==
  /\ IsSeq(bs2) /\ Len(bs2) = Len(bs) - 1
  /\ \A i \in DOMAIN bs2 : \E k \in DOMAIN bs \ {j} : bs2[i] = bs[k]
  /\ \A k \in DOMAIN bs \ {j} : \E i \in DOMAIN bs2 : bs2[i] = bs[k]

\* Boxes without one of them.
LEMMA Erased ==
  ASSUME NEW bs, NEW nid, BoxesGood(bs, nid), NEW j \in DOMAIN bs
  PROVE  BoxesGood(RemoveAt(bs, j), nid) /\ Without(bs, j, RemoveAt(bs, j))
<1> DEFINE n == Len(bs)
           bs2 == RemoveAt(bs, j)
<1>1. IsSeq(bs) /\ n \in Nat /\ DOMAIN bs = 1..n
  BY SeqShape, Zenon DEF BoxesGood
<1>2. j \in 1..n
  BY <1>1, Zenon
<1>3. IsSeq(bs2) /\ Len(bs2) = n - 1
      /\ \A i \in 1..n - 1 : bs2[i] = bs[IF i < j THEN i ELSE i + 1]
  BY <1>1, <1>2, RemoveAtShape
<1> HIDE DEF bs2, n
<1>4. DOMAIN bs2 = 1..n - 1
  BY <1>3, SeqShape
<1>5. \A i \in DOMAIN bs2 : (IF i < j THEN i ELSE i + 1) \in DOMAIN bs \ {j}
  BY <1>1, <1>2, <1>4
<1>6. \A k \in DOMAIN bs \ {j} :
        \E i \in DOMAIN bs2 : (IF i < j THEN i ELSE i + 1) = k
  <2>1. SUFFICES ASSUME NEW k \in DOMAIN bs \ {j}
                 PROVE  \E i \in DOMAIN bs2 : (IF i < j THEN i ELSE i + 1) = k
    BY Zenon
  <2>2. CASE k < j
    BY <2>2, <1>1, <1>2, <1>4
  <2>3. CASE ~(k < j)
    <3>1. k - 1 \in DOMAIN bs2 /\ (IF k - 1 < j THEN k - 1 ELSE k - 1 + 1) = k
      BY <2>3, <1>1, <1>2, <1>4
    <3> QED BY <3>1, Zenon
  <2> QED BY <2>2, <2>3, Zenon
<1>7. Without(bs, j, bs2)
  <2>1. \A i \in DOMAIN bs2 : \E k \in DOMAIN bs \ {j} : bs2[i] = bs[k]
    BY <1>3, <1>4, <1>5, Zenon
  <2>2. \A k \in DOMAIN bs \ {j} : \E i \in DOMAIN bs2 : bs2[i] = bs[k]
    BY <1>3, <1>4, <1>6, Zenon
  <2> QED BY <1>3, <2>1, <2>2, Zenon DEF Without, n
<1>8. \A i \in DOMAIN bs2 : IsBox(bs2[i]) /\ RegionGood(bs2[i].at) /\ bs2[i].id \in 0..nid - 1
  <2>1. SUFFICES ASSUME NEW i \in DOMAIN bs2
                 PROVE  IsBox(bs2[i]) /\ RegionGood(bs2[i].at) /\ bs2[i].id \in 0..nid - 1
    BY Zenon
  <2>2. PICK k \in DOMAIN bs : bs2[i] = bs[k]
    BY <1>7, Zenon DEF Without
  <2> QED BY <2>2, Zenon DEF BoxesGood
<1>9. \A i, k \in DOMAIN bs2 : bs2[i].id = bs2[k].id => i = k
  <2>1. SUFFICES ASSUME NEW i \in DOMAIN bs2, NEW k \in DOMAIN bs2, bs2[i].id = bs2[k].id
                 PROVE  i = k
    BY Zenon
  <2> DEFINE pi == IF i < j THEN i ELSE i + 1
             pk == IF k < j THEN k ELSE k + 1
  <2>2. bs2[i] = bs[pi] /\ bs2[k] = bs[pk] /\ pi \in DOMAIN bs /\ pk \in DOMAIN bs
    BY <1>3, <1>4, <1>5, Zenon
  <2>3. pi = pk => i = k
    BY <1>1, <1>2, <1>4
  <2> HIDE DEF pi, pk
  <2>4. bs[pi].id = bs[pk].id
    BY <2>1, <2>2
  <2> QED BY <2>2, <2>3, <2>4, Zenon DEF BoxesGood
<1>10. BoxesGood(bs2, nid)
  BY <1>3, <1>8, <1>9, Zenon DEF BoxesGood
<1> QED BY <1>7, <1>10, Zenon DEF bs2

\* A release removes an id and its node from the two maps.
LEMMA ReleaseShape ==
  ASSUME NEW o1, TreeGood(o1), NEW b, b \in DOMAIN o1.nodeOf
  PROVE  LET o2 == ReleaseBox(o1, b) IN
         /\ o2.boxOf = Restrict(o1.boxOf, DOMAIN o1.boxOf \ {o1.nodeOf[b]})
         /\ o2.nodeOf = Restrict(o1.nodeOf, DOMAIN o1.nodeOf \ {b})
         /\ o2.tree = o1.tree /\ o2.rootEv = o1.rootEv /\ o2.store = o1.store /\ IsOracle(o2)
<1> DEFINE o2 == ReleaseBox(o1, b)
           f2 == Restrict(o1.boxOf, DOMAIN o1.boxOf \ {o1.nodeOf[b]})
           g2 == Restrict(o1.nodeOf, DOMAIN o1.nodeOf \ {b})
<1>1. o1 = [tree |-> o1.tree, boxOf |-> o1.boxOf, nodeOf |-> o1.nodeOf,
            rootEv |-> o1.rootEv, store |-> o1.store]
  BY Zenon DEF TreeGood, IsOracle
<1>2. o2 = [o1 EXCEPT !.boxOf = f2, !.nodeOf = g2]
  BY Zenon DEF ReleaseBox
<1> HIDE DEF f2, g2
<1>3. o2 = [tree |-> o1.tree, boxOf |-> f2, nodeOf |-> g2, rootEv |-> o1.rootEv, store |-> o1.store]
  BY <1>1, <1>2
<1> HIDE DEF o2
<1>4. /\ o2.boxOf = f2 /\ o2.nodeOf = g2
      /\ o2.tree = o1.tree /\ o2.rootEv = o1.rootEv /\ o2.store = o1.store /\ IsOracle(o2)
  BY <1>3 DEF IsOracle
<1> QED BY <1>4, Zenon DEF o2, f2, g2

\* A map on fewer keys.
LEMMA RestrictShape ==
  ASSUME NEW f, NEW S, S \subseteq DOMAIN f
  PROVE  DOMAIN Restrict(f, S) = S /\ \A x \in S : Restrict(f, S)[x] = f[x]
BY DEF Restrict

SameLand(o1, o2) == o2.tree = o1.tree /\ o2.rootEv = o1.rootEv /\ o2.store = o1.store

\* A box that goes takes its reservation with it.
LEMMA EraseGood ==
  ASSUME NEW bs, NEW o1, NEW nid, NEW tw, Core(bs, o1, nid, tw), NEW j \in DOMAIN bs
  PROVE  /\ Core(RemoveAt(bs, j), ReleaseBox(o1, bs[j].id), nid, tw)
         /\ SameLand(o1, ReleaseBox(o1, bs[j].id))
<1> DEFINE b == bs[j].id
           bs2 == RemoveAt(bs, j)
           o2 == ReleaseBox(o1, b)
           f == o1.boxOf
           g == o1.nodeOf
           f2 == o2.boxOf
           g2 == o2.nodeOf
<1>1. /\ TreeGood(o1) /\ BoxesGood(bs, nid) /\ MapsAgree(o1, nid, tw) /\ Reserved(bs, o1, tw)
      /\ \A i \in DOMAIN bs : OnNode(o1, bs[i].node, bs[i].at)
  BY Zenon DEF Core
<1>2. BoxesGood(bs2, nid) /\ Without(bs, j, bs2)
  BY <1>1, Erased, Zenon
<1>3. /\ \A i \in DOMAIN bs2 : \E k \in DOMAIN bs \ {j} : bs2[i] = bs[k]
      /\ \A k \in DOMAIN bs \ {j} : \E i \in DOMAIN bs2 : bs2[i] = bs[k]
  BY <1>2, Zenon DEF Without
<1>4. /\ DOMAIN f \subseteq Nodes(o1) /\ DOMAIN g \subseteq 0..nid - 1
      /\ \A m \in DOMAIN f : f[m] \in DOMAIN g /\ g[f[m]] = m
      /\ \A x \in DOMAIN g : g[x] \notin tw => g[x] \in DOMAIN f /\ f[g[x]] = x
  BY <1>1, Zenon DEF MapsAgree
<1>5. /\ \A m \in DOMAIN f : \E i \in DOMAIN bs : bs[i].id = f[m] /\ Inside(Region(o1, m), bs[i].at)
      /\ \A i \in DOMAIN bs : (bs[i].node # NoNode /\ bs[i].node \notin tw) =>
           bs[i].node \in DOMAIN f /\ f[bs[i].node] = bs[i].id
  BY <1>1, Zenon DEF Reserved
<1>6. \A i, k \in DOMAIN bs : bs[i].id = bs[k].id => i = k
  BY <1>1, Zenon DEF BoxesGood
<1>7. /\ SameLand(o1, o2) /\ IsOracle(o2)
      /\ \A m \in DOMAIN f2 : m \in DOMAIN f /\ f2[m] = f[m] /\ f[m] # b
      /\ \A x \in DOMAIN g2 : x \in DOMAIN g /\ g2[x] = g[x] /\ x # b
      /\ \A m \in DOMAIN f : (m \in DOMAIN f2 \/ (b \in DOMAIN g /\ g[b] = m))
      /\ \A x \in DOMAIN g : (x \in DOMAIN g2 \/ x = b)
  <2>1. CASE b \notin DOMAIN g
    <3>1. o2 = o1
      BY <2>1, Zenon DEF ReleaseBox
    <3>2. f2 = f /\ g2 = g
      BY <3>1, Zenon
    <3>3. SameLand(o1, o2) /\ IsOracle(o2)
      BY <1>1, <3>1, Zenon DEF SameLand, TreeGood
    <3> HIDE DEF f, g, f2, g2, b, o2
    <3>4. \A m \in DOMAIN f : f[m] # b
      BY <1>4, <2>1, Zenon
    <3> QED BY <2>1, <3>2, <3>3, <3>4, Zenon
  <2>2. CASE b \in DOMAIN g
    <3> DEFINE Sf == DOMAIN f \ {g[b]}
               Sg == DOMAIN g \ {b}
    <3>1. f2 = Restrict(f, Sf) /\ g2 = Restrict(g, Sg) /\ SameLand(o1, o2) /\ IsOracle(o2)
      BY <1>1, <2>2, ReleaseShape DEF SameLand
    <3> HIDE DEF f, g, f2, g2, b, o2
    <3>2. DOMAIN Restrict(f, Sf) = Sf /\ \A x \in Sf : Restrict(f, Sf)[x] = f[x]
      BY RestrictShape
    <3>3. DOMAIN Restrict(g, Sg) = Sg /\ \A x \in Sg : Restrict(g, Sg)[x] = g[x]
      BY RestrictShape
    <3>4. \A m \in Sf : f[m] # b
      BY <1>4, Zenon
    <3>5. /\ DOMAIN f2 = Sf /\ DOMAIN g2 = Sg
          /\ \A x \in Sf : f2[x] = f[x]
          /\ \A x \in Sg : g2[x] = g[x]
      BY <3>1, <3>2, <3>3
    <3> QED BY <2>2, <3>1, <3>4, <3>5, Zenon
  <2> QED BY <2>1, <2>2, Zenon
<1>8. /\ TreeGood(o2) /\ Nodes(o2) = Nodes(o1)
      /\ \A m : Region(o2, m) = Region(o1, m)
  BY <1>1, <1>7, SameTree, Zenon DEF SameLand, Nodes, Region
<1>9. \A i \in DOMAIN bs2 : OnNode(o2, bs2[i].node, bs2[i].at)
  <2>1. SUFFICES ASSUME NEW i \in DOMAIN bs2
                 PROVE  OnNode(o2, bs2[i].node, bs2[i].at)
    BY Zenon
  <2>2. PICK k \in DOMAIN bs : bs2[i] = bs[k]
    BY <1>3, Zenon
  <2>3. OnNode(o1, bs2[i].node, bs2[i].at)
    BY <1>1, <2>2, Zenon
  <2> QED BY <1>8, <2>3, Zenon DEF OnNode
<1> HIDE DEF b, bs2, o2, f, g, f2, g2
<1>10. MapsAgree(o2, nid, tw)
  <2>1. DOMAIN f2 \subseteq Nodes(o2) /\ DOMAIN g2 \subseteq 0..nid - 1
    BY <1>4, <1>7, <1>8, Zenon
  <2>2. \A m \in DOMAIN f2 : f2[m] \in DOMAIN g2 /\ g2[f2[m]] = m
    <3>1. SUFFICES ASSUME NEW m \in DOMAIN f2
                   PROVE  f2[m] \in DOMAIN g2 /\ g2[f2[m]] = m
      BY Zenon
    <3>2. m \in DOMAIN f /\ f2[m] = f[m] /\ f[m] # b
      BY <1>7, Zenon
    <3>3. f[m] \in DOMAIN g /\ g[f[m]] = m
      BY <1>4, <3>2, Zenon
    <3>4. f[m] \in DOMAIN g2 /\ g2[f[m]] = g[f[m]]
      BY <1>7, <3>2, <3>3, Zenon
    <3> QED BY <3>2, <3>3, <3>4
  <2>3. \A x \in DOMAIN g2 : g2[x] \notin tw => g2[x] \in DOMAIN f2 /\ f2[g2[x]] = x
    <3>1. SUFFICES ASSUME NEW x \in DOMAIN g2, g2[x] \notin tw
                   PROVE  g2[x] \in DOMAIN f2 /\ f2[g2[x]] = x
      BY Zenon
    <3>2. x \in DOMAIN g /\ g2[x] = g[x] /\ x # b
      BY <1>7, Zenon
    <3>3. g[x] \in DOMAIN f /\ f[g[x]] = x /\ g[x] \notin tw
      BY <1>4, <3>1, <3>2, Zenon
    <3>4. ~(b \in DOMAIN g /\ g[b] = g[x])
      BY <1>4, <3>2, <3>3, Zenon
    <3>5. g[x] \in DOMAIN f2 /\ f2[g[x]] = f[g[x]]
      BY <1>7, <3>3, <3>4, Zenon
    <3> QED BY <3>2, <3>3, <3>5
  <2> QED BY <2>1, <2>2, <2>3, Zenon DEF MapsAgree, f2, g2
<1>11. Reserved(bs2, o2, tw)
  <2>1. \A m \in DOMAIN f2 : \E i \in DOMAIN bs2 : bs2[i].id = f2[m] /\ Inside(Region(o2, m), bs2[i].at)
    <3>1. SUFFICES ASSUME NEW m \in DOMAIN f2
                   PROVE  \E i \in DOMAIN bs2 : bs2[i].id = f2[m] /\ Inside(Region(o2, m), bs2[i].at)
      BY Zenon
    <3>2. m \in DOMAIN f /\ f2[m] = f[m] /\ f[m] # b /\ Region(o2, m) = Region(o1, m)
      BY <1>7, <1>8, Zenon
    <3>3. PICK k \in DOMAIN bs : bs[k].id = f[m] /\ Inside(Region(o1, m), bs[k].at)
      BY <1>5, <3>2, Zenon
    <3>4. k # j
      BY <3>2, <3>3, Zenon DEF b
    <3>5. PICK i \in DOMAIN bs2 : bs2[i] = bs[k]
      BY <1>3, <3>4, Zenon
    <3>6. bs2[i].id = f2[m] /\ Inside(Region(o2, m), bs2[i].at)
      BY <3>2, <3>3, <3>5
    <3> QED BY <3>6, Zenon
  <2>2. \A i \in DOMAIN bs2 : bs2[i].node # NoNode /\ bs2[i].node \notin tw =>
          bs2[i].node \in DOMAIN f2 /\ f2[bs2[i].node] = bs2[i].id
    <3>1. SUFFICES ASSUME NEW i \in DOMAIN bs2, bs2[i].node # NoNode, bs2[i].node \notin tw
                   PROVE  bs2[i].node \in DOMAIN f2 /\ f2[bs2[i].node] = bs2[i].id
      BY Zenon
    <3>2. PICK k \in DOMAIN bs \ {j} : bs2[i] = bs[k]
      BY <1>3, Zenon
    <3> DEFINE n == bs[k].node
    <3>3. n \notin tw /\ n \in DOMAIN f /\ f[n] = bs[k].id
      BY <1>5, <3>1, <3>2, Zenon
    <3>4. bs[k].id # b
      BY <1>6, <3>2, Zenon DEF b
    <3>5. ~(b \in DOMAIN g /\ g[b] = n)
      BY <1>4, <3>3, <3>4, Zenon
    <3>6. n \in DOMAIN f2 /\ f2[n] = f[n]
      BY <1>7, <3>3, <3>5, Zenon
    <3> QED BY <3>2, <3>3, <3>6
  <2> QED BY <2>1, <2>2, Zenon DEF Reserved, f2
<1>12. Core(bs2, o2, nid, tw)
  BY <1>2, <1>8, <1>9, <1>10, <1>11, Zenon DEF Core
<1> QED BY <1>7, <1>12, Zenon DEF b, bs2, o2

\* The hull of two regions; of two that touch, it holds no more than they do.
LEMMA HullGood ==
  ASSUME NEW r, NEW s, RegionGood(r), RegionGood(s)
  PROVE  /\ RegionGood(Hull(r, s)) /\ Inside(r, Hull(r, s))
         /\ Touching(r, s) => \A u \in Int : Within(u, Hull(r, s)) <=> Within(u, r) \/ Within(u, s)
<1> DEFINE h == Hull(r, s)
           lo == Lowest({r[1], s[1]})
           hi == Highest({r[2], s[2]})
<1>1. /\ r[1] \in Units /\ r[2] \in Units /\ r[1] <= r[2]
      /\ s[1] \in Units /\ s[2] \in Units /\ s[1] <= s[2]
  BY Zenon DEF RegionGood
<1>2. Units \subseteq Int
  BY DepthBounds, PowerOfTwo DEF Units
<1>3. lo = IF r[1] <= s[1] THEN r[1] ELSE s[1]
  BY <1>1, <1>2, LowestOfTwo
<1>4. hi = IF r[2] <= s[2] THEN s[2] ELSE r[2]
  BY <1>1, <1>2, HighestOfTwo
<1>5. h = <<lo, hi>>
  BY Zenon DEF Hull
<1> HIDE DEF lo, hi, h
<1>6. lo \in Units /\ hi \in Units /\ lo <= hi /\ lo <= r[1] /\ r[2] <= hi
  <2>1. r[1] \in Int /\ r[2] \in Int /\ s[1] \in Int /\ s[2] \in Int
    BY <1>1, <1>2, Zenon
  <2>2. lo <= r[1] /\ r[2] <= hi /\ lo <= hi
    BY <1>1, <1>3, <1>4, <2>1
  <2>3. (lo = r[1] \/ lo = s[1]) /\ (hi = r[2] \/ hi = s[2])
    BY <1>3, <1>4, Zenon
  <2>4. lo \in Units /\ hi \in Units
    BY <1>1, <2>3, Zenon
  <2> QED BY <2>2, <2>4, Zenon
<1>7. h[1] = lo /\ h[2] = hi
  BY <1>5
<1>8. RegionGood(h) /\ Inside(r, h)
  BY <1>5, <1>6, <1>7 DEF RegionGood, Inside
<1>9. ASSUME Touching(r, s), NEW u \in Int
      PROVE  Within(u, h) <=> Within(u, r) \/ Within(u, s)
  <2>1. /\ r[1] \in Int /\ r[2] \in Int /\ s[1] \in Int /\ s[2] \in Int
        /\ r[1] <= r[2] /\ s[1] <= s[2] /\ r[1] <= s[2] + 1 /\ s[1] <= r[2] + 1
    BY <1>1, <1>2, <1>9 DEF Touching
  <2>2. Within(u, h) <=> lo <= u /\ u <= hi
    BY <1>7, Zenon DEF Within
  <2>3. (lo <= u <=> r[1] <= u \/ s[1] <= u) /\ (u <= hi <=> u <= r[2] \/ u <= s[2])
    BY <2>1, <1>3, <1>4, <1>9
  <2>4. (lo <= u /\ u <= hi) <=> ((r[1] <= u /\ u <= r[2]) \/ (s[1] <= u /\ u <= s[2]))
    BY <2>1, <2>3, <1>9
  <2> QED BY <2>2, <2>4, Zenon DEF Within
<1> QED BY <1>8, <1>9, Zenon DEF h

\* A box that grows forgets its node.
Wider(bs, i, r) == [bs EXCEPT ![i] = [bs[i] EXCEPT !.at = r, !.node = NoNode]]

\* Boxes of which one was made wider.
LEMMA WiderShape ==
  ASSUME NEW bs, NEW nid, BoxesGood(bs, nid), NEW i \in DOMAIN bs, NEW r, RegionGood(r)
  PROVE  /\ BoxesGood(Wider(bs, i, r), nid) /\ DOMAIN Wider(bs, i, r) = DOMAIN bs
         /\ Len(Wider(bs, i, r)) = Len(bs)
         /\ Wider(bs, i, r)[i].at = r /\ Wider(bs, i, r)[i].node = NoNode
         /\ \A k \in DOMAIN bs : Wider(bs, i, r)[k].id = bs[k].id
         /\ \A k \in DOMAIN bs : k # i => Wider(bs, i, r)[k] = bs[k]
<1> DEFINE b == bs[i]
           b2 == [b EXCEPT !.at = r, !.node = NoNode]
           bs2 == Wider(bs, i, r)
           n == Len(bs)
<1>1. /\ IsSeq(bs) /\ n \in Nat /\ DOMAIN bs = 1..n
      /\ \A k \in DOMAIN bs : IsBox(bs[k]) /\ RegionGood(bs[k].at) /\ bs[k].id \in 0..nid - 1
      /\ \A k, l \in DOMAIN bs : bs[k].id = bs[l].id => k = l
  BY SeqShape, Zenon DEF BoxesGood
<1>2. b = [id |-> b.id, node |-> b.node, at |-> b.at, seed |-> b.seed,
           parent |-> b.parent, root |-> b.root]
  BY <1>1, Zenon DEF IsBox
<1> HIDE DEF b
<1>3. b2 = [id |-> b.id, node |-> NoNode, at |-> r, seed |-> b.seed,
            parent |-> b.parent, root |-> b.root]
  <2>1. PICK c : c = [b EXCEPT !.at = r]
    OBVIOUS
  <2>2. c = [id |-> b.id, node |-> b.node, at |-> r, seed |-> b.seed,
             parent |-> b.parent, root |-> b.root]
    BY <1>2, <2>1
  <2>3. b2 = [c EXCEPT !.node = NoNode]
    BY <2>1
  <2> QED BY <2>2, <2>3
<1>4. b2.id = b.id /\ b2.at = r /\ b2.node = NoNode /\ IsBox(b2)
  BY <1>3 DEF IsBox
<1>5. bs2 = [bs EXCEPT ![i] = b2]
  BY Zenon DEF Wider, b
<1> HIDE DEF b2, bs2, n
<1>6. DOMAIN bs2 = 1..n /\ bs2 = [k \in 1..n |-> bs2[k]]
  BY <1>1, <1>5
<1>7. bs2[i] = b2 /\ \A k \in DOMAIN bs : k # i => bs2[k] = bs[k]
  BY <1>5
<1>8. IsSeq(bs2) /\ Len(bs2) = n
  BY <1>1, <1>6, SeqFunction
<1>9. b.id = bs[i].id
  BY Zenon DEF b
<1>10. \A k \in DOMAIN bs : bs2[k].id = bs[k].id /\ IsBox(bs2[k]) /\ RegionGood(bs2[k].at)
  <2>1. SUFFICES ASSUME NEW k \in DOMAIN bs
                 PROVE  bs2[k].id = bs[k].id /\ IsBox(bs2[k]) /\ RegionGood(bs2[k].at)
    BY Zenon
  <2>2. CASE k = i
    BY <2>2, <1>4, <1>7, <1>9
  <2>3. CASE k # i
    BY <2>3, <1>1, <1>7
  <2> QED BY <2>2, <2>3
<1>11. DOMAIN bs2 = DOMAIN bs
  BY <1>1, <1>6, Zenon
<1>12. \A k \in DOMAIN bs2 : IsBox(bs2[k]) /\ RegionGood(bs2[k].at) /\ bs2[k].id \in 0..nid - 1
  BY <1>1, <1>10, <1>11
<1>13. \A k, l \in DOMAIN bs2 : bs2[k].id = bs2[l].id => k = l
  BY <1>1, <1>10, <1>11
<1>14. BoxesGood(bs2, nid)
  BY <1>8, <1>12, <1>13, Zenon DEF BoxesGood
<1>15. bs2[i].at = r /\ bs2[i].node = NoNode
  BY <1>4, <1>7
<1> QED BY <1>7, <1>8, <1>10, <1>11, <1>14, <1>15, Zenon DEF bs2, n

\* A box made wider, and taken off its node, keeps the core.
LEMMA WiderGood ==
  ASSUME NEW bs, NEW o1, NEW nid, NEW tw, Core(bs, o1, nid, tw), NEW i \in DOMAIN bs, NEW r,
         RegionGood(r), Inside(bs[i].at, r)
  PROVE  Core(Wider(bs, i, r), o1, nid, tw)
<1> DEFINE bs2 == Wider(bs, i, r)
           f == o1.boxOf
<1>1. /\ TreeGood(o1) /\ BoxesGood(bs, nid) /\ MapsAgree(o1, nid, tw) /\ Reserved(bs, o1, tw)
      /\ \A k \in DOMAIN bs : OnNode(o1, bs[k].node, bs[k].at)
  BY Zenon DEF Core
<1>2. /\ BoxesGood(bs2, nid) /\ DOMAIN bs2 = DOMAIN bs
      /\ bs2[i].at = r /\ bs2[i].node = NoNode
      /\ \A k \in DOMAIN bs : bs2[k].id = bs[k].id
      /\ \A k \in DOMAIN bs : k # i => bs2[k] = bs[k]
  BY <1>1, WiderShape
<1> HIDE DEF bs2
<1>3. \A k \in DOMAIN bs2 : OnNode(o1, bs2[k].node, bs2[k].at)
  <2>1. SUFFICES ASSUME NEW k \in DOMAIN bs2
                 PROVE  OnNode(o1, bs2[k].node, bs2[k].at)
    BY Zenon
  <2>2. CASE k = i
    BY <2>2, <1>2 DEF OnNode
  <2>3. CASE k # i
    BY <2>3, <1>1, <1>2
  <2> QED BY <2>2, <2>3, Zenon
<1>4. \A m \in DOMAIN f : \E k \in DOMAIN bs2 : bs2[k].id = f[m] /\ Inside(Region(o1, m), bs2[k].at)
  <2>1. SUFFICES ASSUME NEW m \in DOMAIN f
                 PROVE  \E k \in DOMAIN bs2 : bs2[k].id = f[m] /\ Inside(Region(o1, m), bs2[k].at)
    BY Zenon
  <2>2. PICK k \in DOMAIN bs : bs[k].id = f[m] /\ Inside(Region(o1, m), bs[k].at)
    BY <1>1, Zenon DEF Reserved
  <2>3. CASE k = i
    <3>1. /\ Region(o1, m)[1] \in Int /\ Region(o1, m)[2] \in Int
      <4>1. m \in Nodes(o1)
        BY <1>1, Zenon DEF MapsAgree
      <4>2. \E q \in Units, d \in 0..Res : Region(o1, m) = Cell(q, d)
        BY <1>1, <4>1, DepthBounds, Zenon DEF TreeGood, NodeGood, Region
      <4>3. RegionGood(Region(o1, m))
        BY <4>2, CellRegion, Zenon
      <4> QED BY <4>3, DepthBounds, PowerOfTwo DEF RegionGood, Units
    <3>2. RegionGood(bs[i].at)
      BY <1>1, Zenon DEF BoxesGood
    <3>3. /\ bs[i].at[1] \in Int /\ bs[i].at[2] \in Int /\ r[1] \in Int /\ r[2] \in Int
      BY <3>2, DepthBounds, PowerOfTwo DEF RegionGood, Units
    <3>4. Inside(Region(o1, m), bs[i].at)
      BY <2>2, <2>3, Zenon
    <3>5. Inside(Region(o1, m), r)
      BY <3>1, <3>3, <3>4 DEF Inside
    <3> QED BY <2>2, <2>3, <3>5, <1>2
  <2>4. CASE k # i
    <3>1. k \in DOMAIN bs2 /\ bs2[k] = bs[k]
      BY <2>4, <1>2, Zenon
    <3> QED BY <3>1, <2>2
  <2> QED BY <2>3, <2>4, Zenon
<1>5. \A k \in DOMAIN bs2 : bs2[k].node # NoNode /\ bs2[k].node \notin tw =>
        bs2[k].node \in DOMAIN f /\ f[bs2[k].node] = bs2[k].id
  <2>1. SUFFICES ASSUME NEW k \in DOMAIN bs2, bs2[k].node # NoNode, bs2[k].node \notin tw
                 PROVE  bs2[k].node \in DOMAIN f /\ f[bs2[k].node] = bs2[k].id
    BY Zenon
  <2>2. k \in DOMAIN bs /\ bs2[k] = bs[k]
    BY <2>1, <1>2, Zenon
  <2> QED BY <2>1, <2>2, <1>1 DEF Reserved
<1>6. Reserved(bs2, o1, tw)
  BY <1>4, <1>5, Zenon DEF Reserved
<1>7. Core(bs2, o1, nid, tw)
  BY <1>1, <1>2, <1>3, <1>6, Zenon DEF Core
<1> QED BY <1>7, Zenon DEF bs2

\* What boxes cover.
LEMMA CoverIs ==
  ASSUME NEW bs, NEW nid, BoxesGood(bs, nid), NEW u
  PROVE  u \in Cover(bs) <=> u \in Int /\ \E i \in DOMAIN bs : Within(u, bs[i].at)
<1> DEFINE span(i) == bs[i].at[1]..bs[i].at[2]
<1>1. u \in Cover(bs) <=> \E i \in DOMAIN bs : u \in span(i)
  BY Zenon DEF Cover
<1>2. \A i \in DOMAIN bs : u \in span(i) <=> u \in Int /\ Within(u, bs[i].at)
  <2>1. SUFFICES ASSUME NEW i \in DOMAIN bs
                 PROVE  u \in span(i) <=> u \in Int /\ Within(u, bs[i].at)
    BY Zenon
  <2>2. RegionGood(bs[i].at)
    BY Zenon DEF BoxesGood
  <2>3. bs[i].at[1] \in Int /\ bs[i].at[2] \in Int
    BY <2>2, DepthBounds, PowerOfTwo DEF RegionGood, Units
  <2> QED BY <2>3 DEF Within
<1> HIDE DEF span
<1> QED BY <1>1, <1>2, Zenon

\* Boxes that hold the same units cover the same.
LEMMA SameCover ==
  ASSUME NEW bs, NEW bs2, NEW nid, BoxesGood(bs, nid), BoxesGood(bs2, nid),
         \A u \in Int : (\E i \in DOMAIN bs2 : Within(u, bs2[i].at))
                          <=> (\E i \in DOMAIN bs : Within(u, bs[i].at))
  PROVE  Cover(bs2) = Cover(bs)
<1>1. \A u : u \in Cover(bs) <=> u \in Int /\ \E i \in DOMAIN bs : Within(u, bs[i].at)
  BY CoverIs, Zenon
<1>2. \A u : u \in Cover(bs2) <=> u \in Int /\ \E i \in DOMAIN bs2 : Within(u, bs2[i].at)
  BY CoverIs, Zenon
<1>3. \A u : u \in Cover(bs2) <=> u \in Cover(bs)
  BY <1>1, <1>2, Zenon
<1> QED BY <1>3, Zenon

\* What a step of the consolidator makes of the boxes bs and the oracle o1.
Shrunk(bs, o1, nid, tw, s) ==
  /\ s = [boxes |-> s.boxes, o |-> s.o]
  /\ Core(s.boxes, s.o, nid, tw) /\ SameLand(o1, s.o)
  /\ Cover(s.boxes) = Cover(bs) /\ Len(s.boxes) <= Len(bs)

\* Merging a touching pair keeps the core and what is covered.
LEMMA MergeGood ==
  ASSUME NEW s, s = [boxes |-> s.boxes, o |-> s.o], NEW nid, NEW tw, Core(s.boxes, s.o, nid, tw),
         NEW i \in DOMAIN s.boxes, NEW j \in DOMAIN s.boxes, i # j,
         Touching(s.boxes[i].at, s.boxes[j].at)
  PROVE  Shrunk(s.boxes, s.o, nid, tw, MergeInto(s, i, j))
<1> DEFINE bs == s.boxes
           o1 == s.o
           h == Hull(bs[i].at, bs[j].at)
           w == Wider(bs, i, h)
           bs2 == RemoveAt(w, j)
           o2 == ReleaseBox(o1, bs[j].id)
           m == MergeInto(s, i, j)
<1>1. BoxesGood(bs, nid) /\ RegionGood(bs[i].at) /\ RegionGood(bs[j].at)
  BY Zenon DEF Core, BoxesGood
<1>2. /\ RegionGood(h) /\ Inside(bs[i].at, h)
      /\ \A u \in Int : Within(u, h) <=> Within(u, bs[i].at) \/ Within(u, bs[j].at)
  BY <1>1, HullGood, Zenon
<1>3. /\ DOMAIN w = DOMAIN bs /\ Len(w) = Len(bs) /\ w[i].at = h
      /\ \A k \in DOMAIN bs : k # i => w[k] = bs[k]
  <2> HIDE DEF bs, h
  <2> QED BY <1>1, <1>2, WiderShape DEF bs
<1>4. Core(w, o1, nid, tw)
  BY <1>1, <1>2, WiderGood, Zenon
<1>5. m = [boxes |-> bs2, o |-> o2]
  BY Zenon DEF MergeInto, Wider
<1> HIDE DEF bs, o1, h, w, bs2, o2, m
<1>6. j \in DOMAIN w /\ w[j] = bs[j] /\ w[j].id = bs[j].id
  <2>1. j \in DOMAIN bs
    BY DEF bs
  <2>2. j \in DOMAIN w /\ w[j] = bs[j]
    BY <1>3, <2>1, Zenon
  <2> QED BY <2>2
<1>7. Core(bs2, o2, nid, tw) /\ SameLand(o1, o2)
  <2>1. /\ Core(RemoveAt(w, j), ReleaseBox(o1, w[j].id), nid, tw)
        /\ SameLand(o1, ReleaseBox(o1, w[j].id))
    BY <1>4, <1>6, EraseGood, Zenon
  <2> QED BY <2>1, <1>6 DEF bs2, o2
<1>8. BoxesGood(w, nid) /\ BoxesGood(bs2, nid)
  BY <1>4, <1>7, Zenon DEF Core
<1>9. Without(w, j, bs2)
  BY <1>6, <1>8, Erased, Zenon DEF bs2
<1>10. /\ Len(bs2) = Len(w) - 1
       /\ \A k \in DOMAIN bs2 : \E l \in DOMAIN w \ {j} : bs2[k] = w[l]
       /\ \A l \in DOMAIN w \ {j} : \E k \in DOMAIN bs2 : bs2[k] = w[l]
  BY <1>9, Zenon DEF Without
<1>11. Len(bs2) <= Len(bs)
  <2>1. Len(bs) \in Nat
    BY <1>1, SeqShape, Zenon DEF BoxesGood
  <2> QED BY <2>1, <1>3, <1>10
<1>12. ASSUME NEW u \in Int
       PROVE  (\E k \in DOMAIN bs2 : Within(u, bs2[k].at))
                  <=> (\E k \in DOMAIN bs : Within(u, bs[k].at))
  <2>1. ASSUME NEW k \in DOMAIN bs2, Within(u, bs2[k].at)
        PROVE  \E l \in DOMAIN bs : Within(u, bs[l].at)
    <3>1. PICK l \in DOMAIN w \ {j} : bs2[k] = w[l]
      BY <1>10, Zenon
    <3>2. Within(u, w[l].at) /\ l \in DOMAIN bs
      BY <3>1, <2>1, <1>3
    <3>3. CASE l = i
      <4>1. Within(u, h)
        BY <3>2, <3>3, <1>3
      <4>2. Within(u, bs[i].at) \/ Within(u, bs[j].at)
        BY <4>1, <1>2, Zenon DEF bs
      <4> QED BY <4>2, Zenon DEF bs
    <3>4. CASE l # i
      <4>1. w[l] = bs[l]
        BY <3>2, <3>4, <1>3, Zenon
      <4> QED BY <4>1, <3>2
    <3> QED BY <3>3, <3>4, Zenon
  <2>2. ASSUME NEW l \in DOMAIN bs, Within(u, bs[l].at)
        PROVE  \E k \in DOMAIN bs2 : Within(u, bs2[k].at)
    <3>1. ASSUME NEW x \in DOMAIN w \ {j}, Within(u, w[x].at)
          PROVE  \E k \in DOMAIN bs2 : Within(u, bs2[k].at)
      <4>1. PICK k \in DOMAIN bs2 : bs2[k] = w[x]
        BY <1>10, Zenon
      <4> QED BY <4>1, <3>1
    <3>2. CASE l = i \/ l = j
      <4>1. Within(u, bs[i].at) \/ Within(u, bs[j].at)
        BY <3>2, <2>2
      <4>2. Within(u, w[i].at)
        <5>1. Within(u, h)
          BY <4>1, <1>2, Zenon
        <5> QED BY <5>1, <1>3
      <4>3. i \in DOMAIN w \ {j}
        BY <1>3, Zenon DEF bs
      <4> QED BY <3>1, <4>2, <4>3, Zenon
    <3>3. CASE l # i /\ l # j
      <4>1. l \in DOMAIN w \ {j} /\ w[l] = bs[l]
        BY <3>3, <1>3, Zenon
      <4>2. Within(u, w[l].at)
        BY <4>1, <2>2
      <4> QED BY <3>1, <4>1, <4>2, Zenon
    <3> QED BY <3>2, <3>3, Zenon
  <2> QED BY <2>1, <2>2, Zenon
<1>13. Cover(bs2) = Cover(bs)
  BY <1>1, <1>8, <1>12, SameCover, Zenon
<1>14. m.boxes = bs2 /\ m.o = o2 /\ m = [boxes |-> m.boxes, o |-> m.o]
  BY <1>5
<1>15. Shrunk(bs, o1, nid, tw, m)
  BY <1>7, <1>11, <1>13, <1>14 DEF Shrunk
<1> QED BY <1>15, Zenon DEF bs, o1, m

\* So does erasing a box within another.
LEMMA PruneStepGood ==
  ASSUME NEW s, s = [boxes |-> s.boxes, o |-> s.o], NEW nid, NEW tw, Core(s.boxes, s.o, nid, tw)
  PROVE  Shrunk(s.boxes, s.o, nid, tw, PruneStep(s))
<1> DEFINE bs == s.boxes
           C == {i \in DOMAIN bs : /\ ~Protected(bs, i)
                                   /\ \E j \in DOMAIN bs \ {i} : Inside(bs[i].at, bs[j].at)}
           low == Lowest(C)
           m == PruneStep(s)
<1>1. BoxesGood(bs, nid) /\ Len(bs) \in Nat /\ DOMAIN bs = 1..Len(bs)
  BY SeqShape, Zenon DEF Core, BoxesGood
<1>2. m = IF C = {} THEN s ELSE [boxes |-> RemoveAt(bs, low), o |-> ReleaseBox(s.o, bs[low].id)]
  BY Zenon DEF PruneStep
<1>3. CASE C = {}
  <2>1. m = s
    BY <1>2, <1>3, Zenon
  <2>2. SameLand(s.o, s.o)
    BY DEF SameLand
  <2>3. Len(bs) <= Len(bs)
    BY <1>1
  <2>4. Shrunk(s.boxes, s.o, nid, tw, s)
    BY <2>2, <2>3, Zenon DEF Shrunk
  <2> QED BY <2>1, <2>4, Zenon
<1>4. CASE C # {}
  <2>1. C \in SUBSET Nat
    BY <1>1
  <2>2. low \in C
    BY <1>4, <2>1, LowestIn, Zenon
  <2>3. low \in DOMAIN bs /\ \E j \in DOMAIN bs \ {low} : Inside(bs[low].at, bs[j].at)
    BY <2>2, Zenon
  <2>4. PICK j \in DOMAIN bs \ {low} : Inside(bs[low].at, bs[j].at)
    BY <2>3, Zenon
  <2> DEFINE bs2 == RemoveAt(bs, low)
             o2 == ReleaseBox(s.o, bs[low].id)
  <2>5. m = [boxes |-> bs2, o |-> o2]
    BY <1>2, <1>4, Zenon
  <2> HIDE DEF low, C, m
  <2>6. Core(bs2, o2, nid, tw) /\ SameLand(s.o, o2)
    BY <2>3, EraseGood, Zenon
  <2>7. BoxesGood(bs2, nid) /\ Without(bs, low, bs2)
    BY <1>1, <2>3, Erased, Zenon
  <2>8. Len(bs2) <= Len(bs)
    <3>1. Len(bs2) = Len(bs) - 1
      BY <2>7, Zenon DEF Without
    <3> QED BY <3>1, <1>1
  <2> HIDE DEF bs2, o2
  <2>9. /\ \A k \in DOMAIN bs2 : \E l \in DOMAIN bs \ {low} : bs2[k] = bs[l]
        /\ \A l \in DOMAIN bs \ {low} : \E k \in DOMAIN bs2 : bs2[k] = bs[l]
    BY <2>7, Zenon DEF Without
  <2>10. \A k \in DOMAIN bs : bs[k].at[1] \in Int /\ bs[k].at[2] \in Int
    <3>1. \A k \in DOMAIN bs : RegionGood(bs[k].at)
      BY <1>1, Zenon DEF BoxesGood
    <3> QED BY <3>1, DepthBounds, PowerOfTwo DEF RegionGood, Units
  <2>11. \A u \in Int : Within(u, bs[low].at) => Within(u, bs[j].at)
    <3>1. bs[low].at[1] \in Int /\ bs[low].at[2] \in Int /\ bs[j].at[1] \in Int /\ bs[j].at[2] \in Int
      BY <2>3, <2>10, Zenon
    <3> QED BY <2>4, <3>1 DEF Within, Inside
  <2>12. ASSUME NEW u \in Int
         PROVE  (\E k \in DOMAIN bs2 : Within(u, bs2[k].at))
                  <=> (\E k \in DOMAIN bs : Within(u, bs[k].at))
    <3>1. ASSUME NEW k \in DOMAIN bs2, Within(u, bs2[k].at)
          PROVE  \E l \in DOMAIN bs : Within(u, bs[l].at)
      <4>1. PICK l \in DOMAIN bs : bs2[k] = bs[l]
        BY <2>9, Zenon
      <4> QED BY <4>1, <3>1
    <3>2. ASSUME NEW l \in DOMAIN bs, Within(u, bs[l].at)
          PROVE  \E k \in DOMAIN bs2 : Within(u, bs2[k].at)
      <4>1. \E x \in DOMAIN bs \ {low} : Within(u, bs[x].at)
        <5>1. CASE l = low
          <6>1. Within(u, bs[j].at)
            BY <5>1, <3>2, <2>11, Zenon
          <6> QED BY <6>1, Zenon
        <5>2. CASE l # low
          BY <5>2, <3>2, Zenon
        <5> QED BY <5>1, <5>2, Zenon
      <4>2. PICK x \in DOMAIN bs \ {low} : Within(u, bs[x].at)
        BY <4>1, Zenon
      <4>3. PICK k \in DOMAIN bs2 : bs2[k] = bs[x]
        BY <2>9, Zenon
      <4> QED BY <4>2, <4>3
    <3> QED BY <3>1, <3>2, Zenon
  <2>13. Cover(bs2) = Cover(bs)
    BY <1>1, <2>7, <2>12, SameCover, Zenon
  <2>14. m.boxes = bs2 /\ m.o = o2 /\ m = [boxes |-> m.boxes, o |-> m.o]
    BY <2>5
  <2>15. Shrunk(bs, s.o, nid, tw, m)
    BY <2>6, <2>8, <2>13, <2>14 DEF Shrunk
  <2> QED BY <2>15, Zenon DEF m
<1> QED BY <1>3, <1>4, Zenon

\* prune_contained, one box after the other.
LEMMA PruneUnfolds ==
  ASSUME NEW s, IsSeq(s.boxes)
  PROVE  \E u : /\ u[0] = s /\ Prune(s) = u[Len(s.boxes)]
               /\ \A k \in 1..Len(s.boxes) : u[k] = PruneStep(u[k - 1])
<1> DEFINE n == Len(s.boxes)
           base == s
           Op(x, k) == PruneStep(x)
           P(f, m) == f = [k \in 0..m |-> IF k = 0 THEN base ELSE Op(f[k - 1], k)]
           T == {m \in 0..n : \E f : P(f, m)}
           u == CHOOSE f : P(f, n)
<1>1. n \in Nat
  BY SeqShape
<1>2. Prune(s) = u[n]
  BY Zenon DEF Prune
<1> HIDE DEF n, base, Op
<1>3. 0 \in T
  <2>1. PICK f : f = [k \in 0..0 |-> base]
    OBVIOUS
  <2>2. P(f, 0)
    BY <2>1
  <2> HIDE DEF P
  <2> QED
    BY <1>1, <2>2
<1>4. \A k \in 1..n : k - 1 \in T => k \in T
  <2>1. SUFFICES ASSUME NEW m \in 1..n, m - 1 \in T PROVE \E f : P(f, m)
    BY <1>1
  <2>2. PICK p \in 0..n : p = m - 1 /\ m = p + 1 /\ p \in T
    BY <1>1, <2>1
  <2>3. PICK f : P(f, p)
    BY <2>2
  <2>4. \A k \in 0..p : f[k] = IF k = 0 THEN base ELSE Op(f[k - 1], k)
    BY <2>3
  <2>5. PICK g : g = [k \in 0..m |-> IF k = m THEN Op(f[p], m) ELSE f[k]]
    OBVIOUS
  <2>6. \A k \in 0..m : g[k] = IF k = 0 THEN base ELSE Op(g[k - 1], k)
    <3>1. SUFFICES ASSUME NEW k \in 0..m PROVE g[k] = IF k = 0 THEN base ELSE Op(g[k - 1], k)
      OBVIOUS
    <3>2. CASE k = m
      <4>1. k # 0 /\ k - 1 \in 0..m /\ k - 1 # m /\ k - 1 = p
        BY <1>1, <2>2, <3>2
      <4>2. g[k] = Op(f[p], k) /\ g[k - 1] = f[p]
        BY <2>5, <3>2, <4>1, Zenon
      <4> QED
        BY <4>1, <4>2, Zenon
    <3>3. CASE k # m
      <4>1. k \in 0..p /\ (k # 0 => k - 1 \in 0..m /\ k - 1 # m)
        BY <1>1, <2>2, <3>3
      <4>2. g[k] = f[k] /\ (k # 0 => g[k - 1] = f[k - 1])
        BY <2>5, <3>3, <4>1
      <4> QED
        BY <2>4, <4>1, <4>2, Zenon
    <3> QED
      BY <3>2, <3>3
  <2>7. g = [k \in 0..m |-> g[k]]
    BY <2>5
  <2> QED
    BY <2>6, <2>7
<1>5. n \in T
  <2> HIDE DEF T
  <2>1. \A k \in 0..n : k \in T
    BY <1>1, <1>3, <1>4, UpTo
  <2> QED
    BY <1>1, <2>1
<1>6. P(u, n)
  <2> HIDE DEF P
  <2> QED
    BY <1>5, Zenon
<1>7. \A k \in 0..n : u[k] = IF k = 0 THEN base ELSE Op(u[k - 1], k)
  <2> HIDE DEF u
  <2> QED
    BY <1>6
<1> HIDE DEF u, P, T
<1>8. u[0] = base
  BY <1>1, <1>7
<1>9. \A k \in 1..n : u[k] = Op(u[k - 1], k)
  BY <1>1, <1>7
<1> QED
  BY <1>2, <1>8, <1>9, Zenon DEF n, base, Op

\* The tree and the evidence stay over two steps.
LEMMA LandKept ==
  ASSUME NEW o1, NEW o2, NEW o3, SameLand(o1, o2), SameLand(o2, o3)
  PROVE  SameLand(o1, o3)
BY Zenon DEF SameLand

\* What two steps keep.
LEMMA ShrunkTwice ==
  ASSUME NEW bs, NEW o1, NEW nid, NEW tw, BoxesGood(bs, nid), NEW s, Shrunk(bs, o1, nid, tw, s), NEW t,
         Shrunk(s.boxes, s.o, nid, tw, t)
  PROVE  Shrunk(bs, o1, nid, tw, t)
<1>1. SameLand(o1, t.o)
  BY LandKept, Zenon DEF Shrunk
<1>2. Cover(t.boxes) = Cover(bs)
  BY Zenon DEF Shrunk
<1>3. BoxesGood(s.boxes, nid) /\ BoxesGood(t.boxes, nid)
  BY Zenon DEF Shrunk, Core
<1>4. Len(bs) \in Nat /\ Len(s.boxes) \in Nat /\ Len(t.boxes) \in Nat
  BY <1>3, SeqShape, Zenon DEF BoxesGood
<1>5. Len(s.boxes) <= Len(bs) /\ Len(t.boxes) <= Len(s.boxes)
  BY Zenon DEF Shrunk
<1>6. Len(t.boxes) <= Len(bs)
  BY <1>4, <1>5
<1> QED BY <1>1, <1>2, <1>6, Zenon DEF Shrunk

\* Pruning keeps the core and what is covered.
LEMMA PruneGood ==
  ASSUME NEW s, s = [boxes |-> s.boxes, o |-> s.o], NEW nid, NEW tw, Core(s.boxes, s.o, nid, tw)
  PROVE  Shrunk(s.boxes, s.o, nid, tw, Prune(s))
<1> DEFINE n == Len(s.boxes)
<1>1. BoxesGood(s.boxes, nid) /\ IsSeq(s.boxes) /\ n \in Nat
  BY SeqShape, Zenon DEF Core, BoxesGood
<1>2. PICK u : /\ u[0] = s /\ Prune(s) = u[Len(s.boxes)]
               /\ \A k \in 1..Len(s.boxes) : u[k] = PruneStep(u[k - 1])
  BY <1>1, PruneUnfolds
<1> DEFINE T == {k \in 0..n : Shrunk(s.boxes, s.o, nid, tw, u[k])}
<1>3. Shrunk(s.boxes, s.o, nid, tw, s)
  <2>1. SameLand(s.o, s.o)
    BY DEF SameLand
  <2>2. Len(s.boxes) <= Len(s.boxes)
    BY <1>1
  <2> QED BY <2>1, <2>2, Zenon DEF Shrunk
<1>4. 0 \in T
  BY <1>1, <1>2, <1>3
<1>5. \A k \in 1..n : k - 1 \in T => k \in T
  <2>1. SUFFICES ASSUME NEW k \in 1..n, k - 1 \in T
                 PROVE  k \in T
    BY Zenon
  <2> PICK t : t = u[k - 1]
    OBVIOUS
  <2>2. Shrunk(s.boxes, s.o, nid, tw, t)
    BY <2>1
  <2>3. t = [boxes |-> t.boxes, o |-> t.o] /\ Core(t.boxes, t.o, nid, tw)
    BY <2>2, Zenon DEF Shrunk
  <2>4. Shrunk(t.boxes, t.o, nid, tw, PruneStep(t))
    BY <2>3, PruneStepGood, Zenon
  <2>5. Shrunk(s.boxes, s.o, nid, tw, PruneStep(t))
    BY <1>1, <2>2, <2>4, ShrunkTwice, Zenon
  <2>6. u[k] = PruneStep(t) /\ k \in 0..n
    BY <1>1, <1>2, <2>1
  <2> QED BY <2>5, <2>6
<1>6. \A k \in 0..n : k \in T
  <2> HIDE DEF T
  <2> QED BY <1>1, <1>4, <1>5, UpTo
<1>7. n \in T
  <2> HIDE DEF T
  <2> QED BY <1>1, <1>6
<1>8. Prune(s) = u[n]
  BY <1>2
<1> QED BY <1>7, <1>8

\* The first of a set of pairs is one of them.
LEMMA FirstPairIn ==
  ASSUME NEW n \in Nat, NEW P \in SUBSET ((1..n) \X (1..n)), P # {}
  PROVE  FirstPair(P) \in P
<1> DEFINE A == {p[1] : p \in P}
<1>1. A \in SUBSET Nat /\ A # {}
  BY Z3
<1>2. PICK a \in A : \A m \in A : a <= m
  <2> HIDE DEF A
  <2> QED BY <1>1, LeastNat
<1> DEFINE B == {p[2] : p \in {q \in P : q[1] = a}}
<1>3. B \in SUBSET Nat /\ B # {}
  BY <1>2, Z3
<1>4. PICK b \in B : \A m \in B : b <= m
  <2> HIDE DEF B
  <2> QED BY <1>3, LeastNat
<1>5. PICK p \in P : p[1] = a /\ p[2] = b
  BY <1>4
<1>6. \A q \in P : p[1] < q[1] \/ (p[1] = q[1] /\ p[2] <= q[2])
  <2>1. SUFFICES ASSUME NEW q \in P
                 PROVE  p[1] < q[1] \/ (p[1] = q[1] /\ p[2] <= q[2])
    BY Zenon
  <2>2. q[1] \in A /\ a <= q[1] /\ q[1] \in Nat /\ a \in Nat
    BY <1>1, <1>2
  <2>3. q[1] = a => q[2] \in B
    BY Zenon
  <2>4. q[1] = a => b <= q[2]
    BY <1>4, <2>3, Zenon
  <2> QED BY <1>5, <2>2, <2>4
<1> QED BY <1>6, Zenon DEF FirstPair

\* The pairs that may be merged touch.
LEMMA PairsGood ==
  ASSUME NEW bs, NEW p \in MergePairs(bs)
  PROVE  /\ p[1] \in DOMAIN bs /\ p[2] \in DOMAIN bs /\ p[1] < p[2]
         /\ Touching(bs[p[1]].at, bs[p[2]].at)
BY DEF MergePairs

\* Merging one of them keeps the core and what is covered.
LEMMA PairMergeGood ==
  ASSUME NEW s, s = [boxes |-> s.boxes, o |-> s.o], NEW nid, NEW tw, Core(s.boxes, s.o, nid, tw),
         NEW p \in MergePairs(s.boxes)
  PROVE  Shrunk(s.boxes, s.o, nid, tw, MergeInto(s, p[1], p[2]))
<1>1. DOMAIN s.boxes = 1..Len(s.boxes) /\ Len(s.boxes) \in Nat
  BY SeqShape, Zenon DEF Core, BoxesGood
<1> DEFINE i == p[1]
           j == p[2]
<1>2. i \in DOMAIN s.boxes /\ j \in DOMAIN s.boxes /\ i < j /\ Touching(s.boxes[i].at, s.boxes[j].at)
  BY PairsGood
<1>3. i # j
  BY <1>1, <1>2
<1> HIDE DEF i, j
<1>4. Shrunk(s.boxes, s.o, nid, tw, MergeInto(s, i, j))
  BY <1>2, <1>3, MergeGood, Zenon
<1> QED BY <1>4, Zenon DEF i, j

\* So does merging nothing.
LEMMA ShrunkItself ==
  ASSUME NEW s, s = [boxes |-> s.boxes, o |-> s.o], NEW nid, NEW tw, Core(s.boxes, s.o, nid, tw)
  PROVE  Shrunk(s.boxes, s.o, nid, tw, s)
<1>1. Len(s.boxes) \in Nat
  BY SeqShape, Zenon DEF Core, BoxesGood
<1>2. SameLand(s.o, s.o)
  BY DEF SameLand
<1>3. Len(s.boxes) <= Len(s.boxes)
  BY <1>1
<1> QED BY <1>2, <1>3, Zenon DEF Shrunk

\* So does the exact merge.
LEMMA ExactMergeGood ==
  ASSUME NEW s, s = [boxes |-> s.boxes, o |-> s.o], NEW nid, NEW tw, Core(s.boxes, s.o, nid, tw)
  PROVE  Shrunk(s.boxes, s.o, nid, tw, ExactMerge(s))
<1> DEFINE P == {p \in MergePairs(s.boxes) : s.boxes[p[1]].at # s.boxes[p[2]].at}
           first == FirstPair(P)
<1>1. ExactMerge(s) = IF P = {} THEN s ELSE MergeInto(s, first[1], first[2])
  BY Zenon DEF ExactMerge
<1>2. CASE P = {}
  BY <1>1, <1>2, ShrunkItself, Zenon
<1>3. CASE P # {}
  <2>1. DOMAIN s.boxes = 1..Len(s.boxes) /\ Len(s.boxes) \in Nat
    BY SeqShape, Zenon DEF Core, BoxesGood
  <2>2. P \in SUBSET ((1..Len(s.boxes)) \X (1..Len(s.boxes)))
    BY <2>1 DEF MergePairs
  <2>3. first \in P
    <3> HIDE DEF P
    <3> QED BY <1>3, <2>1, <2>2, FirstPairIn, Zenon
  <2>4. first \in MergePairs(s.boxes)
    BY <2>3, Zenon
  <2> HIDE DEF P, first
  <2>5. Shrunk(s.boxes, s.o, nid, tw, MergeInto(s, first[1], first[2]))
    BY <2>4, PairMergeGood, Zenon
  <2> QED BY <1>1, <1>3, <2>5, Zenon
<1> QED BY <1>2, <1>3, Zenon

\* So does each of the greedy merges.
LEMMA GreedyMergeGood ==
  ASSUME NEW s, s = [boxes |-> s.boxes, o |-> s.o], NEW nid, NEW tw, Core(s.boxes, s.o, nid, tw),
         NEW t \in GreedyMerges(s)
  PROVE  Shrunk(s.boxes, s.o, nid, tw, t)
<1>1. t = s \/ \E p \in MergePairs(s.boxes) : t = MergeInto(s, p[1], p[2])
  <2> DEFINE valid == {p \in MergePairs(s.boxes) : /\ ScoreAllows(s.boxes, p)
                                                   /\ Free(occ, PairHull(s.boxes, p))}
             first == {p \in valid : \A q \in valid : ~TriedBefore(s.boxes, q, p)}
  <2>1. t \in IF valid = {} THEN {s} ELSE {MergeInto(s, p[1], p[2]) : p \in first}
    BY Zenon DEF GreedyMerges
  <2>2. first \subseteq MergePairs(s.boxes)
    BY Zenon
  <2> HIDE DEF valid, first
  <2> QED BY <2>1, <2>2, Zenon
<1>2. CASE t = s
  BY <1>2, ShrunkItself, Zenon
<1>3. ASSUME NEW p \in MergePairs(s.boxes), t = MergeInto(s, p[1], p[2])
      PROVE  Shrunk(s.boxes, s.o, nid, tw, t)
  <2>1. Shrunk(s.boxes, s.o, nid, tw, MergeInto(s, p[1], p[2]))
    BY PairMergeGood, Zenon
  <2> QED BY <2>1, <1>3, Zenon
<1> QED BY <1>1, <1>2, <1>3, Zenon

\* What a round merges before it prunes: s2 by the exact merge or not, s by the
\* greedy merge or not.
Merged(s1, s) ==
  \E s2 \in {s1, ExactMerge(s1)} : s = s2 \/ s \in GreedyMerges(s2)

\* A round of the consolidator, with those of its parts that are switched on.
LEMMA RoundGood ==
  ASSUME NEW bs, NEW o1, NEW nid, NEW tw, Core(bs, o1, nid, tw),
         NEW s, Merged([boxes |-> bs, o |-> o1], s), NEW t \in {s, Prune(s)}
  PROVE  Shrunk(bs, o1, nid, tw, t)
<1> DEFINE s1 == [boxes |-> bs, o |-> o1]
<1>1. s1.boxes = bs /\ s1.o = o1 /\ s1 = [boxes |-> s1.boxes, o |-> s1.o]
  OBVIOUS
<1>2. Merged(s1, s)
  OBVIOUS
<1> HIDE DEF s1
<1>3. Core(s1.boxes, s1.o, nid, tw) /\ BoxesGood(s1.boxes, nid)
  BY <1>1 DEF Core
<1>4. PICK s2 \in {s1, ExactMerge(s1)} : s = s2 \/ s \in GreedyMerges(s2)
  BY <1>2, Zenon DEF Merged
<1>5. Shrunk(s1.boxes, s1.o, nid, tw, s2)
  <2>1. CASE s2 = s1
    BY <1>1, <1>3, <2>1, ShrunkItself, Zenon
  <2>2. CASE s2 = ExactMerge(s1)
    BY <1>1, <1>3, <2>2, ExactMergeGood, Zenon
  <2> QED BY <1>4, <2>1, <2>2, Zenon
<1>6. s2 = [boxes |-> s2.boxes, o |-> s2.o] /\ Core(s2.boxes, s2.o, nid, tw)
  BY <1>5, Zenon DEF Shrunk
<1>7. Shrunk(s2.boxes, s2.o, nid, tw, s)
  <2>1. CASE s = s2
    BY <1>6, <2>1, ShrunkItself, Zenon
  <2>2. CASE s \in GreedyMerges(s2)
    BY <1>6, <2>2, GreedyMergeGood, Zenon
  <2> QED BY <1>4, <2>1, <2>2, Zenon
<1>8. Shrunk(s1.boxes, s1.o, nid, tw, s)
  BY <1>3, <1>5, <1>7, ShrunkTwice, Zenon
<1>9. s = [boxes |-> s.boxes, o |-> s.o] /\ Core(s.boxes, s.o, nid, tw)
  BY <1>7, Zenon DEF Shrunk
<1>10. Shrunk(s.boxes, s.o, nid, tw, Prune(s))
  BY <1>9, PruneGood, Zenon
<1>11. Shrunk(s1.boxes, s1.o, nid, tw, Prune(s))
  BY <1>3, <1>8, <1>10, ShrunkTwice, Zenon
<1>12. Shrunk(s1.boxes, s1.o, nid, tw, t)
  BY <1>8, <1>11, Zenon
<1> QED BY <1>1, <1>12

\* Boxes that cover what free boxes covered are free.
LEMMA CoverClear ==
  ASSUME NEW bs, NEW bs2, NEW nid, BoxesGood(bs, nid), BoxesGood(bs2, nid), Cover(bs2) = Cover(bs),
         NEW scene \in SUBSET Int, AllClear(scene, bs)
  PROVE  AllClear(scene, bs2)
<1>1. SUFFICES ASSUME NEW i \in DOMAIN bs2, NEW u \in scene, Within(u, bs2[i].at)
               PROVE  FALSE
  BY Zenon DEF AllClear, Clear
<1>2. u \in Int
  OBVIOUS
<1>3. u \in Cover(bs2)
  BY <1>1, <1>2, CoverIs, Zenon
<1>4. u \in Cover(bs)
  BY <1>3
<1>5. \E k \in DOMAIN bs : Within(u, bs[k].at)
  BY <1>4, CoverIs, Zenon
<1> QED BY <1>5, Zenon DEF AllClear, Clear

-----------------------------------------------------------------------------
(* Tasks, and the answers of the workers.                                  *)

\* A task that may have been given a leaf of the oracle o1.
Planned(o1, t) ==
  /\ t = [seed |-> t.seed, parent |-> t.parent, root |-> t.root, target |-> t.target, dom |-> t.dom]
  /\ t.seed \in Units /\ t.dom \in Nodes(o1) \cup {NoNode}

\* A seed has a leaf.
LEMMA LeafInTree ==
  ASSUME NEW o1, TreeGood(o1), Whole(o1), NEW q \in Units
  PROVE  LeafContaining(o1, q) \in Nodes(o1)
<1>1. Within(q, Region(o1, RootNode))
  BY Zenon DEF Whole
<1>2. LeafContaining(o1, q) \in Path(o1, q)
  BY <1>1, LeafFound, Zenon
<1> QED BY <1>2, PathCell, Zenon

\* A task that was given a leaf, or none.
LEMMA GivenGood ==
  ASSUME NEW o1, NEW t, TaskGood(t), NEW n, n \in Nodes(o1) \cup {NoNode}
  PROVE  Planned(o1, [t EXCEPT !.dom = n]) /\ [t EXCEPT !.dom = n].dom = n
<1>1. t = [seed |-> t.seed, parent |-> t.parent, root |-> t.root, target |-> t.target, dom |-> t.dom]
  BY Zenon DEF TaskGood
<1>2. [t EXCEPT !.dom = n] = [seed |-> t.seed, parent |-> t.parent, root |-> t.root,
                              target |-> t.target, dom |-> n]
  BY <1>1
<1>3. t.seed \in Units
  BY Zenon DEF TaskGood
<1> QED BY <1>2, <1>3 DEF Planned

PlanGood(o1, local, p) ==
  /\ IsSeq(p) /\ \A t \in Range(p) : Planned(o1, t) /\ (local => t.dom # NoNode)
PlanStart == [cooling |-> cooling, used |-> {}, out |-> <<>>]

\* The filter of make_growth_tasks, one task after the other.
LEMMA FilterUnfolds ==
  ASSUME NEW ts, IsSeq(ts)
  PROVE  \E u : /\ u[0] = PlanStart /\ Filter(ts) = u[Len(ts)]
               /\ \A k \in 1..Len(ts) : u[k] = FilterTask(u[k - 1], ts[k])
<1> DEFINE n == Len(ts)
           base == PlanStart
           Op(x, k) == FilterTask(x, ts[k])
           P(f, m) == f = [k \in 0..m |-> IF k = 0 THEN base ELSE Op(f[k - 1], k)]
           T == {m \in 0..n : \E f : P(f, m)}
           u == CHOOSE f : P(f, n)
<1>1. n \in Nat
  BY SeqShape
<1>2. Filter(ts) = u[n]
  BY Zenon DEF Filter, PlanStart
<1> HIDE DEF n, base, Op
<1>3. 0 \in T
  <2>1. PICK f : f = [k \in 0..0 |-> base]
    OBVIOUS
  <2>2. P(f, 0)
    BY <2>1
  <2> HIDE DEF P
  <2> QED
    BY <1>1, <2>2
<1>4. \A k \in 1..n : k - 1 \in T => k \in T
  <2>1. SUFFICES ASSUME NEW m \in 1..n, m - 1 \in T PROVE \E f : P(f, m)
    BY <1>1
  <2>2. PICK p \in 0..n : p = m - 1 /\ m = p + 1 /\ p \in T
    BY <1>1, <2>1
  <2>3. PICK f : P(f, p)
    BY <2>2
  <2>4. \A k \in 0..p : f[k] = IF k = 0 THEN base ELSE Op(f[k - 1], k)
    BY <2>3
  <2>5. PICK g : g = [k \in 0..m |-> IF k = m THEN Op(f[p], m) ELSE f[k]]
    OBVIOUS
  <2>6. \A k \in 0..m : g[k] = IF k = 0 THEN base ELSE Op(g[k - 1], k)
    <3>1. SUFFICES ASSUME NEW k \in 0..m PROVE g[k] = IF k = 0 THEN base ELSE Op(g[k - 1], k)
      OBVIOUS
    <3>2. CASE k = m
      <4>1. k # 0 /\ k - 1 \in 0..m /\ k - 1 # m /\ k - 1 = p
        BY <1>1, <2>2, <3>2
      <4>2. g[k] = Op(f[p], k) /\ g[k - 1] = f[p]
        BY <2>5, <3>2, <4>1, Zenon
      <4> QED
        BY <4>1, <4>2, Zenon
    <3>3. CASE k # m
      <4>1. k \in 0..p /\ (k # 0 => k - 1 \in 0..m /\ k - 1 # m)
        BY <1>1, <2>2, <3>3
      <4>2. g[k] = f[k] /\ (k # 0 => g[k - 1] = f[k - 1])
        BY <2>5, <3>3, <4>1
      <4> QED
        BY <2>4, <4>1, <4>2, Zenon
    <3> QED
      BY <3>2, <3>3
  <2>7. g = [k \in 0..m |-> g[k]]
    BY <2>5
  <2> QED
    BY <2>6, <2>7
<1>5. n \in T
  <2> HIDE DEF T
  <2>1. \A k \in 0..n : k \in T
    BY <1>1, <1>3, <1>4, UpTo
  <2> QED
    BY <1>1, <2>1
<1>6. P(u, n)
  <2> HIDE DEF P
  <2> QED
    BY <1>5, Zenon
<1>7. \A k \in 0..n : u[k] = IF k = 0 THEN base ELSE Op(u[k - 1], k)
  <2> HIDE DEF u
  <2> QED
    BY <1>6
<1> HIDE DEF u, P, T
<1>8. u[0] = base
  BY <1>1, <1>7
<1>9. \A k \in 1..n : u[k] = Op(u[k - 1], k)
  BY <1>1, <1>7
<1> QED
  BY <1>2, <1>8, <1>9, Zenon DEF n, base, Op

\* A task that passes the filter has a leaf, or may do without.
LEMMA FilterTaskGood ==
  ASSUME TreeGood(o), Whole(o), NEW acc, PlanGood(o, cfg.local, acc.out), NEW t, TaskGood(t),
         acc = [cooling |-> acc.cooling, used |-> acc.used, out |-> acc.out]
  PROVE  LET p == FilterTask(acc, t) IN
         p = [cooling |-> p.cooling, used |-> p.used, out |-> p.out] /\ PlanGood(o, cfg.local, p.out)
<1> DEFINE leaf == LeafContaining(o, t.seed)
           cool == CheckedCooling(acc.cooling, leaf, Len(boxes))
           given == IF IsReserved(o, leaf) \/ leaf \in acc.used THEN NoNode ELSE leaf
           cold == CoolingOn /\ InCooling(cool, leaf, cfg.depth, Len(boxes))
           more == Append(acc.out, [t EXCEPT !.dom = given])
           p == FilterTask(acc, t)
<1>1. p = IF cold THEN [acc EXCEPT !.cooling = cool]
          ELSE [cooling |-> IF CoolingOn THEN cool ELSE acc.cooling,
                used |-> acc.used \cup ({given} \ {NoNode}),
                out |-> IF cfg.local /\ given = NoNode THEN acc.out ELSE more]
  BY Zenon DEF FilterTask
<1>2. given \in Nodes(o) \cup {NoNode}
  <2>1. t.seed \in Units
    BY Zenon DEF TaskGood
  <2>2. leaf \in Nodes(o)
    BY <2>1, LeafInTree, Zenon
  <2> QED BY <2>2, Zenon
<1> HIDE DEF cold, cool, given, leaf
<1>3. Planned(o, [t EXCEPT !.dom = given]) /\ [t EXCEPT !.dom = given].dom = given
  BY <1>2, GivenGood
<1> DEFINE x == [t EXCEPT !.dom = given]
<1> HIDE DEF x
<1>4. Planned(o, x) /\ x.dom = given /\ more = Append(acc.out, x)
  BY <1>3, Zenon DEF x
<1>5. IsSeq(acc.out) /\ IsSeq(Append(acc.out, x)) /\ Range(Append(acc.out, x)) = Range(acc.out) \cup {x}
  <2>1. IsSeq(acc.out)
    BY Zenon DEF PlanGood
  <2> QED BY <2>1, SeqAppend
<1> HIDE DEF more
<1>6. ~(cfg.local /\ given = NoNode) => PlanGood(o, cfg.local, more)
  BY <1>4, <1>5, Zenon DEF PlanGood
<1>7. CASE cold
  <2>1. p = [cooling |-> cool, used |-> acc.used, out |-> acc.out]
    BY <1>1, <1>7
  <2> HIDE DEF p
  <2>2. p.out = acc.out /\ p = [cooling |-> p.cooling, used |-> p.used, out |-> p.out]
    BY <2>1
  <2>3. p = [cooling |-> p.cooling, used |-> p.used, out |-> p.out] /\ PlanGood(o, cfg.local, p.out)
    BY <2>2
  <2> QED BY <2>3, Zenon DEF p
<1>8. CASE ~cold
  <2> PICK out : out = IF cfg.local /\ given = NoNode THEN acc.out ELSE more
    OBVIOUS
  <2>1. PlanGood(o, cfg.local, out)
    BY <1>6
  <2>2. p = [cooling |-> IF CoolingOn THEN cool ELSE acc.cooling,
             used |-> acc.used \cup ({given} \ {NoNode}), out |-> out]
    BY <1>1, <1>8, Zenon
  <2> HIDE DEF p
  <2>3. p.out = out /\ p = [cooling |-> p.cooling, used |-> p.used, out |-> p.out]
    BY <2>2
  <2>4. p = [cooling |-> p.cooling, used |-> p.used, out |-> p.out] /\ PlanGood(o, cfg.local, p.out)
    BY <2>1, <2>3
  <2> QED BY <2>4, Zenon DEF p
<1> QED BY <1>7, <1>8, Zenon

\* So have all that pass it.
LEMMA FilterGood ==
  ASSUME TreeGood(o), Whole(o), NEW ts, IsSeq(ts), \A t \in Range(ts) : TaskGood(t)
  PROVE  PlanGood(o, cfg.local, Filter(ts).out)
<1> DEFINE n == Len(ts)
           Good(p) == p = [cooling |-> p.cooling, used |-> p.used, out |-> p.out]
                      /\ PlanGood(o, cfg.local, p.out)
<1>1. n \in Nat /\ \A k \in 1..n : TaskGood(ts[k])
  BY SeqShape
<1>2. PICK u : /\ u[0] = PlanStart /\ Filter(ts) = u[Len(ts)]
               /\ \A k \in 1..Len(ts) : u[k] = FilterTask(u[k - 1], ts[k])
  BY FilterUnfolds
<1> DEFINE T == {k \in 0..n : Good(u[k])}
<1>3. Good(PlanStart)
  BY SeqEmpty DEF PlanStart, PlanGood
<1> HIDE DEF Good
<1>4. 0 \in T
  BY <1>1, <1>2, <1>3
<1>5. \A k \in 1..n : k - 1 \in T => k \in T
  <2>1. SUFFICES ASSUME NEW k \in 1..n, k - 1 \in T
                 PROVE  k \in T
    BY Zenon
  <2> PICK acc : acc = u[k - 1]
    OBVIOUS
  <2> PICK t : t = ts[k]
    OBVIOUS
  <2>2. Good(acc) /\ TaskGood(t)
    BY <1>1, <2>1
  <2>3. Good(FilterTask(acc, t))
    BY <2>2, FilterTaskGood DEF Good
  <2>4. u[k] = FilterTask(acc, t) /\ k \in 0..n
    BY <1>1, <1>2, <2>1
  <2> QED BY <2>3, <2>4
<1>6. \A k \in 0..n : k \in T
  <2> HIDE DEF T
  <2> QED BY <1>1, <1>4, <1>5, UpTo
<1>7. n \in T
  <2> HIDE DEF T
  <2> QED BY <1>1, <1>6
<1> QED BY <1>2, <1>7, Zenon DEF Good

WaveStart == [used |-> {}, out |-> <<>>]

\* The plan of a front box, one task after the other.
LEMMA WavePlanUnfolds ==
  ASSUME NEW ts, IsSeq(ts)
  PROVE  \E u : /\ u[0] = WaveStart /\ WavePlan(ts) = u[Len(ts)].out
               /\ \A k \in 1..Len(ts) : u[k] = PlanTask(u[k - 1], ts[k])
<1> DEFINE n == Len(ts)
           base == WaveStart
           Op(x, k) == PlanTask(x, ts[k])
           P(f, m) == f = [k \in 0..m |-> IF k = 0 THEN base ELSE Op(f[k - 1], k)]
           T == {m \in 0..n : \E f : P(f, m)}
           u == CHOOSE f : P(f, n)
<1>1. n \in Nat
  BY SeqShape
<1>2. WavePlan(ts) = u[n].out
  BY Zenon DEF WavePlan, WaveStart
<1> HIDE DEF n, base, Op
<1>3. 0 \in T
  <2>1. PICK f : f = [k \in 0..0 |-> base]
    OBVIOUS
  <2>2. P(f, 0)
    BY <2>1
  <2> HIDE DEF P
  <2> QED
    BY <1>1, <2>2
<1>4. \A k \in 1..n : k - 1 \in T => k \in T
  <2>1. SUFFICES ASSUME NEW m \in 1..n, m - 1 \in T PROVE \E f : P(f, m)
    BY <1>1
  <2>2. PICK p \in 0..n : p = m - 1 /\ m = p + 1 /\ p \in T
    BY <1>1, <2>1
  <2>3. PICK f : P(f, p)
    BY <2>2
  <2>4. \A k \in 0..p : f[k] = IF k = 0 THEN base ELSE Op(f[k - 1], k)
    BY <2>3
  <2>5. PICK g : g = [k \in 0..m |-> IF k = m THEN Op(f[p], m) ELSE f[k]]
    OBVIOUS
  <2>6. \A k \in 0..m : g[k] = IF k = 0 THEN base ELSE Op(g[k - 1], k)
    <3>1. SUFFICES ASSUME NEW k \in 0..m PROVE g[k] = IF k = 0 THEN base ELSE Op(g[k - 1], k)
      OBVIOUS
    <3>2. CASE k = m
      <4>1. k # 0 /\ k - 1 \in 0..m /\ k - 1 # m /\ k - 1 = p
        BY <1>1, <2>2, <3>2
      <4>2. g[k] = Op(f[p], k) /\ g[k - 1] = f[p]
        BY <2>5, <3>2, <4>1, Zenon
      <4> QED
        BY <4>1, <4>2, Zenon
    <3>3. CASE k # m
      <4>1. k \in 0..p /\ (k # 0 => k - 1 \in 0..m /\ k - 1 # m)
        BY <1>1, <2>2, <3>3
      <4>2. g[k] = f[k] /\ (k # 0 => g[k - 1] = f[k - 1])
        BY <2>5, <3>3, <4>1
      <4> QED
        BY <2>4, <4>1, <4>2, Zenon
    <3> QED
      BY <3>2, <3>3
  <2>7. g = [k \in 0..m |-> g[k]]
    BY <2>5
  <2> QED
    BY <2>6, <2>7
<1>5. n \in T
  <2> HIDE DEF T
  <2>1. \A k \in 0..n : k \in T
    BY <1>1, <1>3, <1>4, UpTo
  <2> QED
    BY <1>1, <2>1
<1>6. P(u, n)
  <2> HIDE DEF P
  <2> QED
    BY <1>5, Zenon
<1>7. \A k \in 0..n : u[k] = IF k = 0 THEN base ELSE Op(u[k - 1], k)
  <2> HIDE DEF u
  <2> QED
    BY <1>6
<1> HIDE DEF u, P, T
<1>8. u[0] = base
  BY <1>1, <1>7
<1>9. \A k \in 1..n : u[k] = Op(u[k - 1], k)
  BY <1>1, <1>7
<1> QED
  BY <1>2, <1>8, <1>9, Zenon DEF n, base, Op

\* A task of a front box has a leaf or none.
LEMMA PlanTaskGood ==
  ASSUME TreeGood(o), Whole(o), NEW acc, PlanGood(o, FALSE, acc.out), NEW t, TaskGood(t)
  PROVE  PlanGood(o, FALSE, PlanTask(acc, t).out)
<1> DEFINE leaf == LeafContaining(o, t.seed)
           given == IF IsReserved(o, leaf) \/ leaf \in acc.used THEN NoNode ELSE leaf
           x == [t EXCEPT !.dom = given]
           p == PlanTask(acc, t)
<1>1. p = IF Covered(boxes, t.seed) THEN acc
          ELSE [used |-> acc.used \cup ({given} \ {NoNode}), out |-> Append(acc.out, x)]
  BY Zenon DEF PlanTask
<1>2. given \in Nodes(o) \cup {NoNode}
  <2>1. t.seed \in Units
    BY Zenon DEF TaskGood
  <2>2. leaf \in Nodes(o)
    BY <2>1, LeafInTree, Zenon
  <2> QED BY <2>2, Zenon
<1>3. Planned(o, x)
  <2> HIDE DEF given
  <2> QED BY <1>2, GivenGood
<1> HIDE DEF given, leaf, x
<1>4. IsSeq(Append(acc.out, x)) /\ Range(Append(acc.out, x)) = Range(acc.out) \cup {x}
  <2>1. IsSeq(acc.out)
    BY Zenon DEF PlanGood
  <2> QED BY <2>1, SeqAppend
<1>5. PlanGood(o, FALSE, Append(acc.out, x))
  BY <1>3, <1>4, Zenon DEF PlanGood
<1>6. p.out = acc.out \/ p.out = Append(acc.out, x)
  BY <1>1
<1> QED BY <1>5, <1>6, Zenon

\* So have all of them.
LEMMA WavePlanGood ==
  ASSUME TreeGood(o), Whole(o), NEW ts, IsSeq(ts), \A t \in Range(ts) : TaskGood(t)
  PROVE  PlanGood(o, FALSE, WavePlan(ts))
<1> DEFINE n == Len(ts)
<1>1. n \in Nat /\ \A k \in 1..n : TaskGood(ts[k])
  BY SeqShape
<1>2. PICK u : /\ u[0] = WaveStart /\ WavePlan(ts) = u[Len(ts)].out
               /\ \A k \in 1..Len(ts) : u[k] = PlanTask(u[k - 1], ts[k])
  BY WavePlanUnfolds
<1> DEFINE T == {k \in 0..n : PlanGood(o, FALSE, u[k].out)}
<1>3. PlanGood(o, FALSE, WaveStart.out)
  BY SeqEmpty DEF WaveStart, PlanGood
<1>4. 0 \in T
  <2>1. PlanGood(o, FALSE, u[0].out)
    BY <1>2, <1>3, Zenon
  <2>2. 0 \in 0..n
    BY <1>1
  <2> QED BY <2>1, <2>2, Zenon
<1>5. \A k \in 1..n : k - 1 \in T => k \in T
  <2>1. SUFFICES ASSUME NEW k \in 1..n, k - 1 \in T
                 PROVE  k \in T
    BY Zenon
  <2> PICK acc : acc = u[k - 1]
    OBVIOUS
  <2> PICK t : t = ts[k]
    OBVIOUS
  <2>2. PlanGood(o, FALSE, acc.out) /\ TaskGood(t)
    BY <1>1, <2>1
  <2>3. PlanGood(o, FALSE, PlanTask(acc, t).out)
    BY <2>2, PlanTaskGood
  <2>4. u[k] = PlanTask(acc, t) /\ k \in 0..n
    BY <1>1, <1>2, <2>1
  <2> QED BY <2>3, <2>4
<1>6. \A k \in 0..n : k \in T
  <2> HIDE DEF T
  <2> QED BY <1>1, <1>4, <1>5, UpTo
<1>7. n \in T
  <2> HIDE DEF T
  <2> QED BY <1>1, <1>6
<1> QED BY <1>2, <1>7, Zenon

\* The faces of a box, in any order.
LEMMA FaceOrders ==
  ASSUME NEW r, NEW qs \in SetToSeqs(FaceSeeds(r)), NEW id, NEW root
  PROVE  LET ts == [i \in DOMAIN qs |-> Task(qs[i], id, root, NoTarget)] IN
         IsSeq(ts) /\ \A t \in Range(ts) : TaskGood(t)
<1> DEFINE S == FaceSeeds(r)
           n == Cardinality(S)
           ts == [i \in DOMAIN qs |-> Task(qs[i], id, root, NoTarget)]
<1>1. IsFiniteSet(S) /\ n \in Nat
  <2>1. IsFiniteSet({r[1] - 1, r[2] + 1})
    <3> PICK a, b : a = r[1] - 1 /\ b = r[2] + 1
      OBVIOUS
    <3>1. IsFiniteSet({a}) /\ IsFiniteSet({b})
      BY FS_Singleton
    <3>2. IsFiniteSet({a} \cup {b})
      BY <3>1, FS_Union
    <3>3. {a} \cup {b} = {a, b}
      OBVIOUS
    <3> QED BY <3>2, <3>3
  <2>2. IsFiniteSet(S)
    BY <2>1, FS_Subset DEF FaceSeeds
  <2> QED BY <2>2, FS_CardinalityType
<1> HIDE DEF n
<1>2. S \subseteq Units
  BY Zenon DEF FaceSeeds
<1> HIDE DEF S
<1>3. qs \in [1..n -> S]
  BY DEF SetToSeqs, n, S
<1>4. DOMAIN qs = 1..n /\ \A i \in 1..n : qs[i] \in Units
  BY <1>2, <1>3
<1>5. ts = [k \in 1..n |-> ts[k]] /\ \A k \in 1..n : ts[k] = Task(qs[k], id, root, NoTarget)
  BY <1>4
<1>6. \A k \in 1..n : TaskGood(ts[k])
  BY <1>4, <1>5, TaskShape, Zenon
<1> HIDE DEF ts
<1>7. IsSeq(ts) /\ Range(ts) = {ts[k] : k \in 1..n}
  BY <1>1, <1>5, SeqFunction
<1>8. IsSeq(ts) /\ \A t \in Range(ts) : TaskGood(t)
  BY <1>6, <1>7, Zenon
<1> QED BY <1>8, Zenon DEF ts

\* The answer of a worker to a task on a leaf of the oracle o1.
IsResult(res) ==
  res = [seed |-> res.seed, parent |-> res.parent, root |-> res.root, target |-> res.target,
         dom |-> res.dom, ans |-> res.ans, accepted |-> res.accepted]
Answered(o1, res) ==
  /\ IsResult(res) /\ res.dom \in Nodes(o1)
  /\ AnswerGood(Session(o1, res.dom), res.ans)
  /\ res.accepted => res.ans.found
  /\ res.ans.found => Clear(occ, res.ans.at)
\* A result on the master.
ResultGood(scene, o1, res) ==
  res.accepted => /\ RegionGood(res.ans.at) /\ OnNode(o1, res.ans.node, res.ans.at)
                  /\ Clear(scene, res.ans.at)

\* What a worker answers is good in the session on its leaf.
LEMMA WorkerGood ==
  ASSUME TreeGood(o), occ \in SUBSET Int, cfg \in Configs, CountsGood(pairFail),
         NEW t, Planned(o, t), t.dom # NoNode, NEW res \in WorkerAnswers(t)
  PROVE  Answered(o, res)
<1> DEFINE s == Session(o, t.dom)
           opt == Options(TaskDepth(t))
           made(a) == [seed |-> t.seed, parent |-> t.parent, root |-> t.root, target |-> t.target,
                       dom |-> t.dom, ans |-> a, accepted |-> a.found]
<1>1. res \in {made(a) : a \in Find(s, occ, t.seed, opt)}
  BY Zenon DEF WorkerAnswers
<1>2. PICK a \in Find(s, occ, t.seed, opt) : res = made(a)
  BY <1>1, Zenon
<1>3. t.dom \in Nodes(o) /\ t.seed \in Units
  BY Zenon DEF Planned
<1>4. cfg.ffb \in FfbOptions
  BY ConfigGood
<1>5. TaskDepth(t) \in Int
  BY TaskDepthGood, Zenon
<1>6. opt.max \in Int /\ opt.mode \in {"linear", "virtual", "nodes"}
  BY <1>4, <1>5, OptionsShape, Zenon
<1>7. TreeGood(s) /\ Evident(s, opt.mode)
  BY <1>3, SessionGood
<1> HIDE DEF s, opt
<1>8. AnswerGood(s, a)
  BY <1>3, <1>6, <1>7, FindGood, Zenon
<1>9. AnswerFree(occ, opt.mode, a)
  BY <1>3, <1>6, <1>7, FindFree, Zenon
<1>10. a.found => Clear(occ, a.at)
  BY <1>9, Zenon DEF AnswerFree
<1>11. IsResult(res) /\ res.dom = t.dom /\ res.ans = a /\ (res.accepted => a.found)
  BY <1>2 DEF IsResult
<1>12. AnswerGood(Session(o, res.dom), res.ans)
  BY <1>8, <1>11 DEF s
<1> QED BY <1>3, <1>10, <1>11, <1>12 DEF Answered

\* No node is a node of no tree.
LEMMA NoNodeNowhere ==
  ASSUME NEW o1, TreeGood(o1)
  PROVE  NoNode \notin Nodes(o1)
<1>1. DOMAIN o1.tree = 1..Len(o1.tree) /\ Len(o1.tree) \in Nat
  BY SeqShape, Zenon DEF TreeGood
<1> QED BY <1>1 DEF Nodes, NoNode

\* The master and the results, as the results are adopted.
AdoptGood(acc) ==
  /\ acc = [o |-> acc.o, out |-> acc.out]
  /\ TreeGood(acc.o) /\ Extends(o, acc.o) /\ acc.o.rootEv = o.rootEv
  /\ IsSeq(acc.out) /\ \A res \in Range(acc.out) : ResultGood(occ, acc.o, res)

\* A result holds on a larger master.
LEMMA ResultKept ==
  ASSUME NEW scene, NEW o1, NEW o2, Extends(o1, o2), NEW res, ResultGood(scene, o1, res)
  PROVE  ResultGood(scene, o2, res)
BY OnNodeKept, Zenon DEF ResultGood

\* A worker's session fits the leaf it was given, however the master grew meanwhile.
LEMMA ReplayFits ==
  ASSUME TreeGood(o), NEW o1, TreeGood(o1), Extends(o, o1), NEW res, Answered(o, res)
  PROVE  Replayed(o1, res.ans.o, Replay(o1, res.ans.o, res.dom))
<1> DEFINE s == Session(o, res.dom)
           w == res.ans.o
           dom == res.dom
<1>1. dom \in Nodes(o) /\ AnswerGood(s, res.ans)
  BY Zenon DEF Answered
<1>2. TreeGood(w) /\ Extends(s, w)
  BY <1>1, Zenon DEF AnswerGood
<1>3. TreeGood(s) /\ Region(s, RootNode) = Region(o, dom) /\ Depth(s, RootNode) = Depth(o, dom)
  BY <1>1, SessionGood
<1>4. Region(w, RootNode) = Region(s, RootNode) /\ Depth(w, RootNode) = Depth(s, RootNode)
  <2> HIDE DEF s, w
  <2> QED BY <1>2, <1>3, SameRoot
<1>5. dom \in Nodes(o1) /\ Region(o1, dom) = Region(o, dom) /\ Depth(o1, dom) = Depth(o, dom)
  BY <1>1, Zenon DEF Extends
<1>6. Region(w, RootNode) = Region(o1, dom) /\ Depth(w, RootNode) = Depth(o1, dom)
  BY <1>3, <1>4, <1>5, Zenon
<1> QED BY <1>2, <1>5, <1>6, ReplayGood, Zenon

\* Adopting one more result.
LEMMA AdoptStepGood ==
  ASSUME TreeGood(o), NEW acc, AdoptGood(acc), NEW res, Answered(o, res)
  PROVE  AdoptGood(Adopt(acc, res))
<1> DEFINE a == res.ans
           rep == Replay(acc.o, res.ans.o, res.dom)
           node == IF a.node \in DOMAIN rep.map THEN rep.map[a.node] ELSE NoNode
           translated == Answer(a.o, a.found, node, a.at, a.code, a.cap)
           x == [res EXCEPT !.ans = translated, !.accepted = node # NoNode]
           next == Adopt(acc, res)
<1>1. next = IF ~res.accepted THEN [acc EXCEPT !.out = Append(acc.out, res)]
             ELSE [o |-> rep.o, out |-> Append(acc.out, x)]
  BY Zenon DEF Adopt
<1>2. /\ acc = [o |-> acc.o, out |-> acc.out]
      /\ TreeGood(acc.o) /\ Extends(o, acc.o) /\ acc.o.rootEv = o.rootEv
      /\ IsSeq(acc.out) /\ \A r \in Range(acc.out) : ResultGood(occ, acc.o, r)
  BY Zenon DEF AdoptGood
<1>3. CASE ~res.accepted
  <2>1. next = [o |-> acc.o, out |-> Append(acc.out, res)]
    BY <1>1, <1>2, <1>3
  <2>2. ResultGood(occ, acc.o, res)
    BY <1>3, Zenon DEF ResultGood
  <2>3. IsSeq(Append(acc.out, res)) /\ Range(Append(acc.out, res)) = Range(acc.out) \cup {res}
    BY <1>2, SeqAppend
  <2> HIDE DEF next
  <2>4. next.o = acc.o /\ next.out = Append(acc.out, res) /\ next = [o |-> next.o, out |-> next.out]
    BY <2>1
  <2>5. IsSeq(next.out) /\ \A r \in Range(next.out) : ResultGood(occ, acc.o, r)
    BY <1>2, <2>2, <2>3, <2>4
  <2>6. AdoptGood(next)
    BY <1>2, <2>4, <2>5 DEF AdoptGood
  <2> QED BY <2>6, Zenon DEF next
<1>4. CASE res.accepted
  <2>1. Replayed(acc.o, a.o, rep)
    BY <1>2, ReplayFits, Zenon
  <2>2. /\ TreeGood(rep.o) /\ Extends(acc.o, rep.o) /\ rep.o.rootEv = acc.o.rootEv
        /\ DOMAIN rep.map \subseteq Nodes(a.o)
        /\ \A w \in DOMAIN rep.map : /\ rep.map[w] \in Nodes(rep.o)
                                    /\ Region(rep.o, rep.map[w]) = Region(a.o, w)
    BY <2>1, Zenon DEF Replayed
  <2>3. IsResult(res) /\ a.found /\ Clear(occ, a.at) /\ AnswerGood(Session(o, res.dom), a)
    BY <1>4, Zenon DEF Answered
  <2>4. /\ TreeGood(a.o) /\ \E q \in Units, d \in 0..Res : a.at = Cell(q, d)
        /\ a.node # NoNode => Region(a.o, a.node) = a.at
    BY <2>3, Zenon DEF AnswerGood
  <2>5. RegionGood(a.at)
    BY <2>4, CellRegion, Zenon
  <2>6. NoNode \notin Nodes(a.o)
    BY <2>4, NoNodeNowhere, Zenon
  <2>7. node \in Nodes(rep.o) \cup {NoNode} /\ (node # NoNode => Region(rep.o, node) = a.at)
    <3>1. CASE a.node \in DOMAIN rep.map
      <4>1. node = rep.map[a.node] /\ a.node # NoNode
        BY <3>1, <2>2, <2>6, Zenon
      <4>2. node \in Nodes(rep.o) /\ Region(rep.o, node) = Region(a.o, a.node)
        BY <4>1, <3>1, <2>2, Zenon
      <4> QED BY <4>1, <4>2, <2>4, Zenon
    <3>2. CASE a.node \notin DOMAIN rep.map
      BY <3>2, Zenon
    <3> QED BY <3>1, <3>2, Zenon
  <2>8. OnNode(rep.o, node, a.at)
    BY <2>7, Zenon DEF OnNode
  <2>9. translated.node = node /\ translated.at = a.at
    BY DEF Answer
  <2>10. next = [o |-> rep.o, out |-> Append(acc.out, x)]
    BY <1>1, <1>4, Zenon
  <2> HIDE DEF a, rep, node, translated, next
  <2>11. PICK y : y = [res EXCEPT !.ans = translated]
    OBVIOUS
  <2>12. y = [seed |-> res.seed, parent |-> res.parent, root |-> res.root, target |-> res.target,
             dom |-> res.dom, ans |-> translated, accepted |-> res.accepted]
    BY <2>3, <2>11 DEF IsResult
  <2>13. x = [y EXCEPT !.accepted = node # NoNode]
    BY <2>11
  <2>14. x.ans = translated
    BY <2>12, <2>13
  <2> HIDE DEF x
  <2>15. x.ans.node = node /\ x.ans.at = a.at
    BY <2>9, <2>14
  <2>16. ResultGood(occ, rep.o, x)
    BY <2>3, <2>5, <2>8, <2>15 DEF ResultGood
  <2>17. \A r \in Range(acc.out) : ResultGood(occ, rep.o, r)
    BY <1>2, <2>2, ResultKept, Zenon
  <2>18. IsSeq(Append(acc.out, x)) /\ Range(Append(acc.out, x)) = Range(acc.out) \cup {x}
    BY <1>2, SeqAppend
  <2>19. next.o = rep.o /\ next.out = Append(acc.out, x) /\ next = [o |-> next.o, out |-> next.out]
    BY <2>10
  <2>20. Extends(o, rep.o) /\ rep.o.rootEv = o.rootEv
    BY <1>2, <2>2, ExtendsFurther, Zenon
  <2>21. IsSeq(next.out) /\ \A r \in Range(next.out) : ResultGood(occ, next.o, r)
    BY <2>16, <2>17, <2>18, <2>19
  <2>22. TreeGood(next.o) /\ Extends(o, next.o) /\ next.o.rootEv = o.rootEv
    BY <2>2, <2>19, <2>20
  <2>23. AdoptGood(next)
    BY <2>19, <2>21, <2>22, Zenon DEF AdoptGood
  <2> QED BY <2>23, Zenon DEF next
<1> QED BY <1>3, <1>4, Zenon

AdoptStart == [o |-> o, out |-> <<>>]

\* The replays of a batch, one result after the other.
LEMMA BatchUnfolds ==
  ASSUME NEW fs, IsSeq(fs)
  PROVE  \E u : /\ u[0] = AdoptStart /\ WorkerBatch(fs) = u[Len(fs)]
               /\ \A k \in 1..Len(fs) : u[k] = Adopt(u[k - 1], fs[k])
<1> DEFINE n == Len(fs)
           base == AdoptStart
           Op(x, k) == Adopt(x, fs[k])
           P(f, m) == f = [k \in 0..m |-> IF k = 0 THEN base ELSE Op(f[k - 1], k)]
           T == {m \in 0..n : \E f : P(f, m)}
           u == CHOOSE f : P(f, n)
<1>1. n \in Nat
  BY SeqShape
<1>2. WorkerBatch(fs) = u[n]
  BY Zenon DEF WorkerBatch, AdoptStart
<1> HIDE DEF n, base, Op
<1>3. 0 \in T
  <2>1. PICK f : f = [k \in 0..0 |-> base]
    OBVIOUS
  <2>2. P(f, 0)
    BY <2>1
  <2> HIDE DEF P
  <2> QED
    BY <1>1, <2>2
<1>4. \A k \in 1..n : k - 1 \in T => k \in T
  <2>1. SUFFICES ASSUME NEW m \in 1..n, m - 1 \in T PROVE \E f : P(f, m)
    BY <1>1
  <2>2. PICK p \in 0..n : p = m - 1 /\ m = p + 1 /\ p \in T
    BY <1>1, <2>1
  <2>3. PICK f : P(f, p)
    BY <2>2
  <2>4. \A k \in 0..p : f[k] = IF k = 0 THEN base ELSE Op(f[k - 1], k)
    BY <2>3
  <2>5. PICK g : g = [k \in 0..m |-> IF k = m THEN Op(f[p], m) ELSE f[k]]
    OBVIOUS
  <2>6. \A k \in 0..m : g[k] = IF k = 0 THEN base ELSE Op(g[k - 1], k)
    <3>1. SUFFICES ASSUME NEW k \in 0..m PROVE g[k] = IF k = 0 THEN base ELSE Op(g[k - 1], k)
      OBVIOUS
    <3>2. CASE k = m
      <4>1. k # 0 /\ k - 1 \in 0..m /\ k - 1 # m /\ k - 1 = p
        BY <1>1, <2>2, <3>2
      <4>2. g[k] = Op(f[p], k) /\ g[k - 1] = f[p]
        BY <2>5, <3>2, <4>1, Zenon
      <4> QED
        BY <4>1, <4>2, Zenon
    <3>3. CASE k # m
      <4>1. k \in 0..p /\ (k # 0 => k - 1 \in 0..m /\ k - 1 # m)
        BY <1>1, <2>2, <3>3
      <4>2. g[k] = f[k] /\ (k # 0 => g[k - 1] = f[k - 1])
        BY <2>5, <3>3, <4>1
      <4> QED
        BY <2>4, <4>1, <4>2, Zenon
    <3> QED
      BY <3>2, <3>3
  <2>7. g = [k \in 0..m |-> g[k]]
    BY <2>5
  <2> QED
    BY <2>6, <2>7
<1>5. n \in T
  <2> HIDE DEF T
  <2>1. \A k \in 0..n : k \in T
    BY <1>1, <1>3, <1>4, UpTo
  <2> QED
    BY <1>1, <2>1
<1>6. P(u, n)
  <2> HIDE DEF P
  <2> QED
    BY <1>5, Zenon
<1>7. \A k \in 0..n : u[k] = IF k = 0 THEN base ELSE Op(u[k - 1], k)
  <2> HIDE DEF u
  <2> QED
    BY <1>6
<1> HIDE DEF u, P, T
<1>8. u[0] = base
  BY <1>1, <1>7
<1>9. \A k \in 1..n : u[k] = Op(u[k - 1], k)
  BY <1>1, <1>7
<1> QED
  BY <1>2, <1>8, <1>9, Zenon DEF n, base, Op

\* Adopting them all.
LEMMA WorkerBatchGood ==
  ASSUME TreeGood(o), NEW f, IsSeq(f), \A k \in 1..Len(f) : Answered(o, f[k])
  PROVE  AdoptGood(WorkerBatch(f))
<1> DEFINE n == Len(f)
<1>1. n \in Nat
  BY SeqShape
<1>2. PICK u : /\ u[0] = AdoptStart /\ WorkerBatch(f) = u[Len(f)]
               /\ \A k \in 1..Len(f) : u[k] = Adopt(u[k - 1], f[k])
  BY BatchUnfolds
<1> DEFINE T == {k \in 0..n : AdoptGood(u[k])}
<1>3. AdoptGood(AdoptStart)
  <2>1. AdoptStart.o = o /\ AdoptStart.out = <<>>
        /\ AdoptStart = [o |-> AdoptStart.o, out |-> AdoptStart.out]
    BY DEF AdoptStart
  <2>2. Extends(o, o)
    BY ExtendsItself, Zenon
  <2>3. TreeGood(AdoptStart.o) /\ Extends(o, AdoptStart.o) /\ AdoptStart.o.rootEv = o.rootEv
    BY <2>1, <2>2
  <2>4. IsSeq(AdoptStart.out) /\ Range(AdoptStart.out) = {}
    BY <2>1, SeqEmpty
  <2> QED BY <2>1, <2>3, <2>4, Zenon DEF AdoptGood
<1>4. 0 \in T
  <2>1. AdoptGood(u[0])
    BY <1>2, <1>3, Zenon
  <2>2. 0 \in 0..n
    BY <1>1
  <2> QED BY <2>1, <2>2, Zenon
<1>5. \A k \in 1..n : k - 1 \in T => k \in T
  <2>1. SUFFICES ASSUME NEW k \in 1..n, k - 1 \in T
                 PROVE  k \in T
    BY Zenon
  <2> PICK acc : acc = u[k - 1]
    OBVIOUS
  <2> PICK res : res = f[k]
    OBVIOUS
  <2>2. AdoptGood(acc) /\ Answered(o, res)
    BY <2>1
  <2>3. AdoptGood(Adopt(acc, res))
    BY <2>2, AdoptStepGood
  <2>4. u[k] = Adopt(acc, res) /\ k \in 0..n
    BY <1>1, <1>2, <2>1
  <2> QED BY <2>3, <2>4
<1>6. \A k \in 0..n : k \in T
  <2> HIDE DEF T
  <2> QED BY <1>1, <1>4, <1>5, UpTo
<1>7. n \in T
  <2> HIDE DEF T
  <2> QED BY <1>1, <1>6
<1> QED BY <1>2, <1>7, Zenon

\* A batch of workers, whichever answers they find.
LEMMA AnswersGood ==
  ASSUME TreeGood(o), occ \in SUBSET Int, cfg \in Configs, CountsGood(pairFail),
         NEW p, PlanGood(o, TRUE, p), NEW f \in AllAnswers(p)
  PROVE  AdoptGood(WorkerBatch(f))
<1> DEFINE n == Len(p)
           set == UNION {WorkerAnswers(p[i]) : i \in DOMAIN p}
<1>1. n \in Nat /\ DOMAIN p = 1..n /\ \A i \in 1..n : p[i] \in Range(p)
  BY SeqShape DEF PlanGood
<1>2. f \in [DOMAIN p -> set] /\ \A i \in DOMAIN p : f[i] \in WorkerAnswers(p[i])
  BY Zenon DEF AllAnswers
<1> HIDE DEF n, set
<1>3. f = [k \in 1..n |-> f[k]]
  BY <1>1, <1>2
<1>4. IsSeq(f) /\ Len(f) = n
  BY <1>1, <1>3, SeqFunction
<1>5. \A k \in 1..n : Answered(o, f[k])
  <2>1. SUFFICES ASSUME NEW k \in 1..n
                 PROVE  Answered(o, f[k])
    BY Zenon
  <2> DEFINE t == p[k]
             res == f[k]
  <2>2. Planned(o, t) /\ t.dom # NoNode /\ res \in WorkerAnswers(t)
    BY <1>1, <1>2, Zenon DEF PlanGood
  <2> HIDE DEF t, res
  <2>3. Answered(o, res)
    BY <2>2, WorkerGood, Zenon
  <2> QED BY <2>3, Zenon DEF res
<1> QED BY <1>4, <1>5, WorkerBatchGood

-----------------------------------------------------------------------------
(* The inductive invariant.                                                *)

\* What the grower has built: a sound core over the whole line, within the
\* bound on the boxes.
Land ==
  /\ occ \in Scenes /\ cfg \in Configs
  /\ Core(boxes, o, nextId, twice) /\ Whole(o) /\ Len(boxes) <= cfg.maxBoxes
Counted ==
  /\ pc \in {"roots", "boot", "loop", "results", "tasks", "chain", "wave", "merge", "done"}
  /\ miss \in Nat /\ round \in 0..cfg.mergeRounds /\ CountsGood(pairFail)

\* The batch in hand belongs to the loop the grower is in, or comes back to
\* from a chain: its seeds are on the line, its results hold on the master.
Stage == IF pc = "chain" THEN chain.back ELSE pc
BatchFits(stage, todo, que, scene, o1) ==
  /\ IsSeq(todo)
  /\ stage = "roots" => todo = <<>> /\ IsSeq(que) /\ Range(que) \subseteq Units
  /\ stage \in {"boot", "tasks"} => \A t \in Range(todo) : t.seed \in Units
  /\ stage = "results" => \A res \in Range(todo) : ResultGood(scene, o1, res)
Batched ==
  /\ batch = [todo |-> batch.todo, ok |-> batch.ok, fails |-> batch.fails] /\ batch.fails \in Nat
  /\ BatchFits(Stage, batch.todo, queue, occ, o)
Chained ==
  /\ chain = [src |-> chain.src, steps |-> chain.steps, added |-> chain.added,
              fails |-> chain.fails, back |-> chain.back]
  /\ pc = "chain" => chain.back \in {"loop", "results", "tasks"}

GrowthInv == Land /\ Counted /\ Batched /\ Chained

\* With evidence that a search can trust, the boxes are free.
FreeInv == EvidenceFits => Evident(o, cfg.ffb.mode) /\ AllClear(occ, boxes)

\* Obstacles are numbers, whichever the scene.
LEMMA SceneGood ==
  ASSUME NEW scene \in Scenes
  PROVE  scene \in SUBSET Int
<1>1. scene \in SUBSET Units
  BY GrowthAssumption, Zenon
<1>2. Units \subseteq Int
  BY OracleAssumption DEF Units
<1> QED BY <1>1, <1>2, Zenon

-----------------------------------------------------------------------------
(* The first state.                                                        *)

\* The line is a cell.
LEMMA RootIsCell == 1 \in Units /\ Root = Cell(1, 0)
<1> DEFINE w == 2^Res
<1>1. w \in Nat \ {0}
  BY PowerOfTwo, OracleAssumption
<1>2. 1 \in 1..w
  BY <1>1
<1>3. Res - 0 = Res
  BY OracleAssumption
<1>4. Cell(1, 0) = <<((1 - 1) \div w) * w + 1, ((1 - 1) \div w + 1) * w>>
  BY <1>3 DEF Cell
<1> HIDE DEF w
<1>5. (1 - 1) \div w = 0
  BY <1>1, DivisionUnique
<1>6. 0 * w + 1 = 1 /\ (0 + 1) * w = w
  BY <1>1
<1>7. Cell(1, 0) = <<1, w>>
  BY <1>4, <1>5, <1>6
<1> QED BY <1>2, <1>7 DEF Root, Units, w

\* The seeds that are kept, one after the other.
LEMMA FreeSeedsUnfold ==
  ASSUME NEW seeds, IsSeq(seeds)
  PROVE  \E u : /\ u[0] = <<>> /\ FreeSeeds(seeds) = u[Len(seeds)]
               /\ \A k \in 1..Len(seeds) :
                    u[k] = (IF seeds[k] \in occ THEN u[k - 1] ELSE Append(u[k - 1], seeds[k]))
<1> DEFINE n == Len(seeds)
           base == <<>>
           Op(x, k) == (IF seeds[k] \in occ THEN x ELSE Append(x, seeds[k]))
           P(f, m) == f = [k \in 0..m |-> IF k = 0 THEN base ELSE Op(f[k - 1], k)]
           T == {m \in 0..n : \E f : P(f, m)}
           u == CHOOSE f : P(f, n)
<1>1. n \in Nat
  BY SeqShape
<1>2. FreeSeeds(seeds) = u[n]
  BY Zenon DEF FreeSeeds
<1> HIDE DEF n, base, Op
<1>3. 0 \in T
  <2>1. PICK f : f = [k \in 0..0 |-> base]
    OBVIOUS
  <2>2. P(f, 0)
    BY <2>1
  <2> HIDE DEF P
  <2> QED
    BY <1>1, <2>2
<1>4. \A k \in 1..n : k - 1 \in T => k \in T
  <2>1. SUFFICES ASSUME NEW m \in 1..n, m - 1 \in T PROVE \E f : P(f, m)
    BY <1>1
  <2>2. PICK p \in 0..n : p = m - 1 /\ m = p + 1 /\ p \in T
    BY <1>1, <2>1
  <2>3. PICK f : P(f, p)
    BY <2>2
  <2>4. \A k \in 0..p : f[k] = IF k = 0 THEN base ELSE Op(f[k - 1], k)
    BY <2>3
  <2>5. PICK g : g = [k \in 0..m |-> IF k = m THEN Op(f[p], m) ELSE f[k]]
    OBVIOUS
  <2>6. \A k \in 0..m : g[k] = IF k = 0 THEN base ELSE Op(g[k - 1], k)
    <3>1. SUFFICES ASSUME NEW k \in 0..m PROVE g[k] = IF k = 0 THEN base ELSE Op(g[k - 1], k)
      OBVIOUS
    <3>2. CASE k = m
      <4>1. k # 0 /\ k - 1 \in 0..m /\ k - 1 # m /\ k - 1 = p
        BY <1>1, <2>2, <3>2
      <4>2. g[k] = Op(f[p], k) /\ g[k - 1] = f[p]
        BY <2>5, <3>2, <4>1, Zenon
      <4> QED
        BY <4>1, <4>2, Zenon
    <3>3. CASE k # m
      <4>1. k \in 0..p /\ (k # 0 => k - 1 \in 0..m /\ k - 1 # m)
        BY <1>1, <2>2, <3>3
      <4>2. g[k] = f[k] /\ (k # 0 => g[k - 1] = f[k - 1])
        BY <2>5, <3>3, <4>1
      <4> QED
        BY <2>4, <4>1, <4>2, Zenon
    <3> QED
      BY <3>2, <3>3
  <2>7. g = [k \in 0..m |-> g[k]]
    BY <2>5
  <2> QED
    BY <2>6, <2>7
<1>5. n \in T
  <2> HIDE DEF T
  <2>1. \A k \in 0..n : k \in T
    BY <1>1, <1>3, <1>4, UpTo
  <2> QED
    BY <1>1, <2>1
<1>6. P(u, n)
  <2> HIDE DEF P
  <2> QED
    BY <1>5, Zenon
<1>7. \A k \in 0..n : u[k] = IF k = 0 THEN base ELSE Op(u[k - 1], k)
  <2> HIDE DEF u
  <2> QED
    BY <1>6
<1> HIDE DEF u, P, T
<1>8. u[0] = base
  BY <1>1, <1>7
<1>9. \A k \in 1..n : u[k] = Op(u[k - 1], k)
  BY <1>1, <1>7
<1> QED
  BY <1>2, <1>8, <1>9, Zenon DEF n, base, Op

\* The seeds that are kept are on the line.
LEMMA FreeSeedsGood ==
  ASSUME NEW seeds \in SeedLists
  PROVE  IsSeq(FreeSeeds(seeds)) /\ Range(FreeSeeds(seeds)) \subseteq Units
<1>1. seeds \in Seq(Units)
  BY GrowthAssumption, Zenon
<1>2. IsSeq(seeds) /\ Range(seeds) \subseteq Units
  BY <1>1, SeqTyped
<1> DEFINE n == Len(seeds)
<1>3. n \in Nat /\ \A k \in 1..n : seeds[k] \in Units
  BY <1>2, SeqShape
<1>4. PICK u : /\ u[0] = <<>> /\ FreeSeeds(seeds) = u[Len(seeds)]
               /\ \A k \in 1..Len(seeds) :
                    u[k] = (IF seeds[k] \in occ THEN u[k - 1] ELSE Append(u[k - 1], seeds[k]))
  BY <1>2, FreeSeedsUnfold
<1> DEFINE T == {k \in 0..n : IsSeq(u[k]) /\ Range(u[k]) \subseteq Units}
<1>5. 0 \in T
  <2>1. IsSeq(u[0]) /\ Range(u[0]) = {}
    BY <1>4, SeqEmpty
  <2>2. 0 \in 0..n
    BY <1>3
  <2> QED BY <2>1, <2>2
<1>6. \A k \in 1..n : k - 1 \in T => k \in T
  <2>1. SUFFICES ASSUME NEW k \in 1..n, k - 1 \in T
                 PROVE  k \in T
    BY Zenon
  <2> DEFINE v == u[k - 1]
             x == seeds[k]
  <2>2. IsSeq(v) /\ Range(v) \subseteq Units /\ x \in Units /\ k \in 0..n
    BY <1>3, <2>1
  <2>3. u[k] = (IF x \in occ THEN v ELSE Append(v, x))
    BY <1>4, <2>1, Zenon
  <2> HIDE DEF v, x
  <2>4. IsSeq(Append(v, x)) /\ Range(Append(v, x)) = Range(v) \cup {x}
    BY <2>2, SeqAppend
  <2>5. IsSeq(u[k]) /\ Range(u[k]) \subseteq Units
    BY <2>2, <2>3, <2>4
  <2> QED BY <2>2, <2>5
<1>7. \A k \in 0..n : k \in T
  <2> HIDE DEF T
  <2> QED BY <1>3, <1>5, <1>6, UpTo
<1>8. n \in T
  <2> HIDE DEF T
  <2> QED BY <1>3, <1>7
<1> QED BY <1>4, <1>8, Zenon

\* The core holds of no boxes and a new oracle.
LEMMA InitCore ==
  ASSUME NEW store
  PROVE  LET o1 == NewOracle(Root, 0, store) IN
         /\ Core(<<>>, o1, 0, {}) /\ Whole(o1)
         /\ \A mode : (mode = "virtual" => store = FALSE) => Evident(o1, mode)
<1> DEFINE o1 == NewOracle(Root, 0, store)
<1>1. 0 \in 0..MaxTreeDepth - 1
  BY OracleAssumption
<1>2. /\ TreeGood(o1) /\ Region(o1, RootNode) = Root
      /\ o1.rootEv = NoRegion /\ o1.store = store /\ o1.boxOf = <<>> /\ o1.nodeOf = <<>>
  BY <1>1, RootIsCell, NewOracleGood
<1> HIDE DEF o1
<1>3. IsSeq(<<>>) /\ DOMAIN <<>> = {}
  BY SeqEmpty
<1>4. BoxesGood(<<>>, 0)
  BY <1>3 DEF BoxesGood
<1>5. MapsAgree(o1, 0, {})
  BY <1>2, <1>3 DEF MapsAgree
<1>6. Reserved(<<>>, o1, {})
  BY <1>2, <1>3 DEF Reserved
<1>7. Core(<<>>, o1, 0, {})
  BY <1>2, <1>3, <1>4, <1>5, <1>6 DEF Core
<1>8. Whole(o1)
  BY <1>2, OracleAssumption DEF Whole, Root, Units, Within
<1>9. \A mode : (mode = "virtual" => store = FALSE) => Evident(o1, mode)
  BY <1>2 DEF Evident
<1> QED BY <1>7, <1>8, <1>9 DEF o1

\* The first state is in the invariant.
LEMMA InitGood ==
  ASSUME Init
  PROVE  GrowthInv /\ FreeInv
<1>1. /\ occ \in Scenes /\ cfg \in Configs /\ o = NewOracle(Root, 0, cfg.store)
      /\ boxes = <<>> /\ nextId = 0 /\ pairFail = <<>> /\ pc = "roots"
      /\ batch = NoBatch /\ chain = NoChain /\ miss = 0 /\ round = 0 /\ twice = {}
  BY Zenon DEF Init
<1>2. /\ Core(<<>>, o, 0, {}) /\ Whole(o)
      /\ \A mode : (mode = "virtual" => cfg.store = FALSE) => Evident(o, mode)
  BY <1>1, InitCore, Zenon
<1>3. cfg.mergeRounds \in Nat /\ cfg.maxBoxes \in Nat
  BY <1>1, ConfigGood
<1>4. IsSeq(<<>>) /\ Len(<<>>) = 0 /\ DOMAIN <<>> = {}
  BY SeqEmpty
<1>5. PICK seeds \in SeedLists : queue = FreeSeeds(seeds)
  BY Zenon DEF Init
<1>6. IsSeq(queue) /\ Range(queue) \subseteq Units
  BY <1>5, FreeSeedsGood, Zenon
<1>7. Land
  BY <1>1, <1>2, <1>3, <1>4 DEF Land
<1>8. Counted
  BY <1>1, <1>3, <1>4 DEF Counted, CountsGood
<1>9. Stage = "roots" /\ batch.todo = <<>> /\ batch.fails = 0
      /\ batch = [todo |-> batch.todo, ok |-> batch.ok, fails |-> batch.fails]
  BY <1>1 DEF Stage, NoBatch
<1>10. BatchFits(Stage, batch.todo, queue, occ, o)
  BY <1>4, <1>6, <1>9 DEF BatchFits
<1>11. Batched
  BY <1>9, <1>10 DEF Batched
<1>12. Chained
  BY <1>1 DEF Chained, NoChain
<1>13. FreeInv
  BY <1>1, <1>2, <1>4 DEF FreeInv, EvidenceFits, AllClear
<1> QED BY <1>7, <1>8, <1>11, <1>12, <1>13 DEF GrowthInv

-----------------------------------------------------------------------------
(* What a step does to the land, to the batch and to the chain.            *)

\* Nothing the land is made of changes.
LandIdle == UNCHANGED <<occ, cfg, o, boxes, nextId, twice>>

\* A step that leaves the land alone.
LEMMA LandStays ==
  ASSUME Land, LandIdle
  PROVE  Land' /\ RegionsKept(o, o') /\ (FreeInv => FreeInv')
<1>1. Land'
  BY Zenon DEF Land, LandIdle
<1>2. RegionsKept(o, o')
  BY DEF LandIdle, RegionsKept
<1>3. FreeInv => FreeInv'
  BY Zenon DEF FreeInv, EvidenceFits, LandIdle
<1> QED BY <1>1, <1>2, <1>3

\* A box that create_box makes while there is room.
LEMMA CreatedGood ==
  ASSUME Land, UNCHANGED <<occ, cfg>>, ~Full(boxes), NEW seed \in Units, NEW depth \in Int,
         NEW parent, NEW root,
         NEW s \in CreateBox(boxes, o, nextId, cooling, seed, parent, root, depth), Take(s)
  PROVE  Land' /\ RegionsKept(o, o') /\ (FreeInv => FreeInv')
<1>1. /\ occ \in Scenes /\ cfg \in Configs /\ Core(boxes, o, nextId, twice) /\ Whole(o)
  BY Zenon DEF Land
<1>2. cfg.ffb \in FfbOptions /\ cfg.maxBoxes \in Nat
  BY <1>1, ConfigGood
<1>3. occ \in SUBSET Int
  BY <1>1, SceneGood, Zenon
<1>4. StateGood(boxes, o, nextId, twice, s)
  BY <1>1, <1>2, CreateGood
<1>5. /\ Core(boxes', o', nextId', twice') /\ Whole(o') /\ RegionsKept(o, o')
      /\ Len(boxes') <= Len(boxes) + 1
  BY <1>1, <1>4, TakeGood
<1>6. Len(boxes') <= cfg.maxBoxes
  <2>1. Len(boxes) \in Nat /\ Len(boxes') \in Nat
    BY <1>1, <1>5, SeqShape DEF Core, BoxesGood
  <2>2. Len(boxes) < cfg.maxBoxes
    BY <1>2, <2>1 DEF Full
  <2> QED BY <1>2, <1>5, <2>1, <2>2
<1>7. Land'
  BY <1>1, <1>5, <1>6 DEF Land
<1>8. ASSUME FreeInv
      PROVE  FreeInv'
  <2>1. SUFFICES ASSUME EvidenceFits
                 PROVE  Evident(o', cfg.ffb.mode) /\ AllClear(occ, boxes')
    BY Zenon DEF FreeInv, EvidenceFits
  <2>2. Evident(o, cfg.ffb.mode) /\ AllClear(occ, boxes)
    BY <1>8, <2>1, Zenon DEF FreeInv
  <2>3. StateFree(occ, cfg.ffb.mode, s)
    BY <1>1, <1>2, <1>3, <2>2, CreateFree
  <2>4. boxes' = s.boxes /\ o' = s.o
    BY Zenon DEF Take
  <2> QED BY <2>3, <2>4, Zenon DEF StateFree
<1> QED BY <1>5, <1>7, <1>8

\* A worker's result that is committed while there is room.
LEMMA CommittedGood ==
  ASSUME Land, UNCHANGED <<occ, cfg>>, ~Full(boxes), NEW res, res.accepted, ResultGood(occ, o, res),
         Take(CommitBox(boxes, o, nextId, cooling, res))
  PROVE  Land' /\ RegionsKept(o, o') /\ (FreeInv => FreeInv')
<1> DEFINE s == CommitBox(boxes, o, nextId, cooling, res)
           kept == State(FALSE, boxes, o, nextId, cooling, res.ans)
           made == Commit(boxes, o, nextId, cooling, res.ans, res.seed, res.parent, res.root)
<1>1. /\ occ \in Scenes /\ cfg \in Configs /\ Core(boxes, o, nextId, twice) /\ Whole(o)
  BY Zenon DEF Land
<1>2. cfg.maxBoxes \in Nat
  BY <1>1, ConfigGood
<1>3. RegionGood(res.ans.at) /\ OnNode(o, res.ans.node, res.ans.at) /\ Clear(occ, res.ans.at)
  BY Zenon DEF ResultGood
<1>4. TreeGood(o) /\ Extends(o, o) /\ BoxesGood(boxes, nextId) /\ nextId \in Nat
  BY <1>1, ExtendsItself, Zenon DEF Core, BoxesGood
<1>5. s = kept \/ s = made
  BY Zenon DEF CommitBox
<1>6. StateGood(boxes, o, nextId, twice, kept)
  <2>1. nextId >= nextId
    BY <1>4
  <2> QED BY <1>1, <1>4, <2>1, KeptGood, Zenon
<1>7. StateGood(boxes, o, nextId, twice, made)
  BY <1>1, <1>3, <1>4, CommitGood
<1>8. ASSUME Evident(o, cfg.ffb.mode), AllClear(occ, boxes)
      PROVE  StateFree(occ, cfg.ffb.mode, kept) /\ StateFree(occ, cfg.ffb.mode, made)
  <2>1. StateFree(occ, cfg.ffb.mode, kept)
    <3>1. kept.o = o /\ kept.boxes = boxes
      BY DEF State
    <3> HIDE DEF kept
    <3> QED BY <1>8, <3>1, Zenon DEF StateFree
  <2>2. StateFree(occ, cfg.ffb.mode, made)
    BY <1>3, <1>4, <1>8, CommitFree
  <2> QED BY <2>1, <2>2
<1> HIDE DEF kept, made
<1>9. StateGood(boxes, o, nextId, twice, s)
  BY <1>5, <1>6, <1>7, Zenon
<1>10. Take(s)
  OBVIOUS
<1> HIDE DEF s
<1>11. /\ Core(boxes', o', nextId', twice') /\ Whole(o') /\ RegionsKept(o, o')
       /\ Len(boxes') <= Len(boxes) + 1
  BY <1>1, <1>9, <1>10, TakeGood
<1>12. Len(boxes') <= cfg.maxBoxes
  <2>1. Len(boxes) \in Nat /\ Len(boxes') \in Nat
    BY <1>1, <1>11, SeqShape DEF Core, BoxesGood
  <2>2. Len(boxes) < cfg.maxBoxes
    BY <1>2, <2>1 DEF Full
  <2> QED BY <1>2, <1>11, <2>1, <2>2
<1>13. Land'
  BY <1>1, <1>11, <1>12 DEF Land
<1>14. ASSUME FreeInv
       PROVE  FreeInv'
  <2>1. SUFFICES ASSUME EvidenceFits
                 PROVE  Evident(o', cfg.ffb.mode) /\ AllClear(occ, boxes')
    BY Zenon DEF FreeInv, EvidenceFits
  <2>2. Evident(o, cfg.ffb.mode) /\ AllClear(occ, boxes)
    BY <1>14, <2>1, Zenon DEF FreeInv
  <2>3. StateFree(occ, cfg.ffb.mode, s)
    BY <1>5, <1>8, <2>2, Zenon
  <2>4. boxes' = s.boxes /\ o' = s.o
    BY <1>10, Zenon DEF Take
  <2> QED BY <2>3, <2>4, Zenon DEF StateFree
<1> QED BY <1>11, <1>13, <1>14

\* The sessions of a batch, replayed into the master.
LEMMA AdoptedGood ==
  ASSUME Land, UNCHANGED <<occ, cfg, boxes, nextId, twice>>, NEW acc, AdoptGood(acc), o' = acc.o
  PROVE  Land' /\ RegionsKept(o, o') /\ (FreeInv => FreeInv')
<1>1. /\ occ \in Scenes /\ cfg \in Configs /\ Core(boxes, o, nextId, twice) /\ Whole(o)
      /\ Len(boxes) <= cfg.maxBoxes
  BY Zenon DEF Land
<1>2. TreeGood(o') /\ Extends(o, o') /\ o'.rootEv = o.rootEv
  BY Zenon DEF AdoptGood
<1>3. RegionsKept(o, o')
  BY <1>2 DEF Extends, RegionsKept
<1>4. TreeGood(o)
  BY <1>1, Zenon DEF Core
<1>5. Whole(o')
  BY <1>1, <1>3, <1>4, RootKept, Zenon
<1>6. Core(boxes, o', nextId, twice)
  BY <1>1, <1>2, CoreKept, Zenon
<1>7. Land'
  BY <1>1, <1>5, <1>6 DEF Land
<1>8. ASSUME FreeInv
      PROVE  FreeInv'
  <2>1. SUFFICES ASSUME EvidenceFits
                 PROVE  Evident(o', cfg.ffb.mode) /\ AllClear(occ, boxes')
    BY Zenon DEF FreeInv, EvidenceFits
  <2>2. Evident(o, cfg.ffb.mode) /\ AllClear(occ, boxes)
    BY <1>8, <2>1, Zenon DEF FreeInv
  <2>3. Evident(o', cfg.ffb.mode)
    BY <1>2, <1>4, <2>2, EvidentKept, Zenon
  <2> QED BY <2>2, <2>3
<1> QED BY <1>3, <1>7, <1>8

\* What is left of a sequence after its head.
LEMMA SeqRest ==
  ASSUME NEW s, IsSeq(s), s # <<>>
  PROVE  /\ IsSeq(Tail(s)) /\ Range(Tail(s)) \subseteq Range(s)
         /\ Head(s) \in Range(s)
<1>1. IsSeq(Tail(s)) /\ Head(s) \in Range(s) /\ Range(s) = {Head(s)} \cup Range(Tail(s))
  BY SeqTail
<1> QED BY <1>1, Zenon

\* A result that holds on the master goes on holding.
LEMMA ResultStays ==
  ASSUME NEW scene, NEW o1, NEW o2, RegionsKept(o1, o2), NEW res, ResultGood(scene, o1, res)
  PROVE  ResultGood(scene, o2, res)
BY OnNodeStays, Zenon DEF ResultGood

\* A batch survives the growth of the master.
LEMMA BatchStays ==
  ASSUME NEW stage, stage # "roots", NEW todo, NEW que, NEW que2, NEW scene, NEW o1, NEW o2,
         BatchFits(stage, todo, que, scene, o1), RegionsKept(o1, o2)
  PROVE  BatchFits(stage, todo, que2, scene, o2)
<1>1. stage = "results" => \A res \in Range(todo) : ResultGood(scene, o2, res)
  BY ResultStays, Zenon DEF BatchFits
<1> QED BY <1>1, Zenon DEF BatchFits

\* So does what is left of it after its first element.
LEMMA BatchTail ==
  ASSUME NEW stage, stage # "roots", NEW todo, todo # <<>>, NEW que, NEW que2, NEW scene,
         NEW o1, NEW o2, BatchFits(stage, todo, que, scene, o1), RegionsKept(o1, o2)
  PROVE  BatchFits(stage, Tail(todo), que2, scene, o2)
<1>1. BatchFits(stage, todo, que2, scene, o2)
  BY BatchStays, Zenon
<1>2. IsSeq(todo)
  BY Zenon DEF BatchFits
<1>3. IsSeq(Tail(todo)) /\ Range(Tail(todo)) \subseteq Range(todo)
  BY <1>2, SeqRest
<1> QED BY <1>1, <1>3, Zenon DEF BatchFits

\* Nothing is promised of an empty batch.
LEMMA BatchEmpty ==
  ASSUME NEW stage, stage # "roots", NEW que, NEW scene, NEW o1
  PROVE  BatchFits(stage, <<>>, que, scene, o1)
BY SeqEmpty DEF BatchFits

\* Nothing is promised of a batch that no loop has in hand.
LEMMA BatchIdle ==
  ASSUME NEW stage, stage \notin {"roots", "boot", "tasks", "results"}, NEW todo, IsSeq(todo),
         NEW que, NEW scene, NEW o1
  PROVE  BatchFits(stage, todo, que, scene, o1)
BY Zenon DEF BatchFits

\* After a task the grower is in the loop it was in, or in a chain that comes
\* back to it.
LEMMA StageAfter ==
  ASSUME NEW t, NEW ok, NEW back \in {"loop", "results", "tasks"},
         pc' = PcFor(t, ok, back), chain' = ChainFor(t, ok, back)
  PROVE  Stage' = back /\ Chained' /\ pc' \in {"loop", "results", "tasks", "chain"}
<1>1. CASE ok /\ t.target # NoTarget /\ cfg.chain > 0
  <2>1. pc' = "chain" /\ chain' = [NoChain EXCEPT !.src = t.root, !.back = back]
    BY <1>1, Zenon DEF PcFor, ChainFor
  <2>2. chain'.back = back
        /\ chain' = [src |-> chain'.src, steps |-> chain'.steps, added |-> chain'.added,
                     fails |-> chain'.fails, back |-> chain'.back]
    BY <2>1 DEF NoChain
  <2> QED BY <2>1, <2>2 DEF Stage, Chained
<1>2. CASE ~(ok /\ t.target # NoTarget /\ cfg.chain > 0)
  <2>1. pc' = back /\ chain' = NoChain
    BY <1>2, Zenon DEF PcFor, ChainFor
  <2>2. chain' = [src |-> chain'.src, steps |-> chain'.steps, added |-> chain'.added,
                  fails |-> chain'.fails, back |-> chain'.back]
    BY <2>1 DEF NoChain
  <2> QED BY <2>1, <2>2 DEF Stage, Chained
<1> QED BY <1>1, <1>2, Zenon

-----------------------------------------------------------------------------
(* Every step keeps the invariant.                                         *)

\* A box for a root seed.
LEMMA GrowRootGood ==
  ASSUME GrowthInv, FreeInv, GrowRoot
  PROVE  GrowthInv' /\ FreeInv'
<1>1. Land /\ Counted /\ Batched /\ Chained
  BY Zenon DEF GrowthInv
<1>2. pc = "roots" /\ queue # <<>> /\ ~Full(boxes) /\ queue' = Tail(queue)
      /\ UNCHANGED <<occ, cfg, pairFail, pc, batch, chain, miss, round>>
  BY Zenon DEF GrowRoot
<1>3. PICK s \in CreateBox(boxes, o, nextId, cooling, Head(queue), -1, Len(queue), cfg.depth) :
        Take(s)
  BY Zenon DEF GrowRoot
<1>4. Stage = "roots" /\ Stage' = "roots"
  BY <1>2 DEF Stage
<1>5. batch.todo = <<>> /\ IsSeq(queue) /\ Range(queue) \subseteq Units
  BY <1>1, <1>4, Zenon DEF Batched, BatchFits
<1>6. /\ IsSeq(Tail(queue)) /\ Range(Tail(queue)) \subseteq Range(queue)
      /\ Head(queue) \in Range(queue)
  BY <1>2, <1>5, SeqRest
<1>7. Head(queue) \in Units
  BY <1>5, <1>6, Zenon
<1>8. cfg.depth \in Int
  BY <1>1, ConfigGood DEF Land
<1>9. Land' /\ RegionsKept(o, o') /\ FreeInv'
  BY <1>1, <1>2, <1>3, <1>7, <1>8, CreatedGood
<1>10. Counted' /\ Chained'
  BY <1>1, <1>2, Zenon DEF Counted, Chained
<1>11. BatchFits("roots", <<>>, Tail(queue), occ, o')
  BY <1>5, <1>6, SeqEmpty DEF BatchFits
<1>12. batch'.todo = <<>> /\ batch' = batch
  BY <1>2, <1>5, Zenon
<1>13. Batched'
  BY <1>1, <1>2, <1>4, <1>11, <1>12 DEF Batched
<1> QED BY <1>9, <1>10, <1>13 DEF GrowthInv

\* The roots are grown.
LEMMA RootsGrownGood ==
  ASSUME GrowthInv, FreeInv, RootsGrown
  PROVE  GrowthInv' /\ FreeInv'
<1>1. Land /\ Counted /\ Batched /\ Chained
  BY Zenon DEF GrowthInv
<1>2. pc = "roots" /\ pc' = (IF cfg.wave THEN "wave" ELSE IF cfg.boot > 0 THEN "boot" ELSE "loop")
      /\ UNCHANGED <<occ, cfg, o, boxes, nextId, cooling, pairFail, batch, chain, miss, round, twice>>
  BY Zenon DEF RootsGrown
<1>3. pc' \in {"wave", "boot", "loop"}
  BY <1>2
<1>4. Land' /\ RegionsKept(o, o') /\ FreeInv'
  BY <1>1, <1>2, LandStays DEF LandIdle
<1>5. Counted' /\ Chained'
  BY <1>1, <1>2, <1>3 DEF Counted, Chained
<1>6. Stage = "roots" /\ Stage' = pc' /\ Stage' # "roots"
  BY <1>2, <1>3 DEF Stage
<1>7. batch.todo = <<>>
  BY <1>1, <1>6, Zenon DEF Batched, BatchFits
<1>8. BatchFits(Stage', <<>>, queue', occ', o')
  BY <1>6, BatchEmpty, Zenon
<1>9. Batched'
  BY <1>1, <1>2, <1>7, <1>8 DEF Batched
<1> QED BY <1>4, <1>5, <1>9 DEF GrowthInv

\* The faces of a front box of the bootstrap.
LEMMA BootFrontGood ==
  ASSUME GrowthInv, FreeInv, BootFront
  PROVE  GrowthInv' /\ FreeInv'
<1> DEFINE front == BoxOf(boxes, Head(queue))
           ts(qs) == [i \in DOMAIN qs |-> Task(qs[i], front.id, front.root, NoTarget)]
<1>1. Land /\ Counted /\ Batched /\ Chained
  BY Zenon DEF GrowthInv
<1>2. pc = "boot"
      /\ UNCHANGED <<occ, cfg, o, boxes, nextId, cooling, pairFail, pc, chain, miss, round, twice>>
  BY Zenon DEF BootFront
<1>3. PICK qs \in SetToSeqs(FaceSeeds(front.at)) : batch' = [NoBatch EXCEPT !.todo = ts(qs)]
  BY Zenon DEF BootFront
<1> DEFINE todo == ts(qs)
<1>4. IsSeq(todo) /\ \A t \in Range(todo) : TaskGood(t)
  BY <1>3, FaceOrders
<1>5. batch' = [NoBatch EXCEPT !.todo = todo]
  BY <1>3
<1> HIDE DEF todo
<1>6. /\ batch'.todo = todo /\ batch'.fails \in Nat
      /\ batch' = [todo |-> batch'.todo, ok |-> batch'.ok, fails |-> batch'.fails]
  BY <1>5 DEF NoBatch
<1>7. Land' /\ RegionsKept(o, o') /\ FreeInv'
  BY <1>1, <1>2, LandStays DEF LandIdle
<1>8. Counted' /\ Chained'
  BY <1>1, <1>2 DEF Counted, Chained
<1>9. Stage' = "boot"
  BY <1>2 DEF Stage
<1>10. BatchFits("boot", todo, queue', occ', o')
  BY <1>4 DEF BatchFits, TaskGood
<1>11. Batched'
  BY <1>6, <1>9, <1>10 DEF Batched
<1> QED BY <1>7, <1>8, <1>11 DEF GrowthInv

\* One of these faces.
LEMMA BootFaceGood ==
  ASSUME GrowthInv, FreeInv, BootFace
  PROVE  GrowthInv' /\ FreeInv'
<1> DEFINE t == Head(batch.todo)
<1>1. Land /\ Counted /\ Batched /\ Chained
  BY Zenon DEF GrowthInv
<1>2. pc = "boot" /\ batch.todo # <<>> /\ Len(boxes) < cfg.boot
      /\ batch' = [batch EXCEPT !.todo = Tail(batch.todo)]
      /\ UNCHANGED <<occ, cfg, pairFail, pc, chain, round>>
  BY Zenon DEF BootFace
<1>3. Stage = "boot" /\ Stage' = "boot"
  BY <1>2 DEF Stage
<1>4. /\ batch = [todo |-> batch.todo, ok |-> batch.ok, fails |-> batch.fails] /\ batch.fails \in Nat
      /\ BatchFits("boot", batch.todo, queue, occ, o)
  BY <1>1, <1>3, Zenon DEF Batched
<1>5. IsSeq(batch.todo) /\ \A x \in Range(batch.todo) : x.seed \in Units
  BY <1>4, Zenon DEF BatchFits
<1>6. t.seed \in Units
  BY <1>2, <1>5, SeqRest, Zenon
<1>7. cfg.depth \in Int /\ cfg.maxBoxes \in Nat /\ cfg.boot \in Int /\ cfg.boot <= cfg.maxBoxes
  BY <1>1, ConfigGood, Zenon DEF Land
<1>8. ~Full(boxes)
  <2>1. Len(boxes) \in Nat
    BY <1>1, SeqShape DEF Land, Core, BoxesGood
  <2> QED BY <1>2, <1>7, <2>1 DEF Full
<1>9. miss \in Nat
  BY <1>1, Zenon DEF Counted
<1>10. Land' /\ RegionsKept(o, o') /\ FreeInv' /\ miss' \in Nat
  <2>1. CASE UNCHANGED <<boxes, o, nextId, cooling, twice, queue, miss>>
    BY <1>1, <1>2, <1>9, <2>1, LandStays DEF LandIdle
  <2>2. CASE ~Covered(boxes, t.seed)
    <3>1. PICK s \in CreateBox(boxes, o, nextId, cooling, t.seed, t.parent, t.root, cfg.depth) :
            Take(s) /\ miss' = IF s.ok THEN 0 ELSE miss + 1
      BY <2>2, Zenon DEF BootFace
    <3>2. miss' \in Nat
      BY <1>9, <3>1
    <3>3. Land' /\ RegionsKept(o, o') /\ FreeInv'
      BY <1>1, <1>2, <1>6, <1>7, <1>8, <3>1, CreatedGood
    <3> QED BY <3>2, <3>3
  <2> QED BY <2>1, <2>2, Zenon DEF BootFace
<1>11. Counted' /\ Chained'
  BY <1>1, <1>2, <1>10 DEF Counted, Chained
<1>12. BatchFits("boot", Tail(batch.todo), queue', occ, o')
  BY <1>2, <1>4, <1>10, BatchTail
<1>13. batch' = [todo |-> Tail(batch.todo), ok |-> batch.ok, fails |-> batch.fails]
  <2> DEFINE b == batch
             rest == Tail(batch.todo)
  <2>1. batch' = [b EXCEPT !.todo = rest] /\ b = [todo |-> b.todo, ok |-> b.ok, fails |-> b.fails]
    BY <1>2, <1>4, Zenon
  <2> HIDE DEF b, rest
  <2>2. batch' = [todo |-> rest, ok |-> b.ok, fails |-> b.fails]
    BY <2>1
  <2> QED BY <2>2, Zenon DEF b, rest
<1>14. /\ batch'.todo = Tail(batch.todo) /\ batch'.fails \in Nat
       /\ batch' = [todo |-> batch'.todo, ok |-> batch'.ok, fails |-> batch'.fails]
  BY <1>4, <1>13
<1>15. Batched'
  BY <1>2, <1>3, <1>12, <1>14 DEF Batched
<1> QED BY <1>10, <1>11, <1>15 DEF GrowthInv

\* Steps that leave the land as it is and end the batch, if there is one.
LEMMA QuietGood ==
  ASSUME GrowthInv, FreeInv, LandIdle, UNCHANGED <<pairFail, round>>, miss' \in Nat,
         pc' \in {"loop", "wave", "merge", "done"},
         batch' = NoBatch \/ batch' = batch, chain' = NoChain \/ chain' = chain
  PROVE  GrowthInv' /\ FreeInv'
<1>1. Land /\ Counted /\ Batched /\ Chained
  BY Zenon DEF GrowthInv
<1>2. Land' /\ FreeInv'
  BY <1>1, LandStays
<1>3. Counted'
  BY <1>1 DEF Counted, LandIdle
<1>4. Chained'
  BY <1>1 DEF Chained, NoChain
<1>5. Stage' = pc'
  BY DEF Stage
<1>6. IsSeq(batch.todo)
  BY <1>1, Zenon DEF Batched, BatchFits
<1>7. IsSeq(batch'.todo) /\ batch'.fails \in Nat
      /\ batch' = [todo |-> batch'.todo, ok |-> batch'.ok, fails |-> batch'.fails]
  <2>1. CASE batch' = NoBatch
    BY <2>1, SeqEmpty DEF NoBatch
  <2>2. CASE batch' = batch
    BY <1>1, <1>6, <2>2, Zenon DEF Batched
  <2> QED BY <2>1, <2>2
<1>8. BatchFits(Stage', batch'.todo, queue', occ', o')
  <2>1. Stage' \notin {"roots", "boot", "tasks", "results"}
    BY <1>5
  <2> QED BY <1>7, <2>1, BatchIdle
<1>9. Batched'
  BY <1>7, <1>8 DEF Batched
<1> QED BY <1>2, <1>3, <1>4, <1>9 DEF GrowthInv

\* The bootstrap is over.
LEMMA BootDoneGood ==
  ASSUME GrowthInv, FreeInv, BootDone
  PROVE  GrowthInv' /\ FreeInv'
BY QuietGood DEF BootDone, LandIdle

\* The main loop is over.
LEMMA LoopDoneGood ==
  ASSUME GrowthInv, FreeInv, LoopDone
  PROVE  GrowthInv' /\ FreeInv'
BY QuietGood DEF LoopDone, LandIdle, GrowthInv, Counted

\* The wave front is over.
LEMMA WaveDoneGood ==
  ASSUME GrowthInv, FreeInv, WaveDone
  PROVE  GrowthInv' /\ FreeInv'
BY QuietGood DEF WaveDone, LandIdle, GrowthInv, Counted

\* The consolidator's rounds are over.
LEMMA MergeDoneGood ==
  ASSUME GrowthInv, FreeInv, MergeDone
  PROVE  GrowthInv' /\ FreeInv'
BY QuietGood DEF MergeDone, LandIdle, GrowthInv, Counted

\* A stop request or a timeout.
LEMMA InterruptGood ==
  ASSUME GrowthInv, FreeInv, Interrupt
  PROVE  GrowthInv' /\ FreeInv'
BY QuietGood DEF Interrupt, LandIdle, GrowthInv, Counted

\* A batch is over.
LEMMA BatchDoneGood ==
  ASSUME GrowthInv, FreeInv, BatchDone
  PROVE  GrowthInv' /\ FreeInv'
<1>1. miss \in Nat /\ batch.fails \in Nat
  BY Zenon DEF GrowthInv, Counted, Batched
<1>2. Highest({1, batch.fails}) \in Nat
  BY <1>1, HighestOfTwo
<1>3. miss' \in Nat
  BY <1>1, <1>2 DEF BatchDone
<1> QED BY <1>3, QuietGood DEF BatchDone, LandIdle

\* The chain is over: the loop it came from goes on with the batch it had.
LEMMA ChainDoneGood ==
  ASSUME GrowthInv, FreeInv, ChainDone
  PROVE  GrowthInv' /\ FreeInv'
<1>1. Land /\ Counted /\ Batched /\ Chained
  BY Zenon DEF GrowthInv
<1>2. pc = "chain" /\ pc' = chain.back /\ chain' = NoChain
      /\ UNCHANGED <<occ, cfg, o, boxes, nextId, cooling, pairFail, queue, batch, miss, round, twice>>
  BY Zenon DEF ChainDone
<1>3. chain.back \in {"loop", "results", "tasks"}
  BY <1>1, <1>2, Zenon DEF Chained
<1>4. Land' /\ RegionsKept(o, o') /\ FreeInv'
  BY <1>1, <1>2, LandStays DEF LandIdle
<1>5. Counted'
  BY <1>1, <1>2, <1>3 DEF Counted
<1>6. Chained'
  BY <1>2, <1>3 DEF Chained, NoChain
<1>7. Stage = chain.back /\ Stage' = Stage
  BY <1>2, <1>3 DEF Stage
<1>8. Batched'
  BY <1>1, <1>2, <1>7 DEF Batched
<1> QED BY <1>4, <1>5, <1>6, <1>8 DEF GrowthInv

\* One task at a time.
LEMMA GrowOneGood ==
  ASSUME GrowthInv, FreeInv, GrowOne
  PROVE  GrowthInv' /\ FreeInv'
<1>1. Land /\ Counted /\ Batched /\ Chained
  BY Zenon DEF GrowthInv
<1>2. pc = "loop" /\ ~Full(boxes) /\ UNCHANGED <<occ, cfg, queue, batch, round>>
  BY Zenon DEF GrowOne, Looping
<1>3. miss \in Nat /\ CountsGood(pairFail) /\ cfg \in Configs
  BY <1>1, Zenon DEF Counted, Land
<1>4. Stage = "loop"
  BY <1>2 DEF Stage
<1>5. /\ Land' /\ RegionsKept(o, o') /\ FreeInv' /\ miss' \in Nat /\ CountsGood(pairFail')
      /\ Stage' = "loop" /\ Chained' /\ pc' \in {"loop", "results", "tasks", "chain"}
  <2>1. CASE UNCHANGED <<o, boxes, nextId, cooling, twice, pairFail, pc, chain>> /\ miss' = miss + 1
    <3>1. Land' /\ RegionsKept(o, o') /\ FreeInv'
      BY <1>1, <1>2, <2>1, LandStays DEF LandIdle
    <3>2. Stage' = "loop" /\ Chained' /\ pc' = "loop"
      BY <1>1, <1>2, <2>1 DEF Stage, Chained
    <3> QED BY <1>3, <2>1, <3>1, <3>2
  <2>2. CASE \E t \in Tasks(boxes) :
               \E s \in CreateBox(boxes, o, nextId, cooling, t.seed, t.parent, t.root, TaskDepth(t)) :
                 /\ Take(s)
                 /\ miss' = IF s.ok THEN 0 ELSE miss + 1
                 /\ pairFail' = Paired(t, s.ok, s.ans.cap)
                 /\ chain' = ChainFor(t, s.ok, "loop")
                 /\ pc' = PcFor(t, s.ok, "loop")
    <3>1. PICK t \in Tasks(boxes) :
               \E s \in CreateBox(boxes, o, nextId, cooling, t.seed, t.parent, t.root, TaskDepth(t)) :
                 /\ Take(s)
                 /\ miss' = IF s.ok THEN 0 ELSE miss + 1
                 /\ pairFail' = Paired(t, s.ok, s.ans.cap)
                 /\ chain' = ChainFor(t, s.ok, "loop")
                 /\ pc' = PcFor(t, s.ok, "loop")
      BY <2>2, Zenon
    <3>2. PICK s \in CreateBox(boxes, o, nextId, cooling, t.seed, t.parent, t.root, TaskDepth(t)) :
                 /\ Take(s)
                 /\ miss' = IF s.ok THEN 0 ELSE miss + 1
                 /\ pairFail' = Paired(t, s.ok, s.ans.cap)
                 /\ chain' = ChainFor(t, s.ok, "loop")
                 /\ pc' = PcFor(t, s.ok, "loop")
      BY <3>1, Zenon
    <3>3. t.seed \in Units
      BY TasksGood, Zenon DEF TaskGood
    <3>4. TaskDepth(t) \in Int
      BY <1>3, TaskDepthGood, Zenon
    <3>5. Land' /\ RegionsKept(o, o') /\ FreeInv'
      BY <1>1, <1>2, <3>2, <3>3, <3>4, CreatedGood
    <3>6. CountsGood(pairFail')
      BY <1>3, <3>2, PairedGood
    <3>7. miss' \in Nat
      BY <1>3, <3>2
    <3>8. Stage' = "loop" /\ Chained' /\ pc' \in {"loop", "results", "tasks", "chain"}
      BY <3>2, StageAfter
    <3> QED BY <3>5, <3>6, <3>7, <3>8
  <2> QED BY <2>1, <2>2, Zenon DEF GrowOne
<1>6. Counted'
  BY <1>1, <1>2, <1>5 DEF Counted
<1>7. BatchFits("loop", batch.todo, queue', occ', o')
  <2>1. IsSeq(batch.todo)
    BY <1>1, Zenon DEF Batched, BatchFits
  <2> QED BY <2>1, BatchIdle
<1>8. Batched'
  BY <1>1, <1>2, <1>5, <1>7 DEF Batched
<1> QED BY <1>5, <1>6, <1>8 DEF GrowthInv

\* A commitment may use an id up, and gives none back.
LEMMA CommittedLater ==
  ASSUME Land, NEW res, res.accepted, ResultGood(occ, o, res)
  PROVE  /\ CommitBox(boxes, o, nextId, cooling, res).nextId \in Nat
         /\ CommitBox(boxes, o, nextId, cooling, res).nextId >= nextId
<1> DEFINE s == CommitBox(boxes, o, nextId, cooling, res)
           made == Commit(boxes, o, nextId, cooling, res.ans, res.seed, res.parent, res.root)
<1>1. Core(boxes, o, nextId, twice) /\ TreeGood(o) /\ Extends(o, o) /\ nextId \in Nat
  BY ExtendsItself, Zenon DEF Land, Core, BoxesGood
<1>2. RegionGood(res.ans.at) /\ OnNode(o, res.ans.node, res.ans.at)
  BY Zenon DEF ResultGood
<1>3. StateGood(boxes, o, nextId, twice, made)
  BY <1>1, <1>2, CommitGood
<1>4. s = State(FALSE, boxes, o, nextId, cooling, res.ans) \/ s = made
  BY Zenon DEF CommitBox
<1> HIDE DEF s, made
<1>5. s.nextId \in Nat /\ s.nextId >= nextId
  <2>1. CASE s = State(FALSE, boxes, o, nextId, cooling, res.ans)
    BY <1>1, <2>1 DEF State
  <2>2. CASE s = made
    BY <1>3, <2>2, Zenon DEF StateGood
  <2> QED BY <1>4, <2>1, <2>2
<1> QED BY <1>5 DEF s

\* One task of a batch without workers.
LEMMA GrowTaskGood ==
  ASSUME GrowthInv, FreeInv, GrowTask
  PROVE  GrowthInv' /\ FreeInv'
<1> DEFINE t == Head(batch.todo)
<1>1. Land /\ Counted /\ Batched /\ Chained
  BY Zenon DEF GrowthInv
<1>2. pc = "tasks" /\ batch.todo # <<>> /\ ~Full(boxes) /\ UNCHANGED <<occ, cfg, round>>
  BY Zenon DEF GrowTask
<1>3. PICK s \in CreateBox(boxes, o, nextId, cooling, t.seed, t.parent, t.root, TaskDepth(t)) :
        /\ Take(s)
        /\ pairFail' = Paired(t, s.ok, s.ans.cap)
        /\ batch' = [todo |-> Tail(batch.todo), ok |-> batch.ok \/ s.ok,
                     fails |-> batch.fails + (IF s.ok THEN 0 ELSE 1)]
        /\ chain' = ChainFor(t, s.ok, "tasks")
        /\ pc' = PcFor(t, s.ok, "tasks")
        /\ miss' = IF ~cfg.wave THEN miss ELSE IF s.ok THEN 0 ELSE miss + 1
  BY Zenon DEF GrowTask
<1>4. Stage = "tasks"
  BY <1>2 DEF Stage
<1>5. batch.fails \in Nat /\ BatchFits("tasks", batch.todo, queue, occ, o)
  BY <1>1, <1>4, Zenon DEF Batched
<1>6. t.seed \in Units
  <2>1. IsSeq(batch.todo) /\ \A x \in Range(batch.todo) : x.seed \in Units
    BY <1>5, Zenon DEF BatchFits
  <2> QED BY <1>2, <2>1, SeqRest, Zenon
<1>7. miss \in Nat /\ CountsGood(pairFail) /\ cfg \in Configs
  BY <1>1, Zenon DEF Counted, Land
<1>8. TaskDepth(t) \in Int
  BY <1>7, TaskDepthGood, Zenon
<1>9. Land' /\ RegionsKept(o, o') /\ FreeInv'
  BY <1>1, <1>2, <1>3, <1>6, <1>8, CreatedGood
<1>10. CountsGood(pairFail')
  BY <1>3, <1>7, PairedGood
<1>11. miss' \in Nat
  BY <1>3, <1>7
<1>12. Stage' = "tasks" /\ Chained' /\ pc' \in {"loop", "results", "tasks", "chain"}
  BY <1>3, StageAfter
<1>13. Counted'
  BY <1>1, <1>2, <1>10, <1>11, <1>12 DEF Counted
<1>14. BatchFits("tasks", Tail(batch.todo), queue', occ', o')
  BY <1>2, <1>5, <1>9, BatchTail
<1>15. /\ batch'.todo = Tail(batch.todo) /\ batch'.fails \in Nat
       /\ batch' = [todo |-> batch'.todo, ok |-> batch'.ok, fails |-> batch'.fails]
  <2>1. batch.fails + (IF s.ok THEN 0 ELSE 1) \in Nat
    BY <1>5
  <2> QED BY <1>3, <2>1
<1>16. Batched'
  BY <1>12, <1>14, <1>15 DEF Batched
<1> QED BY <1>9, <1>12, <1>13, <1>16 DEF GrowthInv

\* One link of a chain; the batch of the loop it comes back to waits.
LEMMA GrowChainGood ==
  ASSUME GrowthInv, FreeInv, GrowChain
  PROVE  GrowthInv' /\ FreeInv'
<1>1. Land /\ Counted /\ Batched /\ Chained
  BY Zenon DEF GrowthInv
<1>2. pc = "chain" /\ ~ChainOver /\ UNCHANGED <<occ, cfg, pc, queue, batch, miss, round>>
  BY Zenon DEF GrowChain
<1>3. ~Full(boxes)
  BY <1>2, Zenon DEF ChainOver
<1>4. PICK t \in ConnectTasks(boxes, {chain.src}) :
        \E s \in CreateBox(boxes, o, nextId, cooling, t.seed, t.parent, t.root, TaskDepth(t)) :
          /\ Take(s)
          /\ pairFail' = Paired(t, s.ok, s.ans.cap)
          /\ chain' = [chain EXCEPT !.steps = @ + 1,
                                    !.added = IF s.ok THEN @ + 1 ELSE @,
                                    !.fails = IF s.ok THEN 0 ELSE @ + 1,
                                    !.src = IF s.ok THEN t.root ELSE @]
  BY Zenon DEF GrowChain
<1>5. PICK s \in CreateBox(boxes, o, nextId, cooling, t.seed, t.parent, t.root, TaskDepth(t)) :
          /\ Take(s)
          /\ pairFail' = Paired(t, s.ok, s.ans.cap)
          /\ chain' = [chain EXCEPT !.steps = @ + 1,
                                    !.added = IF s.ok THEN @ + 1 ELSE @,
                                    !.fails = IF s.ok THEN 0 ELSE @ + 1,
                                    !.src = IF s.ok THEN t.root ELSE @]
  BY <1>4, Zenon
<1>6. t.seed \in Units
  BY ConnectTasksGood, Zenon DEF TaskGood
<1>7. miss \in Nat /\ CountsGood(pairFail) /\ cfg \in Configs
  BY <1>1, Zenon DEF Counted, Land
<1>8. TaskDepth(t) \in Int
  BY <1>7, TaskDepthGood, Zenon
<1>9. Land' /\ RegionsKept(o, o') /\ FreeInv'
  BY <1>1, <1>2, <1>3, <1>5, <1>6, <1>8, CreatedGood
<1>10. CountsGood(pairFail')
  BY <1>5, <1>7, PairedGood
<1>11. Counted'
  BY <1>1, <1>2, <1>10 DEF Counted
<1>12. chain.back \in {"loop", "results", "tasks"}
       /\ chain = [src |-> chain.src, steps |-> chain.steps, added |-> chain.added,
                   fails |-> chain.fails, back |-> chain.back]
  BY <1>1, <1>2, Zenon DEF Chained
<1>13. chain'.back = chain.back
       /\ chain' = [src |-> chain'.src, steps |-> chain'.steps, added |-> chain'.added,
                    fails |-> chain'.fails, back |-> chain'.back]
  BY <1>5, <1>12
<1>14. Chained'
  BY <1>12, <1>13 DEF Chained
<1>15. Stage = chain.back /\ Stage' = chain.back /\ Stage # "roots"
  BY <1>2, <1>12, <1>13 DEF Stage
<1>16. /\ batch = [todo |-> batch.todo, ok |-> batch.ok, fails |-> batch.fails] /\ batch.fails \in Nat
       /\ BatchFits(chain.back, batch.todo, queue, occ, o) /\ chain.back # "roots"
  BY <1>1, <1>15, Zenon DEF Batched
<1>17. BatchFits(chain.back, batch.todo, queue', occ, o')
  BY <1>9, <1>16, BatchStays, Zenon
<1>18. Batched'
  BY <1>2, <1>15, <1>16, <1>17 DEF Batched
<1> QED BY <1>9, <1>11, <1>14, <1>18 DEF GrowthInv

\* One result of the workers.
LEMMA CommitResultGood ==
  ASSUME GrowthInv, FreeInv, CommitResult
  PROVE  GrowthInv' /\ FreeInv'
<1> DEFINE res == Head(batch.todo)
           s == CommitBox(boxes, o, nextId, cooling, res)
           ok == res.accepted /\ s.ok
<1>1. Land /\ Counted /\ Batched /\ Chained
  BY Zenon DEF GrowthInv
<1>2. pc = "results" /\ batch.todo # <<>> /\ ~Full(boxes) /\ UNCHANGED <<occ, cfg, round>>
  BY Zenon DEF CommitResult
<1>3. IF ok THEN Take(s)
      ELSE /\ boxes' = boxes /\ o' = o /\ twice' = twice
           /\ nextId' = IF res.accepted THEN s.nextId ELSE nextId
  BY Zenon DEF CommitResult
<1>4. /\ pairFail' = Paired(res, ok, res.ans.cap)
      /\ batch' = [todo |-> Tail(batch.todo), ok |-> batch.ok \/ ok,
                   fails |-> batch.fails + (IF ok THEN 0 ELSE 1)]
      /\ chain' = ChainFor(res, ok, "results")
      /\ pc' = PcFor(res, ok, "results")
      /\ miss' = IF ~cfg.wave THEN miss ELSE IF ok THEN 0 ELSE miss + 1
  BY Zenon DEF CommitResult
<1>5. Stage = "results"
  BY <1>2 DEF Stage
<1>6. batch.fails \in Nat /\ BatchFits("results", batch.todo, queue, occ, o)
  BY <1>1, <1>5, Zenon DEF Batched
<1>7. ResultGood(occ, o, res)
  <2>1. IsSeq(batch.todo) /\ \A x \in Range(batch.todo) : ResultGood(occ, o, x)
    BY <1>6, Zenon DEF BatchFits
  <2> QED BY <1>2, <2>1, SeqRest, Zenon
<1>8. miss \in Nat /\ CountsGood(pairFail) /\ cfg \in Configs
  BY <1>1, Zenon DEF Counted, Land
<1>9. Land' /\ RegionsKept(o, o') /\ FreeInv'
  <2>1. CASE ok
    <3>1. res.accepted /\ Take(s)
      BY <1>3, <2>1, Zenon
    <3> QED BY <1>1, <1>2, <1>7, <3>1, CommittedGood
  <2>2. CASE ~ok
    <3>1. /\ boxes' = boxes /\ o' = o /\ twice' = twice
          /\ nextId' = IF res.accepted THEN s.nextId ELSE nextId
      BY <1>3, <2>2, Zenon
    <3>2. nextId \in Nat /\ Core(boxes, o, nextId, twice)
      BY <1>1, Zenon DEF Land, Core, BoxesGood
    <3>3. res.accepted => s.nextId \in Nat /\ s.nextId >= nextId
      BY <1>1, <1>7, CommittedLater
    <3> HIDE DEF s, res
    <3>4. nextId' \in Nat /\ nextId' >= nextId
      BY <3>1, <3>2, <3>3
    <3>5. Core(boxes', o', nextId', twice')
      <4>1. twice \subseteq twice'
        BY <3>1
      <4>2. Core(boxes, o, nextId', twice')
        BY <3>2, <3>4, <4>1, CoreLater
      <4> QED BY <3>1, <4>2
    <3>6. Land'
      BY <1>1, <1>2, <3>1, <3>5 DEF Land
    <3>7. RegionsKept(o, o')
      BY <3>1 DEF RegionsKept
    <3>8. FreeInv'
      BY <1>2, <3>1, Zenon DEF FreeInv, EvidenceFits
    <3> QED BY <3>6, <3>7, <3>8
  <2> QED BY <2>1, <2>2, Zenon
<1> HIDE DEF ok, s
<1>10. CountsGood(pairFail')
  BY <1>4, <1>8, PairedGood
<1>11. miss' \in Nat
  BY <1>4, <1>8
<1>12. Stage' = "results" /\ Chained' /\ pc' \in {"loop", "results", "tasks", "chain"}
  BY <1>4, StageAfter
<1>13. Counted'
  BY <1>1, <1>2, <1>10, <1>11, <1>12 DEF Counted
<1>14. BatchFits("results", Tail(batch.todo), queue', occ', o')
  BY <1>2, <1>6, <1>9, BatchTail
<1>15. /\ batch'.todo = Tail(batch.todo) /\ batch'.fails \in Nat
       /\ batch' = [todo |-> batch'.todo, ok |-> batch'.ok, fails |-> batch'.fails]
  <2>1. batch.fails + (IF ok THEN 0 ELSE 1) \in Nat
    BY <1>6
  <2> QED BY <1>4, <2>1
<1>16. Batched'
  BY <1>12, <1>14, <1>15 DEF Batched
<1> QED BY <1>9, <1>12, <1>13, <1>16 DEF GrowthInv

\* The workers' batch, whichever answers they find: it is in hand, adopted.
LEMMA WorkersGood ==
  ASSUME GrowthInv, FreeInv, UNCHANGED <<occ, cfg, boxes, nextId, pairFail, chain, round, twice>>,
         pc' = "results", miss' \in Nat, NEW p, PlanGood(o, TRUE, p),
         \E f \in AllAnswers(p) : /\ o' = WorkerBatch(f).o
                                  /\ batch' = [NoBatch EXCEPT !.todo = WorkerBatch(f).out]
  PROVE  GrowthInv' /\ FreeInv'
<1>1. Land /\ Counted /\ Batched /\ Chained
  BY Zenon DEF GrowthInv
<1>2. PICK f \in AllAnswers(p) : /\ o' = WorkerBatch(f).o
                                 /\ batch' = [NoBatch EXCEPT !.todo = WorkerBatch(f).out]
  BY Zenon
<1> DEFINE acc == WorkerBatch(f)
<1>3. TreeGood(o) /\ occ \in SUBSET Int /\ cfg \in Configs /\ CountsGood(pairFail)
  BY <1>1, SceneGood, Zenon DEF Land, Counted, Core
<1>4. AdoptGood(acc)
  BY <1>3, AnswersGood, Zenon
<1>5. o' = acc.o /\ batch' = [NoBatch EXCEPT !.todo = acc.out]
  BY <1>2, Zenon
<1> HIDE DEF acc
<1>6. Land' /\ RegionsKept(o, o') /\ FreeInv'
  BY <1>1, <1>4, <1>5, AdoptedGood
<1>7. Counted'
  BY <1>1 DEF Counted
<1>8. Chained'
  BY <1>1 DEF Chained
<1>9. Stage' = "results"
  BY DEF Stage
<1>10. /\ batch'.todo = acc.out /\ batch'.fails \in Nat
       /\ batch' = [todo |-> batch'.todo, ok |-> batch'.ok, fails |-> batch'.fails]
  BY <1>5 DEF NoBatch
<1>11. IsSeq(acc.out) /\ \A res \in Range(acc.out) : ResultGood(occ, o', res)
  BY <1>4, <1>5, Zenon DEF AdoptGood
<1>12. BatchFits("results", acc.out, queue', occ', o')
  BY <1>11 DEF BatchFits
<1>13. Batched'
  BY <1>9, <1>10, <1>12 DEF Batched
<1> QED BY <1>6, <1>7, <1>8, <1>13 DEF GrowthInv

\* A batch of tasks for the calling thread.
LEMMA TasksTaken ==
  ASSUME GrowthInv, FreeInv, UNCHANGED <<occ, cfg, o, boxes, nextId, pairFail, chain, round, twice>>,
         pc' = "tasks", miss' \in Nat, NEW todo, IsSeq(todo), \A t \in Range(todo) : t.seed \in Units,
         batch' = [NoBatch EXCEPT !.todo = todo]
  PROVE  GrowthInv' /\ FreeInv'
<1>1. Land /\ Counted /\ Batched /\ Chained
  BY Zenon DEF GrowthInv
<1>2. Land' /\ FreeInv'
  BY <1>1, LandStays DEF LandIdle
<1>3. Counted'
  BY <1>1 DEF Counted
<1>4. Chained'
  BY <1>1 DEF Chained
<1>5. Stage' = "tasks"
  BY DEF Stage
<1>6. /\ batch'.todo = todo /\ batch'.fails \in Nat
      /\ batch' = [todo |-> batch'.todo, ok |-> batch'.ok, fails |-> batch'.fails]
  BY DEF NoBatch
<1>7. BatchFits("tasks", todo, queue', occ', o')
  BY DEF BatchFits
<1>8. Batched'
  BY <1>5, <1>6, <1>7 DEF Batched
<1> QED BY <1>2, <1>3, <1>4, <1>8 DEF GrowthInv

\* The choices of a batch are tasks, in a sequence.
LEMMA ChosenTasks ==
  ASSUME Land, cfg.batch > 1, ~Full(boxes),
         NEW ts \in [1..Lowest({cfg.batch, cfg.maxBoxes - Len(boxes)}) -> Tasks(boxes)]
  PROVE  IsSeq(ts) /\ \A t \in Range(ts) : TaskGood(t)
<1> DEFINE n == Lowest({cfg.batch, cfg.maxBoxes - Len(boxes)})
<1>1. cfg.batch \in Nat /\ cfg.maxBoxes \in Nat /\ Len(boxes) \in Nat
  BY ConfigGood, SeqShape DEF Land, Core, BoxesGood
<1>2. n \in Nat
  <2>1. cfg.maxBoxes - Len(boxes) \in Nat
    BY <1>1 DEF Full
  <2> QED BY <1>1, <2>1, LowestOfTwo
<1>3. ts \in [1..n -> Tasks(boxes)]
  OBVIOUS
<1> HIDE DEF n
<1>4. ts = [k \in 1..n |-> ts[k]] /\ \A k \in 1..n : ts[k] \in Tasks(boxes)
  BY <1>3
<1>5. IsSeq(ts) /\ Range(ts) = {ts[k] : k \in 1..n}
  BY <1>2, <1>4, SeqFunction
<1>6. \A t \in Range(ts) : t \in Tasks(boxes)
  BY <1>4, <1>5
<1> QED BY <1>5, <1>6, TasksGood, Zenon

\* The planning of a batch.
LEMMA GrowBatchGood ==
  ASSUME GrowthInv, FreeInv, GrowBatch
  PROVE  GrowthInv' /\ FreeInv'
<1> DEFINE n == Lowest({cfg.batch, cfg.maxBoxes - Len(boxes)})
           all == Tasks(boxes)
           idle == miss' = miss + 1 /\ UNCHANGED <<o, pc, batch>>
           workers(p) == /\ p # <<>> /\ cfg.local
                         /\ \E f \in AllAnswers(p) :
                              /\ o' = WorkerBatch(f).o
                              /\ batch' = [NoBatch EXCEPT !.todo = WorkerBatch(f).out]
                         /\ pc' = "results" /\ miss' = miss
           calling(p) == batch' = [NoBatch EXCEPT !.todo = p] /\ pc' = "tasks" /\ UNCHANGED <<o, miss>>
<1>1. Land /\ Counted /\ Batched /\ Chained
  BY Zenon DEF GrowthInv
<1>2. pc = "loop" /\ ~Full(boxes) /\ cfg.batch > 1
      /\ UNCHANGED <<occ, cfg, boxes, nextId, pairFail, queue, chain, round, twice>>
  BY Zenon DEF GrowBatch, Looping
<1>3. idle \/ \E ts \in [1..n -> all] : workers(Filter(ts).out) \/ calling(Filter(ts).out)
  BY Zenon DEF GrowBatch
<1>4. miss \in Nat
  BY <1>1, Zenon DEF Counted
<1>5. CASE idle
  <2>1. miss' \in Nat /\ pc' = "loop"
    BY <1>2, <1>4, <1>5
  <2> QED BY <1>2, <1>5, <2>1, QuietGood DEF LandIdle
<1>6. ASSUME NEW ts \in [1..n -> all], workers(Filter(ts).out) \/ calling(Filter(ts).out)
      PROVE  GrowthInv' /\ FreeInv'
  <2> DEFINE p == Filter(ts).out
  <2>1. IsSeq(ts) /\ \A t \in Range(ts) : TaskGood(t)
    BY <1>1, <1>2, ChosenTasks
  <2>2. TreeGood(o) /\ Whole(o)
    BY <1>1, Zenon DEF Land, Core
  <2>3. PlanGood(o, cfg.local, p)
    BY <2>1, <2>2, FilterGood, Zenon
  <2>4. workers(p) \/ calling(p)
    BY <1>6
  <2> HIDE DEF p
  <2>5. CASE workers(p)
    <3>1. PlanGood(o, TRUE, p)
      BY <2>3, <2>5, Zenon DEF PlanGood
    <3>2. miss' \in Nat /\ pc' = "results"
      BY <1>4, <2>5
    <3> QED BY <1>2, <2>5, <3>1, <3>2, WorkersGood
  <2>6. CASE calling(p)
    <3>1. IsSeq(p) /\ \A t \in Range(p) : t.seed \in Units
      BY <2>3, Zenon DEF PlanGood, Planned
    <3>2. miss' \in Nat
      BY <1>4, <2>6
    <3> QED BY <1>2, <2>6, <3>1, <3>2, TasksTaken
  <2> QED BY <2>4, <2>5, <2>6
<1> QED BY <1>3, <1>5, <1>6, Zenon

\* The faces of a front box, in parallel or one after the other.
LEMMA WaveFrontGood ==
  ASSUME GrowthInv, FreeInv, WaveFront
  PROVE  GrowthInv' /\ FreeInv'
<1> DEFINE front == BoxOf(boxes, Head(queue))
           ts(qs) == [i \in DOMAIN qs |-> WaveTask(front, qs[i])]
           workers(p) == /\ \A i \in DOMAIN p : p[i].dom # NoNode
                         /\ \E f \in AllAnswers(p) :
                              /\ o' = WorkerBatch(f).o
                              /\ batch' = [NoBatch EXCEPT !.todo = WorkerBatch(f).out]
                         /\ pc' = "results"
           calling(todo) == batch' = [NoBatch EXCEPT !.todo = todo] /\ pc' = "tasks" /\ UNCHANGED o
<1>1. Land /\ Counted /\ Batched /\ Chained
  BY Zenon DEF GrowthInv
<1>2. UNCHANGED <<occ, cfg, boxes, nextId, cooling, pairFail, chain, miss, round, twice>>
  BY Zenon DEF WaveFront
<1>3. PICK qs \in SetToSeqs(FaceSeeds(front.at)) : workers(WavePlan(ts(qs))) \/ calling(ts(qs))
  BY Zenon DEF WaveFront
<1> DEFINE todo == ts(qs)
<1>4. IsSeq(todo) /\ \A t \in Range(todo) : TaskGood(t)
  BY <1>3, FaceOrders DEF WaveTask
<1>5. workers(WavePlan(todo)) \/ calling(todo)
  BY <1>3
<1> HIDE DEF todo
<1>6. TreeGood(o) /\ Whole(o)
  BY <1>1, Zenon DEF Land, Core
<1>7. miss' \in Nat
  BY <1>1, <1>2 DEF Counted
<1> DEFINE p == WavePlan(todo)
<1>8. PlanGood(o, FALSE, p)
  BY <1>4, <1>6, WavePlanGood, Zenon
<1> HIDE DEF p
<1>9. CASE workers(p)
  <2>1. DOMAIN p = 1..Len(p) /\ \A t \in Range(p) : \E i \in 1..Len(p) : p[i] = t
    BY <1>8, SeqShape DEF PlanGood
  <2>2. \A t \in Range(p) : t.dom # NoNode
    BY <1>9, <2>1
  <2>3. PlanGood(o, TRUE, p)
    BY <1>8, <2>2, Zenon DEF PlanGood
  <2> QED BY <1>2, <1>7, <1>9, <2>3, WorkersGood
<1>10. CASE calling(todo)
  <2>1. \A t \in Range(todo) : t.seed \in Units
    BY <1>4, Zenon DEF TaskGood
  <2> QED BY <1>2, <1>4, <1>7, <1>10, <2>1, TasksTaken
<1> QED BY <1>5, <1>9, <1>10 DEF p

\* A round of the consolidator.
LEMMA MergeRoundGood ==
  ASSUME GrowthInv, FreeInv, MergeRound
  PROVE  GrowthInv' /\ FreeInv' /\ Cover(boxes') = Cover(boxes)
<1>1. Land /\ Counted /\ Batched /\ Chained
  BY Zenon DEF GrowthInv
<1>2. pc = "merge" /\ round < cfg.mergeRounds /\ round' = round + 1
      /\ UNCHANGED <<occ, cfg, nextId, cooling, pairFail, queue, batch, chain, miss, twice>>
  BY Zenon DEF MergeRound
<1>3. PICK s, end :
        /\ Merged([boxes |-> boxes, o |-> o], s) /\ end \in {s, Prune(s)}
        /\ boxes' = end.boxes /\ o' = end.o
        /\ pc' \in {"done", "merge"}
  <2> DEFINE start == [boxes |-> boxes, o |-> o]
             exact == IF "exact" \in cfg.merge THEN ExactMerge(start) ELSE start
             pruned(x) == IF "prune" \in cfg.merge THEN Prune(x) ELSE x
  <2>1. PICK stop \in BOOLEAN :
          \E s \in IF stop \/ "greedy" \notin cfg.merge THEN {exact} ELSE GreedyMerges(exact) :
            /\ boxes' = pruned(s).boxes /\ o' = pruned(s).o
            /\ pc' \in {"done", "merge"}
    BY DEF MergeRound
  <2>2. PICK s \in IF stop \/ "greedy" \notin cfg.merge THEN {exact} ELSE GreedyMerges(exact) :
            /\ boxes' = pruned(s).boxes /\ o' = pruned(s).o
            /\ pc' \in {"done", "merge"}
    BY <2>1, Zenon
  <2>3. exact \in {start, ExactMerge(start)} /\ pruned(s) \in {s, Prune(s)}
    BY Zenon
  <2> HIDE DEF exact, pruned, start
  <2>4. s = exact \/ s \in GreedyMerges(exact)
    BY <2>2, Zenon
  <2>5. Merged(start, s)
    BY <2>3, <2>4, Zenon DEF Merged
  <2> QED BY <2>2, <2>3, <2>5, Zenon DEF start
<1>4. occ \in Scenes /\ cfg \in Configs /\ Core(boxes, o, nextId, twice) /\ Whole(o)
      /\ Len(boxes) <= cfg.maxBoxes
  BY <1>1, Zenon DEF Land
<1>5. Shrunk(boxes, o, nextId, twice, end)
  BY <1>3, <1>4, RoundGood, Zenon
<1>6. /\ Core(boxes', o', nextId, twice) /\ SameLand(o, o')
      /\ Cover(boxes') = Cover(boxes) /\ Len(boxes') <= Len(boxes)
  BY <1>3, <1>5, Zenon DEF Shrunk
<1>7. pc' \in {"done", "merge"}
  BY <1>3
<1>8. Whole(o')
  BY <1>4, <1>6 DEF Whole, Region, SameLand
<1>9. Len(boxes') <= cfg.maxBoxes
  <2>1. Len(boxes) \in Nat /\ Len(boxes') \in Nat
    BY <1>4, <1>6, SeqShape DEF Core, BoxesGood
  <2>2. cfg.maxBoxes \in Nat
    BY <1>4, ConfigGood
  <2> QED BY <1>4, <1>6, <2>1, <2>2
<1>10. Land'
  BY <1>2, <1>4, <1>6, <1>8, <1>9 DEF Land
<1>11. Counted'
  <2>1. cfg.mergeRounds \in Nat /\ round \in 0..cfg.mergeRounds
    BY <1>1, <1>4, ConfigGood DEF Counted
  <2>2. round' \in 0..cfg.mergeRounds
    BY <1>2, <2>1
  <2> QED BY <1>1, <1>2, <1>7, <2>2 DEF Counted
<1>12. Chained'
  BY <1>1, <1>2, <1>7 DEF Chained
<1>13. Stage' \notin {"roots", "boot", "tasks", "results"}
  BY <1>7 DEF Stage
<1>14. Batched'
  <2>1. IsSeq(batch.todo)
    BY <1>1, Zenon DEF Batched, BatchFits
  <2>2. BatchFits(Stage', batch.todo, queue', occ', o')
    BY <1>13, <2>1, BatchIdle
  <2> QED BY <1>1, <1>2, <2>2 DEF Batched
<1>15. FreeInv'
  <2>1. SUFFICES ASSUME EvidenceFits
                 PROVE  Evident(o', cfg.ffb.mode) /\ AllClear(occ, boxes')
    BY <1>2, Zenon DEF FreeInv, EvidenceFits
  <2>2. Evident(o, cfg.ffb.mode) /\ AllClear(occ, boxes)
    BY <2>1, Zenon DEF FreeInv
  <2>3. Evident(o', cfg.ffb.mode)
    BY <1>6, <2>2 DEF Evident, SameLand, Region
  <2>4. occ \in SUBSET Int /\ BoxesGood(boxes, nextId) /\ BoxesGood(boxes', nextId)
    BY <1>4, <1>6, SceneGood, Zenon DEF Core
  <2>5. AllClear(occ, boxes')
    BY <1>6, <2>2, <2>4, CoverClear, Zenon
  <2> QED BY <2>3, <2>5
<1> QED BY <1>6, <1>10, <1>11, <1>12, <1>14, <1>15 DEF GrowthInv

\* Every step keeps the invariant.
LEMMA GrowthStep ==
  ASSUME GrowthInv, FreeInv, [Next]_vars
  PROVE  GrowthInv' /\ FreeInv'
<1>1. CASE UNCHANGED vars
  BY <1>1 DEF vars, GrowthInv, FreeInv, Land, Counted, Batched, Chained, Stage, EvidenceFits
<1>2. CASE Grow
  <2>1. CASE GrowRoot
    BY <2>1, GrowRootGood
  <2>2. CASE RootsGrown
    BY <2>2, RootsGrownGood
  <2>3. CASE BootFront
    BY <2>3, BootFrontGood
  <2>4. CASE BootFace
    BY <2>4, BootFaceGood
  <2>5. CASE BootDone
    BY <2>5, BootDoneGood
  <2>6. CASE GrowOne
    BY <2>6, GrowOneGood
  <2>7. CASE GrowBatch
    BY <2>7, GrowBatchGood
  <2>8. CASE CommitResult
    BY <2>8, CommitResultGood
  <2>9. CASE GrowTask
    BY <2>9, GrowTaskGood
  <2>10. CASE BatchDone
    BY <2>10, BatchDoneGood
  <2>11. CASE LoopDone
    BY <2>11, LoopDoneGood
  <2>12. CASE GrowChain
    BY <2>12, GrowChainGood
  <2>13. CASE ChainDone
    BY <2>13, ChainDoneGood
  <2>14. CASE WaveFront
    BY <2>14, WaveFrontGood
  <2>15. CASE WaveDone
    BY <2>15, WaveDoneGood
  <2>16. CASE MergeRound
    BY <2>16, MergeRoundGood
  <2>17. CASE MergeDone
    BY <2>17, MergeDoneGood
  <2> QED BY <1>2, <2>1, <2>2, <2>3, <2>4, <2>5, <2>6, <2>7, <2>8, <2>9, <2>10, <2>11, <2>12, <2>13,
             <2>14, <2>15, <2>16, <2>17 DEF Grow
<1>3. CASE Interrupt
  BY <1>3, InterruptGood
<1>4. CASE Returned
  BY <1>1, <1>4 DEF Returned
<1> QED BY <1>1, <1>2, <1>3, <1>4 DEF Next

\* The boxes' regions, ids and nodes, the reservations and the tree are as the
\* types say, each box lies on its node, a node's reservation names the box that
\* has the node, and no reservation is left of a box that is gone.
LEMMA InvNodesExact ==
  ASSUME GrowthInv
  PROVE  NodesExact
<1>1. Land /\ Counted
  BY Zenon DEF GrowthInv
<1>2. TreeGood(o) /\ BoxesGood(boxes, nextId) /\ MapsAgree(o, nextId, twice) /\ Reserved(boxes, o, twice)
      /\ \A i \in DOMAIN boxes : OnNode(o, boxes[i].node, boxes[i].at)
  BY <1>1, Zenon DEF Land, Core
<1>3. TypeOK
  <2>1. nextId \in Nat /\ miss \in Nat /\ round \in 0..cfg.mergeRounds
        /\ pc \in {"roots", "boot", "loop", "results", "tasks", "chain", "wave", "merge", "done"}
    BY <1>1, <1>2, Zenon DEF Counted, BoxesGood
  <2>2. ASSUME NEW i \in DOMAIN boxes
        PROVE  /\ boxes[i].at \in Units \X Units /\ boxes[i].id \in 0..nextId - 1
               /\ boxes[i].node \in Nodes(o) \cup {NoNode}
    <3>1. RegionGood(boxes[i].at) /\ boxes[i].id \in 0..nextId - 1
      BY <1>2, <2>2, Zenon DEF BoxesGood
    <3> DEFINE r == boxes[i].at
    <3>2. r = <<r[1], r[2]>> /\ r[1] \in Units /\ r[2] \in Units
      BY <3>1, Zenon DEF RegionGood
    <3> HIDE DEF r
    <3>3. r \in Units \X Units
      BY <3>2
    <3>4. boxes[i].node \in Nodes(o) \cup {NoNode}
      BY <1>2, <2>2, Zenon DEF OnNode
    <3> QED BY <3>1, <3>3, <3>4 DEF r
  <2>3. DOMAIN o.boxOf \subseteq Nodes(o)
    BY <1>2, Zenon DEF MapsAgree
  <2>4. \A n \in Nodes(o) : IsLeaf(o, n) \/ {o.tree[n].left, o.tree[n].right} \subseteq Nodes(o)
    BY <1>2, Zenon DEF TreeGood, Splits
  <2> QED BY <2>1, <2>2, <2>3, <2>4, Zenon DEF TypeOK
<1>4. NodesMatchBoxes
  BY <1>2, Zenon DEF NodesMatchBoxes, OnNode
<1>5. ReservationsExact
  BY <1>2, Zenon DEF ReservationsExact, Reserved
<1>6. NoOrphanReservation
  BY <1>2, Zenon DEF NoOrphanReservation, Reserved
<1> QED BY <1>3, <1>4, <1>5, <1>6, Zenon DEF NodesExact

-----------------------------------------------------------------------------
(* The theorems.                                                           *)

\* Whatever the scene, the seeds, the configuration and the answers of the
\* searches, growing and consolidating stay within the invariant.
THEOREM GrowthSound == Spec => [](GrowthInv /\ FreeInv)
<1>1. Init => GrowthInv /\ FreeInv
  BY InitGood
<1>2. (GrowthInv /\ FreeInv) /\ [Next]_vars => (GrowthInv /\ FreeInv)'
  BY GrowthStep
<1> QED BY <1>1, <1>2, PTL DEF Spec

\* Boxes, nodes and reservations agree, also where a worker found the box under
\* other node ids (create_box, commit_box and run_worker_ffb_tasks in grower.cpp,
\* replay_structure in oracle.cpp, apply_merge_candidate and prune_contained in merger.cpp).
THEOREM NodesAlwaysExact == Spec => []NodesExact
<1>1. GrowthInv /\ FreeInv => NodesExact
  BY InvNodesExact
<1> QED BY <1>1, GrowthSound, PTL

\* No loop of the grower, nested in another or not, grows past max_boxes
\* (grower.cpp: roots, bootstrap, batches, chains and wave fronts).
THEOREM NeverTooManyBoxes == Spec => []MaxBoxesHeld
<1>1. GrowthInv /\ FreeInv => MaxBoxesHeld
  BY Zenon DEF GrowthInv, Land, MaxBoxesHeld
<1> QED BY <1>1, GrowthSound, PTL

\* A box holds no obstacle, whichever search certified it and whatever it was
\* merged with, where the evidence that is stored is one the search reads at the
\* region it is of: not with bisection over virtual cells and a store.
THEOREM BoxesStayFree == Spec => []BoxesFree
<1>1. GrowthInv /\ FreeInv => BoxesFree
  BY Zenon DEF FreeInv, AllClear, Clear, CertifiedBoxesFree, BoxesFree
<1> QED BY <1>1, GrowthSound, PTL

\* Consolidation uncovers nothing: not by hulls of touching boxes, exact or by score, not by
\* erasing boxes within others, identical ones included, in whatever order they
\* come and wherever a stop falls (merger.cpp:52-317).
THEOREM ConsolidationUncoversNothing == Spec => MergeUncoversNothing
<1>1. ASSUME GrowthInv, FreeInv, [Next]_vars
      PROVE  [pc = "merge" => Cover(boxes) \subseteq Cover(boxes')]_vars
  <2>1. SUFFICES ASSUME pc = "merge", ~UNCHANGED vars
                 PROVE  Cover(boxes) \subseteq Cover(boxes')
    BY Zenon
  <2>2. MergeRound \/ MergeDone
    BY <1>1, <2>1 DEF Next, Grow, GrowRoot, RootsGrown, BootFront, BootFace, BootDone, GrowOne,
       GrowBatch, Looping, CommitResult, GrowTask, BatchDone, LoopDone, GrowChain, ChainDone, WaveFront,
       Waving, WaveDone, Interrupt, Returned
  <2>3. CASE MergeRound
    BY <1>1, <2>3, MergeRoundGood
  <2>4. CASE MergeDone
    BY <2>4 DEF MergeDone
  <2> QED BY <2>2, <2>3, <2>4
<1> QED BY <1>1, GrowthSound, PTL DEF Spec, MergeUncoversNothing
=============================================================================
