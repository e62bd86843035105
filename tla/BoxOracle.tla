------------------------------ MODULE BoxOracle ------------------------------
(***************************************************************************)
(* The box oracle: the tree of cells a database holds, the reservations of *)
(* cells by boxes, the certificate that a region is free, and the worker   *)
(* session that grows a private tree under one leaf of the master and      *)
(* replays it.  (lect_database/src/sbf/oracle.cpp)                         *)
(*                                                                         *)
(* One joint is modelled: the root interval is the units 1..2^Res and a    *)
(* node at depth d is a dyadic cell of 2^(Res-d) units.  An oracle is a    *)
(* record, because a step of the grower talks to several of them; node ids *)
(* are positions in the tree, so a worker's ids differ from its master's.  *)
(***************************************************************************)
EXTENDS Integers, Sequences, FiniteSets, SequencesExt, Functions

CONSTANTS Res,            \* log2 of the number of units
          MaxTreeDepth    \* max_tree_depth() of the database

ASSUME OracleAssumption == /\ Res \in Nat
                           /\ MaxTreeDepth \in Nat \ {0}
                           \* a worker's virtual cells are units or larger
                           /\ 2 * (MaxTreeDepth - 1) <= Res

Units == 1..2^Res
NoNode == 0
NoRegion == <<0, 0>>
Within(q, r) == r[1] <= q /\ q <= r[2]
Inside(r, s) == s[1] <= r[1] /\ r[2] <= s[2]

\* The cell of depth d that holds q.
Cell(q, d) == LET w == 2^(Res - d)
                  k == (q - 1) \div w
              IN <<k * w + 1, (k + 1) * w>>

\* classify_payload: an envelope over-approximates its interval by a share of
\* its width, so the certificate of a region implies that of its parts.
Free(occ, r) ==
  LET pad == (r[2] - r[1] + 1) \div 4
  IN \A u \in occ : u < r[1] - pad \/ u > r[2] + pad

\* The map f, with k mapped to v.
Put(f, k, v) == [x \in DOMAIN f \cup {k} |-> IF x = k THEN v ELSE f[x]]

NewNode(r, d) == [at |-> r, depth |-> d, left |-> NoNode, right |-> NoNode]

NewOracle(r, d, store) ==
  [tree |-> <<NewNode(r, d)>>, boxOf |-> <<>>, nodeOf |-> <<>>,
   rootEv |-> NoRegion, store |-> store]

RootNode == 1
Nodes(o) == DOMAIN o.tree
IsLeaf(o, n) == o.tree[n].left = NoNode
Depth(o, n) == o.tree[n].depth
Region(o, n) == o.tree[n].at
\* The nodes that hold q: one for each depth from the root to a leaf.
Path(o, q) == {n \in Nodes(o) : Within(q, Region(o, n))}
NodeAt(o, q, d) == CHOOSE n \in Path(o, q) : Depth(o, n) = d
LeafContaining(o, q) == CHOOSE n \in Path(o, q) : IsLeaf(o, n)

\* The two halves of a cell, the lower one first.
Half(r, lower) == LET mid == (r[1] + r[2] - 1) \div 2
                  IN IF lower THEN <<r[1], mid>> ELSE <<mid + 1, r[2]>>

\* split_node and split_node_at on a leaf: the two halves get the next ids.
SplitNode(o, n) ==
  LET cell == o.tree[n]
      k == Len(o.tree)
      split == [cell EXCEPT !.left = k + 1, !.right = k + 2]
      half(lower) == NewNode(Half(cell.at, lower), cell.depth + 1)
  IN [o EXCEPT !.tree = [@ EXCEPT ![n] = split] \o <<half(TRUE), half(FALSE)>>]

\* A descent towards q splits every leaf it meets above depth d: pair i of
\* the new nodes are the halves of the cell at depth from + i - 1, and the half
\* that holds q is split further while i < count.
SplitDown(o, q, d) ==
  LET leaf == LeafContaining(o, q)
      from == Depth(o, leaf)
      k == Len(o.tree)
      split == [o.tree[leaf] EXCEPT !.left = k + 1, !.right = k + 2]
      node(j) == LET i == (j + 1) \div 2
                     r == Half(Cell(q, from + i - 1), j % 2 = 1)
                     on == Within(q, r) /\ from + i < d
                 IN [NewNode(r, from + i) EXCEPT !.left = IF on THEN k + 2 * i + 1 ELSE NoNode,
                                                 !.right = IF on THEN k + 2 * i + 2 ELSE NoNode]
  IN IF d <= from THEN o
     ELSE [o EXCEPT !.tree = [@ EXCEPT ![leaf] = split] \o [j \in 1..2 * (d - from) |-> node(j)]]

----------------------------------------------------------------------------
(* Reservations: two maps that reserve_node and release_* keep apart.      *)

IsReserved(o, n) == n \in DOMAIN o.boxOf
ReserveNode(o, n, b) ==
  IF n = NoNode THEN o
  ELSE [o EXCEPT !.boxOf = Put(@, n, b), !.nodeOf = Put(@, b, n)]
ReleaseBox(o, b) ==
  IF b \notin DOMAIN o.nodeOf THEN o
  ELSE [o EXCEPT !.boxOf = Restrict(@, DOMAIN @ \ {o.nodeOf[b]}),
                 !.nodeOf = Restrict(@, DOMAIN @ \ {b})]
ReleaseNode(o, n) ==
  IF ~IsReserved(o, n) THEN o
  ELSE [o EXCEPT !.nodeOf = Restrict(@, DOMAIN @ \ {o.boxOf[n]}),
                 !.boxOf = Restrict(@, DOMAIN @ \ {n})]

----------------------------------------------------------------------------
(* Evidence.  A payload is stored and read under the node's id alone; for  *)
(* every node but the root that is the node's own region, because only the *)
(* root is asked about regions that are not its own.                       *)

\* endpoint_payload_for_node: the region whose payload answers for r.
PayloadRegion(o, n, r) == IF n = RootNode /\ o.rootEv # NoRegion THEN o.rootEv ELSE r
StorePayload(o, occ, n, r) ==
  IF o.store /\ occ # {} /\ n = RootNode /\ o.rootEv = NoRegion
  THEN [o EXCEPT !.rootEv = r] ELSE o
ValidateNode(o, occ, n, r) == occ = {} \/ Free(occ, PayloadRegion(o, n, r))

----------------------------------------------------------------------------
(* Worker sessions.                                                        *)

\* The session's own database starts as the master's leaf; it stores nothing.
Session(master, dom) == NewOracle(Region(master, dom), Depth(master, dom), FALSE)

\* replay_structure: pairs of worker and master nodes are walked from the
\* roots; a master leaf is split where the worker's node is split, a master
\* node already split keeps its children.
ReplayStep(worker, s) ==
  LET w == s.todo[1]
      m == s.map[w]
      mapped(master) == Put(Put(s.map, worker.tree[w].right, master.tree[m].right),
                            worker.tree[w].left, master.tree[m].left)
      split == IF IsLeaf(s.o, m) THEN SplitNode(s.o, m) ELSE s.o
  IN IF s.todo = <<>> THEN s
     ELSE IF IsLeaf(worker, w) THEN [s EXCEPT !.todo = Tail(@)]
     ELSE [o |-> split, map |-> mapped(split),
           todo |-> <<worker.tree[w].left, worker.tree[w].right>> \o Tail(s.todo)]
Replay(master, worker, dom) ==
  LET after[k \in 0..Len(worker.tree)] ==
        IF k = 0 THEN [o |-> master, map |-> [w \in {RootNode} |-> dom], todo |-> <<RootNode>>]
        ELSE ReplayStep(worker, after[k - 1])
  IN after[Len(worker.tree)]
=============================================================================
