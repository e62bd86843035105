--------------------------- MODULE PlanningForest ---------------------------
(***************************************************************************)
(* The forest a query runs on: boxes, their graph and the segment edges,   *)
(* shared by the island connector, the query bridges and the queries, and  *)
(* the two services all of them use: the free-box search and the bi-       *)
(* directional RRT.                                                        *)
(***************************************************************************)
EXTENDS BoxGraph

CONSTANTS
  Domain, MaxDepth,   \* the region of the tree's root and its depth limit
  Resolution,         \* samples of every segment check
  Via                 \* the points a tree of the RRT may have grown to

ASSUME DomainAssumption ==
  /\ MaxDepth \in Nat /\ Resolution \in Nat \ {0}
  /\ \A d \in Dim : (Domain[d][2] - Domain[d][1]) % (2 ^ (1 + ((MaxDepth + 1) \div 2))) = 0

VARIABLES
  obs,     \* the obstacles of scene_
  boxes,   \* boxes_
  graph,   \* adjacency_
  edges,   \* segment_edges_
  nextId,  \* the id the next box gets
  pc       \* the phase of the running call

forest == <<obs, boxes, graph, edges, nextId>>

Box(id, r, root, certified) ==
  [id |-> id, region |-> r, root |-> root, certified |-> certified, strict |-> ~certified]
Region(id) == RegionOf(boxes, id)

\* The cell of depth d around a point: the axes are halved in turn.
Points == (Domain[1][1]..Domain[1][2]) \X (Domain[2][1]..Domain[2][2])
Half(r, a, p) ==
  LET m == (r[a][1] + r[a][2]) \div 2
  IN [r EXCEPT ![a] = IF p[a] < m THEN <<@[1], m>> ELSE <<m, @[2]>>]
CellTable ==
  [p \in Points |->
     LET cell[d \in 0..MaxDepth] == IF d = 0 THEN Domain ELSE Half(cell[d - 1], 1 + ((d - 1) % 2), p)
     IN cell]

(***************************************************************************)
(* FindFreeBoxService::find in the binary search over the depth: the       *)
(* shallowest cell around the point the oracle calls free.  An oracle that *)
(* certifies looks at the whole cell, another one at its centre.  A seed in*)
(* collision is not rejected beforehand: the default.                      *)
(***************************************************************************)
OracleFree(r, certify) == IF certify THEN FreeRegion(r, obs) ELSE ~PointHit(Center(r), obs)
NoRegion == <<>>
FindFreeBox(p, depth, certify) ==
  LET deepest == Min({depth, MaxDepth})
      free == {d \in 0..deepest : OracleFree(CellTable[p][d], certify)}
  IN IF p \notin Points THEN [region |-> NoRegion, cap |-> FALSE]
     ELSE IF deepest \notin free THEN [region |-> NoRegion, cap |-> TRUE]
     ELSE [region |-> CellTable[p][Min({d \in 0..deepest : d..deepest \subseteq free})],
           cap |-> FALSE]

(***************************************************************************)
(* birrt_connect_impl: nothing if an end collides, the straight segment if *)
(* it is clear, otherwise nothing in time or the path the trees met on.    *)
(***************************************************************************)
RrtAt(p, q, samples) ==
  IF PointHit(p, obs) \/ PointHit(q, obs) THEN {<<>>}
  ELSE IF ~SegmentHit(p, q, samples, obs) THEN {<<p, q>>}
  ELSE {<<>>} \cup {path \in {<<p, v, q>> : v \in Via \ {p, q}} : PathClear(path, samples, obs)}
Rrt(p, q) == RrtAt(p, q, Resolution)
=============================================================================
