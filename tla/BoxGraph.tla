------------------------------ MODULE BoxGraph ------------------------------
(***************************************************************************)
(* Boxes, the adjacency graph and segment edges (box_graph.cpp), and the   *)
(* point and segment checks of the collision checker (scene.cpp).          *)
(*                                                                         *)
(* The configuration space is a plane lattice.  A region is a pair of      *)
(* closed intervals with even bounds, so every centre and overlap midpoint *)
(* is a lattice point; an obstacle is an open rectangle with any bounds.   *)
(* Lengths are Manhattan lengths: they order alternatives, and no property *)
(* depends on which norm does.  A projection is rounded to the lattice.    *)
(***************************************************************************)
EXTENDS Integers, FiniteSets, SequencesExt

Dim == 1..2
NoId == -1

(***************************************************************************)
(* Points and regions.                                                     *)
(***************************************************************************)
Abs(n) == IF n < 0 THEN -n ELSE n
Dist(p, q) == Abs(p[1] - q[1]) + Abs(p[2] - q[2])
Clamp(v, lo, hi) == Min({hi, Max({lo, v})})
InBox(r, p) == \A d \in Dim : r[d][1] <= p[d] /\ p[d] <= r[d][2]
Center(r) == [d \in Dim |-> (r[d][1] + r[d][2]) \div 2]
Closest(r, p) == [d \in Dim |-> Clamp(p[d], r[d][1], r[d][2])]
Volume(r) == (r[1][2] - r[1][1]) * (r[2][2] - r[2][1])
Overlap(a, b) == [d \in Dim |-> <<Max({a[d][1], b[d][1]}), Min({a[d][2], b[d][2]})>>]
Connected(a, b) == \A d \in Dim : a[d][1] <= b[d][2] /\ b[d][1] <= a[d][2]
Gap(a, b) == Max(UNION {{a[d][1] - b[d][2], b[d][1] - a[d][2], 0} : d \in Dim})
Disjoint(r, o) == \E d \in Dim : r[d][2] <= o[d][1] \/ o[d][2] <= r[d][1]
FreeRegion(r, obs) == \A o \in obs : Disjoint(r, o)

\* check_config and check_segment: the point, and k + 1 samples of a segment.
PointHit(p, obs) == \E o \in obs : \A d \in Dim : o[d][1] < p[d] /\ p[d] < o[d][2]
SegmentHit(p, q, k, obs) ==
  \E o \in obs, i \in 0..k : \A d \in Dim :
    LET s == k * p[d] + i * (q[d] - p[d]) IN k * o[d][1] < s /\ s < k * o[d][2]

\* What the samples stand for: every point of the segment is free.
SegmentFree(p, q, obs) ==
  \A o \in obs :
    LET side == {(q[1] - p[1]) * (y - p[2]) - (q[2] - p[2]) * (x - p[1]) :
                   x \in {o[1][1], o[1][2]}, y \in {o[2][1], o[2][2]}}
    IN \/ \E d \in Dim : Max({p[d], q[d]}) <= o[d][1] \/ Min({p[d], q[d]}) >= o[d][2]
       \/ p # q /\ (Min(side) >= 0 \/ Max(side) <= 0)

Hops(path) == 1..Len(path) - 1
Length(path) == FoldLeft(LAMBDA n, i : n + Dist(path[i], path[i + 1]), 0,
                         [i \in Hops(path) |-> i])
PathClear(path, k, obs) == \A i \in Hops(path) : ~SegmentHit(path[i], path[i + 1], k, obs)
AppendIfNew(path, p) == IF path # <<>> /\ Last(path) = p THEN path ELSE Append(path, p)
AppendAll(path, more) == FoldLeft(AppendIfNew, path, more)

\* transition_waypoint_toward_goal, for boxes that touch.
UnclampedTransition(a, b, from, goal) ==
  LET c == Center(Overlap(a, b)) IN [d \in Dim |-> (from[d] + goal[d] + 2 * c[d]) \div 4]
TransitionPoint(a, b, from, goal) ==
  LET ov == Overlap(a, b)
      delta == [d \in Dim |-> goal[d] - from[d]]
      square == delta[1] * delta[1] + delta[2] * delta[2]
      dot == (Center(ov)[1] - from[1]) * delta[1] + (Center(ov)[2] - from[2]) * delta[2]
      t == Clamp(dot, 0, square)
  IN IF square = 0 THEN Center(ov)
     ELSE [d \in Dim |-> Clamp(from[d] + (t * delta[d]) \div square, ov[d][1], ov[d][2])]

LexLess(a, b) == \E i \in DOMAIN a : a[i] < b[i] /\ \A j \in 1..i - 1 : a[j] = b[j]

(***************************************************************************)
(* Boxes: records [id, region, root, certified, strict] in insertion order.*)
(* A graph maps every id to the set of its neighbours.                     *)
(***************************************************************************)
Ids(boxes) == {boxes[i].id : i \in DOMAIN boxes}
BoxOf(boxes, id) == boxes[CHOOSE i \in DOMAIN boxes : boxes[i].id = id]
RegionOf(boxes, id) == BoxOf(boxes, id).region

ComputeAdjacency(boxes) ==
  [id \in Ids(boxes) |->
     {o \in Ids(boxes) \ {id} : Connected(RegionOf(boxes, id), RegionOf(boxes, o))}]
AppendGraphEdge(graph, a, b) ==
  IF a = b THEN graph ELSE [graph EXCEPT ![a] = @ \cup {b}, ![b] = @ \cup {a}]

Reach(graph, id) ==
  LET grow[n \in 0..Cardinality(DOMAIN graph)] ==
        IF n = 0 THEN {id} ELSE grow[n - 1] \cup UNION {graph[x] : x \in grow[n - 1]}
  IN grow[Cardinality(DOMAIN graph)]
FindIslands(graph) == {Reach(graph, id) : id \in DOMAIN graph}
HasPath(graph, a, b) == b \in Reach(graph, a)

(***************************************************************************)
(* Segment edges: [id, from, to, pts, type, checked, obb, strict, inner,   *)
(* query].                                                                 *)
(***************************************************************************)
CountsAsSegment(e) == e.type \in {"RRTConnector", "PointValidatedGap", "QueryBridge"}

NextEdgeId(edges) == IF edges = <<>> THEN 0 ELSE 1 + Max({edges[i].id : i \in DOMAIN edges})
AppendSegmentEdge(edges, e) ==
  IF e.from < 0 \/ e.to < 0 THEN edges ELSE Append(edges, [e EXCEPT !.id = NextEdgeId(edges)])
PlainEdge(a, b, pts, type) ==
  [id |-> NoId, from |-> a, to |-> b, pts |-> pts, type |-> type, checked |-> TRUE,
   obb |-> FALSE, strict |-> FALSE, inner |-> <<>>]

\* find_segment_edge: the shortest edge of the pair, the first of equals.
Joins(e, a, b) == {e.from, e.to} = {a, b}
EdgesOf(edges, a, b) == {i \in DOMAIN edges : Joins(edges[i], a, b)}
HasSegmentEdge(edges, a, b) == EdgesOf(edges, a, b) # {}
FindSegmentEdge(edges, a, b) ==
  LET S == EdgesOf(edges, a, b)
      best == Min({Length(edges[i].pts) : i \in S})
  IN edges[Min({i \in S : Length(edges[i].pts) = best})]

ApplySegmentEdges(edges, graph) ==
  FoldLeft(LAMBDA g, e : AppendGraphEdge(g, e.from, e.to), graph, edges)
=============================================================================
