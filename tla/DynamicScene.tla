---------------------------- MODULE DynamicScene ----------------------------
(***************************************************************************)
(* The box forest of RBFPlanningForest (safe_box_forest.cpp) while         *)
(* obstacles come and go: add_obstacle(s)_and_rebuild removes the boxes a  *)
(* new obstacle hits and refills them from their tree node, caching every  *)
(* leaf that stays blocked together with the obstacle it blames;           *)
(* remove_obstacle(_suffix)_and_regrow promotes the cached leaves that no  *)
(* longer have a blocker.                                                  *)
(*                                                                         *)
(* The configuration space is a line of 2^MaxDepth cells and a box is a    *)
(* node <<depth, k>> of the binary tree over it, so that boxes touch, nest *)
(* and split as in the code.  Box ids count from 0, as do the obstacle     *)
(* indices the cache keeps.  One thread owns a forest: each public method  *)
(* is one step.  This is the adjacency backend (partition_native off), the *)
(* merger off, the commit policy satisfied and local_regrow_box_limit 0,   *)
(* their defaults or the exp07 setting; raw_boxes_ then mirrors boxes_ and *)
(* is left out.                                                            *)
(***************************************************************************)
EXTENDS Integers, FiniteSets, SequencesExt

CONSTANTS
  MaxDepth,    \* insertion_leaf_sweep_max_depth: the depth of a cell
  LeafDepth,   \* max_depth of the leaf sweep that builds the forest
  Obstacle,
  Covers,      \* [Obstacle -> SUBSET Cell]: where the oracle finds a collision
  Flags,       \* [Obstacle -> SUBSET Cell]: where CollisionChecker::check_box does
  Path, Blocks,\* waypoint paths, and [Obstacle -> SUBSET Path] those it blocks
  Scenes,      \* the obstacle lists a forest is built for
  Batches,     \* the lists add_obstacles_and_rebuild is called with
  MaxPops,     \* max_stack_pops of a refill; the code takes 64 or, if more,
               \*   4 * 2^min(depth + 1, 12), which binds below 14 levels
  MaxScene, MaxId, MaxCache, MaxEdges     \* bounds of the state space

TwoTo[d \in 0..MaxDepth] == IF d = 0 THEN 1 ELSE 2 * TwoTo[d - 1]
Cell == 0..(TwoTo[MaxDepth] - 1)

ASSUME DepthAssumption == MaxDepth \in Nat /\ LeafDepth \in 0..MaxDepth /\ MaxPops \in Nat
ASSUME BoundAssumption == {MaxScene, MaxId, MaxCache, MaxEdges} \subseteq Nat
ASSUME ListAssumption ==
  /\ \A sc \in Scenes : sc \in Seq(Obstacle) /\ Len(sc) <= MaxScene
  /\ \A os \in Batches : os \in Seq(Obstacle) /\ os # <<>>
(* Both validators are sound; check_box may be the more conservative one.  *)
ASSUME CoverAssumption ==
  /\ Covers \in [Obstacle -> SUBSET Cell] /\ Flags \in [Obstacle -> SUBSET Cell]
  /\ \A o \in Obstacle : Covers[o] \subseteq Flags[o]
  /\ Blocks \in [Obstacle -> SUBSET Path]

VARIABLES
  scene,           \* scene_: the obstacles, in index order
  boxes,           \* boxes_: records [id, node]
  adjacency,       \* adjacency_: a box id to the ids next to it
  segmentEdges,    \* segment_edges_: records [ends, path]
  reservations,    \* node_to_box_ of the oracle
  collisionCache,  \* dynamic_collision_box_cache_: [node, blockers, active]
  blockerIndex,    \* dynamic_collision_cache_blocker_index_: positions per obstacle
  activeCount      \* dynamic_collision_cache_active_count_

vars == <<scene, boxes, adjacency, segmentEdges, reservations,
          collisionCache, blockerIndex, activeCount>>

(***************************************************************************)
(* Nodes, collisions, and the helpers on boxes and graphs.                 *)
(***************************************************************************)
Node == UNION {{d} \X (0..(TwoTo[d] - 1)) : d \in 0..MaxDepth}
CellsOf(n) == LET w == TwoTo[MaxDepth - n[1]] IN (n[2] * w)..((n[2] + 1) * w - 1)
Child(n, side) == <<n[1] + 1, 2 * n[2] + side>>

NodeFree(n, sc) == \A o \in Range(sc) : CellsOf(n) \cap Covers[o] = {}
CheckBox(n, o) == CellsOf(n) \cap Flags[o] # {}
PathClear(p, sc) == \A o \in Range(sc) : p \notin Blocks[o]

\* The elements of s that are in S, in order.
Kept(s, S) ==
  LET upTo[k \in 0..Len(s)] == IF k = 0 THEN <<>>
                               ELSE IF s[k] \in S THEN Append(upTo[k - 1], s[k]) ELSE upTo[k - 1]
  IN  upTo[Len(s)]

Touching(m, n) == \E c \in CellsOf(m), d \in CellsOf(n) : c - d \in -1..1
ContainedIn(n, bs) == \E b \in Range(bs) : CellsOf(n) \subseteq CellsOf(b.node)
HasAdjacency(n, bs) == \E b \in Range(bs) : Touching(n, b.node)

Ids(bs) == {b.id : b \in Range(bs)}
BoxOf(bs, id) == CHOOSE b \in Range(bs) : b.id = id
NextBoxId(bs) == 1 + Max({-1} \cup Ids(bs))
Reservations(bs) == [n \in {b.node : b \in Range(bs)} |->
                       (CHOOSE b \in Range(bs) : b.node = n).id]

NoEdges == [id \in {} |-> {}]
AppendEdges(g, pairs) ==
  [id \in DOMAIN g \cup UNION pairs |->
     (IF id \in DOMAIN g THEN g[id] ELSE {}) \cup
     UNION {p \ {id} : p \in {q \in pairs : id \in q}}]
RemoveLocalEdges(g, pairs) ==
  [id \in DOMAIN g |-> {j \in g[id] : {id, j} \notin pairs}]
RemoveAdjacencyKeys(g, ids) == [id \in DOMAIN g \ ids |-> g[id]]
RemoveAdjacencyNodes(g, ids) == [id \in DOMAIN g \ ids |-> g[id] \ ids]
ApplySegmentEdges(g, edges) == AppendEdges(g, {e.ends : e \in edges})

(* connect_incremental_boxes: the boxes from position first on are new.    *)
ConnectIncremental(g, bs, first) ==
  IF first > Len(bs) THEN g
  ELSE AppendEdges([id \in DOMAIN g \cup Ids(bs) |->
                      IF id \in DOMAIN g THEN g[id] ELSE {}],
         UNION {{{bs[i].id, bs[j].id} : j \in {j \in 1..(i - 1) :
                                               Touching(bs[i].node, bs[j].node)}} :
                 i \in first..Len(bs)})
ComputeAdjacency(bs) == ConnectIncremental(NoEdges, bs, 1)

(***************************************************************************)
(* The forest while one method runs: the boxes and the cache it changes.   *)
(***************************************************************************)
EmptyIndex == [i \in 0..(MaxScene - 1) |-> <<>>]
NewForest(bs, res) == [boxes |-> bs, res |-> res, cache |-> <<>>,
                       index |-> EmptyIndex, count |-> 0, nextId |-> NextBoxId(bs)]
Forest == [boxes |-> boxes, res |-> reservations, cache |-> collisionCache,
           index |-> blockerIndex, count |-> activeCount, nextId |-> NextBoxId(boxes)]

CommitBox(f, n) == [f EXCEPT !.boxes = Append(@, [id |-> f.nextId, node |-> n]),
                             !.res = [m \in DOMAIN f.res \cup {n} |->
                                        IF m = n THEN f.nextId ELSE f.res[m]],
                             !.nextId = @ + 1]

AddCached(f, n, blockers) ==
  IF blockers = {} THEN f
  ELSE [f EXCEPT !.cache = Append(@, [node |-> n, blockers |-> blockers, active |-> TRUE]),
                 !.index = [i \in DOMAIN f.index |-> IF i \in blockers
                              THEN Append(f.index[i], Len(f.cache) + 1) ELSE f.index[i]],
                 !.count = @ + 1]

Blamed(entry) == entry.active /\ entry.blockers # {}

RecountOnly(f) ==
  [f EXCEPT !.count = Cardinality({p \in DOMAIN f.cache : Blamed(f.cache[p])})]

RebuildIndex(f) ==
  LET positions == [p \in 1..Len(f.cache) |-> p]
      blamed == {p \in DOMAIN f.cache : Blamed(f.cache[p])}
  IN  [f EXCEPT !.index = [i \in DOMAIN f.index |->
                   Kept(positions, {p \in blamed : i \in f.cache[p].blockers})],
                !.count = Cardinality(blamed)]

(***************************************************************************)
(* build_leaf_sweep: the shallowest free nodes become boxes, the colliding *)
(* leaves are cached.  A leaf blames the obstacles of the groups it        *)
(* collides with: all of them when there is one group.                     *)
(***************************************************************************)
NodesInOrder ==
  LET upTo[d \in 0..LeafDepth] == IF d = 0 THEN <<<<0, 0>>>>
                                  ELSE upTo[d - 1] \o [k \in 1..TwoTo[d] |-> <<d, k - 1>>]
  IN  upTo[LeafDepth]
BreadthFirst(S) == Kept(NodesInOrder, S)
Swept == {n \in Node : n[1] <= LeafDepth}
FreeNodes(sc) == {n \in Swept : NodeFree(n, sc) /\
                    \A m \in Swept : m # n /\ CellsOf(n) \subseteq CellsOf(m)
                                       => ~NodeFree(m, sc)}
CollisionNodes(sc) == {n \in Swept : n[1] = LeafDepth /\ ~NodeFree(n, sc)}
SweepBlockers(n, sc, oneGroup) ==
  {i \in 0..(Len(sc) - 1) : oneGroup \/ CellsOf(n) \cap Covers[sc[i + 1]] # {}}

SweptForest(sc, oneGroup) ==
  LET free == BreadthFirst(FreeNodes(sc))
      hit  == BreadthFirst(CollisionNodes(sc))
      bs   == [i \in 1..Len(free) |-> [id |-> i - 1, node |-> free[i]]]
      upTo[k \in 0..Len(hit)] ==
        IF k = 0 THEN NewForest(bs, Reservations(bs))
        ELSE AddCached(upTo[k - 1], hit[k], SweepBlockers(hit[k], sc, oneGroup))
  IN  upTo[Len(hit)]

(***************************************************************************)
(* refill_removed_box_with_leaf_sweep: the nodes popped from the stack are *)
(* those from the removed box down to the leaves that are reserved, free or*)
(* as deep as the sweep goes, left before right.  After MaxPops of them the*)
(* loop breaks, and what is left on the stack is forgotten.  Reserved nodes*)
(* are skipped; a blocked leaf blames one obstacle only.                   *)
(***************************************************************************)
Pops(sc, reserved) ==
  LET pops[n \in Node] ==
        IF n \in reserved \/ NodeFree(n, sc) \/ n[1] = MaxDepth THEN <<n>>
        ELSE <<n>> \o (pops[Child(n, 0)] \o pops[Child(n, 1)])
  IN  pops
PopsCutShort(n, sc) == Len(Pops(sc, {})[n]) > MaxPops
FirstPops(s) == IF Len(s) <= MaxPops THEN s ELSE SubSeq(s, 1, MaxPops)
IsLeaf(n, sc, reserved) == n \notin reserved /\ (NodeFree(n, sc) \/ n[1] = MaxDepth)
Leaves(n, sc, reserved) ==
  Kept(FirstPops(Pops(sc, reserved)[n]), {m \in Node : IsLeaf(m, sc, reserved)})

RefillLeaf(f, n, sc, blamed) ==
  IF ~NodeFree(n, sc) THEN AddCached(f, n, {blamed})
  ELSE IF ContainedIn(n, f.boxes) THEN [f EXCEPT !.nextId = @ + 1]
  ELSE CommitBox(f, n)

Refill(f, removedBox, sc, blamed) ==
  LET cells == Leaves(removedBox.node, sc, DOMAIN f.res)
      upTo[k \in 0..Len(cells)] == IF k = 0 THEN f
                                   ELSE RefillLeaf(upTo[k - 1], cells[k], sc, blamed)
  IN  upTo[Len(cells)]
RefillAll(f, removed, sc, blamed) ==
  LET upTo[k \in 0..Len(removed)] == IF k = 0 THEN f
                                     ELSE Refill(upTo[k - 1], removed[k], sc, blamed)
  IN  upTo[Len(removed)]

(***************************************************************************)
(* promote_unblocked_collision_cache, for the removed indices R.           *)
(***************************************************************************)
RemovedBefore(R, i) == Cardinality({r \in R : r < i})
RemapUnshifted(R, blockers) == blockers \ R
Remap(R, blockers) == {i - RemovedBefore(R, i) : i \in blockers \ R}

FateOfAnyBlocker(f, entry, R) ==
  IF entry.blockers \cap R = {} THEN "kept"
  ELSE IF ContainedIn(entry.node, f.boxes) THEN "contained"
  ELSE IF f.boxes # <<>> /\ ~HasAdjacency(entry.node, f.boxes) THEN "disconnected"
  ELSE "promoted"

(* What becomes of a cached leaf: it keeps its remaining blockers, is      *)
(* dropped inside a box, is given up as disconnected, or becomes a box.    *)
Fate(f, entry, R) ==
  IF entry.blockers \cap R = {} \/ ~(entry.blockers \subseteq R) THEN "kept"
  ELSE IF ContainedIn(entry.node, f.boxes) THEN "contained"
  ELSE IF f.boxes # <<>> /\ ~HasAdjacency(entry.node, f.boxes) THEN "disconnected"
  ELSE "promoted"
Promoted(f, entry, R) == IF Fate(f, entry, R) = "promoted" THEN CommitBox(f, entry.node) ELSE f

(* A removed suffix, the count obstacles from index first on: only the      *)
(* leaves the index lists are visited, in place.  (Of a leaf listed twice   *)
(* the first visit leaves nothing for a second to do.)                      *)
SuffixVisits(f, first, count) ==
  LET upTo[k \in 0..count] == IF k = 0 THEN <<>> ELSE upTo[k - 1] \o f.index[first + k - 1]
  IN  upTo[count]

SetEntry(f, p, entry) == [f EXCEPT !.cache = [f.cache EXCEPT ![p] = entry]]
VisitInPlace(f, p, R) ==
  LET entry == f.cache[p]
  IN  IF ~entry.active THEN f
      ELSE IF Fate(f, entry, R) = "kept"
      THEN SetEntry(f, p, [entry EXCEPT !.blockers = Remap(R, @)])
      ELSE [SetEntry(Promoted(f, entry, R), p, [entry EXCEPT !.active = FALSE, !.blockers = {}])
              EXCEPT !.count = @ - 1]
PromoteSuffix(f, R, first) ==
  LET visits == SuffixVisits(f, first, Cardinality(R))
      upTo[k \in 0..Len(visits)] == IF k = 0 THEN f ELSE VisitInPlace(upTo[k - 1], visits[k], R)
  IN  upTo[Len(visits)]

(* Otherwise the cache is rewritten; a disconnected leaf stays in it, with *)
(* no blocker that could ever be removed.                                  *)
VisitAndRewrite(f, entry, R) ==
  IF ~entry.active THEN f
  ELSE IF Fate(f, entry, R) \in {"kept", "disconnected"}
  THEN [f EXCEPT !.cache = Append(@, [entry EXCEPT !.blockers = Remap(R, @)])]
  ELSE Promoted(f, entry, R)
PromoteGeneral(f, R) ==
  LET upTo[k \in 0..Len(f.cache)] == IF k = 0 THEN [f EXCEPT !.cache = <<>>]
                                     ELSE VisitAndRewrite(upTo[k - 1], f.cache[k], R)
  IN  RebuildIndex(upTo[Len(f.cache)])

PromoteUnblocked(f0, R, nObstacles) ==
  LET f == IF f0.count <= 0 /\ f0.cache # <<>> THEN RebuildIndex(f0) ELSE f0
  IN  IF f.count <= 0 THEN f
      ELSE IF \A r \in R : r >= nObstacles THEN PromoteSuffix(f, R, nObstacles)
      ELSE PromoteGeneral(f, R)

(***************************************************************************)
(* The public methods.                                                     *)
(***************************************************************************)
SetForest(f) ==
  /\ f.nextId <= MaxId + 1 /\ Len(f.cache) <= MaxCache
  /\ boxes' = f.boxes /\ reservations' = f.res
  /\ collisionCache' = f.cache /\ blockerIndex' = f.index /\ activeCount' = f.count

Init ==
  /\ scene = <<>> /\ boxes = <<>> /\ adjacency = NoEdges /\ segmentEdges = {}
  /\ reservations = [n \in {} |-> 0]
  /\ collisionCache = <<>> /\ blockerIndex = EmptyIndex /\ activeCount = 0

(* build_leaf_sweep_refined without refinement: build_leaf_sweep, then     *)
(* rebuild_adjacency.                                                      *)
BuildLeafSweep(sc, oneGroup) ==
  /\ scene' = sc
  /\ SetForest(SweptForest(sc, oneGroup))
  /\ adjacency' = ComputeAdjacency(boxes')
  /\ segmentEdges' = {}

ClearForest ==
  /\ SetForest(NewForest(<<>>, [n \in {} |-> 0]))
  /\ adjacency' = NoEdges /\ segmentEdges' = {}
  /\ UNCHANGED scene

(* A bridge found by the connector or a query: its waypoints were audited  *)
(* against the scene.                                                      *)
AddSegmentEdge(a, b, p) ==
  /\ a # b /\ PathClear(p, scene)
  /\ Cardinality(segmentEdges) < MaxEdges
  /\ segmentEdges' = segmentEdges \cup {[ends |-> {a, b}, path |-> p]}
  /\ adjacency' = AppendEdges(adjacency, {{a, b}})
  /\ UNCHANGED <<scene, boxes, reservations, collisionCache, blockerIndex, activeCount>>

(* The boxes an added obstacle hits, in the order they are found dirty.    *)
DirtyBoxes(os) ==
  LET upTo[k \in 0..Len(os)] ==
        IF k = 0 THEN <<>>
        ELSE upTo[k - 1] \o Kept(boxes, {b \in Range(boxes) : CheckBox(b.node, os[k])}
                                         \ Range(upTo[k - 1]))
  IN  upTo[Len(os)]

(* What an insertion asks of a segment edge: both ends live, waypoints     *)
(* audited against the updated scene.                                      *)
SurvivesUpdate(e, live, sc) == e.ends \subseteq Ids(live) /\ PathClear(e.path, sc)

AddObstacles(os) ==
  LET updated == scene \o os
      removed == DirtyBoxes(os)
      live    == Kept(boxes, Range(boxes) \ Range(removed))
      sound   == {e \in segmentEdges : SurvivesUpdate(e, live, updated)}
      cut     == {e.ends : e \in {e \in segmentEdges :
                    /\ e.ends \subseteq Ids(live) /\ ~PathClear(e.path, updated)
                    /\ \A a, b \in e.ends : a # b =>
                         ~Touching(BoxOf(live, a).node, BoxOf(live, b).node)}}
      start   == [Forest EXCEPT !.boxes = live, !.res = Reservations(live),
                                !.nextId = NextBoxId(live)]
      refilled == RefillAll(start, removed, updated, Len(scene))
  IN  /\ Len(updated) <= MaxScene
      /\ scene' = updated
      /\ SetForest(refilled)
      /\ segmentEdges' = sound
      /\ adjacency' = ApplySegmentEdges(
           ConnectIncremental(
             RemoveAdjacencyNodes(RemoveLocalEdges(adjacency, cut), Ids(removed)),
             refilled.boxes, Len(live) + 1), sound)

AddObstacle(o) == AddObstacles(<<o>>)

(* The tail of both removals, for a non-empty set of removed indices.      *)
RemoveAndRegrow(R) ==
  LET kept == Kept([k \in 1..Len(scene) |-> k], {k \in DOMAIN scene : k - 1 \notin R})
      left == [k \in DOMAIN kept |-> scene[kept[k]]]
      regrown == PromoteUnblocked([Forest EXCEPT !.res = Reservations(boxes)], R, Len(left))
  IN  /\ scene' = left
      /\ SetForest(regrown)
      /\ adjacency' = IF Len(regrown.boxes) = Len(boxes) THEN adjacency
                      ELSE ApplySegmentEdges(
                             ConnectIncremental(adjacency, regrown.boxes, Len(boxes) + 1),
                             segmentEdges)
      /\ UNCHANGED segmentEdges

RemoveObstacle(i) == i < Len(scene) /\ RemoveAndRegrow({i})
RemoveObstacleSuffix(target) ==
  target < Len(scene) /\ RemoveAndRegrow(target..(Len(scene) - 1))

Next ==
  \/ \E sc \in Scenes, oneGroup \in BOOLEAN : BuildLeafSweep(sc, oneGroup)
  \/ ClearForest
  \/ \E a, b \in Ids(boxes), p \in Path : AddSegmentEdge(a, b, p)
  \/ \E o \in Obstacle : AddObstacle(o)
  \/ \E os \in Batches : AddObstacles(os)
  \/ \E i \in 0..(MaxScene - 1) : RemoveObstacle(i) \/ RemoveObstacleSuffix(i)

Spec == Init /\ [][Next]_vars
(***************************************************************************)
(* Properties.                                                             *)
(***************************************************************************)
(* Every variable keeps its type.                                          *)
TypeOK ==
  /\ scene \in Seq(Obstacle) /\ Len(scene) <= MaxScene
  /\ \A b \in Range(boxes) : b \in [id : 0..MaxId, node : Node]
  /\ Cardinality(Ids(boxes)) = Len(boxes)
  /\ DOMAIN adjacency \subseteq 0..MaxId
  /\ segmentEdges \subseteq [ends : SUBSET (0..MaxId), path : Path]
  /\ \A e \in Range(collisionCache) :
       e \in [node : Node, blockers : SUBSET (0..(MaxScene - 1)), active : BOOLEAN]
  /\ activeCount \in 0..MaxCache

(* A BoxNode is "a collision-free axis-aligned box": no box of the forest  *)
(* meets an obstacle of the scene, whatever was inserted and removed       *)
(* before.                                                                 *)
BoxesFree == \A b \in Range(boxes) : NodeFree(b.node, scene)

(* The cache names, for every leaf it holds, all the obstacles of the scene*)
(* that block it: what promotion without a collision check relies on.      *)
BlameComplete ==
  \A e \in Range(collisionCache) : Blamed(e) =>
    \A k \in DOMAIN scene : CellsOf(e.node) \cap Covers[scene[k]] # {} => k - 1 \in e.blockers

(* From a forest that is free and a cache that blames completely, no method*)
(* makes a box collide.                                                    *)
UpdatesKeepBoxesFree == [][BoxesFree /\ BlameComplete => BoxesFree']_vars

(* Removing obstacles, and with it the renumbering of those behind them,   *)
(* never leaves a cached leaf blaming too little; nor, in a forest that is *)
(* free, does adding one obstacle that reaches into no cached leaf.        *)
RenumberingKeepsBlame ==
  [][BlameComplete /\ BoxesFree /\
     (\/ Len(scene') < Len(scene)
      \/ \E o \in Obstacle :
           /\ AddObstacle(o)
           /\ \A e \in Range(collisionCache) :
                Blamed(e) => CellsOf(e.node) \cap Covers[o] = {})
       => BlameComplete']_vars

(* The query graph: two boxes are neighbours exactly when they touch or a  *)
(* segment edge joins them, and no id outside the forest is in the graph,  *)
(* although ids of removed boxes are given out again.                      *)
AdjacencyExact ==
  adjacency = ApplySegmentEdges(ComputeAdjacency(boxes), segmentEdges)

(* Every segment edge joins two live boxes along waypoints that no obstacle*)
(* of the scene blocks.                                                    *)
SegmentEdgesAudited ==
  \A e \in segmentEdges : e.ends \subseteq Ids(boxes) /\ PathClear(e.path, scene)

(* Boxes and blamed leaves never overlap, so nothing is covered twice and  *)
(* no leaf is promoted twice.                                              *)
NothingCoveredTwice ==
  LET held == [i \in 1..Len(boxes) |-> boxes[i].node] \o
              [i \in 1..Len(collisionCache) |-> IF Blamed(collisionCache[i])
                 THEN collisionCache[i].node ELSE <<>>]
  IN  \A i, j \in DOMAIN held :
        i < j /\ held[i] # <<>> /\ held[j] # <<>> => CellsOf(held[i]) \cap CellsOf(held[j]) = {}

(* The oracle reserves exactly the nodes of the boxes, for their owners.   *)
ReservationsExact == reservations = Reservations(boxes)

(* A removal that goes through the index finds every leaf that blames the  *)
(* removed obstacle, however the cache was compacted and renumbered before.*)
IndexFindsEveryBlamed ==
  /\ activeCount = Cardinality({p \in DOMAIN collisionCache : Blamed(collisionCache[p])})
  /\ \A p \in DOMAIN collisionCache : \A i \in collisionCache[p].blockers :
       Contains(blockerIndex[i], p)

(* Adding obstacles forgets no part of the space, except below a removed   *)
(* box whose refill takes more than MaxPops pops: everything else that a   *)
(* box or a blamed leaf covered, a box or a blamed leaf still covers.      *)
Accounted == UNION ({CellsOf(b.node) : b \in Range(boxes)} \cup
                    {CellsOf(e.node) : e \in {e \in Range(collisionCache) : Blamed(e)}})
CutCells(os) == UNION {CellsOf(b.node) : b \in {b \in Range(DirtyBoxes(os)) :
                                                  PopsCutShort(b.node, scene \o os)}}
InsertionForgetsNothing ==
  [][\A os \in Batches \cup {<<o>> : o \in Obstacle} :
       AddObstacles(os) => Accounted \ CutCells(os) \subseteq Accounted']_vars

\* The graph is the one a rebuild would compute, segment edges are audited
\* against the scene of now (safe_box_forest.cpp:18711-18877, 19437-19481).
GraphExact == TypeOK /\ AdjacencyExact /\ SegmentEdgesAudited

\* Boxes, cached leaves, reservations and blocker index describe one state: no
\* region is held twice, each box reserves its node and no other is reserved,
\* each leaf is found under each of its blockers
\* (safe_box_forest.cpp:9653-9985, 19573-19583).
BookkeepingExact == NothingCoveredTwice /\ ReservationsExact /\ IndexFindsEveryBlamed

\* What an update knows of the obstacles it keeps: renumbering moves blame with
\* the obstacle it belongs to, and an insertion drops no leaf it cannot use, but
\* for those a refill is cut short of (safe_box_forest.cpp:9694-10190,
\* 18711-19069).
UpdatesKeepKnowledge == RenumberingKeepsBlame /\ InsertionForgetsNothing
=============================================================================
