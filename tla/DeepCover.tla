------------------------------ MODULE DeepCover ------------------------------
(***************************************************************************)
(* build_leaf_sweep and build_adaptive_deep_leaf_sweep_cover of the        *)
(* facade: a leaf sweep to a first depth, a merge of its free boxes, and   *)
(* then the collision boxes are refined one at a time, by priority, until  *)
(* the cover is ready, the depth is reached or the budget is spent.  The   *)
(* fixed mode sweeps to the full depth at once; the fast mode looks at the *)
(* cover from inside the sweep, at its checkpoints.                        *)
(* (safe_box_forest/src/safe_box_forest.cpp)                               *)
(*                                                                         *)
(* The sweep is that of LeafSweep, on one joint and in its units.  A probe *)
(* is the centre of a unit.  Anchor probes, which are counted and decide   *)
(* nothing, and the timings of the result are left out.                    *)
(***************************************************************************)
EXTENDS LeafSweep

CONSTANTS Plans,           \* the builds considered: see PlanType
          AdjacencyBatch   \* kAdaptiveAdjacencyBatchSize, 512

ASSUME BatchAssumption == AdjacencyBatch \in Nat \ {0}

VARIABLES plan,      \* AdaptiveLeafSweepConfig, and what the environment does
          stage,     \* where the build is
          forest,    \* boxes_, adjacency_, the reservations of the oracle, the
                     \* partition and dynamic_collision_box_cache_
          cover,     \* the locals of the refinement
          snaps,     \* depth_snapshots
          profile    \* last_build_: what the build reports of the forest

coverVars == <<plan, stage, forest, cover, snaps, profile>>
allVars == <<vars, coverVars>>

----------------------------------------------------------------------------
(* The forest.                                                             *)

NoNode == 0                      \* tree_id -1
NoPartition == [on |-> FALSE, cells |-> {}]
EmptyForest == [boxes |-> <<>>, adj |-> {}, reserved |-> {}, part |-> NoPartition, cache |-> {}]
Box(id, node, iv) == [id |-> id, node |-> node, iv |-> iv]
BoxesOf(items) == [i \in DOMAIN items |-> Box(i, items[i].node, items[i].iv)]
Ids(bs) == {bs[i].id : i \in DOMAIN bs}
NextBoxId(bs) == Max({0} \cup Ids(bs)) + 1

\* reserve_existing_boxes, after clear_reservations.
Reservations(bs) == {<<bs[i].node, bs[i].id>> : i \in {j \in DOMAIN bs : bs[j].node # NoNode}}
\* compute_adjacency, and connect_incremental_boxes from a position on.
AdjacencyFrom(bs, first) ==
  {{bs[p[1]].id, bs[p[2]].id} : p \in {q \in (DOMAIN bs) \X (DOMAIN bs) :
      q[1] < q[2] /\ q[2] >= first /\ Overlaps(bs[q[1]].iv, bs[q[2]].iv)}}

\* The tail of build_leaf_sweep: whatever the forest was, it is now the free
\* boxes of the sweep, without adjacency; the partition is not touched.
Swept(f) ==
  LET bs == BoxesOf(result.free)
  IN [f EXCEPT !.boxes = bs, !.adj = {}, !.reserved = Reservations(bs),
               !.cache = {[iv |-> b.iv, blame |-> b.blame] : b \in {c \in ToSet(result.coll) : c.blame # {}}}]

----------------------------------------------------------------------------
(* Merging.  A pass is a relation "b comes right after a and may join it"; *)
(* a chain becomes one box under the id of its first, which keeps its      *)
(* reservation but no node, and the ids of the others are released.        *)

Without(bs, gone) == [i \in 1..Len(bs) - Cardinality(gone) |->
  bs[CHOOSE j \in DOMAIN bs \ gone : Cardinality({k \in DOMAIN bs \ gone : k <= j}) = i]]
Released(f, ids) == {r \in f.reserved : r[2] \notin ids}
MergeChains(f, follows) ==
  LET bs == f.boxes
      chain(i) == LET C[P \in SUBSET DOMAIN bs] ==
                        LET Q == P \cup {p[2] : p \in {q \in follows : q[1] \in P}}
                        IN IF Q = P THEN P ELSE C[Q]
                  IN C[{i}]
      firsts == {i \in DOMAIN bs : (\E p \in follows : p[1] = i) /\ \A p \in follows : p[2] # i}
      joined == UNION {chain(i) : i \in firsts}
      hull(i) == Box(bs[i].id, NoNode, <<bs[i].iv[1], Max({bs[j].iv[2] : j \in chain(i)})>>)
      order == SetToSortSeq(firsts, <)
  IN [f EXCEPT !.boxes = Without(bs, joined) \o [k \in DOMAIN order |-> hull(order[k])],
               !.reserved = Released(f, {bs[i].id : i \in joined \ firsts})]

\* grid_line_merge_leaf: whole cells of one depth, next to each other.
GridLines(bs) ==
  LET whole(i) == bs[i].node # NoNode /\ bs[i].iv = NodeInterval(bs[i].node)
  IN {p \in (DOMAIN bs) \X (DOMAIN bs) :
        /\ whole(p[1]) /\ whole(p[2])
        /\ bs[p[2]].node = bs[p[1]].node + 1 /\ DepthOf(bs[p[1]].node) = DepthOf(bs[p[2]].node)}
GridLineMerge(f) == MergeChains(f, GridLines(f.boxes))

\* try_tree_sibling_merge_round: two children that fill their parent.
Siblings(bs) ==
  {p \in (DOMAIN bs) \X (DOMAIN bs) :
     LET l == bs[p[1]]  r == bs[p[2]]
     IN /\ l.node > Root /\ l.node % 2 = 0 /\ r.node = l.node + 1
        /\ Overlaps(l.iv, r.iv)
        /\ <<l.iv[1], r.iv[2]>> = Clip(NodeInterval(l.node \div 2), cfg.domain)}
TreeSiblingRound(f) ==
  LET pairs == Siblings(f.boxes)
      bs == [i \in DOMAIN f.boxes |->
               IF \E p \in pairs : p[1] = i
               THEN LET r == f.boxes[(CHOOSE p \in pairs : p[1] = i)[2]]
                    IN [f.boxes[i] EXCEPT !.node = @ \div 2, !.iv = <<@[1], r.iv[2]>>]
               ELSE f.boxes[i]]
      gone == {p[2] : p \in pairs}
  IN [f EXCEPT !.boxes = Without(bs, gone), !.reserved = Released(f, {bs[i].id : i \in gone})]
TreeSiblingMerge(f, rounds) ==
  LET after[k \in 0..rounds] == IF k = 0 THEN f ELSE TreeSiblingRound(after[k - 1])
  IN after[rounds]

\* indexed_containment_prune_leaf, which may end early.
Swallows(bs, o, i) ==
  /\ o # i
  /\ bs[o].iv[1] <= bs[i].iv[1] /\ bs[i].iv[2] <= bs[o].iv[2]
  /\ bs[o].iv = bs[i].iv => bs[o].id < bs[i].id
ContainmentPrune(f, examined) ==
  LET bs == f.boxes
      gone[k \in 0..examined] ==
        IF k = 0 THEN {}
        ELSE gone[k - 1] \cup {i \in {k} : \E o \in DOMAIN bs \ gone[k - 1] : Swallows(bs, o, i)}
  IN [f EXCEPT !.boxes = Without(bs, gone[examined]),
               !.reserved = Released(f, {bs[i].id : i \in gone[examined]})]

\* fast_exact_face_merge_leaf: on one joint all boxes share the other faces.
NextOnLine(bs) ==
  {p \in (DOMAIN bs) \X (DOMAIN bs) : p[1] # p[2] /\ bs[p[1]].iv[2] = bs[p[2]].iv[1] /\ bs[p[1]].iv[1] < bs[p[2]].iv[2]}
ExactFaceMerge(f) == MergeChains(f, NextOnLine(f.boxes))

\* budgeted_leaf_merge: a deadline may end it after each part, and the cap on
\* its input before the last.
BudgetedMerges(f) ==
  LET lines == GridLineMerge(f)
      trees == {TreeSiblingMerge(lines, k) : k \in IF plan.mergeTimed THEN 0..plan.rounds ELSE {plan.rounds}}
      pruned == UNION {{ContainmentPrune(t, k) :
                          k \in IF plan.mergeTimed THEN 0..Len(t.boxes) ELSE {Len(t.boxes)}} :
                        t \in {TreeSiblingMerge(lines, plan.rounds)}}
      capped(t) == plan.mergeCap > 0 /\ Len(t.boxes) > plan.mergeCap
  IN {IF capped(t) THEN t ELSE ExactFaceMerge(t) : t \in pruned}
     \cup IF plan.mergeTimed THEN {lines} \cup trees \cup pruned ELSE {}

\* rebuild_adaptive_partition; without the backend the partition is dropped.
Partitioned(f) ==
  [f EXCEPT !.part = IF plan.partition THEN [on |-> TRUE, cells |-> {[id |-> b.id, iv |-> b.iv] : b \in ToSet(f.boxes)}]
                     ELSE NoPartition]
\* merge_boxes works on a fresh partition and leaves it as it leaves boxes_.
Merges(f) ==
  IF ~plan.merger \/ f.boxes = <<>> THEN {f}
  ELSE IF plan.partition
  THEN {Partitioned(g) : g \in {ExactFaceMerge(f)} \cup IF plan.mergeTimed THEN {f} ELSE {}}
  ELSE BudgetedMerges(f)
\* The backend's own graph of the merged forest.
Graphed(f) ==
  IF plan.partition THEN IF f.part.on THEN f ELSE Partitioned(f)
  ELSE [f EXCEPT !.adj = AdjacencyFrom(f.boxes, 1)]

----------------------------------------------------------------------------
(* Coverage.                                                               *)

Held(f) == IF plan.partition THEN f.part.cells ELSE {[id |-> b.id, iv |-> b.iv] : b \in ToSet(f.boxes)}
Links(f) ==
  IF plan.partition
  THEN {{c[1].id, c[2].id} : c \in {p \in Held(f) \X Held(f) : p[1] # p[2] /\ Overlaps(p[1].iv, p[2].iv)}}
  ELSE f.adj
Island(f, id) ==
  LET edges == Links(f)
      W[P \in SUBSET {c.id : c \in Held(f)}] ==
        LET Q == P \cup UNION {e \in edges : e \cap P # {}} IN IF Q = P THEN P ELSE W[Q]
  IN W[{id}]
Islands(f) == {Island(f, c.id) : c \in Held(f)}
\* adaptive_largest_island_ids; islands come in no particular order.
LargestIslands(f) ==
  IF Held(f) = {} THEN {{}}
  ELSE {I \in Islands(f) : \A J \in Islands(f) : Cardinality(J) <= Cardinality(I)}

\* Boxes pushed since the graph was last extended are not in it yet; in the
\* partition a box is at once, and only the main island is out of date.
Refreshed(f, c) ==
  IF plan.partition THEN {[forest |-> f, cover |-> [c EXCEPT !.main = I]] : I \in LargestIslands(f)}
  ELSE IF c.fresh = 0 THEN {[forest |-> f, cover |-> c]}
  ELSE LET g == [f EXCEPT !.adj = @ \cup AdjacencyFrom(f.boxes, Len(f.boxes) - c.fresh + 1)]
       IN {[forest |-> g, cover |-> [c EXCEPT !.main = I, !.fresh = 0]] : I \in LargestIslands(g)}

\* adaptive_generate_free_probes: the points drawn that meet no obstacle.
FreeProbes == {u \in plan.probes : \A o \in DOMAIN cfg.obstacles : u \notin UnitsOf(cfg.obstacles[o])}
Snapshot(f, main, depth) ==
  LET owned(ids) == {u \in FreeProbes : \E c \in Held(f) : c.id \in ids /\ u \in UnitsOf(c.iv)}
  IN [depth |-> depth, covered |-> Cardinality(owned({c.id : c \in Held(f)})),
      access |-> Cardinality(owned(main)), cells |-> Cardinality(Held(f)), main |-> Cardinality(main)]
Ready(s) ==
  LET g == plan.gates
  IN /\ s.cells > 0 /\ s.main > 0
     /\ s.covered >= g.covered /\ s.access >= g.access
     /\ g.covered > 0 => 100 * s.access >= g.ratio * Max({1, s.covered})
     /\ s.cells >= g.cells /\ s.main >= g.mainCells
     /\ g.maxCells > 0 => s.cells <= g.maxCells
Because(s, reason) == [snap |-> s, reason |-> reason]
LastSnap == snaps[Len(snaps)]
ReasonAt(s, depth) ==
  IF Ready(s) THEN "coverage_ready" ELSE IF depth >= plan.target THEN "max_depth" ELSE "checkpoint"
NextCheckpoint(depth) == Min({plan.target, depth + IF depth < 16 THEN 1 ELSE 2})

Reported(f, last, unresolved) ==
  [boxes |-> Len(f.boxes), islands |-> Cardinality(Islands(f)), depth |-> last.snap.depth,
   reason |-> last.reason, unresolved |-> unresolved]
NoProfile == [boxes |-> 0, islands |-> 0, depth |-> 0, reason |-> "", unresolved |-> 0]

----------------------------------------------------------------------------
(* The sweep returns to the facade.                                        *)

NoCover == [front |-> {}, hold |-> {}, deferred |-> {}, validated |-> 0, check |-> 0, fresh |-> 0, main |-> {}]

SweepReturns ==
  /\ stage = "sweep" /\ pc = "done"
  /\ forest' = Swept(forest)
  /\ stage' = CASE plan.kind = "plain" -> "done" [] plan.kind = "fast" -> "select" [] OTHER -> plan.kind
  /\ profile' = IF plan.kind = "plain" THEN [NoProfile EXCEPT !.boxes = Len(result.free)] ELSE profile
  /\ UNCHANGED <<vars, plan, cover, snaps>>
SweepThrows ==
  /\ stage = "sweep" /\ pc = "threw"
  /\ stage' = "threw"
  /\ UNCHANGED <<vars, plan, forest, cover, snaps, profile>>

\* The fixed mode: merged, connected, measured and indexed; all that is in
\* collision stays unresolved.
FixedLayer ==
  /\ stage = "fixed"
  /\ \E m \in Merges(forest) :
       LET f == Graphed(m)
       IN \E main \in LargestIslands(f) :
            LET last == Because(Snapshot(f, main, plan.target), "fixed_depth")
            IN /\ forest' = Partitioned(f)
               /\ snaps' = <<last>>
               /\ profile' = Reported(f, last, Len(result.coll))
  /\ stage' = "done"
  /\ UNCHANGED <<vars, plan, cover>>

----------------------------------------------------------------------------
(* The fast mode.                                                          *)

\* materialize_fast_checkpoint_candidate: the forest the sweep would return
\* now, merged and measured, becomes the forest.
Candidate(free, coll) ==
  LET bs == BoxesOf(free)
  IN [forest EXCEPT !.boxes = bs, !.adj = {}, !.reserved = Reservations(bs),
                    !.cache = {[iv |-> c.iv, blame |-> DOMAIN cfg.obstacles] : c \in {d \in ToSet(coll) : DOMAIN cfg.obstacles # {}}}]
MaterializeCandidate(free, coll, depth) ==
  \E m \in Merges(Candidate(free, coll)) :
    LET f == Graphed(m)
    IN \E main \in LargestIslands(f) :
         LET s == Snapshot(f, main, depth)
             last == Because(s, ReasonAt(s, depth))
         IN /\ forest' = Partitioned(f)
            /\ snaps' = Append(snaps, last)
            /\ profile' = Reported(f, last, Len(coll))

\* checkpoint_callback.
FastCheckpoint ==
  /\ stage = "sweep" /\ plan.kind = "fast" /\ AtCheckpoint
  /\ MaterializeCandidate(Boxes.free, Boxes.coll, active)
  /\ EndOfPending(LastSnap'.reason # "checkpoint")
  /\ UNCHANGED <<plan, stage, cover>>
\* The sweep never reached a checkpoint: what it returned is the candidate.
SelectLate ==
  /\ stage = "select" /\ snaps = <<>>
  /\ MaterializeCandidate(result.free, result.coll, plan.target)
  /\ stage' = "done"
  /\ UNCHANGED <<vars, plan, cover>>
SelectLast ==
  /\ stage = "select" /\ snaps # <<>>
  /\ stage' = "done"
  /\ UNCHANGED <<vars, plan, forest, cover, snaps, profile>>

----------------------------------------------------------------------------
(* The refinement of one collision box after another.                      *)

\* adaptive_connectivity_dominance.
Touching(bs, iv) == {b.id : b \in {c \in ToSet(bs) : Overlaps(c.iv, iv)}}
Connector(near, main) == near \cap main # {} /\ near \ main # {}
Isolated(near) == near = {}
SingleComponent(near, main) == near # {} /\ ~Connector(near, main)

\* adaptive_frontier_score in hundredths; the logarithm of a width.
LogWidth(w) == IF w = 0 THEN -69078
               ELSE <<0, 69, 110, 139, 161, 179, 195, 208, 220, 230, 240, 248, 256, 264, 271, 277>>[w]
Priority(bs, main, iv) ==
  LET near == Touching(bs, iv)
  IN CASE bs = <<>> -> 0
       [] Connector(near, main) -> 6000
       [] near \cap main # {} /\ near \subseteq main -> 1800
       [] near # {} /\ near \cap main = {} -> -400
       [] OTHER -> -1200
Scored(bs, main, item) ==
  [item EXCEPT !.score = LogWidth(item.iv[2] - item.iv[1]) + 7500 * item.hits
     - (IF item.hits = 0 /\ bs = <<>> THEN 600 ELSE 0) + Priority(bs, main, item.iv)
     - (IF plan.overlapAt > 0 THEN (150 * item.over) \div plan.overlapAt ELSE 0) - 10 * DepthOf(item.node)]
Hits(iv) == Cardinality(FreeProbes \cap UnitsOf(iv))
Opened(bs, main, cells) ==
  {Scored(bs, main, [node |-> x.node, iv |-> x.iv, hits |-> Hits(x.iv), over |-> 0, score |-> 0]) : x \in ToSet(cells)}
\* adaptive_virtual_split_node: halves of the box, clipped as it is.
Halves(item) ==
  LET mid == (item.iv[1] + item.iv[2]) \div 2
  IN <<Item(2 * item.node, <<item.iv[1], mid>>), Item(2 * item.node + 1, <<mid, item.iv[2]>>)>>

\* budget_exhausted: of time, or of validations.
Exhausted == stopped \/ (plan.budget > 0 /\ cover.validated >= plan.budget)

\* The shallow layer is merged and connected, its collision boxes become the
\* frontier, and its coverage is looked at once.
StartCover ==
  /\ stage = "deep"
  /\ \E m \in Merges(forest) :
       LET f == Graphed(m)
       IN \E main \in LargestIslands(f) :
            LET s == Snapshot(f, main, cfg.max)
                first == Because(s, ReasonAt(s, cfg.max))
            IN /\ forest' = f
               /\ cover' = [NoCover EXCEPT !.front = Opened(f.boxes, main, InDomain(result.coll)), !.main = main,
                                           !.check = IF plan.adaptive /\ first.reason = "checkpoint"
                                                     THEN NextCheckpoint(cfg.max) ELSE cfg.max]
               /\ snaps' = IF plan.adaptive THEN <<first>> ELSE <<>>
               /\ stage' = IF plan.adaptive /\ first.reason # "checkpoint" THEN "finish" ELSE "refine"
  /\ UNCHANGED <<vars, plan, profile>>

\* frontier.top(), of equal scores any.
Tops == {x \in cover.front : \A y \in cover.front : y.score <= x.score}
Refining == stage = "refine" /\ cover.front # {} /\ ~Exhausted
\* Mutant: one level too many is refined before the coverage is looked at.
DeeperByTwo(item) == plan.adaptive /\ DepthOf(item.node) > cover.check + 1
Deeper(item) == plan.adaptive /\ DepthOf(item.node) > cover.check

\* An item deeper than the checkpoint is held; when it was the last of the
\* frontier all that is held comes back and the coverage is looked at.
\* Mutant: what is held is forgotten.
HoldForgotten(item) ==
  LET rest == cover.front \ {item}
      held == cover.hold \cup {item}
  IN IF rest # {} THEN [cover EXCEPT !.front = rest, !.hold = held]
     ELSE [cover EXCEPT !.front = {item}, !.hold = {}]
Holding(item) ==
  LET rest == cover.front \ {item}
      held == cover.hold \cup {item}
  IN IF rest # {} THEN [cover EXCEPT !.front = rest, !.hold = held]
     ELSE [cover EXCEPT !.front = held, !.hold = {}]
HoldItem ==
  /\ Refining
  /\ \E item \in Tops :
       /\ Deeper(item)
       /\ IF cover.front # {item}
          THEN cover' = Holding(item) /\ UNCHANGED <<stage, forest, snaps>>
          ELSE \E e \in Refreshed(forest, Holding(item)) :
                 LET s == Snapshot(e.forest, e.cover.main, cover.check)
                     reason == ReasonAt(s, cover.check)
                 IN /\ forest' = e.forest
                    /\ cover' = [e.cover EXCEPT !.check = IF reason = "checkpoint" THEN NextCheckpoint(@) ELSE @]
                    /\ snaps' = Append(snaps, Because(s, reason))
                    /\ stage' = IF reason = "checkpoint" THEN stage ELSE "finish"
  /\ UNCHANGED <<vars, plan, profile>>

\* A free item becomes a box, unless one holds it already; the graph learns
\* of it when AdjacencyBatch boxes wait.
Contained(bs, iv) == \E i \in DOMAIN bs : bs[i].iv[1] <= iv[1] /\ iv[2] <= bs[i].iv[2]
\* Mutant: the partition is not told.
AppendedUnindexed(f, item) ==
  LET id == NextBoxId(f.boxes)
  IN [f EXCEPT !.boxes = Append(@, Box(id, item.node, item.iv)), !.reserved = @ \cup {<<item.node, id>>}]
Appended(f, item) ==
  LET id == NextBoxId(f.boxes)
  IN [f EXCEPT !.boxes = Append(@, Box(id, item.node, item.iv)),
               !.reserved = @ \cup {<<item.node, id>>},
               !.part.cells = IF plan.partition THEN @ \cup {[id |-> id, iv |-> item.iv]} ELSE @]
Validating(item) ==
  /\ item \in Tops
  /\ ~Deeper(item)
KeepFree ==
  /\ Refining
  /\ \E item \in Tops :
       /\ Validating(item)
       /\ CertifiedFree(DOMAIN cfg.obstacles, item.iv)
       /\ LET left == [cover EXCEPT !.front = @ \ {item}, !.validated = @ + 1]
              fresh == [left EXCEPT !.fresh = @ + 1]
          IN IF Contained(forest.boxes, item.iv)
             THEN cover' = left /\ UNCHANGED forest
             ELSE \E e \in IF fresh.fresh >= AdjacencyBatch THEN Refreshed(Appended(forest, item), fresh)
                           ELSE {[forest |-> Appended(forest, item), cover |-> fresh]} :
                    /\ forest' = e.forest
                    /\ cover' = [e.cover EXCEPT !.fresh = IF @ >= AdjacencyBatch THEN 0 ELSE @]
  /\ UNCHANGED <<vars, plan, stage, snaps, profile>>

\* Whether a blocked item is worth splitting.
Overlap(item) == OverlapDepth(DOMAIN cfg.obstacles, item.iv)
HighOverlap(item) ==
  LET extra == DepthOf(item.node) - plan.deferFrom
  IN extra >= 0 /\ plan.overlapAt > 0 /\ Overlap(item) * (1 + extra) >= plan.overlapAt
Deferred(item) ==
  LET near == Touching(forest.boxes, item.iv)
      late == DepthOf(item.node) >= plan.deferFrom /\ item.hits = 0 /\ forest.boxes # <<>>
  IN \/ DepthOf(item.node) >= plan.target
     \/ HighOverlap(item) /\ item.hits = 0 /\ near \cap cover.main = {}
     \/ late /\ Isolated(near)
     \/ late /\ SingleComponent(near, cover.main) /\ near \cap cover.main = {}
     \/ item.iv[2] - item.iv[1] < 2
DeferItem ==
  /\ Refining
  /\ \E item \in Tops :
       /\ Validating(item)
       /\ ~CertifiedFree(DOMAIN cfg.obstacles, item.iv)
       /\ Deferred(item)
       /\ cover' = [cover EXCEPT !.front = @ \ {item}, !.validated = @ + 1,
                                 !.deferred = @ \cup {[item EXCEPT !.over = Overlap(item)]}]
  /\ UNCHANGED <<vars, plan, stage, forest, snaps, profile>>

\* promote_deferred.
Promoted(c) ==
  LET hit == {x \in c.deferred : Hits(x.iv) > 0}
  IN IF ~plan.promote \/ FreeProbes = {} THEN c
     ELSE [c EXCEPT !.deferred = @ \ hit,
                    !.front = @ \cup {Scored(forest.boxes, c.main, [x EXCEPT !.hits = Hits(x.iv)]) : x \in hit}]
SplitItem ==
  /\ Refining
  /\ \E item \in Tops :
       /\ Validating(item)
       /\ ~CertifiedFree(DOMAIN cfg.obstacles, item.iv)
       /\ ~Deferred(item)
       /\ LET split == [cover EXCEPT !.front = (@ \ {item}) \cup Opened(forest.boxes, cover.main, InDomain(Halves(item))),
                                     !.validated = @ + 1]
          IN cover' = IF plan.interval > 0 /\ split.validated % plan.interval = 0 THEN Promoted(split) ELSE split
  /\ UNCHANGED <<vars, plan, stage, forest, snaps, profile>>

\* What is left is unresolved; the graph is made anew, a last snapshot tells
\* why the refinement ended, and the build is reported.
Finish ==
  /\ stage = "finish" \/ (stage = "refine" /\ (cover.front = {} \/ Exhausted))
  /\ LET open == cover.front \cup cover.hold
         kept == [cover EXCEPT !.front = open, !.hold = {}]
         depth == IF plan.adaptive THEN LastSnap.snap.depth ELSE plan.target
     IN \E e \in Refreshed(forest, kept) :
          LET f == Graphed(e.forest)
          IN \E main \in LargestIslands(f) :
               LET seen(g, ids, reason) == <<Because(Snapshot(g, ids, depth), reason)>>
                   last == CASE ~plan.adaptive -> seen(f, main, "fixed_depth")
                             [] plan.adaptive /\ stage = "finish" -> <<>>
                             [] plan.adaptive /\ stage # "finish" /\ Exhausted -> seen(e.forest, e.cover.main, "budget")
                             [] plan.adaptive /\ stage # "finish" /\ ~Exhausted /\ open = {} ->
                                  seen(e.forest, e.cover.main, "frontier_empty")
                             [] OTHER -> seen(f, main, "max_depth")
                   all == Promoted(e.cover)
                   unresolved == all.deferred \cup all.front
               IN /\ snaps' = snaps \o last
                  /\ forest' = IF plan.partition THEN f ELSE Partitioned(f)
                  /\ cover' = [all EXCEPT !.front = {}, !.deferred = unresolved, !.main = main]
                  /\ profile' = Reported(f, snaps'[Len(snaps')], Cardinality(unresolved))
  /\ stage' = "done"
  /\ UNCHANGED <<vars, plan>>

\* The time budget of the build is spent.
TimeUp ==
  /\ stage = "refine" /\ cfg.mayStop /\ ~stopped
  /\ stopped' = TRUE
  /\ UNCHANGED <<cfg, pc, tree, groups, frontier, level, pending, batch, active, swept, queue, result, deadline>>
  /\ UNCHANGED coverVars

----------------------------------------------------------------------------
(* The build.                                                              *)

InitCover ==
  /\ Init
  /\ plan \in {p \in Plans : p.sweep = cfg}
  /\ stage = "sweep"
  /\ forest = EmptyForest
  /\ cover = NoCover
  /\ snaps = <<>>
  /\ profile = NoProfile

\* The fast mode's callback is FastCheckpoint; a plain call's may say anything.
Sweeping ==
  /\ stage = "sweep"
  /\ \/ SweepStep
     \/ \E callerStops \in BOOLEAN : (plan.kind = "fast" => ~AtCheckpoint) /\ EndOfPending(callerStops)
  /\ UNCHANGED coverVars
Refinement == StartCover \/ HoldItem \/ KeepFree \/ DeferItem \/ SplitItem \/ Finish
Build == \/ Sweeping \/ FastCheckpoint \/ SweepReturns \/ SweepThrows
         \/ FixedLayer \/ SelectLate \/ SelectLast \/ Refinement
Expiry == (stage = "sweep" /\ Stop /\ UNCHANGED coverVars) \/ TimeUp
NextCover == Build \/ Expiry

SpecCover == InitCover /\ [][NextCover]_allVars
\* The build is one thread's loop (and a pool that completes its batches): it
\* goes on until it returns or throws.  The deadline may never expire.
FairSpecCover == SpecCover /\ ([]<>(stage \in {"done", "threw"}) \/ []<><<Build>>_allVars)
----------------------------------------------------------------------------
(* Properties.                                                             *)

PlanType ==
  [kind : {"plain", "fixed", "deep", "fast"}, sweep : Sweeps, partition : BOOLEAN, merger : BOOLEAN,
   mergeTimed : BOOLEAN, mergeCap : Nat, rounds : Nat, adaptive : BOOLEAN, target : 1..Res, budget : Nat,
   deferFrom : Nat, overlapAt : Nat, probes : SUBSET Units, promote : BOOLEAN, interval : Nat,
   gates : [covered : Nat, access : Nat, ratio : 0..100, cells : Nat, mainCells : Nat, maxCells : Nat]]

BoxesWith(u) == {i \in DOMAIN forest.boxes : u \in UnitsOf(forest.boxes[i].iv)}
OpenItems == cover.front \cup cover.hold \cup cover.deferred
OpenWith(u) == IF plan.kind = "fixed" THEN CoveredBy(result.coll, u)
               ELSE {x \in OpenItems : u \in UnitsOf(x.iv)}

\* Merging, holding, splitting, deferring and promoting move the units of the
\* domain about and lose or double none: a unit that the sweep returned once
\* has one box or one item at every step, and at the end the unresolved
\* domains reported are those items.
CoverConserves ==
  \/ stage \in {"refine", "finish"}
  \/ stage = "done" /\ plan.kind \in {"deep", "fixed"}
  => \A u \in AllUnits : Cardinality(BoxesWith(u)) + Cardinality(OpenWith(u)) = Cardinality(FinalOwners(u))

BoxesFree == \A i \in DOMAIN forest.boxes : \A o \in DOMAIN cfg.obstacles :
               ~Overlaps(forest.boxes[i].iv, cfg.obstacles[o])
IdsUnique == Cardinality(Ids(forest.boxes)) = Len(forest.boxes)
\* A reservation names a box that fills the reserved cell of the domain.
ReservationsHold ==
  \A r \in forest.reserved : \E i \in DOMAIN forest.boxes :
    LET cell == Clip(NodeInterval(r[1]), cfg.domain)
    IN /\ forest.boxes[i].id = r[2]
       /\ forest.boxes[i].iv[1] <= cell[1] /\ cell[2] <= forest.boxes[i].iv[2]
\* What the graph or the partition knows is the forest without the boxes that
\* still wait.
GraphOf(n) == AdjacencyFrom(SubSeq(forest.boxes, 1, n), 1)
BackendKnows(n) ==
  IF plan.partition THEN Held(forest) = {[id |-> b.id, iv |-> b.iv] : b \in ToSet(forest.boxes)}
  ELSE forest.adj = GraphOf(n)
ReportTrue ==
  /\ profile.boxes = Len(forest.boxes)
  /\ plan.kind # "plain" => profile.islands = Cardinality(Islands(forest))
  /\ plan.kind = "deep" => profile.unresolved = Cardinality(cover.deferred)

\* Every variable keeps its type; the boxes are free and have ids of their
\* own, no reservation outlives its box, the backend is only behind by the
\* boxes it is told to wait for, and what the build reports is the forest it
\* leaves.  (A domain that cuts cells, or copies of the root, tie a node to
\* another stretch; the report of the fast mode is ProfileCountsBoxes.)
CoverSound ==
  /\ plan \in PlanType /\ plan.sweep = cfg
  /\ stage \in {"sweep", "fixed", "deep", "refine", "select", "finish", "done", "threw"}
  /\ cover.fresh < AdjacencyBatch
  /\ BoxesFree /\ IdsUnique
  /\ (cfg.domain = NodeInterval(Root) /\ Len(cfg.roots) = 1) => ReservationsHold
  /\ stage \in {"refine", "finish"} => BackendKnows(Len(forest.boxes) - cover.fresh)
  /\ (stage = "done" /\ plan.kind \in {"deep", "fixed"}) => BackendKnows(Len(forest.boxes))
  /\ (stage = "done" /\ plan.kind # "fast") => ReportTrue

\* A snapshot is true when it is taken and stays true of the depth it names:
\* depth and coverage never fall from one to the next, the refinement never
\* boxes what is deeper than its checkpoint, and "coverage_ready" is said of
\* the forest the build leaves.
SnapshotsTrue ==
  /\ \A k \in 1..Len(snaps) - 1 :
       /\ snaps[k].snap.depth <= snaps[k + 1].snap.depth
       /\ plan.probes # {} => snaps[k].snap.covered <= snaps[k + 1].snap.covered
       /\ snaps[k].reason = "checkpoint"
  /\ (stage = "refine" /\ plan.adaptive) =>
       \A i \in DOMAIN forest.boxes : forest.boxes[i].node # NoNode => DepthOf(forest.boxes[i].node) <= cover.check
  /\ (stage = "done" /\ plan.kind = "deep" /\ profile.reason = "coverage_ready") =>
       \E main \in LargestIslands(forest) : Ready(Snapshot(forest, main, profile.depth))

\* Every build returns or refuses its arguments, also when the deadline never
\* expires.
BuildEnds == <>(stage \in {"done", "threw"})

\* The test's assertion on a build's result ("len(forest.boxes()) ==
\* profile.final_boxes"), of the fast mode too.
ProfileCountsBoxes == stage = "done" => profile.boxes = Len(forest.boxes)

\* A build that gives "max_depth" as its reason reached the target depth.
MaxDepthReached == (stage = "done" /\ profile.reason = "max_depth") => profile.depth >= plan.target
=============================================================================
