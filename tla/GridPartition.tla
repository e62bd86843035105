--------------------------- MODULE GridPartition ---------------------------
(***************************************************************************)
(* AdaptiveGridPartition, the search graph of the partition_native backend *)
(* (adaptive_grid_partition.cpp), and the facade that keeps it in step     *)
(* with boxes_ and segment_edges_ (safe_box_forest.cpp).                   *)
(*                                                                         *)
(* A cell stands for one box.  Cells carry a neighbour cache, an island    *)
(* label and, above a size, a union-find over neighbours and overlay       *)
(* edges, each of them maintained incrementally by appends and rebuilt by  *)
(* removals.  Coordinates are half cells: a region whose bounds are        *)
(* multiples of CellWidth inside one root copy is grid aligned, any other  *)
(* is compared by its intervals.  The bins of the point and adjacency      *)
(* indices only pre-select candidates and are left out, as are distances   *)
(* and costs where they do not decide what is connected.                   *)
(***************************************************************************)
EXTENDS Integers, FiniteSets, SequencesExt

CONSTANTS
  Dims, CellWidth,
  Roots,              \* root_interval_copies_, one region each
  Regions,            \* the regions boxes of the forest may have
  Sweeps,             \* box lists a build has grown before it merges them
  IndexedThreshold,   \* RBF_PARTITION_INDEXED_ADJACENCY_THRESHOLD, 128
  DsuMinCells,        \* RBF_PARTITION_OVERLAY_DSU_MIN_CELLS, 1000
  MaxRounds,          \* max_merge_rounds
  MaxBoxes, MaxId, MaxEdges, MaxNew   \* bounds of the state space

Dim == 1..Dims
ASSUME RegionAssumption ==
  /\ Dims \in Nat \ {0} /\ CellWidth \in Nat \ {0}
  /\ Roots # <<>> /\ \A s \in {Roots} \cup Sweeps : s \in Seq(Range(s))
  /\ \A r \in Regions \cup Range(Roots) \cup UNION {Range(s) : s \in Sweeps} :
       r \in [Dim -> Int \X Int] /\ \A d \in Dim : r[d][1] < r[d][2]
ASSUME ThresholdAssumption ==
  /\ {IndexedThreshold, DsuMinCells, MaxBoxes, MaxId, MaxEdges, MaxNew} \subseteq Nat
  /\ MaxRounds \in Nat \ {0}

VARIABLES
  boxes,     \* boxes_: records [id, region], in insertion order
  pending,   \* how many of the last boxes a running bridge has yet to append
  segs,      \* segment_edges_: records [id, from, to] of box ids
  grid,      \* adaptive_partition_
  enabled,   \* adaptive_partition_query_enabled_ (with the object it guards)
  behind,    \* history: a build replaced boxes_ and left the partition alone
  grown      \* history: what the adaptive build of the last step had grown

vars == <<boxes, pending, segs, grid, enabled, behind, grown>>

(***************************************************************************)
(* Regions.                                                                *)
(***************************************************************************)
Inside(inner, outer) == \A d \in Dim : outer[d][1] <= inner[d][1] /\ inner[d][2] <= outer[d][2]
Touch(a, b) == \A d \in Dim : a[d][1] <= b[d][2] /\ b[d][1] <= a[d][2]
Hull(rs) == [d \in Dim |-> <<Min({r[d][1] : r \in rs}), Max({r[d][2] : r \in rs})>>]
(* make_grid_range: the first root copy the region is aligned in, 0 if none. *)
RootOf(r) ==
  LET aligned(i) == /\ Inside(r, Roots[i])
                    /\ \A d \in Dim, side \in {1, 2} : (r[d][side] - Roots[i][d][1]) % CellWidth = 0
      S == {i \in DOMAIN Roots : aligned(i)}
  IN  IF S = {} THEN 0 ELSE Min(S)
SameRoot(a, b) == RootOf(a) # 0 /\ RootOf(a) = RootOf(b)
(* The face index only offers cells with a facing side on the same plane.  *)
FacesMeet(a, b) == \E d \in Dim : a[d][1] = b[d][2] \/ a[d][2] = b[d][1]
Adjacent(a, b) == Touch(a, b) /\ (SameRoot(a, b) => FacesMeet(a, b))

(***************************************************************************)
(* The partition.  A cell is its index in cells; nbrs holds the pairs of   *)
(* the neighbour cache, island the label of each cell.  classes are the    *)
(* sets of the union-find overlay_parent_, empty while there are too few   *)
(* cells for it.                                                           *)
(***************************************************************************)
Cells(g) == DOMAIN g.cells
HasCell(g, id) == \E c \in Cells(g) : g.cells[c].id = id
CellOf(g, id) == CHOOSE c \in Cells(g) : g.cells[c].id = id
RegionOf(g, c) == g.cells[c].region
OverlayEdges(g) == {<<e.from, e.to>> : e \in g.overlay}

AddCell(g, b) == IF HasCell(g, b.id) THEN g ELSE [g EXCEPT !.cells = Append(@, b)]
AddCells(g, bs) ==
  LET added[k \in 0..Len(bs)] == IF k = 0 THEN g ELSE AddCell(added[k - 1], bs[k])
  IN  added[Len(bs)]

(* The cells a breadth-first walk along the edges E reaches.               *)
Walk(n, E, c) ==
  LET step(P) == {e[2] : e \in {f \in E : f[1] \in P}}
      W[P \in SUBSET (1..n)] == IF step(P) \subseteq P THEN P ELSE W[P \cup step(P)]
  IN  W[{c}]
Components(n, E) == {Walk(n, E, c) : c \in 1..n}
Unite(classes, S) == LET hit == {K \in classes : K \cap S # {}} IN (classes \ hit) \cup {UNION hit}

ResetOverlayComponents(g) ==
  [g EXCEPT !.classes = IF Len(g.cells) < DsuMinCells THEN {}
                        ELSE Components(Len(g.cells), g.nbrs \cup OverlayEdges(g))]
EnsureOverlayParentFresh(g) ==
  IF Len(g.cells) < DsuMinCells THEN [g EXCEPT !.classes = {}]
  ELSE [g EXCEPT !.classes = @ \cup {{c} : c \in Cells(g) \ UNION @}]
EnsureOverlayParentSize(g) ==
  IF Len(g.cells) < DsuMinCells THEN [g EXCEPT !.classes = {}]
  ELSE IF g.classes = {} THEN ResetOverlayComponents(g)
  ELSE [g EXCEPT !.classes = @ \cup {{c} : c \in Cells(g) \ UNION @}]

LargestOf(island) == Max({0} \cup {Cardinality({d \in DOMAIN island : island[d] = l}) : l \in Range(island)})
(* From the threshold on, pairs come from coarse bins that any two cells   *)
(* that touch share, across root copies too, and no face has to meet.      *)
NearByBins(a, b) == Touch(a, b)
RebuildNeighborCache(g) ==
  LET near(c, e) == IF Len(g.cells) < IndexedThreshold THEN Adjacent(RegionOf(g, c), RegionOf(g, e))
                    ELSE NearByBins(RegionOf(g, c), RegionOf(g, e))
      half == {p \in Cells(g) \X Cells(g) : p[1] < p[2] /\ near(p[1], p[2])}
  IN  [g EXCEPT !.nbrs = half \cup {<<p[2], p[1]>> : p \in half}]
RebuildIslands(g) ==
  LET parts == Components(Len(g.cells), g.nbrs)
      label(P) == Cardinality({Q \in parts : Min(Q) < Min(P)})
  IN  [g EXCEPT !.island = [c \in Cells(g) |-> label(CHOOSE P \in parts : c \in P)],
                !.islands = Cardinality(parts),
                !.largest = Max({0} \cup {Cardinality(P) : P \in parts})]
RebuildIndices(g) == ResetOverlayComponents(RebuildIslands(RebuildNeighborCache(g)))

EmptyGrid == [cells |-> <<>>, nbrs |-> {}, island |-> <<>>, islands |-> 0, largest |-> 0,
              overlay |-> {}, classes |-> {}]
Rebuilt(bs) == RebuildIndices(AddCells(EmptyGrid, bs))

(* A new cell joins its neighbours' islands under one of their labels.     *)
UpdateIslands(g, c, found) ==
  LET old == {g.island[e] : e \in found}
      label == IF old = {} THEN Max({0} \cup {l + 1 : l \in Range(g.island)}) ELSE Min(old)
      island == [e \in DOMAIN g.island |-> IF g.island[e] \in old THEN label ELSE g.island[e]] \o <<label>>
  IN  [g EXCEPT !.island = island, !.largest = LargestOf(island),
                !.islands = g.islands + (IF old = {} THEN 1 ELSE 1 - Cardinality(old))]
AppendCellToIndices(g, c) ==
  LET found == {e \in Cells(g) \ {c} : Adjacent(RegionOf(g, c), RegionOf(g, e))}
      linked == [g EXCEPT !.nbrs = @ \cup (found \X {c}) \cup ({c} \X found)]
      sized == EnsureOverlayParentSize(UpdateIslands(linked, c, found))
  IN  IF sized.classes = {} THEN sized ELSE [sized EXCEPT !.classes = Unite(@, {c} \cup found)]
AppendBox(g, b) == IF HasCell(g, b.id) THEN g ELSE AppendCellToIndices(AddCell(g, b), Len(g.cells) + 1)
AppendBoxes(g, bs) ==
  LET appended[k \in 0..Len(bs)] == IF k = 0 THEN g ELSE AppendBox(appended[k - 1], bs[k])
  IN  appended[Len(bs)]

Without(bs, gone) == [i \in 1..Len(bs) - Cardinality(gone) |->
  bs[CHOOSE j \in DOMAIN bs \ gone : Cardinality({k \in DOMAIN bs \ gone : k <= j}) = i]]
Excluding(bs, ids) == Without(bs, {i \in DOMAIN bs : bs[i].id \in ids})
ReplaceBoxIds(g, ids, bs) ==
  RebuildIndices(AddCells([EmptyGrid EXCEPT !.cells = Excluding(g.cells, ids)], bs))

AppendSegmentEdge(g, e) ==
  IF (\E o \in g.overlay : o.id = e.id) \/ ~HasCell(g, e.from) \/ ~HasCell(g, e.to) THEN g
  ELSE LET s == CellOf(g, e.from)  t == CellOf(g, e.to)
           linked == EnsureOverlayParentSize(
                       [g EXCEPT !.overlay = @ \cup {[id |-> e.id, from |-> s, to |-> t],
                                                     [id |-> e.id, from |-> t, to |-> s]}])
       IN  IF linked.classes = {} THEN linked ELSE [linked EXCEPT !.classes = Unite(@, {s, t})]
SyncSegmentEdges(g, es) ==
  LET synced[k \in 0..Len(es)] == IF k = 0 THEN g ELSE AppendSegmentEdge(synced[k - 1], es[k])
  IN  synced[Len(es)]

(***************************************************************************)
(* merge_boxes, always called on a partition just rebuilt from the boxes,  *)
(* so that cell i is box i.  A deadline may cut it short: after some cells *)
(* of the containment pass, or inside a pass over the merge lines of one   *)
(* dimension, whose groups are visited in no particular order.             *)
(***************************************************************************)
Swallows(bs, o, i) ==
  /\ o # i /\ SameRoot(bs[o].region, bs[i].region) /\ Inside(bs[i].region, bs[o].region)
  /\ bs[o].region = bs[i].region => o < i
PrunedBoxes(bs, examined) ==
  LET gone[k \in 0..examined] ==
        IF k = 0 THEN {}
        ELSE LET before == gone[k - 1]
             IN  before \cup {i \in {k} : \E o \in DOMAIN bs \ before : Swallows(bs, o, i)}
  IN  Without(bs, gone[examined])

InIdOrder(S) == [k \in 1..Cardinality(S) |-> CHOOSE b \in S : Cardinality({c \in S : c.id <= b.id}) = k]
LineOfLowSides(r, d) == <<RootOf(r), [e \in Dim \ {d} |-> r[e][1]]>>
LineOf(r, d) == <<RootOf(r), [e \in Dim \ {d} |-> r[e]]>>
Lines(bs, d) == {LineOf(bs[i].region, d) : i \in DOMAIN bs}
(* One pass along dimension d: cells that share every other range and      *)
(* leave no gap between them become one box under the id of the first.     *)
MergePass(st, d, lines) ==
  LET bs == st.bs
      line(i) == LineOf(bs[i].region, d)
      lo(i) == bs[i].region[d][1]
      hi(i) == bs[i].region[d][2]
      live == {i \in DOMAIN bs \ st.gone : RootOf(bs[i].region) # 0 /\ line(i) \in lines}
      notAfter(i, j) == line(i) = line(j) /\ (lo(i) < lo(j) \/ (lo(i) = lo(j) /\ i <= j))
      starts == {i \in live : \A j \in live \ {i} : notAfter(j, i) => hi(j) < lo(i)}
      start(i) == CHOOSE s \in starts : notAfter(s, i) /\ \A t \in starts : notAfter(t, i) => notAfter(t, s)
      run(s) == {i \in live : start(i) = s}
      long == {s \in starts : Cardinality(run(s)) > 1}
      hulls == {[id |-> bs[s].id, region |-> Hull({bs[i].region : i \in run(s)})] : s \in long}
  IN  [bs |-> bs, gone |-> st.gone \cup UNION {run(s) : s \in long}, new |-> st.new \o InIdOrder(hulls)]
EndRound(st) == [bs |-> Without(st.bs, st.gone) \o st.new, gone |-> {}, new |-> <<>>]
MergedUpTo(bs, passes) ==
  LET after[k \in 0..passes] ==
        IF k = 0 THEN [bs |-> bs, gone |-> {}, new |-> <<>>]
        ELSE LET d == 1 + ((k - 1) % Dims)
                 st == MergePass(after[k - 1], d, Lines(after[k - 1].bs, d))
             IN  IF k % Dims = 0 THEN EndRound(st) ELSE st
  IN  after[passes]
LineMergeOutcomes(bs) ==
  UNION {LET st == MergedUpTo(bs, k)  d == 1 + (k % Dims)
         IN  {EndRound(MergePass(st, d, lines)).bs : lines \in SUBSET Lines(st.bs, d)} :
         k \in 0..(MaxRounds * Dims - 1)}
MergeOutcomes(bs, prune) ==
  IF prune THEN {PrunedBoxes(bs, k) : k \in 0..Len(bs) - 1} \cup LineMergeOutcomes(PrunedBoxes(bs, Len(bs)))
  ELSE LineMergeOutcomes(bs)

(***************************************************************************)
(* Searches and predictions.                                               *)
(***************************************************************************)
Edges(g) == g.nbrs \cup OverlayEdges(g)
OverlayWalk(g, c) == Walk(Len(g.cells), Edges(g), c)
SameComponent(g, a, b) ==
  IF g.classes # {} THEN \E K \in g.classes : {a, b} \subseteq K ELSE b \in OverlayWalk(g, a)
ComponentsWithOverlay(g) == {{b \in Cells(g) : SameComponent(g, a, b)} : a \in Cells(g)}
(* largest_component_box_ids_with_overlay: joins cells by their island and *)
(* by their union-find class, or walks when there is no union-find; which  *)
(* of several largest components it returns is left open.                  *)
LargestWithOverlay(g) ==
  LET joint(a, b) == g.island[a] = g.island[b] \/ \E K \in g.classes : {a, b} \subseteq K
      parts == IF g.classes # {} THEN Components(Len(g.cells), {p \in Cells(g) \X Cells(g) : joint(p[1], p[2])})
               ELSE Components(Len(g.cells), Edges(g))
  IN  {K \in parts : \A L \in parts : Cardinality(L) <= Cardinality(K)}
(* query: cells on different islands are not even searched without edges.  *)
QueryFound(g, a, b) == (g.island[a] = g.island[b] \/ g.overlay # {}) /\ b \in OverlayWalk(g, a)

AdjacentByTouch(g, r) == {c \in Cells(g) : Touch(r, RegionOf(g, c))}
AdjacentCells(g, r) ==
  LET byFace == {c \in Cells(g) : SameRoot(r, RegionOf(g, c)) /\ Adjacent(r, RegionOf(g, c))}
      exact == {c \in Cells(g) : ~SameRoot(r, RegionOf(g, c)) /\ Touch(r, RegionOf(g, c))}
  IN  IF RootOf(r) = 0 \/ \E c \in Cells(g) : RootOf(RegionOf(g, c)) = 0 THEN byFace \cup exact ELSE byFace
JoinedComponents(g, r) == {K \in ComponentsWithOverlay(g) : K \cap AdjacentCells(g, r) # {}}

(***************************************************************************)
(* The facade, partition_native backend.                                   *)
(***************************************************************************)
Ids(bs) == {bs[i].id : i \in DOMAIN bs}
NextBoxId(bs) == Max({0} \cup {id + 1 : id \in Ids(bs)})
Grown(bs, rs) == bs \o [i \in DOMAIN rs |-> [id |-> NextBoxId(bs) + i - 1, region |-> rs[i]]]
Room(bs) == Min({MaxNew, MaxBoxes - Len(bs), MaxId + 1 - NextBoxId(bs)})
NewRegions(bs) == UNION {[1..k -> Regions] : k \in 0..Max({0, Room(bs)})}

(* A removed box is refilled with parts of itself. *)
Refills(removed) ==
  LET kept == Excluding(boxes, removed)
      part(r) == \E b \in Range(boxes) : b.id \in removed /\ Inside(r, b.region)
  IN  {rs \in NewRegions(kept) : \A i \in DOMAIN rs : part(rs[i])}

Init ==
  /\ boxes = <<>> /\ pending = 0 /\ segs = <<>>
  /\ grid = EmptyGrid /\ enabled = FALSE /\ behind = FALSE /\ grown = <<>>

(* build_adaptive_deep_leaf_sweep_cover: merge through a fresh partition,  *)
(* then rebuild it from the merged boxes.  The facade never asks for the   *)
(* containment pass, the tests of merge_boxes do.                          *)
AdaptiveCovers ==
  UNION {{[grown |-> Grown(<<>>, s), merged |-> bs, grid |-> Rebuilt(bs)] :
            bs \in MergeOutcomes(Grown(<<>>, s), prune)} : s \in Sweeps, prune \in BOOLEAN}
BuildAdaptiveCover ==
  /\ pending = 0
  /\ \E c \in AdaptiveCovers : boxes' = c.merged /\ grid' = c.grid /\ grown' = c.grown
  /\ segs' = <<>> /\ enabled' = TRUE /\ behind' = FALSE
  /\ UNCHANGED pending

(* build_leaf_sweep, and build_subtractive without seeds, start a new      *)
(* forest and neither reset nor rebuild the partition.                     *)
BuildLeafSweep(s) ==
  /\ pending = 0
  /\ boxes' = Grown(<<>>, s) /\ segs' = <<>> /\ behind' = enabled /\ grown' = <<>>
  /\ UNCHANGED <<pending, grid, enabled>>

ClearForest ==
  /\ pending = 0
  /\ boxes' = <<>> /\ segs' = <<>> /\ grid' = EmptyGrid
  /\ enabled' = FALSE /\ behind' = FALSE /\ grown' = <<>>
  /\ UNCHANGED pending

AppendedAndSynced(g, bs, es) ==
  LET appended == AppendBoxes(g, bs) IN IF appended = g THEN g ELSE SyncSegmentEdges(appended, es)

(* A bridge appends boxes to boxes_ first and to the partition in batches. *)
PushBox(r) ==
  /\ enabled /\ Room(boxes) > 0
  /\ boxes' = Grown(boxes, <<r>>) /\ pending' = pending + 1
  /\ grown' = <<>> /\ UNCHANGED <<segs, grid, enabled, behind>>
AppendPending ==
  /\ pending > 0
  /\ grid' = AppendedAndSynced(grid, SubSeq(boxes, Len(boxes) - pending + 1, Len(boxes)), segs)
  /\ pending' = 0
  /\ grown' = <<>> /\ UNCHANGED <<boxes, segs, enabled, behind>>
(* An endpoint box of a query goes to boxes_ and the partition at once.    *)
AnchorBox(r) ==
  /\ enabled /\ pending = 0 /\ Room(boxes) > 0
  /\ boxes' = Grown(boxes, <<r>>) /\ grid' = AppendBox(grid, [id |-> NextBoxId(boxes), region |-> r])
  /\ grown' = <<>> /\ UNCHANGED <<pending, segs, enabled, behind>>
AddSegmentEdge(s, t) ==
  /\ enabled /\ Len(segs) < MaxEdges
  /\ LET e == [id |-> NextBoxId(segs), from |-> s, to |-> t]
     IN  segs' = Append(segs, e) /\ grid' = SyncSegmentEdges(grid, Append(segs, e))
  /\ grown' = <<>> /\ UNCHANGED <<boxes, pending, enabled, behind>>

(* refresh_dynamic_partition_after_remove_append and ..._after_append, and *)
(* the rebuild they fall back to when the counts do not come out.          *)
RefreshAfterUpdate(bs, es) == SyncSegmentEdges(Rebuilt(bs), es)
RefreshWithoutSync(g, removed, kept, rs, es) ==
  ReplaceBoxIds(g, removed, SubSeq(Grown(kept, rs), Len(kept) + 1, Len(kept) + Len(rs)))
RefreshAfterRemoveAppend(g, removed, kept, rs, es) ==
  LET bs == Grown(kept, rs)
      gone == {c \in Cells(g) : g.cells[c].id \in removed}
      delta == ReplaceBoxIds(g, removed, SubSeq(bs, Len(kept) + 1, Len(bs)))
  IN  IF /\ Cardinality(gone) = Cardinality(removed)
         /\ Len(delta.cells) = Len(g.cells) - Cardinality(gone) + Len(rs)
      THEN SyncSegmentEdges(delta, es) ELSE RefreshAfterUpdate(bs, es)
RefreshAfterAppend(g, bs, rs, es) ==
  LET appended == AppendBoxes(g, SubSeq(Grown(bs, rs), Len(bs) + 1, Len(bs) + Len(rs)))
  IN  IF rs # <<>> /\ Len(appended.cells) = Len(g.cells) THEN RefreshAfterUpdate(Grown(bs, rs), es)
      ELSE SyncSegmentEdges(appended, es)

EdgesOf(removed) == {segs[i].id : i \in {j \in DOMAIN segs : {segs[j].from, segs[j].to} \cap removed # {}}}
(* Insertion of obstacles: boxes in collision go, their segment edges and  *)
(* those that fail the audit too, refilled boxes come.                     *)
AddObstacles(removed, rs, failed) ==
  LET kept == Excluding(boxes, removed)
      alive == Excluding(segs, EdgesOf(removed) \cup failed)
  IN  /\ enabled /\ pending = 0
      /\ boxes' = Grown(kept, rs) /\ segs' = alive
      /\ grid' = RefreshAfterRemoveAppend(grid, removed, kept, rs, alive)
      /\ grown' = <<>> /\ UNCHANGED <<pending, enabled, behind>>

(* Removal of an obstacle: boxes promoted from the collision cache.        *)
RemoveObstacle(rs) ==
  /\ enabled /\ pending = 0
  /\ boxes' = Grown(boxes, rs) /\ grid' = RefreshAfterAppend(grid, boxes, rs, segs)
  /\ grown' = <<>> /\ UNCHANGED <<pending, segs, enabled, behind>>

Next ==
  \/ BuildAdaptiveCover \/ ClearForest \/ AppendPending
  \/ \E s \in Sweeps : BuildLeafSweep(s)
  \/ \E r \in Regions : PushBox(r) \/ AnchorBox(r)
  \/ \E s, t \in Ids(boxes) : s < t /\ AddSegmentEdge(s, t)
  \/ \E removed \in SUBSET Ids(boxes) :
       \E failed \in SUBSET (Ids(segs) \ EdgesOf(removed)), rs \in Refills(removed) :
         AddObstacles(removed, rs, failed)
  \/ \E rs \in NewRegions(boxes) : RemoveObstacle(rs)
Spec == Init /\ [][Next]_vars

(***************************************************************************)
(* Properties.                                                             *)
(***************************************************************************)
TypeOK ==
  /\ Range(boxes) \subseteq [id : Nat, region : [Dim -> Int \X Int]]
  /\ Range(grid.cells) \subseteq [id : Nat, region : [Dim -> Int \X Int]]
  /\ Range(segs) \subseteq [id : Nat, from : Nat, to : Nat]
  /\ grid.nbrs \subseteq Cells(grid) \X Cells(grid) /\ Len(grid.island) = Len(grid.cells)
  /\ UNION grid.classes \in {{}, Cells(grid)}
  /\ grid.overlay \subseteq [id : Nat, from : Cells(grid), to : Cells(grid)]
  /\ pending \in 0..Len(boxes) /\ Range(grown) \subseteq [id : Nat, region : [Dim -> Int \X Int]] /\ enabled \in BOOLEAN /\ behind \in BOOLEAN

(* The neighbour cache of append_cell_to_indices and of both modes of      *)
(* rebuild_neighbor_cache: mirrored, only between cells that touch, and    *)
(* between all that touch without sharing volume.                          *)
Overlap(a, b) == \A d \in Dim : a[d][1] < b[d][2] /\ b[d][1] < a[d][2]
NeighborsExact ==
  \A c, e \in Cells(grid) :
    LET a == RegionOf(grid, c)  b == RegionOf(grid, e)
    IN  /\ <<c, e>> \in grid.nbrs => <<e, c>> \in grid.nbrs /\ c # e /\ Touch(a, b)
        /\ c # e /\ Touch(a, b) /\ ~Overlap(a, b) => <<c, e>> \in grid.nbrs

(* Reference components: the blocks that are left when the ends of every   *)
(* edge are put into one block.                                            *)
Blocks(E) == FoldSet(LAMBDA e, P : Unite(P, {e[1], e[2]}), {{c} : c \in Cells(grid)}, E)

(* Islands relabelled one appended cell at a time (update_islands_after_   *)
(* incremental_cell) and their two counters are those of the graph.        *)
IslandsAreComponents ==
  LET blocks == Blocks(grid.nbrs)
  IN  /\ {{e \in Cells(grid) : grid.island[e] = l} : l \in Range(grid.island)} = blocks
      /\ grid.islands = Cardinality(blocks)
      /\ grid.largest = Max({0} \cup {Cardinality(K) : K \in blocks})

(* same_component_with_overlay, the pruning of query and the main island   *)
(* agree with the graph of neighbours and overlay edges, whichever of the  *)
(* union-find and the walk answers.                                        *)
ConnectivityExact ==
  LET blocks == Blocks(Edges(grid))
  IN  /\ \A K \in blocks, a, b \in Cells(grid) :
           a \in K => /\ SameComponent(grid, a, b) <=> b \in K
                     /\ QueryFound(grid, a, b) <=> b \in K
      /\ LargestWithOverlay(grid) = {K \in blocks : \A L \in blocks : Cardinality(L) <= Cardinality(K)}

(* Unless a build left it behind, the partition shows the forest: a cell   *)
(* per box a bridge has appended, with its region, and an overlay edge in  *)
(* both directions per segment edge whose ends have cells, no other.       *)
MirrorsForest ==
  /\ Range(grid.cells) = {boxes[i] : i \in 1..Len(boxes) - pending}
  /\ pending = 0 =>
       {[id |-> e.id, ends |-> {grid.cells[e.from].id, grid.cells[e.to].id}] : e \in grid.overlay}
         = {[id |-> e.id, ends |-> {e.from, e.to}] : e \in Range(segs)}
PartitionMirrorsForest == enabled /\ ~behind => MirrorsForest
(* docs/LeafSweepGrower.md: build_leaf_sweep makes its free boxes the      *)
(* boxes of the forest; run_query_internal asks the partition first.       *)
QueriesSeeTheForest == enabled => MirrorsForest

(* merge_boxes, cut short or not: the same configurations stay covered, no *)
(* id appears or is given twice, and every box that is not released keeps  *)
(* at least what it covered.                                               *)
CellsCovered(bs) ==
  {p \in [Dim -> Min({r[d][1] : r \in Range(Roots), d \in Dim})..Max({r[d][2] : r \in Range(Roots), d \in Dim})] :
     \E i \in DOMAIN bs : \A d \in Dim : bs[i].region[d][1] <= p[d] /\ p[d] < bs[i].region[d][2]}
MergeKeepsCover ==
  grown # <<>> =>
    /\ CellsCovered(boxes) = CellsCovered(grown)
    /\ Ids(boxes) \subseteq Ids(grown) /\ Cardinality(Ids(boxes)) = Len(boxes)
    /\ \A i \in DOMAIN grown, o \in DOMAIN boxes :
         grown[i].id = boxes[o].id => Inside(grown[i].region, boxes[o].region)

(* classify_connectivity_dominance: the components it says a candidate box *)
(* would join are joined when append_box adds that box.                    *)
DominanceSound ==
  \A r \in Regions :
    (\A c \in Cells(grid) : ~Inside(r, RegionOf(grid, c))) =>
      LET after == AppendBox(grid, [id |-> NextBoxId(grid.cells), region |-> r])
      IN  \A K, L \in JoinedComponents(grid, r) : \A a \in K, b \in L : SameComponent(after, a, b)

\* What the partition maintains cell by cell and edge by edge agrees: links with
\* the cells, for cells that do not overlap as a rebuild would draw them; islands,
\* counters and classes with the links it has. Cells of one root that overlap are
\* linked by a rebuild (adaptive_grid_partition.cpp:2036-2040), by an append only if
\* faces meet (1837-1859): of them nothing is said but that links are mutual.
PartitionExact == TypeOK /\ NeighborsExact /\ IslandsAreComponents /\ ConnectivityExact
=============================================================================
