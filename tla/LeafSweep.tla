------------------------------ MODULE LeafSweep ------------------------------
(***************************************************************************)
(* The leaf sweep: every cell of the tree is validated from a start depth  *)
(* downwards, once for each cluster of obstacles, until it is certified    *)
(* free or reaches the maximal depth; the sweeps of the clusters are then  *)
(* composed.  (safe_box_forest/src/leaf_sweep_grower.cpp)                  *)
(*                                                                         *)
(* One joint is modelled, with coordinates 0..2^Res.  Node n of the tree   *)
(* has children 2n and 2n+1 (a renumbering of the code's 2n+1 and 2n+2).   *)
(* A call is described by cfg, which also holds what the environment does: *)
(* the nodes that cannot be split, and whether the deadline may expire.    *)
(***************************************************************************)
EXTENDS Integers, Sequences, FiniteSets, SequencesExt

CONSTANTS Res,         \* log2 of the extent of the joint
          Sweeps       \* the calls considered: see SweepType

VARIABLES cfg,         \* the arguments and LeafSweepConfig of the call
          pc,
          tree,        \* the nodes of the active tree that are split
          groups,      \* the clusters of obstacle indices
          frontier,    \* start_frontier
          level,       \* the depth the frontier has reached
          pending,     \* pending[index..] of sweep_group
          batch,       \* outcomes of the running batch, "none" until computed
          active,      \* active_max_depth
          swept,       \* per group begun: its free and collision boxes
          queue,       \* the queue of compose_final_sets
          result,      \* free_boxes and collision_boxes with their blame
          deadline,    \* result.deadline_reached
          stopped      \* context.should_stop(), which is never unset

vars == <<cfg, pc, tree, groups, frontier, level, pending, batch, active,
          swept, queue, result, deadline, stopped>>

----------------------------------------------------------------------------
(* Geometry.                                                               *)

Root == 1
Nodes == 1..2^(Res + 1) - 1
\* virtual_depth and oracle.depth.
DepthOf(n) == CHOOSE d \in 0..Res : 2^d <= n /\ n < 2^(d + 1)
NodeInterval(n) == LET w == 2^(Res - DepthOf(n))
                       k == n - 2^DepthOf(n)
                   IN <<k * w, (k + 1) * w>>
Overlaps(r, s) == r[1] <= s[2] /\ s[1] <= r[2]   \* touching counts
Clip(r, s) == <<IF r[1] < s[1] THEN s[1] ELSE r[1],
                IF r[2] > s[2] THEN s[2] ELSE r[2]>>
\* Unit u is the stretch between coordinates u - 1 and u.
Units == 1..2^Res
UnitsOf(r) == (r[1] + 1)..r[2]
AllUnits == UnitsOf(cfg.domain)

----------------------------------------------------------------------------
(* The calls.                                                              *)

SweepType ==
  [obstacles : Seq((0..2^Res) \X (0..2^Res)), gap : Nat, domain : (0..2^Res) \X (0..2^Res),
   roots : Seq((0..2^Res) \X (0..2^Res)), start : 0..Res, max : 0..Res,
   virtual : BOOLEAN, threads : Nat \ {0}, batch : Nat \ {0},
   tree : SUBSET Nodes, stuck : SUBSET Nodes, pruneDepth : -1..Res, pruneAt : Nat,
   maxFree : Nat, maxColl : Nat, checkpoints : SUBSET (0..Res), callback : BOOLEAN,
   mayStop : BOOLEAN]
\* What sweep throws on otherwise, and what its callers provide: the domain is
\* an interval, the copies of the root meet each unit of it once, and the
\* nodes that are split form a tree.
SweepFits(s) ==
  /\ s.start <= s.max
  /\ s.domain[1] <= s.domain[2]
  /\ \A i \in DOMAIN s.roots : s.roots[i][1] <= s.roots[i][2]
  /\ s.virtual => \A u \in UnitsOf(s.domain) :
                    Cardinality({i \in DOMAIN s.roots : u \in UnitsOf(s.roots[i])}) = 1
  /\ \A n \in s.tree : n = Root \/ n \div 2 \in s.tree

ASSUME SweepsAssumption == Res \in Nat /\ Sweeps \subseteq SweepType /\ \A s \in Sweeps : SweepFits(s)

----------------------------------------------------------------------------
(* Validation and clustering.                                              *)

\* aabb_distance: obstacles are intervals too.
Distance(o, p) == IF o[2] < p[1] THEN p[1] - o[2]
                  ELSE IF p[2] < o[1] THEN o[1] - p[2] ELSE 0

\* validate_node: the envelope over-approximates r by a share of its width.
CertifiedFree(g, r) ==
  LET pad == (r[2] - r[1]) \div 4
  IN \A i \in g : ~Overlaps(<<r[1] - pad, r[2] + pad>>, cfg.obstacles[i])

\* should_prune_by_overlap: the deepest overlap of an obstacle with the
\* region; the threshold decays with the depth.
OverlapDepth(g, r) ==
  LET deep(i) == LET c == Clip(r, cfg.obstacles[i])
                 IN IF c[2] > c[1] THEN c[2] - c[1] ELSE 0
  IN Max({0} \cup {deep(i) : i \in g})
ShouldPrune(g, item) ==
  LET extra == DepthOf(item.node) - cfg.pruneDepth
  IN /\ cfg.pruneDepth >= 0
     /\ extra >= 0
     /\ OverlapDepth(g, item.iv) * (1 + extra) >= cfg.pruneAt

\* cluster_obstacles: UnionFind over the pairs nearer than the gap.
Unite(label, i, j) ==
  [k \in DOMAIN label |-> IF label[k] = label[j] THEN label[i] ELSE label[k]]
Labels ==
  LET n == Len(cfg.obstacles)
      near == {p \in (1..n) \X (1..n) :
                 /\ p[1] < p[2]
                 /\ Distance(cfg.obstacles[p[1]], cfg.obstacles[p[2]]) <= cfg.gap}
  IN FoldLeft(LAMBDA label, p : Unite(label, p[1], p[2]),
              [i \in 1..n |-> i], SetToSeq(near))
\* The classes in the order of their first obstacles.
ClusterObstacles ==
  IF cfg.obstacles = <<>> THEN <<{}>>
  ELSE LET label == Labels
           class(i) == {j \in DOMAIN cfg.obstacles : label[j] = label[i]}
           firsts == {i \in DOMAIN cfg.obstacles : \A j \in class(i) : i <= j}
           nth(k) == CHOOSE i \in firsts : Cardinality({j \in firsts : j <= i}) = k
       IN [k \in 1..Cardinality(firsts) |-> class(nth(k))]

----------------------------------------------------------------------------
(* Splitting.                                                              *)

Item(n, r) == [node |-> n, iv |-> r]
IsLeaf(n) == n \notin tree
CanSplit(item) ==
  IF cfg.virtual THEN item.iv[2] - item.iv[1] >= 2
  ELSE ~IsLeaf(item.node) \/ item.node \notin cfg.stuck

\* virtual_split_node halves the interval the item carries; the active tree
\* gives each child the interval of its node.
Children(item) ==
  LET mid == (item.iv[1] + item.iv[2]) \div 2
      l == 2 * item.node
  IN IF cfg.virtual
     THEN <<Item(l, <<item.iv[1], mid>>), Item(l + 1, <<mid, item.iv[2]>>)>>
     ELSE <<Item(l, NodeInterval(l)), Item(l + 1, NodeInterval(l + 1))>>
\* Mutant: a child is kept only when its centre is inside.
InDomainByCentre(items) ==
  FlattenSeq([i \in DOMAIN items |->
                LET c == (items[i].iv[1] + items[i].iv[2]) \div 2
                IN IF cfg.domain[1] < c /\ c < cfg.domain[2] THEN <<items[i]>> ELSE <<>>])
InDomain(items) ==
  FlattenSeq([i \in DOMAIN items |->
                IF Overlaps(items[i].iv, cfg.domain) THEN <<items[i]>> ELSE <<>>])
\* Mutant: the left child is recorded in place of the node.
SplitTree(t, item) == IF cfg.virtual THEN t ELSE t \cup {item.node}

\* materialize_start_frontier, one level; a stop leaves the items as they are.
SplitLevel(items) ==
  FlattenSeq([i \in DOMAIN items |->
                IF stopped \/ ~CanSplit(items[i]) THEN <<items[i]>>
                ELSE InDomain(Children(items[i]))])

----------------------------------------------------------------------------
(* sweep_group.                                                            *)

Group == groups[Len(swept)]
Boxes == swept[Len(swept)]

\* append_free_box and append_collision_box; a cap of 0 is no cap.  Box ids
\* are the positions in the lists.
AppendBox(boxes, item, cap) ==
  IF cap > 0 /\ Len(boxes) >= cap THEN boxes
  ELSE Append(boxes, Item(item.node, Clip(item.iv, cfg.domain)))

\* Mutant: at the deepest level the verdict is not looked at.
SettleUnchecked(s, item, isFree) ==
  IF ~Overlaps(item.iv, cfg.domain) THEN s
  ELSE IF isFree /\ DepthOf(item.node) < active THEN [s EXCEPT !.free = AppendBox(@, item, cfg.maxFree)]
  ELSE IF \/ ShouldPrune(Group, item)
          \/ DepthOf(item.node) >= active
          \/ ~CanSplit(item)
  THEN [s EXCEPT !.coll = AppendBox(@, item, cfg.maxColl)]
  ELSE [s EXCEPT !.pending = @ \o InDomain(Children(item)),
                 !.tree = SplitTree(@, item)]

\* What one validated item does to s = [free, coll, pending, tree].
Settle(s, item, isFree) ==
  IF ~Overlaps(item.iv, cfg.domain) THEN s
  ELSE IF isFree THEN [s EXCEPT !.free = AppendBox(@, item, cfg.maxFree)]
  ELSE IF \/ ShouldPrune(Group, item)
          \/ DepthOf(item.node) >= active
          \/ ~CanSplit(item)
  THEN [s EXCEPT !.coll = AppendBox(@, item, cfg.maxColl)]
  ELSE [s EXCEPT !.pending = @ \o InDomain(Children(item)),
                 !.tree = SplitTree(@, item)]

\* The outcomes of a batch of items, settled in its order.
SettleAll(s, items, outcomes) ==
  LET upTo[i \in 0..Len(outcomes)] ==
        IF i = 0 THEN s ELSE Settle(upTo[i - 1], items[i], outcomes[i] = "free")
  IN upTo[Len(outcomes)]

Settled(s) ==
  /\ swept' = [swept EXCEPT ![Len(swept)] = [free |-> s.free, coll |-> s.coll]]
  /\ pending' = s.pending
  /\ tree' = s.tree

Working(rest) == [free |-> Boxes.free, coll |-> Boxes.coll,
                  pending |-> rest, tree |-> tree]

\* The checkpoint depths that survive the clean-up.
Checkpoints == {d \in cfg.checkpoints : 0 <= d /\ d <= cfg.max}
FirstActive == IF Checkpoints = {} THEN cfg.max ELSE Min(Checkpoints)
\* Mutant: the checkpoint just evaluated is chosen again.
NextActiveAgain(depth) ==
  LET later == {d \in Checkpoints : d >= depth}
  IN IF later = {} THEN cfg.max ELSE Min(later)
NextActive(depth) ==
  LET later == {d \in Checkpoints : d > depth}
  IN IF later = {} THEN cfg.max ELSE Min(later)

----------------------------------------------------------------------------
(* The call.                                                               *)

NoBoxes == [free |-> <<>>, coll |-> <<>>]

Init ==
  /\ cfg \in Sweeps
  /\ pc = "frontier"
  /\ tree = cfg.tree
  /\ groups = <<>>
  /\ frontier = IF cfg.virtual
                THEN InDomain([i \in DOMAIN cfg.roots |-> Item(Root, cfg.roots[i])])
                ELSE InDomain(<<Item(Root, NodeInterval(Root))>>)
  /\ level = 0
  /\ pending = <<>> /\ batch = <<>> /\ active = 0
  /\ swept = <<>>
  /\ queue = <<>>
  /\ result = NoBoxes
  /\ deadline = FALSE
  /\ stopped = FALSE

\* One level of the start frontier.
Materialize ==
  /\ pc = "frontier"
  /\ level < cfg.start
  /\ frontier' = SplitLevel(frontier)
  /\ level' = level + 1
  /\ tree' = IF cfg.virtual \/ stopped THEN tree
             ELSE tree \cup {frontier[i].node : i \in {j \in DOMAIN frontier : CanSplit(frontier[j])}}
  /\ deadline' = (deadline \/ (stopped /\ frontier # <<>>))
  /\ UNCHANGED <<cfg, pc, groups, pending, batch, active, swept, queue, result, stopped>>

\* cluster_obstacles, and the two modes that support one cluster only.
Cluster ==
  /\ pc = "frontier"
  /\ level = cfg.start
  /\ groups' = ClusterObstacles
  /\ pc' = IF (cfg.virtual \/ cfg.callback) /\ Len(groups') # 1
           THEN "threw" ELSE "groups"
  /\ UNCHANGED <<cfg, tree, frontier, level, pending, batch, active, swept,
                 queue, result, deadline, stopped>>

\* The loop over the groups, which a stop leaves.
NextGroup ==
  /\ pc = "groups"
  /\ IF stopped \/ Len(swept) = Len(groups)
     THEN /\ pc' = "compose"
          /\ queue' = <<[node |-> Root, free |-> {}, coll |-> {}]>>
          /\ deadline' = (deadline \/ (stopped /\ Len(swept) < Len(groups)))
          /\ UNCHANGED <<pending, active, swept>>
     ELSE /\ pc' = "sweep"
          /\ swept' = Append(swept, NoBoxes)
          /\ pending' = frontier
          /\ active' = IF cfg.callback THEN FirstActive ELSE cfg.max
          /\ UNCHANGED <<queue, deadline>>
  /\ UNCHANGED <<cfg, tree, groups, frontier, level, batch, result, stopped>>

InParallel == cfg.virtual /\ cfg.threads > 1

\* The serial loop: one pending node is validated and settled.
SweepItem ==
  /\ pc = "sweep"
  /\ ~InParallel /\ ~stopped
  /\ pending # <<>>
  /\ LET item == Head(pending)
     IN Settled(Settle(Working(Tail(pending)), item, CertifiedFree(Group, item.iv)))
  /\ UNCHANGED <<cfg, pc, groups, frontier, level, batch, active, queue, result, deadline, stopped>>

\* The parallel loop: a batch is handed to the pool ...
TakeBatch ==
  /\ pc = "sweep"
  /\ InParallel /\ ~stopped
  /\ pending # <<>>
  /\ batch' = [i \in 1..Min({Len(pending), cfg.batch}) |-> "none"]
  /\ pc' = "batch"
  /\ UNCHANGED <<cfg, tree, groups, frontier, level, pending, active, swept,
                 queue, result, deadline, stopped>>

\* ... whose workers validate its nodes in any order, each with its own oracle ...
ValidateItem(i) ==
  /\ pc = "batch"
  /\ i \in DOMAIN batch /\ batch[i] = "none"
  /\ batch' = [batch EXCEPT ![i] = IF CertifiedFree(Group, pending[i].iv)
                                   THEN "free" ELSE "maybe"]
  /\ UNCHANGED <<cfg, pc, tree, groups, frontier, level, pending, active, swept,
                 queue, result, deadline, stopped>>

\* ... and the outcomes are settled in the order of the batch, even after a stop.
CommitBatch ==
  /\ pc = "batch"
  /\ \A i \in DOMAIN batch : batch[i] # "none"
  /\ Settled(SettleAll(Working(SubSeq(pending, Len(batch) + 1, Len(pending))), pending, batch))
  /\ pc' = "sweep"
  /\ batch' = <<>>
  /\ UNCHANGED <<cfg, groups, frontier, level, active, queue, result, deadline, stopped>>

\* record_dropped_pending_after_stop: what is pending is forgotten.
DropPending ==
  /\ pc = "sweep"
  /\ stopped
  /\ pending # <<>>
  /\ pending' = <<>>
  /\ deadline' = TRUE
  /\ UNCHANGED <<cfg, pc, tree, groups, frontier, level, batch, active, swept,
                 queue, result, stopped>>

\* advance_checkpoint_or_finish: the caller looks at the boxes and may end the
\* sweep; otherwise the collision boxes, clipped to the domain, become pending
\* again.  After a stop the group ends whatever the callback says.
AtCheckpoint == pc = "sweep" /\ pending = <<>> /\ cfg.callback /\ Checkpoints # {}
EndOfPending(callerStops) ==
  /\ pc = "sweep"
  /\ pending = <<>>
  /\ callerStops => AtCheckpoint
  /\ LET advance == AtCheckpoint /\ ~callerStops /\ active < cfg.max
         again == advance /\ Boxes.coll # <<>> /\ ~stopped
     IN /\ pc' = IF again THEN "sweep" ELSE "groups"
        /\ pending' = IF again THEN Boxes.coll ELSE <<>>
        /\ active' = IF again THEN NextActive(active) ELSE active
        /\ swept' = IF advance THEN [swept EXCEPT ![Len(swept)].coll = <<>>] ELSE swept
  /\ UNCHANGED <<cfg, tree, groups, frontier, level, batch, queue, result, deadline, stopped>>

Blamed(item, obstacles) == [node |-> item.node, iv |-> item.iv, blame |-> obstacles]

\* One group: its boxes are the result, and all its obstacles are blamed.
ComposeOne ==
  /\ pc = "compose"
  /\ Len(groups) = 1
  /\ pc' = "done"
  /\ result' = IF swept = <<>> THEN NoBoxes
                ELSE [free |-> Boxes.free,
                      coll |-> [i \in DOMAIN Boxes.coll |-> Blamed(Boxes.coll[i], groups[1])]]
  /\ UNCHANGED <<cfg, tree, groups, frontier, level, pending, batch, active, swept,
                 queue, deadline, stopped>>

----------------------------------------------------------------------------
(* compose_final_sets.                                                     *)

NodesOf(boxes) == {boxes[i].node : i \in DOMAIN boxes}
GroupsWith(kind, n) == {g \in DOMAIN swept : n \in NodesOf(swept[g][kind])}
Marked(x) == [x EXCEPT !.free = @ \cup GroupsWith("free", x.node),
                       !.coll = @ \cup GroupsWith("coll", x.node)]

\* make_clipped_box: nothing outside the domain.
PushFree(r, n) ==
  LET iv == NodeInterval(n)
  IN IF Overlaps(iv, cfg.domain)
     THEN [r EXCEPT !.free = Append(@, Item(n, Clip(iv, cfg.domain)))] ELSE r
PushCollision(r, n, blockers) ==
  LET iv == NodeInterval(n)
  IN IF Overlaps(iv, cfg.domain)
     THEN [r EXCEPT !.coll = Append(@, Blamed(Item(n, Clip(iv, cfg.domain)), UNION {groups[g] : g \in blockers}))]
     ELSE r

\* What becomes of a node of the queue: it is classified, or its children are
\* queued with what is known of it.
\* Mutant: only the groups without any box there are blamed.
UnclassifiedSilent(x) == DOMAIN groups \ (x.coll \cup x.free)
Unclassified(x) == x.coll \cup (DOMAIN groups \ x.free)
Classified(x) ==
  IF DepthOf(x.node) < cfg.start
  THEN IF IsLeaf(x.node) THEN PushCollision(result, x.node, Unclassified(x)) ELSE result
  ELSE IF x.coll # {} THEN PushCollision(result, x.node, x.coll)
  ELSE IF x.free = DOMAIN groups THEN PushFree(result, x.node)
  ELSE IF DepthOf(x.node) >= cfg.max \/ IsLeaf(x.node)
  THEN PushCollision(result, x.node, Unclassified(x))
  ELSE result
Descends(x) ==
  /\ ~IsLeaf(x.node)
  /\ \/ DepthOf(x.node) < cfg.start
     \/ x.coll = {} /\ x.free # DOMAIN groups /\ DepthOf(x.node) < cfg.max

ComposeNode ==
  /\ pc = "compose"
  /\ Len(groups) # 1
  /\ queue # <<>> /\ ~stopped
  /\ LET x == Marked(Head(queue))
     IN /\ result' = Classified(x)
        /\ queue' = Tail(queue) \o IF Descends(x)
                                   THEN <<[x EXCEPT !.node = 2 * @], [x EXCEPT !.node = 2 * @ + 1]>>
                                   ELSE <<>>
  /\ UNCHANGED <<cfg, pc, tree, groups, frontier, level, pending, batch, active,
                 swept, deadline, stopped>>

\* The queue is empty, or a stop forgets what is still queued.
ComposeEnds ==
  /\ pc = "compose"
  /\ Len(groups) # 1
  /\ queue = <<>> \/ stopped
  /\ pc' = "done"
  /\ queue' = <<>>
  /\ deadline' = (deadline \/ queue # <<>>)
  /\ UNCHANGED <<cfg, tree, groups, frontier, level, pending, batch, active,
                 swept, result, stopped>>

\* The deadline expires.
Stop ==
  /\ cfg.mayStop /\ ~stopped
  /\ pc \notin {"done", "threw"}
  /\ stopped' = TRUE
  /\ UNCHANGED <<cfg, pc, tree, groups, frontier, level, pending, batch, active,
                 swept, queue, result, deadline>>

SweepStep == \/ Materialize \/ Cluster \/ NextGroup \/ SweepItem
             \/ TakeBatch \/ CommitBatch \/ DropPending
             \/ ComposeOne \/ ComposeNode \/ ComposeEnds
             \/ \E i \in DOMAIN batch : ValidateItem(i)
Step == SweepStep \/ \E callerStops \in BOOLEAN : EndOfPending(callerStops)

Next == Step \/ Stop

Spec == Init /\ [][Next]_vars

----------------------------------------------------------------------------
(* Properties.                                                             *)

Items == Seq([node : Nodes, iv : (0..2^Res) \X (0..2^Res)])

\* Every variable keeps its type, every pending item lies in the cell of its
\* node unless it belongs to another copy of the root, and what the active
\* tree has split is a tree.
TypeOK ==
  /\ cfg \in SweepType /\ cfg.start <= cfg.max
  /\ pc \in {"frontier", "groups", "sweep", "batch", "compose", "done", "threw"}
  /\ tree \subseteq Nodes
  /\ \A n \in tree : n = Root \/ n \div 2 \in tree
  /\ groups \in Seq(SUBSET DOMAIN cfg.obstacles)
  /\ frontier \in Items /\ pending \in Items
  /\ ~cfg.virtual => \A i \in DOMAIN pending :
                       Clip(pending[i].iv, NodeInterval(pending[i].node)) = pending[i].iv
  /\ level \in 0..cfg.start
  /\ batch \in Seq({"none", "free", "maybe"}) /\ Len(batch) <= Len(pending)
  /\ active \in 0..Res
  /\ Len(swept) <= Len(groups)
  /\ \A g \in DOMAIN swept : swept[g].free \in Items /\ swept[g].coll \in Items
  /\ stopped \in BOOLEAN /\ deadline \in BOOLEAN
  /\ deadline => stopped

CoveredBy(items, u) == {i \in DOMAIN items : u \in UnitsOf(items[i].iv)}
FinalOwners(u) == {<<"free", i>> : i \in CoveredBy(result.free, u)}
                  \cup {<<"coll", i>> : i \in CoveredBy(result.coll, u)}

\* While a group is swept each unit of the planning domain belongs to exactly
\* one pending node, free box or collision box, whatever the batches, the
\* checkpoints and the clipping did so far; a stop and a cap may only lose
\* units, never give one to two boxes.
SweepConserves ==
  pc \in {"sweep", "batch"} =>
    \A u \in AllUnits :
      LET owners == Cardinality(CoveredBy(pending, u)) + Cardinality(CoveredBy(Boxes.free, u))
                      + Cardinality(CoveredBy(Boxes.coll, u))
      IN /\ owners <= 1
         /\ (~stopped /\ cfg.maxFree = 0 /\ cfg.maxColl = 0) => owners = 1

\* What the call returns covers each unit of the domain at most once, and
\* every unit when it was not stopped and no cap applies.
ResultCoversDomain ==
  pc = "done" =>
    \A u \in AllUnits :
      /\ Cardinality(FinalOwners(u)) <= 1
      /\ (~stopped /\ cfg.maxFree = 0 /\ cfg.maxColl = 0) => FinalOwners(u) # {}

\* The document's promise for a timeout ("the pending nodes that are left are
\* treated as conservative collisions"): also a stopped sweep covers its domain.
TimeoutKeepsPending ==
  (pc = "done" /\ cfg.maxFree = 0 /\ cfg.maxColl = 0) =>
    \A u \in AllUnits : FinalOwners(u) # {}

\* A free box of the result meets no obstacle of the scene, whichever groups
\* they were swept with, at whatever point a stop cut the sweep or the compose.
FreeBoxesFree ==
  \A i \in DOMAIN result.free : \A o \in DOMAIN cfg.obstacles :
    ~Overlaps(result.free[i].iv, cfg.obstacles[o])

\* The obstacles a collision box records include every obstacle that meets it:
\* later updates of the scene rely on it to decide which boxes an obstacle's
\* removal may free.  Pruning breaks it, and so does a cap on the collision
\* boxes when there are several groups: the box of one group at a node that
\* another group's cap dropped blames the first group only.
BlameComplete ==
  (cfg.pruneDepth < 0 /\ (cfg.maxColl = 0 \/ Len(groups) = 1)) =>
    \A i \in DOMAIN result.coll : \A o \in DOMAIN cfg.obstacles :
      (UnitsOf(Clip(result.coll[i].iv, cfg.obstacles[o])) # {}) => o \in result.coll[i].blame

\* The sweep of one unit by one group of obstacles, from the definition: the
\* cells that hold it are tried from the start depth down, until one is
\* certified or may not be refined.
RootOf(u) == IF cfg.virtual
             THEN CHOOSE r \in {cfg.roots[i] : i \in DOMAIN cfg.roots} : u \in UnitsOf(r)
             ELSE NodeInterval(Root)
CellOf(u, d) == LET r == RootOf(u)
                    w == (r[2] - r[1]) \div 2^d
                    k == (u - 1 - r[1]) \div w
                IN Item(2^d + k, <<r[1] + k * w, r[1] + (k + 1) * w>>)
FoundFree(g, u) ==
  LET found[d \in 0..cfg.max] ==
        LET item == CellOf(u, d)
        IN IF d < cfg.start /\ CanSplit(item) THEN found[d + 1]
           ELSE \/ CertifiedFree(g, item.iv)
                \/ /\ ~ShouldPrune(g, item) /\ d < cfg.max /\ CanSplit(item)
                   /\ found[d + 1]
  IN found[0]

\* A unit is in a free box of the result exactly when every group, swept alone
\* and one node at a time, would have found it free: threads, batches,
\* checkpoints and the composition of the groups change nothing.  (A
\* checkpoint resumes with clipped cells, so the domain must be whole then.)
SameAsReference ==
  (/\ pc = "done" /\ ~stopped /\ cfg.maxFree = 0 /\ cfg.maxColl = 0
   /\ cfg.callback => cfg.domain = NodeInterval(Root)) =>
    \A u \in AllUnits :
      LET allFree == \A g \in DOMAIN groups : FoundFree(groups[g], u)
          inFree == CoveredBy(result.free, u) # {}
          earlyEnd == cfg.callback
      IN /\ inFree => allFree
         /\ ~earlyEnd => (allFree => inFree)

\* What a sweep returns: its boxes fill the domain, free ones are free of every
\* group's obstacles, and a collision box names all that block it
\* (leaf_sweep_grower.cpp:1164-1300).
ResultSound == TypeOK /\ ResultCoversDomain /\ FreeBoxesFree /\ BlameComplete
=============================================================================
