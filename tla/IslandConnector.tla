-------------------------- MODULE IslandConnector --------------------------
(***************************************************************************)
(* IslandConnector::connect_all (connector.cpp): bridges the islands of    *)
(* the graph, first by boxes grown at the frontier, then in rounds that    *)
(* pave RRT paths between pairs of boxes, last by validated gap segments.  *)
(*                                                                         *)
(* A round looks for paths of all its pairs before it commits any of them, *)
(* so the later ones are committed to a forest the earlier ones changed.   *)
(* The reservations of the oracle and duplicate boxes on reserved cells    *)
(* are in ForestGrowth; bisection of a gap to a covering box is left out:  *)
(* a seed one step outside a box is only covered by boxes that touch it.   *)
(***************************************************************************)
EXTENDS PlanningForest, TLC

CONSTANT MaxFront  \* guard_max: steps along one path segment

VARIABLES
  cfg,      \* config_ of the connector
  islands,  \* the islands when the round began
  tasks,    \* candidate pairs of the round, in task order
  paths,    \* successful_pairs not yet committed
  blocks,   \* union-find over the islands of the round
  chain,    \* the path being paved
  bridged,  \* result.bridge_boxes_added
  capped,   \* a boundary search ended at the depth limit
  progress, \* progressed
  stall     \* best gap and stall count of the frontier, by root

connector == <<cfg, islands, tasks, paths, blocks, chain, bridged, capped, progress, stall>>
NoChain == [pair |-> <<>>]

(***************************************************************************)
(* Frontier bridge.                                                        *)
(***************************************************************************)
SquaredGap(a, b) ==
  LET g(d) == Max({a[d][1] - b[d][2], b[d][1] - a[d][2], 0}) IN g(1) * g(1) + g(2) * g(2)
PointRegion(p) == [d \in Dim |-> <<p[d], p[d]>>]
FaceSeed(r, target, d, up) ==
  [k \in Dim |-> IF k = d THEN IF up THEN r[k][2] + 1 ELSE r[k][1] - 1
                 ELSE Clamp(target[k], r[k][1] + 1, r[k][2] - 1)]
SquaredDist(p, q) == (p[1] - q[1]) * (p[1] - q[1]) + (p[2] - q[2]) * (p[2] - q[2])

\* select_frontier_bridge_candidate: one step across a face of a box of one
\* island, towards a box of another, not yet covered and closer than before.
FrontierCandidates ==
  LET try(a, b, d, up) ==
        LET seed == FaceSeed(Region(a), Center(Region(b)), d, up)
        IN [from |-> a, to |-> b, seed |-> seed, gap |-> SquaredGap(Region(a), Region(b)),
            left |-> SquaredGap(PointRegion(seed), Region(b)),
            score |-> SquaredDist(seed, Center(Region(b)))]
      apart == {<<a, b>> \in Ids(boxes) \X Ids(boxes) : ~HasPath(graph, a, b)}
      facing(a, b, d, up) == /\ Region(a)[d][2] < Region(b)[d][1] => up
                             /\ Region(b)[d][2] < Region(a)[d][1] => ~up
      all == {try(ab[1], ab[2], d, up) : ab \in apart, d \in Dim, up \in BOOLEAN}
  IN {c \in all :
        /\ c.gap > 0 /\ c.left < c.gap
        /\ c.seed \in Points
        /\ \E d \in Dim, up \in BOOLEAN :
             facing(c.from, c.to, d, up) /\ c = try(c.from, c.to, d, up)
        /\ \A i \in DOMAIN boxes : ~InBox(boxes[i].region, c.seed)}

Key(c) == <<c.gap, c.left, c.score, c.from, c.to>>
BestOf(S) == {c \in S : \A x \in S : ~LexLess(Key(x), Key(c))}
StallOf(root) == IF root \in DOMAIN stall THEN stall[root] ELSE [best |-> NoId, count |-> 0]

\* add_frontier_bridge_box: the box becomes a neighbour of all it touches.
AddConnected(r, root, certified) ==
  LET touch == {id \in Ids(boxes) : Connected(Region(id), r)}
  IN /\ boxes' = Append(boxes, Box(nextId, r, root, certified))
     /\ graph' = [id \in DOMAIN graph \cup {nextId} |->
                    IF id = nextId THEN touch
                    ELSE IF id \in touch THEN graph[id] \cup {nextId} ELSE graph[id]]
     /\ nextId' = nextId + 1

\* allow_connector_box_commit: what a found cell is committed as.
CommitAs(r) ==
  CASE cfg.policy = "AuditBeforeCommit" -> IF FreeRegion(r, obs) THEN {TRUE} ELSE {}
    [] cfg.certify -> {TRUE}
    [] cfg.policy = "CommitProvisionalAllowed" -> {FALSE}
    [] OTHER -> {}

\* The first candidate, or after a round without gain one further down; a
\* stall that lasts searches deeper.
FrontierChoice ==
  LET all == FrontierCandidates
      first == BestOf(all)
      root == BoxOf(boxes, (CHOOSE c \in first : TRUE).from).root
      gap == (CHOOSE c \in first : TRUE).gap
      improved == StallOf(root).best = NoId \/ gap < StallOf(root).best
      count == IF improved THEN 0 ELSE StallOf(root).count + 1
  IN [from |-> IF improved THEN first ELSE all,
      stall |-> (root :> [best |-> IF improved THEN gap ELSE StallOf(root).best, count |-> count])
                  @@ stall,
      depth |-> IF count >= cfg.window
                THEN cfg.depth + 1 + (count - cfg.window) \div cfg.window ELSE cfg.depth]

FrontierBridge ==
  /\ pc = "frontier" /\ cfg.frontier
  /\ Cardinality(FindIslands(graph)) > 1 /\ bridged < cfg.maxBridge
  /\ FrontierCandidates # {}
  /\ LET choice == FrontierChoice
     IN \E c \in choice.from :
          LET found == FindFreeBox(c.seed, choice.depth, cfg.certify)
          IN /\ stall' = choice.stall
             /\ IF found.region = NoRegion \/ CommitAs(found.region) = {}
                THEN /\ pc' = "round"
                     /\ UNCHANGED <<forest, bridged>>
                ELSE /\ \E certified \in CommitAs(found.region) :
                          AddConnected(found.region, BoxOf(boxes, c.from).root, certified)
                     /\ bridged' = bridged + 1
                     /\ UNCHANGED <<obs, edges, pc>>
  /\ UNCHANGED <<cfg, islands, tasks, paths, blocks, chain, capped, progress>>

EndFrontier ==
  /\ pc = "frontier"
  /\ \/ ~cfg.frontier
     \/ Cardinality(FindIslands(graph)) <= 1
     \/ bridged >= cfg.maxBridge
     \/ FrontierCandidates = {}
  /\ pc' = "round"
  /\ UNCHANGED <<forest, connector>>

(***************************************************************************)
(* Rounds of bridge pairs.                                                 *)
(***************************************************************************)
RrtEdges == cfg.segments /\ ~cfg.fallbackOnly
RoundAllowed == bridged < cfg.maxBridge \/ RrtEdges

\* The closest pairs of boxes of different islands, by distance of centres,
\* at most as many as one gap may have.
PairKey(p) == <<SquaredDist(Center(Region(p[1])), Center(Region(p[2]))), p[1], p[2]>>
RoundPairs ==
  LET large(I) == <<-Cardinality(I), Min(I)>>
      pairs == {<<a, b>> \in Ids(boxes) \X Ids(boxes) :
                  /\ ~HasPath(graph, a, b)
                  /\ LexLess(large(Reach(graph, a)), large(Reach(graph, b)))}
      first(S) == CHOOSE p \in S : \A q \in S : ~LexLess(PairKey(q), PairKey(p))
      sorted[n \in 0..cfg.pairs] ==
        IF n = 0 THEN <<>>
        ELSE LET left == pairs \ ToSet(sorted[n - 1])
             IN IF left = {} THEN sorted[n - 1] ELSE Append(sorted[n - 1], first(left))
  IN sorted[cfg.pairs]

StartRound ==
  /\ pc = "round"
  /\ Cardinality(FindIslands(graph)) > 1 /\ RoundAllowed
  /\ islands' = FindIslands(graph)
  /\ blocks' = FindIslands(graph)
  /\ tasks' = [i \in DOMAIN RoundPairs |-> [pair |-> RoundPairs[i], pts |-> <<>>, done |-> FALSE]]
  /\ paths' = <<>>
  /\ progress' = FALSE
  /\ pc' = "pairs"
  /\ UNCHANGED <<forest, cfg, chain, bridged, capped, stall>>

\* closest_box_point_segment.
ClosestSegment(a, b) ==
  LET at(r, s) == [d \in Dim |-> IF r[d][2] < s[d][1] THEN r[d][2]
                                 ELSE IF s[d][2] < r[d][1] THEN r[d][1]
                                 ELSE Center(Overlap(r, s))[d]]
      p == at(a, b)
      q == at(b, a)
  IN IF SegmentHit(p, q, Resolution, obs) THEN <<>> ELSE <<p, q>>

PairPaths(a, b) ==
  LET direct == ClosestSegment(Region(a), Region(b))
  IN IF direct # <<>> THEN {direct}
     ELSE IF ~cfg.birrt THEN {<<>>} ELSE Rrt(Center(Region(a)), Center(Region(b)))

\* One pair is attempted.  When the reduction is not deterministic workers take
\* the pairs in any order, and one that found a path cancels the others, which
\* then may find nothing; the results are settled in task order all the same.
Open == {i \in DOMAIN tasks : ~tasks[i].done}
AttemptPair ==
  /\ pc = "pairs"
  /\ \E i \in IF cfg.cancels THEN Open ELSE {j \in Open : \A k \in Open : j <= k} :
       \E path \in PairPaths(tasks[i].pair[1], tasks[i].pair[2])
                     \cup (IF cfg.cancels /\ \E j \in DOMAIN tasks : tasks[j].pts # <<>>
                           THEN {<<>>} ELSE {}) :
         tasks' = [tasks EXCEPT ![i].pts = path, ![i].done = TRUE]
  /\ UNCHANGED <<forest, pc, cfg, islands, paths, blocks, chain, bridged, capped, progress, stall>>

PairsDone ==
  /\ pc = "pairs" /\ Open = {}
  /\ paths' = SelectSeq(tasks, LAMBDA t : t.pts # <<>>)
  /\ tasks' = <<>>
  /\ pc' = "commit"
  /\ UNCHANGED <<forest, cfg, islands, blocks, chain, bridged, capped, progress, stall>>

BlockOf(id) == CHOOSE B \in blocks : id \in B
Bridged(pair) == BlockOf(pair[1]) = BlockOf(pair[2])
Start(pair, pts, max, depth) ==
  [pair |-> pair, pts |-> pts, seg |-> 1, cur |-> pair[1], tried |-> {}, steps |-> 0,
   cursor |-> Closest(Region(pair[1]), pts[1]), first |-> nextId, cap |-> FALSE,
   max |-> max, depth |-> depth]

SkipBridged ==
  /\ pc = "commit" /\ paths # <<>> /\ Bridged(Head(paths).pair)
  /\ paths' = Tail(paths)
  /\ UNCHANGED <<forest, pc, cfg, islands, tasks, blocks, chain, bridged, capped, progress, stall>>

StartChain ==
  /\ pc = "commit" /\ paths # <<>> /\ ~Bridged(Head(paths).pair)
  /\ chain' = Start(Head(paths).pair, Head(paths).pts, cfg.maxChain, cfg.depth)
  /\ paths' = Tail(paths)
  /\ pc' = IF bridged < cfg.maxBridge THEN "pave" ELSE "settle"
  /\ UNCHANGED <<forest, cfg, islands, tasks, blocks, bridged, capped, progress, stall>>

(***************************************************************************)
(* chain_pave_along_path: boxes are put one after the other across the     *)
(* faces the path leaves them by.                                          *)
(***************************************************************************)
Added == nextId - chain.first
Target == chain.pts[chain.seg + 1]

\* boundary_seed_from_box: one step outside, where the segment leaves r.
BoundarySeed(r, from, to) ==
  LET delta(d) == to[d] - from[d]
      room(d) == IF delta(d) > 0 THEN r[d][2] - from[d] ELSE from[d] - r[d][1]
      moving == {d \in Dim : delta(d) # 0}
      exits == {d \in moving : \A e \in moving : room(d) * Abs(delta(e)) <= room(e) * Abs(delta(d))}
      x == CHOOSE d \in exits : TRUE
  IN [d \in Dim |-> IF d \in exits THEN IF delta(d) > 0 THEN r[d][2] + 1 ELSE r[d][1] - 1
                    ELSE from[d] + (delta(d) * room(x)) \div Abs(delta(x))]
\* boundary_seed_candidates: the same, and beside it within the box's sides.
SideSeeds(r, seed) ==
  {[seed EXCEPT ![d] = Clamp(@ + step, r[d][1], r[d][2])] : d \in Dim, step \in {-1, 1}}

\* find_existing_cover: the box the front is in, else the first that covers.
Covers(seed) == {i \in DOMAIN boxes : InBox(boxes[i].region, seed)}
ExistingCover(seed) ==
  IF InBox(Region(chain.cur), seed) THEN chain.cur ELSE boxes[Min(Covers(seed))].id

Advance(to, r) ==
  chain' = [chain EXCEPT !.cur = to, !.steps = @ + 1,
              !.cursor = Closest(r, Target)]
Failed(seed, cap) ==
  /\ chain' = [chain EXCEPT !.tried = @ \cup {<<chain.cur, seed>>}, !.cap = @ \/ cap]
  /\ capped' = (capped \/ cap)

\* cover with no gap budget: an existing box, or a new one next to the front.
Cover(seed) ==
  IF Covers(seed) # {}
  THEN LET to == ExistingCover(seed)
       IN /\ IF to = chain.cur THEN Failed(seed, FALSE)
             ELSE Advance(to, Region(to)) /\ UNCHANGED capped
          /\ graph' = AppendGraphEdge(graph, chain.cur, to)
          /\ UNCHANGED <<boxes, nextId>>
  ELSE LET found == FindFreeBox(seed, chain.depth, cfg.certify)
       IN IF found.region = NoRegion \/ CommitAs(found.region) = {}
          THEN Failed(seed, found.cap) /\ UNCHANGED <<boxes, graph, nextId>>
          ELSE /\ \E certified \in CommitAs(found.region) :
                    boxes' = Append(boxes, Box(nextId, found.region,
                                               BoxOf(boxes, chain.cur).root, certified))
               /\ graph' = (nextId :> {chain.cur}) @@ [graph EXCEPT ![chain.cur] = @ \cup {nextId}]
               /\ nextId' = nextId + 1
               /\ Advance(nextId, found.region)
               /\ UNCHANGED capped

Seeds ==
  LET seed == BoundarySeed(Region(chain.cur), chain.cursor, Target)
      untried == {s \in SideSeeds(Region(chain.cur), seed) : <<chain.cur, s>> \notin chain.tried}
  IN IF <<chain.cur, seed>> \notin chain.tried THEN {seed} ELSE untried

Paving == chain.seg < Len(chain.pts) /\ Added < chain.max
SegmentOver ==
  ~ (/\ Target # chain.pts[chain.seg] /\ ~InBox(Region(chain.cur), Target)
     /\ chain.steps < MaxFront /\ Seeds # {})

\* The same paving serves the rounds and the bridges of single queries.
PavePhases == {"pave", "lay"}
PaveStep ==
  /\ pc \in PavePhases /\ Paving /\ ~SegmentOver
  /\ \E seed \in Seeds : Cover(seed)
  /\ UNCHANGED <<obs, edges, pc, cfg, islands, tasks, paths, blocks, bridged, progress, stall>>

NextSegment ==
  /\ pc \in PavePhases /\ Paving /\ SegmentOver
  /\ chain' = [chain EXCEPT !.seg = @ + 1, !.steps = 0, !.tried = {},
                 !.cursor = Closest(Region(chain.cur), Target)]
  /\ UNCHANGED <<forest, pc, cfg, islands, tasks, paths, blocks, bridged, capped, progress, stall>>

\* connect_new_boxes_to_island: to the target island as the round found it.
ConnectToWholeIsland(g, island) ==
  LET new == {id \in Ids(boxes) : id >= chain.first}
      meets(a, b) == a \in new /\ b \in island
  IN [id \in DOMAIN g |-> g[id] \cup {o \in DOMAIN g : meets(id, o) \/ meets(o, id)}]
ConnectToIsland(g, island) ==
  LET new == {id \in Ids(boxes) : id >= chain.first}
      meets(a, b) == a \in new /\ b \in island /\ Connected(Region(a), Region(b))
  IN [id \in DOMAIN g |-> g[id] \cup {o \in DOMAIN g : meets(id, o) \/ meets(o, id)}]

PaveDone ==
  /\ pc = "pave" /\ ~Paving
  /\ graph' = IF Added = 0 THEN graph
              ELSE ConnectToIsland(graph, CHOOSE I \in islands : chain.pair[2] \in I)
  /\ pc' = "settle"
  /\ UNCHANGED <<obs, boxes, edges, nextId, connector>>

\* The pair counts as bridged when its new boxes joined it, or when a segment
\* edge does, which is added only after a search that ended at the limit.
JoinBlocks ==
  LET A == BlockOf(chain.pair[1])
      B == BlockOf(chain.pair[2])
  IN (blocks \ {A, B}) \cup {A \cup B}
JoinedIfAny == Added > 0
Joined == Added > 0 /\ HasPath(graph, chain.pair[1], chain.pair[2])
SettlePair ==
  /\ pc = "settle"
  /\ LET joined == Joined
         segment == ~joined /\ RrtEdges /\ chain.cap
     IN /\ edges' = IF ~segment THEN edges
                    ELSE AppendSegmentEdge(edges, PlainEdge(chain.pair[1], chain.pair[2],
                                                            chain.pts, "RRTConnector"))
        /\ graph' = IF segment THEN AppendGraphEdge(graph, chain.pair[1], chain.pair[2])
                    ELSE graph
        /\ bridged' = bridged + Added
        /\ blocks' = IF joined \/ segment THEN JoinBlocks ELSE blocks
        /\ progress' = (progress \/ joined \/ segment)
  /\ chain' = NoChain
  /\ pc' = "commit"
  /\ UNCHANGED <<obs, boxes, nextId, cfg, islands, tasks, paths, capped, stall>>

EndRound ==
  /\ pc = "commit" /\ paths = <<>>
  /\ graph' = ApplySegmentEdges(edges, graph)
  /\ pc' = IF progress THEN "round" ELSE "gaps"
  /\ UNCHANGED <<obs, boxes, edges, nextId, connector>>
EndRounds ==
  /\ pc = "round"
  /\ Cardinality(FindIslands(graph)) <= 1 \/ ~RoundAllowed
  /\ pc' = "gaps"
  /\ UNCHANGED <<forest, connector>>

(***************************************************************************)
(* try_point_validated_gap_edge: the narrowest gap between the largest and *)
(* the smallest island that the straight line between centres crosses.     *)
(***************************************************************************)
GapPairs(I, J) ==
  {p \in I \X J : /\ Gap(Region(p[1]), Region(p[2])) <= cfg.gap
                  /\ ~SegmentHit(Center(Region(p[1])), Center(Region(p[2])), Resolution, obs)}
GapKey(p) == <<Gap(Region(p[1]), Region(p[2])), PairKey(p)[1]>>
GapIslands ==
  LET all == FindIslands(graph)
      size(I) == Cardinality(I)
  IN {<<I, J>> \in all \X all :
        I # J /\ \A K \in all : size(K) <= size(I) /\ size(J) <= size(K)}
GapFound(I, J) == GapPairs(I, J) # {} /\ cfg.gap > 0 /\ capped /\ ~cfg.fallbackOnly

GapEdge ==
  /\ pc = "gaps"
  /\ \E IJ \in GapIslands :
       /\ GapFound(IJ[1], IJ[2])
       /\ \E p \in GapPairs(IJ[1], IJ[2]) :
            /\ \A o \in GapPairs(IJ[1], IJ[2]) : ~LexLess(GapKey(o), GapKey(p))
            /\ edges' = IF ~cfg.gapEdges THEN edges
                        ELSE AppendSegmentEdge(edges,
                               PlainEdge(p[1], p[2], <<Center(Region(p[1])), Center(Region(p[2]))>>,
                                         "PointValidatedGap"))
            /\ graph' = AppendGraphEdge(graph, p[1], p[2])
  /\ UNCHANGED <<obs, boxes, nextId, pc, connector>>

\* The loop ends when the graph is one island or a pass finds no edge.
ConnectDone ==
  /\ pc = "gaps"
  /\ GapIslands = {} \/ \E IJ \in GapIslands : ~GapFound(IJ[1], IJ[2])
  /\ pc' = "connected"
  /\ UNCHANGED <<forest, connector>>

ConnectStep ==
  \/ FrontierBridge \/ EndFrontier
  \/ StartRound \/ AttemptPair \/ PairsDone \/ SkipBridged \/ StartChain
  \/ PaveStep \/ NextSegment \/ PaveDone \/ SettlePair \/ EndRound \/ EndRounds
  \/ GapEdge \/ ConnectDone
=============================================================================
