---------------------------- MODULE QueryBridges ----------------------------
(***************************************************************************)
(* The calls that extend the forest for one query or one endpoint          *)
(* (safe_box_forest.cpp, on the graph): bridge_query, which runs the query *)
(* and, if the answer is poor, grows boxes along an RRT path;              *)
(* refine_query_corridor; and the two calls that join an endpoint to the   *)
(* main island, by one segment or by a walk of boxes.                      *)
(*                                                                         *)
(* A call is a record [kind, cfg, start, goal, ...]; it ends in the phase  *)
(* "bridged".  Boxes along the path are laid by the connector's chain      *)
(* paving, and what bridge_query cannot close otherwise it leaves to the   *)
(* connector, run with no budget of boxes.  Options of the environment     *)
(* that are off by default are left out.                                   *)
(***************************************************************************)
EXTENDS IslandConnector, CorridorQuery

VARIABLES
  calls,   \* the calls still to come
  bridge,  \* the running call
  walk,    \* its local data: the samples of the path, or the walk
  cached   \* how much of the forest the query cache was built from

bridgeVars == <<calls, bridge, walk, cached>>

NoBridge == [stage |-> "none"]
NoWalk == <<>>
Call == bridge.call

(***************************************************************************)
(* The query cache indexes the boxes and the edges there were; a read      *)
(* rebuilds it if it is dirty (query_cache, invalidate_query_cache).       *)
(***************************************************************************)
Dirty == <<>>
Snapshot == <<Len(boxes), Len(edges)>>
Read == IF cached = Dirty THEN Snapshot ELSE cached
Located(p) == Locate(p, Call.cfg.nearest)

(***************************************************************************)
(* The forest as a value, for calls that change it more than once.         *)
(***************************************************************************)
Now == [boxes |-> boxes, graph |-> graph, next |-> nextId, edges |-> edges]
Becomes(f) ==
  boxes' = f.boxes /\ graph' = f.graph /\ nextId' = f.next /\ edges' = f.edges /\ UNCHANGED obs

At(f, id) == RegionOf(f.boxes, id)
Touching(f, a, b) == Connected(At(f, a), At(f, b))
Link(f, a, b) == [f EXCEPT !.graph = AppendGraphEdge(@, a, b)]

\* A found cell becomes a box if the policy allows it.
Allowed(r) == r # NoRegion /\ CommitAs(r) # {}
Put(f, r, root, near) ==
  [f EXCEPT !.boxes = Append(@, Box(f.next, r, root, TRUE \in CommitAs(r))),
            !.graph = (f.next :> near) @@
              [id \in DOMAIN @ |-> IF id \in near THEN f.graph[id] \cup {f.next} ELSE f.graph[id]],
            !.next = @ + 1]

\* add_segment_edge_partition_first without a partition: the edge, the graph
\* edge, and the cache is dirty.
AddEdge(f, a, b, pts, type, strict) ==
  [f EXCEPT !.edges = AppendSegmentEdge(@, [PlainEdge(a, b, pts, type) EXCEPT !.strict = strict]),
            !.graph = AppendGraphEdge(@, a, b)]
CorridorEdge(f, a, b, pts) == AddEdge(f, a, b, pts, "BoxCorridor", FALSE)
AuditedEdge(f, a, b, pts) == AddEdge(f, a, b, pts, "QueryBridge", TRUE)

\* graph_has_certified_box_path_local: over edges between boxes that touch.
BoxOnlyPath(f, a, b) ==
  NoId \notin {a, b}
    /\ HasPath([id \in DOMAIN f.graph |-> {o \in f.graph[id] : Touching(f, id, o)}], a, b)
GraphPath(f, a, b) == NoId \notin {a, b} /\ HasPath(f.graph, a, b)

Done(gain) == pc' = "bridged" /\ bridge' = [bridge EXCEPT !.gain = gain]
SegmentsAllowed == cfg.segments

(***************************************************************************)
(* anchor_query_endpoint_box: the first box around the point, the nearest  *)
(* one if that will do, else a new box there, with a short audited segment *)
(* to the closest box that has a neighbour.                                *)
(***************************************************************************)
Containing(p) == {i \in DOMAIN boxes : InBox(boxes[i].region, p)}
ShortLink(f, id, p) ==
  LET others == {o \in Ids(f.boxes) \ {id} : TRUE}
      linked == {o \in others : f.graph[o] # {}}
      from == IF linked # {} THEN linked ELSE others
      gap(o) == SquaredDist(Closest(At(f, o), p), p)
      best == {o \in from : \A x \in from : gap(o) < gap(x) \/ (gap(o) = gap(x) /\ o <= x)}
  IN IF best = {} THEN f
     ELSE LET o == CHOOSE o \in best : TRUE
              pts == <<p, Closest(At(f, o), p)>>
          IN IF gap(o) \in 1..Call.shortLink /\ Passes(pts) THEN AuditedEdge(f, id, o, pts) ELSE f
Anchor(p) ==
  LET found == FindFreeBox(p, Call.depth, cfg.certify)
      touch == {id \in Ids(boxes) : Connected(Region(id), found.region)}
  IN IF Containing(p) # {} THEN [forest |-> Now, id |-> boxes[Min(Containing(p))].id]
     ELSE IF Call.cfg.nearest THEN [forest |-> Now, id |-> Located(p)]
     ELSE IF ~Allowed(found.region) THEN [forest |-> Now, id |-> NoId]
     ELSE [forest |-> ShortLink(Put(Now, found.region, nextId, touch), nextId, p), id |-> nextId]

\* An endpoint is located, or else anchored.
EndBox(p) == IF Located(p) # NoId THEN [forest |-> Now, id |-> Located(p)] ELSE Anchor(p)
Anchored(end) == end.forest # Now

(***************************************************************************)
(* A call begins, with its own query if it has one, and ends.              *)
(***************************************************************************)
StartBridge ==
  /\ pc = "connected" /\ bridge = NoBridge /\ calls # <<>> /\ Head(calls).kind # "batch"
  /\ bridge' = [call |-> Head(calls), stage |-> Head(calls).kind, path |-> <<>>, from |-> NoId,
                to |-> NoId, added |-> 0, back |-> FALSE, gain |-> FALSE, budget |-> 0]
  /\ calls' = Tail(calls)
  /\ IF Head(calls).kind \in {"query", "refine"}
     THEN Begin(Head(calls).cfg, Head(calls).start, Head(calls).goal) /\ cached' = Read
     ELSE pc' = "endpoint" /\ UNCHANGED <<queryVars, cached>>
  /\ UNCHANGED <<forest, connector, walk>>

EndBridge ==
  /\ pc = "bridged" /\ Call.kind # "batch"
  /\ bridge' = NoBridge /\ walk' = NoWalk
  /\ pc' = "connected"
  /\ UNCHANGED <<forest, connector, queryVars, calls, cached>>

(***************************************************************************)
(* bridge_query: nothing to do for an unrepaired answer that used no       *)
(* segment edge and is short.                                              *)
(***************************************************************************)
SegmentsUsed(s) ==
  {i \in Hops(s) : HasSegmentEdge(edges, s[i], s[i + 1])
                     /\ CountsAsSegment(FindSegmentEdge(edges, s[i], s[i + 1]))}
GraphOnly == result.success /\ result.repairs = 0 /\ SegmentsUsed(result.boxes) = {}
ShortEnough == 100 * Length(result.path) <= 135 * Dist(query.start, query.goal)

ForgetQuery == query' = NoQuery /\ search' = NoSearch /\ result' = NoResult
JudgeAnswer ==
  /\ pc = "answered" /\ bridge.stage = "query"
  /\ IF GraphOnly /\ ShortEnough THEN Done(FALSE) ELSE pc' = "startBox" /\ UNCHANGED bridge
  /\ ForgetQuery
  /\ UNCHANGED <<forest, connector, calls, walk, cached>>

\* bridge_query_known_needed: the boxes of the ends, anchored if need be.
StartBox ==
  /\ pc = "startBox"
  /\ LET end == EndBox(Call.start)
     IN /\ Becomes(end.forest)
        /\ cached' = IF Anchored(end) THEN Dirty ELSE Read
        /\ IF end.id = NoId THEN Done(FALSE)
           ELSE bridge' = [bridge EXCEPT !.from = end.id] /\ pc' = "goalBox"
  /\ UNCHANGED <<connector, queryVars, calls, walk>>
GoalBox ==
  /\ pc = "goalBox"
  /\ LET end == EndBox(Call.goal)
     IN /\ Becomes(end.forest)
        /\ cached' = IF Anchored(end) THEN Dirty ELSE Read
        /\ IF end.id \in {NoId, bridge.from} THEN Done(FALSE)
           ELSE bridge' = [bridge EXCEPT !.to = end.id] /\ pc' = "bridgePath"
  /\ UNCHANGED <<connector, queryVars, calls, walk>>

\* chain_pave_along_path from one box along a path, up to max boxes.
Lay(from, to, pts, max) == chain' = Start(<<from, to>>, pts, max, Call.depth) /\ pc' = "lay"

\* best_audited_rrt_bridge_path: the shortest of some attempts that pass.
AuditedPaths(p, q) == {IF Passes(path) THEN path ELSE <<>> : path \in FineRrt(p, q)}

\* In segment mode a path becomes a segment edge and no box is laid along it;
\* it is cut short before, and gives way to a shorter RRT path.
SegmentMode == Call.direct /\ SegmentsAllowed
Tightened(path) ==
  LET short == CollisionShortcut(path)
      cut == IF Length(short) < Length(path) /\ Passes(short) THEN short ELSE path
      shorter == {p \in AuditedPaths(Call.start, Call.goal) : p # <<>> /\ Length(p) < Length(cut)}
  IN {cut} \cup IF Call.cfg.simplify THEN shorter ELSE {}

\* bridge_query_with_waypoint_path: the ends are located, again.
BridgeAlong(path) ==
  LET from == Located(Call.start)
      to == Located(Call.goal)
      dense == Length(path) <= Call.reach
      segment == SegmentMode /\ Length(path) >= Call.directMin
  IN /\ capped' = FALSE
     /\ \/ /\ NoId \in {from, to} \/ from = to
           /\ Done(FALSE) /\ cached' = Read
           /\ UNCHANGED <<forest, chain>>
        \/ /\ NoId \notin {from, to} /\ from # to /\ segment
           /\ \E cut \in Tightened(path) : Becomes(AuditedEdge(Now, from, to, cut))
           /\ Done(TRUE) /\ cached' = Dirty
           /\ UNCHANGED chain
        \/ /\ NoId \notin {from, to} /\ from # to /\ ~segment
           /\ bridge' = [bridge EXCEPT !.path = path, !.from = from, !.to = to, !.added = 0,
                           !.back = FALSE, !.stage = IF dense THEN "dense" ELSE "forward"]
           /\ IF dense THEN pc' = "mark" /\ UNCHANGED chain
              ELSE Lay(from, to, path, Call.maxChain)
           /\ cached' = Read
           /\ UNCHANGED forest
     /\ UNCHANGED <<cfg, islands, tasks, paths, blocks, bridged, progress, stall>>

\* The straight line in segment mode, else the best path, if there is one.
BridgePath ==
  /\ pc = "bridgePath"
  /\ LET line == <<Call.start, Call.goal>>
     IN IF SegmentMode /\ Passes(line)
        THEN /\ Becomes(AuditedEdge(Now, bridge.from, bridge.to, line))
             /\ Done(TRUE) /\ cached' = Dirty
             /\ UNCHANGED connector
        ELSE \E path \in AuditedPaths(Call.start, Call.goal) :
               IF path = <<>> THEN Done(FALSE) /\ UNCHANGED <<forest, connector, cached>>
               ELSE BridgeAlong(path)
  /\ UNCHANGED <<queryVars, calls, walk>>

(***************************************************************************)
(* try_direct_ffb_corridor: one free-box search at each sample of the path *)
(* no box covers, then between the samples whose boxes are not joined, at  *)
(* finer and finer points, then audited segments over what is left.  What  *)
(* is joined is kept in a union-find over the boxes.                       *)
(***************************************************************************)
\* densify_waypoint_path_local: points at most step apart along each hop.
Between(p, q, i, n) == [d \in Dim |-> p[d] + (i * (q[d] - p[d])) \div n]
Samples(path, step) ==
  LET parts(p, q) == Max({1, (Max({Abs(q[d] - p[d]) : d \in Dim}) + step - 1) \div step})
      hop(i) == [k \in 1..parts(path[i], path[i + 1]) |->
                   Between(path[i], path[i + 1], k, parts(path[i], path[i + 1]))]
  IN FoldLeft(LAMBDA s, i : AppendAll(s, hop(i)), <<path[1]>>, [i \in Hops(path) |-> i])

Merged(classes, ids) ==
  LET hit == {C \in classes : C \cap ids # {}}
  IN (classes \ hit) \cup {ids \cup UNION hit}
Unified(w, a, b) == \E C \in w.classes : {a, b} \subseteq C
Transitions(w) == 1..Len(w.samples) - 1
TransitionConnected(w, t) ==
  \E a \in ToSet(w.layers[t]), b \in ToSet(w.layers[t + 1]) : Unified(w, a, b)
Bad(w) == {t \in Transitions(w) : ~TransitionConnected(w, t)}
EndpointLayersConnected(w) ==
  w.layers[1] # <<>> /\ \E b \in ToSet(Last(w.layers)) : Unified(w, Head(w.layers[1]), b)

\* initialize_dsu: the boxes of one sample are one class; boxes of neighbouring
\* samples that touch are, and get a graph edge.
LayersNow(samples) ==
  [k \in DOMAIN samples |->
     LET at == SelectSeq(boxes, LAMBDA b : InBox(b.region, samples[k]))
     IN [i \in DOMAIN at |-> at[i].id]]
InitialPairs(layers) ==
  {ab \in UNION {ToSet(layers[k]) \X ToSet(layers[k + 1]) : k \in Hops(layers)} :
     ab[1] # ab[2] /\ Connected(Region(ab[1]), Region(ab[2]))}
Unite(classes, groups) == FoldSet(LAMBDA g, c : IF g = {} THEN c ELSE Merged(c, g), classes, groups)
Task(seed, hint, sample) == [seed |-> seed, hint |-> hint, sample |-> sample]
SampleTasks(samples, layers) ==
  LET open == SelectSeq([k \in DOMAIN samples |-> k], LAMBDA k : layers[k] = <<>>)
  IN [i \in DOMAIN open |-> Task(samples[open[i]], Min({open[i], Len(samples) - 1}), open[i])]

Mark ==
  /\ pc = "mark"
  /\ LET samples == Samples(bridge.path, Call.step)
         layers == LayersNow(samples)
         pairs == InitialPairs(layers)
     IN IF Len(samples) < 2
        THEN Lay(bridge.from, bridge.to, bridge.path, Call.maxChain) /\ UNCHANGED <<graph, walk>>
        ELSE /\ walk' = [samples |-> samples, layers |-> layers, repaired |-> {}, segments |-> 0, bad |-> {},
                         classes |-> Unite({{id} : id \in Ids(boxes)},
                                           {ToSet(layers[k]) : k \in DOMAIN layers}
                                             \cup {{ab[1], ab[2]} : ab \in pairs}),
                         tasks |-> SampleTasks(samples, layers), round |-> "samples"]
             /\ graph' = [id \in DOMAIN graph |->
                            graph[id] \cup {o \in DOMAIN graph : {<<id, o>>, <<o, id>>} \cap pairs # {}}]
             /\ pc' = "direct"
             /\ UNCHANGED chain
  /\ UNCHANGED <<obs, boxes, edges, nextId, cfg, islands, tasks, paths, blocks, bridged, capped,
                 progress, stall, queryVars, calls, bridge, cached>>

\* assimilate_box: the box joins the layers of the run of samples it covers
\* around the transition, or of all it covers; it is united with the first box
\* of each, and with the boxes nearby that it touches, which get an edge.
CoveredAndNext(w, r, hint) ==
  {k \in DOMAIN w.samples : \E j \in {k - 1, k} \cap DOMAIN w.samples : InBox(r, w.samples[j])}
CoveredRun(w, r, hint) ==
  LET inside == {k \in DOMAIN w.samples : InBox(r, w.samples[k])}
      near == SelectSeq(<<hint, hint + 1, hint - 1, hint + 2, hint - 2>>, LAMBDA k : k \in inside)
      run(k) == {j \in inside : Min({j, k})..Max({j, k}) \subseteq inside}
  IN IF near = <<>> THEN inside ELSE run(Head(near))
Assimilated(f, w, id, hint) ==
  LET run == CoveredRun(w, At(f, id), hint)
      layers == [k \in DOMAIN w.layers |-> IF k \in run /\ id \notin ToSet(w.layers[k])
                                           THEN Append(w.layers[k], id) ELSE w.layers[k]]
      heads == {Head(w.layers[k]) : k \in {j \in run : w.layers[j] # <<>>}}
      around == hint - 1..hint + 2 \cup
                (IF run = {} THEN {}
                 ELSE Min(run) - 1..Min(run) + 1 \cup Max(run) - 1..Max(run) + 1)
      near == UNION {ToSet(layers[k]) : k \in around \cap DOMAIN layers} \cup w.repaired
      touching == {o \in near \ {id} : Touching(f, id, o)}
  IN [forest |-> [f EXCEPT !.graph =
                    [o \in DOMAIN @ |-> IF o = id THEN f.graph[o] \cup touching
                                        ELSE IF o \in touching THEN f.graph[o] \cup {id}
                                        ELSE f.graph[o]]],
      walk |-> [w EXCEPT !.layers = layers, !.classes = Merged(@, {id} \cup heads \cup touching)],
      id |-> id]

\* commit_result: the box that already is the cell, or a new box with no edge.
CommitResult(r, hint) ==
  LET same == {i \in DOMAIN boxes : boxes[i].region = r}
  IN IF r = NoRegion THEN [forest |-> Now, walk |-> walk, id |-> NoId]
     ELSE IF same # {} THEN Assimilated(Now, walk, boxes[Min(same)].id, hint)
     ELSE IF ~Allowed(r) THEN [forest |-> Now, walk |-> walk, id |-> NoId]
     ELSE Assimilated(Put(Now, r, nextId, {}), walk, nextId, hint)

\* One task: skipped if a box meanwhile covers the sample, or the seed, or
\* joins the transition.
Needless(t) ==
  IF walk.round = "samples" THEN walk.layers[t.sample] # <<>>
  ELSE TransitionConnected(walk, t.hint) \/ Containing(t.seed) # {}
DirectTask ==
  /\ pc = "direct" /\ walk.tasks # <<>>
  /\ LET t == Head(walk.tasks)
         c == CommitResult(FindFreeBox(t.seed, Call.depth, cfg.certify).region, t.hint)
         repaired == IF walk.round = "samples" \/ c.id = NoId THEN {} ELSE {c.id}
     IN IF Needless(t)
        THEN walk' = [walk EXCEPT !.tasks = Tail(@)] /\ UNCHANGED forest
        ELSE /\ Becomes(c.forest)
             /\ walk' = [c.walk EXCEPT !.tasks = Tail(@), !.repaired = @ \cup repaired]
  /\ UNCHANGED <<pc, connector, queryVars, calls, bridge, cached>>

\* The elements of a set by their keys.
Ordered(S, Rank(_)) ==
  LET least(T) == CHOOSE x \in T : \A y \in T : ~LexLess(Rank(y), Rank(x))
      sorted[n \in 0..Cardinality(S)] ==
        IF n = 0 THEN <<>> ELSE Append(sorted[n - 1], least(S \ ToSet(sorted[n - 1])))
  IN sorted[Cardinality(S)]

\* The inner points of a transition, those in its middle first.
Fractions(w, t, n) ==
  LET late(i) == Abs(2 * i - n)
      order == Ordered(1..n - 1, LAMBDA i : <<late(i), i>>)
  IN [k \in DOMAIN order |-> Task(Between(w.samples[t], w.samples[t + 1], order[k], n), t, 0)]
RepairTasks(w, order, n) == FlattenSeq([k \in DOMAIN order |-> Fractions(w, order[k], n)])

\* order_adaptive_repair_transitions: the longest group first, from its centre.
Group(bad, t) == {u \in bad : Min({t, u})..Max({t, u}) \subseteq bad}
GroupLength(w, G) == FoldSet(LAMBDA t, n : n + Dist(w.samples[t], w.samples[t + 1]), 0, G)
AdaptiveOrder(w) ==
  LET key(t) == LET G == Group(Bad(w), t)
                    mid == (Min(G) + Max(G)) \div 2
                IN <<-GroupLength(w, G), Min(G), Abs(t - mid), t>>
  IN Ordered(Bad(w), key)
InOrder(S) == Ordered(S, LAMBDA t : <<t>>)

NextRound ==
  /\ pc = "direct" /\ walk.tasks = <<>>
  /\ \/ /\ walk.round = "samples"
        /\ walk' = [walk EXCEPT !.round = "repair",
                      !.tasks = RepairTasks(walk, InOrder(Bad(walk)), Call.parts)]
        /\ UNCHANGED pc
     \/ /\ walk.round = "repair"
        /\ walk' = [walk EXCEPT !.round = "adaptive",
                      !.tasks = RepairTasks(walk, AdaptiveOrder(walk), 2 * Call.parts)]
        /\ UNCHANGED pc
     \/ /\ walk.round = "adaptive"
        /\ walk' = [walk EXCEPT !.round = "segments", !.bad = Bad(walk),
                      !.tasks = IF SegmentsAllowed THEN InOrder(Bad(walk)) ELSE <<>>]
        /\ pc' = "residual"
  /\ UNCHANGED <<forest, connector, queryVars, calls, bridge, cached>>

\* insert_residual_segment: from the nearest covered sample before a bad
\* transition to the nearest behind it.
ResidualSegment ==
  /\ pc = "residual" /\ walk.tasks # <<>>
  /\ LET t == Head(walk.tasks)
         left == {k \in 1..t : walk.layers[k] # <<>>}
         right == {k \in t + 1..Len(walk.samples) : walk.layers[k] # <<>>}
         a == Head(walk.layers[Max(left)])
         b == Head(walk.layers[Min(right)])
         pts == <<walk.samples[Max(left)], walk.samples[Min(right)]>>
     IN IF {} \in {left, right} \/ Unified(walk, a, b) \/ ~Passes(pts)
        THEN walk' = [walk EXCEPT !.tasks = Tail(@)] /\ UNCHANGED <<forest, cached>>
        ELSE /\ Becomes(AuditedEdge(Now, a, b, pts))
             /\ walk' = [walk EXCEPT !.tasks = Tail(@), !.segments = @ + 1,
                                     !.classes = Merged(@, {a, b})]
             /\ cached' = Dirty
  /\ UNCHANGED <<pc, connector, queryVars, calls, bridge>>

\* locate_query_boxes: the first box around each end, else as a query does.
QueryBoxes ==
  LET first(p) == IF Containing(p) = {} THEN NoId ELSE boxes[Min(Containing(p))].id
      both == <<first(Call.start), first(Call.goal)>>
  IN IF NoId \in ToSet(both) /\ Call.cfg.nearest
     THEN <<Located(Call.start), Located(Call.goal)>> ELSE both
ReadForBoxes ==
  IF Call.cfg.nearest /\ {} \in {Containing(Call.start), Containing(Call.goal)}
  THEN Snapshot ELSE cached

\* The corridor is closed by boxes, or by segments, or not at all: then the
\* path is paved.  What was bad is as it was before the segments.
DirectEnd ==
  /\ pc = "residual" /\ walk.tasks = <<>>
  /\ LET a == QueryBoxes[1]
         b == QueryBoxes[2]
         closed == walk.bad = {} /\ NoId \notin {a, b}
                     /\ (EndpointLayersConnected(walk) \/ BoxOnlyPath(Now, a, b))
         open == walk.bad # {} /\ walk.segments > 0 /\ NoId \notin {a, b}
     IN \/ /\ closed
           /\ Becomes(CorridorEdge(Now, a, b, bridge.path))
           /\ cached' = Dirty /\ Done(TRUE)
           /\ UNCHANGED chain
        \/ /\ open
           /\ Becomes(IF GraphPath(Now, a, b) \/ ~Passes(bridge.path) THEN Now
                      ELSE AuditedEdge(Now, a, b, bridge.path))
           /\ cached' = Dirty /\ Done(TRUE)
           /\ UNCHANGED chain
        \/ /\ ~closed /\ ~open
           /\ cached' = ReadForBoxes
           /\ Lay(bridge.from, bridge.to, bridge.path, Call.maxChain)
           /\ UNCHANGED <<forest, bridge>>
  /\ walk' = NoWalk
  /\ UNCHANGED <<cfg, islands, tasks, paths, blocks, bridged, capped, progress, stall,
                 queryVars, calls>>

(***************************************************************************)
(* Paving the path: forward from the start's box and, if that does not     *)
(* join the ends, back from the goal's (try_reverse_boundary_pave), first  *)
(* densely, then again with the connector's budget; what joined the ends   *)
(* by boxes becomes a corridor edge.                                       *)
(***************************************************************************)
Laid == Added
Room == chain.max - Laid
CacheAfterLaying == IF Laid > 0 THEN Dirty ELSE ReadForBoxes

TurnBack ==
  /\ pc = "lay" /\ ~Paving /\ bridge.stage \in {"dense", "forward"}
  /\ ~bridge.back /\ ~BoxOnlyPath(Now, QueryBoxes[1], QueryBoxes[2])
  /\ QueryBoxes[2] # NoId /\ Room > 0
  /\ Lay(QueryBoxes[2], QueryBoxes[1], Reverse(bridge.path), Room)
  /\ bridge' = [bridge EXCEPT !.back = TRUE, !.added = @ + Laid]
  /\ cached' = CacheAfterLaying
  /\ UNCHANGED <<forest, cfg, islands, tasks, paths, blocks, bridged, capped, progress, stall,
                 queryVars, calls, walk>>

\* The dense pass gives way to the second one, that to the connector; only the
\* second one must have added a box.
PaveJudged ==
  /\ pc = "lay" /\ ~Paving /\ bridge.stage \in {"dense", "forward"}
  /\ \/ bridge.back \/ BoxOnlyPath(Now, QueryBoxes[1], QueryBoxes[2])
     \/ QueryBoxes[2] = NoId \/ Room <= 0
  /\ LET a == QueryBoxes[1]
         b == QueryBoxes[2]
         total == bridge.added + Laid
         dense == bridge.stage = "dense"
     IN IF BoxOnlyPath(Now, a, b) /\ (dense \/ total > 0)
        THEN /\ Becomes(CorridorEdge(Now, a, b, bridge.path))
             /\ cached' = Dirty /\ Done(TRUE) /\ chain' = NoChain
        ELSE /\ cached' = CacheAfterLaying
             /\ UNCHANGED forest
             /\ IF dense
                THEN /\ Lay(bridge.from, bridge.to, bridge.path, Call.maxChain)
                     /\ bridge' = [bridge EXCEPT !.stage = "forward", !.back = FALSE, !.added = 0]
                ELSE /\ pc' = "handover" /\ chain' = NoChain
                     /\ bridge' = [bridge EXCEPT !.added = total]
  /\ UNCHANGED <<cfg, islands, tasks, paths, blocks, bridged, capped, progress, stall,
                 queryVars, calls, walk>>

\* connect_all with no budget of boxes.
Handover ==
  /\ pc = "handover"
  /\ cfg' = [cfg EXCEPT !.maxBridge = 0]
  /\ bridge' = [bridge EXCEPT !.stage = "gap", !.budget = cfg.maxBridge]
  /\ bridged' = 0 /\ progress' = FALSE /\ stall' = <<>>
  /\ pc' = "frontier"
  /\ UNCHANGED <<forest, islands, tasks, paths, blocks, chain, capped, queryVars, calls, walk, cached>>
Takeover ==
  /\ pc = "connected" /\ bridge.stage = "gap"
  /\ cfg' = [cfg EXCEPT !.maxBridge = bridge.budget]
  /\ bridge' = [bridge EXCEPT !.stage = "close"]
  /\ cached' = Dirty
  /\ pc' = "close"
  /\ UNCHANGED <<forest, islands, tasks, paths, blocks, chain, bridged, capped, progress, stall,
                 queryVars, calls, walk>>

\* Last, the audited path becomes a segment edge, but only if a search of this
\* call ended at the depth limit.
Close ==
  /\ pc = "close"
  /\ LET a == Located(Call.start)
         b == Located(Call.goal)
         joined == bridge.added > 0 /\ BoxOnlyPath(Now, a, b)
         segment == SegmentsAllowed /\ capped /\ NoId \notin {a, b} /\ Passes(bridge.path)
     IN /\ Becomes(IF joined THEN CorridorEdge(Now, a, b, bridge.path)
                   ELSE IF segment THEN AuditedEdge(Now, a, b, bridge.path) ELSE Now)
        /\ cached' = IF joined \/ segment THEN Dirty ELSE Read
        /\ Done(joined \/ segment)
  /\ UNCHANGED <<connector, queryVars, calls, walk>>

(***************************************************************************)
(* refine_query_corridor: boxes along the path of the answer, or along an  *)
(* RRT path if the answer was none, from the box of its start on.  An      *)
(* answer over boxes alone is left alone unless long paths are refined.    *)
(***************************************************************************)
Accepted == result.success /\ result.passed
LongPath == 100 * Length(result.path) >= Call.ratio * Dist(query.start, query.goal)
RefinePaths ==
  LET fresh == {path \in FineRrt(query.start, query.goal) : path # <<>> /\ Passes(path)}
  IN IF Accepted /\ ~Call.boxOnly THEN {result.path}
     ELSE IF Accepted THEN fresh \cup {result.path}
     ELSE IF fresh = {} THEN {<<>>} ELSE fresh \cup {<<>>}
LeftAlone == Accepted /\ IF Call.boxOnly THEN ~LongPath ELSE GraphOnly

Refine ==
  /\ pc = "answered" /\ bridge.stage = "refine"
  /\ \E path \in IF LeftAlone THEN {<<>>} ELSE RefinePaths :
       LET from == IF path = <<>> THEN NoId ELSE Located(Head(path))
       IN IF from = NoId THEN Done(FALSE) /\ UNCHANGED chain
          ELSE /\ bridge' = [bridge EXCEPT !.path = path, !.stage = "refined"]
               /\ Lay(from, from, path, Call.maxChain)
  /\ ForgetQuery
  /\ cached' = Read
  /\ UNCHANGED <<forest, cfg, islands, tasks, paths, blocks, bridged, capped, progress, stall,
                 calls, walk>>
Refined ==
  /\ pc = "lay" /\ ~Paving /\ bridge.stage = "refined"
  /\ LET a == Located(Call.start)
         b == Located(Call.goal)
         segment == Laid > 0 /\ ~Call.boxOnly /\ SegmentsAllowed /\ Passes(bridge.path)
                      /\ NoId \notin {a, b}
     IN /\ Becomes(IF segment THEN AddEdge(Now, a, b, bridge.path, "QueryBridge", FALSE) ELSE Now)
        /\ Done(segment)
  /\ chain' = NoChain
  /\ cached' = IF Laid > 0 THEN Dirty ELSE cached
  /\ UNCHANGED <<cfg, islands, tasks, paths, blocks, bridged, capped, progress, stall,
                 queryVars, calls, walk>>

(***************************************************************************)
(* Joining an endpoint to the main island, a largest one.                  *)
(***************************************************************************)
MainIslands(g) ==
  LET all == FindIslands(g)
  IN {I \in all : \A J \in all : Cardinality(J) <= Cardinality(I)}
NearestIn(I, p) ==
  {id \in I : \A o \in I : SquaredDist(Closest(Region(id), p), p) <= SquaredDist(Closest(Region(o), p), p)}

\* connect_query_endpoint_to_main_island: one audited segment, to the nearest
\* point of the island, if it is short; the endpoint is anchored only then.
LinkEndpoint ==
  /\ pc = "endpoint" /\ bridge.stage = "link"
  /\ \E main \in MainIslands(graph) : \E id \in NearestIn(main, Call.start) :
       LET p == Call.start
           target == Closest(Region(id), p)
           far == SquaredDist(target, p)
           end == EndBox(p)
           link == end.id # NoId /\ Passes(<<p, target>>)
       IN IF Located(p) \in main \/ far \notin 1..Call.reach
          THEN Done(FALSE) /\ cached' = Read /\ UNCHANGED forest
          ELSE /\ Becomes(IF link THEN AuditedEdge(end.forest, end.id, id, <<p, target>>)
                          ELSE end.forest)
               /\ cached' = IF link \/ Anchored(end) THEN Dirty ELSE Read
               /\ pc' = "bridged"
               /\ bridge' = [bridge EXCEPT !.gain = link, !.from = end.id, !.to = id]
  /\ UNCHANGED <<connector, queryVars, calls, walk>>

\* connect_query_endpoint_to_main_box_corridor: the endpoint's box first.
WalkBegins ==
  /\ pc = "endpoint" /\ bridge.stage = "walk"
  /\ LET end == EndBox(Call.start)
     IN /\ Becomes(end.forest)
        /\ cached' = IF Anchored(end) THEN Dirty ELSE Read
        /\ IF end.id = NoId THEN Done(FALSE)
           ELSE bridge' = [bridge EXCEPT !.from = end.id] /\ pc' = "targets"
  /\ UNCHANGED <<connector, queryVars, calls, walk>>

\* The nearest boxes of the island, each with its closest point, or with its
\* centre if the endpoint lies on it.
TargetPoint(id, p) ==
  IF Closest(Region(id), p) = p THEN Center(Region(id)) ELSE Closest(Region(id), p)
Targets(main, p) ==
  LET sorted == Ordered(main, LAMBDA id : <<SquaredDist(TargetPoint(id, p), p), id>>)
  IN SubSeq(sorted, 1, Min({Len(sorted), Call.targets}))
ChooseTargets ==
  /\ pc = "targets"
  /\ \E main \in MainIslands(graph) :
       IF bridge.from \in main THEN Done(FALSE) /\ UNCHANGED walk
       ELSE /\ walk' = [main |-> main, targets |-> Targets(main, Call.start), next |-> 1,
                        failed |-> FALSE, searches |-> 0, new |-> 0, samples |-> <<>>, stop |-> 0,
                        owner |-> NoId, goal |-> <<>>, cur |-> NoId, chain |-> <<>>, at |-> 0,
                        stall |-> 0, near |-> {}, seeds |-> <<>>]
            /\ pc' = "target" /\ UNCHANGED bridge
  /\ UNCHANGED <<forest, connector, queryVars, calls, cached>>

\* make_seed_from_face: just behind the face the segment leaves the box by, or
\* behind its end; kept in the domain.
Step(delta) == IF delta > 0 THEN 1 ELSE IF delta < 0 THEN -1 ELSE 0
InDomain(p) == [d \in Dim |-> Clamp(p[d], Domain[d][1], Domain[d][2])]
FaceExit(r, from, to) ==
  LET delta(d) == to[d] - from[d]
      face(d) == IF delta(d) > 0 THEN r[d][2] ELSE r[d][1]
      room(d) == Abs(face(d) - from[d])
      leaving == {d \in Dim : room(d) > 0 /\ (face(d) - from[d]) * delta(d) > 0 /\ room(d) < Abs(delta(d))}
      exits == {d \in leaving : \A e \in leaving : room(d) * Abs(delta(e)) <= room(e) * Abs(delta(d))}
      x == CHOOSE d \in exits : TRUE
  IN InDomain([d \in Dim |->
       IF exits = {} THEN to[d] + Step(delta(d))
       ELSE IF d \in exits THEN face(d) + Step(delta(d))
       ELSE from[d] + (delta(d) * room(x)) \div Abs(delta(x))])

\* lateral_seeds: beside the seed, across the axes it moves least along first.
LateralSeeds(seed, to) ==
  LET across == IF Abs(to[1] - seed[1]) <= Abs(to[2] - seed[2]) THEN <<1, 2>> ELSE <<2, 1>>
      beside(d) == [i \in 1..2 |-> InDomain([seed EXCEPT ![d] = @ + (IF i = 1 THEN 1 ELSE -1)])]
  IN FlattenSeq([i \in 1..Min({2, Call.lateral}) |-> beside(across[i])])

\* The next target: up to the first sample in a box of the island.
Spent == walk.searches >= Call.maxSearches \/ walk.new >= Call.maxBoxes
Owners(p) == {id \in walk.main : InBox(Region(id), p)}
Furthest(w, id) ==
  Max({w.at} \cup {k \in w.at..w.stop : InBox(Region(id), w.samples[k])})
NextTarget ==
  /\ pc = "target"
  /\ IF walk.next > Len(walk.targets) \/ Spent
     THEN Done(FALSE) /\ cached' = Dirty /\ UNCHANGED walk
     ELSE LET goal == TargetPoint(walk.targets[walk.next], Call.start)
              coarse == Samples(<<Call.start, goal>>, Call.step)
              owned == {k \in 2..Len(coarse) : Owners(coarse[k]) # {}}
              stop == IF owned = {} THEN Len(coarse) ELSE Min(owned)
              fine == Samples(<<Call.start, coarse[stop]>>, Call.fine)
              samples == IF stop > 2 THEN fine ELSE coarse
              on == [walk EXCEPT !.next = @ + 1]
          IN /\ \E owner \in IF owned = {} THEN {walk.targets[walk.next]} ELSE Owners(coarse[stop]) :
                  LET w == [on EXCEPT !.owner = owner, !.samples = samples, !.cur = bridge.from,
                              !.chain = <<bridge.from>>, !.at = 1, !.stall = 0, !.goal = goal,
                              !.stop = IF stop > 2 THEN Len(samples) ELSE stop]
                  IN IF Len(coarse) < 2 THEN walk' = on /\ UNCHANGED pc
                     ELSE walk' = [w EXCEPT !.at = Furthest(w, bridge.from)] /\ pc' = "step"
             /\ UNCHANGED <<bridge, cached>>
  /\ UNCHANGED <<forest, connector, queryVars, calls>>

\* attempt_seed: the box there, if it touches the front, or one found there; it
\* gets an edge to the front, the chain, the owner and the targets it touches.
Smallest(p) ==
  LET least == {i \in Containing(p) : \A j \in Containing(p) :
                  Volume(boxes[i].region) <= Volume(boxes[j].region)}
  IN IF least = {} THEN NoId ELSE boxes[Min(least)].id
Attempt(seed, near) ==
  LET cover == Smallest(seed)
      cell == FindFreeBox(seed, Call.depth, cfg.certify).region
      front == BoxOf(boxes, walk.cur)
      touched(ids) == {o \in ids : Connected(Region(o), cell)}
  IN IF cover # NoId /\ Touching(Now, walk.cur, cover)
     THEN [forest |-> Link(Now, walk.cur, cover), id |-> cover, main |-> cover \in walk.main,
           walk |-> walk]
     ELSE IF Allowed(cell) /\ Connected(front.region, cell)
     THEN [forest |-> Put(Now, cell, front.root, {walk.cur} \cup touched(near \cup ToSet(walk.targets))),
           id |-> nextId, main |-> touched(ToSet(walk.targets)) # {},
           walk |-> [walk EXCEPT !.searches = @ + 1, !.new = @ + 1]]
     ELSE [forest |-> Now, id |-> NoId, main |-> FALSE,
           walk |-> [walk EXCEPT !.searches = @ + 1, !.failed = TRUE]]

\* try_residual_segment: a short audited segment from the front to the owner,
\* once a search at the depth limit has failed.
LeavePoint == Closest(Region(walk.cur), walk.goal)
Landing == Closest(Region(walk.owner), LeavePoint)
Residual ==
  walk.failed /\ SquaredDist(LeavePoint, Landing) <= Call.residual /\ Passes(<<LeavePoint, Landing>>)

ArriveUnnoticed(f) == Becomes(f) /\ Done(TRUE) /\ walk' = NoWalk /\ UNCHANGED cached
Arrive(f) == Becomes(f) /\ cached' = Dirty /\ Done(TRUE) /\ walk' = NoWalk
Stay == UNCHANGED <<bridge, cached>>
WalkFrame == UNCHANGED <<connector, queryVars, calls>>

\* The front moves to the box reached; Left is what the loop does without gain.
Moved(a) ==
  LET at == IF a.id = NoId THEN walk.at ELSE
              Max({walk.at} \cup {k \in walk.at..walk.stop : InBox(At(a.forest, a.id), walk.samples[k])})
      on == IF a.id = NoId THEN a.walk
            ELSE [a.walk EXCEPT !.cur = a.id, !.chain = Append(@, a.id), !.at = at]
  IN IF at > walk.at THEN [on EXCEPT !.stall = 0] ELSE on
Gained(a) == Moved(a).at > walk.at

WalkStep ==
  /\ pc = "step" /\ walk.at < walk.stop /\ ~Spent
  /\ IF walk.cur = walk.owner \/ Touching(Now, walk.cur, walk.owner)
     THEN Arrive(Link(Now, walk.cur, walk.owner))
     ELSE LET from == Closest(Region(walk.cur), walk.samples[walk.at])
              to == walk.samples[walk.stop]
              seed == FaceExit(Region(walk.cur), from, to)
              near == ToSet(walk.chain) \cup {walk.owner}
              a == Attempt(seed, near)
              idle == [Moved(a) EXCEPT !.stall = @ + 1, !.near = near, !.seeds = LateralSeeds(seed, to)]
          IN IF a.main THEN Arrive(a.forest)
             ELSE /\ Becomes(a.forest)
                  /\ walk' = IF Gained(a) THEN Moved(a) ELSE idle
                  /\ pc' = IF Gained(a) THEN "step"
                           ELSE IF idle.stall <= Call.lateral THEN "lateral" ELSE "stuck"
                  /\ Stay
  /\ WalkFrame

Lateral ==
  /\ pc = "lateral" /\ walk.seeds # <<>> /\ ~Spent
  /\ LET a == Attempt(Head(walk.seeds), walk.near)
     IN IF a.main THEN Arrive(a.forest)
        ELSE /\ Becomes(a.forest)
             /\ walk' = [Moved(a) EXCEPT !.seeds = Tail(walk.seeds)]
             /\ pc' = IF Gained(a) THEN "step" ELSE "lateral"
             /\ Stay
  /\ WalkFrame

\* The loop is left without gain, by its residual segment if there is one, or
\* by its condition; then the owner may be reached after all.
Stuck ==
  /\ \/ pc = "stuck"
     \/ pc = "lateral" /\ (walk.seeds = <<>> \/ Spent)
  /\ IF Residual THEN Arrive(AuditedEdge(Now, walk.cur, walk.owner, <<LeavePoint, Landing>>))
     ELSE pc' = "leave" /\ UNCHANGED <<forest, walk>> /\ Stay
  /\ WalkFrame
Leave ==
  /\ \/ pc = "leave"
     \/ pc = "step" /\ (walk.at >= walk.stop \/ Spent)
  /\ IF walk.cur = walk.owner \/ Touching(Now, walk.cur, walk.owner)
     THEN Arrive(Link(Now, walk.cur, walk.owner))
     ELSE IF BoxOnlyPath(Now, walk.cur, walk.owner) THEN Arrive(Now)
     ELSE IF Residual THEN Arrive(AuditedEdge(Now, walk.cur, walk.owner, <<LeavePoint, Landing>>))
     ELSE pc' = "target" /\ UNCHANGED <<forest, walk>> /\ Stay
  /\ WalkFrame

BridgeStep ==
  \/ StartBridge \/ EndBridge \/ JudgeAnswer \/ StartBox \/ GoalBox \/ BridgePath
  \/ Mark \/ DirectTask \/ NextRound \/ ResidualSegment \/ DirectEnd
  \/ TurnBack \/ PaveJudged \/ Handover \/ Takeover \/ Close
  \/ Refine \/ Refined \/ LinkEndpoint
  \/ WalkBegins \/ ChooseTargets \/ NextTarget \/ WalkStep \/ Lateral \/ Stuck \/ Leave
=============================================================================
