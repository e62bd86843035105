------------------------------ MODULE Planning ------------------------------
(***************************************************************************)
(* The planning forest from its grown boxes to its answers: the islands    *)
(* are connected, then queries run on the result.  Some scenes begin with  *)
(* the calls that bridge single queries instead.                           *)
(***************************************************************************)
EXTENDS QueryBatch

CONSTANT Scenes   \* obstacles, the regions the grower left, configurations and calls

vars == <<forest, pc, connector, queryVars, bridgeVars, batch>>

\* build_coverage hands the grown boxes and their rebuilt adjacency over.
Init ==
  /\ \E s \in Scenes :
       /\ obs = s.obs
       /\ boxes = [i \in DOMAIN s.regions |-> Box(i - 1, s.regions[i], i - 1, TRUE)]
       /\ nextId = Len(s.regions)
       /\ cfg \in s.configs
       /\ calls \in s.calls
  /\ graph = ComputeAdjacency(boxes)
  /\ edges = <<>>
  /\ islands = {} /\ tasks = <<>> /\ paths = <<>> /\ blocks = {} /\ chain = NoChain
  /\ bridged = 0 /\ capped = FALSE /\ progress = FALSE /\ stall = <<>>
  /\ query = NoQuery /\ search = NoSearch /\ result = NoResult
  /\ bridge = NoBridge /\ walk = NoWalk /\ cached = Dirty /\ batch = NoBatch
  /\ pc = IF calls # <<>> \/ Cardinality(FindIslands(graph)) <= 1 THEN "connected" ELSE "frontier"

\* A query on the forest, when no call runs; which ones are asked is part of
\* the configuration.
Ask ==
  /\ pc = "connected" /\ calls = <<>> /\ bridge = NoBridge
  /\ \E q \in cfg.asks : Begin(q.cfg, q.start, q.goal)
  /\ cached' = Read
  /\ UNCHANGED <<forest, connector, calls, bridge, walk, batch>>

Next ==
  \/ ConnectStep /\ UNCHANGED <<queryVars, bridgeVars, batch>>
  \/ Ask
  \/ QueryStep /\ UNCHANGED <<connector, bridgeVars, batch>>
  \/ bridge = NoBridge /\ Answer /\ UNCHANGED <<connector, bridgeVars, batch>>
  \/ BridgeStep /\ UNCHANGED batch
  \/ BatchStep
Spec == Init /\ [][Next]_vars

\* A call runs to its end, and the next one follows.
FairSpec == Spec /\ ([]<>(pc = "connected" /\ bridge = NoBridge) \/ []<><<TRUE>>_vars)

-----------------------------------------------------------------------------
Answered == pc = "answered"
Phases == {"frontier", "round", "pairs", "commit", "pave", "settle", "gaps", "connected", "same",
           "search", "walk", "extract", "collision", "repair", "audit", "simplify", "answered",
           "startBox", "goalBox", "bridgePath", "mark", "direct", "residual", "lay", "handover",
           "close", "endpoint", "targets", "target", "step", "lateral", "stuck", "leave", "bridged",
           "assess", "anchorStart", "anchorGoal", "tasks", "span", "along"}

\* The graph is symmetric and loop-free over the ids in use, which are unique.
TypeOK ==
  /\ pc \in Phases
  /\ DOMAIN graph = Ids(boxes) /\ Cardinality(Ids(boxes)) = Len(boxes)
  /\ Ids(boxes) \subseteq 0..nextId - 1
  /\ \A a \in DOMAIN graph : a \notin graph[a] /\ \A b \in graph[a] : a \in graph[b]

\* A box the connector committed as certified holds no obstacle, whichever
\* policy let it in (allow_connector_box_commit).
CertifiedBoxesFree ==
  \A i \in DOMAIN boxes : boxes[i].certified => FreeRegion(boxes[i].region, obs)

\* Nothing but touching boxes, a segment edge or a checked line between the
\* centres ever makes two boxes neighbours: the incremental edges the paving,
\* the frontier and the island step add are all ones a robot can follow.
EdgesJustified ==
  \A a \in DOMAIN graph : \A b \in graph[a] :
    \/ Connected(Region(a), Region(b))
    \/ HasSegmentEdge(edges, a, b)
    \/ ~SegmentHit(Center(Region(a)), Center(Region(b)), Resolution, obs)

\* A segment edge runs from a point of its first box to a point of its second,
\* over hops that passed the segment check; its id is its own.
SegmentEdgesClear ==
  \A i \in DOMAIN edges :
    /\ InBox(Region(edges[i].from), Head(edges[i].pts))
    /\ InBox(Region(edges[i].to), Last(edges[i].pts))
    /\ PathClear(edges[i].pts, Resolution, obs)
    /\ edges[i].to \in graph[edges[i].from] \ {edges[i].from}
         \/ edges[i].to = edges[i].from \/ pc \in {"commit", "settle", "pave"}
    /\ \A j \in DOMAIN edges : edges[j].id = edges[i].id => i = j

\* The union-find of a round never runs ahead of the graph: a pair skipped as
\* already bridged is connected.
BlocksConnected ==
  pc \in {"commit", "pave", "settle"} =>
    \A B \in blocks : \A a, b \in B : HasPath(graph, a, b)

\* A round is repeated only if it left fewer islands than it found.
RoundsMakeProgress ==
  [][pc = "commit" /\ pc' = "round" => Cardinality(FindIslands(graph')) < Cardinality(islands)]_vars

\* The box budget is checked before a path is paved, not while it is: it is
\* passed by less than one chain.
BudgetAlmostKept ==
  /\ (pc = "settle" \/ chain = NoChain) /\ bridge = NoBridge => bridged < cfg.maxBridge + cfg.maxChain
  /\ chain # NoChain => nextId - chain.first <= chain.max

\* Connecting the islands ends without a time limit.
ConnectEnds == <>(pc = "connected")
\* So does a query, and a bridging call.
QueryAnswered == pc = "search" ~> Answered
BridgeEnds == bridge # NoBridge ~> bridge = NoBridge

\* The heuristic search misses no corridor: it gives up only on endpoints the
\* graph does not join, stale entries of its queue notwithstanding.
SearchComplete ==
  pc = "repair" => \/ NoId \in {query.from, query.to}
                   \/ ~HasPath(graph, query.from, query.to)

\* The boxes of an answer lead over edges of the graph from the start's box to
\* the goal's, after the shortcut as well.
CorridorsFollowGraph ==
  pc = "extract" =>
    /\ Head(result.boxes) = query.from /\ Last(result.boxes) = query.to
    /\ \A i \in Hops(result.boxes) :
         result.boxes[i + 1] \in graph[result.boxes[i]] \cup {result.boxes[i]}

\* A corridor of touching certified boxes around both ends gives a path with
\* no collision at any of its points, however few of them were sampled.
PlainCorridor ==
  LET s == result.boxes
  IN /\ InBox(Region(query.from), query.start) /\ InBox(Region(query.to), query.goal)
     /\ \A i \in DOMAIN s : BoxOf(boxes, s[i]).certified
     /\ \A i \in Hops(s) : /\ Connected(Region(s[i]), Region(s[i + 1]))
                           /\ ~HasSegmentEdge(edges, s[i], s[i + 1])
CertifiedCorridorsFree ==
  (result.boxes # <<>> /\ result.success /\ pc \in {"audit", "collision"} /\ PlainCorridor) =>
    \A i \in Hops(result.path) : SegmentFree(result.path[i], result.path[i + 1], obs)

\* What a strict query answers: a success leads from the start to the goal,
\* passes the audit, and is called repaired exactly if it was; a failed audit
\* is never a success.
StrictAnswers ==
  (Answered /\ query.cfg.strict) =>
    /\ result.success <=> result.passed
    /\ result.success => /\ Head(result.path) = query.start /\ Last(result.path) = query.goal
                         /\ Passes(result.path)
                         /\ (result.status = "Repaired") <=> (result.repairs > 0)
    /\ ~result.success => result.status \in {"NotRun", "Failed"}

\* Boxes, graph and segment edges in every phase: certified boxes are free, and
\* an edge is touch, a checked line or a checked path, so a robot can follow it
\* (connector.cpp:1380-2041, 2345-2470).
ForestSound == TypeOK /\ CertifiedBoxesFree /\ EdgesJustified /\ SegmentEdgesClear

\* What a round believes while it commits: its union-find and its budget agree
\* with the forest (connector.cpp:2345-2480).
RoundSound == BlocksConnected /\ BudgetAlmostKept

\* The search finds a corridor if there is one, and the shortcut leaves one
\* (box_graph.cpp:880-1148).
SearchSound == SearchComplete /\ CorridorsFollowGraph

\* Connecting, querying and bridging end (connector.cpp:2150-2500,
\* box_graph.cpp:935-1010, safe_box_forest.cpp:11517-11677, 14199-14494).
PlanningEnds == ConnectEnds /\ QueryAnswered /\ BridgeEnds

\* The union-find of a direct corridor joins only boxes one can walk between,
\* over boxes that touch and over segment edges, although it is kept beside the
\* graph and boxes are united through the samples they cover.
Walkable == [a \in DOMAIN graph |->
               {b \in DOMAIN graph : Connected(Region(a), Region(b)) \/ HasSegmentEdge(edges, a, b)}]
ClassesWalkable ==
  pc \in {"direct", "residual"} =>
    \A C \in walk.classes : \A b \in C : HasPath(Walkable, CHOOSE a \in C : TRUE, b)

\* A corridor edge stands for boxes that touch from one of its ends to the
\* other: it is never the shortcut over a segment.
BoxLinks == [a \in DOMAIN graph |-> {b \in graph[a] : Connected(Region(a), Region(b))}]
CorridorsOfBoxes ==
  \A i \in DOMAIN edges :
    edges[i].type = "BoxCorridor" => HasPath(BoxLinks, edges[i].from, edges[i].to)

\* A call that reports a gain did what it was called for: the query's ends lie
\* in one island, and the endpoint in the largest.
GainIsReal ==
  pc = "bridged" /\ bridge.gain =>
    IF Call.kind \in {"query", "refine", "batch"} THEN GraphPath(Now, Located(Call.start), Located(Call.goal))
    ELSE \E I \in MainIslands(graph) : bridge.from \in I

\* What a bridging call believes and reports (safe_box_forest.cpp:11311-11431,
\* 13108-13557, 15047-15230).
BridgesSound == ClassesWalkable /\ CorridorsOfBoxes /\ GainIsReal

\* Whenever the cache is about to be read it is dirty or describes the forest
\* as it is: no call leaves it stale (safe_box_forest.cpp:21228-21246).
Reading == {"connected", "startBox", "goalBox", "bridgePath", "close", "endpoint", "bridged",
            "same", "search", "walk", "extract", "audit", "answered", "assess", "anchorStart",
            "anchorGoal", "tasks", "span", "along"}
CacheFresh == pc \in Reading /\ bridge.stage # "gap" => cached \in {Dirty, Snapshot}
=============================================================================
