--------------------------- MODULE CorridorQuery ---------------------------
(***************************************************************************)
(* A query of the forest: CorridorQuery::run (query.cpp) on the graph      *)
(* cache, with dijkstra_search, shortcut_box_sequence, extract_waypoints   *)
(* and locate_containing_box (box_graph.cpp), and the audit, repair and    *)
(* simplification run_query_internal puts around it (safe_box_forest.cpp). *)
(*                                                                         *)
(* The search is a step per popped node.  The partition search that may    *)
(* stand in front of it is GridPartition's; times and counters are left    *)
(* out, the optional edge penalties of the environment are zero.           *)
(***************************************************************************)
EXTENDS PlanningForest, TLC

CONSTANTS AuditResolution, SegmentPenalty, AuditPenalty

VARIABLES
  query,   \* the configuration, start, goal and located boxes
  search,  \* dijkstra: open, dist, prev, rep
  result   \* QueryResult

queryVars == <<query, search, result>>

NoQuery == [start |-> <<>>]
NoResult == [success |-> FALSE, boxes |-> <<>>, path |-> <<>>, raw |-> 0, status |-> "NotRun",
             passed |-> FALSE, repairs |-> 0, unsafe |-> 0]
NoSearch == [open |-> {}]

(***************************************************************************)
(* Locating an endpoint.                                                   *)
(***************************************************************************)
SafetyRank(b) == IF b.certified THEN IF b.strict THEN 1 ELSE 0 ELSE IF b.strict THEN 3 ELSE 2
SquaredTo(b, p) ==
  LET c == Center(b.region) IN (c[1] - p[1]) * (c[1] - p[1]) + (c[2] - p[2]) * (c[2] - p[2])

\* locate_containing_box: the containing box of the best rank, then volume,
\* then nearest centre; outside every box, if asked for, the nearest centre.
Score(b, p) == <<SafetyRank(b), Volume(b.region), SquaredTo(b, p)>>
Locate(p, nearest) ==
  LET around == {i \in DOMAIN boxes : InBox(boxes[i].region, p)}
      best == {i \in around : \A j \in around : ~LexLess(Score(boxes[j], p), Score(boxes[i], p))}
      close == {i \in DOMAIN boxes :
                  \A j \in DOMAIN boxes : SquaredTo(boxes[i], p) <= SquaredTo(boxes[j], p)}
  IN IF around # {} THEN boxes[Min(best)].id
     ELSE IF nearest /\ boxes # <<>> THEN boxes[Min(close)].id ELSE NoId

(***************************************************************************)
(* dijkstra_search.                                                        *)
(***************************************************************************)
Heuristic(id) == Dist(Center(Region(id)), query.goal)

\* The cost of going from box a, represented by the point from, to box b, and
\* the point that will represent b.
Penalty(e) ==
  (IF CountsAsSegment(e) /\ e.type # "QueryBridge" /\ ~e.obb THEN SegmentPenalty ELSE 0)
    + (IF e.strict /\ e.type = "QueryBridge" /\ ~e.checked THEN AuditPenalty ELSE 0)
Move(a, b, from) ==
  LET to == IF Connected(Region(a), Region(b))
            THEN TransitionPoint(Region(a), Region(b), from, query.goal)
            ELSE Center(Region(a))
      plain == IF b = query.to THEN Dist(from, to) + Dist(to, query.goal) ELSE Dist(from, to)
      e == FindSegmentEdge(edges, a, b)
  IN IF HasSegmentEdge(edges, a, b)
     THEN [cost |-> Penalty(e) + (IF Length(e.pts) > 0 THEN Length(e.pts) ELSE plain),
           rep |-> Center(Region(b))]
     ELSE [cost |-> plain, rep |-> IF b = query.to THEN query.goal ELSE to]

Begin(c, start, goal) ==
  LET from == Locate(start, c.nearest)
      to == Locate(goal, c.nearest)
  IN /\ query' = [cfg |-> c, start |-> start, goal |-> goal, from |-> from, to |-> to]
     /\ pc' = IF NoId \in {from, to} THEN "repair" ELSE IF from = to THEN "same" ELSE "search"
     /\ search' = IF NoId \in {from, to} \/ from = to THEN NoSearch
                  ELSE [open |-> {<<Dist(Center(Region(from)), goal), from>>},
                        dist |-> (from :> 0), prev |-> (from :> from),
                        rep |-> (from :> Center(Region(from)))]
     /\ result' = NoResult

\* The same box twice if it has a segment edge to itself.
SameBox ==
  /\ pc = "same"
  /\ result' = [result EXCEPT !.boxes = IF HasSegmentEdge(edges, query.from, query.to)
                                        THEN <<query.from, query.to>> ELSE <<query.from>>]
  /\ pc' = "extract"
  /\ UNCHANGED <<forest, query, search>>

Cheapest == {n \in search.open : \A m \in search.open : n[1] <= m[1]}
Stale(n) == n[1] > search.dist[n[2]] + Heuristic(n[2])

RelaxEqual(s, a) ==
  LET move == [b \in graph[a] |-> Move(a, b, s.rep[a])]
      better == {b \in graph[a] : \/ b \notin DOMAIN s.dist
                                  \/ s.dist[a] + move[b].cost <= s.dist[b]}
      cost == [b \in better |-> s.dist[a] + move[b].cost]
  IN [open |-> s.open \cup {<<cost[b] + Heuristic(b), b>> : b \in better},
      dist |-> cost @@ s.dist,
      prev |-> [b \in better |-> a] @@ s.prev,
      rep |-> [b \in better |-> move[b].rep] @@ s.rep]
Relax(s, a) ==
  LET move == [b \in graph[a] |-> Move(a, b, s.rep[a])]
      better == {b \in graph[a] : \/ b \notin DOMAIN s.dist
                                  \/ s.dist[a] + move[b].cost < s.dist[b]}
      cost == [b \in better |-> s.dist[a] + move[b].cost]
  IN [open |-> s.open \cup {<<cost[b] + Heuristic(b), b>> : b \in better},
      dist |-> cost @@ s.dist,
      prev |-> [b \in better |-> a] @@ s.prev,
      rep |-> [b \in better |-> move[b].rep] @@ s.rep]

Pop ==
  /\ pc = "search"
  /\ \E n \in Cheapest :
       LET rest == [search EXCEPT !.open = @ \ {n}]
       IN IF Stale(n) THEN search' = rest /\ UNCHANGED pc
          ELSE IF n[2] = query.to THEN search' = rest /\ pc' = "walk"
          ELSE search' = Relax(rest, n[2]) /\ UNCHANGED pc
  /\ UNCHANGED <<forest, query, result>>

SearchFails ==
  /\ pc = "search" /\ search.open = {}
  /\ pc' = "repair"
  /\ UNCHANGED <<forest, queryVars>>

\* The boxes from the start's to the goal's along prev.
Walk ==
  LET back[n \in 0..Cardinality(DOMAIN search.prev)] ==
        IF n = 0 THEN <<query.to>>
        ELSE IF Head(back[n - 1]) = query.from THEN back[n - 1]
        ELSE <<search.prev[Head(back[n - 1])]>> \o back[n - 1]
  IN back[Cardinality(DOMAIN search.prev)]

(***************************************************************************)
(* shortcut_box_sequence: from each box on, the farthest box reached by an *)
(* edge or over one box outside, if that costs at most 5 % more.           *)
(***************************************************************************)
StepCost(a, b) ==
  IF HasSegmentEdge(edges, a, b) THEN Length(FindSegmentEdge(edges, a, b).pts)
  ELSE Dist(Center(Region(a)), Center(Region(b)))
SeqCost(s, i, j) == FoldLeft(LAMBDA n, k : n + StepCost(s[k], s[k + 1]), 0, [k \in 1..j - i |-> i + k - 1])
Acceptable(s, i, j, cost) == 100 * cost <= 105 * SeqCost(s, i, j)

JumpsOver(s, i, j) ==
  {<<b, s[j]>> : b \in {x \in graph[s[i]] : x \notin {s[i], s[j]}}}
JumpsOf(s, i, j) ==
  IF s[j] \in graph[s[i]] /\ Acceptable(s, i, j, StepCost(s[i], s[j])) THEN {<<s[j]>>}
  ELSE {<<b, s[j]>> : b \in {x \in graph[s[i]] \cap graph[s[j]] :
          x \notin {s[i], s[j]} /\ Acceptable(s, i, j, StepCost(s[i], x) + StepCost(x, s[j]))}}
Jump(s, i) == \* one jump from position i: [at, over] with the boxes it appends
  LET far == {j \in i + 2..Len(s) : JumpsOf(s, i, j) # {}}
  IN IF far = {} THEN {[at |-> i + 1, over |-> <<s[i + 1]>>]}
     ELSE {[at |-> Max(far), over |-> o] : o \in JumpsOf(s, i, Max(far))}
Shortened(s) ==
  LET from[n \in 1..Len(s)] == \* the possible tails from position Len(s) + 1 - n
        LET i == Len(s) + 1 - n
        IN IF n = 1 THEN {<<>>}
           ELSE UNION {{j.over \o t : t \in from[Len(s) + 1 - j.at]} : j \in Jump(s, i)}
  IN {<<s[1]>> \o t : t \in from[Len(s)]}

ShortcutBoxes ==
  /\ pc = "walk"
  /\ \E s \in IF query.cfg.shortcut /\ Len(Walk) > 2 THEN Shortened(Walk) ELSE {Walk} :
       result' = [result EXCEPT !.boxes = s]
  /\ pc' = "extract"
  /\ UNCHANGED <<forest, query, search>>

(***************************************************************************)
(* extract_waypoints.                                                      *)
(***************************************************************************)
ThroughChain(path, chain, goal) ==
  FoldLeft(LAMBDA p, i :
             IF Connected(chain[i], chain[i + 1])
             THEN AppendIfNew(p, TransitionPoint(chain[i], chain[i + 1], Last(p), goal))
             ELSE AppendAll(p, <<Center(chain[i]), Center(chain[i + 1])>>),
           path, [i \in Hops(chain) |-> i])
AlongEdge(path, e, a, b, goal) ==
  LET backwards == e.from = b /\ e.to = a
  IN IF e.inner # <<>>
     THEN ThroughChain(path, <<Region(a)>> \o (IF backwards THEN Reverse(e.inner) ELSE e.inner)
                               \o <<Region(b)>>, goal)
     ELSE AppendAll(path, IF backwards THEN Reverse(e.pts) ELSE e.pts)
Waypoints(s, start, goal) ==
  AppendIfNew(
    FoldLeft(LAMBDA p, i :
               IF HasSegmentEdge(edges, s[i], s[i + 1])
               THEN AlongEdge(p, FindSegmentEdge(edges, s[i], s[i + 1]), s[i], s[i + 1], goal)
               ELSE ThroughChain(p, <<Region(s[i]), Region(s[i + 1])>>, goal),
             <<start>>, [i \in Hops(s) |-> i]),
    goal)

\* CorridorQuery::run ends; summarize_query_path counts what is not certified.
Uncertified(s) == Cardinality({i \in DOMAIN s : BoxOf(boxes, s[i]).strict})
Extract ==
  /\ pc = "extract"
  /\ LET path == Waypoints(result.boxes, query.start, query.goal)
     IN result' = [result EXCEPT !.success = TRUE, !.path = path, !.raw = Length(path),
                     !.unsafe = Uncertified(result.boxes)]
  /\ pc' = IF query.cfg.strict THEN "audit"
           ELSE IF query.cfg.collision THEN "collision" ELSE "answered"
  /\ UNCHANGED <<forest, query, search>>

(***************************************************************************)
(* collision_shortcut_path: the shortest way over waypoints of the path    *)
(* whose hops are clear, the path itself if there is none.                 *)
(***************************************************************************)
ClearTo(path) ==
  LET n == Len(path)
      dist[i \in 1..n] ==
        IF i = 1 THEN [len |-> 0, path |-> <<path[1]>>]
        ELSE LET from == {j \in 1..i - 1 : dist[j].path # <<>>
                            /\ ~SegmentHit(path[j], path[i], Resolution, obs)}
                 cost(j) == dist[j].len + Dist(path[j], path[i])
             IN IF from = {} THEN [len |-> 0, path |-> <<>>]
                ELSE LET j == CHOOSE j \in from : \A k \in from : cost(j) <= cost(k)
                     IN [len |-> cost(j), path |-> Append(dist[j].path, path[i])]
  IN dist[n].path
CollisionShortcut(path) ==
  IF Len(path) <= 2 \/ ClearTo(path) = <<>> THEN path ELSE ClearTo(path)

PlainShortcut ==
  /\ pc = "collision"
  /\ LET path == CollisionShortcut(result.path)
     IN result' = [result EXCEPT !.path = path, !.raw = Length(path)]
  /\ pc' = "answered"
  /\ UNCHANGED <<forest, query, search>>

(***************************************************************************)
(* Audit, repair and simplification.                                       *)
(***************************************************************************)
\* audit_waypoint_path: 0 if the path passes, else the segment it fails at.
AuditFailure(path) ==
  LET points == {i \in DOMAIN path : PointHit(path[i], obs)}
      hops == {i \in Hops(path) : SegmentHit(path[i], path[i + 1], AuditResolution, obs)}
  IN IF points # {} THEN Max({1, Min(points) - 1})
     ELSE IF hops # {} THEN Min(hops) ELSE 0
Passes(path) == path # <<>> /\ AuditFailure(path) = 0

\* The facade's RRT samples its segments as finely as the audit does.
FineRrt(p, q) == RrtAt(p, q, Max({Resolution, AuditResolution}))

\* A shortcut of an audited path is kept if it passes and is not longer.
KeptUnaudited(path) ==
  LET short == CollisionShortcut(path)
  IN IF query.cfg.collision /\ Length(short) <= Length(path) THEN short ELSE path
Kept(path) ==
  LET short == CollisionShortcut(path)
  IN IF query.cfg.collision /\ Passes(short) /\ Length(short) <= Length(path) THEN short ELSE path

\* No corridor: a strict query with repair looks for a path by RRT alone.
GlobalRepair ==
  /\ pc = "repair"
  /\ \E path \in IF query.cfg.strict /\ query.cfg.repair THEN FineRrt(query.start, query.goal) ELSE {<<>>} :
       IF Passes(path)
       THEN /\ result' = [result EXCEPT !.success = TRUE, !.path = Kept(path), !.repairs = @ + 1,
                                        !.raw = Length(Kept(path)), !.status = "Repaired", !.passed = TRUE]
            /\ pc' = "audit"
       ELSE pc' = "answered" /\ UNCHANGED result
  /\ UNCHANGED <<forest, query, search>>

Audited(path) ==
  [result EXCEPT !.path = Kept(path), !.passed = TRUE, !.unsafe = 0,
                 !.status = IF @ = "Repaired" \/ result.repairs > 0 THEN "Repaired" ELSE "Passed"]
AuditPasses ==
  /\ pc = "audit" /\ Passes(result.path)
  /\ result' = Audited(result.path)
  /\ pc' = "simplify"
  /\ UNCHANGED <<forest, query, search>>

\* collision_bracket: the ends of the failed segment.  Its second half looks
\* for free samples around the collision; it starts when an end collides, and
\* then the first or the last sample does, and it gives up.
Bracket(p, q) == IF PointHit(p, obs) \/ PointHit(q, obs) THEN <<>> ELSE <<p, q>>

\* try_local_birrt_repair: a detour around the failed segment that passes the
\* audit, or nothing.
Detour(path, at, ends, r) ==
  AppendAll(SubSeq(path, 1, at), <<ends[1]>> \o r \o <<ends[2]>> \o SubSeq(path, at + 1, Len(path)))
Repairs(path, at) ==
  LET ends == Bracket(path[at], path[at + 1])
  IN IF at >= Len(path) \/ ends = <<>> THEN {<<>>}
     ELSE {IF r # <<>> /\ Passes(Detour(path, at, ends, r)) THEN Detour(path, at, ends, r) ELSE <<>> :
             r \in FineRrt(ends[1], ends[2])}

GiveUp == result' = [result EXCEPT !.status = "Failed", !.passed = FALSE, !.success = FALSE]
AuditFails ==
  /\ pc = "audit" /\ ~Passes(result.path)
  /\ \E d \in IF query.cfg.repair THEN Repairs(result.path, AuditFailure(result.path)) ELSE {<<>>} :
       IF d = <<>>
       THEN GiveUp /\ pc' = "answered"
       ELSE /\ result' = [Audited(d) EXCEPT !.status = "Repaired", !.repairs = result.repairs + 1]
            /\ pc' = "simplify"
  /\ UNCHANGED <<forest, query, search>>

\* try_final_simplify: a shorter path by RRT, if it passes; then the summary.
Simplify ==
  /\ pc = "simplify"
  /\ \E path \in IF query.cfg.simplify THEN FineRrt(query.start, query.goal) ELSE {<<>>} :
       result' = IF Passes(path) /\ Length(path) < Length(result.path)
                 THEN [result EXCEPT !.path = path] ELSE result
  /\ pc' = "answered"
  /\ UNCHANGED <<forest, query, search>>

Answer ==
  /\ pc = "answered"
  /\ pc' = "connected"
  /\ query' = NoQuery /\ search' = NoSearch /\ result' = NoResult
  /\ UNCHANGED forest

QueryStep ==
  \/ SameBox \/ Pop \/ SearchFails \/ ShortcutBoxes \/ Extract
  \/ PlainShortcut \/ GlobalRepair \/ AuditPasses \/ AuditFails \/ Simplify
=============================================================================
