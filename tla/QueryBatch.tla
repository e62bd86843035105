----------------------------- MODULE QueryBatch -----------------------------
(***************************************************************************)
(* bridge_queries: a list of queries is bridged in one call.  First every  *)
(* query is asked and, if its answer is poor, becomes a task with a box    *)
(* around each end; then straight lines are tried, in segment mode; then   *)
(* each task is asked again, gets its paths, is asked once more, and is    *)
(* bridged along the paths in turn until its answer is good.  Tasks change *)
(* the forest, so every judgement is about the forest of its moment.       *)
(*                                                                         *)
(* The threads that search paths share no state with the forest, so the    *)
(* paths of a task are chosen when it is bridged, whichever order searched *)
(* them.  The hybrid-partition stages, random detours and random shortcuts *)
(* are options of the environment, off by default, and left out.           *)
(***************************************************************************)
EXTENDS QueryBridges

VARIABLE batch   \* the local data of bridge_queries

NoBatch == [todo |-> <<>>, tasks |-> <<>>, probed |-> <<>>, at |-> 0, paths |-> <<>>, gains |-> {}]
StartOf(i) == Call.queries[i][1]
GoalOf(i) == Call.queries[i][2]
Taking(i, s) == [bridge EXCEPT !.call.start = StartOf(i), !.call.goal = GoalOf(i), !.stage = s]
Short(i) == Dist(StartOf(i), GoalOf(i)) \in Call.short
SegmentOnly(i) == i \in Call.segmentOnly
Forced(i) == i \in Call.forced

(***************************************************************************)
(* query_result_good: an audited answer that leaves the boxes for at most  *)
(* a quarter of its corridor and is not much longer than it must be.       *)
(***************************************************************************)
\* summarize_query_path: the length of the segment edges of the corridor that
\* no certified box covers, in steps of the audit.
InCertifiedBox(p, q, i) ==
  \E b \in ToSet(boxes) : b.certified /\ ~b.strict /\ \A k \in {i, i + 1}, d \in Dim :
    LET x == AuditResolution * p[d] + k * (q[d] - p[d])
    IN AuditResolution * b.region[d][1] <= x /\ x <= AuditResolution * b.region[d][2]
UncoveredLength(e) ==
  LET steps == 0..AuditResolution - 1
      open(h) == {i \in steps : ~InCertifiedBox(e.pts[h], e.pts[h + 1], i)}
  IN FoldLeft(LAMBDA n, h : n + Cardinality(open(h)) * Dist(e.pts[h], e.pts[h + 1]), 0,
              [h \in Hops(e.pts) |-> h])
SegmentLength(s) ==
  FoldSet(LAMBDA i, n : n + UncoveredLength(FindSegmentEdge(edges, s[i], s[i + 1])), 0, SegmentsUsed(s))

QueryGood ==
  LET direct == Dist(query.start, query.goal)
      long == Length(result.path)
      limit == Max({3 * direct, 2 * (direct + Call.additive)})
  IN /\ result.success /\ result.passed /\ result.raw > 0
     /\ 4 * SegmentLength(result.boxes) <= AuditResolution * result.raw
     /\ direct = 0 \/ 2 * long <= limit \/ long <= Call.maxLength

\* The query of a task is asked, in a stage of the call.
AskAgain(i, s) ==
  bridge' = Taking(i, s) /\ Begin(Call.cfg, StartOf(i), GoalOf(i)) /\ cached' = Read
AnswerIn(s) == pc = "answered" /\ bridge # NoBridge /\ bridge.stage = s
BatchFrame == UNCHANGED <<connector, calls, walk>>

StartBatch ==
  /\ pc = "connected" /\ bridge = NoBridge /\ calls # <<>> /\ Head(calls).kind = "batch"
  /\ bridge' = [call |-> Head(calls), stage |-> "batch", path |-> <<>>, from |-> NoId, to |-> NoId,
                added |-> 0, back |-> FALSE, gain |-> FALSE, budget |-> 0]
  /\ batch' = [NoBatch EXCEPT !.todo = [i \in DOMAIN Head(calls).queries |-> i]]
  /\ calls' = Tail(calls)
  /\ pc' = "assess"
  /\ UNCHANGED <<forest, connector, queryVars, walk, cached>>

(***************************************************************************)
(* The tasks: the queries that are forced or have no good answer, those    *)
(* over a short distance last.                                             *)
(***************************************************************************)
Assess ==
  /\ pc = "assess" /\ batch.todo # <<>>
  /\ LET i == Head(batch.todo)
     IN /\ batch' = [batch EXCEPT !.todo = Tail(@), !.at = i]
        /\ IF Forced(i)
           THEN bridge' = Taking(i, "assess") /\ pc' = "anchorStart" /\ UNCHANGED <<queryVars, cached>>
           ELSE AskAgain(i, "assess")
  /\ UNCHANGED forest /\ BatchFrame
JudgeAssessed ==
  /\ AnswerIn("assess")
  /\ pc' = IF QueryGood THEN "assess" ELSE "anchorStart"
  /\ ForgetQuery
  /\ UNCHANGED <<forest, bridge, cached, batch>> /\ BatchFrame

\* locate_existing_box_for_query_bridge: the first box around the point.
Existing(f, p) ==
  LET around == {i \in DOMAIN f.boxes : InBox(f.boxes[i].region, p)}
  IN IF around = {} THEN Located(p) ELSE f.boxes[Min(around)].id
Ensured(p) ==
  IF Existing(Now, p) # NoId THEN [forest |-> Now, id |-> Existing(Now, p)] ELSE Anchor(p)
EnsuredCache(p, end) ==
  IF Anchored(end) THEN Dirty ELSE IF Containing(p) = {} /\ Call.cfg.nearest THEN Read ELSE cached

AnchorStart ==
  /\ pc = "anchorStart"
  /\ LET end == Ensured(StartOf(batch.at))
     IN /\ Becomes(end.forest)
        /\ cached' = EnsuredCache(StartOf(batch.at), end)
        /\ pc' = IF end.id = NoId THEN "assess" ELSE "anchorGoal"
  /\ UNCHANGED <<queryVars, bridge, batch>> /\ BatchFrame
\* The start's box is looked up again: the goal's may lie around it as well.
AnchorGoal ==
  /\ pc = "anchorGoal"
  /\ LET end == Ensured(GoalOf(batch.at))
         from == Existing(end.forest, StartOf(batch.at))
     IN /\ Becomes(end.forest)
        /\ cached' = EnsuredCache(GoalOf(batch.at), end)
        /\ batch' = IF end.id = NoId \/ from = Existing(end.forest, GoalOf(batch.at)) THEN batch
                    ELSE [batch EXCEPT !.tasks = Append(@, batch.at)]
  /\ pc' = "assess"
  /\ UNCHANGED <<queryVars, bridge>> /\ BatchFrame

(***************************************************************************)
(* try_direct_start_goal_segment, for every task in turn.                  *)
(***************************************************************************)
Line(i) == <<StartOf(i), GoalOf(i)>>
LineFits(i) ==
  SegmentMode /\ Passes(Line(i)) /\ NoId \notin {Existing(Now, StartOf(i)), Existing(Now, GoalOf(i))}
    /\ Existing(Now, StartOf(i)) # Existing(Now, GoalOf(i))
Lines ==
  /\ pc = "assess" /\ batch.todo = <<>>
  /\ LET sorted == SelectSeq(batch.tasks, LAMBDA i : ~Short(i)) \o SelectSeq(batch.tasks, Short)
         fit == SelectSeq(sorted, LineFits)
     IN /\ Becomes(FoldLeft(LAMBDA f, i : AuditedEdge(f, Existing(Now, StartOf(i)), Existing(Now, GoalOf(i)),
                                                      Line(i)), Now, fit))
        /\ batch' = [batch EXCEPT !.tasks = SelectSeq(sorted, LAMBDA i : ~LineFits(i)),
                                  !.gains = ToSet(fit)]
        /\ cached' = IF fit = <<>> THEN cached ELSE Dirty
  /\ pc' = "tasks"
  /\ UNCHANGED <<queryVars, bridge>> /\ BatchFrame

(***************************************************************************)
(* The first probe: in turn with the work on each task, or before all of   *)
(* it if paths are searched in parallel, which a retry forbids.  Without   *)
(* skip_deferred_short_edges no task is ever called good.                  *)
(***************************************************************************)
Unasked(i) == SegmentOnly(i) \/ ~Call.skipShort
AllProbedFirst ==
  Call.parallel /\ Call.retries = 0 /\ ~\E i \in ToSet(batch.tasks \o batch.probed) : SegmentOnly(i)
Probing == batch.tasks # <<>> /\ (batch.probed = <<>> \/ AllProbedFirst)
Probe ==
  /\ pc = "tasks" /\ Probing
  /\ LET i == Head(batch.tasks)
         rest == [batch EXCEPT !.tasks = Tail(@), !.at = i]
     IN IF Unasked(i) \/ Forced(i)
        THEN /\ batch' = [rest EXCEPT !.probed = Append(@, i)]
             /\ UNCHANGED <<pc, queryVars, bridge, cached>>
        ELSE batch' = rest /\ AskAgain(i, "probe")
  /\ UNCHANGED forest /\ BatchFrame
JudgeProbe ==
  /\ AnswerIn("probe")
  /\ pc' = "tasks"
  /\ batch' = IF QueryGood THEN batch ELSE [batch EXCEPT !.probed = Append(@, batch.at)]
  /\ ForgetQuery
  /\ UNCHANGED <<forest, bridge, cached>> /\ BatchFrame

(***************************************************************************)
(* The paths of a task, the one to try first at the head: the shortest     *)
(* that was found, with the next ones as fallbacks.                        *)
(***************************************************************************)
Attempts(i, n) == [1..n -> AuditedPaths(StartOf(i), GoalOf(i))]
\* select_attempt_paths
Selected(found) ==
  LET order == Ordered({k \in DOMAIN found : found[k] # <<>>}, LAMBDA k : <<Length(found[k]), k>>)
  IN [k \in 1..Min({Len(order), 1 + Call.fallbacks}) |-> found[order[k]]]

\* deterministic_detour_fallback_path: the shortest bend around the middle, or
\* around both quarters, that passes.
Bends(p, q) ==
  LET aside(x, d, m) == InDomain([x EXCEPT ![d] = @ + m])
      far(d, r) == Min({r * Call.offset, (9 * (Domain[d][2] - Domain[d][1])) \div 20})
      bent(xs, d, m) == [k \in DOMAIN xs |-> aside(xs[k], d, m)]
  IN {<<p>> \o bent(xs, d, s * far(d, r)) \o <<q>> :
        xs \in {<<Between(p, q, 1, 2)>>, <<Between(p, q, 1, 4), Between(p, q, 3, 4)>>},
        d \in Dim, r \in 1..2, s \in {-1, 1}}
Detours(p, q) ==
  LET free == {path \in Bends(p, q) : Passes(path)}
  IN {path \in free : \A o \in free : Length(path) <= Length(o)}
Detoured(i, found) ==
  IF found # <<>> \/ ~Call.detour \/ Detours(StartOf(i), GoalOf(i)) = {} THEN {found}
  ELSE {<<path>> : path \in Detours(StartOf(i), GoalOf(i))}

\* improve_waypoint_if_needed: more attempts for a long path; each shorter one
\* replaces it, and at most four are kept to fall back on.
Improve(limit, found, path) ==
  IF Length(Head(found)) <= limit \/ path = <<>> \/ Length(path) >= Length(Head(found)) THEN found
  ELSE <<path>> \o Tail(found) \o (IF Len(found) <= 4 THEN <<Head(found)>> ELSE <<>>)
Improved(i, found) ==
  LET direct == Dist(StartOf(i), GoalOf(i))
      limit == Max({2 * direct, direct + Call.additive})
  IN IF found = <<>> \/ ~Call.quality THEN {found}
     ELSE {FoldLeft(LAMBDA s, path : Improve(limit, s, path), found, more) : more \in Attempts(i, 2)}

\* Attempts again if there was no path.
Retried(i, found) ==
  IF found # <<>> \/ (~SegmentOnly(i) /\ Call.retries = 0) THEN {found}
  ELSE {IF path = <<>> THEN <<>> ELSE <<path>> : path \in AuditedPaths(StartOf(i), GoalOf(i))}
PathsOf(i) ==
  LET n == IF Forced(i) THEN Max({Call.attempts, Call.forcedAttempts}) ELSE Call.attempts
      first == {Selected(found) : found \in Attempts(i, n)}
      bent == UNION {Detoured(i, found) : found \in first}
      better == UNION {Improved(i, found) : found \in bent}
  IN UNION {Retried(i, found) : found \in better}

\* A task with a path is asked a second time, unless it is forced.
FindPaths ==
  /\ pc = "tasks" /\ ~Probing /\ batch.probed # <<>>
  /\ LET i == Head(batch.probed)
     IN \E found \in PathsOf(i) :
          /\ batch' = [batch EXCEPT !.probed = Tail(@), !.at = i, !.paths = found]
          /\ IF found = <<>> THEN UNCHANGED <<pc, queryVars, bridge, cached>>
             ELSE IF Unasked(i) \/ Forced(i)
             THEN bridge' = Taking(i, "second") /\ pc' = "span" /\ UNCHANGED <<queryVars, cached>>
             ELSE AskAgain(i, "second")
  /\ UNCHANGED forest /\ BatchFrame
JudgeSecond ==
  /\ AnswerIn("second")
  /\ pc' = IF QueryGood THEN "tasks" ELSE "span"
  /\ ForgetQuery
  /\ UNCHANGED <<forest, bridge, cached, batch>> /\ BatchFrame

(***************************************************************************)
(* try_fast_direct_segment_after_rrt: the first path or its shortcut, the  *)
(* shorter first, as an edge between the first boxes around the ends.      *)
(***************************************************************************)
FastPaths(path) ==
  LET cut == CollisionShortcut(path) IN IF Length(cut) < Length(path) THEN <<cut, path>> ELSE <<path>>
FastEdge(tried, from, to) ==
  LET fit == SelectSeq(tried, LAMBDA path : Length(path) >= Call.directMin /\ Passes(path))
  IN IF Length(Head(tried)) < Call.directMin \/ NoId \in {from, to} \/ from = to \/ fit = <<>> THEN Now
     ELSE AuditedEdge(Now, from, to, Head(fit))

\* The edge of a segment-only task lies between the boxes a query would use.
OnlyEdge(from, to) == AuditedEdge(Now, from, to, Head(batch.paths))

Spanned(f) ==
  /\ f # Now
  /\ Becomes(f)
  /\ batch' = [batch EXCEPT !.gains = @ \cup {batch.at}, !.paths = <<>>]
  /\ cached' = Dirty
  /\ pc' = "tasks"
FastTried ==
  IF ~(SegmentMode /\ Call.fast) THEN Now
  ELSE FastEdge(FastPaths(Head(batch.paths)), Existing(Now, Call.start), Existing(Now, Call.goal))
Span ==
  /\ pc = "span"
  /\ \E fast \in {FastTried} :
       \/ Spanned(fast)
       \/ /\ fast = Now /\ SegmentOnly(batch.at)
          /\ IF NoId \in {Located(Call.start), Located(Call.goal)}
             THEN pc' = "tasks" /\ batch' = [batch EXCEPT !.paths = <<>>] /\ UNCHANGED <<forest, cached>>
             ELSE Spanned(OnlyEdge(Located(Call.start), Located(Call.goal)))
       \/ /\ fast = Now /\ ~SegmentOnly(batch.at)
          /\ pc' = "along"
          /\ UNCHANGED <<forest, cached, batch>>
  /\ UNCHANGED <<queryVars, bridge>> /\ BatchFrame

(***************************************************************************)
(* bridge_query_with_waypoint_fallbacks: along each path, until the answer *)
(* is good; here a forced task is asked as well.                           *)
(***************************************************************************)
Along ==
  /\ pc = "along" /\ batch.paths # <<>>
  /\ BridgeAlong(Head(batch.paths))
  /\ batch' = [batch EXCEPT !.paths = Tail(@)]
  /\ UNCHANGED <<queryVars, calls, walk>>
AlongDone ==
  /\ pc = "along" /\ batch.paths = <<>>
  /\ pc' = "tasks"
  /\ UNCHANGED <<forest, queryVars, bridge, cached, batch>> /\ BatchFrame
TaskBridged ==
  /\ pc = "bridged" /\ Call.kind = "batch"
  /\ batch' = IF bridge.gain THEN [batch EXCEPT !.gains = @ \cup {batch.at}] ELSE batch
  /\ IF Unasked(batch.at) THEN pc' = "along" /\ UNCHANGED <<queryVars, bridge, cached>>
     ELSE AskAgain(batch.at, "last")
  /\ walk' = NoWalk
  /\ UNCHANGED <<forest, connector, calls>>
JudgeLast ==
  /\ AnswerIn("last")
  /\ pc' = "along"
  /\ batch' = IF QueryGood /\ ~Call.evaluateAll THEN [batch EXCEPT !.paths = <<>>] ELSE batch
  /\ ForgetQuery
  /\ UNCHANGED <<forest, bridge, cached>> /\ BatchFrame

EndBatch ==
  /\ pc = "tasks" /\ batch.tasks = <<>> /\ batch.probed = <<>>
  /\ bridge' = NoBridge /\ batch' = NoBatch
  /\ pc' = "connected"
  /\ UNCHANGED <<forest, queryVars, cached>> /\ BatchFrame

BatchStep ==
  \/ StartBatch \/ Assess \/ JudgeAssessed \/ AnchorStart \/ AnchorGoal \/ Lines
  \/ Probe \/ JudgeProbe \/ FindPaths \/ JudgeSecond \/ Span
  \/ Along \/ AlongDone \/ TaskBridged \/ JudgeLast \/ EndBatch
=============================================================================
