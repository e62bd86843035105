---------------------------- MODULE MCDeepCover ----------------------------
(* The sweeps and the builds on top of them that TLC checks.                *)
EXTENDS DeepCover

MCRes == 4
Whole == <<0, 16>>
Plain == [obstacles |-> <<<<3, 4>>>>, gap |-> 0, domain |-> Whole, roots |-> <<Whole>>,
          start |-> 1, max |-> 3, virtual |-> FALSE, threads |-> 1, batch |-> 1,
          tree |-> {}, stuck |-> {}, pruneDepth |-> -1, pruneAt |-> 0,
          maxFree |-> 0, maxColl |-> 0, checkpoints |-> {}, callback |-> FALSE,
          mayStop |-> FALSE]

Scenes == {<<>>, <<<<3, 4>>>>, <<<<1, 2>>, <<9, 12>>>>, <<<<5, 6>>, <<6, 7>>, <<13, 15>>>>}

\* The active tree: clusters, depths, splits made before or impossible,
\* pruning, caps, a domain smaller than the root, and a stop at any time.
TreeSweeps ==
  {[Plain EXCEPT !.obstacles = o, !.gap = g, !.start = s, !.mayStop = t] :
     o \in Scenes, g \in {0, 6}, s \in {0, 2}, t \in BOOLEAN}
  \cup
  {[Plain EXCEPT !.obstacles = o, !.domain = d, !.tree = {1, 3, 7}, !.stuck = {2, 6, 14}, !.max = 4, !.start = s,
                 !.pruneDepth = p, !.pruneAt = 2] :
     o \in Scenes, d \in {Whole, <<2, 12>>}, p \in {-1, 1}, s \in {1, 2}}
  \cup
  {[Plain EXCEPT !.obstacles = o, !.maxFree = f, !.maxColl = 3 - f, !.mayStop = TRUE] :
     o \in Scenes, f \in {1, 2}}
  \cup
  \* The cap drops the box [8,12] of the second cluster and keeps the first's.
  {[Plain EXCEPT !.obstacles = <<<<10, 11>>, <<3, 9>>>>, !.max = 2, !.start = 0, !.maxColl = c] : c \in {0, 1}}

\* Virtual cells: two copies of the root, threads and batches.
VirtualSweeps ==
  {[Plain EXCEPT !.obstacles = o, !.gap = 16, !.domain = d, !.roots = r, !.start = s, !.virtual = TRUE,
                 !.threads = t, !.batch = 3, !.mayStop = TRUE] :
     o \in Scenes, d \in {Whole, <<2, 12>>}, r \in {<<Whole>>, <<<<0, 8>>, <<8, 16>>>>},
     s \in {0, 1}, t \in {1, 2}}

\* Checkpoints.
CheckpointSweeps ==
  {[Plain EXCEPT !.obstacles = o, !.gap = 16, !.domain = d, !.virtual = v, !.threads = t, !.batch = 3,
                 !.checkpoints = c, !.callback = TRUE, !.max = 4, !.mayStop = TRUE] :
     o \in Scenes \ {<<>>}, d \in {Whole, <<2, 12>>}, v \in BOOLEAN, t \in {1, 2},
     c \in {{}, {0, 2}, {1, 2, 3}, {4}}}

\* A build that is the sweep alone.
Gates == [covered |-> 0, access |-> 0, ratio |-> 0, cells |-> 0, mainCells |-> 0, maxCells |-> 0]
Alone(s) == [kind |-> "plain", sweep |-> s, partition |-> FALSE, merger |-> FALSE, mergeTimed |-> FALSE,
             mergeCap |-> 0, rounds |-> 2, adaptive |-> FALSE, target |-> 4, budget |-> 0, deferFrom |-> 1,
             overlapAt |-> 0, probes |-> {}, promote |-> FALSE, interval |-> 0, gates |-> Gates]

\* Refinements of a shallow sweep, adaptive and not, on both backends.
Shallow(o, d, m, t) == [Plain EXCEPT !.obstacles = o, !.gap = 16, !.domain = d, !.start = 0, !.max = m, !.mayStop = t]
DeepScenes == Scenes \cup {<<<<2, 2>>, <<10, 11>>>>, <<<<1, 1>>, <<14, 15>>>>, <<<<7, 7>>, <<9, 14>>>>}
Probes == {{1, 2, 7, 12}, {6, 8}}
Deep(o, d, m, t) == [Alone(Shallow(o, d, m, t)) EXCEPT !.kind = "deep", !.merger = TRUE, !.promote = TRUE, !.target = 3]
DeepPlans ==
  {[Deep(o, d, 1, FALSE) EXCEPT !.partition = b, !.probes = p, !.adaptive = a, !.interval = 2, !.overlapAt = h,
       !.gates = [Gates EXCEPT !.covered = 2, !.access = 2, !.ratio = 60, !.cells = 1]] :
     o \in DeepScenes, d \in {Whole, <<2, 12>>}, b \in BOOLEAN, p \in Probes, a \in BOOLEAN, h \in {0, 2}}
DeeperPlans ==
  {[Deep(o, Whole, 1, FALSE) EXCEPT !.target = 4, !.partition = b, !.probes = p, !.adaptive = TRUE, !.overlapAt = 3,
       !.gates = [Gates EXCEPT !.covered = 3, !.access = 3]] :
     o \in DeepScenes, b \in BOOLEAN, p \in {{1, 2, 7, 12}, {1, 6, 8, 9, 16}}}
\* A domain that cuts cells, and builds that start at their target.
CutPlans ==
  {[Deep(<<<<10, 11>>>>, <<2, 12>>, d, FALSE) EXCEPT !.target = 4, !.partition = b, !.probes = {9, 12}, !.adaptive = a,
       !.gates = [Gates EXCEPT !.covered = 3]] :
     d \in {2, 4}, b \in BOOLEAN, a \in BOOLEAN}
TimedPlans ==
  {[Deep(o, Whole, 2, TRUE) EXCEPT !.partition = b, !.mergeTimed = TRUE, !.probes = p, !.adaptive = TRUE,
       !.gates = [Gates EXCEPT !.mainCells = 3, !.maxCells = 4], !.budget = g] :
     o \in DeepScenes \ {<<<<3, 4>>>>}, b \in BOOLEAN, p \in {{}, {3, 4, 9}}, g \in {0, 3}}
FixedPlans ==
  {[Alone([Shallow(o, Whole, 3, FALSE) EXCEPT !.pruneDepth = 1, !.pruneAt = 3, !.tree = {1, 2}]) EXCEPT !.kind = "fixed",
       !.partition = b, !.merger = TRUE, !.mergeTimed = t, !.mergeCap = c, !.probes = {3, 9}] :
     o \in DeepScenes, b \in BOOLEAN, t \in BOOLEAN, c \in {0, 2}}
FastPlans ==
  {[Alone([Shallow(o, Whole, 3, t) EXCEPT !.virtual = TRUE, !.checkpoints = {1, 2, 3}, !.callback = TRUE]) EXCEPT
       !.kind = "fast", !.partition = b, !.merger = TRUE, !.adaptive = TRUE, !.target = 3, !.probes = p,
       !.gates = [Gates EXCEPT !.covered = 2, !.access = 2]] :
     o \in DeepScenes \ {<<>>}, b \in BOOLEAN, p \in Probes, t \in BOOLEAN}

\* A virtual sweep of two clusters is refused.
Refused == [Plain EXCEPT !.obstacles = <<<<1, 2>>, <<9, 12>>>>, !.virtual = TRUE]
MCPlans == {Alone(s) : s \in TreeSweeps \cup VirtualSweeps \cup CheckpointSweeps \cup {Refused}}
           \cup DeepPlans \cup DeeperPlans \cup CutPlans \cup TimedPlans \cup FixedPlans \cup FastPlans
MCFastPlans == FastPlans
MCSweeps == {p.sweep : p \in MCPlans}
MCFastSweeps == {p.sweep : p \in FastPlans}
\* One cluster and no cap, with a deadline.
MCTimedPlans == {Alone(s) : s \in {t \in TreeSweeps : t.mayStop /\ t.maxFree = 0 /\ t.gap = 6}}
MCTimedSweeps == {p.sweep : p \in MCTimedPlans}
MCDepthPlans == {p \in DeepPlans : p.adaptive}
MCDepthSweeps == {p.sweep : p \in MCDepthPlans}
=============================================================================
