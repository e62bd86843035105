----------------------------- MODULE ForestGrowth -----------------------------
(***************************************************************************)
(* Growing a forest of boxes and consolidating it: RrtGrower,              *)
(* FrontwaveGrower (safe_box_forest/src/grower.cpp) and Consolidator       *)
(* (safe_box_forest/src/merger.cpp) over one box oracle.                   *)
(*                                                                         *)
(* A step is one turn of a loop of the grower: a root seed, a box of the   *)
(* frontier, an iteration of the main loop, one result of a worker batch,  *)
(* one link of a component-connect chain, one round of the consolidator.   *)
(* The random targets and faces are arbitrary; stop requests and timeouts  *)
(* may come before any step.                                               *)
(***************************************************************************)
EXTENDS FreeBoxSearch

CONSTANTS Scenes,     \* the sets of units obstacles may occupy
          SeedLists,  \* the sequences of root seeds
          Configs     \* the configurations (GrowerConfig and MergerConfig)

\* FfbOptions: the search of find_free_box, its depths and its switches.
FfbOptions == [mode : {"linear", "virtual", "nodes"}, max : Int, start : Int, skip : Int,
               sched : SUBSET Int, splitReserved : BOOLEAN, splitUnknown : BOOLEAN,
               rejectSeed : BOOLEAN, materialise : BOOLEAN, deadline : BOOLEAN]

ASSUME GrowthAssumption ==
  /\ Scenes \subseteq SUBSET Units
  /\ SeedLists \subseteq Seq(Units)
  /\ \A c \in Configs : /\ c.ffb \in FfbOptions
                        /\ {c.depth, c.connectInc, c.connectMax} \subseteq Int
                        /\ {c.maxBoxes, c.batch} \subseteq Nat
                        \* MergerConfig: the score threshold is in percent
                        /\ {c.mergeRounds, c.score, c.targetBoxes} \subseteq Nat
                        /\ c.merge \subseteq {"exact", "greedy", "prune"}
                        \* bootstrap_target is cut to max_boxes (grower.cpp:1572)
                        /\ c.boot \in Int /\ c.boot <= c.maxBoxes

VARIABLES occ,        \* the scene, fixed while growing
          cfg,        \* the configuration
          o,          \* the master oracle
          boxes,      \* result.boxes
          nextId,     \* next_box_id_
          cooling,    \* failure_cooling_: node -> entry
          pairFail,   \* component_pair_unknown_failures_: {root, root} -> count
          pc,         \* the loop the grower is in
          queue,      \* root seeds left, or the FIFO frontier of box ids
          batch,      \* tasks or worker results left, and the batch's outcome
          chain,      \* the component-connect chain
          miss,       \* consecutive_miss
          round,      \* rounds of the consolidator
          twice       \* nodes reserved a second time (history)

vars == <<occ, cfg, o, boxes, nextId, cooling, pairFail, pc, queue, batch, chain,
          miss, round, twice>>

Root == <<1, 2^Res>>
NoBatch == [todo |-> <<>>, ok |-> FALSE, fails |-> 0]
NoChain == [src |-> -1, steps |-> 0, added |-> 0, fails |-> 0, back |-> "loop"]

----------------------------------------------------------------------------
(* Boxes.                                                                  *)

Box(id, node, r, seed, parent, root) ==
  [id |-> id, node |-> node, at |-> r, seed |-> seed, parent |-> parent, root |-> root]
Covered(bs, q) == \E i \in DOMAIN bs : Within(q, bs[i].at)
Ids(bs) == {bs[i].id : i \in DOMAIN bs}
BoxOf(bs, id) == bs[CHOOSE i \in DOMAIN bs : bs[i].id = id]
Touching(r, s) == r[1] <= s[2] + 1 /\ s[1] <= r[2] + 1
\* compute_adjacency and find_islands: on a line two boxes are in one island
\* iff everything between them is covered.
Joined(bs, r, s) == \A u \in (r[2] + 1)..(s[1] - 1) \cup (s[2] + 1)..(r[1] - 1) : Covered(bs, u)
Connected(bs) == \A i, j \in DOMAIN bs : Joined(bs, bs[i].at, bs[j].at)
RootsOf(bs) == {bs[i].root : i \in DOMAIN bs}

----------------------------------------------------------------------------
(* Failure cooling.                                                        *)

CoolingOn == cfg.coolAt > 0
NoEntry == [fails |-> 0, depth |-> 0, until |-> 0]
Entry(c, n) == IF n \in DOMAIN c THEN c[n] ELSE NoEntry
\* node_in_failure_cooling: an entry whose horizon has passed is erased.
CheckedCooling(c, n, count) ==
  IF n \in DOMAIN c /\ c[n].until <= count THEN Restrict(c, DOMAIN c \ {n}) ELSE c
InCooling(c, n, depth, count) ==
  /\ n \in DOMAIN c
  /\ c[n].until > count
  /\ depth <= c[n].depth
\* record_failure_cooling for an answer that hit the unknown depth cap.
RecordCooling(c, ans, dom, depth, count) ==
  LET n == IF ans.node # NoNode THEN ans.node ELSE dom
      e == Entry(c, n)
      fails == e.fails + 1
  IN IF ~CoolingOn \/ ~ans.cap \/ n = NoNode THEN c
     ELSE Put(c, n, [fails |-> Lowest({fails, cfg.coolAt}),
                     depth |-> Highest({e.depth, depth}),
                     until |-> IF fails >= cfg.coolAt
                               THEN Highest({e.until, count + cfg.horizon}) ELSE e.until])
CoolingSuccess(c, n) == Restrict(c, DOMAIN c \ {n})

----------------------------------------------------------------------------
(* Committing a box: the part create_box and commit_box share.             *)

State(ok, bs, ora, nid, cool, ans) ==
  [ok |-> ok, boxes |-> bs, o |-> ora, nextId |-> nid, cooling |-> cool, ans |-> ans]

Commit(bs, ora, nid, cool, ans, seed, parent, root) ==
  LET new == Box(nid, ans.node, ans.at, seed, parent, root)
      orphan == parent \notin Ids(bs)
      mother == BoxOf(bs, parent).at
  IN IF ~Within(seed, ans.at) THEN State(FALSE, bs, ora, nid, cool, ans)
     ELSE IF parent >= 0 /\ ~orphan /\ (Inside(ans.at, mother) \/ ~Touching(ans.at, mother))
       THEN State(FALSE, bs, ora, nid + 1, cool, ans)
     ELSE State(TRUE, Append(bs, new), ReserveNode(ora, ans.node, nid), nid + 1,
                CoolingSuccess(cool, ans.node), ans)

Options(depth) == [cfg.ffb EXCEPT !.max = depth]

\* create_box: covered seed, cooling, search, commit.
CreateBox(bs, ora, nid, cool, seed, parent, root, depth) ==
  LET dom == IF CoolingOn THEN LeafContaining(ora, seed) ELSE NoNode
      count == Len(bs)
      cool1 == CheckedCooling(cool, dom, count)
  IN IF parent >= 0 /\ Covered(bs, seed)
       THEN {State(FALSE, bs, ora, nid, cool, Refusal(ora, 0))}
     ELSE IF InCooling(cool1, dom, depth, count)
       THEN {State(FALSE, bs, ora, nid, cool1, Refusal(ora, 0))}
     ELSE {IF ans.found
           THEN Commit(bs, ans.o, nid, cool1, ans, seed, parent, root)
           ELSE State(FALSE, bs, ans.o, nid, RecordCooling(cool1, ans, dom, depth, count), ans) :
           ans \in Find(ora, occ, seed, Options(depth))}

CommitBoxUnchecked(bs, ora, nid, cool, res) ==
  Commit(bs, ora, nid, cool, res.ans, res.seed, res.parent, res.root)
\* commit_box: the same for the answer of a worker, against the boxes of now.
CommitBox(bs, ora, nid, cool, res) ==
  IF res.parent >= 0 /\ Covered(bs, res.seed) THEN State(FALSE, bs, ora, nid, cool, res.ans)
  ELSE Commit(bs, ora, nid, cool, res.ans, res.seed, res.parent, res.root)

Take(s) ==
  /\ boxes' = s.boxes
  /\ o' = s.o
  /\ nextId' = s.nextId
  /\ cooling' = s.cooling
  /\ twice' = twice \cup {n \in DOMAIN s.o.boxOf : /\ n \in DOMAIN o.boxOf
                                                   /\ s.o.boxOf[n] # o.boxOf[n]}

----------------------------------------------------------------------------
(* Seeds and tasks.                                                        *)

Task(seed, parent, root, target) ==
  [seed |-> seed, parent |-> parent, root |-> root, target |-> target, dom |-> NoNode]
NoTarget == -1

\* make_frontier_seed: just outside an uncovered face of a box.
FaceSeeds(r) == {r[1] - 1, r[2] + 1} \cap Units
OpenFaces(bs, i) == {q \in FaceSeeds(bs[i].at) : ~Covered(bs, q)}
FrontierTasks(bs) ==
  UNION {{Task(q, bs[i].id, bs[i].root, NoTarget) : q \in OpenFaces(bs, i)} : i \in DOMAIN bs}

\* make_component_connect_seed: a face of a box of root src, towards a box of
\* another root in another island.
ConnectTasks(bs, srcs) ==
  LET apart(i, j) == /\ bs[i].root \in srcs
                     /\ bs[j].root # bs[i].root
                     /\ ~Joined(bs, bs[i].at, bs[j].at)
      towards(i, j) == {q \in OpenFaces(bs, i) : (q > bs[i].at[2]) = (bs[j].at[1] > bs[i].at[2])}
  IN UNION {IF apart(i, j) THEN {Task(q, bs[i].id, bs[i].root, bs[j].root) : q \in towards(i, j)}
            ELSE {} : i, j \in DOMAIN bs}

Tasks(bs) == FrontierTasks(bs)
               \cup (IF cfg.connect THEN ConnectTasks(bs, RootsOf(bs)) ELSE {})

\* component_connect_ffb_options: deeper for a pair that met the depth cap.
PairFails(t) == LET key == {t.root, t.target}
                IN IF key \in DOMAIN pairFail THEN pairFail[key] ELSE 0
TaskDepth(t) ==
  IF t.target = NoTarget \/ PairFails(t) = 0 THEN cfg.depth
  ELSE Lowest({Highest({cfg.depth, cfg.connectMax}), cfg.depth + cfg.connectInc * PairFails(t)})

\* record_component_connect_result; counts above MaxTreeDepth change nothing.
Paired(t, ok, cap) ==
  LET key == {t.root, t.target}
  IN IF t.target = NoTarget THEN pairFail
     ELSE IF ok THEN Restrict(pairFail, DOMAIN pairFail \ {key})
     ELSE IF cap THEN Put(pairFail, key, Lowest({PairFails(t) + 1, MaxTreeDepth}))
     ELSE pairFail

----------------------------------------------------------------------------
\* select_initial_roots: seeds in collision are dropped, and a grower without
\* a seed samples one.
FreeSeeds(seeds) ==
  LET kept[k \in 0..Len(seeds)] ==
        IF k = 0 THEN <<>>
        ELSE IF seeds[k] \in occ THEN kept[k - 1] ELSE Append(kept[k - 1], seeds[k])
  IN kept[Len(seeds)]

Init ==
  /\ occ \in Scenes
  /\ cfg \in Configs
  /\ \E seeds \in SeedLists : queue = FreeSeeds(seeds)
  /\ queue # <<>>
  /\ o = NewOracle(Root, 0, cfg.store)
  /\ boxes = <<>> /\ nextId = 0 /\ cooling = <<>> /\ pairFail = <<>>
  /\ pc = "roots" /\ batch = NoBatch /\ chain = NoChain
  /\ miss = 0 /\ round = 0 /\ twice = {}

Full(bs) == Len(bs) >= cfg.maxBoxes

\* The root loop: one box per root seed, without a cover check.  Root ids are
\* only compared, so the seeds are numbered downwards.
GrowRoot ==
  /\ pc = "roots" /\ queue # <<>> /\ ~Full(boxes)
  /\ \E s \in CreateBox(boxes, o, nextId, cooling, Head(queue), -1, Len(queue), cfg.depth) :
       Take(s)
  /\ queue' = Tail(queue)
  /\ UNCHANGED <<occ, cfg, pairFail, pc, batch, chain, miss, round>>

\* The frontier queue starts as all boxes in order.
RootsGrown ==
  /\ pc = "roots" /\ (queue = <<>> \/ Full(boxes))
  /\ pc' = IF cfg.wave THEN "wave" ELSE IF cfg.boot > 0 THEN "boot" ELSE "loop"
  /\ queue' = IF cfg.wave \/ cfg.boot > 0 THEN [i \in DOMAIN boxes |-> boxes[i].id] ELSE <<>>
  /\ UNCHANGED <<occ, cfg, o, boxes, nextId, cooling, pairFail, batch, chain, miss, round, twice>>

\* frontwave_bootstrap: the faces of the front box, one after the other; a
\* covered seed is skipped, a failure counts as a miss.
BootFront ==
  /\ pc = "boot" /\ batch.todo = <<>>
  /\ queue # <<>> /\ Len(boxes) < cfg.boot /\ miss < cfg.maxMiss
  /\ LET front == BoxOf(boxes, Head(queue)) IN
     \E qs \in SetToSeqs(FaceSeeds(front.at)) :
       batch' = [NoBatch EXCEPT !.todo = [i \in DOMAIN qs |->
                                            Task(qs[i], front.id, front.root, NoTarget)]]
  /\ queue' = Tail(queue)
  /\ UNCHANGED <<occ, cfg, o, boxes, nextId, cooling, pairFail, pc, chain, miss, round, twice>>
BootFace ==
  /\ pc = "boot" /\ batch.todo # <<>> /\ Len(boxes) < cfg.boot
  /\ LET t == Head(batch.todo) IN
     \/ /\ Covered(boxes, t.seed)
        /\ UNCHANGED <<boxes, o, nextId, cooling, twice, queue, miss>>
     \/ /\ ~Covered(boxes, t.seed)
        /\ \E s \in CreateBox(boxes, o, nextId, cooling, t.seed, t.parent, t.root, cfg.depth) :
             /\ Take(s)
             /\ queue' = IF s.ok THEN Append(queue, s.nextId - 1) ELSE queue
             /\ miss' = IF s.ok THEN 0 ELSE miss + 1
  /\ batch' = [batch EXCEPT !.todo = Tail(@)]
  /\ UNCHANGED <<occ, cfg, pairFail, pc, chain, round>>
BootDone ==
  /\ pc = "boot"
  /\ \/ Len(boxes) >= cfg.boot
     \/ batch.todo = <<>> /\ (queue = <<>> \/ miss >= cfg.maxMiss)
  /\ pc' = "loop" /\ queue' = <<>> /\ miss' = 0 /\ batch' = NoBatch
  /\ UNCHANGED <<occ, cfg, o, boxes, nextId, cooling, pairFail, chain, round, twice>>

----------------------------------------------------------------------------
(* The main loop.                                                          *)

Looping == /\ pc = "loop" /\ boxes # <<>> /\ ~Full(boxes) /\ miss < cfg.maxMiss
           /\ ~(cfg.connect /\ cfg.stopConnected /\ Connected(boxes))
LoopDone ==
  /\ pc = "loop" /\ ~Looping
  /\ pc' = "merge"
  /\ UNCHANGED <<occ, cfg, o, boxes, nextId, cooling, pairFail, queue, batch, chain, miss, round,
                 twice>>

\* A connected result of a task starts a chain of boxes towards the target's
\* component, before the next result is looked at.
ChainFor(t, ok, back) ==
  IF ok /\ t.target # NoTarget /\ cfg.chain > 0
  THEN [NoChain EXCEPT !.src = t.root, !.back = back] ELSE NoChain
PcFor(t, ok, back) == IF ok /\ t.target # NoTarget /\ cfg.chain > 0 THEN "chain" ELSE back

\* One task at a time: no executor threads, or a batch of one.
GrowOne ==
  /\ Looping /\ cfg.batch = 1
  /\ \/ /\ Tasks(boxes) = {}
        /\ miss' = miss + 1
        /\ UNCHANGED <<o, boxes, nextId, cooling, twice, pairFail, pc, chain>>
     \/ \E t \in Tasks(boxes) :
        \E s \in CreateBox(boxes, o, nextId, cooling, t.seed, t.parent, t.root, TaskDepth(t)) :
          /\ Take(s)
          /\ miss' = IF s.ok THEN 0 ELSE miss + 1
          /\ pairFail' = Paired(t, s.ok, s.ans.cap)
          /\ chain' = ChainFor(t, s.ok, "loop")
          /\ pc' = PcFor(t, s.ok, "loop")
  /\ UNCHANGED <<occ, cfg, queue, batch, round>>

\* make_growth_tasks, the filter: covered seeds and cooling leaves are
\* dropped, an unreserved leaf is given to the first task in it, and with
\* workers a task without a leaf is dropped.
FilterTask(acc, t) ==
  LET leaf == LeafContaining(o, t.seed)
      cool == CheckedCooling(acc.cooling, leaf, Len(boxes))
      given == IF IsReserved(o, leaf) \/ leaf \in acc.used THEN NoNode ELSE leaf
  IN IF CoolingOn /\ InCooling(cool, leaf, cfg.depth, Len(boxes))
       THEN [acc EXCEPT !.cooling = cool]
     ELSE [cooling |-> IF CoolingOn THEN cool ELSE acc.cooling,
           used |-> acc.used \cup ({given} \ {NoNode}),
           out |-> IF cfg.local /\ given = NoNode THEN acc.out
                   ELSE Append(acc.out, [t EXCEPT !.dom = given])]
Filter(ts) ==
  LET acc[k \in 0..Len(ts)] == IF k = 0 THEN [cooling |-> cooling, used |-> {}, out |-> <<>>]
                               ELSE FilterTask(acc[k - 1], ts[k])
  IN acc[Len(ts)]

\* run_worker_ffb_tasks: every task is searched in a session on its own leaf,
\* then the sessions of the answered tasks are replayed into the master in
\* order and the answers' nodes translated.
WorkerAnswers(t) ==
  {[seed |-> t.seed, parent |-> t.parent, root |-> t.root, target |-> t.target,
    dom |-> t.dom, ans |-> a, accepted |-> a.found] :
     a \in Find(Session(o, t.dom), occ, t.seed, Options(TaskDepth(t)))}
\* The answers every choice of one answer per task gives.
AllAnswers(ts) ==
  LET set == UNION {WorkerAnswers(ts[i]) : i \in DOMAIN ts}
  IN {f \in [DOMAIN ts -> set] : \A i \in DOMAIN ts : f[i] \in WorkerAnswers(ts[i])}
AdoptUntranslated(acc, res) ==
  IF ~res.accepted THEN [acc EXCEPT !.out = Append(@, res)]
  ELSE [o |-> Replay(acc.o, res.ans.o, res.dom).o, out |-> Append(acc.out, res)]
Adopt(acc, res) ==
  LET rep == Replay(acc.o, res.ans.o, res.dom)
      a == res.ans
      node == IF a.node \in DOMAIN rep.map THEN rep.map[a.node] ELSE NoNode
      translated == Answer(a.o, a.found, node, a.at, a.code, a.cap)
  IN IF ~res.accepted THEN [acc EXCEPT !.out = Append(@, res)]
     ELSE [o |-> rep.o,
           out |-> Append(acc.out, [res EXCEPT !.ans = translated, !.accepted = node # NoNode])]
WorkerBatch(f) ==
  LET acc[k \in 0..Len(f)] == IF k = 0 THEN [o |-> o, out |-> <<>>] ELSE Adopt(acc[k - 1], f[k])
  IN acc[Len(f)]

\* The planning of a batch and the parallel searches, up to the first commit.
GrowBatch ==
  /\ Looping /\ cfg.batch > 1
  /\ LET n == Lowest({cfg.batch, cfg.maxBoxes - Len(boxes)})
         all == Tasks(boxes)
     IN IF all = {}
        THEN /\ miss' = miss + 1
             /\ UNCHANGED <<o, cooling, pc, batch>>
        ELSE \E ts \in [1..n -> all] :
          LET plan == Filter(ts)
          IN /\ cooling' = plan.cooling
             /\ \/ /\ plan.out = <<>>
                   /\ miss' = miss + 1
                   /\ UNCHANGED <<o, pc, batch>>
                \/ /\ plan.out # <<>> /\ cfg.local
                   /\ \E f \in AllAnswers(plan.out) :
                        /\ o' = WorkerBatch(f).o
                        /\ batch' = [NoBatch EXCEPT !.todo = WorkerBatch(f).out]
                   /\ pc' = "results"
                   /\ UNCHANGED miss
                \/ /\ plan.out # <<>> /\ ~cfg.local
                   /\ batch' = [NoBatch EXCEPT !.todo = plan.out]
                   /\ pc' = "tasks"
                   /\ UNCHANGED <<o, miss>>
  /\ UNCHANGED <<occ, cfg, boxes, nextId, pairFail, queue, chain, round, twice>>

\* One result of the workers, committed against the boxes of this moment.
CommitResult ==
  /\ pc = "results" /\ batch.todo # <<>> /\ ~Full(boxes)
  /\ LET res == Head(batch.todo)
         s == CommitBox(boxes, o, nextId, cooling, res)
         ok == res.accepted /\ s.ok
     IN /\ IF ok THEN Take(s)
           ELSE /\ boxes' = boxes /\ o' = o /\ twice' = twice
                /\ nextId' = IF res.accepted THEN s.nextId ELSE nextId
                /\ cooling' = IF res.ans.found THEN cooling
                              ELSE RecordCooling(cooling, [res.ans EXCEPT !.node = res.dom],
                                                 res.dom, TaskDepth(res), Len(boxes))
        /\ pairFail' = Paired(res, ok, res.ans.cap)
        /\ batch' = [todo |-> Tail(batch.todo), ok |-> batch.ok \/ ok,
                     fails |-> batch.fails + (IF ok THEN 0 ELSE 1)]
        /\ chain' = ChainFor(res, ok, "results")
        /\ pc' = PcFor(res, ok, "results")
        /\ queue' = IF cfg.wave /\ ok THEN Append(queue, nextId) ELSE queue
        /\ miss' = IF ~cfg.wave THEN miss ELSE IF ok THEN 0 ELSE miss + 1
  /\ UNCHANGED <<occ, cfg, round>>

\* One task of a batch without workers.
GrowTask ==
  /\ pc = "tasks" /\ batch.todo # <<>> /\ ~Full(boxes)
  /\ LET t == Head(batch.todo) IN
     \E s \in CreateBox(boxes, o, nextId, cooling, t.seed, t.parent, t.root, TaskDepth(t)) :
       /\ Take(s)
       /\ pairFail' = Paired(t, s.ok, s.ans.cap)
       /\ batch' = [todo |-> Tail(batch.todo), ok |-> batch.ok \/ s.ok,
                    fails |-> batch.fails + (IF s.ok THEN 0 ELSE 1)]
       /\ chain' = ChainFor(t, s.ok, "tasks")
       /\ pc' = PcFor(t, s.ok, "tasks")
       /\ queue' = IF cfg.wave /\ s.ok THEN Append(queue, s.nextId - 1) ELSE queue
       /\ miss' = IF ~cfg.wave THEN miss ELSE IF s.ok THEN 0 ELSE miss + 1
  /\ UNCHANGED <<occ, cfg, round>>

BatchDoneAsHit ==
  /\ pc \in {"results", "tasks"} /\ (batch.todo = <<>> \/ Full(boxes))
  /\ miss' = 0 /\ batch' = NoBatch
  /\ pc' = IF cfg.wave THEN "wave" ELSE "loop"
  /\ UNCHANGED <<occ, cfg, o, boxes, nextId, cooling, pairFail, queue, chain, round, twice>>
BatchDone ==
  /\ pc \in {"results", "tasks"} /\ (batch.todo = <<>> \/ Full(boxes))
  /\ miss' = IF cfg.wave THEN miss
             ELSE IF batch.ok THEN 0 ELSE miss + Highest({1, batch.fails})
  /\ batch' = NoBatch
  /\ pc' = IF cfg.wave THEN "wave" ELSE "loop"
  /\ UNCHANGED <<occ, cfg, o, boxes, nextId, cooling, pairFail, queue, chain, round, twice>>

ChainOverUnbounded ==
  \/ chain.steps >= cfg.chain \/ Connected(boxes) \/ chain.fails >= 2
  \/ ConnectTasks(boxes, {chain.src}) = {}
\* grow_component_connect_chain: one link.
ChainOver ==
  \/ chain.steps >= cfg.chain \/ chain.added >= cfg.chain \/ Full(boxes)
  \/ Connected(boxes) \/ chain.fails >= 2
  \/ ConnectTasks(boxes, {chain.src}) = {}
GrowChain ==
  /\ pc = "chain" /\ ~ChainOver
  /\ \E t \in ConnectTasks(boxes, {chain.src}) :
     \E s \in CreateBox(boxes, o, nextId, cooling, t.seed, t.parent, t.root, TaskDepth(t)) :
       /\ Take(s)
       /\ pairFail' = Paired(t, s.ok, s.ans.cap)
       /\ chain' = [chain EXCEPT !.steps = @ + 1,
                                 !.added = IF s.ok THEN @ + 1 ELSE @,
                                 !.fails = IF s.ok THEN 0 ELSE @ + 1,
                                 !.src = IF s.ok THEN t.root ELSE @]
  /\ UNCHANGED <<occ, cfg, pc, queue, batch, miss, round>>
ChainDone ==
  /\ pc = "chain" /\ ChainOver
  /\ pc' = chain.back /\ chain' = NoChain
  /\ UNCHANGED <<occ, cfg, o, boxes, nextId, cooling, pairFail, queue, batch, miss, round, twice>>

----------------------------------------------------------------------------
(* The wave front.                                                         *)

Waving == pc = "wave" /\ queue # <<>> /\ ~Full(boxes) /\ miss < cfg.maxMiss
WaveTask(front, q) == Task(q, front.id, front.root, NoTarget)
\* The tasks of a front box: uncovered faces, each with its leaf if that is
\* unreserved and not yet given.
PlanTask(acc, t) ==
  LET leaf == LeafContaining(o, t.seed)
      given == IF IsReserved(o, leaf) \/ leaf \in acc.used THEN NoNode ELSE leaf
  IN IF Covered(boxes, t.seed) THEN acc
     ELSE [used |-> acc.used \cup ({given} \ {NoNode}),
           out |-> Append(acc.out, [t EXCEPT !.dom = given])]
WavePlan(ts) ==
  LET acc[k \in 0..Len(ts)] == IF k = 0 THEN [used |-> {}, out |-> <<>>]
                               ELSE PlanTask(acc[k - 1], ts[k])
  IN acc[Len(ts)].out
WaveFront ==
  /\ Waving
  /\ \E qs \in SetToSeqs(FaceSeeds(BoxOf(boxes, Head(queue)).at)) :
       LET ts == [i \in DOMAIN qs |-> WaveTask(BoxOf(boxes, Head(queue)), qs[i])]
           plan == WavePlan(ts)
           workers == /\ cfg.local /\ Len(ts) > 1 /\ plan # <<>>
                      /\ \A i \in DOMAIN plan : plan[i].dom # NoNode
       IN \/ /\ workers
             /\ \E f \in AllAnswers(plan) :
                  /\ o' = WorkerBatch(f).o
                  /\ batch' = [NoBatch EXCEPT !.todo = WorkerBatch(f).out]
             /\ pc' = "results"
          \/ /\ ~workers
             /\ batch' = [NoBatch EXCEPT !.todo = ts]
             /\ pc' = "tasks"
             /\ UNCHANGED o
  /\ queue' = Tail(queue)
  /\ UNCHANGED <<occ, cfg, boxes, nextId, cooling, pairFail, chain, miss, round, twice>>
WaveDone ==
  /\ pc = "wave" /\ ~Waving
  /\ pc' = "merge" /\ queue' = <<>>
  /\ UNCHANGED <<occ, cfg, o, boxes, nextId, cooling, pairFail, batch, chain, miss, round, twice>>

----------------------------------------------------------------------------
(* The consolidator.                                                       *)

Hull(r, s) == <<Lowest({r[1], s[1]}), Highest({r[2], s[2]})>>
Protected(bs, i) == bs[i].id \in cfg.protect
\* A merged box takes the hull, forgets its node, and keeps its reservation;
\* the other box is released and erased.
MergeInto(s, i, j) ==
  LET merged == [s.boxes[i] EXCEPT !.at = Hull(@, s.boxes[j].at), !.node = NoNode]
  IN [boxes |-> RemoveAt([s.boxes EXCEPT ![i] = merged], j), o |-> ReleaseBox(s.o, s.boxes[j].id)]
MergePairs(bs) ==
  {p \in (DOMAIN bs) \X (DOMAIN bs) : /\ p[1] < p[2]
                                  /\ ~Protected(bs, p[1]) /\ ~Protected(bs, p[2])
                                  /\ Touching(bs[p[1]].at, bs[p[2]].at)}
FirstPair(P) == CHOOSE p \in P : \A q \in P : p[1] < q[1] \/ (p[1] = q[1] /\ p[2] <= q[2])
\* On a line any touching pair that differs does so in one dimension only.
ExactMerge(s) == LET P == {p \in MergePairs(s.boxes) : s.boxes[p[1]].at # s.boxes[p[2]].at}
                 IN IF P = {} THEN s ELSE MergeInto(s, FirstPair(P)[1], FirstPair(P)[2])
\* The hull's volume over the volumes of the two.
Volume(r) == r[2] - r[1] + 1
PairHull(bs, p) == Hull(bs[p[1]].at, bs[p[2]].at)
PairVolume(bs, p) == Volume(bs[p[1]].at) + Volume(bs[p[2]].at)
ScoreAllows(bs, p) == 100 * Volume(PairHull(bs, p)) <= cfg.score * PairVolume(bs, p)
\* Candidates are tried by score, then by the ids of the two boxes.
TriedBefore(bs, p, q) ==
  LET x == Volume(PairHull(bs, p)) * PairVolume(bs, q)
      y == Volume(PairHull(bs, q)) * PairVolume(bs, p)
  IN \/ x < y
     \/ x = y /\ bs[p[1]].id < bs[q[1]].id
     \/ x = y /\ bs[p[1]].id = bs[q[1]].id /\ bs[p[2]].id < bs[q[2]].id
\* The first candidate whose hull the oracle validates is applied.
GreedyMerges(s) ==
  LET valid == {p \in MergePairs(s.boxes) : /\ ScoreAllows(s.boxes, p)
                                            /\ Free(occ, PairHull(s.boxes, p))}
      first == {p \in valid : \A q \in valid : ~TriedBefore(s.boxes, q, p)}
  IN IF valid = {} THEN {s} ELSE {MergeInto(s, p[1], p[2]) : p \in first}
\* prune_contained: boxes in order, each against all that are left.
PruneStep(s) ==
  LET C == {i \in DOMAIN s.boxes : /\ ~Protected(s.boxes, i)
                                   /\ \E j \in DOMAIN s.boxes \ {i} :
                                        Inside(s.boxes[i].at, s.boxes[j].at)}
  IN IF C = {} THEN s
     ELSE [boxes |-> RemoveAt(s.boxes, Lowest(C)), o |-> ReleaseBox(s.o, s.boxes[Lowest(C)].id)]
PruneAtOnce(s) ==
  LET keep(b) == \/ b.id \in cfg.protect
                 \/ \A i \in DOMAIN s.boxes : s.boxes[i].id # b.id => ~Inside(b.at, s.boxes[i].at)
  IN [s EXCEPT !.boxes = SelectSeq(@, keep)]
Prune(s) ==
  LET after[k \in 0..Len(s.boxes)] == IF k = 0 THEN s ELSE PruneStep(after[k - 1])
  IN after[Len(s.boxes)]

\* A stop within the round skips the greedy merge and ends the rounds.
MergeRound ==
  /\ pc = "merge" /\ round < cfg.mergeRounds
  /\ \E stop \in BOOLEAN :
       LET start == [boxes |-> boxes, o |-> o]
           exact == IF "exact" \in cfg.merge THEN ExactMerge(start) ELSE start
       IN \E s \in IF stop \/ "greedy" \notin cfg.merge THEN {exact} ELSE GreedyMerges(exact) :
            LET end == IF "prune" \in cfg.merge THEN Prune(s) ELSE s
            IN /\ boxes' = end.boxes /\ o' = end.o
               /\ pc' = IF \/ stop
                           \/ Len(end.boxes) = Len(boxes)
                           \/ cfg.targetBoxes > 0 /\ Len(end.boxes) <= cfg.targetBoxes
                        THEN "done" ELSE "merge"
  /\ round' = round + 1
  /\ UNCHANGED <<occ, cfg, nextId, cooling, pairFail, queue, batch, chain, miss, twice>>
\* The rounds are used up, or a stop comes before the next.
MergeDone ==
  /\ pc = "merge"
  /\ pc' = "done"
  /\ UNCHANGED <<occ, cfg, o, boxes, nextId, cooling, pairFail, queue, batch, chain, miss, round,
                 twice>>

\* should_stop and the timeout end the growing loops before any step; what is
\* left of a batch is dropped.
Interrupt ==
  /\ pc \in {"roots", "boot", "loop", "results", "tasks", "chain", "wave"}
  /\ pc' = "merge" /\ batch' = NoBatch /\ chain' = NoChain /\ queue' = <<>>
  /\ UNCHANGED <<occ, cfg, o, boxes, nextId, cooling, pairFail, miss, round, twice>>

Grow == \/ GrowRoot \/ RootsGrown \/ BootFront \/ BootFace \/ BootDone
        \/ GrowOne \/ GrowBatch \/ CommitResult \/ GrowTask \/ BatchDone \/ LoopDone
        \/ GrowChain \/ ChainDone
        \/ WaveFront \/ WaveDone
        \/ MergeRound \/ MergeDone
\* grow and consolidate have returned.
Returned == pc = "done" /\ UNCHANGED vars
Next == Grow \/ Interrupt \/ Returned
Spec == Init /\ [][Next]_vars
\* The calling thread goes on until it returns: weak fairness of Next, whose
\* steps that change something are enabled until pc is "done".
FairSpec == Spec /\ ([]<>(pc = "done") \/ []<><<TRUE>>_vars)

----------------------------------------------------------------------------
(* Properties.                                                             *)

\* The variables hold what the code's types allow: boxes are regions of the
\* tree with ids already given out, reservations name nodes of the tree.
TypeOK ==
  /\ pc \in {"roots", "boot", "loop", "results", "tasks", "chain", "wave", "merge", "done"}
  /\ nextId \in Nat /\ miss \in Nat /\ round \in 0..cfg.mergeRounds
  /\ \A i \in DOMAIN boxes : /\ boxes[i].at \in Units \X Units
                              /\ boxes[i].id \in 0..nextId - 1
                              /\ boxes[i].node \in Nodes(o) \cup {NoNode}
  /\ DOMAIN o.boxOf \subseteq Nodes(o)
  /\ \A n \in Nodes(o) : IsLeaf(o, n) \/ {o.tree[n].left, o.tree[n].right} \subseteq Nodes(o)

\* A committed box holds no obstacle: "A collision-free axis-aligned box in
\* configuration space" (types.h, BoxNode).
CertifiedBoxesFree == \A i \in DOMAIN boxes : \A u \in occ : ~Within(u, boxes[i].at)

\* Stored evidence is read only for the region it is of: not so where a
\* bisection over virtual cells asks about each of them under the root's id.
EvidenceFits == cfg.ffb.mode = "virtual" => cfg.store = FALSE
\* Where it is, the certified boxes hold no obstacle, whichever worker found
\* them on whichever snapshot (grower.cpp:2195-2420, find_free_box.cpp:205-712).
BoxesFree == EvidenceFits => CertifiedBoxesFree

\* A box's node is the cell the box is, on the master, also when a worker
\* found it under other node ids.
NodesMatchBoxes ==
  \A i \in DOMAIN boxes : boxes[i].node # NoNode => Region(o, boxes[i].node) = boxes[i].at

Overlap(r, s) == r[1] <= s[2] /\ s[1] <= r[2]
\* Boxes overlap only where a root seed was planted in a cell already boxed, or
\* where a deadline cut a bisection short: the reservation keeps a linear search
\* out of a taken cell, the bisection finds the same largest free cell again.
BoxesDisjoint ==
  \/ cfg.ffb.deadline /\ cfg.ffb.mode # "linear"
  \/   \A i, j \in DOMAIN boxes :
    i < j /\ Overlap(boxes[i].at, boxes[j].at) => boxes[j].parent = -1

\* A box that still has its node holds that node's reservation, unless the
\* node was reserved for a second box.
ReservationsExact ==
  \A i \in DOMAIN boxes :
    LET n == boxes[i].node
    IN n # NoNode /\ n \notin twice => n \in DOMAIN o.boxOf /\ o.boxOf[n] = boxes[i].id

\* Every reservation is held for a box that lives and covers the cell.
NoOrphanReservation ==
  \A n \in DOMAIN o.boxOf :
    \E i \in DOMAIN boxes : boxes[i].id = o.boxOf[n] /\ Inside(Region(o, n), boxes[i].at)

\* No batch, chain or bootstrap front grows past max_boxes, nested in each
\* other as they are.
MaxBoxesHeld == Len(boxes) <= cfg.maxBoxes

Cover(bs) == UNION {bs[i].at[1]..bs[i].at[2] : i \in DOMAIN bs}
\* Consolidation uncovers nothing, whatever is merged and erased in a round and
\* wherever a stop cuts it. It may cover more, by hulls over several joints.
MergeUncoversNothing == [][pc = "merge" => Cover(boxes) \subseteq Cover(boxes')]_vars

\* Growing and consolidating end without a timeout.
GrowthEnds == <>(pc = "done")

\* Boxes and nodes of the oracle's tree are held together by the reservations:
\* each box lies on its node, which is reserved for it and for nothing that is
\* gone (oracle.cpp:2199-2240, 2300-2400, grower.cpp:2195-2420).
NodesExact == TypeOK /\ NodesMatchBoxes /\ ReservationsExact /\ NoOrphanReservation
=============================================================================
