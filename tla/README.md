# A verification of RapidBoxForest

RapidBoxForest plans motions in a forest of collision-free boxes of a robot's
configuration space.  This directory holds TLA+ models of the parts of it whose
correctness depends on *orders of events* - threads of the worker pool, writes
and restarts of the database, sequences of scene edits, searches that run against
a snapshot of a forest that moves on - with the TLC configurations that check them
and the TLAPS proofs about them.  The interval arithmetic underneath is taken as
given.

Contents: 1 the system, 2 the models, 3 the runs, 4 the findings, 5 the proofs,
6 what is not modelled, 7 the plan.

How to run things, in this directory (`M` a module, `X` a configuration):

    tlasany M.tla
    tlc -workers 2 -config X.cfg MCThreadPoolExecutor.tla   # TP*.cfg
    tlc -workers 2 -config X.cfg MCLectDatabase.tla         # DB*.cfg
    tlc -workers 2 -config X.cfg MCDynamicScene.tla         # Dyn*.cfg
    tlc -workers 2 -config X.cfg MCGridPartition.tla        # Grid*.cfg
    tlc -workers 2 -config X.cfg MCForestGrowth.tla         # Growth.cfg, ProbeReuse.cfg
    tlc -workers 2 -config X.cfg MCDeepCover.tla            # Sweeps.cfg, Cover*.cfg, STimeout.cfg
    tlc -workers 2 -config X.cfg MCPlanning.tla             # Planning.cfg
    tlapm M.tla                                             # the modules *Proofs

`PROJECT.json` says which source lines every definition stands for, which
mutation of the code every property detects, and where each hazard of section 1
bites.

## 1. The system

Three C++ packages, `safe_box_forest -> lect_database -> link_interval_envelope`.
Everything below runs on one thread unless it says otherwise; the only threads are
those of the worker pool, of `batch.cpp` and of whoever shares an evidence cache.

| component | state | operations | hard part, and what correct means |
|---|---|---|---|
| worker pool (`runtime.cpp`) | the batch `next_`, `remaining_`, `end_`, `fn_`, flags `has_work_`, `stop_`, `first_error_`; one mutex, two condition variables | `parallel_for`, `worker_loop`, destruction | the batch is read and advanced without the mutex, so a worker late from one batch meets the next; each item once, inside its call, its own error and no other; every call returns, nested calls are refused |
| LECT database (`database.cpp`) | rows of a binary tree on node pages, evidence index, resident records; files: manifest, pages, evidence store, index sidecar, journal | `open`, `split_leaf`, `split_to_box`, `put_evidence`, `evidence`, `delete_node_payloads`, bulk mode, `checkpoint`, destructor | a call is a sequence of file changes and may be cut between any two; what was acknowledged is read back, the tree that returns is a tree, the journal is cut only when nothing needs it |
| oracle (`sbf/oracle.cpp`) | tree of cells, reservations, certificates; private trees of worker sessions | split, validate, reserve, release, commit of a session | a session replays its splits into the master's tree and renames its nodes; two holders of one node |
| `find_free_box.cpp` | - | linear, scheduled and binary descent | the result is free, unreserved, contains the seed, whenever the deadline strikes |
| grower (`grower.cpp`), merger (`merger.cpp`) | boxes, frontier, failure counts; rounds of merge candidates | root seeds, frontier, chains, worker batches; collect, validate, apply, prune | searches run against a snapshot and later results overlap boxes committed first; limits checked in some of the nested loops only; termination |
| leaf sweep (`leaf_sweep_grower.cpp`) | pending cells, free and collision boxes | `run`, `run_single_group`, composition of obstacle groups, batches, checkpoints | order of results must not matter; nothing lost when a cap or the deadline cuts it |
| facade, building (`safe_box_forest.cpp`) | `boxes_`, priority queue, held items, coverage snapshots | `build_leaf_sweep`, `build_adaptive_deep_leaf_sweep_cover` | items that wait beside the frontier, boxes that no graph has yet, a report about a forest that is edited after it |
| facade, dynamic obstacles | scene, boxes, adjacency, segment edges, reservations, cache of colliding leaves with its index and count | `add_obstacle(s)_and_rebuild`, `remove_obstacle(_suffix)_and_regrow`, `clear_forest` | six structures describe the same boxes; obstacle indices shift, box ids are reused, promotion does not check collisions |
| adaptive grid partition | cells, neighbour lists, islands, overlay union-find | rebuild, append, remove, merge, dominance | every structure is maintained incrementally by one path and rebuilt by another |
| box graph, connector (`box_graph.cpp`, `connector.cpp`) | adjacency, segment edges; pairs of islands | frontier bridging, rounds of pairs on the pool, chain paving, gap segments | a round commits paths that were found before the commits of the round |
| facade, queries (`query.cpp`, `safe_box_forest.cpp`) | query cache, dirty flag, path and verdict | `query`, `bridge_query`, `refine_query_corridor`, `connect_query_endpoint...`, `bridge_queries` | each stage replaces the path and the verdict of the one before; the cache is marked dirty by hand; strict success means an audited path |
| not modelled | | parent hulls, read snapshots, canonicalisation, evidence cache, cache tree, link envelope, bindings | see section 6 |

## 2. The models

| module | models | extends |
|---|---|---|
| `ParallelFor` | the contract of `TaskExecutor::parallel_for` (abstract) | |
| `ThreadPoolExecutor` | the pool and its owner, one action per critical section or atomic access; `Contract` is the refinement mapping | |
| `LectDatabase` | the database's durability | |
| `DynamicScene` | the forest under scene edits (adjacency backend) | |
| `GridPartition` | the partition, and the facade that keeps it in step with the forest | |
| `BoxOracle`, `FreeBoxSearch`, `ForestGrowth` | the oracle and its sessions; the searches; the growers and the consolidator | each the one before |
| `LeafSweep`, `DeepCover` | the sweep; the builds on top of it | each the one before |
| `BoxGraph`, `PlanningForest` | boxes, graph, checks; the forest shared by what follows | each the one before |
| `IslandConnector`, `CorridorQuery` | connecting the islands; a query | `PlanningForest` |
| `QueryBridges`, `QueryBatch`, `Planning` | the calls that extend the forest for a query; the batch; all of it in one system | each the one before |
| `MC...` | values of the constants for TLC | |
| `DataLemmas` | induction, recursion and sequences, for the proofs | |
| `ThreadPoolExecutorProofs`, `LectDatabaseProofs`, `LectRecoveryProofs`, `DynamicSceneProofs`, `GridPartitionProofs`, `ForestGrowthProofs`, `LeafSweepProofs` | the theorems of section 5 | |

Definitions with a name like `CompareOffByOne` or `RemapUnshifted` that no action
uses are wrong versions of the definition that follows them; each is what one
property must detect (`PROJECT.json`, "mutants").

### ThreadPoolExecutor

The variables `next_ ... first_error_` are the fields of the class; `pc[w]`, `item[w]`
and `job[w]` are where a worker is, its local `item`, and the call whose `fn` it
invoked; `caller` is where the owner is; `started`, `repeated`, `finished` and
`threw` are history.

| action | code |
|---|---|
| `InlineCall`, `RejectCall`, `InstallBatch`, `NotifyBatch` | `parallel_for` up to the notification: inline path, refusal of a pool that is in use, batch under the mutex, `notify_all` |
| `CallerSleep`, `CallerReturn` | the wait for `remaining_ == 0`; clearing of `fn_` and `has_work_`, rethrow |
| `WorkerSleep`, `WorkerEnter`, `WorkerExit` | the wait for `stop_ \|\| has_work_` |
| `Fetch`, `CompareDone`, `CompareTake` | `next_.fetch_add(1)`, and - a separate step - the comparison with `end_` |
| `Invoke`, `InvokeEmpty`, `TaskReturn`, `TaskThrow`, `CatchError` | `fn_(item)`, an empty `fn_`, how it ends, `first_error_` under the mutex |
| `CountOff`, `LastWorker` | `remaining_.fetch_sub(1) == 1`, and - a separate step - the critical section that clears `has_work_` and notifies |
| `DestroyStop`, `DestroyNotify`, `DestroyJoin`, `SpuriousWake` | the destructor; a `wait` that returns without a notification |

`end_` and `fn_` are plain fields read without the mutex; a worker sees the value of
the moment.  A compiled `fn_` copied while it is being replaced would be worse, so
every violation found here stands.  `next_` is an int of which `IntMax` is the largest;
`AfterIntMax` chooses between two's complement (`Wrapping`) and a largest value that
stands for all larger ones (`Saturating`).

### LectDatabase

`db` is the `LectDatabase` object; `manifest, pages, tmps, store, torn, sidecar, journal`
are the directory; `todo` is what the running call has still to do to it.  A call
(`SplitLeaf`, `SplitToBox`, `PutEvidence`, `DeletePayload`, `ReadEvidence`, `SetBulk`,
`Checkpoint`) changes `db` and queues its file changes in the order of the code, trim
of the record cache and incremental flush included; `RemoveFile`, `RenameFile`,
`FlushStream`, `AppendJournal`, `TruncateJournalFile` and `ReturnFromCall` perform them
one at a time, so that `Kill` may strike between any two.  `Close` is the destructor,
which saves no node page.  `OpenExisting` is `open` on a directory with a manifest:
page files, sidecar if its size matches, otherwise a scan of the store, then replay of
the journal; `OpenWithoutManifest` creates or refuses.  `expected` records which values a
read may return, `grown` the paths a split call has returned, and `risks` what was done
that recovery is not sure to survive: `"unsaved"`, a split left in dirty pages or a kill;
`"unjournaled"`, bulk mode, a deletion, or a kill inside `replace_file`.

### DynamicScene and GridPartition

In `DynamicScene` the configuration space is a line of 2^MaxDepth cells and a box is a
node of the binary tree over it.  An obstacle is the set of cells where the oracle
validates a collision (`Covers`) and a superset where `CheckBox`, the more conservative
box check that insertions use, reports one (`Flags`).  A step is one public method, run
to the end: `BuildLeafSweep`, `ClearForest`, `AddSegmentEdge`, `AddObstacle(s)`,
`RemoveObstacle(Suffix)`.  The configuration is `partition_native` off, merger off,
commit policy satisfied, `local_regrow_box_limit` 0, sectors not canonical.

The refill of a removed box pops the nodes below it in preorder (`Pops`) and breaks at
a limit, `MaxPops`, of which the code has one per box, `max(64, 4 * 2^min(depth+1, 12))`
(10006); what was not popped by then is given up, neither box nor cached leaf
(10031-10034).  `CutCells` are the cells of the boxes where that happens.

`GridPartition` takes the other backend: its cells stand for boxes over a grid of two
root copies, and every public method of the facade that touches the partition is an
action.  What it maintains step by step is compared with what it is derived from:
neighbour lists with the cells that touch; islands, counters and overlay union-find with
the components of the neighbour lists and overlay edges it *has*.  That is not in every
case what a rebuild would compute.  Two cells of one root that overlap are linked by a
rebuild (2036-2040) and by an append only if faces meet as well (1837-1859), so
`PartitionExact` says of such a pair only that a link, if there is one, is mutual, and the
islands of a maintained partition may be finer than those of a rebuilt one.

### ForestGrowth, LeafSweep, DeepCover

`ForestGrowth` is one joint of 2^Res units.  `BoxOracle` keeps the tree, the
reservations and the certificates in a record, because a worker session has an oracle of
its own; `FreeBoxSearch` maps an oracle and a seed to the answers a search may give.  A
step is one turn of a loop: a root seed, a frontier box, one result of a worker batch, a
link of a chain, a round of the consolidator.  Random targets and faces are arbitrary,
and a stop may come before any step.

`LeafSweep` validates the cells of a tree from a start depth down, for each cluster of
obstacles, inline, in batches, over a domain, with caps, checkpoints and a deadline.
`DeepCover` wraps it in the builds of the facade: merge, refinement by priority, coverage
snapshots, promotion, budgets, deadline.  The score is in hundredths, with a table
for the logarithm; ties in the queue are resolved arbitrarily; the overlap threshold
decays by one per depth (0.04 in the code); the overlap ratio and its least threshold,
off by default, anchor probes and timings are left out; a build starts from an empty
forest.

### Planning

A plane lattice, Manhattan lengths.  `IslandConnector` finds the paths of all pairs of a
round before it commits any; `CorridorQuery` is a step per popped node of Dijkstra, then
shortcut, extraction, audit, repair, simplification; `QueryBridges` has the five ways in
which `bridge_query` extends the forest, `refine_query_corridor`, and the two ways of
joining an endpoint; `QueryBatch` the anchors, tasks, workers and replay of
`bridge_queries`.  A plan of the environment (`Scenes`) says which calls come, in which
configuration.  `cached` is what the query cache was built from, or `Dirty`.  In bridging
calls `nearest_if_outside` is off, its default; the partition-path and hybrid stages of
`bridge_queries`, random detours and shortcuts, all off by default, are left out.

## 3. The runs

A property of a run is usually a conjunction of named parts; the second column says what
it adds up to.

| run | properties | bounds and what happens within them |
|---|---|---|
| `TPShrinking` (48 thousand states) | `CallsEnd`: the first call of a pool returns, and the destructor joins every worker | two workers, calls of 3, 2 and 1 items, every item may throw or call the pool again; the third call is the first that can meet workers of two earlier ones. It does not say that every call returns: a later call can lose its batch and hang (`TPLostBatch`) |
| `TPGrowing` (3 million) | `CallContract`: each item once, inside its call, own error only. `GuardExact`: nested calls refused, sequential ones never. `ImplementsParallelFor`: refinement of `ParallelFor`. Each of the three up to the moment a worker goes astray, and `CallContract` says that only two things lead astray: a call larger than the one before, and a wrapped `next_`. `RejectionIsPermanent`: once a sequential owner is refused, it is refused for good | calls of 2, 3, 2, 2 items, where late workers do claim items of the next call; `remaining_` is left at 1 and the two later calls show that nothing resets it |
| `TPLateClaim` | violates `EachItemAtMostOnce` | finding 1 |
| `DBStops` (3.7 million) | `StructureSurvives`: what `open` rebuilds is one tree with every acknowledged split. `IndexPointsAtRecord`. `OpensUnlessUnsaved`: `open` fails only after an unsaved split or a kill. `AckedUnlessUnjournaled`: reads return the acknowledged value but for bulk mode, deletions and half-replaced files. `TruncationSafe`: the journal is cut only when files hold all of it | depth 2 (7 nodes), one row per page, two appends per flush, one resident record, three calls of any kind, two stops, each a close or a kill at any file operation. Three calls are split, put, put: enough for a flush, an eviction and an overwrite before a stop; the second stop hits the recovery of the first |
| `DBTestReplay` | violates `OpenSucceeds` | finding 2 |
| `DynUpdates` (50 thousand) | `GraphExact`: adjacency and segment edges are what a rebuild gives. `BookkeepingExact`: nothing covered twice, reservations and blocker index exact. `UpdatesKeepBoxesFree`. `UpdatesKeepKnowledge`: renumbering keeps blame with its obstacle, insertion drops no region but below a box whose refill is cut short | 4 cells, 3 obstacles of different extents, at most 2 at a time, 2 segment edges, ids to 3, cache to 4, the cut-offs are guards; `MaxPops` 5, so that the refill of the whole line, 7 pops at most, is cut in some cases and completed in others, and that of half of it never cut (in the code a cut needs a tree of more than 13 levels below the removed box); ids are reused, indices shift, leaves are promoted at both depths and the cache compacts |
| `GridUpdates` (8 thousand) | `PartitionExact`: cells that touch without overlapping are neighbours, only touching ones are, mutually; islands, counters and overlay classes are the components of these links. `PartitionMirrorsForest`. `MergeKeepsCover`. `DominanceSound` | two dimensions, two root copies of 2 x 2 cells, 3 boxes, one segment edge; thresholds for the indexed and the union-find path at 3, so that both variants of each run (the code's are larger and change nothing else) |
| `GridStaleBuild` | violates `QueriesSeeTheForest` | finding 3 |
| `Growth` (131 thousand) | `NodesExact`: boxes, nodes and reservations agree. `BoxesFree`: certified boxes hold no obstacle. `BoxesDisjoint`. `MaxBoxesHeld`. `MergeUncoversNothing`: consolidation keeps covered what was covered. `GrowthEnds` | one joint of 64 units, tree of depth 4, seven configurations (frontier, batches with two sessions, chains, bootstrap, binary and linear descents; consolidation with each of its parts on and off, a score threshold below and above 1, a target count), five scenes, five seed lists; a stop before any step. `BoxesDisjoint` exempts what the code permits: root seeds given twice and binary searches cut by a deadline |
| `Sweeps` (73 thousand) | `SweepConserves`, `CoverConserves`: no unit lost or owned twice. `ResultSound`. `SameAsReference`: groups, batches, threads and checkpoints change nothing. `CoverSound`: free boxes, own ids, true report. `SnapshotsTrue`. `BuildEnds` | 16 units, depth 3 and 4, up to three obstacles, batches of 3, two root copies, caps of 1 and 2, `AdjacencyBatch` 2 (the code's constant is 512), so that a batch boundary falls inside a build |
| `CoverFast` | violates `ProfileCountsBoxes` | finding 4 |
| `Planning` (115 thousand) | `ForestSound`: certified boxes free, edges justified. `RoundSound`, `RoundsMakeProgress`: union-find and budget of a round. `SearchSound`: a corridor is found if there is one. `CertifiedCorridorsFree`. `StrictAnswers`. `BridgesSound`: gain is real. `CacheFresh`: no read sees a stale cache. `PlanningEnds` | five scenes x eleven connector configurations, each followed by queries (four configurations, four pairs of points); five scenes x two configurations of bridging calls in sequences of up to two, batches with three lists of tasks among them |

`CHECK_DEADLOCK FALSE` stands where a system really stops: the budget of calls and stops
is used up or `open` has failed (`DB*`), a build has returned.

More configurations, not among the runs of `PROJECT.json`, each of which ends in a
counterexample that section 4 explains: `TPLostBatch`, `DBBulkStale`, `DynOverlap`,
`ProbeReuse`, `STimeout`, `CoverDepthStop`.

### Fairness

- Pool: weak fairness of the owner and of each worker, not of spurious wakeups: threads
  are scheduled by the operating system, the mutex is handed on, and items return or
  throw (`CallsEnd` says nothing of items that hang).
- `ForestGrowth`, `DeepCover`, `Planning` are single-threaded at the level of the model:
  a call that is not returned goes on.  Their `FairSpec` says weak fairness of the
  next-state relation in a form without `ENABLED`: the system is in a final state, or
  takes a step, again and again.  The deadline of a build is outside the fair part:
  `BuildEnds` does not rely on it.
- Database, dynamic scene, partition: safety only.

## 4. Findings

The runs with a violation:

1. `TPLateClaim` (`runtime.cpp:158`).  A worker that fetched an index in one batch and
   was descheduled compares it with the `end_` of the next; if the next batch is
   larger, one of its items runs twice, concurrently, and `remaining_` ends wrong.
2. `DBTestReplay` (`database.cpp:3145`).  `split_leaf`, `put_evidence`, no checkpoint,
   close, open: `load_evidence` meets a record whose node is only in the journal, which
   is replayed later, and `open` fails.  The repository's test of this sequence passes
   because its small cache happens to evict the dirty page.
3. `GridStaleBuild` (`safe_box_forest.cpp:6847`).  Three builds replace the boxes but not
   the partition, which queries ask first.
4. `CoverFast` (`safe_box_forest.cpp:6884`).  In the fast mode the boxes that the
   checkpoint callback merged, connected and reported are overwritten.

The additional configurations:

- `TPLostBatch` (`runtime.cpp:169-175`): a late worker counts off an item of the next
  batch, clears `has_work_`, and the call never returns.
- `DBBulkStale` (`database.cpp:1702`): a value overwritten in bulk mode, which does not
  journal, is undone by the replay of an older journal entry.
- `DynOverlap` (`safe_box_forest.cpp:9801`): promotion without a collision check.  A leaf
  cached by an insertion blames only the obstacle just added; when two overlap and the
  second is removed, the promoted box lies in the first.  `UpdatesKeepBoxesFree` is
  therefore conditional on complete blame.
- `ProbeReuse` (`oracle.cpp:1783`, `find_free_box.cpp:172-203`): local evidence is keyed
  by node id; a `BinaryDepth` cell is stored under the key of its root, and a later probe
  takes it for the root's.  `bindings.cpp:344-345` switches the cache off for Python; the
  C++ defaults (`oracle.h:138-139`) leave it on.
- `STimeout` (`leaf_sweep_grower.cpp:1030`): `LeafSweepGrower.md:154` says that pending
  nodes count as collisions on a timeout; they are dropped.
- `CoverDepthStop` (`safe_box_forest.cpp:8389-8395`): items deeper than the checkpoint are
  held back; if the last shallow item ends the loop the held ones become unresolved and
  the report says `"max_depth"` below the target depth.

Also seen, no property: `next_` can wrap, idle workers increment it for as long as an
item runs (two workers, `IntMax = 3`, `AfterIntMax <- Wrapping` gives a negative index);
a torn record in the middle of the store makes every later `open` fail; a kill inside
`replace_file` leaves neither file; `add_obstacles` blames the first obstacle of its list
only; a freed leaf that touches no box is given up; a second deep build without a merger,
or with an empty shallow sweep, keeps the partition of the first (7834-7837); the
collision cache of a deep build holds shallow cells although they were refined (6886);
with several clusters and a cap on the collision boxes (6947), the box of one cluster at a
node where another dropped its own blames the first one only, so `BlameComplete` leaves
that case out.

## 5. The proofs

`tlapm` checks every proof with SMT (Z3), Zenon and LS4.  No fact is assumed but the
named assumptions on constants.

| theorem | says | assumptions |
|---|---|---|
| `CallsCorrect`, `GuardCorrect` | `CallContract`, `GuardExact` are invariants | -, whatever the sizes |
| `TypeCorrect` | types, `next_` within the int | - |
| `PoolImplementsContract` | until a worker goes astray, every step of the pool is a step of `ParallelFor` or none | -, whatever the sizes |
| `RejectionForGood` | `RejectionIsPermanent` | -, whatever the sizes and with wrapping |
| `IndexCorrect`, `TruncationCorrect` | `IndexPointsAtRecord`, `TruncationSafe`, with every stop and file operation | `LectAssumption` (the bounds are numbers) |
| `ReopeningCorrect` | `OpensUnlessUnsaved` | `LectAssumption` |
| `StructureCorrect`, `TypesCorrect` | `StructureSurvives` and `TypeOK`, with closes and kills anywhere but inside `replace_file` | `LectAssumption` |
| `AckedCorrect` | `AckedUnlessUnjournaled`: `evidence` answers the last value put, or that of a call a kill cut short | `LectAssumption` |
| `FindGood`, `FindFree` | what a search finds is the region of the node it names, and free; its tree extends the one before | the tree and its evidence are as the oracle keeps them |
| `ReplayGood` | replayed splits of a worker give nodes of the same regions, on a master that moved on | the worker began with the region of that leaf |
| `NodesAlwaysExact` | `NodesExact`, in growth and consolidation | `GrowthAssumption`: obstacles and seeds lie on the line, options are of their types, the bootstrap target is cut to `max_boxes` (grower.cpp:1572) |
| `NeverTooManyBoxes` | `MaxBoxesHeld` | the same |
| `BoxesStayFree` | `BoxesFree` | the same |
| `ConsolidationUncoversNothing` | `MergeUncoversNothing` | the same |
| `GraphCorrect` | `GraphExact` after any sequence of updates | depths, bounds and lists are what their names say; every cover lies in its flags; a batch is not empty (18887 returns early) |
| `UpdatesSafe` | `UpdatesKeepBoxesFree` | the same |
| `BookkeepingCorrect` | `BookkeepingExact` after any sequence of updates | the same |
| `KnowledgeKept` | `UpdatesKeepKnowledge`: removals and renumbering, insertions with refills cut short at any number of pops | the same |
| `PartitionShowsForest` | `PartitionMirrorsForest` after any sequence of calls of the facade | `RegionAssumption` (root copies, regions and sweeps are intervals, sequences of them), `ThresholdAssumption` (bounds are numbers, at least one round) |
| `MergesKeepCover` | `MergeKeepsCover` of `GridPartition`, wherever a deadline falls | the same |
| `SweepKeepsUnits`, `SweepResultSound` | `SweepConserves` and `ResultSound` (types, domain covered once, free boxes free, blame complete), for any scene, domain, number of threads and batches, caps, checkpoints, and wherever the deadline falls | `SweepsAssumption`: arguments are of their types and in the order `sweep` requires, copies of the root meet each unit of a virtual domain once, the split nodes form a tree |

**Pool.**  `astray` is a history variable: it is set when a call is installed while a worker
between fetch and comparison holds an index below its `end_`, and when `next_` wraps.
Nothing is claimed of what comes after, and `AstrayOnlyByGrowth`, a part of `CallContract`,
is what makes that a statement about the code: as long as no pooled call is larger than
an earlier one and `next_` does not wrap, nothing goes astray, so that the contract
holds without condition.  The contract is not inductive: a worker between fetch and
comparison, or between `remaining_` and `has_work_`, belongs to a batch that may be over.
`SafetyInv` is its strengthening: `BatchInv` (what the batch fields say in each state of the
owner), `CounterInv` (`remaining_` counts the items neither claimed nor counted off),
`ClaimInv` (whoever claims an item claims one of the running batch, below `next_`, that no
other claims - so a late worker claims none), `LateInv` (`end_` is the size of a pooled call
made so far), `HistoryInv`, `ResultInv`, `ErrorInv`.  `RejectedInv` is a different
invariant for a different theorem: once refused, `remaining_` stays above the workers
that will ever decrement it.  The refinement maps each step to at most one step of
`ParallelFor` by way of the same invariant.

**Database, while it runs.**  `DurabilityInv`: entries of the index point at records of
their path in store or buffer (`ValidIndex`); the queue of file changes is a suffix of
what one call queues, in order (`ChangesOk`); rows not in a page file are dirty or in
`todo` (`RowsSaved`, `PagesInPlace`).  TLC corrected it: the sidecar that `open` writes
indexes the store as it was before the replay, so a sidecar may be valid for the store
alone or, after a flush, for store and buffer.

**Database, reopened.**  `ReopenInv` speaks of what an `open` of the directory *would*
build: `Tree` (rows with children have both, a parent comes before its children),
`Directory` (as long as nothing was unsaved, that tree has the nodes of the object, the
journal splits only rows that are already split, and records are of known paths),
`TodoSafe` and `Quiet` (what a half-done call still owes), `Settled`.  The argument: the
page files never fall behind a split that ended in a flush, so that replaying the journal
changes no node, so that reading the store cannot meet a path without a row.

**Database, recovered.**  `ReopenInv` ends with the first kill.  `RecoveryInv` does not: as
long as nothing was done that the journal is not told, there is a tree that pages, temporary
files and journal *explain* (`Good`): a page holds rows of it, perhaps from before their
split; every split the pages lack is a journal entry (`Recorded`), behind the one that made
its node because the ids of children grow (`Linked`, `JournalHolds`).  `ReplayedTree`: an
`open` of such files rebuilds exactly that tree - at every point of the replay the object is
a part of it (`Partial`) and each split is done or still to come (`Progress`).  A kill can
fall anywhere, so a call in progress needs more: one explained tree for each number of
entries appended so far, the last one the object's (`Stages` while `split_to_box` walks
down, `Staged` while its entries are written), and while a page is being replaced the files
as they will be after the rename (`Standing`), or a temporary file of the same rows.  `TypeInv`,
needed for the rows of replaced pages and proved first, also gives `TypeOK`.

**Database, read back.**  `EvidenceInv` follows the values.  `Reads(s, n, p, v)` says that
path `p` is `v` after the first `n` records of `s`.  A kill leaves some prefix of what was
buffered, so for every path (`PathFits`) either its last journal record is expected, or the
journal has none and *every* prefix from what is on disk to what is buffered reads as
expected.  `open` replays the journal on top of the store: `ReplayedReads` shows that a path
then reads as its last journal record, or else as the store did.  The object (`ObjectFits`) and
each sidecar, on disk or about to be written (`SidecarFits`), index the last record of every
path; and since the journal entry of a put is written after the call has changed the object,
`AnswersFit` keeps, until the call returns, that the value it will acknowledge is expected
already, read by the object, and in the journal once its entry is.  The replay must not skip
a record of a path it does not know: that is the part `RecoveryInv` contributes, with the
journal's records behind the splits that made their nodes (`EntryThere`).

**Searches and sessions.**  `TreeGood`: a node is the dyadic cell of its depth, a node that
is split has its two halves for children, and every node but the root has a parent.
`Extends`: nodes keep region and depth, and reservations stay.  `AnswerGood` and
`AnswerFree` state what each search promises with them; the bisection is followed by what
its span and its best depths are after each turn, for any deadline.  A replay (`Replayed`)
walks pairs of a worker's and the master's nodes, equal in region and depth: where the
master is split already, its halves are the worker's.

**Growth.**  `NodesExact` is not inductive.  A batch of worker results is taken one by one,
with chains of other searches between them, so a result must promise to hold on the master
*later*: `BatchFits` says that the nodes the workers named are nodes of the master with the
regions they certified, and `RegionsKept` that no commitment, chain or release changes
that.  `Core` is what commitments and consolidation keep: boxes with ids of their own on
their nodes, the two maps of the reservations inverse to each other but for the nodes
reserved twice (`MapsAgree`), and each reservation within its box (`Reserved`), which
survives a merge because the hull contains both.  `GrowthInv` adds the types of the
counters, the seeds in hand, and that a chain returns to the loop that called it.  `FreeInv`
says that boxes and results in hand are free; it needs `EvidenceFits`, without which
`ProbeReuse` refutes it.  `MaxBoxesHeld` is part of the same invariant, because each nested
loop tests the limit for itself.  Consolidation is `Shrunk`: the same cover, no more boxes,
`Core` again.  In the one joint of the model a hull of two touching intervals is their
union; in several it covers more, which the oracle validates before a greedy merge
(merger.cpp:112-130), so only the inclusion is claimed.

**Dynamic scene.**  `DynInv` states that the scene is within its bounds, boxes are nodes
with ids of their own, cached leaves are nodes with counted blame, segment edges have
live ends.  `GraphExact` follows from a lemma on sandwiched graphs: an update links each
new box with all it touches, and removes only edges with a dead end, so the graph lies
between the one before and the full one, and equals the full one on what survives.  For
`UpdatesSafe` the lemmas are about the trees that build, insertion and regrowth walk: every
free leaf they return is free of what `Flags` reports, hence of what `Covers` does.

For the books the invariant is `BookInv`: `DynInv`, and `Books`: boxes and blamed leaves
are pairwise disjoint (`HeldApart`), the reservations are the nodes of the boxes
(`ReservesAll`), every leaf is in the list of each obstacle it blames (`Listed`), and the
entries of the cache blame obstacles of the scene only, an inactive one none (`Known`).
`BookkeepingExact` alone is not inductive: that a promoted leaf may become a box depends
on its blame being the whole of its blame, and on the lists containing it once the indices
have shifted.  `Book` is the same statement about a forest in the middle of a method.  It
goes through an insertion because two nodes are apart or nested (`SameDepthApart`, `InParent`)
and the leaves below a removed box fill it and nothing else (`LeavesTile`); through the
suffix path of a removal because each visited leaf loses the removed obstacles and no
others; through the general path because the leaves not yet visited lie outside
everything placed so far (`Pending`), and `MovedKnown` says what renumbering does to an
entry.  `KnowledgeKept` is the same argument with `Known(n, S, TRUE)`, which adds that an
entry blames every obstacle whose cover meets it (`CompleteBooks` equates this with
`BlameComplete`); the part on insertions is that refilling holds the cells of the box it
replaces, unless it was cut short: a refill that is not cut pops every node of the tree
below the box (`FirstPopsFacts`), and the leaves among them are those of `LeavesTile`.

**Grid partition.**  `GridInv` says of the facade that boxes and segment edges have ids of
their own and that edges join boxes, and of a partition that was not left behind that its
cells are the boxes but for the pending ones, in order, and that overlay and segment edges
correspond (`OverlaySound`, `OverlayFull`).  The second half is claimed only while nothing
is pending: in between, an edge may wait for the cell of its end.  Neighbours, islands and
union-find never decide what is shown (`DerivedOnly`), so every refresh comes down to its
cells and its edges (`CellsAdded`, `ReplacedShown`, `Synced`); both the incremental path
and the rebuild it falls back to end with the same ones (`RemoveAppendMirrors`,
`AppendMirrors`).  The invariant also keeps that the boxes of a build stand for those it had
grown.  `StandFor` composes: the containment pass takes out boxes that a kept one contains
(`PrunedStands`); a run on a merge line has no gap, so its hull covers no more than its
members (`RunHasNoGap`, `MergedFacts`); and since a pass takes only boxes that no pass of the
round took, the merged ones may be exchanged for them whenever the round ends
(`PassFits`, `RoundEnds`) - that is, wherever the deadline falls (`OutcomesStand`).

**Leaf sweep.**  `SweepInv` counts.  `Hits(list, u)` is how many items of a list hold the
unit `u`; splitting, clipping to the domain and dropping what lies outside it leave the
count as it was (`HalvesHold`, `HeldUnits`, `InDomainFacts`), so a unit has one owner among
pending items and boxes (`SumOK`), and fewer only after a stop or by a cap (`Adds`); a batch
is as many such steps (`SettleAllFacts`).  Composing several clusters needs more than
counts: `CoverOK` says that a unit inside an obstacle of a cluster stays pending until it is
in a collision box of it, so that a node of the compose queue (`EntryGood`) carries every
cluster whose collision box lies there; and two collision boxes of different clusters that
share a unit lie on one node, because without pruning each is at the maximal depth or on a
node that cannot be split (`Deepest`, `DeepestSame`).

**Induction and recursion.**  Path lengths, journals and trees need induction.
`NatSetInduction` and `UpTo` of `DataLemmas` state it over *sets* of naturals, not over
operators, and `Recursion` gives the equations of a function defined by `LET f[n \in Nat]`
from hidden facts about one step; so do the lemmas on `SeqShape`, `ElementOfSeq` for
sequences that the models build with comprehension.

## 6. What stays with TLC, and what is not modelled

Only model-checked: every liveness property (`CallsEnd`, `GrowthEnds`, `BuildEnds`,
`PlanningEnds`; liveness under fairness and `ENABLED` are beyond the prover); all of
`DeepCover` and the planning modules, some of which use `RECURSIVE` operators
or folds the prover cannot open; `SameAsReference` of the sweep; and of the other proved modules `BoxesDisjoint` of growth, which
needs that two bisections of one path agree, and `PartitionExact` and `DominanceSound` of
the partition, which are about what breadth-first walks and folds compute.

Left out of the components that are modelled:

- Pool: `Deadline`, `CancellationToken`, `DiagnosticsSink` (values without a protocol);
  ranges that do not begin at 0; two owners of one pool, which the class does not support.
- Database: parent hulls, streaming prewarm, page eviction (a hazard without a property),
  read-only mode, verification of contents, `compact_snapshot`, torn journal lines,
  `nodes.pages`, generation numbers.
- Oracle and searches: the geometry; local evidence but for `ProbeReuse`; certificates are
  what the validation of a cell says.
- Consolidator: hulls over several joints; rounding of the score.
- Grower: adaptive quotas, goal bias, distributions of samples (arbitrary targets stand for
  them all).
- Connector: reservations, bisection of gaps, densification.
- Dynamic scene: boxes without a tree node (merged ones), `local_regrow_box_limit`,
  canonical sectors.
- Partition: the sparse virtual index (a second key for the same cells), timings.
- `bridge_queries`: `hipac` and `partition_path_first`, hybridisation (17417-17476),
  `direct_line_on_no_path`, random detours and shortcuts, `detour_candidate`, multi-axis
  detours, budgets of the no-path stages, early stop.  All are off by default.

Components not modelled: parent hulls, read snapshots, canonicalisation, split policy,
online cache tree (pure functions of data, or caches in front of what is modelled); the
shared endpoint evidence cache (a map behind one mutex); link interval envelope
(numeric); bindings, tools, experiments.

## 7. What comes next

In the order of what each would say:

1. `CacheFresh` for every scene and configuration: an invariant over all the actions of
   `Planning` that relates `cached` to boxes, edges and checks.
2. `BoxesDisjoint` of `ForestGrowth`: a search begun at an uncovered seed cannot return a
   cell around a box, because the search that found the box would have returned it.
3. `PartitionExact`: the islands relabelled by an append are the components of the links.
