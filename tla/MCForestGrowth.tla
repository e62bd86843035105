--------------------------- MODULE MCForestGrowth ---------------------------
(* Growth on 64 units with cells of 8 units or more, up to six boxes, one or *)
(* two roots (three seeds), and the ways GrowerConfig and FfbOptions combine. *)
EXTENDS ForestGrowth
Ffb == [mode |-> "linear", max |-> 0, start |-> 0, skip |-> 0, sched |-> {},
        splitReserved |-> TRUE, splitUnknown |-> TRUE, rejectSeed |-> FALSE,
        materialise |-> TRUE, deadline |-> FALSE]
Base == [ffb |-> Ffb, store |-> FALSE, depth |-> 3, connect |-> TRUE, stopConnected |-> FALSE,
         connectInc |-> 1, connectMax |-> 3, chain |-> 0, maxBoxes |-> 5, maxMiss |-> 2,
         batch |-> 1, local |-> FALSE, coolAt |-> 0, horizon |-> 1, boot |-> 0, wave |-> FALSE,
         mergeRounds |-> 2, merge |-> {"exact", "greedy", "prune"}, score |-> 125,
         targetBoxes |-> 0, protect |-> {}]
Workers == [Base EXCEPT !.batch = 2, !.local = TRUE]
MCConfigs == {
  [Workers EXCEPT !.chain = 2, !.maxBoxes = 6, !.ffb.deadline = TRUE, !.targetBoxes = 2],
  [Base EXCEPT !.batch = 2, !.coolAt = 1, !.ffb.mode = "virtual", !.ffb.deadline = TRUE,
               !.merge = {"exact", "prune"}],
  [Base EXCEPT !.boot = 4, !.coolAt = 1, !.store = TRUE, !.ffb.mode = "nodes", !.ffb.deadline = TRUE],
  [Workers EXCEPT !.wave = TRUE, !.connect = FALSE, !.maxBoxes = 6],
  [Workers EXCEPT !.batch = 3, !.stopConnected = TRUE, !.ffb.mode = "virtual",
                  !.merge = {"greedy", "prune"}, !.score = 75],
  [Base EXCEPT !.chain = 2, !.store = TRUE, !.protect = {0}, !.merge = {"greedy"},
               !.ffb.sched = {1, 3}, !.ffb.splitReserved = FALSE],
  [Workers EXCEPT !.chain = 1, !.store = TRUE, !.ffb.mode = "nodes", !.ffb.skip = 1,
                  !.ffb.rejectSeed = TRUE]
  }
\* The defaults of oracle.h and find_free_box.h: evidence stored, BinaryDepth.
MCProbeConfigs == {[Base EXCEPT !.store = TRUE, !.ffb.mode = "virtual"]}
MCScenes == {{}, {22}, {25, 50}, {12, 13, 61}, {14, 51}}
MCSeedLists == {<<5>>, <<5, 12>>, <<5, 45>>, <<20, 45>>, <<39, 9, 60>>}
=============================================================================
