---------------------------- MODULE FreeBoxSearch ----------------------------
(***************************************************************************)
(* FindFreeBoxService: the search for a certified free cell around a seed. *)
(* (safe_box_forest/src/find_free_box.cpp, virtual_sparse_ffb.h)           *)
(*                                                                         *)
(* Each search maps an oracle and a seed to the answers it may give, each  *)
(* with the oracle it leaves: one answer, or several when a deadline may   *)
(* cut it.  opt holds max, start, skip (depths), sched (the depths of      *)
(* adaptive_depths), splitReserved, splitUnknown and deadline.             *)
(***************************************************************************)
EXTENDS BoxOracle

Lowest(S) == CHOOSE x \in S : \A y \in S : x <= y
Highest(S) == CHOOSE x \in S : \A y \in S : x >= y
EffectiveMaxDepth(opt) == Highest({0, Lowest({opt.max, MaxTreeDepth - 1})})
StartDepth(opt) ==
  Highest({0, Lowest({EffectiveMaxDepth(opt), Highest({opt.start, opt.skip})})})

Answer(o, found, node, r, code, cap) ==
  [o |-> o, found |-> found, node |-> node, at |-> r, code |-> code, cap |-> cap]
Refusal(o, code) == Answer(o, FALSE, NoNode, NoRegion, code, FALSE)

\* The cell at depth d on the seed's path as the descent meets it: a node the
\* tree does not have yet is neither reserved nor the root.
Taken(o, q, d) == \E n \in Path(o, q) : Depth(o, n) = d /\ IsReserved(o, n)
CellNode(o, q, d) == IF d = Depth(o, RootNode) THEN RootNode ELSE NoNode
CertifiedBelow(o, occ, q, d) == ValidateNode(o, occ, CellNode(o, q, d), Cell(q, d + 1))
Certified(o, occ, q, d) == ValidateNode(o, occ, CellNode(o, q, d), Cell(q, d))

----------------------------------------------------------------------------
(* Linear and scheduled descent: node by node from the root, splitting      *)
(* leaves on the way, until the first cell that stops it.                  *)

\* find_incremental accepts a certified cell only from the next scheduled
\* depth on; with no schedule every certified cell is accepted.
Accepts(opt, d) ==
  \/ opt.sched = {}
  \/ d >= EffectiveMaxDepth(opt)
  \/ d >= Highest(opt.sched)
  \/ d \in opt.sched

Descend(o, occ, q, opt) ==
  LET root == Depth(o, RootNode)
      max == EffectiveMaxDepth(opt)
      free(d) == d >= opt.skip /\ Certified(o, occ, q, d)
      stops(d) ==
        IF Taken(o, q, d) THEN d >= max \/ ~opt.splitReserved
        ELSE \/ free(d) /\ Accepts(opt, d)
             \/ d >= max
             \/ ~opt.splitUnknown
      d == Lowest({e \in root..Highest({root, max}) : stops(e)})
      asked == IF root >= opt.skip /\ ~IsReserved(o, RootNode)
               THEN StorePayload(o, occ, RootNode, Region(o, RootNode)) ELSE o
      after(e) == SplitDown(asked, q, e)
      stopped == after(d)
      node == NodeAt(stopped, q, d)
      found == ~Taken(o, q, d) /\ free(d) /\ Accepts(opt, d)
      whole == Answer(stopped, found, node, Cell(q, d), IF found THEN 0 ELSE 2,
                      ~found /\ ~Taken(o, q, d))
  IN {whole} \cup (IF opt.deadline THEN {Refusal(after(e), 4) : e \in root..d} ELSE {})

----------------------------------------------------------------------------
(* Bisection over the depths of the seed's path.                            *)

\* One turn of the bisection, whose verdict on a depth is membership of free;
\* b.seen are the depths that were the best answer, the last one the lowest.
Probe(b, free) ==
  LET mid == b.lo + (b.hi - b.lo) \div 2
  IN IF b.lo >= b.hi THEN b
     ELSE IF mid \in free THEN [lo |-> b.lo, hi |-> mid, seen |-> b.seen \cup {mid}]
     ELSE [b EXCEPT !.lo = mid + 1]

\* The probe in the middle of a long span, then the deepest cell, then the
\* bisection.  No depth: neither was free.
Bisect(free, start, max, deadline) ==
  LET probe == start + (max - start) \div 2
      probed == max - start >= 4
      hit == probed /\ probe \in free
      lo == IF probed /\ ~hit THEN probe + 1 ELSE start
      hi == IF hit THEN probe ELSE max
      turn[k \in 0..MaxTreeDepth] == IF k = 0 THEN [lo |-> lo, hi |-> hi, seen |-> {hi}]
                                     ELSE Probe(turn[k - 1], free)
      bests == turn[MaxTreeDepth].seen
  IN IF hi \notin free THEN {}
     ELSE IF deadline THEN bests ELSE {Lowest(bests)}

\* Cells computed from the split policy alone, asked about under the root's
\* id; reservations are not looked at.  The depth found is a depth below the
\* root, the depth materialised is the tree's.
BisectVirtual(o, occ, q, opt) ==
  LET root == Depth(o, RootNode)
      max == EffectiveMaxDepth(opt)
      start == StartDepth(opt)
      first == IF max - start >= 4 THEN start + (max - start) \div 2 ELSE max
      known == IF first >= opt.skip THEN StorePayload(o, occ, RootNode, Cell(q, root + first))
               ELSE o
      free == {d \in 0..max : d >= opt.skip
                                /\ ValidateNode(known, occ, RootNode, Cell(q, root + d))}
      found == Bisect(free, start, max, opt.deadline)
      materialise(d) ==
        LET t == SplitDown(known, q, d)
            n == NodeAt(t, q, Highest({root, d}))
            same == Region(t, n) = Cell(q, root + d)
        IN Answer(t, same \/ ValidateNode(t, occ, n, Region(t, n)), n, Region(t, n),
                  IF same \/ ValidateNode(t, occ, n, Region(t, n)) THEN 0 ELSE 2,
                  ~same /\ ~ValidateNode(t, occ, n, Region(t, n)))
  IN IF found = {} THEN {Answer(known, FALSE, RootNode, Cell(q, root + max), 2, TRUE)}
     ELSE IF opt.materialise THEN {materialise(d) : d \in found}
     ELSE {Answer(known, TRUE, NoNode, Cell(q, root + d), 0, FALSE) : d \in found}

\* The same bisection over nodes, when the policy cannot compute cells: the
\* path is split to the bottom first, and reserved nodes count as unknown.
BisectNodes(o, occ, q, opt) ==
  LET root == Depth(o, RootNode)
      max == EffectiveMaxDepth(opt)
      blocked == {d \in root..max - 1 : Taken(o, q, d)}
      split == SplitDown(o, q, IF opt.splitReserved \/ blocked = {}
                               THEN max ELSE Lowest(blocked))
      known == IF StartDepth(opt) > root \/ IsReserved(o, RootNode) THEN split
               ELSE StorePayload(split, occ, RootNode, Region(o, RootNode))
      free == {d \in root..max : /\ ~Taken(o, q, d)
                                 /\ d >= opt.skip
                                 /\ Certified(known, occ, q, d)}
      found == Bisect(free, StartDepth(opt), max, opt.deadline)
      at(d) == NodeAt(known, q, d)
  IN IF ~opt.splitReserved /\ blocked # {}
       THEN {Answer(split, FALSE, NodeAt(split, q, Lowest(blocked)),
                    Cell(q, Lowest(blocked)), 2, FALSE)}
     ELSE IF found = {}
       THEN {IF root > max THEN Refusal(known, 5)
             ELSE Answer(known, FALSE, at(max), Cell(q, max), 2, ~Taken(o, q, max))}
     ELSE {Answer(known, TRUE, at(d), Cell(q, d), 0, FALSE) : d \in found}

----------------------------------------------------------------------------
\* find: the entry checks, then the search the options ask for.
Find(o, occ, q, opt) ==
  IF ~Within(q, Region(o, RootNode)) THEN {Refusal(o, 5)}
  ELSE IF opt.rejectSeed /\ q \in occ THEN {Refusal(o, 1)}
  ELSE CASE opt.mode = "linear"  -> Descend(o, occ, q, opt)
         [] opt.mode = "virtual" -> BisectVirtual(o, occ, q, opt)
         [] opt.mode = "nodes"   -> BisectNodes(o, occ, q, opt)
=============================================================================
