------------------------- MODULE LectRecoveryProofs -------------------------
(***************************************************************************)
(* What open() rebuilds from the directory of a database is one tree with  *)
(* every split that was acknowledged in it (StructureSurvives), and what   *)
(* evidence() answers is the last value put, or that of a call a kill cut  *)
(* short (AckedUnlessUnjournaled), for any number of calls, checkpoints,   *)
(* closes and kills and any values of the constants, as long as no bulk    *)
(* mode, no deletion and no kill inside replace_file came before.          *)
(*                                                                         *)
(* The first invariant says of the files that they explain a tree (Good):  *)
(* what they hold is part of it, and each split is in the pages or in the  *)
(* journal.  While a call has transactions to append there is a tree for   *)
(* each of them (Staged), the last one the object's; while a page is being *)
(* replaced the files are those it will have left (Standing).              *)
(*                                                                         *)
(* The second one (EvidenceHolds) follows the records of a path: the last  *)
(* one in the journal is expected of it, and without one so is every value *)
(* a prefix of the store can be read as, from what is on disk to what is   *)
(* buffered (JournalFits); the object and the sidecar read what the        *)
(* records say, and what a call is about to return is in both.             *)
(***************************************************************************)
EXTENDS LectDatabaseProofs
-----------------------------------------------------------------------------
(* Types: the nodes, their numbers and the pages that are dirty.           *)

IsRow(r) == r = [path |-> r.path, left |-> r.left, right |-> r.right]

Numbered(d, n) ==
    /\ d.ids \in SUBSET (0..n) /\ DOMAIN d.rows \in SUBSET d.ids
    /\ \A i \in DOMAIN d.rows :
          IsRow(d.rows[i]) /\ Known(d, d.rows[i].path) /\ d.paths[d.rows[i].path] = i
    /\ \A q \in DOMAIN d.paths : d.paths[q] \in d.ids
    /\ \A q \in d.dirty : \E i \in DOMAIN d.rows : PageOf(i) = q

\* The fields that are numbered, and what a call keeps of the others.
SameNumbers(d, e) == SameNodes(d, e) /\ e.dirty \in SUBSET d.dirty

\* All this is about the nodes and the dirty pages alone.
LEMMA NumberedSame ==
    ASSUME NEW d, NEW e, NEW n, Numbered(d, n), SameNumbers(d, e)
    PROVE  Numbered(e, n)
<1>1. e.ids = d.ids /\ e.paths = d.paths /\ e.rows = d.rows /\ e.dirty \in SUBSET d.dirty
  BY DEF SameNumbers, SameNodes
<1> QED
  BY <1>1 DEF Numbered, Known

\* A larger bound does as well.
LEMMA NumberedWider ==
    ASSUME NEW d, NEW n \in Nat, NEW m \in Nat, n <= m, Numbered(d, n)
    PROVE  Numbered(d, m)
<1>1. d.ids \in SUBSET (0..m)
  BY DEF Numbered
<1> QED
  BY <1>1 DEF Numbered

\* write_node_record keeps the ids in order: a path it knows keeps its id
\* (database.cpp:2270-2316).
LEMMA WriteRowNumbered ==
    ASSUME NEW d, IsDb(d), NEW n \in Nat, Numbered(d, n), NEW id \in 0..n, NEW q,
           NEW e, e = WriteRow(d, id, Leaf(q))
    PROVE  /\ IsDb(e) /\ Numbered(e, n) /\ e.log = d.log /\ e.buffer = d.buffer /\ e.bulk = d.bulk
           /\ DOMAIN d.rows \subseteq DOMAIN e.rows
           /\ \A x \in DOMAIN d.paths : Known(e, x) /\ e.paths[x] = d.paths[x]
<1>1. IsDb(e) /\ e.log = d.log /\ e.buffer = d.buffer
  BY WriteRowGrows DEF Grows, SameEvidence
<1>2. Leaf(q).path = q /\ IsRow(Leaf(q))
  BY DEF Leaf, IsRow
<1>3. CASE Known(d, q) => IdOf(d, q) = id
  <2>1. e = [d EXCEPT !.ids = @ \cup {id}, !.paths = Put(@, q, id),
                      !.rows = Put(@, id, Leaf(q)), !.dirty = @ \cup {PageOf(id)}]
    BY <1>2, <1>3 DEF WriteRow
  <2>2. e = [ids |-> d.ids \cup {id}, paths |-> Put(d.paths, q, id),
             rows |-> Put(d.rows, id, Leaf(q)), dirty |-> d.dirty \cup {PageOf(id)},
             resident |-> d.resident, index |-> d.index, buffer |-> d.buffer,
             sidecarDirty |-> d.sidecarDirty, pending |-> d.pending, appends |-> d.appends,
             bulk |-> d.bulk, log |-> d.log]
    BY <2>1 DEF IsDb
  <2>3. /\ e.ids = d.ids \cup {id} /\ e.dirty = d.dirty \cup {PageOf(id)} /\ e.bulk = d.bulk
        /\ e.paths = Put(d.paths, q, id) /\ e.rows = Put(d.rows, id, Leaf(q))
    BY <2>2
  <2>4. /\ DOMAIN e.paths = DOMAIN d.paths \cup {q} /\ e.paths[q] = id
        /\ \A x \in DOMAIN d.paths : x # q => e.paths[x] = d.paths[x]
    BY <2>3 DEF Put
  <2>5. /\ DOMAIN e.rows = DOMAIN d.rows \cup {id} /\ e.rows[id] = Leaf(q)
        /\ \A i \in DOMAIN d.rows : i # id => e.rows[i] = d.rows[i]
    BY <2>3 DEF Put
  <2>6. \A x \in DOMAIN d.paths : e.paths[x] = d.paths[x]
    BY <1>3, <2>4 DEF Known, IdOf
  <2>7. e.ids \in SUBSET (0..n) /\ DOMAIN e.rows \in SUBSET e.ids
    BY <2>3, <2>5 DEF Numbered
  <2>8. ASSUME NEW i \in DOMAIN e.rows
        PROVE  IsRow(e.rows[i]) /\ Known(e, e.rows[i].path) /\ e.paths[e.rows[i].path] = i
    <3>1. CASE i = id
      BY <1>2, <2>4, <2>5, <3>1 DEF Known
    <3>2. CASE i # id
      <4>1. i \in DOMAIN d.rows /\ e.rows[i] = d.rows[i]
        BY <2>5, <3>2
      <4> QED
        BY <2>4, <2>6, <4>1 DEF Numbered, Known
    <3> QED
      BY <3>1, <3>2
  <2>9. \A x \in DOMAIN e.paths : e.paths[x] \in e.ids
    BY <2>3, <2>4, <2>6 DEF Numbered
  <2>10. \A x \in e.dirty : \E i \in DOMAIN e.rows : PageOf(i) = x
    BY <2>3, <2>5 DEF Numbered
  <2>11. Numbered(e, n)
    BY <2>7, <2>8, <2>9, <2>10 DEF Numbered
  <2> QED
    BY <1>1, <2>3, <2>4, <2>5, <2>6, <2>11 DEF Known
<1>4. CASE ~(Known(d, q) => IdOf(d, q) = id)
  <2>1. e = [d EXCEPT !.ids = @ \cup {id}]
    BY <1>2, <1>4 DEF WriteRow
  <2>2. e = [ids |-> d.ids \cup {id}, paths |-> d.paths, rows |-> d.rows, dirty |-> d.dirty,
             resident |-> d.resident, index |-> d.index, buffer |-> d.buffer,
             sidecarDirty |-> d.sidecarDirty, pending |-> d.pending, appends |-> d.appends,
             bulk |-> d.bulk, log |-> d.log]
    BY <2>1 DEF IsDb
  <2>3. /\ e.ids = d.ids \cup {id} /\ e.dirty = d.dirty /\ e.bulk = d.bulk
        /\ e.paths = d.paths /\ e.rows = d.rows
    BY <2>2
  <2>4. Numbered(e, n)
    BY <2>3 DEF Numbered, Known
  <2> QED
    BY <1>1, <2>3, <2>4 DEF Known
<1> QED
  BY <1>3, <1>4

\* Linking children to a node changes no path (database.cpp:1545-1579).
LEMMA LinkNumbered ==
    ASSUME NEW d, IsDb(d), NEW n, Numbered(d, n), NEW q, NEW l, NEW r,
           NEW id \in DOMAIN d.rows, id = IdOf(d, q), NEW e, e = LinkChildren(d, q, l, r)
    PROVE  /\ IsDb(e) /\ Numbered(e, n) /\ e.log = d.log /\ e.buffer = d.buffer
           /\ e.bulk = d.bulk
<1>1. IsDb(e) /\ e.log = d.log /\ e.buffer = d.buffer
  BY LinkChildrenGrows DEF Grows, SameEvidence
<1>2. d.rows[id] = [path |-> d.rows[id].path, left |-> d.rows[id].left,
                    right |-> d.rows[id].right]
  BY DEF Numbered, IsRow
<1>3. /\ e.bulk = d.bulk /\ e.ids = d.ids /\ e.paths = d.paths
      /\ DOMAIN e.rows = DOMAIN d.rows
      /\ e.rows[id] = [path |-> d.rows[id].path, left |-> l, right |-> r]
      /\ \A i \in DOMAIN d.rows \ {id} : e.rows[i] = d.rows[i]
  BY <1>2, LinkedNode
<1>4. e.dirty = d.dirty \cup {PageOf(id)}
  <2> DEFINE row == [d.rows[id] EXCEPT !.left = l, !.right = r]
  <2>1. PICK linked : linked = Put(d.rows, id, row)
    OBVIOUS
  <2>2. e = [d EXCEPT !.rows = linked, !.dirty = @ \cup {PageOf(id)}]
    BY <2>1 DEF LinkChildren
  <2>3. e = [ids |-> d.ids, paths |-> d.paths, rows |-> linked, dirty |-> d.dirty \cup {PageOf(id)},
             resident |-> d.resident, index |-> d.index, buffer |-> d.buffer,
             sidecarDirty |-> d.sidecarDirty, pending |-> d.pending, appends |-> d.appends,
             bulk |-> d.bulk, log |-> d.log]
    BY <2>2 DEF IsDb
  <2> QED
    BY <2>3
<1>5. \A i \in DOMAIN e.rows : IsRow(e.rows[i]) /\ e.rows[i].path = d.rows[i].path
  <2> TAKE i \in DOMAIN e.rows
  <2>1. CASE i = id
    BY <1>3, <2>1 DEF IsRow
  <2>2. CASE i # id
    BY <1>3, <2>2 DEF Numbered
  <2> QED
    BY <2>1, <2>2
<1>6. \A i \in DOMAIN e.rows :
         IsRow(e.rows[i]) /\ Known(e, e.rows[i].path) /\ e.paths[e.rows[i].path] = i
  BY <1>3, <1>5 DEF Numbered, Known
<1>7. \A x \in e.dirty : \E i \in DOMAIN e.rows : PageOf(i) = x
  BY <1>3, <1>4 DEF Numbered
<1>8. Numbered(e, n)
  BY <1>3, <1>6, <1>7 DEF Numbered
<1> QED
  BY <1>1, <1>3, <1>8
\* What calls do that changes no node.
Still(d, e) == IsDb(e) /\ SameNumbers(d, e) /\ e.bulk = d.bulk /\ e.log = d.log
SameStore(d, e) == Still(d, e) /\ e.buffer = d.buffer

\* Twice still is still.
LEMMA StillTransitive ==
    ASSUME NEW d, NEW e, NEW f
    PROVE  /\ Still(d, e) /\ Still(e, f) => Still(d, f)
           /\ SameStore(d, e) /\ SameStore(e, f) => SameStore(d, f)
BY DEF Still, SameStore, SameNumbers, SameNodes

\* A change of one of the fields that are not about nodes.
LEMMA StillField ==
    ASSUME NEW d, IsDb(d), NEW v, NEW e,
           \/ e = [d EXCEPT !.pending = v] \/ e = [d EXCEPT !.appends = v]
           \/ e = [d EXCEPT !.resident = v] \/ e = [d EXCEPT !.sidecarDirty = v]
           \/ e = [d EXCEPT !.dirty = {}]
    PROVE  SameStore(d, e)
<1>1. e = [ids |-> d.ids, paths |-> d.paths, rows |-> d.rows, dirty |-> e.dirty,
           resident |-> e.resident, index |-> d.index, buffer |-> d.buffer,
           sidecarDirty |-> e.sidecarDirty, pending |-> e.pending, appends |-> e.appends,
           bulk |-> d.bulk, log |-> d.log]
  BY DEF IsDb
<1>2. e.dirty = d.dirty \/ e.dirty = {}
  BY DEF IsDb
<1> QED
  BY <1>1, <1>2, FS_EmptySet DEF IsDb, Still, SameStore, SameNumbers, SameNodes

\* A record more (database.cpp:2318-2440).
LEMMA StillRecord ==
    ASSUME NEW d, IsDb(d), NEW p, NEW v
    PROVE  Still(d, AppendRecord(d, p, v))
<1> DEFINE rec == Record(p, v)
           entry == [pos |-> Len(StoreOf(d)) + 1, gone |-> v = None]
           e == AppendRecord(d, p, v)
           more == Append(d.buffer, rec)
<1>1. IsSeq(more)
  BY SeqAppend DEF IsDb
<1>2. e = [d EXCEPT !.buffer = more, !.index = Put(@, p, entry),
                    !.appends = @ + 1, !.sidecarDirty = TRUE]
  BY DEF AppendRecord, IsDb
<1> HIDE DEF entry, rec, more
<1>3. e = [ids |-> d.ids, paths |-> d.paths, rows |-> d.rows, dirty |-> d.dirty,
           resident |-> d.resident, index |-> Put(d.index, p, entry),
           buffer |-> more, sidecarDirty |-> TRUE, pending |-> d.pending,
           appends |-> d.appends + 1, bulk |-> d.bulk, log |-> d.log]
  BY <1>2 DEF IsDb
<1> HIDE DEF e
<1>4. Still(d, e)
  BY <1>1, <1>3 DEF IsDb, Still, SameNumbers, SameNodes
<1> QED
  BY <1>4 DEF e

\* ... in the copy that calls start from.
LEMMA StillCopy ==
    ASSUME NEW d, IsDb(d), NEW r, NEW b, NEW p, NEW v
    PROVE  Still(d, AppendRecord([d EXCEPT !.resident = r, !.pending = b], p, v))
<1> DEFINE c == [d EXCEPT !.resident = r]
           f == [c EXCEPT !.pending = b]
<1>1. Still(d, c)
  BY StillField DEF SameStore
<1> HIDE DEF c
<1>2. Still(c, f)
  BY <1>1, StillField DEF Still, SameStore
<1> HIDE DEF f
<1>3. IsDb(f) /\ Still(d, f)
  BY <1>1, <1>2, StillTransitive DEF Still
<1>4. Still(d, AppendRecord(f, p, v))
  BY <1>3, StillRecord, StillTransitive
<1> QED
  BY <1>4, Zenon DEF c, f

\* Replaying evidence changes no node (database.cpp:3564-3591).
LEMMA StillReplay ==
    ASSUME NEW d0, IsDb(d0), NEW t, t.type # "split", NEW e, e = ReplayStep(d0, t)
    PROVE  Still(d0, e)
<1>1. PICK d : d = [d0 EXCEPT !.pending = TRUE]
  OBVIOUS
<1>2. Still(d0, d) /\ IsDb(d)
  BY <1>1, StillField DEF SameStore, Still
<1>3. PICK v : v = Put(d.resident, t.path, t.val)
  OBVIOUS
<1>4. PICK f : f = [d EXCEPT !.resident = v]
  OBVIOUS
<1>5. Still(d, f) /\ IsDb(f)
  BY <1>2, <1>4, StillField DEF SameStore, Still
<1>6. e = d \/ e = AppendRecord(f, t.path, t.val)
  BY <1>1, <1>3, <1>4 DEF ReplayStep
<1> QED
  BY <1>2, <1>5, <1>6, StillRecord, StillTransitive

\* Flushing and trimming.
LEMMA StillFlush ==
    ASSUME NEW d, IsDb(d)
    PROVE  /\ SameStore(d, EvidenceSaved(d)) /\ SameStore(d, PagesSaved(d))
           /\ SameStore(d, MaybeFlushed(d)) /\ SameStore(d, Trimmed(d))
<1>1. ASSUME NEW x, IsDb(x) PROVE SameStore(x, EvidenceSaved(x)) /\ SameStore(x, PagesSaved(x))
  BY <1>1, StillField DEF EvidenceSaved, PagesSaved
<1>2. SameStore(d, d)
  BY DEF SameStore, Still, SameNumbers, SameNodes
<1>3. PICK e : e = EvidenceSaved(d)
  OBVIOUS
<1>4. SameStore(d, e) /\ IsDb(e)
  BY <1>1, <1>3 DEF SameStore, Still
<1>5. PICK f : f = PagesSaved(e)
  OBVIOUS
<1>6. SameStore(e, f) /\ IsDb(f)
  BY <1>1, <1>4, <1>5 DEF SameStore, Still
<1>7. PICK g : g = [f EXCEPT !.appends = 0]
  OBVIOUS
<1>8. SameStore(f, g)
  BY <1>6, <1>7, StillField
<1>9. SameStore(d, g)
  BY <1>4, <1>6, <1>8, StillTransitive
<1>10. MaybeFlushed(d) = IF FlushDue(d) THEN g ELSE d
  BY <1>3, <1>5, <1>7 DEF MaybeFlushed
<1>11. PICK v : v = Without(e.resident, DOMAIN d.index)
  OBVIOUS
<1>12. PICK h : h = [e EXCEPT !.resident = v]
  OBVIOUS
<1>13. SameStore(e, h)
  BY <1>4, <1>12, StillField
<1>14. SameStore(d, h)
  BY <1>4, <1>13, StillTransitive
<1>15. Trimmed(d) = IF TrimDue(d) THEN h ELSE d
  <2>1. [EvidenceSaved(d) EXCEPT !.resident = Without(@, DOMAIN d.index)] = h
    BY <1>3, <1>11, <1>12
  <2> QED
    BY <2>1 DEF Trimmed
<1>16. SameStore(d, MaybeFlushed(d))
  BY <1>2, <1>9, <1>10
<1>17. SameStore(d, Trimmed(d))
  BY <1>2, <1>14, <1>15
<1> QED
  BY <1>1, <1>16, <1>17

\* The states of the object while it replays the journal.
LEMMA ReplayUnfolds ==
    ASSUME IsSeq(journal)
    PROVE  \E after : /\ Replayed(journal) = after[Len(journal)] /\ after[0] = Loaded
                      /\ \A k \in 1..Len(journal) : after[k] = ReplayStep(after[k - 1], journal[k])
<1> DEFINE n == Len(journal)
           after == CHOOSE g : g = ReplaySteps(journal, n, g)
<1>1. n \in Nat
  BY SeqShape
<1>2. after = ReplaySteps(journal, n, after)
  <2>1. \E g : g = ReplaySteps(journal, n, g)
    BY <1>1, ReplayStepsExist
  <2> QED
    BY <2>1
<1>3. Replayed(journal) = after[n]
  BY DEF Replayed, ReplaySteps
<1> HIDE DEF after
<1>4. \A k \in 0..n : after[k] = IF k = 0 THEN Loaded ELSE ReplayStep(after[k - 1], journal[k])
  BY <1>2 DEF ReplaySteps
<1>5. after[0] = Loaded /\ \A k \in 1..n : after[k] = ReplayStep(after[k - 1], journal[k])
  BY <1>1, <1>4
<1> QED
  BY <1>3, <1>5

\* The states of the object while it splits the way to p.
LEMMA SplitAlongUnfolds ==
    ASSUME NEW d, NEW p, Len(p) \in Nat
    PROVE  \E after : /\ SplitAlong(d, p) = after[Len(p)] /\ after[0] = d
                      /\ \A k \in 1..Len(p) : after[k] = SplitStep(after[k - 1], SubSeq(p, 1, k - 1))
<1> DEFINE n == Len(p)
           after == CHOOSE g : g = SplitSteps(d, p, n, g)
<1>2. after = SplitSteps(d, p, n, after)
  <2>1. \E g : g = SplitSteps(d, p, n, g)
    BY SplitStepsExist
  <2> QED
    BY <2>1
<1>3. SplitAlong(d, p) = after[n]
  BY DEF SplitAlong, SplitSteps
<1> HIDE DEF after
<1>4. \A k \in 0..n : after[k] = IF k = 0 THEN d ELSE SplitStep(after[k - 1], SubSeq(p, 1, k - 1))
  BY <1>2 DEF SplitSteps
<1>5. after[0] = d /\ \A k \in 1..n : after[k] = SplitStep(after[k - 1], SubSeq(p, 1, k - 1))
  BY <1>4
<1> QED
  BY <1>3, <1>5

\* The next id is at most one past the bound.
LEMMA NextIdBounded ==
    ASSUME NEW d, NEW n \in Nat, d.ids \in SUBSET (0..n)
    PROVE  NextId(d) \in 0..(n + 1)
<1>1. CASE d.ids = {}
  BY <1>1 DEF NextId
<1>2. CASE d.ids # {}
  <2>1. PICK m \in d.ids : \A i \in d.ids : i <= m
    <3>1. d.ids \in SUBSET Nat /\ \A i \in d.ids : i <= n
      OBVIOUS
    <3> QED
      BY <1>2, <3>1, GreatestNat
  <2> DEFINE last == CHOOSE k \in d.ids : \A i \in d.ids : i <= k
  <2>2. last \in d.ids
    BY <2>1
  <2>3. NextId(d) = 1 + last
    BY <1>2, Zenon DEF NextId
  <2> HIDE DEF last
  <2> QED
    BY <2>2, <2>3
<1> QED
  BY <1>1, <1>2

\* A transaction names ids within the bound.
EntryOk(t, n) == t.type = "split" => t.left \in 0..n /\ t.right \in 0..n
LogOk(log, n) == \A t \in Range(log) : EntryOk(t, n)

\* split_leaf allocates the next two ids (database.cpp:1507-1579).
LEMMA SplitStepNumbered ==
    ASSUME NEW d, IsDb(d), NEW n \in Nat, Numbered(d, n), LogOk(d.log, n), NEW q,
           NEW e, e = SplitStep(d, q)
    PROVE  IsDb(e) /\ Numbered(e, n + 2) /\ LogOk(e.log, n + 2)
<1>1. CASE ~HasRow(d, q) \/ ~IsLeaf(d, q) \/ Len(q) + 1 >= MaxTreeDepth
  <2>1. e = d
    BY <1>1 DEF SplitStep
  <2>2. Numbered(e, n + 2)
    BY <2>1, NumberedWider
  <2>3. \A t \in Range(d.log) : EntryOk(t, n + 2)
    BY DEF LogOk, EntryOk
  <2> QED
    BY <2>1, <2>2, <2>3 DEF LogOk
<1>2. CASE ~(~HasRow(d, q) \/ ~IsLeaf(d, q) \/ Len(q) + 1 >= MaxTreeDepth)
  <2> DEFINE p0 == Append(q, 0)
             p1 == Append(q, 1)
             l == NextId(d)
             d1 == WriteRow(d, l, Leaf(p0))
             d2 == WriteRow(d1, l + 1, Leaf(p1))
             d3 == LinkChildren(d2, q, l, l + 1)
             t == [type |-> "split", node |-> IdOf(d, q), left |-> l, right |-> l + 1]
             log == IF d.bulk THEN d3.log ELSE Append(d3.log, t)
  <2>1. e = [d3 EXCEPT !.pending = TRUE, !.log = log]
    BY <1>2 DEF SplitStep
  <2>2. l \in 0..(n + 1)
    BY NextIdBounded DEF Numbered
  <2> HIDE DEF l, p0, p1
  <2>3. l \in 0..(n + 2) /\ l + 1 \in 0..(n + 2) /\ n + 2 \in Nat /\ Numbered(d, n + 2)
    BY <2>2, NumberedWider
  <2>4. /\ IsDb(d1) /\ Numbered(d1, n + 2) /\ d1.log = d.log
        /\ DOMAIN d.rows \subseteq DOMAIN d1.rows
        /\ \A x \in DOMAIN d.paths : Known(d1, x) /\ d1.paths[x] = d.paths[x]
    BY <2>3, WriteRowNumbered
  <2> HIDE DEF d1
  <2>5. /\ IsDb(d2) /\ Numbered(d2, n + 2) /\ d2.log = d1.log
        /\ DOMAIN d1.rows \subseteq DOMAIN d2.rows
        /\ \A x \in DOMAIN d1.paths : Known(d2, x) /\ d2.paths[x] = d1.paths[x]
    BY <2>3, <2>4, WriteRowNumbered
  <2> HIDE DEF d2
  <2>6. PICK id : id = IdOf(d2, q)
    OBVIOUS
  <2>7. id \in DOMAIN d2.rows
    BY <1>2, <2>4, <2>5, <2>6 DEF HasRow, Known, IdOf
  <2>8. IsDb(d3) /\ Numbered(d3, n + 2) /\ d3.log = d2.log
    BY <2>5, <2>6, <2>7, LinkNumbered
  <2> HIDE DEF d3
  <2>9. t.type = "split" /\ t.left = l /\ t.right = l + 1
    OBVIOUS
  <2> HIDE DEF t
  <2>10. EntryOk(t, n + 2)
    BY <2>3, <2>9 DEF EntryOk
  <2>11. IsSeq(log) /\ Range(log) \subseteq Range(d.log) \cup {t}
    <3>1. d3.log = d.log /\ IsSeq(d.log)
      BY <2>4, <2>5, <2>8 DEF IsDb
    <3>2. IsSeq(Append(d.log, t)) /\ Range(Append(d.log, t)) = Range(d.log) \cup {t}
      BY <3>1, SeqAppend
    <3> QED
      BY <3>1, <3>2
  <2> HIDE DEF log
  <2>12. IsDb(e)
    <3>1. Grows(d3, [d3 EXCEPT !.pending = TRUE, !.log = log])
      BY <2>8, <2>11, JournalingGrows, Zenon
    <3> QED
      BY <2>1, <3>1, Zenon DEF Grows
  <2>13. SameNumbers(d3, e) /\ e.log = log
    <3>1. PICK f : f = [d3 EXCEPT !.pending = TRUE]
      OBVIOUS
    <3>2. f = [ids |-> d3.ids, paths |-> d3.paths, rows |-> d3.rows, dirty |-> d3.dirty,
               resident |-> d3.resident, index |-> d3.index, buffer |-> d3.buffer,
               sidecarDirty |-> d3.sidecarDirty, pending |-> TRUE, appends |-> d3.appends,
               bulk |-> d3.bulk, log |-> d3.log]
      BY <2>8, <3>1 DEF IsDb
    <3>3. e = [f EXCEPT !.log = log]
      BY <2>1, <3>1
    <3>4. e.ids = f.ids /\ e.paths = f.paths /\ e.rows = f.rows /\ e.dirty = f.dirty /\ e.log = log
      BY <3>2, <3>3
    <3> QED
      BY <3>2, <3>4 DEF SameNumbers, SameNodes
  <2>14. Numbered(e, n + 2)
    BY <2>8, <2>13, NumberedSame
  <2>15. \A u \in Range(d.log) : EntryOk(u, n + 2)
    BY DEF LogOk, EntryOk
  <2> QED
    BY <2>10, <2>11, <2>12, <2>13, <2>14, <2>15 DEF LogOk
<1> QED
  BY <1>1, <1>2

\* split_to_box allocates two for each of the leaves it splits, at most.
LEMMA SplitAlongNumbered ==
    ASSUME NEW d, IsDb(d), NEW n \in Nat, Numbered(d, n), LogOk(d.log, n), NEW p, IsSeq(p),
           NEW e, e = SplitAlong(d, p)
    PROVE  \E m \in Nat : n <= m /\ IsDb(e) /\ Numbered(e, m) /\ LogOk(e.log, m)
<1>1. Len(p) \in Nat
  BY SeqShape
<1>2. PICK after : /\ SplitAlong(d, p) = after[Len(p)] /\ after[0] = d
                   /\ \A k \in 1..Len(p) : after[k] = SplitStep(after[k - 1], SubSeq(p, 1, k - 1))
  BY <1>1, SplitAlongUnfolds
<1> DEFINE Ok(x, m) == IsDb(x) /\ Numbered(x, m) /\ LogOk(x.log, m)
           T == {k \in 0..Len(p) : Ok(after[k], n + 2 * k)}
<1>3. 0 \in T
  BY <1>1, <1>2
<1>4. ASSUME NEW k \in 1..Len(p), k - 1 \in T PROVE k \in T
  <2>1. Ok(after[k - 1], n + 2 * (k - 1)) /\ n + 2 * (k - 1) \in Nat
    BY <1>1, <1>4
  <2>2. after[k] = SplitStep(after[k - 1], SubSeq(p, 1, k - 1))
    BY <1>2
  <2>3. Ok(after[k], n + 2 * (k - 1) + 2)
    BY <2>1, <2>2, SplitStepNumbered
  <2>4. n + 2 * (k - 1) + 2 = n + 2 * k
    BY <1>1
  <2> QED
    BY <2>3, <2>4
<1>5. Len(p) \in T
  <2> HIDE DEF T
  <2>1. \A k \in 0..Len(p) : k \in T
    BY <1>1, <1>3, <1>4, UpTo
  <2> QED
    BY <1>1, <2>1
<1>6. Ok(e, n + 2 * Len(p))
  BY <1>2, <1>5
<1>7. n + 2 * Len(p) \in Nat /\ n <= n + 2 * Len(p)
  BY <1>1
<1> QED
  BY <1>6, <1>7

\* Replaying a transaction allocates the ids it names (database.cpp:3491-3591).
LEMMA ReplayStepNumbered ==
    ASSUME NEW d0, IsDb(d0), NEW n \in Nat, Numbered(d0, n), NEW t, EntryOk(t, n),
           NEW e, e = ReplayStep(d0, t)
    PROVE  IsDb(e) /\ Numbered(e, n) /\ e.log = d0.log /\ e.bulk = d0.bulk
<1>1. CASE t.type # "split"
  <2>1. Still(d0, e)
    BY <1>1, StillReplay
  <2> QED
    BY <2>1, NumberedSame DEF Still
<1>2. CASE t.type = "split"
  <2>1. PICK d : d = [d0 EXCEPT !.pending = TRUE]
    OBVIOUS
  <2>2. Still(d0, d)
    BY <2>1, StillField DEF SameStore
  <2>3. IsDb(d) /\ Numbered(d, n) /\ d.log = d0.log /\ d.bulk = d0.bulk
    BY <2>2, NumberedSame DEF Still
  <2> DEFINE settled == t.node \notin DOMAIN d.rows \/
                        (d.rows[t.node].left = t.left /\ {t.left, t.right} \subseteq DOMAIN d.rows)
             p == d.rows[t.node].path
             d1 == IF t.left \in DOMAIN d.rows THEN d ELSE WriteRow(d, t.left, Leaf(Append(p, 0)))
             d2 == IF t.right \in DOMAIN d1.rows THEN d1
                   ELSE WriteRow(d1, t.right, Leaf(Append(p, 1)))
  <2>4. e = IF settled THEN d ELSE LinkChildren(d2, p, t.left, t.right)
    BY <1>2, <2>1 DEF ReplayStep
  <2>5. CASE settled
    BY <2>3, <2>4, <2>5
  <2>6. CASE ~settled
    <3>1. /\ t.node \in DOMAIN d.rows /\ Known(d, p) /\ d.paths[p] = t.node
          /\ t.left \in 0..n /\ t.right \in 0..n
      BY <1>2, <2>3, <2>6 DEF Numbered, EntryOk
    <3>2. e = LinkChildren(d2, p, t.left, t.right)
      BY <2>4, <2>6
    <3>3. PICK p0 : p0 = Append(p, 0)
      OBVIOUS
    <3>4. PICK p1 : p1 = Append(p, 1)
      OBVIOUS
    <3>5. PICK f1 : f1 = WriteRow(d, t.left, Leaf(p0))
      OBVIOUS
    <3>6. d1 = IF t.left \in DOMAIN d.rows THEN d ELSE f1
      BY <3>3, <3>5
    <3> HIDE DEF d1
    <3>7. PICK f2 : f2 = WriteRow(d1, t.right, Leaf(p1))
      OBVIOUS
    <3>8. d2 = IF t.right \in DOMAIN d1.rows THEN d1 ELSE f2
      BY <3>4, <3>7
    <3> HIDE DEF p, d2, settled
    <3>9. /\ IsDb(f1) /\ Numbered(f1, n) /\ f1.log = d.log /\ f1.bulk = d.bulk
          /\ DOMAIN d.rows \subseteq DOMAIN f1.rows
          /\ \A x \in DOMAIN d.paths : Known(f1, x) /\ f1.paths[x] = d.paths[x]
      BY <2>3, <3>1, <3>5, WriteRowNumbered
    <3>10. /\ IsDb(d1) /\ Numbered(d1, n) /\ d1.log = d.log /\ d1.bulk = d.bulk
          /\ DOMAIN d.rows \subseteq DOMAIN d1.rows
           /\ \A x \in DOMAIN d.paths : Known(d1, x) /\ d1.paths[x] = d.paths[x]
      BY <2>3, <3>6, <3>9 DEF Known
    <3>11. /\ IsDb(f2) /\ Numbered(f2, n) /\ f2.log = d.log /\ f2.bulk = d.bulk
          /\ DOMAIN d1.rows \subseteq DOMAIN f2.rows
           /\ \A x \in DOMAIN d1.paths : Known(f2, x) /\ f2.paths[x] = d1.paths[x]
      BY <3>1, <3>7, <3>10, WriteRowNumbered
    <3>12. /\ IsDb(d2) /\ Numbered(d2, n) /\ d2.log = d.log /\ d2.bulk = d.bulk
          /\ DOMAIN d1.rows \subseteq DOMAIN d2.rows
           /\ \A x \in DOMAIN d1.paths : Known(d2, x) /\ d2.paths[x] = d1.paths[x]
      BY <3>8, <3>10, <3>11 DEF Known
    <3>13. PICK id : id = IdOf(d2, p)
      OBVIOUS
    <3>14. id \in DOMAIN d2.rows
      BY <3>1, <3>10, <3>12, <3>13 DEF Known, IdOf
    <3> QED
      BY <2>3, <3>2, <3>12, <3>13, <3>14, LinkNumbered
  <2> QED
    BY <2>5, <2>6
<1> QED
  BY <1>1, <1>2

-----------------------------------------------------------------------------
(* The types of the files.                                                 *)

\* The content of a page file, or of a temporary one.
RowsOk(f, n) == DOMAIN f \in SUBSET (0..n) /\ \A i \in DOMAIN f : IsRow(f[i])
FilesOk(fs, n) == \A q \in DOMAIN fs : RowsOk(fs[q], n)

\* The nodes on disk are those of the page files and of the temporary ones.
LEMMA NodesOnDisk ==
    \A n : n \in DiskNodes <=>
        \/ \E q \in DOMAIN pages : \E i \in DOMAIN pages[q] : n = <<i, pages[q][i].path>>
        \/ \E q \in DOMAIN tmps : \E i \in DOMAIN tmps[q] : n = <<i, tmps[q][i].path>>
<1>1. ASSUME NEW f
      PROVE  \A n : n \in NodesIn(f) <=> \E q \in DOMAIN f : \E i \in DOMAIN f[q] :
                        n = <<i, f[q][i].path>>
  <2>1. \A n : n \in NodesIn(f) <=> \E q \in DOMAIN f :
                n \in {<<i, f[q][i].path>> : i \in DOMAIN f[q]}
    BY DEF NodesIn
  <2> QED
    BY <2>1
<1>2. \A n : n \in NodesIn(pages) <=> \E q \in DOMAIN pages : \E i \in DOMAIN pages[q] :
                        n = <<i, pages[q][i].path>>
  BY <1>1
<1>3. \A n : n \in NodesIn(tmps) <=> \E q \in DOMAIN tmps : \E i \in DOMAIN tmps[q] :
                        n = <<i, tmps[q][i].path>>
  BY <1>1
<1> QED
  BY <1>2, <1>3 DEF DiskNodes

\* load_nodes gives every id one path, when it succeeds (database.cpp:2649-2724).
LEMMA LoadedNumbered ==
    ASSUME NEW n \in Nat, FilesOk(pages, n), FilesOk(tmps, n), PagesInPlace, NodesLoadable
    PROVE  Numbered(Loaded, n)
<1>1. /\ Loaded.ids = {m[1] : m \in DiskNodes} /\ Loaded.rows = DiskRows
      /\ Loaded.paths = [p \in {m[2] : m \in DiskNodes} |->
                            (CHOOSE m \in DiskNodes : m[2] = p)[1]]
      /\ Loaded.dirty = {}
  BY LoadedFields
<1>2. ASSUME NEW m \in DiskNodes PROVE m[1] \in 0..n
  <2>1. CASE \E q \in DOMAIN pages : \E i \in DOMAIN pages[q] : m = <<i, pages[q][i].path>>
    <3>1. PICK q \in DOMAIN pages : \E i \in DOMAIN pages[q] : m = <<i, pages[q][i].path>>
      BY <2>1
    <3>2. PICK i \in DOMAIN pages[q] : m = <<i, pages[q][i].path>>
      BY <3>1
    <3> QED
      BY <3>2, NodeParts DEF FilesOk, RowsOk
  <2>2. CASE \E q \in DOMAIN tmps : \E i \in DOMAIN tmps[q] : m = <<i, tmps[q][i].path>>
    <3>1. PICK q \in DOMAIN tmps : \E i \in DOMAIN tmps[q] : m = <<i, tmps[q][i].path>>
      BY <2>2
    <3>2. PICK i \in DOMAIN tmps[q] : m = <<i, tmps[q][i].path>>
      BY <3>1
    <3> QED
      BY <3>2, NodeParts DEF FilesOk, RowsOk
  <2> QED
    BY <2>1, <2>2, NodesOnDisk
<1>3. ASSUME NEW i \in DOMAIN DiskRows
      PROVE  IsRow(DiskRows[i]) /\ <<i, DiskRows[i].path>> \in DiskNodes
  <2>1. PICK q \in DOMAIN pages : i \in DOMAIN pages[q]
    BY DEF DiskRows
  <2>2. PageOf(i) = q
    BY <2>1 DEF PagesInPlace
  <2>3. DiskRows[i] = pages[q][i]
    BY <2>2 DEF DiskRows
  <2>4. <<i, DiskRows[i].path>> = <<i, pages[q][i].path>>
    BY <2>3
  <2> QED
    BY <2>1, <2>3, <2>4, NodesOnDisk DEF FilesOk, RowsOk
<1>4. ASSUME NEW p, NEW m \in DiskNodes, m[2] = p
      PROVE  p \in DOMAIN Loaded.paths /\ Loaded.paths[p] = m[1]
  <2>1. p \in {k[2] : k \in DiskNodes}
    BY <1>4
  <2> DEFINE found == CHOOSE k \in DiskNodes : k[2] = p
  <2>2. found \in DiskNodes /\ found[2] = p
    BY <1>4
  <2>3. Loaded.paths[p] = found[1]
    BY <1>1, <2>1
  <2> HIDE DEF found
  <2>4. found = m
    BY <1>4, <2>2 DEF NodesLoadable
  <2> QED
    BY <1>1, <2>1, <2>3, <2>4
<1>5. ASSUME NEW i \in DOMAIN DiskRows
      PROVE  /\ IsRow(DiskRows[i]) /\ i \in Loaded.ids
             /\ DiskRows[i].path \in DOMAIN Loaded.paths /\ Loaded.paths[DiskRows[i].path] = i
  <2>1. PICK m : m = <<i, DiskRows[i].path>>
    OBVIOUS
  <2>2. m \in DiskNodes /\ m[1] = i /\ m[2] = DiskRows[i].path
    BY <1>3, <2>1, NodeParts
  <2>3. i \in {k[1] : k \in DiskNodes}
    BY <2>2
  <2>4. PICK p : p = DiskRows[i].path
    OBVIOUS
  <2>5. p \in DOMAIN Loaded.paths /\ Loaded.paths[p] = m[1]
    BY <1>4, <2>2, <2>4
  <2> QED
    BY <1>1, <1>3, <2>2, <2>3, <2>4, <2>5
<1>6. ASSUME NEW p \in DOMAIN Loaded.paths PROVE Loaded.paths[p] \in Loaded.ids
  <2>1. p \in {k[2] : k \in DiskNodes}
    BY <1>1
  <2>2. PICK m \in DiskNodes : m[2] = p
    BY <2>1
  <2>3. Loaded.paths[p] = m[1]
    BY <1>4, <2>2
  <2>4. m[1] \in {k[1] : k \in DiskNodes}
    OBVIOUS
  <2> QED
    BY <1>1, <2>3, <2>4
<1>7. Loaded.ids \in SUBSET (0..n)
  BY <1>1, <1>2
<1>8. DOMAIN Loaded.rows \in SUBSET Loaded.ids
  BY <1>1, <1>5
<1>9. \A i \in DOMAIN Loaded.rows : /\ IsRow(Loaded.rows[i]) /\ Known(Loaded, Loaded.rows[i].path)
                                    /\ Loaded.paths[Loaded.rows[i].path] = i
  BY <1>1, <1>5 DEF Known
<1> QED
  BY <1>1, <1>6, <1>7, <1>8, <1>9 DEF Numbered

\* Replaying a whole journal keeps the ids in order.
LEMMA ReplayedNumbered ==
    ASSUME IsSeq(journal), NEW n \in Nat, IsDb(Loaded), Numbered(Loaded, n), LogOk(journal, n)
    PROVE  /\ IsDb(Replayed(journal)) /\ Numbered(Replayed(journal), n)
           /\ Replayed(journal).log = Loaded.log /\ Replayed(journal).bulk = Loaded.bulk
<1> DEFINE len == Len(journal)
<1>1. len \in Nat /\ \A k \in 1..len : journal[k] \in Range(journal)
  BY SeqShape
<1>2. PICK after : /\ Replayed(journal) = after[Len(journal)] /\ after[0] = Loaded
                   /\ \A k \in 1..Len(journal) : after[k] = ReplayStep(after[k - 1], journal[k])
  BY ReplayUnfolds
<1> DEFINE Ok(x) == /\ IsDb(x) /\ Numbered(x, n)
                    /\ x.log = Loaded.log /\ x.bulk = Loaded.bulk
           T == {k \in 0..len : Ok(after[k])}
<1>3. 0 \in T
  BY <1>1, <1>2
<1>4. ASSUME NEW k \in 1..len, k - 1 \in T PROVE k \in T
  <2>1. after[k] = ReplayStep(after[k - 1], journal[k])
    BY <1>2
  <2>2. EntryOk(journal[k], n)
    BY <1>1 DEF LogOk
  <2>3. Ok(after[k])
    BY <1>4, <2>1, <2>2, ReplayStepNumbered
  <2> QED
    BY <1>1, <2>3
<1>5. len \in T
  <2> HIDE DEF T, len
  <2>1. \A k \in 0..len : k \in T
    BY <1>1, <1>3, <1>4, UpTo
  <2> QED
    BY <1>1, <2>1
<1> QED
  BY <1>2, <1>5

-----------------------------------------------------------------------------
(* The types of the changes a call has still to make.                      *)

\* The changes a call has still to make: what they put into the files has its
\* type, and the sidecar gets the size of the store it will find.
SizeOk(s, k, lo, hi) ==
    \/ s[k].content.size \in -1..lo
    \/ s[k].content.size \in -1..hi /\ FlushedBy(s, k)
RemoveOk(s, k) ==
    /\ k + 1 \in 1..Len(s) /\ s[k + 1].act = "rename"
    /\ s[k + 1].file = s[k].file /\ s[k + 1].key = s[k].key /\ s[k + 1].content = s[k].content
StepOk(s, k, n, lo, hi, known) ==
    /\ s[k].file = "page" => RowsOk(s[k].content, n)
    /\ s[k].act = "append" => EntryOk(s[k].content, n)
    /\ s[k].file = "sidecar" => SizeOk(s, k, lo, hi)
    /\ s[k].act = "value" => s[k].content \in SUBSET (Vals \cup {None})
    /\ s[k].act = "nodes" => s[k].content \in SUBSET known
    /\ s[k].act = "remove" => RemoveOk(s, k)
StepsOk(s, n, lo, hi, known) ==
    IsSeq(s) /\ \A k \in 1..Len(s) : StepOk(s, k, n, lo, hi, known)

\* Changes of their types one after the other have their types.
LEMMA StepsConcat ==
    ASSUME NEW s, NEW t, NEW n, NEW lo, NEW hi, NEW known,
           StepsOk(s, n, lo, hi, known), StepsOk(t, n, lo, hi, known)
    PROVE  StepsOk(s \o t, n, lo, hi, known)
<1> DEFINE u == s \o t
<1>1. IsSeq(s) /\ IsSeq(t) /\ Len(s) \in Nat /\ Len(t) \in Nat
  BY SeqShape DEF StepsOk
<1>2. /\ IsSeq(u) /\ Len(u) = Len(s) + Len(t)
      /\ \A i \in 1..Len(s) : u[i] = s[i]
      /\ \A i \in 1..Len(t) : u[Len(s) + i] = t[i]
  BY <1>1, SeqConcat
<1> HIDE DEF u
<1>3. ASSUME NEW k \in 1..Len(s) PROVE StepOk(u, k, n, lo, hi, known)
  <2>1. u[k] = s[k] /\ StepOk(s, k, n, lo, hi, known)
    BY <1>2 DEF StepsOk
  <2>2. FlushedBy(s, k) => FlushedBy(u, k)
    BY <1>1, <1>2 DEF FlushedBy
  <2>3. SizeOk(s, k, lo, hi) => SizeOk(u, k, lo, hi)
    BY <2>1, <2>2 DEF SizeOk
  <2>4. RemoveOk(s, k) => RemoveOk(u, k)
    <3> SUFFICES ASSUME RemoveOk(s, k) PROVE RemoveOk(u, k)
      OBVIOUS
    <3>1. k + 1 \in 1..Len(s) /\ k + 1 \in 1..Len(u)
      BY <1>1, <1>2 DEF RemoveOk
    <3>2. u[k + 1] = s[k + 1]
      BY <1>2, <3>1
    <3> QED
      BY <2>1, <3>1, <3>2 DEF RemoveOk
  <2> QED
    BY <2>1, <2>3, <2>4 DEF StepOk
<1>4. ASSUME NEW i \in 1..Len(t) PROVE StepOk(u, Len(s) + i, n, lo, hi, known)
  <2>1. u[Len(s) + i] = t[i] /\ StepOk(t, i, n, lo, hi, known)
    BY <1>2 DEF StepsOk
  <2>2. ASSUME FlushedBy(t, i) PROVE FlushedBy(u, Len(s) + i)
    <3>1. PICK j \in 1..(i - 1) : IsFlush(t[j])
      BY <2>2 DEF FlushedBy
    <3>2. Len(s) + j \in 1..(Len(s) + i - 1) /\ u[Len(s) + j] = t[j]
      BY <1>1, <1>2
    <3> QED
      BY <3>1, <3>2 DEF FlushedBy
  <2>3. SizeOk(t, i, lo, hi) => SizeOk(u, Len(s) + i, lo, hi)
    BY <2>1, <2>2 DEF SizeOk
  <2>4. RemoveOk(t, i) => RemoveOk(u, Len(s) + i)
    <3> SUFFICES ASSUME RemoveOk(t, i) PROVE RemoveOk(u, Len(s) + i)
      OBVIOUS
    <3>1. PICK a, b, c : a = Len(s) /\ b = Len(t) /\ c = Len(u)
      OBVIOUS
    <3>2. i + 1 \in 1..b
      BY <3>1 DEF RemoveOk
    <3>3. a \in Nat /\ b \in Nat /\ c = a + b /\ i \in Nat
      BY <1>1, <1>2, <3>1
    <3>4. a + (i + 1) = (a + i) + 1 /\ (a + i) + 1 \in 1..c
      BY <3>2, <3>3
    <3>5. u[(a + i) + 1] = t[i + 1]
      <4>1. \A x \in 1..b : u[a + x] = t[x]
        BY <1>2, <3>1
      <4> QED
        BY <3>2, <3>4, <4>1
    <3>6. u[a + i] = t[i]
      BY <2>1, <3>1
    <3>7. RemoveOk(u, a + i)
      BY <3>1, <3>4, <3>5, <3>6 DEF RemoveOk
    <3> QED
      BY <3>1, <3>7
  <2> QED
    BY <2>1, <2>3, <2>4 DEF StepOk
<1>5. ASSUME NEW k \in 1..Len(u) PROVE StepOk(u, k, n, lo, hi, known)
  <2>1. CASE k <= Len(s)
    BY <1>1, <1>3, <2>1
  <2>2. CASE k > Len(s)
    <3>1. k - Len(s) \in 1..Len(t) /\ Len(s) + (k - Len(s)) = k
      BY <1>1, <1>2, <2>2
    <3> QED
      BY <1>4, <3>1
  <2> QED
    BY <1>1, <1>2, <2>1, <2>2
<1> QED
  BY <1>2, <1>5 DEF StepsOk, u

\* So are those that are left when the first is made.
LEMMA StepsTail ==
    ASSUME NEW s, NEW n, NEW lo \in Nat, NEW hi \in Nat, lo <= hi, NEW known,
           StepsOk(s, n, lo, hi, known), s # <<>>,
           NEW low, NEW high, IF IsFlush(Head(s)) THEN low = hi /\ high = hi ELSE low = lo /\ high = hi
    PROVE  /\ StepOk(s, 1, n, lo, hi, known) /\ Head(s) = s[1] /\ IsSeq(Tail(s))
           /\ Head(s).act = "remove" =>
                Tail(s) # <<>> /\ Head(Tail(s)).act = "rename" /\ Head(Tail(s)).file = Head(s).file
                /\ Head(Tail(s)).key = Head(s).key /\ Head(Tail(s)).content = Head(s).content
           /\ StepsOk(Tail(s), n, low, high, known)
<1>1. /\ IsSeq(Tail(s)) /\ Head(s) = s[1] /\ Len(s) \in Nat \ {0} /\ Len(Tail(s)) = Len(s) - 1
      /\ \A i \in 1..Len(s) - 1 : Tail(s)[i] = s[i + 1]
  BY SeqTail DEF StepsOk
<1>2. StepOk(s, 1, n, lo, hi, known)
  BY <1>1 DEF StepsOk
<1>3. Head(s).act = "remove" =>
        Tail(s) # <<>> /\ Head(Tail(s)).act = "rename" /\ Head(Tail(s)).file = Head(s).file
        /\ Head(Tail(s)).key = Head(s).key /\ Head(Tail(s)).content = Head(s).content
  <2> SUFFICES ASSUME Head(s).act = "remove"
               PROVE  Tail(s) # <<>> /\ Head(Tail(s)).act = "rename"
                      /\ Head(Tail(s)).file = Head(s).file
                      /\ Head(Tail(s)).key = Head(s).key /\ Head(Tail(s)).content = Head(s).content
    OBVIOUS
  <2>1. RemoveOk(s, 1)
    BY <1>1, <1>2 DEF StepOk
  <2>2. /\ 1 + 1 \in 1..Len(s) /\ s[1 + 1].act = "rename"
        /\ s[1 + 1].file = s[1].file /\ s[1 + 1].key = s[1].key /\ s[1 + 1].content = s[1].content
    BY <2>1 DEF RemoveOk
  <2>3. 1 \in 1..Len(s) - 1 /\ Len(Tail(s)) # 0
    BY <1>1, <2>2
  <2>4. Tail(s)[1] = s[1 + 1]
    BY <1>1, <2>3
  <2>5. Tail(s) # <<>>
    BY <2>3, SeqEmpty
  <2>6. Head(Tail(s)) = Tail(s)[1]
    BY <1>1, <2>5, SeqTail
  <2> QED
    BY <1>1, <2>2, <2>4, <2>5, <2>6
<1>4. ASSUME NEW i \in 1..Len(Tail(s)) PROVE StepOk(Tail(s), i, n, low, high, known)
  <2> DEFINE u == Tail(s)
  <2>1. i + 1 \in 1..Len(s) /\ u[i] = s[i + 1]
    BY <1>1
  <2>2. StepOk(s, i + 1, n, lo, hi, known)
    BY <2>1 DEF StepsOk
  <2>3. ASSUME FlushedBy(s, i + 1), ~IsFlush(Head(s)) PROVE FlushedBy(u, i)
    <3>1. PICK j \in 1..(i + 1 - 1) : IsFlush(s[j])
      BY <2>3 DEF FlushedBy
    <3>2. j # 1
      BY <1>1, <2>3, <3>1
    <3>3. j - 1 \in 1..(i - 1) /\ j - 1 \in 1..Len(s) - 1 /\ (j - 1) + 1 = j
      BY <1>1, <3>2
    <3>4. u[j - 1] = s[j]
      BY <1>1, <3>3
    <3> QED
      BY <3>1, <3>3, <3>4 DEF FlushedBy
  <2>4. RemoveOk(s, i + 1) => RemoveOk(u, i)
    <3> SUFFICES ASSUME RemoveOk(s, i + 1) PROVE RemoveOk(u, i)
      OBVIOUS
    <3>1. i + 1 + 1 \in 1..Len(s)
      BY DEF RemoveOk
    <3>2. i + 1 \in 1..Len(s) - 1 /\ i + 1 \in 1..Len(u)
      BY <1>1, <3>1
    <3>3. u[i + 1] = s[i + 1 + 1]
      BY <1>1, <3>2
    <3> QED
      BY <2>1, <3>2, <3>3 DEF RemoveOk
  <2> HIDE DEF u
  <2>5. SizeOk(s, i + 1, lo, hi) => SizeOk(u, i, low, high)
    BY <2>1, <2>3 DEF SizeOk
  <2>6. StepOk(u, i, n, low, high, known)
    BY <2>1, <2>2, <2>4, <2>5 DEF StepOk
  <2> QED
    BY <2>6 DEF u
<1> QED
  BY <1>1, <1>2, <1>3, <1>4 DEF StepsOk

\* Changes of which there is nothing to say.
LEMMA OtherSteps ==
    ASSUME NEW s, IsSeq(s), NEW n, NEW lo, NEW hi, NEW known,
           \A c \in Range(s) : /\ c.file \notin {"page", "sidecar"}
                               /\ c.act \notin {"append", "value", "nodes", "remove"}
    PROVE  StepsOk(s, n, lo, hi, known)
<1>1. ASSUME NEW k \in 1..Len(s) PROVE StepOk(s, k, n, lo, hi, known)
  <2>1. s[k].file \notin {"page", "sidecar"} /\ s[k].act \notin {"append", "value", "nodes", "remove"}
    BY SeqShape
  <2> QED
    BY <2>1 DEF StepOk
<1> QED
  BY <1>1 DEF StepsOk

\* Replacing a file: what it gets.
LEMMA ReplaceSteps ==
    ASSUME NEW file, NEW key, NEW content, NEW n, NEW lo, NEW hi, NEW known,
           file = "page" => RowsOk(content, n),
           file = "sidecar" => content.size \in -1..lo
    PROVE  StepsOk(Replace(file, key, content), n, lo, hi, known)
<1> DEFINE s == Replace(file, key, content)
           c1 == Change(file, "remove", key, content)
           c2 == Change(file, "rename", key, content)
<1>1. /\ c1.file = file /\ c1.act = "remove" /\ c1.key = key /\ c1.content = content
      /\ c2.file = file /\ c2.act = "rename" /\ c2.key = key /\ c2.content = content
  BY DEF Change
<1>2. s = <<c1, c2>>
  BY DEF Replace
<1> HIDE DEF s, c1, c2
<1>3. IsSeq(s) /\ Len(s) = 2 /\ s[1] = c1 /\ s[2] = c2
  BY <1>2, SeqPair
<1>4. RemoveOk(s, 1)
  BY <1>1, <1>3 DEF RemoveOk
<1>5. StepOk(s, 1, n, lo, hi, known) /\ StepOk(s, 2, n, lo, hi, known)
  BY <1>1, <1>3, <1>4 DEF StepOk, SizeOk
<1>6. \A k \in 1..Len(s) : StepOk(s, k, n, lo, hi, known)
  BY <1>3, <1>5
<1> QED
  BY <1>3, <1>6 DEF StepsOk, s

\* The pieces calls are made of.
LEMMA PlainSteps ==
    ASSUME NEW n, NEW lo, NEW hi, NEW known
    PROVE  /\ StepsOk(<<>>, n, lo, hi, known) /\ StepsOk(ManifestWrites, n, lo, hi, known)
           /\ StepsOk(FlushStore, n, lo, hi, known) /\ StepsOk(TruncateJournal, n, lo, hi, known)
<1>1. StepsOk(<<>>, n, lo, hi, known)
  BY SeqEmpty, OtherSteps
<1>2. StepsOk(ManifestWrites, n, lo, hi, known)
  BY ReplaceSteps DEF ManifestWrites
<1>3. StepsOk(FlushStore, n, lo, hi, known) /\ StepsOk(TruncateJournal, n, lo, hi, known)
  BY SeqSingle, OtherSteps DEF FlushStore, TruncateJournal, Change
<1> QED
  BY <1>1, <1>2, <1>3

\* What a call returns.
LEMMA ReturnSteps ==
    ASSUME NEW n, NEW lo, NEW hi, NEW known
    PROVE  /\ \A p, V : V \in SUBSET (Vals \cup {None}) => StepsOk(ReturnValue(p, V), n, lo, hi, known)
           /\ \A d, m : Numbered(d, m) /\ DOMAIN d.paths \in SUBSET known
                          => StepsOk(ReturnNodes(d), n, lo, hi, known)
<1>1. ASSUME NEW p, NEW V, V \in SUBSET (Vals \cup {None})
      PROVE  StepsOk(ReturnValue(p, V), n, lo, hi, known)
  <2> DEFINE c == Change("return", "value", p, V)
             s == <<c>>
  <2>1. c.file = "return" /\ c.act = "value" /\ c.content = V
    BY DEF Change
  <2> HIDE DEF c
  <2>2. IsSeq(s) /\ Len(s) = 1 /\ s[1] = c
    BY SeqSingle
  <2> HIDE DEF s
  <2>3. StepOk(s, 1, n, lo, hi, known)
    BY <1>1, <2>1, <2>2 DEF StepOk
  <2>4. \A k \in 1..Len(s) : StepOk(s, k, n, lo, hi, known)
    BY <2>2, <2>3
  <2>5. StepsOk(s, n, lo, hi, known)
    BY <2>2, <2>4 DEF StepsOk
  <2> QED
    BY <2>5 DEF s, c, ReturnValue
<1>2. ASSUME NEW d, NEW m, Numbered(d, m), DOMAIN d.paths \in SUBSET known
      PROVE  StepsOk(ReturnNodes(d), n, lo, hi, known)
  <2> DEFINE X == {d.rows[i].path : i \in DOMAIN d.rows}
             c == Change("return", "nodes", 0, X)
             s == <<c>>
  <2>1. c.file = "return" /\ c.act = "nodes" /\ c.content = X
    BY DEF Change
  <2>2. X \in SUBSET known
    BY <1>2 DEF Numbered, Known
  <2> HIDE DEF X
  <2>3. c.content \in SUBSET known
    BY <2>1, <2>2
  <2> HIDE DEF c
  <2>4. IsSeq(s) /\ Len(s) = 1 /\ s[1] = c
    BY SeqSingle
  <2> HIDE DEF s
  <2>5. StepOk(s, 1, n, lo, hi, known)
    BY <2>1, <2>3, <2>4 DEF StepOk
  <2>6. \A k \in 1..Len(s) : StepOk(s, k, n, lo, hi, known)
    BY <2>4, <2>5
  <2>7. StepsOk(s, n, lo, hi, known)
    BY <2>4, <2>6 DEF StepsOk
  <2> QED
    BY <2>7 DEF s, c, X, ReturnNodes
<1> QED
  BY <1>1, <1>2

\* The transactions of the journal.
LEMMA JournalSteps ==
    ASSUME NEW n, NEW lo, NEW hi, NEW known, NEW log, IsSeq(log), LogOk(log, n)
    PROVE  StepsOk(JournalWrites(log), n, lo, hi, known)
<1> DEFINE s == JournalWrites(log)
           m == Len(log)
<1>1. m \in Nat /\ DOMAIN log = 1..m /\ \A k \in 1..m : log[k] \in Range(log)
  BY SeqShape
<1>2. s = [k \in 1..m |-> Change("journal", "append", 0, log[k])]
  BY <1>1 DEF JournalWrites
<1>3. \A k \in 1..m : s[k].file = "journal" /\ s[k].act = "append" /\ s[k].content = log[k]
  BY <1>2 DEF Change
<1>4. s = [k \in 1..m |-> s[k]]
  BY <1>2
<1> HIDE DEF s, m
<1>5. IsSeq(s) /\ Len(s) = m
  BY <1>1, <1>4, SeqFunction
<1>6. \A k \in 1..m : EntryOk(log[k], n)
  BY <1>1 DEF LogOk
<1>7. \A k \in 1..m : StepOk(s, k, n, lo, hi, known)
  BY <1>3, <1>6 DEF StepOk
<1> QED
  BY <1>5, <1>7 DEF StepsOk, s

\* The pages of an object.
LEMMA PageSteps ==
    ASSUME NEW n, NEW lo, NEW hi, NEW known, NEW d, Numbered(d, n), NEW order, IsSeq(order)
    PROVE  StepsOk(PageWrites(d, order), n, lo, hi, known)
<1> DEFINE s == PageWrites(d, order)
           m == Len(order)
<1>1. m \in Nat /\ 2 * m \in Nat
  BY SeqShape
<1>2. s = [k \in 1..2 * m |->
            Change("page", IF k % 2 = 1 THEN "remove" ELSE "rename", order[(k + 1) \div 2],
                   RowsOnPage(d, order[(k + 1) \div 2]))]
  BY DEF PageWrites
<1> HIDE DEF s
<1>3. \A k \in 1..2 * m : /\ s[k].file = "page" /\ s[k].key = order[(k + 1) \div 2]
                          /\ s[k].act = IF k % 2 = 1 THEN "remove" ELSE "rename"
                          /\ s[k].content = RowsOnPage(d, order[(k + 1) \div 2])
  BY <1>2 DEF Change
<1>4. IsSeq(s) /\ Len(s) = 2 * m
  <2>1. s = [k \in 1..2 * m |-> s[k]]
    BY <1>2
  <2> QED
    BY <1>1, <2>1, SeqFunction
<1>5. ASSUME NEW q PROVE RowsOk(RowsOnPage(d, q), n)
  <2>1. /\ DOMAIN RowsOnPage(d, q) = {j \in DOMAIN d.rows : PageOf(j) = q}
        /\ \A i \in DOMAIN RowsOnPage(d, q) : RowsOnPage(d, q)[i] = d.rows[i]
    BY DEF RowsOnPage
  <2> QED
    BY <2>1 DEF RowsOk, Numbered
<1>6. ASSUME NEW k \in 1..2 * m PROVE StepOk(s, k, n, lo, hi, known)
  <2>1. s[k].act = "remove" => RemoveOk(s, k)
    <3> SUFFICES ASSUME s[k].act = "remove" PROVE RemoveOk(s, k)
      OBVIOUS
    <3>1. k % 2 = 1
      BY <1>3
    <3>2. k + 1 \in 1..2 * m /\ (k + 1) % 2 # 1 /\ (k + 1 + 1) \div 2 = (k + 1) \div 2
      BY <1>1, <3>1
    <3>3. /\ s[k + 1].act = "rename" /\ s[k + 1].file = s[k].file /\ s[k + 1].key = s[k].key
          /\ s[k + 1].content = s[k].content
      BY <1>3, <3>2
    <3> QED
      BY <1>4, <3>2, <3>3 DEF RemoveOk
  <2>2. RowsOk(s[k].content, n)
    BY <1>3, <1>5
  <2> QED
    BY <1>3, <2>1, <2>2 DEF StepOk
<1> QED
  BY <1>4, <1>6 DEF StepsOk, s

\* save_evidence flushes the stream before it writes the size of the store.
LEMMA SaveEvidenceSteps ==
    ASSUME NEW n, NEW lo, NEW hi, NEW known, NEW d, Len(StoreOf(d)) \in -1..hi
    PROVE  StepsOk(SaveEvidence(d), n, lo, hi, known)
<1> DEFINE s == SaveEvidence(d)
           content == [size |-> Len(StoreOf(d)), index |-> d.index]
           c0 == Change("store", "flush", 0, 0)
           c1 == Change("sidecar", "remove", 0, content)
           c2 == Change("sidecar", "rename", 0, content)
<1>1. CASE d.sidecarDirty
  <2>1. s = <<c0>> \o <<c1, c2>>
    BY <1>1 DEF SaveEvidence, FlushStore, SidecarWrites, Replace
  <2>2. content.size \in -1..hi
    OBVIOUS
  <2> HIDE DEF content
  <2>3. /\ c0.file = "store" /\ c0.act = "flush"
        /\ c1.file = "sidecar" /\ c1.act = "remove" /\ c2.file = "sidecar" /\ c2.act = "rename"
        /\ c1.key = c2.key /\ c1.content = content /\ c2.content = content
    BY DEF Change
  <2> HIDE DEF s, c0, c1, c2
  <2>4. /\ IsSeq(<<c0>>) /\ Len(<<c0>>) = 1 /\ <<c0>>[1] = c0
        /\ IsSeq(<<c1, c2>>) /\ Len(<<c1, c2>>) = 2
        /\ <<c1, c2>>[1] = c1 /\ <<c1, c2>>[2] = c2
    BY SeqSingle, SeqPair
  <2>5. IsSeq(s) /\ Len(s) = 3 /\ s[1] = c0 /\ s[2] = c1 /\ s[3] = c2
    <3>1. /\ \A i \in 1..1 : s[i] = <<c0>>[i]
          /\ \A i \in 1..2 : s[1 + i] = <<c1, c2>>[i]
          /\ IsSeq(s) /\ Len(s) = 1 + 2
      BY <2>1, <2>4, SeqConcat
    <3> QED
      BY <2>4, <3>1
  <2>6. IsFlush(s[1])
    BY <2>3, <2>5 DEF IsFlush
  <2>7. FlushedBy(s, 2) /\ FlushedBy(s, 3)
    BY <2>6 DEF FlushedBy
  <2>8. RemoveOk(s, 2)
    BY <2>3, <2>5 DEF RemoveOk
  <2>9. StepOk(s, 1, n, lo, hi, known)
    BY <2>3, <2>5 DEF StepOk
  <2>10. SizeOk(s, 2, lo, hi) /\ SizeOk(s, 3, lo, hi)
    BY <2>2, <2>3, <2>5, <2>7 DEF SizeOk
  <2>11. StepOk(s, 2, n, lo, hi, known) /\ StepOk(s, 3, n, lo, hi, known)
    BY <2>3, <2>5, <2>8, <2>10 DEF StepOk
  <2>12. \A k \in 1..Len(s) : StepOk(s, k, n, lo, hi, known)
    BY <2>5, <2>9, <2>11
  <2> QED
    BY <2>5, <2>12 DEF StepsOk, s
<1>2. CASE ~d.sidecarDirty
  <2>1. s = FlushStore \o <<>>
    BY <1>2 DEF SaveEvidence, SidecarWrites
  <2> QED
    BY <2>1, PlainSteps, StepsConcat
<1> QED
  BY <1>1, <1>2

\* The incremental flush and the trim are made of these.
LEMMA ComposedSteps ==
    ASSUME NEW n, NEW lo, NEW hi, NEW known, NEW d, Len(StoreOf(d)) \in -1..hi
    PROVE  /\ StepsOk(Trim(d), n, lo, hi, known)
           /\ \A order : IsSeq(order) /\ Numbered(d, n) => StepsOk(MaybeFlush(d, order), n, lo, hi, known)
<1>1. StepsOk(SaveEvidence(d), n, lo, hi, known)
  BY SaveEvidenceSteps
<1>2. StepsOk(<<>>, n, lo, hi, known) /\ StepsOk(ManifestWrites, n, lo, hi, known)
  BY PlainSteps
<1>3. StepsOk(Trim(d), n, lo, hi, known)
  BY <1>1, <1>2 DEF Trim
<1>4. ASSUME NEW order, IsSeq(order), Numbered(d, n)
      PROVE  StepsOk(MaybeFlush(d, order), n, lo, hi, known)
  <2>1. StepsOk(PageWrites(d, order), n, lo, hi, known)
    BY <1>4, PageSteps
  <2>2. StepsOk(SaveEvidence(d) \o PageWrites(d, order), n, lo, hi, known)
    BY <1>1, <2>1, StepsConcat
  <2>3. StepsOk(SaveEvidence(d) \o PageWrites(d, order) \o ManifestWrites, n, lo, hi, known)
    BY <1>2, <2>2, StepsConcat
  <2> QED
    BY <1>2, <2>3 DEF MaybeFlush
<1> QED
  BY <1>3, <1>4

-----------------------------------------------------------------------------
(* The type invariant. *)

StepsDue(s, d, n) == StepsOk(s, n, Len(store), Len(store \o d.buffer), DOMAIN d.paths)
TypedBy(n) ==
    /\ Numbered(db, n) /\ db.log = <<>>
    /\ FilesOk(pages, n) /\ FilesOk(tmps, n) /\ LogOk(journal, n)
    /\ StepsDue(todo, db, n)
    /\ status \in {"open", "closed", "failed"} /\ (status # "open" => todo = <<>>)
    /\ manifest \in BOOLEAN /\ torn \in BOOLEAN
    /\ expected \in [Paths -> SUBSET (Vals \cup {None})]
    /\ sidecar.size \in -1..Len(store)
TypeInv == \E n \in Nat : TypedBy(n)

\* The files keep a larger bound.
LEMMA FilesWider ==
    ASSUME NEW n \in Nat, NEW m \in Nat, n <= m
    PROVE  /\ \A f : RowsOk(f, n) => RowsOk(f, m)
           /\ \A fs : FilesOk(fs, n) => FilesOk(fs, m)
           /\ \A log : LogOk(log, n) => LogOk(log, m)
<1>1. \A f : RowsOk(f, n) => RowsOk(f, m)
  BY DEF RowsOk
<1>2. \A t : EntryOk(t, n) => EntryOk(t, m)
  BY DEF EntryOk
<1> QED
  BY <1>1, <1>2 DEF FilesOk, LogOk

\* A call leaves the files alone and keeps the types of the rest.
LEMMA CallTyped ==
    ASSUME NEW n \in Nat, TypedBy(n), NEW m \in Nat, n <= m,
           UNCHANGED files, status' = "open",
           expected' \in [Paths -> SUBSET (Vals \cup {None})],
           Numbered(db', m), db'.log = <<>>, StepsDue(todo', db', m)
    PROVE  TypeInv'
<1>1. /\ pages' = pages /\ tmps' = tmps /\ journal' = journal /\ store' = store
      /\ manifest' = manifest /\ torn' = torn /\ sidecar' = sidecar
  BY DEF files
<1>2. FilesOk(pages', m) /\ FilesOk(tmps', m) /\ LogOk(journal', m)
  BY <1>1, FilesWider DEF TypedBy
<1>4. /\ manifest' \in BOOLEAN /\ torn' \in BOOLEAN /\ sidecar'.size \in -1..Len(store')
      /\ status' \in {"open", "closed", "failed"}
  BY <1>1 DEF TypedBy
<1>5. StepsOk(todo', m, Len(store'), Len(store' \o db'.buffer), DOMAIN db'.paths)
  BY <1>1 DEF StepsDue
<1>6. TypedBy(m)'
  BY <1>2, <1>4, <1>5 DEF TypedBy, StepsDue
<1> QED
  BY <1>6 DEF TypeInv

-----------------------------------------------------------------------------
(* Every call keeps the types.                                             *)

\* Handing over the transactions changes no node.
LEMMA HandedOver ==
    ASSUME NEW d, IsDb(d), NEW e, e = [d EXCEPT !.log = <<>>]
    PROVE  IsDb(e) /\ SameNumbers(d, e) /\ e.bulk = d.bulk /\ e.buffer = d.buffer /\ e.log = <<>>
<1>1. e = [ids |-> d.ids, paths |-> d.paths, rows |-> d.rows, dirty |-> d.dirty,
           resident |-> d.resident, index |-> d.index, buffer |-> d.buffer,
           sidecarDirty |-> d.sidecarDirty, pending |-> d.pending, appends |-> d.appends,
           bulk |-> d.bulk, log |-> <<>>]
  BY DEF IsDb
<1> QED
  BY <1>1, SeqEmpty DEF IsDb, SameNumbers, SameNodes

\* The type invariant at the start of a call.
LEMMA BeforeCall ==
    ASSUME NEW n, TypedBy(n), DurabilityInv
    PROVE  /\ IsDb(db) /\ Numbered(db, n) /\ db.log = <<>>
           /\ expected \in [Paths -> SUBSET (Vals \cup {None})]
BY DEF TypedBy, DurabilityInv

\* split_leaf keeps the types.
LEMMA SplitLeafTyped ==
    ASSUME DurabilityInv, NEW n \in Nat, TypedBy(n), NEW p \in Paths, SplitLeaf(p)
    PROVE  TypeInv'
<1> DEFINE d == SplitStep(db, p)
<1>1. /\ UNCHANGED files /\ status' = "open" /\ expected' = expected
      /\ db' = [d EXCEPT !.log = <<>>]
      /\ todo' = JournalWrites(d.log) \o ReturnNodes(d)
  BY DEF SplitLeaf, Ready
<1>2. IsDb(db) /\ Numbered(db, n) /\ LogOk(db.log, n)
  BY BeforeCall, SeqEmpty DEF LogOk
<1>3. IsDb(d) /\ Numbered(d, n + 2) /\ LogOk(d.log, n + 2)
  BY <1>2, SplitStepNumbered
<1> HIDE DEF d
<1>4. SameNumbers(d, db') /\ db'.log = <<>>
  BY <1>1, <1>3, HandedOver
<1>5. Numbered(db', n + 2)
  BY <1>3, <1>4, NumberedSame
<1>6. DOMAIN d.paths \in SUBSET DOMAIN db'.paths
  BY <1>4 DEF SameNumbers, SameNodes
<1>7. StepsDue(JournalWrites(d.log), db', n + 2)
  BY <1>3, JournalSteps DEF IsDb, StepsDue
<1>8. StepsDue(ReturnNodes(d), db', n + 2)
  BY <1>3, <1>6, ReturnSteps DEF StepsDue
<1>9. StepsDue(todo', db', n + 2)
  BY <1>1, <1>7, <1>8, StepsConcat DEF StepsDue
<1>10. n + 2 \in Nat /\ n <= n + 2
  OBVIOUS
<1> QED
  BY <1>1, <1>4, <1>5, <1>9, <1>10, BeforeCall, CallTyped

\* So does split_to_box, flushing or not.
LEMMA SplitToBoxTyped ==
    ASSUME DurabilityInv, NEW n \in Nat, TypedBy(n), NEW p \in Paths, NEW exact \in BOOLEAN,
           SplitToBox(p, exact)
    PROVE  TypeInv'
<1> DEFINE d == SplitAlong(db, p)
           flush == exact /\ \A k \in 0..(Len(p) - 1) : HasRow(d, SubSeq(p, 1, k))
<1>1. PICK order \in Orders(IF flush THEN d.dirty ELSE {}) :
            /\ db' = [IF flush THEN PagesSaved(d) ELSE d EXCEPT !.log = <<>>]
            /\ todo' = JournalWrites(d.log)
                     \o (IF flush THEN PageWrites(d, order) \o ManifestWrites ELSE <<>>)
                     \o ReturnNodes(d)
  BY Zenon DEF SplitToBox
<1>2. UNCHANGED files /\ status' = "open" /\ expected' = expected
  BY DEF SplitToBox, Ready
<1>3. IsDb(db) /\ Numbered(db, n) /\ LogOk(db.log, n) /\ IsSeq(p)
  BY BeforeCall, SeqEmpty, PathsSeq DEF LogOk
<1>4. PICK m \in Nat : n <= m /\ IsDb(d) /\ Numbered(d, m) /\ LogOk(d.log, m)
  BY <1>3, SplitAlongNumbered
<1> HIDE DEF d, flush
<1>5. PICK f : f = IF flush THEN PagesSaved(d) ELSE d
  OBVIOUS
<1>6. IsDb(f) /\ SameNumbers(d, f)
  BY <1>4, <1>5, StillFlush DEF SameStore, Still, SameNumbers, SameNodes
<1>7. db' = [f EXCEPT !.log = <<>>]
  BY <1>1, <1>5
<1>8. SameNumbers(f, db') /\ db'.log = <<>>
  BY <1>6, <1>7, HandedOver
<1>9. Numbered(db', m)
  BY <1>4, <1>6, <1>8, NumberedSame
<1>10. DOMAIN d.paths \in SUBSET DOMAIN db'.paths
  BY <1>6, <1>8 DEF SameNumbers, SameNodes
<1>11. StepsDue(JournalWrites(d.log), db', m) /\ StepsDue(<<>>, db', m)
       /\ StepsDue(ManifestWrites, db', m)
  BY <1>4, JournalSteps, PlainSteps DEF IsDb, StepsDue
<1>12. StepsDue(ReturnNodes(d), db', m)
  BY <1>4, <1>10, ReturnSteps DEF StepsDue
<1>13. IsSeq(order)
  BY <1>1, <1>4, OrdersSeq, FS_EmptySet DEF IsDb
<1>14. StepsDue(PageWrites(d, order), db', m)
  BY <1>4, <1>13, PageSteps DEF StepsDue
<1> DEFINE s2 == IF flush THEN PageWrites(d, order) \o ManifestWrites ELSE <<>>
<1>15. StepsDue(s2, db', m)
  BY <1>11, <1>14, StepsConcat DEF StepsDue
<1>16. todo' = JournalWrites(d.log) \o s2 \o ReturnNodes(d)
  BY <1>1
<1> HIDE DEF s2
<1>17. StepsDue(JournalWrites(d.log) \o s2, db', m)
  BY <1>11, <1>15, StepsConcat DEF StepsDue
<1>18. StepsDue(todo', db', m)
  BY <1>12, <1>16, <1>17, StepsConcat DEF StepsDue
<1> QED
  BY <1>2, <1>3, <1>4, <1>8, <1>9, <1>18, BeforeCall, CallTyped

\* The length of the store and the buffer.
LEMMA StoreLength ==
    ASSUME DurabilityInv, NEW d, IsDb(d)
    PROVE  Len(store) \in Nat /\ Len(store \o d.buffer) \in Nat /\ Len(store) <= Len(store \o d.buffer)
<1>1. IsSeq(store) /\ IsSeq(d.buffer)
  BY DEF DurabilityInv, IsDb
<1>2. Len(store) \in Nat /\ Len(d.buffer) \in Nat
  BY <1>1, SeqShape
<1>3. Len(store \o d.buffer) = Len(store) + Len(d.buffer)
  BY <1>1, SeqConcat
<1> QED
  BY <1>2, <1>3

\* So does put_evidence.
LEMMA PutEvidenceTyped ==
    ASSUME DurabilityInv, NEW n \in Nat, TypedBy(n), NEW p \in Paths, NEW v \in Vals, PutEvidence(p, v)
    PROVE  TypeInv'
<1> DEFINE r == Put(db.resident, p, v)
           d == AppendRecord([db EXCEPT !.resident = r, !.pending = TRUE], p, v)
           log == IF db.bulk THEN <<>> ELSE <<[type |-> "evidence", path |-> p, val |-> v]>>
           d1 == MaybeFlushed(d)
<1>1. PICK order \in Orders(IF FlushDue(d) THEN d.dirty ELSE {}) :
            /\ db' = Trimmed(d1)
            /\ todo' = JournalWrites(log) \o MaybeFlush(d, order) \o Trim(d1) \o ReturnValue(p, {v})
  BY Zenon DEF PutEvidence
<1>2. /\ UNCHANGED files /\ status' = "open" /\ expected' = [expected EXCEPT ![p] = @ \cup {v}]
  BY DEF PutEvidence, Ready
<1>3. IsDb(db) /\ Numbered(db, n) /\ db.log = <<>> /\ expected \in [Paths -> SUBSET (Vals \cup {None})]
  BY BeforeCall
<1>4. Still(db, d)
  <2> HIDE DEF r
  <2> QED
    BY <1>3, StillCopy, Zenon
<1> HIDE DEF d
<1>5. IsDb(d) /\ SameStore(d, d1)
  BY <1>4, StillFlush DEF Still
<1>6. IsDb(d1) /\ SameStore(d1, db')
  BY <1>1, <1>5, StillFlush DEF SameStore, Still
<1>7. Numbered(d, n) /\ Numbered(db', n)
  <2>1. SameNumbers(db, d) /\ SameNumbers(d, d1) /\ SameNumbers(d1, db')
    BY <1>4, <1>5, <1>6 DEF SameStore, Still
  <2> QED
    BY <1>3, <2>1, NumberedSame
<1>8. d1.buffer = d.buffer /\ db'.buffer = d.buffer /\ IsDb(db')
  BY <1>5, <1>6 DEF SameStore, Still
<1>9. IsSeq(order) /\ db'.log = <<>>
  BY <1>1, <1>3, <1>4, <1>5, <1>6, OrdersSeq, FS_EmptySet DEF IsDb, Still, SameStore
<1>10. IsSeq(log) /\ LogOk(log, n)
  <2>1. IsSeq(log) /\ \A t \in Range(log) : t.type = "evidence"
    BY SeqEmpty, SeqSingle
  <2> QED
    BY <2>1 DEF LogOk, EntryOk
<1> HIDE DEF d1, log
<1> DEFINE hi == Len(store \o db'.buffer)
<1>11. hi \in Nat
  BY <1>8, StoreLength
<1>12. Len(StoreOf(d)) \in -1..hi /\ Len(StoreOf(d1)) \in -1..hi
  BY <1>8, <1>11 DEF StoreOf
<1>13. StepsDue(JournalWrites(log), db', n)
  BY <1>10, JournalSteps DEF StepsDue
<1>14. StepsDue(MaybeFlush(d, order), db', n) /\ StepsDue(Trim(d1), db', n)
  BY <1>7, <1>9, <1>12, ComposedSteps DEF StepsDue
<1>15. StepsDue(ReturnValue(p, {v}), db', n)
  <2>1. {v} \in SUBSET (Vals \cup {None})
    OBVIOUS
  <2> QED
    BY <2>1, ReturnSteps DEF StepsDue
<1>16. StepsDue(JournalWrites(log) \o MaybeFlush(d, order), db', n)
  BY <1>13, <1>14, StepsConcat DEF StepsDue
<1>17. StepsDue(JournalWrites(log) \o MaybeFlush(d, order) \o Trim(d1), db', n)
  BY <1>14, <1>16, StepsConcat DEF StepsDue
<1>18. StepsDue(todo', db', n)
  BY <1>1, <1>15, <1>17, StepsConcat DEF StepsDue
<1>19. expected' \in [Paths -> SUBSET (Vals \cup {None})]
  BY <1>2, <1>3
<1> QED
  BY <1>2, <1>7, <1>9, <1>18, <1>19, CallTyped

\* So does delete_node_payloads.
LEMMA DeletePayloadTyped ==
    ASSUME DurabilityInv, NEW n \in Nat, TypedBy(n), NEW p \in Paths, DeletePayload(p)
    PROVE  TypeInv'
<1> DEFINE r == Without(db.resident, {p})
           d == AppendRecord([db EXCEPT !.resident = r, !.pending = TRUE], p, None)
<1>1. PICK order \in Orders(IF FlushDue(d) THEN d.dirty ELSE {}) :
            /\ db' = MaybeFlushed(d)
            /\ todo' = MaybeFlush(d, order) \o ReturnValue(p, {None})
  BY Zenon DEF DeletePayload
<1>2. /\ UNCHANGED files /\ status' = "open" /\ expected' = [expected EXCEPT ![p] = @ \cup {None}]
  BY DEF DeletePayload, Ready
<1>3. IsDb(db) /\ Numbered(db, n) /\ db.log = <<>> /\ expected \in [Paths -> SUBSET (Vals \cup {None})]
  BY BeforeCall
<1>4. Still(db, d)
  <2> HIDE DEF r
  <2> QED
    BY <1>3, StillCopy, Zenon
<1> HIDE DEF d
<1>5. IsDb(d) /\ SameStore(d, db') /\ IsDb(db')
  BY <1>1, <1>4, StillFlush DEF SameStore, Still
<1>6. Numbered(d, n) /\ Numbered(db', n) /\ db'.log = <<>> /\ db'.buffer = d.buffer
  <2>1. SameNumbers(db, d) /\ SameNumbers(d, db')
    BY <1>4, <1>5 DEF SameStore, Still
  <2> QED
    BY <1>3, <1>4, <1>5, <2>1, NumberedSame DEF SameStore, Still
<1>7. IsSeq(order)
  BY <1>1, <1>5, OrdersSeq, FS_EmptySet DEF IsDb
<1> DEFINE hi == Len(store \o db'.buffer)
<1>8. hi \in Nat
  BY <1>5, StoreLength
<1>9. Len(StoreOf(d)) \in -1..hi
  BY <1>6, <1>8 DEF StoreOf
<1>10. StepsDue(MaybeFlush(d, order), db', n)
  BY <1>6, <1>7, <1>9, ComposedSteps DEF StepsDue
<1>11. StepsDue(ReturnValue(p, {None}), db', n)
  <2>1. {None} \in SUBSET (Vals \cup {None})
    OBVIOUS
  <2> QED
    BY <2>1, ReturnSteps DEF StepsDue
<1>12. StepsDue(todo', db', n)
  BY <1>1, <1>10, <1>11, StepsConcat DEF StepsDue
<1>13. expected' \in [Paths -> SUBSET (Vals \cup {None})]
  BY <1>2, <1>3
<1> QED
  BY <1>2, <1>6, <1>12, <1>13, CallTyped

\* So does evidence(key), trimming or not.
LEMMA ReadEvidenceTyped ==
    ASSUME DurabilityInv, NEW n \in Nat, TypedBy(n), NEW p \in Paths, ReadEvidence(p)
    PROVE  TypeInv'
<1> DEFINE r == Put(db.resident, p, Lookup(db, p))
           d == [db EXCEPT !.resident = r]
           drop == Lookup(db, p) # None
<1>1. /\ db' = IF drop THEN Trimmed(d) ELSE d
      /\ todo' = FlushStore \o (IF drop THEN Trim(d) ELSE <<>>)
      /\ status = "open" /\ status' = status /\ UNCHANGED files /\ expected' = expected
  <2>1. d = [db EXCEPT !.resident = Put(@, p, Lookup(db, p))]
    OBVIOUS
  <2> HIDE DEF d
  <2> QED
    BY <2>1, Zenon DEF ReadEvidence
<1>2. IsDb(db) /\ Numbered(db, n) /\ db.log = <<>> /\ expected \in [Paths -> SUBSET (Vals \cup {None})]
  BY BeforeCall
<1>3. SameStore(db, d)
  <2> HIDE DEF r
  <2> QED
    BY <1>2, StillField
<1> HIDE DEF d, drop
<1>4. IsDb(d) /\ d.buffer = db.buffer
  BY <1>3 DEF SameStore, Still
<1>5. SameStore(d, db') /\ IsDb(db')
  BY <1>1, <1>4, StillFlush DEF SameStore, Still, SameNumbers, SameNodes
<1>6. Numbered(db', n) /\ db'.log = <<>> /\ db'.buffer = d.buffer
  <2>1. SameNumbers(db, d) /\ SameNumbers(d, db')
    BY <1>3, <1>5 DEF SameStore, Still
  <2> QED
    BY <1>2, <1>3, <1>5, <2>1, NumberedSame DEF SameStore, Still
<1> DEFINE hi == Len(store \o db'.buffer)
<1>7. hi \in Nat
  BY <1>5, StoreLength
<1>8. Len(StoreOf(d)) \in -1..hi
  BY <1>6, <1>7 DEF StoreOf
<1>9. /\ StepsDue(FlushStore, db', n) /\ StepsDue(Trim(d), db', n) /\ StepsDue(<<>>, db', n)
  BY <1>8, PlainSteps, ComposedSteps DEF StepsDue
<1>10. StepsDue(todo', db', n)
  BY <1>1, <1>9, StepsConcat DEF StepsDue
<1> QED
  BY <1>1, <1>2, <1>6, <1>10, CallTyped

\* So does set_bulk_prewarm_mode.
LEMMA SetBulkTyped ==
    ASSUME DurabilityInv, NEW n \in Nat, TypedBy(n), NEW on \in BOOLEAN, SetBulk(on)
    PROVE  TypeInv'
<1>1. /\ status' = "open" /\ todo' = <<>> /\ UNCHANGED files /\ expected' = expected
      /\ db' = [db EXCEPT !.bulk = on]
  BY DEF SetBulk
<1>2. IsDb(db) /\ Numbered(db, n) /\ db.log = <<>> /\ expected \in [Paths -> SUBSET (Vals \cup {None})]
  BY BeforeCall
<1>3. db' = [ids |-> db.ids, paths |-> db.paths, rows |-> db.rows, dirty |-> db.dirty,
             resident |-> db.resident, index |-> db.index, buffer |-> db.buffer,
             sidecarDirty |-> db.sidecarDirty, pending |-> db.pending, appends |-> db.appends,
             bulk |-> on, log |-> db.log]
  BY <1>1, <1>2 DEF IsDb
<1>4. SameNumbers(db, db') /\ db'.log = <<>>
  BY <1>2, <1>3 DEF SameNumbers, SameNodes
<1>5. Numbered(db', n)
  BY <1>2, <1>4, NumberedSame
<1>6. StepsDue(todo', db', n)
  BY <1>1, PlainSteps DEF StepsDue
<1> QED
  BY <1>1, <1>2, <1>4, <1>5, <1>6, CallTyped

\* So does checkpoint.
LEMMA CheckpointTyped ==
    ASSUME DurabilityInv, NEW n \in Nat, TypedBy(n), Checkpoint
    PROVE  TypeInv'
<1>1. PICK e : e = EvidenceSaved(db)
  OBVIOUS
<1>2. PICK f : f = PagesSaved(e)
  OBVIOUS
<1>3. PICK b : b = (db.ids # DOMAIN db.rows)
  OBVIOUS
<1>4. /\ status = "open" /\ status' = status /\ UNCHANGED files /\ expected' = expected
      /\ db' = [f EXCEPT !.pending = b]
  BY <1>1, <1>2, <1>3 DEF Checkpoint
<1>5. PICK order \in Orders(db.dirty) :
        todo' = ManifestWrites \o PageWrites(db, order) \o SaveEvidence(db) \o
                (IF db.ids = DOMAIN db.rows THEN TruncateJournal ELSE <<>>)
  BY DEF Checkpoint
<1>6. IsDb(db) /\ Numbered(db, n) /\ db.log = <<>> /\ expected \in [Paths -> SUBSET (Vals \cup {None})]
  BY BeforeCall
<1>7. SameStore(db, e) /\ IsDb(e)
  BY <1>1, <1>6, StillFlush DEF SameStore, Still
<1>8. SameStore(e, f) /\ IsDb(f)
  BY <1>2, <1>7, StillFlush DEF SameStore, Still
<1>9. SameStore(f, db')
  BY <1>4, <1>8, StillField
<1>10. SameStore(db, db')
  BY <1>7, <1>8, <1>9, StillTransitive
<1>11. Numbered(db', n) /\ db'.log = <<>> /\ db'.buffer = db.buffer /\ IsDb(db')
  BY <1>6, <1>10, NumberedSame DEF SameStore, Still
<1>12. IsSeq(order)
  BY <1>5, <1>6, OrdersSeq DEF IsDb
<1> DEFINE hi == Len(store \o db'.buffer)
           s2 == PageWrites(db, order)
           s3 == SaveEvidence(db)
           s4 == IF db.ids = DOMAIN db.rows THEN TruncateJournal ELSE <<>>
<1>13. hi \in Nat
  BY <1>11, StoreLength
<1>14. Len(StoreOf(db)) \in -1..hi
  BY <1>11, <1>13 DEF StoreOf
<1>15. /\ StepsDue(ManifestWrites, db', n) /\ StepsDue(s2, db', n) /\ StepsDue(s3, db', n)
       /\ StepsDue(s4, db', n)
  BY <1>6, <1>12, <1>14, PlainSteps, PageSteps, SaveEvidenceSteps DEF StepsDue
<1>16. todo' = ManifestWrites \o s2 \o s3 \o s4
  BY <1>5
<1> HIDE DEF s2, s3, s4
<1>17. StepsDue(ManifestWrites \o s2, db', n)
  BY <1>15, StepsConcat DEF StepsDue
<1>18. StepsDue(ManifestWrites \o s2 \o s3, db', n)
  BY <1>15, <1>17, StepsConcat DEF StepsDue
<1>19. StepsDue(todo', db', n)
  BY <1>15, <1>16, <1>18, StepsConcat DEF StepsDue
<1> QED
  BY <1>4, <1>6, <1>11, <1>19, CallTyped

\* So does every change of a file (database.cpp:169-211).
LEMMA FileChangeTyped ==
    ASSUME DurabilityInv, NEW n \in Nat, TypedBy(n), FileChange
    PROVE  TypeInv'
<1>1. todo # <<>> /\ Made
  BY DEF FileChange, RemoveFile, RenameFile, FlushStream, AppendJournal, TruncateJournalFile,
         ReturnFromCall, NextChange
<1> DEFINE c == Head(todo)
           lo == Len(store)
           hi == Len(store \o db.buffer)
<1>2. lo \in Nat /\ hi \in Nat /\ lo <= hi /\ IsDb(db) /\ IsSeq(store) /\ IsSeq(journal)
  BY StoreLength DEF DurabilityInv
<1>3. PICK low : low = IF IsFlush(c) THEN hi ELSE lo
  OBVIOUS
<1>4. StepsOk(todo, n, lo, hi, DOMAIN db.paths)
  BY DEF TypedBy, StepsDue
<1>5. /\ StepOk(todo, 1, n, lo, hi, DOMAIN db.paths) /\ c = todo[1]
      /\ StepsOk(todo', n, low, hi, DOMAIN db.paths)
  <2> HIDE DEF lo, hi
  <2>1. PICK known : known = DOMAIN db.paths
    OBVIOUS
  <2>2. IF IsFlush(c) THEN low = hi /\ hi = hi ELSE low = lo /\ hi = hi
    BY <1>3
  <2>3. StepsOk(todo, n, lo, hi, known)
    BY <1>4, <2>1
  <2>4. /\ StepOk(todo, 1, n, lo, hi, known) /\ c = todo[1]
        /\ StepsOk(Tail(todo), n, low, hi, known)
    BY <1>1, <1>2, <2>2, <2>3, StepsTail
  <2> QED
    BY <1>1, <2>1, <2>4 DEF Made
<1>6. /\ c.file = "page" => RowsOk(c.content, n)
      /\ c.act = "append" => EntryOk(c.content, n)
      /\ c.file = "sidecar" => c.content.size \in -1..lo
      /\ c.act = "value" => c.content \in SUBSET (Vals \cup {None})
  BY <1>5 DEF StepOk, SizeOk, FlushedBy
<1>7. /\ Numbered(db, n) /\ db.log = <<>> /\ FilesOk(pages, n) /\ FilesOk(tmps, n)
      /\ LogOk(journal, n) /\ status \in {"open", "closed", "failed"}
      /\ (status # "open" => todo = <<>>) /\ manifest \in BOOLEAN /\ torn \in BOOLEAN
      /\ expected \in [Paths -> SUBSET (Vals \cup {None})] /\ sidecar.size \in -1..lo
  BY DEF TypedBy
<1>8. status' = status /\ torn' = torn /\ status' = "open"
  BY <1>1, <1>7 DEF Made
<1> DEFINE Done == /\ Numbered(db', n) /\ db'.log = <<>> /\ FilesOk(pages', n) /\ FilesOk(tmps', n)
                   /\ LogOk(journal', n) /\ manifest' \in BOOLEAN
                   /\ expected' \in [Paths -> SUBSET (Vals \cup {None})]
                   /\ sidecar'.size \in -1..Len(store')
                   /\ Len(store') = low /\ Len(store' \o db'.buffer) = hi /\ db'.paths = db.paths
<1>9. ASSUME Done PROVE TypeInv'
  <2>1. StepsOk(todo', n, Len(store'), Len(store' \o db'.buffer), DOMAIN db'.paths)
    BY <1>5, <1>9
  <2>2. TypedBy(n)'
    BY <1>7, <1>8, <1>9, <2>1 DEF TypedBy, StepsDue
  <2> QED
    BY <2>2 DEF TypeInv
<1> HIDE DEF c
<1>10. CASE RemoveFile
  <2>1. /\ c.act = "remove" /\ manifest' = (manifest /\ c.file # "manifest")
        /\ pages' = IF c.file = "page" THEN Without(pages, {c.key}) ELSE pages
        /\ sidecar' = IF c.file = "sidecar" THEN NoSidecar ELSE sidecar
        /\ UNCHANGED <<tmps, store, journal, db, expected>>
    BY <1>10 DEF RemoveFile, c
  <2>2. FilesOk(pages', n)
    BY <1>7, <2>1 DEF FilesOk, Without, Restrict
  <2>3. sidecar'.size \in -1..lo
    BY <1>2, <1>7, <2>1 DEF NoSidecar
  <2>4. low = lo
    BY <1>3, <2>1 DEF IsFlush
  <2>5. manifest' \in BOOLEAN
    BY <2>1
  <2> QED
    BY <1>7, <1>9, <2>1, <2>2, <2>3, <2>4, <2>5
<1>11. CASE RenameFile
  <2>1. /\ c.act = "rename" /\ manifest' = (manifest \/ c.file = "manifest")
        /\ pages' = IF c.file = "page" THEN Put(pages, c.key, c.content) ELSE pages
        /\ tmps' = IF c.file = "page" THEN Without(tmps, {c.key}) ELSE tmps
        /\ sidecar' = IF c.file = "sidecar" THEN c.content ELSE sidecar
        /\ UNCHANGED <<store, journal, db, expected>>
    BY <1>11 DEF RenameFile, c
  <2>2. FilesOk(pages', n) /\ FilesOk(tmps', n)
    BY <1>6, <1>7, <2>1 DEF FilesOk, Without, Restrict, Put
  <2>3. sidecar'.size \in -1..lo
    BY <1>6, <1>7, <2>1
  <2>4. low = lo
    BY <1>3, <2>1 DEF IsFlush
  <2>5. manifest' \in BOOLEAN
    BY <2>1
  <2> QED
    BY <1>7, <1>9, <2>1, <2>2, <2>3, <2>4, <2>5
<1>12. CASE FlushStream
  <2>1. /\ IsFlush(c) /\ store' = store \o db.buffer /\ db' = [db EXCEPT !.buffer = <<>>]
        /\ UNCHANGED <<manifest, pages, tmps, sidecar, journal, expected>>
    BY <1>12 DEF FlushStream, NextChange, IsFlush, StoreOf, c
  <2>2. db' = [ids |-> db.ids, paths |-> db.paths, rows |-> db.rows, dirty |-> db.dirty,
               resident |-> db.resident, index |-> db.index, buffer |-> <<>>,
               sidecarDirty |-> db.sidecarDirty, pending |-> db.pending, appends |-> db.appends,
               bulk |-> db.bulk, log |-> db.log]
    BY <1>2, <2>1 DEF IsDb
  <2>3. SameNumbers(db, db') /\ db'.log = db.log /\ db'.buffer = <<>> /\ db'.paths = db.paths
    BY <2>2 DEF SameNumbers, SameNodes
  <2>4. Numbered(db', n)
    BY <1>7, <2>3, NumberedSame
  <2>5. low = hi /\ Len(store') = hi
    BY <1>3, <2>1
  <2>6. IsSeq(store')
    BY <1>2, <2>1, SeqConcat DEF IsDb
  <2>7. Len(store' \o <<>>) = Len(store')
    BY <2>5, <2>6, <1>2, SeqConcat, SeqEmpty
  <2>8. sidecar'.size \in -1..hi
    BY <1>2, <1>7, <2>1
  <2> QED
    BY <1>7, <1>9, <2>1, <2>3, <2>4, <2>5, <2>7, <2>8
<1>13. CASE AppendJournal
  <2>1. /\ c.file = "journal" /\ c.act = "append" /\ journal' = Append(journal, c.content)
        /\ UNCHANGED <<manifest, pages, tmps, store, sidecar, db, expected>>
    BY <1>13 DEF AppendJournal, NextChange, c
  <2>2. LogOk(journal', n)
    BY <1>2, <1>6, <1>7, <2>1, SeqAppend DEF LogOk
  <2>3. low = lo
    BY <1>3, <2>1 DEF IsFlush
  <2> QED
    BY <1>7, <1>9, <2>1, <2>2, <2>3
<1>14. CASE TruncateJournalFile
  <2>1. /\ c.file = "journal" /\ journal' = <<>>
        /\ UNCHANGED <<manifest, pages, tmps, store, sidecar, db, expected>>
    BY <1>14 DEF TruncateJournalFile, NextChange, c
  <2>2. LogOk(journal', n)
    BY <2>1, SeqEmpty DEF LogOk
  <2>3. low = lo
    BY <1>3, <2>1 DEF IsFlush
  <2> QED
    BY <1>7, <1>9, <2>1, <2>2, <2>3
<1>15. CASE ReturnFromCall
  <2>1. /\ c.file = "return"
        /\ expected' = IF c.act = "value" THEN [expected EXCEPT ![c.key] = c.content] ELSE expected
        /\ UNCHANGED <<manifest, pages, tmps, store, sidecar, journal, db>>
    BY <1>15 DEF ReturnFromCall, c
  <2>2. low = lo
    BY <1>3, <2>1 DEF IsFlush
  <2>3. expected' \in [Paths -> SUBSET (Vals \cup {None})]
    BY <1>6, <1>7, <2>1
  <2> QED
    BY <1>7, <1>9, <2>1, <2>2, <2>3
<1> QED
  BY <1>10, <1>11, <1>12, <1>13, <1>14, <1>15 DEF FileChange

-----------------------------------------------------------------------------
(* The end of a process and the start of the next keep them.               *)

\* The end of a process keeps them, whatever part of the buffer is written.
LEMMA EndTyped ==
    ASSUME DurabilityInv, NEW n \in Nat, TypedBy(n), NEW more, IsSeq(more),
           store' = store \o more, db' = Fresh, todo' = <<>>, status' = "closed",
           FilesOk(tmps', n), torn' \in BOOLEAN,
           UNCHANGED <<manifest, pages, sidecar, journal, expected>>
    PROVE  TypeInv'
<1>1. IsSeq(store) /\ Len(store) \in Nat /\ Len(more) \in Nat
  BY SeqShape DEF DurabilityInv
<1>2. IsSeq(store') /\ Len(store') = Len(store) + Len(more)
  BY <1>1, SeqConcat
<1>3. Numbered(Fresh, n) /\ Fresh.log = <<>>
  BY DEF Numbered, Fresh, Empty
<1>4. sidecar'.size \in -1..Len(store')
  BY <1>1, <1>2 DEF TypedBy
<1>5. StepsOk(todo', n, Len(store'), Len(store' \o db'.buffer), DOMAIN db'.paths)
  BY PlainSteps
<1>6. TypedBy(n)'
  BY <1>3, <1>4, <1>5 DEF TypedBy, StepsDue
<1> QED
  BY <1>6 DEF TypeInv

\* The destructor keeps them.
LEMMA CloseTyped ==
    ASSUME DurabilityInv, NEW n \in Nat, TypedBy(n), Close
    PROVE  TypeInv'
<1>1. /\ UNCHANGED <<manifest, pages, sidecar, journal, expected>> /\ db' = Fresh /\ todo' = <<>>
      /\ store' = store \o db.buffer /\ status' = "closed" /\ tmps' = tmps /\ torn' = torn
  BY DEF Close, StoreOf
<1>2. IsSeq(db.buffer)
  BY DEF DurabilityInv, IsDb
<1>3. FilesOk(tmps', n) /\ torn' \in BOOLEAN
  BY <1>1 DEF TypedBy
<1> QED
  BY <1>1, <1>2, <1>3, EndTyped

\* So does a kill between any two changes.
LEMMA KillTyped ==
    ASSUME DurabilityInv, NEW n \in Nat, TypedBy(n), Kill
    PROVE  TypeInv'
<1>1. PICK k \in 0..Len(db.buffer) :
        /\ store' = store \o SubSeq(db.buffer, 1, k)
        /\ torn' \in IF k < Len(db.buffer) /\ "tear" \in Faults THEN BOOLEAN ELSE {torn}
  <2>1. 0 \in 0..Len(db.buffer)
    BY SeqShape DEF DurabilityInv, IsDb
  <2> QED
    BY <2>1 DEF Kill
<1>2. IsSeq(SubSeq(db.buffer, 1, k))
  BY SeqPrefix DEF DurabilityInv, IsDb
<1>3. /\ UNCHANGED <<manifest, pages, sidecar, journal, expected>> /\ db' = Fresh /\ todo' = <<>>
      /\ status' = "closed"
  BY DEF Kill
<1>4. torn' \in BOOLEAN
  BY <1>1 DEF TypedBy
<1>5. FilesOk(tmps', n)
  <2>1. \/ tmps' = tmps
        \/ /\ todo # <<>> /\ Head(todo).file = "page"
           /\ tmps' = Put(tmps, Head(todo).key, Head(todo).content)
    BY DEF Kill
  <2>2. FilesOk(tmps, n) /\ StepsDue(todo, db, n)
    BY DEF TypedBy
  <2>3. CASE tmps' = tmps
    BY <2>2, <2>3
  <2>4. CASE /\ todo # <<>> /\ Head(todo).file = "page"
             /\ tmps' = Put(tmps, Head(todo).key, Head(todo).content)
    <3>1. Head(todo) = todo[1] /\ 1 \in 1..Len(todo)
      BY <2>2, <2>4, SeqTail DEF StepsDue, StepsOk
    <3>2. RowsOk(Head(todo).content, n)
      BY <2>2, <2>4, <3>1 DEF StepsDue, StepsOk, StepOk
    <3> QED
      BY <2>2, <2>4, <3>2 DEF FilesOk, Put
  <2> QED
    BY <2>1, <2>3, <2>4
<1> QED
  BY <1>1, <1>2, <1>3, <1>4, <1>5, EndTyped

\* Opening a database that has a manifest keeps them.
LEMMA OpenExistingTyped ==
    ASSUME DurabilityInv, NEW n \in Nat, TypedBy(n), OpenExisting
    PROVE  TypeInv'
<1>1. UNCHANGED files /\ expected' = expected /\ status # "open"
  BY DEF OpenExisting
<1>2. expected \in [Paths -> SUBSET (Vals \cup {None})] /\ todo = <<>>
  BY <1>1 DEF TypedBy
<1>3. CASE status' = "failed" /\ UNCHANGED <<db, todo>>
  <2>1. StepsDue(todo, db, n)
    BY DEF TypedBy
  <2>2. TypedBy(n)'
    BY <1>1, <1>2, <1>3, <2>1 DEF TypedBy, StepsDue, files
  <2> QED
    BY <2>2 DEF TypeInv
<1>4. CASE /\ NodesLoadable /\ status' = "open"
           /\ db' = Replayed(journal)
           /\ todo' = IF SidecarUsable THEN <<>>
                      ELSE Replace("sidecar", 0, [size |-> Len(store), index |-> ScannedIndex])
  <2>1. IsDb(Loaded) /\ IsSeq(journal) /\ IsSeq(store) /\ PagesInPlace
    BY LoadedOk DEF DurabilityInv, EvidenceOk
  <2>2. FilesOk(pages, n) /\ FilesOk(tmps, n) /\ LogOk(journal, n)
    BY DEF TypedBy
  <2>3. Numbered(Loaded, n)
    BY <1>4, <2>1, <2>2, LoadedNumbered
  <2>4. Numbered(db', n) /\ db'.log = <<>>
    BY <1>4, <2>1, <2>2, <2>3, ReplayedNumbered, LoadedFields
  <2>5. StepsDue(todo', db', n)
    <3> DEFINE content == [size |-> Len(store), index |-> ScannedIndex]
    <3>1. content.size \in -1..Len(store)
      BY <2>1, SeqShape
    <3>2. todo' = IF SidecarUsable THEN <<>> ELSE Replace("sidecar", 0, content)
      BY <1>4
    <3> HIDE DEF content
    <3>3. StepsDue(Replace("sidecar", 0, content), db', n)
      BY <3>1, ReplaceSteps DEF StepsDue
    <3> QED
      BY <3>2, <3>3, PlainSteps DEF StepsDue
  <2> QED
    BY <1>1, <1>2, <1>4, <2>4, <2>5, CallTyped
<1> QED
  BY <1>3, <1>4, Zenon DEF OpenExisting

\* The object of a new database.
LEMMA NewDatabase ==
    ASSUME NEW n \in Nat
    PROVE  LET d == WriteRow(Fresh, 0, Leaf(<<>>))
               e == PagesSaved(d)
           IN IsDb(d) /\ Numbered(d, n) /\ SameStore(d, e) /\ Numbered(e, n) /\ e.log = <<>>
<1> DEFINE d == WriteRow(Fresh, 0, Leaf(<<>>))
           e == PagesSaved(d)
<1>1. IsDb(Fresh) /\ Numbered(Fresh, n) /\ Fresh.log = <<>>
  BY FreshOk DEF Numbered, Fresh, Empty
<1>2. 0 \in 0..n
  OBVIOUS
<1>3. IsDb(d) /\ Numbered(d, n) /\ d.log = <<>>
  <2>1. PICK q : q = <<>>
    OBVIOUS
  <2>2. PICK f : f = WriteRow(Fresh, 0, Leaf(q))
    OBVIOUS
  <2>3. IsDb(f) /\ Numbered(f, n) /\ f.log = Fresh.log
    BY <1>1, <1>2, <2>2, WriteRowNumbered
  <2>4. d = f
    BY <2>1, <2>2
  <2> QED
    BY <1>1, <2>3, <2>4
<1> HIDE DEF d
<1>4. SameStore(d, e)
  BY <1>3, StillFlush
<1>5. Numbered(e, n) /\ e.log = <<>>
  BY <1>3, <1>4, NumberedSame DEF SameStore, Still
<1> QED
  BY <1>3, <1>4, <1>5 DEF d

\* So does making a new one around the files that are there.
LEMMA OpenWithoutManifestTyped ==
    ASSUME DurabilityInv, NEW n \in Nat, TypedBy(n), OpenWithoutManifest
    PROVE  TypeInv'
<1> DEFINE d == WriteRow(Fresh, 0, Leaf(<<>>))
<1>1. UNCHANGED files /\ expected' = expected /\ status # "open"
  BY DEF OpenWithoutManifest
<1>2. expected \in [Paths -> SUBSET (Vals \cup {None})] /\ todo = <<>>
  BY <1>1 DEF TypedBy
<1>3. CASE status' = "failed" /\ UNCHANGED <<db, todo>>
  <2>1. StepsDue(todo, db, n)
    BY DEF TypedBy
  <2>2. TypedBy(n)'
    BY <1>1, <1>2, <1>3, <2>1 DEF TypedBy, StepsDue, files
  <2> QED
    BY <2>2 DEF TypeInv
<1>4. CASE /\ status' = "open" /\ db' = PagesSaved(d)
           /\ todo' = ManifestWrites \o PageWrites(d, <<0>>)
  <2>1. IsDb(d) /\ Numbered(d, n) /\ Numbered(db', n) /\ db'.log = <<>>
    BY <1>4, NewDatabase
  <2> HIDE DEF d
  <2>2. PICK order : order = <<0>>
    OBVIOUS
  <2>3. IsSeq(order)
    BY <2>2, SeqSingle
  <2>4. StepsDue(PageWrites(d, order), db', n) /\ StepsDue(ManifestWrites, db', n)
    BY <2>1, <2>3, PageSteps, PlainSteps DEF StepsDue
  <2>5. StepsDue(todo', db', n)
    BY <1>4, <2>2, <2>4, StepsConcat DEF StepsDue
  <2> QED
    BY <1>1, <1>2, <1>4, <2>1, <2>5, CallTyped
<1> QED
  BY <1>3, <1>4, Zenon DEF OpenWithoutManifest

\* A new database has the types.
LEMMA InitTyped == Init => TypeInv
<1> SUFFICES ASSUME Init PROVE TypeInv
  OBVIOUS
<1>1. /\ manifest = TRUE /\ pages = [q \in {0} |-> [i \in {0} |-> Leaf(<<>>)]] /\ tmps = Empty
      /\ store = <<>> /\ torn = FALSE /\ sidecar = NoSidecar /\ journal = <<>>
      /\ db = PagesSaved(WriteRow(Fresh, 0, Leaf(<<>>))) /\ status = "open" /\ todo = <<>>
      /\ expected = [p \in Paths |-> {None}]
  BY DEF Init
<1>2. PICK n \in Nat : n = 0
  OBVIOUS
<1>3. Numbered(db, n) /\ db.log = <<>>
  BY <1>1, NewDatabase
<1>4. IsRow(Leaf(<<>>))
  BY DEF Leaf, IsRow
<1>5. FilesOk(pages, n) /\ FilesOk(tmps, n) /\ LogOk(journal, n)
  BY <1>1, <1>2, <1>4, SeqEmpty DEF FilesOk, RowsOk, LogOk, Empty
<1>6. StepsDue(todo, db, n)
  BY <1>1, PlainSteps DEF StepsDue
<1>7. expected \in [Paths -> SUBSET (Vals \cup {None})]
  BY <1>1
<1>8. sidecar.size \in -1..Len(store)
  BY <1>1, SeqEmpty DEF NoSidecar
<1>9. TypedBy(n)
  BY <1>1, <1>3, <1>5, <1>6, <1>7, <1>8 DEF TypedBy
<1> QED
  BY <1>9 DEF TypeInv

\* Every step keeps them.
LEMMA NextTyped ==
    ASSUME DurabilityInv, TypeInv, [Next]_vars
    PROVE  TypeInv'
<1>1. PICK n \in Nat : TypedBy(n)
  BY DEF TypeInv
<1>2. CASE UNCHANGED vars
  <2>1. TypedBy(n)'
    BY <1>1, <1>2 DEF TypedBy, StepsDue, vars, files
  <2> QED
    BY <2>1 DEF TypeInv
<1>3. CASE Call
  BY <1>1, <1>3, SplitLeafTyped, SplitToBoxTyped, PutEvidenceTyped, DeletePayloadTyped,
     ReadEvidenceTyped, SetBulkTyped, CheckpointTyped DEF Call
<1>4. CASE FileChange
  BY <1>1, <1>4, FileChangeTyped
<1>5. CASE Close
  BY <1>1, <1>5, CloseTyped
<1>6. CASE Kill
  BY <1>1, <1>6, KillTyped
<1>7. CASE OpenExisting
  BY <1>1, <1>7, OpenExistingTyped
<1>8. CASE OpenWithoutManifest
  BY <1>1, <1>8, OpenWithoutManifestTyped
<1> QED
  BY <1>2, <1>3, <1>4, <1>5, <1>6, <1>7, <1>8 DEF Next

\* The invariant gives the types.
LEMMA TypesHold == TypeInv => TypeOK
<1> SUFFICES ASSUME NEW n \in Nat, TypedBy(n) PROVE TypeOK
  BY DEF TypeInv
<1>1. /\ db.ids \in SUBSET (0..n) /\ DOMAIN db.rows \in SUBSET db.ids
      /\ \A q \in DOMAIN db.paths : db.paths[q] \in db.ids
      /\ \A q \in db.dirty : \E i \in DOMAIN db.rows : PageOf(i) = q
  BY DEF TypedBy, Numbered
<1>2. Range(db.paths) \subseteq db.ids
  BY <1>1 DEF Range
<1>3. db.dirty \subseteq {PageOf(i) : i \in DOMAIN db.rows}
  BY <1>1
<1>4. db.ids \subseteq Nat
  BY <1>1
<1>5. \A p \in Paths : expected[p] \subseteq Vals \cup {None}
  BY DEF TypedBy
<1> QED
  BY <1>1, <1>2, <1>3, <1>4, <1>5 DEF TypeOK, TypedBy

\* The types of the model hold in every reachable state.
THEOREM TypesCorrect == Spec => []TypeOK
<1>1. TypeInv => TypeOK
  BY TypesHold
<1>2. Init => DurabilityInv /\ TypeInv
  BY InitDurability, InitTyped
<1>3. DurabilityInv /\ TypeInv /\ [Next]_vars => (DurabilityInv /\ TypeInv)'
  BY NextDurability, NextTyped
<1> QED
  BY <1>1, <1>2, <1>3, PTL DEF Spec

-----------------------------------------------------------------------------
(* What the files say of a tree of nodes.                                  *)

\* The children a row names come after it, in two consecutive rows below it;
\* a row that names no left child names no right one.
LinkOk(d, i) ==
    IF d.rows[i].left = 0 THEN d.rows[i].right = 0
    ELSE /\ d.rows[i].right = d.rows[i].left + 1 /\ i < d.rows[i].left
         /\ d.rows[i].left \in DOMAIN d.rows /\ d.rows[i].right \in DOMAIN d.rows
         /\ IsChild(d.rows[d.rows[i].left].path, d.rows[i].path, 0)
         /\ IsChild(d.rows[d.rows[i].right].path, d.rows[i].path, 1)
HasParent(d, i) ==
    \E j \in DOMAIN d.rows : d.rows[j].left # 0 /\ (i = d.rows[j].left \/ i = d.rows[j].right)
Linked(d) ==
    /\ \A i \in DOMAIN d.rows : LinkOk(d, i)
    /\ \A i \in DOMAIN d.rows : i # 0 => HasParent(d, i)

\* Page files P hold the root; a row in one of them is the row of the tree, or
\* what it was before its node was split.  Temporary files hold nodes of it.
Held(P, i) == PageOf(i) \in DOMAIN P /\ i \in DOMAIN P[PageOf(i)]
PagesHold(d, P) ==
    /\ Held(P, 0)
    /\ \A q \in DOMAIN P : \A i \in DOMAIN P[q] :
          /\ i \in DOMAIN d.rows /\ PageOf(i) = q
          /\ P[q][i] = d.rows[i] \/ P[q][i] = Leaf(d.rows[i].path)
TmpsHold(d, T) ==
    \A q \in DOMAIN T : \A i \in DOMAIN T[q] : i \in DOMAIN d.rows /\ T[q][i].path = d.rows[i].path

\* The splits in journal J are links of the tree, in the order they were made.
EntryHolds(d, t) ==
    t.type = "split" =>
        /\ t.node \in DOMAIN d.rows /\ t.left # 0
        /\ d.rows[t.node].left = t.left /\ d.rows[t.node].right = t.right

\* The record of a put_evidence is of a node that was there by then: a later
\* split has larger numbers.
EntryKnown(d, J, k) ==
    J[k].type # "split" =>
        /\ Known(d, J[k].path)
        /\ \A j \in 1..Len(J) : k < j /\ J[j].type = "split" => d.paths[J[k].path] < J[j].left
JournalHolds(d, J) ==
    /\ IsSeq(J)
    /\ \A k \in 1..Len(J) : EntryKnown(d, J, k)
    /\ \A k \in 1..Len(J) : EntryHolds(d, J[k])
    /\ \A k \in 1..Len(J) : \A j \in 1..Len(J) :
          j < k /\ J[j].type = "split" /\ J[k].type = "split" => J[j].left < J[k].left

\* A split is on disk with both children, or it is in the journal.
Done(d, P, i) ==
    /\ Held(P, i) /\ P[PageOf(i)][i] = d.rows[i]
    /\ Held(P, d.rows[i].left) /\ Held(P, d.rows[i].right)
EntryOf(t, i) == t.type = "split" /\ t.node = i
Journaled(J, i) == \E k \in 1..Len(J) : EntryOf(J[k], i)
Recorded(d, P, J) ==
    \A i \in DOMAIN d.rows : d.rows[i].left # 0 => Done(d, P, i) \/ Journaled(J, i)

Explained(d, P, T, J) ==
    PagesHold(d, P) /\ TmpsHold(d, T) /\ JournalHolds(d, J) /\ Recorded(d, P, J)
Good(d, P, T, J, G) ==
    Tree(d) /\ Linked(d) /\ Explained(d, P, T, J) /\ G \in SUBSET (DOMAIN d.paths)

\* All of it is about the nodes of an object.
LEMMA GoodSame ==
    ASSUME NEW d, NEW e, SameNodes(d, e), NEW P, NEW T, NEW J, NEW G, Good(d, P, T, J, G)
    PROVE  Good(e, P, T, J, G)
<1>1. e.rows = d.rows /\ e.paths = d.paths /\ Tree(e)
  BY SameNodesSame DEF SameNodes, Good
<1>2. Linked(e)
  BY <1>1 DEF Good, Linked, LinkOk, HasParent
<1>3. PagesHold(e, P) /\ TmpsHold(e, T) /\ JournalHolds(e, J) /\ Recorded(e, P, J)
  BY <1>1 DEF Good, Explained, PagesHold, TmpsHold, JournalHolds, EntryHolds, EntryKnown, Known,
              Recorded, Done
<1> QED
  BY <1>1, <1>2, <1>3 DEF Good, Explained

\* A split adds a link and two rows without one (database.cpp:1507-1579).
LEMMA LinkedSplit ==
    ASSUME NEW d, Linked(d), NEW m \in Nat, DOMAIN d.rows = 0..m, NEW id \in 0..m,
           NEW q, d.rows[id].path = q, d.rows[id].left = 0,
           NEW p0, IsChild(p0, q, 0), NEW p1, IsChild(p1, q, 1),
           NEW e, IsSplitOf(e, d, q, p0, p1, id, m)
    PROVE  Linked(e)
<1>1. /\ DOMAIN e.rows = 0..(m + 2)
      /\ e.rows[id].path = q /\ e.rows[id].left = m + 1 /\ e.rows[id].right = m + 2
      /\ e.rows[m + 1].path = p0 /\ e.rows[m + 1].left = 0 /\ e.rows[m + 1].right = 0
      /\ e.rows[m + 2].path = p1 /\ e.rows[m + 2].left = 0 /\ e.rows[m + 2].right = 0
      /\ \A i \in 0..m : i # id => e.rows[i] = d.rows[i]
  BY DEF IsSplitOf
<1>2. \A i \in 0..(m + 2) : i \in 0..m \/ i = m + 1 \/ i = m + 2
  OBVIOUS
<1>3. \A i \in 0..m : i \in 0..(m + 2) /\ i # m + 1 /\ i # m + 2 /\ e.rows[i].path = d.rows[i].path
  BY <1>1
<1>4. ASSUME NEW i \in DOMAIN e.rows PROVE LinkOk(e, i)
  <2>1. CASE i = id
    <3>1. m + 1 # 0 /\ m + 2 = (m + 1) + 1 /\ id < m + 1 /\ m + 1 \in 0..(m + 2) /\ m + 2 \in 0..(m + 2)
      OBVIOUS
    <3> QED
      BY <1>1, <2>1, <3>1 DEF LinkOk
  <2>2. CASE i = m + 1 \/ i = m + 2
    BY <1>1, <2>2 DEF LinkOk
  <2>3. CASE i \in 0..m /\ i # id
    <3>1. LinkOk(d, i) /\ e.rows[i] = d.rows[i]
      BY <1>1, <2>3 DEF Linked
    <3> QED
      BY <1>1, <1>3, <3>1 DEF LinkOk
  <2> QED
    BY <1>1, <1>2, <2>1, <2>2, <2>3
<1>5. ASSUME NEW i \in DOMAIN e.rows, i # 0 PROVE HasParent(e, i)
  <2>1. CASE i \in 0..m
    <3>1. PICK j \in 0..m : d.rows[j].left # 0 /\ (i = d.rows[j].left \/ i = d.rows[j].right)
      BY <1>5, <2>1 DEF Linked, HasParent
    <3>2. j # id /\ j \in DOMAIN e.rows /\ e.rows[j] = d.rows[j]
      BY <1>1, <1>3, <3>1
    <3> QED
      BY <3>1, <3>2 DEF HasParent
  <2>2. CASE i = m + 1 \/ i = m + 2
    <3>1. id \in DOMAIN e.rows /\ e.rows[id].left # 0
      BY <1>1, <1>3
    <3> QED
      BY <1>1, <2>2, <3>1 DEF HasParent
  <2> QED
    BY <1>1, <1>2, <2>1, <2>2
<1> QED
  BY <1>4, <1>5 DEF Linked

-----------------------------------------------------------------------------
(* Journals that grow.                                                     *)

\* What a journal holds when the first k entries of c are appended to it.
With(J, c, k) == [j \in 1..(Len(J) + k) |-> IF j <= Len(J) THEN J[j] ELSE c[j - Len(J)]]

\* With no entry it is the journal, with one more it has it at its end, only
\* the entries counted matter, and appending one leaves the others to append.
LEMMA WithEntries ==
    ASSUME NEW J, IsSeq(J), NEW c, NEW k \in Nat
    PROVE  /\ With(J, c, 0) = J
           /\ IsSeq(With(J, c, k)) /\ Len(With(J, c, k)) = Len(J) + k
           /\ With(J, c, k + 1) = Append(With(J, c, k), c[k + 1])
<1>1. /\ Len(J) \in Nat /\ J = [j \in 1..Len(J) |-> J[j]]
  BY DEF IsSeq
<1>2. With(J, c, 0) = J
  <2>1. \A j \in 1..Len(J) : j <= Len(J)
    BY <1>1
  <2>2. Len(J) + 0 = Len(J)
    BY <1>1
  <2>3. With(J, c, 0) = [j \in 1..Len(J) |-> J[j]]
    BY <2>1, <2>2 DEF With
  <2> QED
    BY <1>1, <2>3
<1>3. PICK n \in Nat : n = Len(J) + k
  BY <1>1
<1> DEFINE f == With(J, c, k)
           g == With(J, c, k + 1)
<1>4. f = [j \in 1..n |-> f[j]]
  BY <1>3 DEF With
<1>5. IsSeq(f) /\ Len(f) = n
  <2> HIDE DEF f
  <2> QED
    BY <1>4, SeqFunction
<1>6. g = [j \in 1..(n + 1) |-> g[j]] /\ \A j \in 1..(n + 1) : g[j] = IF j <= Len(J) THEN J[j] ELSE c[j - Len(J)]
  <2>1. Len(J) + (k + 1) = n + 1
    BY <1>1, <1>3
  <2> QED
    BY <2>1 DEF With
<1>7. \A j \in 1..n : f[j] = IF j <= Len(J) THEN J[j] ELSE c[j - Len(J)]
  BY <1>3 DEF With
<1> HIDE DEF f, g
<1>8. \A j \in 1..n : g[j] = f[j]
  <2>1. \A j \in 1..n : j \in 1..(n + 1)
    OBVIOUS
  <2> QED
    BY <1>6, <1>7, <2>1
<1>9. g[n + 1] = c[k + 1]
  <2>1. n + 1 \in 1..(n + 1) /\ ~(n + 1 <= Len(J)) /\ (n + 1) - Len(J) = k + 1
    BY <1>1, <1>3
  <2> QED
    BY <1>6, <2>1
<1>10. g = Append(f, c[k + 1])
  <2>1. PICK x : x = c[k + 1]
    OBVIOUS
  <2>2. PICK h : h = Append(f, x)
    OBVIOUS
  <2>3. /\ IsSeq(h) /\ Len(h) = n + 1 /\ h[n + 1] = x
        /\ \A j \in 1..n : h[j] = f[j]
    BY <1>5, <2>2, SeqAppend
  <2>4. h = [j \in 1..(n + 1) |-> h[j]]
    BY <2>3 DEF IsSeq
  <2>5. \A j \in 1..(n + 1) : j \in 1..n \/ j = n + 1
    OBVIOUS
  <2>6. \A j \in 1..(n + 1) : g[j] = h[j]
    BY <1>8, <1>9, <2>1, <2>3, <2>5
  <2> QED
    BY <1>6, <2>1, <2>2, <2>4, <2>6
<1> QED
  BY <1>2, <1>3, <1>5, <1>10 DEF f, g

\* Two lists that agree on the first k entries add the same ones.
LEMMA WithSame ==
    ASSUME NEW J, IsSeq(J), NEW c, NEW e, NEW k \in Nat, \A j \in 1..k : c[j] = e[j]
    PROVE  With(J, c, k) = With(J, e, k)
<1>1. Len(J) \in Nat
  BY DEF IsSeq
<1>2. \A j \in 1..(Len(J) + k) : ~(j <= Len(J)) => j - Len(J) \in 1..k
  BY <1>1
<1> QED
  BY <1>2 DEF With

\* c is x and then e.
Follows(e, c, x, k) == c[1] = x /\ \A j \in 1..k : e[j] = c[j + 1]

\* An entry appended is one of the entries to append no more.
LEMMA WithShift ==
    ASSUME NEW J, NEW c, NEW e, NEW x, NEW k \in Nat, IsSeq(J), Follows(e, c, x, k)
    PROVE  With(Append(J, x), e, k) = With(J, c, k + 1)
<1>0. c[1] = x /\ \A j \in 1..k : e[j] = c[j + 1]
  BY DEF Follows
<1>1. Len(J) \in Nat
  BY DEF IsSeq
<1>2. PICK K : K = Append(J, x)
  OBVIOUS
<1>3. Len(K) = Len(J) + 1 /\ K[Len(J) + 1] = x /\ \A j \in 1..Len(J) : K[j] = J[j]
  BY <1>2, SeqAppend
<1>4. PICK n \in Nat : n = Len(J)
  BY <1>1
<1>5. With(K, e, k) = [j \in 1..((n + 1) + k) |-> IF j <= n + 1 THEN K[j] ELSE e[j - (n + 1)]]
  BY <1>3, <1>4 DEF With
<1>6. With(J, c, k + 1) = [j \in 1..(n + (k + 1)) |-> IF j <= n THEN J[j] ELSE c[j - n]]
  BY <1>4 DEF With
<1>7. (n + 1) + k = n + (k + 1)
  OBVIOUS
<1>8. ASSUME NEW j \in 1..(n + (k + 1))
      PROVE  (IF j <= n + 1 THEN K[j] ELSE e[j - (n + 1)]) = (IF j <= n THEN J[j] ELSE c[j - n])
  <2>1. CASE j <= n
    BY <1>3, <1>4, <2>1
  <2>2. CASE j = n + 1
    <3>1. ~(n + 1 <= n) /\ (n + 1) - n = 1
      OBVIOUS
    <3> QED
      BY <1>0, <1>3, <1>4, <2>2, <3>1
  <2>3. CASE j > n + 1
    <3>1. j - (n + 1) \in 1..k /\ (j - (n + 1)) + 1 = j - n
      BY <2>3
    <3>2. e[j - (n + 1)] = c[j - n]
      BY <1>0, <3>1
    <3> QED
      BY <2>3, <3>2
  <2> QED
    BY <2>1, <2>2, <2>3
<1> QED
  BY <1>2, <1>5, <1>6, <1>7, <1>8

\* The record of a node, or an entry that names a link newer than all of d,
\* may follow what a journal already holds.
MayFollow(t, d, e) ==
    /\ \A i \in DOMAIN d.rows :
          i \in DOMAIN e.rows /\ (d.rows[i].left # 0 => e.rows[i] = d.rows[i])
    /\ \A x \in DOMAIN d.paths : Known(e, x) /\ e.paths[x] = d.paths[x]
    /\ t.type = "split" =>
          /\ \A i \in DOMAIN d.rows : d.rows[i].left # 0 => d.rows[i].left < t.left
          /\ \A x \in DOMAIN d.paths : d.paths[x] < t.left
    /\ t.type # "split" => Known(e, t.path)
\* A journal that holds one more such entry.
LEMMA JournalLonger ==
    ASSUME NEW d, NEW e, NEW J, JournalHolds(d, J), NEW t, EntryHolds(e, t), MayFollow(t, d, e)
    PROVE  /\ JournalHolds(e, Append(J, t))
           /\ \A i : Journaled(J, i) \/ EntryOf(t, i) => Journaled(Append(J, t), i)
<1>1. PICK K : K = Append(J, t)
  OBVIOUS
<1>2. PICK n \in Nat : n = Len(J)
  BY SeqShape DEF JournalHolds
<1>3. IsSeq(K) /\ Len(K) = n + 1 /\ K[n + 1] = t /\ \A k \in 1..n : K[k] = J[k]
  BY <1>1, <1>2, SeqAppend DEF JournalHolds
<1>4. \A k \in 1..(n + 1) : k \in 1..n \/ k = n + 1
  OBVIOUS
<1>5. \A k \in 1..n : /\ EntryHolds(e, J[k]) /\ EntryHolds(d, J[k])
                      /\ J[k].type = "split" /\ t.type = "split" => J[k].left < t.left
  <2> SUFFICES ASSUME NEW k \in 1..n
               PROVE  /\ EntryHolds(e, J[k]) /\ EntryHolds(d, J[k])
                      /\ J[k].type = "split" /\ t.type = "split" => J[k].left < t.left
    OBVIOUS
  <2>1. EntryHolds(d, J[k])
    BY <1>2 DEF JournalHolds
  <2>2. CASE J[k].type # "split"
    BY <2>2 DEF EntryHolds
  <2>3. CASE J[k].type = "split"
    <3>1. /\ J[k].node \in DOMAIN d.rows /\ J[k].left # 0
          /\ d.rows[J[k].node].left = J[k].left /\ d.rows[J[k].node].right = J[k].right
      BY <2>1, <2>3 DEF EntryHolds
    <3>2. J[k].node \in DOMAIN e.rows /\ e.rows[J[k].node] = d.rows[J[k].node]
      BY <3>1 DEF MayFollow
    <3>3. t.type = "split" => J[k].left < t.left
      BY <3>1 DEF MayFollow
    <3> QED
      BY <2>1, <3>1, <3>2, <3>3 DEF EntryHolds
  <2> QED
    BY <2>2, <2>3
<1>6. \A k \in 1..Len(K) : EntryHolds(e, K[k])
  BY <1>3, <1>4, <1>5
<1>7. ASSUME NEW k \in 1..Len(K), NEW j \in 1..Len(K), j < k, K[j].type = "split", K[k].type = "split"
      PROVE  K[j].left < K[k].left
  <2>1. j \in 1..n
    BY <1>3, <1>7
  <2>2. CASE k \in 1..n
    <3>1. K[j] = J[j] /\ K[k] = J[k]
      BY <1>3, <2>1, <2>2
    <3> QED
      BY <1>2, <1>7, <2>1, <2>2, <3>1 DEF JournalHolds
  <2>3. CASE k = n + 1
    <3>1. K[j] = J[j] /\ K[k] = t
      BY <1>3, <2>1, <2>3
    <3> QED
      BY <1>5, <1>7, <2>1, <3>1
  <2> QED
    BY <1>3, <1>4, <2>2, <2>3
<1>71. ASSUME NEW k \in 1..Len(K) PROVE EntryKnown(e, K, k)
  <2>1. CASE k \in 1..n
    <3>1. K[k] = J[k] /\ EntryKnown(d, J, k)
      BY <1>2, <1>3, <2>1 DEF JournalHolds
    <3>2. ASSUME J[k].type # "split" PROVE Known(e, J[k].path) /\ e.paths[J[k].path] = d.paths[J[k].path]
      BY <3>1, <3>2 DEF EntryKnown, Known, MayFollow
    <3>3. ASSUME J[k].type # "split", NEW j \in 1..Len(K), k < j, K[j].type = "split"
          PROVE  d.paths[J[k].path] < K[j].left
      <4>1. CASE j \in 1..n
        BY <1>2, <1>3, <3>1, <3>3, <4>1 DEF EntryKnown
      <4>2. CASE j = n + 1
        BY <1>3, <3>1, <3>3, <4>2 DEF EntryKnown, Known, MayFollow
      <4> QED
        BY <1>3, <1>4, <4>1, <4>2
    <3> QED
      BY <3>1, <3>2, <3>3 DEF EntryKnown
  <2>2. CASE k = n + 1
    <3>1. K[k] = t /\ \A j \in 1..Len(K) : ~(k < j)
      BY <1>3, <2>2
    <3> QED
      BY <3>1 DEF EntryKnown, MayFollow
  <2> QED
    BY <1>3, <1>4, <2>1, <2>2
<1>8. JournalHolds(e, K)
  BY <1>3, <1>6, <1>7, <1>71 DEF JournalHolds
<1>9. ASSUME NEW i, Journaled(J, i) \/ EntryOf(t, i) PROVE Journaled(K, i)
  <2>1. CASE Journaled(J, i)
    <3>1. PICK k \in 1..n : EntryOf(J[k], i)
      BY <1>2, <2>1 DEF Journaled
    <3>2. k \in 1..Len(K) /\ K[k] = J[k]
      BY <1>3
    <3> QED
      BY <3>1, <3>2 DEF Journaled
  <2>2. CASE EntryOf(t, i)
    <3>1. n + 1 \in 1..Len(K)
      BY <1>3
    <3> QED
      BY <1>3, <2>2, <3>1 DEF Journaled
  <2> QED
    BY <1>9, <2>1, <2>2
<1> QED
  BY <1>1, <1>8, <1>9

\* What split_leaf asks of a path, and what its transaction does.
MayGrow(d, q) == HasRow(d, q) /\ IsLeaf(d, q) /\ Len(q) + 1 < MaxTreeDepth
OneMore(e, d, P, T, J, G) ==
    \E t : e.log = Append(d.log, t) /\ Good(e, P, T, Append(J, t), G)

\* A split and the entry it journals leave files that explain the larger tree.
LEMMA GoodSplit ==
    ASSUME NEW d, NEW P, NEW T, NEW J, NEW G, NEW q \in Paths, NEW e, e = SplitStep(d, q),
           IsDb(d), d.bulk = FALSE, Good(d, P, T, J, G), MayGrow(d, q)
    PROVE  e.bulk = FALSE /\ OneMore(e, d, P, T, J, G)
<1>0. HasRow(d, q) /\ IsLeaf(d, q) /\ Len(q) + 1 < MaxTreeDepth
  BY DEF MayGrow
<1>1. PICK m \in Nat : d.ids = 0..m
  BY DEF Good, Tree
<1>2. PICK p0 : IsChild(p0, q, 0)
  BY DEF IsChild
<1>3. PICK p1 : IsChild(p1, q, 1)
  BY DEF IsChild
<1>4. PICK id : id = IdOf(d, q)
  OBVIOUS
<1>5. PICK t : t = SplitEntry(id, m)
  OBVIOUS
<1>6. t.type = "split" /\ t.node = id /\ t.left = m + 1 /\ t.right = m + 2
  BY <1>5 DEF SplitEntry
<1>7. Tree(d) /\ Linked(d) /\ Explained(d, P, T, J) /\ G \in SUBSET (DOMAIN d.paths)
  BY DEF Good
<1>8. IsSplitOf(e, d, q, p0, p1, id, m) /\ id \in 0..m /\ e.log = Append(d.log, t) /\ e.bulk = FALSE
  <2>1. Tree(d)
    BY <1>7
  <2>2. /\ IsSplitOf(e, d, q, p0, p1, id, m) /\ id \in 0..m /\ e.bulk = d.bulk
        /\ e.log = IF d.bulk THEN d.log ELSE Append(d.log, SplitEntry(id, m))
    BY <1>1, <1>2, <1>3, <1>4, <1>0, <2>1, SplitStepShape
  <2> QED
    BY <1>5, <2>2
<1>9. Tree(e) /\ TreeGrows(d, e)
  BY <1>0, <1>1, <1>2, <1>3, <1>4, <1>7, <1>8, SplitOfTree
<1>10. /\ DOMAIN d.rows = 0..m /\ d.rows[id].path = q /\ d.rows[id].left = 0 /\ d.rows[id].right = 0
       /\ d.rows[id] = [path |-> q, left |-> 0, right |-> 0]
  <2>1. DOMAIN d.rows = 0..m /\ id \in DOMAIN d.rows
    BY <1>1, <1>7, <1>8 DEF Tree
  <2>2. d.rows[id].path = q /\ d.rows[id].left = 0
    BY <1>0, <1>4, <1>7 DEF Tree, HasRow, Known, IsLeaf, IdOf
  <2>3. d.rows[id].right = 0
    BY <1>7, <2>1, <2>2 DEF Linked, LinkOk
  <2>4. d.rows[id] = [path |-> d.rows[id].path, left |-> d.rows[id].left, right |-> d.rows[id].right]
    BY <1>7, <2>1 DEF Tree
  <2> QED
    BY <2>1, <2>2, <2>3, <2>4
<1>11. Linked(e)
  BY <1>2, <1>3, <1>7, <1>8, <1>10, LinkedSplit
<1>12. /\ DOMAIN e.rows = 0..(m + 2)
       /\ e.rows[id].path = q /\ e.rows[id].left = m + 1 /\ e.rows[id].right = m + 2
       /\ e.rows[m + 1].left = 0 /\ e.rows[m + 2].left = 0
       /\ \A i \in 0..m : i # id => e.rows[i] = d.rows[i]
  BY <1>8 DEF IsSplitOf
<1>13. \A i \in 0..m : i \in 0..(m + 2) /\ e.rows[i].path = d.rows[i].path
  BY <1>10, <1>12
<1>14. PagesHold(e, P)
  <2>1. ASSUME NEW r \in DOMAIN P, NEW i \in DOMAIN P[r]
        PROVE  /\ i \in DOMAIN e.rows /\ PageOf(i) = r
               /\ P[r][i] = e.rows[i] \/ P[r][i] = Leaf(e.rows[i].path)
    <3>1. /\ i \in 0..m /\ PageOf(i) = r
          /\ P[r][i] = d.rows[i] \/ P[r][i] = Leaf(d.rows[i].path)
      BY <1>7, <1>10 DEF Explained, PagesHold
    <3>2. CASE i = id
      <4>1. P[r][i] = Leaf(q)
        BY <1>10, <3>1, <3>2 DEF Leaf
      <4> QED
        BY <1>12, <1>13, <3>1, <3>2, <4>1
    <3>3. CASE i # id
      BY <1>12, <1>13, <3>1, <3>3
    <3> QED
      BY <3>2, <3>3
  <2> QED
    BY <1>7, <2>1 DEF Explained, PagesHold
<1>15. TmpsHold(e, T)
  BY <1>7, <1>10, <1>12, <1>13 DEF Explained, TmpsHold
<1>16. \A i \in DOMAIN d.rows : i \in DOMAIN e.rows /\ (d.rows[i].left # 0 => e.rows[i] = d.rows[i])
  BY <1>10, <1>12, <1>13
<1>17. \A i \in DOMAIN d.rows : d.rows[i].left # 0 => d.rows[i].left < t.left
  <2> SUFFICES ASSUME NEW i \in DOMAIN d.rows, d.rows[i].left # 0 PROVE d.rows[i].left < t.left
    OBVIOUS
  <2>1. d.rows[i].left \in 0..m
    BY <1>7, <1>10 DEF Linked, LinkOk
  <2> QED
    BY <1>6, <2>1
<1>171. \A x \in DOMAIN d.paths : Known(e, x) /\ e.paths[x] = d.paths[x] /\ d.paths[x] < t.left
  <2> SUFFICES ASSUME NEW x \in DOMAIN d.paths
               PROVE  Known(e, x) /\ e.paths[x] = d.paths[x] /\ d.paths[x] < t.left
    OBVIOUS
  <2>1. d.paths[x] \in 0..m
    BY <1>7, <1>10 DEF Tree
  <2> QED
    BY <1>6, <1>8, <2>1 DEF IsSplitOf, Known
<1>18. EntryHolds(e, t)
  <2>1. id \in DOMAIN e.rows /\ m + 1 # 0
    BY <1>8, <1>12, <1>13
  <2> QED
    BY <1>6, <1>12, <2>1 DEF EntryHolds
<1>19. PICK K : K = Append(J, t)
  OBVIOUS
<1>20. JournalHolds(e, K) /\ \A i : Journaled(J, i) \/ EntryOf(t, i) => Journaled(K, i)
  <2>1. JournalHolds(d, J)
    BY <1>7 DEF Explained
  <2>2. MayFollow(t, d, e)
    BY <1>6, <1>16, <1>17, <1>171 DEF MayFollow
  <2> QED
    BY <1>18, <1>19, <2>1, <2>2, JournalLonger
<1>21. Recorded(e, P, K)
  <2> SUFFICES ASSUME NEW i \in DOMAIN e.rows, e.rows[i].left # 0
               PROVE  Done(e, P, i) \/ Journaled(K, i)
    BY DEF Recorded
  <2>1. CASE i = id
    BY <1>6, <1>20, <2>1 DEF EntryOf
  <2>2. CASE i # id
    <3>1. i \in DOMAIN d.rows /\ e.rows[i] = d.rows[i]
      <4>1. i \in 0..m \/ i = m + 1 \/ i = m + 2
        BY <1>12
      <4> QED
        BY <1>10, <1>12, <2>2, <4>1
    <3>2. Done(d, P, i) \/ Journaled(J, i)
      BY <1>7, <3>1 DEF Explained, Recorded
    <3> QED
      BY <1>20, <3>1, <3>2 DEF Done
  <2> QED
    BY <2>1, <2>2
<1>22. G \in SUBSET (DOMAIN e.paths)
  BY <1>7, <1>9 DEF TreeGrows
<1>23. Good(e, P, T, K, G)
  BY <1>9, <1>11, <1>14, <1>15, <1>20, <1>21, <1>22 DEF Good, Explained
<1> QED
  BY <1>8, <1>19, <1>23 DEF OneMore

-----------------------------------------------------------------------------
(* Objects with transactions that are not in the journal yet.              *)

\* An object is one an interrupted call can be recovered to at every point of
\* its journalling: with the first k entries of its log in the journal, the
\* files explain some tree; with all of them, the object's own.
Stages(d, P, T, J, G) ==
    /\ IsDb(d) /\ d.bulk = FALSE /\ IsSeq(J)
    /\ \A k \in 0..Len(d.log) : \E e : Good(e, P, T, With(J, d.log, k), G)
    /\ Good(d, P, T, With(J, d.log, Len(d.log)), G)

\* So it is before a call, when its log is empty.
LEMMA StagesStart ==
    ASSUME NEW d, IsDb(d), d.bulk = FALSE, d.log = <<>>,
           NEW P, NEW T, NEW J, NEW G, Good(d, P, T, J, G)
    PROVE  Stages(d, P, T, J, G)
<1>1. IsSeq(J)
  BY DEF Good, Explained, JournalHolds
<1>2. With(J, d.log, 0) = J
  BY <1>1, WithEntries
<1>3. Len(d.log) = 0
  BY SeqEmpty
<1>4. 0..0 = {0}
  OBVIOUS
<1> QED
  BY <1>1, <1>2, <1>3, <1>4 DEF Stages

\* A split adds one stage (database.cpp:1507-1579).
LEMMA StagesSplit ==
    ASSUME NEW d, NEW P, NEW T, NEW J, NEW G, Stages(d, P, T, J, G),
           NEW q \in Paths, NEW e, e = SplitStep(d, q)
    PROVE  Stages(e, P, T, J, G)
<1>1. CASE ~HasRow(d, q) \/ ~IsLeaf(d, q) \/ Len(q) + 1 >= MaxTreeDepth
  <2>1. e = d
    BY <1>1 DEF SplitStep
  <2> QED
    BY <2>1
<1>2. CASE ~(~HasRow(d, q) \/ ~IsLeaf(d, q) \/ Len(q) + 1 >= MaxTreeDepth)
  <2>1. HasRow(d, q) /\ IsLeaf(d, q) /\ Len(q) + 1 < MaxTreeDepth
    BY <1>2, PathShape, LectAssumption
  <2>2. IsDb(d) /\ d.bulk = FALSE /\ IsSeq(J) /\ IsSeq(d.log) /\ IsDb(e)
    BY SplitStepGrows DEF Stages, Grows, IsDb
  <2>3. PICK n \in Nat : n = Len(d.log)
    BY <2>2, SeqShape
  <2>4. PICK K : K = With(J, d.log, n)
    OBVIOUS
  <2>5. Good(d, P, T, K, G)
    BY <2>3, <2>4 DEF Stages
  <2>6. e.bulk = FALSE /\ OneMore(e, d, P, T, K, G)
    BY <2>1, <2>2, <2>5, GoodSplit DEF MayGrow
  <2>7. PICK t : e.log = Append(d.log, t) /\ Good(e, P, T, Append(K, t), G)
    BY <2>6 DEF OneMore
  <2>8. PICK log : log = e.log
    OBVIOUS
  <2>9. Len(log) = n + 1 /\ log[n + 1] = t /\ \A j \in 1..n : log[j] = d.log[j]
    BY <2>2, <2>3, <2>7, <2>8, SeqAppend
  <2>10. \A k \in 0..n : With(J, log, k) = With(J, d.log, k)
    <3> SUFFICES ASSUME NEW k \in 0..n PROVE With(J, log, k) = With(J, d.log, k)
      OBVIOUS
    <3>1. \A j \in 1..k : log[j] = d.log[j]
      BY <2>9
    <3> QED
      BY <2>2, <3>1, WithSame
  <2>11. With(J, log, n + 1) = Append(K, t)
    <3>1. With(J, log, n) = K
      BY <2>4, <2>10
    <3>2. With(J, log, n + 1) = Append(With(J, log, n), log[n + 1])
      BY <2>2, WithEntries, ZenonT(40)
    <3> QED
      BY <2>9, <3>1, <3>2
  <2>12. ASSUME NEW k \in 0..Len(log) PROVE \E f : Good(f, P, T, With(J, log, k), G)
    <3>1. CASE k \in 0..n
      BY <2>3, <2>10, <3>1 DEF Stages
    <3>2. CASE k = n + 1
      BY <2>7, <2>11, <3>2
    <3> QED
      BY <2>9, <3>1, <3>2
  <2>13. Good(e, P, T, With(J, log, Len(log)), G)
    BY <2>7, <2>9, <2>11
  <2> QED
    BY <2>2, <2>6, <2>8, <2>12, <2>13 DEF Stages
<1> QED
  BY <1>1, <1>2

\* Nor does a split on the way to a box leave anything out, however long the
\* way is (database.cpp:2649-2724).
LEMMA StagesAlong ==
    ASSUME NEW d, NEW P, NEW T, NEW J, NEW G, Stages(d, P, T, J, G), NEW p \in Paths,
           NEW e, e = SplitAlong(d, p)
    PROVE  Stages(e, P, T, J, G)
<1>1. Len(p) \in Nat
  BY PathShape
<1>2. PICK after : /\ SplitAlong(d, p) = after[Len(p)] /\ after[0] = d
                   /\ \A k \in 1..Len(p) : after[k] = SplitStep(after[k - 1], SubSeq(p, 1, k - 1))
  BY <1>1, SplitAlongUnfolds
<1> DEFINE S == {k \in 0..Len(p) : Stages(after[k], P, T, J, G)}
<1>3. 0 \in S
  BY <1>1, <1>2
<1>4. \A k \in 1..Len(p) : k - 1 \in S => k \in S
  <2> SUFFICES ASSUME NEW k \in 1..Len(p), k - 1 \in S PROVE k \in S
    OBVIOUS
  <2>1. k - 1 \in 0..Len(p) /\ k \in 0..Len(p) /\ SubSeq(p, 1, k - 1) \in Paths
    BY <1>1, PathPrefix
  <2>2. PICK q \in Paths : q = SubSeq(p, 1, k - 1)
    BY <2>1
  <2>3. PICK b : b = after[k - 1]
    OBVIOUS
  <2>4. PICK f : f = after[k]
    OBVIOUS
  <2>5. f = SplitStep(b, q) /\ Stages(b, P, T, J, G)
    BY <1>2, <2>2, <2>3, <2>4
  <2>6. Stages(f, P, T, J, G)
    BY <2>5, StagesSplit
  <2> QED
    BY <2>1, <2>4, <2>6
<1> HIDE DEF S
<1>5. \A k \in 0..Len(p) : k \in S
  BY <1>1, <1>3, <1>4, UpTo
<1>6. Len(p) \in S
  BY <1>1, <1>5
<1> QED
  BY <1>2, <1>6 DEF S

-----------------------------------------------------------------------------
(* What the changes of the directory leave of it.                          *)

\* The rows a page file is written with.
LEMMA PageRows ==
    ASSUME NEW d, NEW q, NEW f, f = RowsOnPage(d, q)
    PROVE  /\ \A i : i \in DOMAIN f <=> i \in DOMAIN d.rows /\ PageOf(i) = q
           /\ \A i \in DOMAIN f : f[i] = d.rows[i]
  BY DEF RowsOnPage

\* A page file may be replaced by the rows of its nodes (database.cpp:2433-2502).
LEMMA GoodPage ==
    ASSUME NEW d, NEW P, NEW T, NEW J, NEW G, NEW q, NEW f, f = RowsOnPage(d, q),
           NEW Q, DOMAIN Q = DOMAIN P \cup {q}, Q[q] = f, \A x \in DOMAIN P : x # q => Q[x] = P[x],
           Good(d, P, T, J, G)
    PROVE  Good(d, Q, T, J, G)
<1>1. /\ Tree(d) /\ Linked(d) /\ PagesHold(d, P) /\ TmpsHold(d, T) /\ JournalHolds(d, J)
      /\ Recorded(d, P, J) /\ G \in SUBSET (DOMAIN d.paths)
  BY DEF Good, Explained
<1>2. /\ \A i : i \in DOMAIN f <=> i \in DOMAIN d.rows /\ PageOf(i) = q
      /\ \A i \in DOMAIN f : f[i] = d.rows[i]
  BY PageRows
<1>3. ASSUME NEW i, Held(P, i)
      PROVE  Held(Q, i) /\ (Q[PageOf(i)][i] = P[PageOf(i)][i] \/ Q[PageOf(i)][i] = d.rows[i])
  <2>1. PageOf(i) \in DOMAIN P /\ i \in DOMAIN P[PageOf(i)] /\ i \in DOMAIN d.rows
    BY <1>1, <1>3 DEF Held, PagesHold
  <2>2. CASE PageOf(i) = q
    BY <1>2, <2>1, <2>2 DEF Held
  <2>3. CASE PageOf(i) # q
    BY <2>1, <2>3 DEF Held
  <2> QED
    BY <2>2, <2>3
<1>4. PagesHold(d, Q)
  <2>1. ASSUME NEW r \in DOMAIN Q, NEW i \in DOMAIN Q[r]
        PROVE  /\ i \in DOMAIN d.rows /\ PageOf(i) = r
               /\ Q[r][i] = d.rows[i] \/ Q[r][i] = Leaf(d.rows[i].path)
    <3>1. CASE r = q
      BY <1>2, <3>1
    <3>2. CASE r # q
      <4>1. r \in DOMAIN P /\ Q[r] = P[r]
        BY <3>2
      <4> QED
        BY <1>1, <4>1 DEF PagesHold
    <3> QED
      BY <3>1, <3>2
  <2> QED
    BY <1>1, <1>3, <2>1 DEF PagesHold
<1>5. Recorded(d, Q, J)
  <2> SUFFICES ASSUME NEW i \in DOMAIN d.rows, d.rows[i].left # 0
               PROVE  Done(d, Q, i) \/ Journaled(J, i)
    BY DEF Recorded
  <2>1. CASE Done(d, P, i)
    <3>1. Held(P, i) /\ Held(P, d.rows[i].left) /\ Held(P, d.rows[i].right) /\ P[PageOf(i)][i] = d.rows[i]
      BY <2>1 DEF Done
    <3>2. Held(Q, i) /\ Held(Q, d.rows[i].left) /\ Held(Q, d.rows[i].right) /\ Q[PageOf(i)][i] = d.rows[i]
      BY <1>3, <3>1
    <3> QED
      BY <3>2 DEF Done
  <2> QED
    BY <1>1, <2>1 DEF Recorded
<1> QED
  BY <1>1, <1>4, <1>5 DEF Good, Explained

\* A temporary file may appear with those rows, or go.
LEMMA GoodTmps ==
    ASSUME NEW d, NEW P, NEW T, NEW J, NEW G, NEW q, NEW f, f = RowsOnPage(d, q),
           Good(d, P, T, J, G)
    PROVE  Good(d, P, Put(T, q, f), J, G) /\ Good(d, P, Without(T, {q}), J, G)
<1>1. TmpsHold(d, T)
  BY DEF Good, Explained
<1>2. /\ \A i : i \in DOMAIN f <=> i \in DOMAIN d.rows /\ PageOf(i) = q
      /\ \A i \in DOMAIN f : f[i] = d.rows[i]
  BY PageRows
<1>3. PICK U : U = Put(T, q, f)
  OBVIOUS
<1>4. DOMAIN U = DOMAIN T \cup {q} /\ U[q] = f /\ \A x \in DOMAIN T : x # q => U[x] = T[x]
  BY <1>3 DEF Put
<1>5. TmpsHold(d, U)
  <2> SUFFICES ASSUME NEW r \in DOMAIN U, NEW i \in DOMAIN U[r]
               PROVE  i \in DOMAIN d.rows /\ U[r][i].path = d.rows[i].path
    BY DEF TmpsHold
  <2>1. CASE r = q
    BY <1>2, <1>4, <2>1
  <2>2. CASE r # q
    <3>1. r \in DOMAIN T /\ U[r] = T[r]
      BY <1>4, <2>2
    <3> QED
      BY <1>1, <3>1 DEF TmpsHold
  <2> QED
    BY <2>1, <2>2
<1>6. PICK V : V = Without(T, {q})
  OBVIOUS
<1>7. DOMAIN V = DOMAIN T \ {q} /\ \A x \in DOMAIN V : V[x] = T[x]
  BY <1>6 DEF Without, Restrict
<1>8. TmpsHold(d, V)
  BY <1>1, <1>7 DEF TmpsHold
<1> QED
  BY <1>3, <1>5, <1>6, <1>8 DEF Good, Explained

\* The journal may go when the pages hold every row (database.cpp:2026-2035).
LEMMA GoodTruncated ==
    ASSUME NEW d, NEW P, NEW T, NEW J, NEW G, Good(d, P, T, J, G),
           \A i \in DOMAIN d.rows : Held(P, i) /\ P[PageOf(i)][i] = d.rows[i],
           NEW K, K = <<>>
    PROVE  Good(d, P, T, K, G)
<1>1. JournalHolds(d, K)
  <2>1. IsSeq(K) /\ Len(K) = 0
    BY SeqEmpty
  <2>2. 1..0 = {}
    OBVIOUS
  <2> QED
    BY <2>1, <2>2 DEF JournalHolds
<1>2. Recorded(d, P, K)
  <2> SUFFICES ASSUME NEW i \in DOMAIN d.rows, d.rows[i].left # 0 PROVE Done(d, P, i)
    BY DEF Recorded
  <2>1. d.rows[i].left \in DOMAIN d.rows /\ d.rows[i].right \in DOMAIN d.rows
    BY DEF Good, Linked, LinkOk
  <2> QED
    BY <2>1 DEF Done
<1> QED
  BY <1>1, <1>2 DEF Good, Explained

\* A journal may grow by the record of a node.
LEMMA GoodEntry ==
    ASSUME NEW d, NEW P, NEW T, NEW J, NEW G, Good(d, P, T, J, G), NEW t, t.type # "split",
           Known(d, t.path)
    PROVE  Good(d, P, T, Append(J, t), G)
<1>1. JournalHolds(d, J) /\ EntryHolds(d, t)
  BY DEF Good, Explained, EntryHolds
<1>2. PICK K : K = Append(J, t)
  OBVIOUS
<1>3. JournalHolds(d, K) /\ \A i : Journaled(J, i) => Journaled(K, i)
  <2>1. MayFollow(t, d, d)
    BY DEF MayFollow, Known
  <2> QED
    BY <1>1, <1>2, <2>1, JournalLonger
<1> QED
  BY <1>2, <1>3 DEF Good, Explained, Recorded

-----------------------------------------------------------------------------
(* What open rebuilds from files that explain a tree: at every point of the *)
(* replay the object is a part of it, and each split is in its rows or      *)
(* still to come.                                                           *)
Partial(e, d) ==
    /\ IsDb(e) /\ IsMap(e.rows) /\ IsMap(e.paths)
    /\ 0 \in DOMAIN e.rows
    /\ \A i \in e.ids : i \in DOMAIN d.rows
    /\ \A i \in DOMAIN e.rows : i \in e.ids
    /\ \A x \in DOMAIN e.paths : x \in DOMAIN d.paths /\ e.paths[x] = d.paths[x]
    /\ \A i \in DOMAIN e.rows : /\ e.rows[i] = d.rows[i] \/ e.rows[i] = Leaf(d.rows[i].path)
                                /\ Known(e, d.rows[i].path)
Complete(e, d, i) ==
    /\ i \in DOMAIN e.rows /\ e.rows[i] = d.rows[i]
    /\ d.rows[i].left \in DOMAIN e.rows /\ d.rows[i].right \in DOMAIN e.rows
ToCome(J, k, i) == \E j \in 1..Len(J) : j > k /\ EntryOf(J[j], i)
Progress(e, d, J, k) ==
    \A i \in DOMAIN d.rows : d.rows[i].left # 0 => Complete(e, d, i) \/ ToCome(J, k, i)

\* Only the nodes of the object matter.
LEMMA PartialSame ==
    ASSUME NEW d, NEW e, NEW f, IsDb(f), SameNodes(e, f)
    PROVE  /\ Partial(e, d) => Partial(f, d)
           /\ \A i : Complete(e, d, i) => Complete(f, d, i)
  BY DEF SameNodes, Partial, Complete, Known

\* A child that is missing gets its row (database.cpp:3540-3552).
Written(b, j, q) == IF j \in DOMAIN b.rows THEN b ELSE WriteRow(b, j, Leaf(q))

\* That row is the tree's.
LEMMA PartialWritten ==
    ASSUME NEW d, Tree(d), NEW b, Partial(b, d), NEW j \in DOMAIN d.rows,
           NEW q, q = d.rows[j].path, NEW e, e = Written(b, j, q)
    PROVE  /\ Partial(e, d) /\ j \in DOMAIN e.rows
           /\ \A i \in DOMAIN b.rows : i \in DOMAIN e.rows /\ e.rows[i] = b.rows[i]
<1>1. CASE j \in DOMAIN b.rows
  <2>1. e = b
    BY <1>1 DEF Written
  <2> QED
    BY <1>1, <2>1
<1>2. CASE j \notin DOMAIN b.rows
  <2>1. Known(d, q) /\ d.paths[q] = j
    BY DEF Tree
  <2>2. Known(b, q) => IdOf(b, q) = j
    BY <2>1 DEF Partial, Known, IdOf
  <2>3. IsDb(b) /\ e = WriteRow(b, j, Leaf(q))
    BY <1>2 DEF Partial, Written
  <2>4. /\ IsDb(e) /\ IsMap(e.paths)
        /\ e.ids = b.ids \cup {j}
        /\ DOMAIN e.paths = DOMAIN b.paths \cup {q} /\ e.paths[q] = j
        /\ \A x \in DOMAIN b.paths : e.paths[x] = b.paths[x]
        /\ DOMAIN e.rows = DOMAIN b.rows \cup {j}
        /\ e.rows[j] = [path |-> q, left |-> 0, right |-> 0]
        /\ \A i \in DOMAIN b.rows \ {j} : e.rows[i] = b.rows[i]
    BY <2>2, <2>3, NewNode
  <2>5. IsMap(e.rows)
    <3>1. Leaf(q).path = q
      BY DEF Leaf
    <3>2. e = [b EXCEPT !.ids = @ \cup {j}, !.paths = Put(@, q, j),
                        !.rows = Put(@, j, Leaf(q)), !.dirty = @ \cup {PageOf(j)}]
      BY <2>2, <2>3, <3>1 DEF WriteRow
    <3>3. e = [ids |-> b.ids \cup {j}, paths |-> Put(b.paths, q, j),
               rows |-> Put(b.rows, j, Leaf(q)), dirty |-> b.dirty \cup {PageOf(j)},
               resident |-> b.resident, index |-> b.index, buffer |-> b.buffer,
               sidecarDirty |-> b.sidecarDirty, pending |-> b.pending, appends |-> b.appends,
               bulk |-> b.bulk, log |-> b.log]
      BY <2>3, <3>2 DEF IsDb
    <3>4. e.rows = Put(b.rows, j, Leaf(q))
      BY <3>3
    <3> QED
      BY <3>4, PutIsMap
  <2>6. e.rows[j] = Leaf(d.rows[j].path) /\ Known(e, d.rows[j].path)
    BY <2>4 DEF Leaf, Known
  <2>7. \A i \in DOMAIN b.rows : i \in DOMAIN e.rows /\ e.rows[i] = b.rows[i]
    BY <1>2, <2>4
  <2>8. \A i \in DOMAIN e.rows : /\ e.rows[i] = d.rows[i] \/ e.rows[i] = Leaf(d.rows[i].path)
                                 /\ Known(e, d.rows[i].path)
    <3> SUFFICES ASSUME NEW i \in DOMAIN e.rows
                 PROVE  /\ e.rows[i] = d.rows[i] \/ e.rows[i] = Leaf(d.rows[i].path)
                        /\ Known(e, d.rows[i].path)
      OBVIOUS
    <3>1. CASE i = j
      BY <2>6, <3>1
    <3>2. CASE i \in DOMAIN b.rows
      BY <2>4, <2>7, <3>2 DEF Partial, Known
    <3> QED
      BY <2>4, <3>1, <3>2
  <2>9. \A x \in DOMAIN e.paths : x \in DOMAIN d.paths /\ e.paths[x] = d.paths[x]
    BY <2>1, <2>4 DEF Partial, Known
  <2>10. /\ \A i \in e.ids : i \in DOMAIN d.rows
         /\ \A i \in DOMAIN e.rows : i \in e.ids
         /\ 0 \in DOMAIN e.rows
    BY <2>4 DEF Partial
  <2> QED
    BY <2>4, <2>5, <2>7, <2>8, <2>9, <2>10 DEF Partial
<1> QED
  BY <1>1, <1>2

\* Node i of the tree.
IsNode(d, i, q, l, r) ==
    d.rows[i].path = q /\ d.rows[i].left = l /\ d.rows[i].right = r

\* The links a row has in the tree may be written to it (database.cpp:3553-3559).
LEMMA PartialLinked ==
    ASSUME NEW d, Tree(d), NEW b, Partial(b, d), NEW i \in DOMAIN b.rows,
           NEW q, NEW l, NEW r, IsNode(d, i, q, l, r), NEW e, e = LinkChildren(b, q, l, r)
    PROVE  /\ Partial(e, d) /\ DOMAIN e.rows = DOMAIN b.rows /\ e.rows[i] = d.rows[i]
           /\ \A j \in DOMAIN b.rows \ {i} : e.rows[j] = b.rows[j]
<1>1. /\ i \in DOMAIN d.rows /\ IsDb(b)
      /\ b.rows[i] = d.rows[i] \/ b.rows[i] = Leaf(q)
      /\ Known(b, q) /\ b.paths[q] = d.paths[q]
  BY DEF Partial, Known, IsNode
<1>2. d.paths[q] = i /\ d.rows[i] = [path |-> q, left |-> l, right |-> r]
  BY <1>1 DEF Tree, IsNode
<1>3. i = IdOf(b, q)
  BY <1>1, <1>2 DEF IdOf
<1>4. b.rows[i].path = q
  BY <1>1, <1>2 DEF Leaf
<1>5. b.rows[i] = [path |-> b.rows[i].path, left |-> b.rows[i].left, right |-> b.rows[i].right]
  BY <1>1, <1>2 DEF Leaf
<1>6. /\ IsDb(e) /\ IsMap(e.rows) /\ e.ids = b.ids /\ e.paths = b.paths
      /\ DOMAIN e.rows = DOMAIN b.rows
      /\ e.rows[i] = [path |-> b.rows[i].path, left |-> l, right |-> r]
      /\ \A j \in DOMAIN b.rows \ {i} : e.rows[j] = b.rows[j]
  <2>1. IsDb(b)
    BY <1>1
  <2> QED
    BY <2>1, <1>3, <1>5, LinkedNode
<1>7. e.rows[i] = d.rows[i]
  BY <1>2, <1>4, <1>6
<1>8. \A j \in DOMAIN e.rows : /\ e.rows[j] = d.rows[j] \/ e.rows[j] = Leaf(d.rows[j].path)
                               /\ Known(e, d.rows[j].path)
  BY <1>6, <1>7 DEF Partial, Known
<1>9. /\ 0 \in DOMAIN e.rows
      /\ \A j \in e.ids : j \in DOMAIN d.rows
      /\ \A j \in DOMAIN e.rows : j \in e.ids
      /\ \A x \in DOMAIN e.paths : x \in DOMAIN d.paths /\ e.paths[x] = d.paths[x]
      /\ IsMap(e.paths)
  BY <1>6 DEF Partial
<1>10. Partial(e, d)
  BY <1>6, <1>8, <1>9 DEF Partial
<1> QED
  BY <1>6, <1>7, <1>10

\* The node an entry of the journal splits has its row when its turn comes: its
\* parent's split was made before, so it comes earlier in the journal.
LEMMA NodeThere ==
    ASSUME NEW d, NEW m \in Nat, DOMAIN d.rows = 0..m, Linked(d),
           NEW J, JournalHolds(d, J), NEW k \in 1..Len(J), J[k].type = "split",
           NEW b, Partial(b, d), Progress(b, d, J, k - 1)
    PROVE  J[k].node \in DOMAIN b.rows
<1>1. PICK i : i = J[k].node
  OBVIOUS
<1>2. i \in DOMAIN d.rows /\ d.rows[i].left = J[k].left /\ d.rows[i].left # 0
  BY <1>1 DEF JournalHolds, EntryHolds
<1>3. CASE i = 0
  BY <1>1, <1>3 DEF Partial
<1>4. CASE i # 0
  <2>1. PICK j \in DOMAIN d.rows : d.rows[j].left # 0 /\ (i = d.rows[j].left \/ i = d.rows[j].right)
    BY <1>2, <1>4 DEF Linked, HasParent
  <2>2. LinkOk(d, i) /\ LinkOk(d, j)
    BY <1>2 DEF Linked
  <2>3. PICK x : x = d.rows[i].left
    OBVIOUS
  <2>4. PICK y : y = d.rows[j].left
    OBVIOUS
  <2>5. /\ i \in 0..m /\ j \in 0..m /\ x \in 0..m /\ y \in 0..m
        /\ i < x /\ y <= i /\ j < y
    BY <1>2, <2>1, <2>2, <2>3, <2>4, SMTT(20) DEF LinkOk
  <2>6. CASE Complete(b, d, j)
    BY <1>1, <2>1, <2>6 DEF Complete
  <2>7. CASE ToCome(J, k - 1, j)
    <3>1. PICK h \in 1..Len(J) : h > k - 1 /\ EntryOf(J[h], j)
      BY <2>7 DEF ToCome
    <3>2. J[h].type = "split" /\ J[h].node = j /\ J[h].left = y
      BY <2>4, <3>1 DEF EntryOf, JournalHolds, EntryHolds
    <3>3. J[k].left = x
      BY <1>2, <2>3
    <3>4. h # k
      BY <1>1, <2>5, <3>2
    <3>5. h > k
      BY <3>1, <3>4
    <3>6. J[k].left < J[h].left
      BY <3>2, <3>5 DEF JournalHolds
    <3> QED
      BY <2>5, <3>2, <3>3, <3>6
  <2> QED
    BY <2>1, <2>6, <2>7 DEF Progress
<1> QED
  BY <1>3, <1>4

\* So has the node of a record: a split still to come has larger numbers.
LEMMA EntryThere ==
    ASSUME NEW d, Tree(d), Linked(d), NEW J, JournalHolds(d, J), NEW k \in 1..Len(J),
           J[k].type # "split", NEW b, Partial(b, d), Progress(b, d, J, k - 1)
    PROVE  Known(b, J[k].path)
<1>1. PICK x : x = J[k].path
  OBVIOUS
<1>2. /\ x \in DOMAIN d.paths
      /\ \A j \in 1..Len(J) : k < j /\ J[j].type = "split" => d.paths[x] < J[j].left
  BY <1>1 DEF JournalHolds, EntryKnown, Known
<1>3. PICK i : i = d.paths[x]
  OBVIOUS
<1>4. PICK m \in Nat : DOMAIN d.rows = 0..m
  BY DEF Tree
<1>5. i \in 0..m /\ d.rows[i].path = x
  BY <1>2, <1>3, <1>4 DEF Tree
<1>6. ASSUME i \in DOMAIN b.rows PROVE Known(b, x)
  <2>1. Known(b, d.rows[i].path)
    BY <1>6 DEF Partial
  <2> QED
    BY <1>5, <2>1
<1>7. CASE i = 0
  BY <1>1, <1>6, <1>7 DEF Partial
<1>8. CASE i # 0
  <2>1. PICK j \in DOMAIN d.rows : d.rows[j].left # 0 /\ (i = d.rows[j].left \/ i = d.rows[j].right)
    BY <1>4, <1>5, <1>8 DEF Linked, HasParent
  <2>2. PICK y : y = d.rows[j].left
    OBVIOUS
  <2>3. y \in 0..m /\ y <= i
    <3>1. LinkOk(d, j)
      BY <2>1 DEF Linked
    <3>2. y \in 0..m /\ d.rows[j].right = y + 1
      BY <1>4, <2>1, <2>2, <3>1 DEF LinkOk
    <3> QED
      BY <2>1, <2>2, <3>2
  <2>4. CASE Complete(b, d, j)
    <3>1. i \in DOMAIN b.rows
      BY <2>1, <2>4 DEF Complete
    <3> QED
      BY <1>1, <1>6, <3>1
  <2>5. CASE ToCome(J, k - 1, j)
    <3>1. PICK h \in 1..Len(J) : h > k - 1 /\ EntryOf(J[h], j)
      BY <2>5 DEF ToCome
    <3>2. J[h].type = "split" /\ J[h].left = y
      BY <2>2, <3>1 DEF EntryOf, JournalHolds, EntryHolds
    <3>3. h > k
      BY <3>1, <3>2
    <3>4. i < y
      BY <1>2, <1>3, <3>2, <3>3
    <3> QED
      BY <1>5, <2>3, <3>4
  <2> QED
    BY <2>1, <2>4, <2>5 DEF Progress
<1> QED
  BY <1>1, <1>7, <1>8

\* Replaying an entry that is no split changes no node, and none is waited for.
LEMMA ReplayOther ==
    ASSUME NEW d, NEW J, NEW k \in 1..Len(J), J[k].type # "split",
           NEW b, Partial(b, d), Progress(b, d, J, k - 1), NEW e, e = ReplayStep(b, J[k])
    PROVE  Partial(e, d) /\ Progress(e, d, J, k)
<1>1. IsDb(b)
  BY DEF Partial
<1>2. PICK t : t = J[k]
  OBVIOUS
<1>3. Still(b, e)
  BY <1>1, <1>2, StillReplay
<1>4. IsDb(e) /\ SameNodes(b, e)
  BY <1>3 DEF Still, SameNumbers
<1>5. Partial(e, d) /\ \A i : Complete(b, d, i) => Complete(e, d, i)
  BY <1>4, PartialSame
<1>6. \A i : ToCome(J, k - 1, i) => ToCome(J, k, i)
  <2> SUFFICES ASSUME NEW i, ToCome(J, k - 1, i) PROVE ToCome(J, k, i)
    OBVIOUS
  <2>1. PICK j \in 1..Len(J) : j > k - 1 /\ EntryOf(J[j], i)
    BY DEF ToCome
  <2>2. j # k
    BY <2>1 DEF EntryOf
  <2>3. j > k
    BY <2>1, <2>2
  <2> QED
    BY <2>1, <2>3 DEF ToCome
<1> QED
  BY <1>5, <1>6 DEF Progress

\* Replaying a split completes its node (database.cpp:3528-3559).
LEMMA ReplaySplit ==
    ASSUME NEW d, Tree(d), Linked(d), NEW J, JournalHolds(d, J),
           NEW k \in 1..Len(J), J[k].type = "split",
           NEW b, Partial(b, d), Progress(b, d, J, k - 1), NEW e, e = ReplayStep(b, J[k])
    PROVE  Partial(e, d) /\ Progress(e, d, J, k)
<1>1. PICK t : t = J[k]
  OBVIOUS
<1>2. PICK i : i = t.node
  OBVIOUS
<1>3. PICK l : l = t.left
  OBVIOUS
<1>4. PICK r : r = t.right
  OBVIOUS
<1>5. PICK q : q = d.rows[i].path
  OBVIOUS
<1>6. t.type = "split" /\ l # 0 /\ i \in DOMAIN d.rows /\ IsNode(d, i, q, l, r)
  BY <1>1, <1>2, <1>3, <1>4, <1>5 DEF JournalHolds, EntryHolds, IsNode
<1>7. i \in DOMAIN b.rows
  <2>1. PICK m \in Nat : DOMAIN d.rows = 0..m
    BY DEF Tree
  <2> QED
    BY <1>1, <1>2, <2>1, NodeThere
<1>8. PICK b0 : b0 = [b EXCEPT !.pending = TRUE]
  OBVIOUS
<1>9. SameNodes(b, b0) /\ Partial(b0, d)
  <2>1. IsDb(b)
    BY DEF Partial
  <2>2. Still(b, b0)
    BY <1>8, <2>1, StillField DEF SameStore
  <2>3. IsDb(b0) /\ SameNodes(b, b0)
    BY <2>2 DEF Still, SameNumbers
  <2> QED
    BY <2>3, PartialSame
<1>10. i \in DOMAIN b0.rows /\ b0.rows[i].path = q
       /\ (b0.rows[i] = d.rows[i] \/ b0.rows[i].left = 0)
  <2>1. i \in DOMAIN b0.rows /\ (b0.rows[i] = d.rows[i] \/ b0.rows[i] = Leaf(q))
    BY <1>5, <1>7, <1>9 DEF SameNodes, Partial
  <2> QED
    BY <1>5, <2>1 DEF Leaf
<1> DEFINE settled == b0.rows[i].left = l /\ {l, r} \subseteq DOMAIN b0.rows
           p == b0.rows[i].path
           d1 == IF l \in DOMAIN b0.rows THEN b0 ELSE WriteRow(b0, l, Leaf(Append(p, 0)))
           d2 == IF r \in DOMAIN d1.rows THEN d1 ELSE WriteRow(d1, r, Leaf(Append(p, 1)))
<1>11. e = IF settled THEN b0 ELSE LinkChildren(d2, p, l, r)
  BY <1>1, <1>2, <1>3, <1>4, <1>6, <1>8, <1>10 DEF ReplayStep
<1>12. /\ Partial(e, d) /\ Complete(e, d, i)
       /\ \A j \in DOMAIN b.rows : j # i => j \in DOMAIN e.rows /\ e.rows[j] = b.rows[j]
       /\ \A j \in DOMAIN b.rows : j \in DOMAIN e.rows
  <2>1. CASE settled
    <3>1. e = b0
      BY <1>11, <2>1
    <3>2. b0.rows[i] = d.rows[i]
      BY <1>6, <1>10, <2>1
    <3>3. Complete(e, d, i)
      BY <1>6, <1>10, <2>1, <3>1, <3>2 DEF Complete, IsNode
    <3> QED
      BY <1>9, <3>1, <3>3 DEF SameNodes
  <2>2. CASE ~settled
    <3>1. e = LinkChildren(d2, p, l, r)
      BY <1>11, <2>2
    <3>2. p = q
      BY <1>10
    <3>3. LinkOk(d, i)
      BY <1>6 DEF Linked
    <3>4. PICK p0 : IsChild(p0, q, 0)
      BY DEF IsChild
    <3>5. PICK p1 : IsChild(p1, q, 1)
      BY DEF IsChild
    <3>6. /\ l \in DOMAIN d.rows /\ r \in DOMAIN d.rows /\ p0 = d.rows[l].path /\ p1 = d.rows[r].path
      BY <1>6, <3>3, <3>4, <3>5 DEF LinkOk, IsNode, IsChild
    <3>7. d1 = Written(b0, l, p0)
      BY <3>2, <3>4 DEF Written, IsChild
    <3> HIDE DEF d1
    <3>8. d2 = Written(d1, r, p1)
      BY <3>2, <3>5 DEF Written, IsChild
    <3> HIDE DEF d2, settled, p
    <3>9. PICK f1 : f1 = d1
      OBVIOUS
    <3>10. PICK f2 : f2 = d2
      OBVIOUS
    <3>11. /\ Partial(f1, d) /\ l \in DOMAIN f1.rows
           /\ \A j \in DOMAIN b0.rows : j \in DOMAIN f1.rows /\ f1.rows[j] = b0.rows[j]
      BY <1>9, <3>6, <3>7, <3>9, PartialWritten
    <3>12. /\ Partial(f2, d) /\ r \in DOMAIN f2.rows
           /\ \A j \in DOMAIN f1.rows : j \in DOMAIN f2.rows /\ f2.rows[j] = f1.rows[j]
      BY <3>6, <3>8, <3>9, <3>10, <3>11, PartialWritten
    <3>13. i \in DOMAIN f2.rows
      BY <1>10, <3>11, <3>12
    <3>14. e = LinkChildren(f2, q, l, r)
      BY <3>1, <3>2, <3>10
    <3>15. /\ Partial(e, d) /\ DOMAIN e.rows = DOMAIN f2.rows /\ e.rows[i] = d.rows[i]
           /\ \A j \in DOMAIN f2.rows \ {i} : e.rows[j] = f2.rows[j]
      BY <1>6, <3>12, <3>13, <3>14, PartialLinked
    <3>16. Complete(e, d, i)
      BY <1>6, <3>11, <3>12, <3>13, <3>15 DEF Complete, IsNode
    <3>17. b0.rows = b.rows
      BY <1>9 DEF SameNodes
    <3> QED
      BY <3>11, <3>12, <3>15, <3>16, <3>17
  <2> QED
    BY <2>1, <2>2
<1> HIDE DEF settled, p, d1, d2
<1>13. ASSUME NEW j \in DOMAIN d.rows, d.rows[j].left # 0 PROVE Complete(e, d, j) \/ ToCome(J, k, j)
  <2>1. CASE j = i
    BY <1>12, <2>1
  <2>2. CASE j # i /\ Complete(b, d, j)
    BY <1>12, <2>2 DEF Complete
  <2>3. CASE j # i /\ ToCome(J, k - 1, j)
    <3>1. PICK h \in 1..Len(J) : h > k - 1 /\ EntryOf(J[h], j)
      BY <2>3 DEF ToCome
    <3>2. h # k
      BY <1>1, <1>2, <2>3, <3>1 DEF EntryOf
    <3>3. h > k
      BY <3>1, <3>2
    <3> QED
      BY <3>1, <3>3 DEF ToCome
  <2> QED
    BY <1>13, <2>1, <2>2, <2>3 DEF Progress
<1> QED
  BY <1>12, <1>13 DEF Progress

\* An object in which every split is complete is the tree.
LEMMA PartialWhole ==
    ASSUME NEW d, Tree(d), Linked(d), NEW e, Partial(e, d),
           \A i \in DOMAIN d.rows : d.rows[i].left # 0 => Complete(e, d, i)
    PROVE  SameNodes(d, e)
<1>1. ASSUME NEW i \in DOMAIN d.rows PROVE i \in DOMAIN e.rows
  <2>1. CASE i = 0
    BY <2>1 DEF Partial
  <2>2. CASE i # 0
    BY <2>2 DEF Linked, HasParent, Complete
  <2> QED
    BY <2>1, <2>2
<1>2. ASSUME NEW i \in DOMAIN d.rows PROVE e.rows[i] = d.rows[i]
  <2>1. CASE d.rows[i].left # 0
    BY <2>1 DEF Complete
  <2>2. CASE d.rows[i].left = 0
    <3>1. d.rows[i].right = 0
      BY <2>2 DEF Linked, LinkOk
    <3>2. d.rows[i] = [path |-> d.rows[i].path, left |-> d.rows[i].left, right |-> d.rows[i].right]
      BY DEF Tree
    <3>3. d.rows[i] = Leaf(d.rows[i].path)
      BY <2>2, <3>1, <3>2 DEF Leaf
    <3> QED
      BY <1>1, <3>3 DEF Partial
  <2> QED
    BY <2>1, <2>2
<1>3. DOMAIN e.rows = DOMAIN d.rows /\ e.ids = d.ids
  BY <1>1 DEF Partial, Tree
<1>4. e.rows = d.rows
  BY <1>2, <1>3 DEF Partial, Tree, IsMap
<1>5. \A x \in DOMAIN d.paths : x \in DOMAIN e.paths
  <2> SUFFICES ASSUME NEW x \in DOMAIN d.paths PROVE x \in DOMAIN e.paths
    OBVIOUS
  <2>1. d.paths[x] \in DOMAIN d.rows /\ d.rows[d.paths[x]].path = x
    BY DEF Tree
  <2> QED
    BY <1>1, <2>1 DEF Partial, Known
<1>6. e.paths = d.paths
  <2>1. DOMAIN e.paths = DOMAIN d.paths /\ \A x \in DOMAIN d.paths : e.paths[x] = d.paths[x]
    BY <1>5 DEF Partial
  <2>2. IsMap(e.paths) /\ IsMap(d.paths)
    BY DEF Partial, Tree
  <2> QED
    BY <2>1, <2>2 DEF IsMap
<1> QED
  BY <1>3, <1>4, <1>6 DEF SameNodes

\* What load_nodes reads is a part of the tree the files explain
\* (database.cpp:2504-2724).
LEMMA LoadedPartial ==
    ASSUME NEW d, Tree(d), IsDb(Loaded), NEW J, NEW G, Good(d, pages, tmps, J, G)
    PROVE  Partial(Loaded, d) /\ Progress(Loaded, d, J, 0)
<1>1. /\ Linked(d) /\ PagesHold(d, pages) /\ TmpsHold(d, tmps) /\ JournalHolds(d, J)
      /\ Recorded(d, pages, J)
  BY DEF Good, Explained
<1>2. ASSUME NEW n \in DiskNodes PROVE \E i \in DOMAIN d.rows : n = <<i, d.rows[i].path>>
  <2>1. \/ \E q \in DOMAIN pages : \E i \in DOMAIN pages[q] : n = <<i, pages[q][i].path>>
        \/ \E q \in DOMAIN tmps : \E i \in DOMAIN tmps[q] : n = <<i, tmps[q][i].path>>
    BY NodesOnDisk
  <2>2. CASE \E q \in DOMAIN pages : \E i \in DOMAIN pages[q] : n = <<i, pages[q][i].path>>
    <3>1. PICK q \in DOMAIN pages : \E i \in DOMAIN pages[q] : n = <<i, pages[q][i].path>>
      BY <2>2
    <3>2. PICK i \in DOMAIN pages[q] : n = <<i, pages[q][i].path>>
      BY <3>1
    <3>3. /\ i \in DOMAIN d.rows
          /\ pages[q][i] = d.rows[i] \/ pages[q][i] = Leaf(d.rows[i].path)
      BY <1>1, <3>1, <3>2 DEF PagesHold
    <3>4. pages[q][i].path = d.rows[i].path
      BY <3>3 DEF Leaf
    <3> QED
      BY <3>2, <3>3, <3>4
  <2>3. CASE \E q \in DOMAIN tmps : \E i \in DOMAIN tmps[q] : n = <<i, tmps[q][i].path>>
    <3>1. PICK q \in DOMAIN tmps : \E i \in DOMAIN tmps[q] : n = <<i, tmps[q][i].path>>
      BY <2>3
    <3>2. PICK i \in DOMAIN tmps[q] : n = <<i, tmps[q][i].path>>
      BY <3>1
    <3>3. i \in DOMAIN d.rows /\ tmps[q][i].path = d.rows[i].path
      BY <1>1, <3>1, <3>2 DEF TmpsHold
    <3> QED
      BY <3>2, <3>3
  <2> QED
    BY <2>1, <2>2, <2>3
<1>3. PICK e : e = Loaded
  OBVIOUS
<1>4. /\ e.ids = {n[1] : n \in DiskNodes} /\ e.rows = DiskRows
      /\ e.paths = [p \in {n[2] : n \in DiskNodes} |-> (CHOOSE n \in DiskNodes : n[2] = p)[1]]
  BY <1>3, LoadedFields
<1>5. \A i \in e.ids : i \in DOMAIN d.rows
  <2> SUFFICES ASSUME NEW n \in DiskNodes PROVE n[1] \in DOMAIN d.rows
    BY <1>4
  <2>1. PICK i \in DOMAIN d.rows : n = <<i, d.rows[i].path>>
    BY <1>2
  <2> QED
    BY <2>1, NodeParts
<1>6. /\ \A i : i \in DOMAIN e.rows <=> Held(pages, i)
      /\ \A i \in DOMAIN e.rows : e.rows[i] = pages[PageOf(i)][i]
  <2>1. \A i : i \in DOMAIN DiskRows <=> \E q \in DOMAIN pages : i \in DOMAIN pages[q]
    BY DEF DiskRows
  <2>2. \A q \in DOMAIN pages : \A i \in DOMAIN pages[q] : PageOf(i) = q
    BY <1>1 DEF PagesHold
  <2>3. \A i \in DOMAIN DiskRows : DiskRows[i] = pages[PageOf(i)][i]
    BY DEF DiskRows
  <2> QED
    BY <1>4, <2>1, <2>2, <2>3 DEF Held
<1>7. IsMap(e.rows) /\ IsMap(e.paths)
  BY <1>4 DEF IsMap, DiskRows
<1>8. ASSUME NEW x \in DOMAIN e.paths PROVE x \in DOMAIN d.paths /\ e.paths[x] = d.paths[x]
  <2>1. x \in {n[2] : n \in DiskNodes} /\ e.paths[x] = (CHOOSE n \in DiskNodes : n[2] = x)[1]
    BY <1>4
  <2> DEFINE c == CHOOSE n \in DiskNodes : n[2] = x
  <2>2. c \in DiskNodes /\ c[2] = x
    BY <2>1
  <2>3. e.paths[x] = c[1]
    BY <2>1
  <2> HIDE DEF c
  <2>4. PICK i \in DOMAIN d.rows : c = <<i, d.rows[i].path>>
    BY <1>2, <2>2
  <2>5. c[1] = i /\ d.rows[i].path = x
    BY <2>2, <2>4, NodeParts
  <2>6. Known(d, x) /\ d.paths[x] = i
    BY <2>4, <2>5 DEF Tree
  <2> QED
    BY <2>3, <2>5, <2>6 DEF Known
<1>9. ASSUME NEW i \in DOMAIN e.rows
      PROVE  /\ i \in e.ids
             /\ e.rows[i] = d.rows[i] \/ e.rows[i] = Leaf(d.rows[i].path)
             /\ Known(e, d.rows[i].path)
  <2>1. PICK q : q = PageOf(i)
    OBVIOUS
  <2>2. q \in DOMAIN pages /\ i \in DOMAIN pages[q] /\ e.rows[i] = pages[q][i]
    BY <1>6, <2>1 DEF Held
  <2>3. e.rows[i] = d.rows[i] \/ e.rows[i] = Leaf(d.rows[i].path)
    BY <1>1, <2>2 DEF PagesHold
  <2>4. e.rows[i].path = d.rows[i].path
    BY <2>3 DEF Leaf
  <2>5. <<i, d.rows[i].path>> \in DiskNodes
    BY <2>2, <2>4, NodesOnDisk
  <2>6. i \in e.ids /\ d.rows[i].path \in DOMAIN e.paths
    BY <1>4, <2>5, NodeParts
  <2> QED
    BY <2>3, <2>6 DEF Known
<1>10. 0 \in DOMAIN e.rows
  BY <1>1, <1>6 DEF PagesHold
<1>11. Partial(e, d)
  BY <1>3, <1>5, <1>7, <1>8, <1>9, <1>10 DEF Partial
<1>12. Progress(e, d, J, 0)
  <2> SUFFICES ASSUME NEW i \in DOMAIN d.rows, d.rows[i].left # 0
               PROVE  Complete(e, d, i) \/ ToCome(J, 0, i)
    BY DEF Progress
  <2>1. CASE Done(d, pages, i)
    BY <1>6, <2>1 DEF Done, Complete
  <2>2. CASE Journaled(J, i)
    <3>1. PICK k \in 1..Len(J) : EntryOf(J[k], i)
      BY <2>2 DEF Journaled
    <3>2. k > 0
      BY <1>1, SeqShape DEF JournalHolds
    <3> QED
      BY <3>1, <3>2 DEF ToCome
  <2> QED
    BY <1>1, <2>1, <2>2 DEF Recorded
<1> QED
  BY <1>3, <1>11, <1>12

\* The points of the replay (database.cpp:3491-3591).
LEMMA ReplayPoints ==
    ASSUME NEW d, IsDb(Loaded), NEW G, Good(d, pages, tmps, journal, G)
    PROVE  \E after : /\ Replayed(journal) = after[Len(journal)] /\ after[0] = Loaded
                      /\ \A k \in 1..Len(journal) : after[k] = ReplayStep(after[k - 1], journal[k])
                      /\ \A k \in 0..Len(journal) : Partial(after[k], d)
                                                   /\ Progress(after[k], d, journal, k)
<1>1. Tree(d) /\ Linked(d) /\ JournalHolds(d, journal) /\ IsSeq(journal)
  BY DEF Good, Explained, JournalHolds
<1>2. Len(journal) \in Nat
  BY <1>1, SeqShape
<1>3. PICK after : /\ Replayed(journal) = after[Len(journal)] /\ after[0] = Loaded
                   /\ \A k \in 1..Len(journal) : after[k] = ReplayStep(after[k - 1], journal[k])
  BY <1>1, ReplayUnfolds
<1> DEFINE S == {k \in 0..Len(journal) : Partial(after[k], d) /\ Progress(after[k], d, journal, k)}
<1>4. 0 \in S
  BY <1>1, <1>2, <1>3, LoadedPartial
<1>5. \A k \in 1..Len(journal) : k - 1 \in S => k \in S
  <2> SUFFICES ASSUME NEW k \in 1..Len(journal), k - 1 \in S PROVE k \in S
    OBVIOUS
  <2>1. PICK b : b = after[k - 1]
    OBVIOUS
  <2>2. PICK e : e = after[k]
    OBVIOUS
  <2>3. Partial(b, d) /\ Progress(b, d, journal, k - 1) /\ e = ReplayStep(b, journal[k])
    BY <1>3, <2>1, <2>2
  <2>4. Partial(e, d) /\ Progress(e, d, journal, k)
    <3>1. CASE journal[k].type = "split"
      BY <1>1, <2>3, <3>1, ReplaySplit
    <3>2. CASE journal[k].type # "split"
      BY <2>3, <3>2, ReplayOther
    <3> QED
      BY <3>1, <3>2
  <2>5. k \in 0..Len(journal)
    BY <1>2
  <2> QED
    BY <2>2, <2>4, <2>5
<1> HIDE DEF S
<1>6. \A k \in 0..Len(journal) : k \in S
  BY <1>2, <1>4, <1>5, UpTo
<1>7. \A k \in 0..Len(journal) : Partial(after[k], d) /\ Progress(after[k], d, journal, k)
  BY <1>6 DEF S
<1> QED
  BY <1>3, <1>7

\* What open rebuilds from files that explain a tree is that tree
\* (database.cpp:1101-1188, 3491-3591).
LEMMA ReplayedTree ==
    ASSUME NEW d, IsDb(Loaded), NEW G, Good(d, pages, tmps, journal, G)
    PROVE  SameNodes(d, Replayed(journal))
<1>1. Tree(d) /\ Linked(d)
  BY DEF Good
<1>2. Len(journal) \in Nat
  BY SeqShape DEF Good, Explained, JournalHolds
<1>3. PICK after : /\ Replayed(journal) = after[Len(journal)] /\ after[0] = Loaded
                   /\ \A k \in 1..Len(journal) : after[k] = ReplayStep(after[k - 1], journal[k])
                   /\ \A k \in 0..Len(journal) : Partial(after[k], d) /\ Progress(after[k], d, journal, k)
  BY ReplayPoints
<1>8. PICK e : e = Replayed(journal)
  OBVIOUS
<1>9. Partial(e, d) /\ Progress(e, d, journal, Len(journal))
  BY <1>2, <1>3, <1>8
<1>10. \A i \in DOMAIN d.rows : d.rows[i].left # 0 => Complete(e, d, i)
  <2>1. \A i : ~ToCome(journal, Len(journal), i)
    BY <1>2 DEF ToCome
  <2> QED
    BY <1>9, <2>1 DEF Progress
<1> QED
  BY <1>1, <1>8, <1>9, <1>10, PartialWhole

-----------------------------------------------------------------------------
(* What a call has still to append to the journal.                         *)
IsAppend(c) == c.file = "journal" /\ c.act = "append"
IsOther(c) == c.act # "append" /\ (c.file = "page" => c.act \in {"remove", "rename"})
Appends(s, m) ==
    /\ m \in 0..Len(s)
    /\ \A k \in 1..Len(s) : IF k <= m THEN IsAppend(s[k]) ELSE IsOther(s[k])
Contents(s) == [j \in 1..Len(s) |-> s[j].content]
NoAppend(s) == IsSeq(s) /\ \A c \in Range(s) : IsOther(c)

\* A log may go to the journal entry by entry: the files explain a tree at each
\* point, and object d's at the last.
LogStaged(log, d, P, T, J, G) ==
    /\ IsSeq(log)
    /\ \A k \in 0..Len(log) : \E e : Good(e, P, T, With(J, log, k), G)
    /\ Good(d, P, T, With(J, log, Len(log)), G)

\* So may what is appended by the changes s, which come before all others.
Staged(s, d, P, T, J, G) ==
    \E m \in 0..Len(s) :
        /\ Appends(s, m)
        /\ \A k \in 0..m : \E e : Good(e, P, T, With(J, Contents(s), k), G)
        /\ Good(d, P, T, With(J, Contents(s), m), G)

\* A log and the changes that write it to the journal.
LEMMA LogDue ==
    ASSUME NEW log, NEW d, NEW P, NEW T, NEW J, NEW G, IsSeq(J), LogStaged(log, d, P, T, J, G),
           NEW rest, NoAppend(rest)
    PROVE  Staged(JournalWrites(log) \o rest, d, P, T, J, G)
<1>1. PICK w : w = JournalWrites(log)
  OBVIOUS
<1>2. PICK s : s = w \o rest
  OBVIOUS
<1>3. PICK m \in Nat : m = Len(log)
  BY SeqShape DEF LogStaged
<1>4. IsSeq(w) /\ Len(w) = m /\ \A k \in 1..m : IsAppend(w[k]) /\ w[k].content = log[k]
  <2>1. DOMAIN log = 1..m
    BY <1>3, SeqShape DEF LogStaged
  <2>2. w = [k \in 1..m |-> Change("journal", "append", 0, log[k])]
    BY <1>1, <2>1 DEF JournalWrites
  <2>3. w = [k \in 1..m |-> w[k]] /\ \A k \in 1..m : IsAppend(w[k]) /\ w[k].content = log[k]
    BY <2>2 DEF Change, IsAppend
  <2> QED
    BY <2>3, SeqFunction
<1>5. IsSeq(rest) /\ Len(rest) \in Nat /\ \A k \in 1..Len(rest) : IsOther(rest[k])
  BY SeqShape DEF NoAppend
<1>6. PICK n \in Nat : n = Len(rest)
  BY <1>5
<1>7. /\ IsSeq(s) /\ Len(s) = m + n
      /\ \A i \in 1..m : s[i] = w[i]
      /\ \A i \in 1..n : s[m + i] = rest[i]
  <2>1. IsSeq(w) /\ IsSeq(rest)
    BY <1>4, <1>5
  <2>2. /\ IsSeq(s) /\ Len(s) = Len(w) + Len(rest)
        /\ \A i \in 1..Len(w) : s[i] = w[i]
        /\ \A i \in 1..Len(rest) : s[Len(w) + i] = rest[i]
    BY <1>2, <2>1, SeqConcat
  <2> QED
    BY <1>4, <1>6, <2>2
<1>8. Appends(s, m)
  <2>1. ASSUME NEW k \in 1..(m + n)
        PROVE  IF k <= m THEN IsAppend(s[k]) ELSE IsOther(s[k])
    <3>1. CASE k <= m
      BY <1>4, <1>7, <3>1
    <3>2. CASE ~(k <= m)
      <4>1. k - m \in 1..n /\ m + (k - m) = k
        BY <3>2
      <4>2. s[k] = rest[k - m]
        BY <1>7, <4>1
      <4> QED
        BY <1>5, <1>6, <3>2, <4>1, <4>2
    <3> QED
      BY <3>1, <3>2
  <2>2. m \in 0..(m + n)
    OBVIOUS
  <2> QED
    BY <1>7, <2>1, <2>2 DEF Appends
<1>9. ASSUME NEW k \in 0..m PROVE With(J, Contents(s), k) = With(J, log, k)
  <2>1. \A j \in 1..k : Contents(s)[j] = log[j]
    BY <1>4, <1>7 DEF Contents
  <2>2. PICK c : c = Contents(s)
    OBVIOUS
  <2>3. k \in Nat /\ \A j \in 1..k : c[j] = log[j]
    BY <2>1, <2>2
  <2> QED
    BY <2>2, <2>3, WithSame
<1>10. \A k \in 0..m : \E e : Good(e, P, T, With(J, Contents(s), k), G)
  BY <1>3, <1>9 DEF LogStaged
<1>11. Good(d, P, T, With(J, Contents(s), m), G)
  BY <1>3, <1>9 DEF LogStaged
<1>12. m \in 0..Len(s)
  BY <1>7
<1> QED
  BY <1>1, <1>2, <1>8, <1>10, <1>11, <1>12 DEF Staged

\* When nothing is left to append, the files explain the object itself.
LEMMA NothingDue ==
    ASSUME NEW s, NEW d, NEW P, NEW T, NEW J, NEW G, IsSeq(s)
    PROVE  /\ Appends(s, 0) /\ Good(d, P, T, J, G) => Staged(s, d, P, T, J, G)
           /\ Staged(s, d, P, T, J, G) /\ IsSeq(J) /\ (s = <<>> \/ Head(s).act # "append")
                => Appends(s, 0) /\ Good(d, P, T, J, G)
           /\ s # <<>> /\ Appends(s, 0) => Appends(Tail(s), 0)
<1>0. Len(s) \in Nat
  BY SeqShape
<1>1. ASSUME Appends(s, 0), Good(d, P, T, J, G) PROVE Staged(s, d, P, T, J, G)
  <2>1. IsSeq(J)
    BY <1>1 DEF Good, Explained, JournalHolds
  <2>2. With(J, Contents(s), 0) = J
    BY <2>1, WithEntries
  <2>3. 0 \in 0..Len(s) /\ \A k \in 0..0 : k = 0
    BY <1>0
  <2> QED
    BY <1>1, <2>2, <2>3 DEF Staged
<1>2. ASSUME Staged(s, d, P, T, J, G), IsSeq(J), s = <<>> \/ Head(s).act # "append"
      PROVE  Appends(s, 0) /\ Good(d, P, T, J, G)
  <2>1. PICK m \in 0..Len(s) : Appends(s, m) /\ Good(d, P, T, With(J, Contents(s), m), G)
    BY <1>2 DEF Staged
  <2>2. m = 0
    <3>1. CASE s = <<>>
      <4>1. Len(s) = 0
        BY <3>1, SeqEmpty
      <4> QED
        BY <2>1, <4>1
    <3>2. CASE s # <<>>
      <4>1. Head(s) = s[1] /\ Len(s) \in Nat \ {0}
        BY <3>2, SeqTail
      <4> QED
        BY <1>2, <2>1, <3>2, <4>1 DEF Appends, IsAppend
    <3> QED
      BY <3>1, <3>2
  <2>3. With(J, Contents(s), 0) = J
    BY <1>2, WithEntries
  <2> QED
    BY <2>1, <2>2, <2>3
<1>3. ASSUME s # <<>>, Appends(s, 0) PROVE Appends(Tail(s), 0)
  <2>1. PICK n \in Nat \ {0} : n = Len(s)
    BY <1>3, SeqTail
  <2>2. PICK t : t = Tail(s)
    OBVIOUS
  <2>3. Len(t) = n - 1 /\ \A k \in 1..(n - 1) : t[k] = s[k + 1]
    BY <1>3, <2>1, <2>2, SeqTail
  <2>4. \A k \in 1..(n - 1) : k + 1 \in 1..n /\ ~(k + 1 <= 0) /\ ~(k <= 0)
    BY <2>1
  <2>5. \A k \in 1..n : ~(k <= 0) => IsOther(s[k])
    BY <1>3, <2>1 DEF Appends
  <2>6. \A k \in 1..(n - 1) : IsOther(t[k])
    <3> SUFFICES ASSUME NEW k \in 1..(n - 1) PROVE IsOther(t[k])
      OBVIOUS
    <3>1. k + 1 \in 1..n /\ ~(k + 1 <= 0) /\ t[k] = s[k + 1]
      BY <2>3, <2>4
    <3> QED
      BY <2>5, <3>1
  <2>7. 0 \in 0..(n - 1)
    BY <2>1
  <2> QED
    BY <2>2, <2>3, <2>4, <2>6, <2>7 DEF Appends
<1> QED
  BY <1>1, <1>2, <1>3

\* Appending the first entry leaves the others to append (database.cpp:3491-3511).
LEMMA EntryAppended ==
    ASSUME NEW s, NEW d, NEW P, NEW T, NEW J, NEW G, IsSeq(s), IsSeq(J), s # <<>>,
           Head(s).act = "append", Staged(s, d, P, T, J, G), NEW x, x = Head(s).content
    PROVE  Staged(Tail(s), d, P, T, Append(J, x), G)
<1>1. PICK n \in Nat \ {0} : n = Len(s)
  BY SeqTail
<1>2. PICK t : t = Tail(s)
  OBVIOUS
<1>3. Head(s) = s[1] /\ IsSeq(t) /\ Len(t) = n - 1 /\ \A k \in 1..(n - 1) : t[k] = s[k + 1]
  BY <1>1, <1>2, SeqTail
<1>4. PICK m \in 0..Len(s) :
        /\ Appends(s, m)
        /\ \A k \in 0..m : \E e : Good(e, P, T, With(J, Contents(s), k), G)
        /\ Good(d, P, T, With(J, Contents(s), m), G)
  BY DEF Staged
<1>5. m \in 1..n
  <2>1. 1 \in 1..Len(s) /\ (1 <= m \/ m = 0)
    BY <1>1
  <2> QED
    BY <1>1, <1>3, <1>4, <2>1 DEF Appends, IsOther
<1>6. PICK l \in Nat : l = m - 1
  BY <1>5
<1>7. l \in 0..(n - 1) /\ m = l + 1
  BY <1>5, <1>6
<1>8. Appends(t, l)
  <2>1. ASSUME NEW k \in 1..(n - 1)
        PROVE  IF k <= l THEN IsAppend(t[k]) ELSE IsOther(t[k])
    <3>1. k + 1 \in 1..n /\ t[k] = s[k + 1] /\ (k + 1 <= m <=> k <= l)
      BY <1>3, <1>7
    <3>2. IF k + 1 <= m THEN IsAppend(s[k + 1]) ELSE IsOther(s[k + 1])
      BY <1>1, <1>4, <3>1 DEF Appends
    <3> QED
      BY <3>1, <3>2
  <2> QED
    BY <1>3, <1>7, <2>1 DEF Appends
<1>9. PICK c : c = Contents(s)
  OBVIOUS
<1>10. PICK e : e = Contents(t)
  OBVIOUS
<1>11. x = c[1] /\ \A j \in 1..(n - 1) : e[j] = c[j + 1]
  <2>1. \A j \in 1..n : c[j] = s[j].content
    BY <1>1, <1>9 DEF Contents
  <2>2. \A j \in 1..(n - 1) : e[j] = t[j].content /\ j + 1 \in 1..n
    BY <1>1, <1>3, <1>10 DEF Contents
  <2> QED
    BY <1>1, <1>3, <2>1, <2>2
<1>12. ASSUME NEW k \in 0..l PROVE With(Append(J, x), e, k) = With(J, c, k + 1) /\ k + 1 \in 0..m
  <2>1. k \in Nat /\ k + 1 \in 0..m /\ \A j \in 1..k : e[j] = c[j + 1]
    BY <1>1, <1>7, <1>11
  <2>2. Follows(e, c, x, k)
    BY <1>11, <2>1 DEF Follows
  <2> QED
    BY <2>1, <2>2, WithShift
<1>13. PICK K : K = Append(J, x)
  OBVIOUS
<1>14. ASSUME NEW k \in 0..l PROVE \E f : Good(f, P, T, With(K, e, k), G)
  <2>1. With(K, e, k) = With(J, c, k + 1) /\ k + 1 \in 0..m
    BY <1>12, <1>13
  <2> QED
    BY <1>4, <1>9, <2>1
<1>15. Good(d, P, T, With(K, e, l), G)
  <2>1. With(K, e, l) = With(J, c, l + 1)
    BY <1>6, <1>12, <1>13
  <2> QED
    BY <1>4, <1>7, <1>9, <2>1
<1>16. l \in 0..Len(t)
  BY <1>3, <1>7
<1> QED
  BY <1>2, <1>8, <1>10, <1>13, <1>14, <1>15, <1>16 DEF Staged
\* The first of them is an append, or none of them is.
LEMMA HeadShaped ==
    ASSUME NEW s, NEW d, NEW P, NEW T, NEW J, NEW G, IsSeq(s), s # <<>>, Staged(s, d, P, T, J, G)
    PROVE  IsAppend(Head(s)) \/ IsOther(Head(s))
<1>1. Head(s) = s[1] /\ 1 \in 1..Len(s)
  BY SeqTail
<1> QED
  BY <1>1 DEF Staged, Appends

Standing(P) ==
    \/ P = pages
    \/ /\ todo # <<>> /\ IsRename(Head(todo), "page")
       /\ P = Put(pages, Head(todo).key, Head(todo).content)

\* What the files are when nothing has been done that recovery is not sure to
\* survive.
Recoverable ==
    IF status = "open"
    THEN /\ db.bulk = FALSE
         /\ manifest \/ (todo # <<>> /\ IsRename(Head(todo), "manifest"))
         /\ \E P : Standing(P) /\ Staged(todo, db, P, tmps, journal, grown)
    ELSE manifest /\ \E d : Good(d, pages, tmps, journal, grown)

RecoveryInv == "unjournaled" \notin risks => Recoverable

\* Between calls the files explain the object itself.
LEMMA CallStart ==
    ASSUME DurabilityInv, TypeInv, Recoverable, status = "open", todo = <<>>
    PROVE  /\ manifest /\ IsDb(db) /\ db.log = <<>> /\ db.bulk = FALSE /\ IsSeq(journal)
           /\ Good(db, pages, tmps, journal, grown)
           /\ Stages(db, pages, tmps, journal, grown)
<1>1. IsDb(db) /\ db.log = <<>> /\ IsSeq(journal)
  BY DEF DurabilityInv, TypeInv, TypedBy
<1>2. manifest /\ db.bulk = FALSE
  BY DEF Recoverable
<1>3. Staged(todo, db, pages, tmps, journal, grown)
  BY DEF Recoverable, Standing
<1>4. PICK s : s = todo
  OBVIOUS
<1>5. IsSeq(s) /\ s = <<>> /\ Staged(s, db, pages, tmps, journal, grown)
  BY <1>3, <1>4, SeqEmpty
<1>6. Good(db, pages, tmps, journal, grown)
  BY <1>1, <1>5, NothingDue
<1>7. Stages(db, pages, tmps, journal, grown)
  BY <1>1, <1>2, <1>6, StagesStart
<1> QED
  BY <1>1, <1>2, <1>6, <1>7

\* The stages of a log are those of any object with the same nodes.
LEMMA LogSame ==
    ASSUME NEW log, NEW d, NEW e, NEW P, NEW T, NEW J, NEW G,
           LogStaged(log, d, P, T, J, G), SameNodes(d, e)
    PROVE  LogStaged(log, e, P, T, J, G)
<1>1. PICK K : K = With(J, log, Len(log))
  OBVIOUS
<1>2. Good(d, P, T, K, G)
  BY <1>1 DEF LogStaged
<1>3. Good(e, P, T, K, G)
  BY <1>2, GoodSame
<1> QED
  BY <1>1, <1>3 DEF LogStaged

\* A call whose log may go to the journal before anything else is changed.
LEMMA CallRecovers ==
    ASSUME NEW log, NEW d, NEW rest, LogStaged(log, d, pages, tmps, journal, grown),
           SameNodes(d, db'), db'.bulk = FALSE, manifest, IsSeq(journal),
           UNCHANGED files, grown' = grown, status' = "open", NoAppend(rest),
           todo' = JournalWrites(log) \o rest
    PROVE  Recoverable'
<1>1. PICK e : e = db'
  OBVIOUS
<1>2. LogStaged(log, e, pages, tmps, journal, grown)
  BY <1>1, LogSame
<1>3. Staged(JournalWrites(log) \o rest, e, pages, tmps, journal, grown)
  BY <1>2, LogDue
<1>4. Staged(todo', db', pages', tmps', journal', grown')
  BY <1>1, <1>3 DEF files
<1>5. Standing(pages)'
  BY DEF Standing
<1>6. manifest'
  BY DEF files
<1> QED
  BY <1>4, <1>5, <1>6 DEF Recoverable

\* Nothing to append.
LEMMA NoAppends ==
    ASSUME NEW s, NoAppend(s)
    PROVE  IsSeq(s) /\ Appends(s, 0)
<1>1. IsSeq(s) /\ \A c \in Range(s) : IsOther(c)
  BY DEF NoAppend
<1>2. Len(s) \in Nat /\ \A k \in 1..Len(s) : s[k] \in Range(s) /\ ~(k <= 0)
  BY <1>1, SeqShape
<1>3. 0 \in 0..Len(s)
  BY <1>2
<1> QED
  BY <1>1, <1>2, <1>3 DEF Appends

\* A call that journals nothing and changes no node.
LEMMA QuietRecovers ==
    ASSUME DurabilityInv, TypeInv, Recoverable, status = "open", todo = <<>>,
           SameNodes(db, db'), db'.bulk = FALSE, UNCHANGED files, grown' = grown, status' = "open",
           NoAppend(todo')
    PROVE  Recoverable'
<1>1. manifest /\ Good(db, pages, tmps, journal, grown)
  BY CallStart
<1>2. PICK e : e = db'
  OBVIOUS
<1>3. PICK s : s = todo'
  OBVIOUS
<1>4. Good(e, pages, tmps, journal, grown)
  BY <1>1, <1>2, GoodSame
<1>5. IsSeq(s) /\ Appends(s, 0)
  BY <1>3, NoAppends
<1>6. Staged(s, e, pages, tmps, journal, grown)
  BY <1>4, <1>5, NothingDue
<1>7. Staged(todo', db', pages', tmps', journal', grown')
  BY <1>2, <1>3, <1>6 DEF files
<1>8. Standing(pages)' /\ manifest'
  BY <1>1 DEF Standing, files
<1> QED
  BY <1>7, <1>8 DEF Recoverable

\* Concatenation is associative.
LEMMA ConcatSteps ==
    ASSUME NEW s, IsSeq(s), NEW t, IsSeq(t), NEW u, IsSeq(u)
    PROVE  (s \o t) \o u = s \o (t \o u)
<1>1. PICK S : S = Range(s) \cup Range(t) \cup Range(u)
  OBVIOUS
<1>2. s \in Seq(S) /\ t \in Seq(S) /\ u \in Seq(S)
  BY <1>1, SeqWider
<1> QED
  BY <1>2, ConcatAssociative

\* What calls queue beside the transactions appends nothing.
LEMMA NoAppendConcat ==
    ASSUME NEW s, NEW t, NoAppend(s), NoAppend(t)
    PROVE  NoAppend(s \o t)
<1>1. IsSeq(s) /\ IsSeq(t)
  BY DEF NoAppend
<1>2. IsSeq(s \o t) /\ Range(s \o t) = Range(s) \cup Range(t)
  BY <1>1, SeqConcat
<1> QED
  BY <1>2 DEF NoAppend

\* Replacing a file.
LEMMA NoAppendReplace ==
    ASSUME NEW f, NEW k, NEW c
    PROVE  NoAppend(Replace(f, k, c))
<1> DEFINE x == Change(f, "remove", k, c)
           y == Change(f, "rename", k, c)
<1>1. IsOther(x) /\ IsOther(y)
  BY DEF Change, IsOther
<1> HIDE DEF x, y
<1>2. NoAppend(<<x, y>>)
  BY <1>1, SeqPair DEF NoAppend
<1> QED
  BY <1>2 DEF Replace, x, y

\* The pieces of todo that are not transactions.
LEMMA NoAppendPieces ==
    /\ NoAppend(<<>>) /\ NoAppend(ManifestWrites) /\ NoAppend(FlushStore) /\ NoAppend(TruncateJournal)
    /\ \A d : NoAppend(ReturnNodes(d)) /\ NoAppend(SidecarWrites(d))
    /\ \A p, v : NoAppend(ReturnValue(p, v))
    /\ \A d, order : IsSeq(order) => NoAppend(PageWrites(d, order))
<1>1. NoAppend(<<>>)
  BY SeqEmpty DEF NoAppend
<1>2. ASSUME NEW x, x.act # "append", x.file # "page" PROVE NoAppend(<<x>>)
  BY <1>2, SeqSingle DEF NoAppend, IsOther
<1>3. NoAppend(FlushStore) /\ NoAppend(TruncateJournal)
  BY <1>2 DEF FlushStore, TruncateJournal, Change
<1>4. \A f, k, c : NoAppend(Replace(f, k, c))
  BY NoAppendReplace
<1>5. NoAppend(ManifestWrites)
  BY <1>4 DEF ManifestWrites
<1>6. ASSUME NEW d PROVE NoAppend(ReturnNodes(d)) /\ NoAppend(SidecarWrites(d))
  <2>1. NoAppend(SidecarWrites(d))
    BY <1>1, <1>4 DEF SidecarWrites
  <2>2. PICK c : c = {d.rows[i].path : i \in DOMAIN d.rows}
    OBVIOUS
  <2>3. NoAppend(<<Change("return", "nodes", 0, c)>>)
    BY <1>2 DEF Change
  <2> QED
    BY <2>1, <2>2, <2>3 DEF ReturnNodes
<1>7. ASSUME NEW p, NEW v PROVE NoAppend(ReturnValue(p, v))
  BY <1>2 DEF ReturnValue, Change
<1>8. ASSUME NEW d, NEW order, IsSeq(order) PROVE NoAppend(PageWrites(d, order))
  <2>1. PICK s : s = PageWrites(d, order)
    OBVIOUS
  <2>2. Len(order) \in Nat
    BY <1>8, SeqShape
  <2>3. PICK n \in Nat : n = 2 * Len(order)
    BY <2>2
  <2>4. s = [k \in 1..n |-> s[k]] /\ \A k \in 1..n : IsOther(s[k])
    BY <2>1, <2>3 DEF PageWrites, Change, IsOther
  <2>5. IsSeq(s) /\ Range(s) = {s[k] : k \in 1..n}
    BY <2>4, SeqFunction
  <2> QED
    BY <2>1, <2>4, <2>5 DEF NoAppend
<1> QED
  BY <1>1, <1>3, <1>5, <1>6, <1>7, <1>8

\* Nor do the pieces made of them.
LEMMA NoAppendComposed ==
    ASSUME NEW d
    PROVE  /\ NoAppend(SaveEvidence(d)) /\ NoAppend(Trim(d))
           /\ \A order : IsSeq(order) => NoAppend(MaybeFlush(d, order))
<1>1. NoAppend(SaveEvidence(d))
  BY NoAppendPieces, NoAppendConcat DEF SaveEvidence
<1>2. NoAppend(Trim(d))
  BY <1>1, NoAppendPieces DEF Trim
<1>3. ASSUME NEW order, IsSeq(order) PROVE NoAppend(MaybeFlush(d, order))
  <2>1. NoAppend(PageWrites(d, order)) /\ NoAppend(ManifestWrites) /\ NoAppend(<<>>)
    BY <1>3, NoAppendPieces
  <2>2. NoAppend(SaveEvidence(d) \o PageWrites(d, order))
    BY <1>1, <2>1, NoAppendConcat
  <2>3. NoAppend(SaveEvidence(d) \o PageWrites(d, order) \o ManifestWrites)
    BY <2>1, <2>2, NoAppendConcat
  <2> QED
    BY <2>1, <2>3 DEF MaybeFlush
<1> QED
  BY <1>1, <1>2, <1>3

-----------------------------------------------------------------------------
(* Every call can be recovered from.                                       *)

\* The stages of the transactions an object holds.
LEMMA StagesLog ==
    ASSUME NEW d, NEW P, NEW T, NEW J, NEW G, Stages(d, P, T, J, G)
    PROVE  LogStaged(d.log, d, P, T, J, G) /\ IsDb(d) /\ d.bulk = FALSE
BY DEF Stages, LogStaged, IsDb

\* split_leaf can be recovered from whatever stops it.
LEMMA SplitLeafRecovers ==
    ASSUME DurabilityInv, TypeInv, Recoverable, NEW p \in Paths, SplitLeaf(p)
    PROVE  Recoverable'
<1> DEFINE d == SplitStep(db, p)
<1>1. /\ UNCHANGED files /\ status = "open" /\ status' = "open" /\ todo = <<>> /\ grown' = grown
      /\ db' = [d EXCEPT !.log = <<>>]
      /\ todo' = JournalWrites(d.log) \o ReturnNodes(d)
  BY DEF SplitLeaf, Ready
<1>2. manifest /\ IsSeq(journal) /\ Stages(db, pages, tmps, journal, grown)
  BY <1>1, CallStart
<1>3. Stages(d, pages, tmps, journal, grown)
  BY <1>2, StagesSplit
<1> HIDE DEF d
<1>4. LogStaged(d.log, d, pages, tmps, journal, grown) /\ IsDb(d) /\ d.bulk = FALSE
  BY <1>3, StagesLog
<1>5. SameNumbers(d, db') /\ db'.bulk = d.bulk
  BY <1>1, <1>4, HandedOver
<1>6. SameNodes(d, db') /\ db'.bulk = FALSE
  BY <1>4, <1>5 DEF SameNumbers
<1>7. PICK log : log = d.log
  OBVIOUS
<1>8. PICK rest : rest = ReturnNodes(d)
  OBVIOUS
<1>9. /\ NoAppend(rest) /\ todo' = JournalWrites(log) \o rest
      /\ LogStaged(log, d, pages, tmps, journal, grown)
  BY <1>1, <1>4, <1>7, <1>8, NoAppendPieces
<1> QED
  BY <1>1, <1>2, <1>6, <1>9, CallRecovers

\* So can split_to_box, flushing or not.
LEMMA SplitToBoxRecovers ==
    ASSUME DurabilityInv, TypeInv, Recoverable, NEW p \in Paths, NEW exact \in BOOLEAN,
           SplitToBox(p, exact)
    PROVE  Recoverable'
<1> DEFINE d == SplitAlong(db, p)
           flush == exact /\ \A k \in 0..(Len(p) - 1) : HasRow(d, SubSeq(p, 1, k))
<1>1. PICK order \in Orders(IF flush THEN d.dirty ELSE {}) :
            /\ db' = [IF flush THEN PagesSaved(d) ELSE d EXCEPT !.log = <<>>]
            /\ todo' = JournalWrites(d.log)
                     \o (IF flush THEN PageWrites(d, order) \o ManifestWrites ELSE <<>>)
                     \o ReturnNodes(d)
  BY Zenon DEF SplitToBox
<1>2. UNCHANGED files /\ status = "open" /\ status' = "open" /\ todo = <<>> /\ grown' = grown
  BY DEF SplitToBox, Ready
<1>3. manifest /\ IsSeq(journal) /\ Stages(db, pages, tmps, journal, grown)
  BY <1>2, CallStart
<1>4. Stages(d, pages, tmps, journal, grown)
  BY <1>3, StagesAlong
<1> HIDE DEF d, flush
<1>5. LogStaged(d.log, d, pages, tmps, journal, grown) /\ IsDb(d) /\ d.bulk = FALSE
  BY <1>4, StagesLog
<1>6. PICK f : f = IF flush THEN PagesSaved(d) ELSE d
  OBVIOUS
<1>7. IsDb(f) /\ SameNumbers(d, f) /\ f.bulk = d.bulk
  BY <1>5, <1>6, StillFlush DEF SameStore, Still, SameNumbers, SameNodes
<1>8. db' = [f EXCEPT !.log = <<>>]
  BY <1>1, <1>6
<1>9. SameNumbers(f, db') /\ db'.bulk = f.bulk
  BY <1>7, <1>8, HandedOver
<1>10. SameNodes(d, db') /\ db'.bulk = FALSE
  BY <1>5, <1>7, <1>9 DEF SameNumbers, SameNodes
<1>11. IsSeq(order)
  BY <1>1, <1>5, OrdersSeq, FS_EmptySet DEF IsDb
<1>12. PICK s1 : s1 = JournalWrites(d.log)
  OBVIOUS
<1>13. PICK s2 : s2 = IF flush THEN PageWrites(d, order) \o ManifestWrites ELSE <<>>
  OBVIOUS
<1>14. PICK s3 : s3 = ReturnNodes(d)
  OBVIOUS
<1>15. NoAppend(s2) /\ NoAppend(s3)
  <2>1. NoAppend(PageWrites(d, order)) /\ NoAppend(ManifestWrites) /\ NoAppend(<<>>)
        /\ NoAppend(ReturnNodes(d))
    BY <1>11, NoAppendPieces
  <2>2. NoAppend(PageWrites(d, order) \o ManifestWrites)
    BY <2>1, NoAppendConcat
  <2> QED
    BY <1>13, <1>14, <2>1, <2>2
<1>16. PICK rest : rest = s2 \o s3
  OBVIOUS
<1>17. NoAppend(rest)
  BY <1>15, <1>16, NoAppendConcat
<1>18. IsSeq(s1)
  BY <1>5, <1>12, PlainPieces DEF IsDb, IsPlain
<1>19. todo' = s1 \o rest
  <2>1. todo' = (s1 \o s2) \o s3
    BY <1>1, <1>12, <1>13, <1>14
  <2> QED
    BY <1>15, <1>16, <1>18, <2>1, ConcatSteps DEF NoAppend
<1>20. PICK log : log = d.log
  OBVIOUS
<1>21. todo' = JournalWrites(log) \o rest /\ LogStaged(log, d, pages, tmps, journal, grown)
  BY <1>5, <1>12, <1>19, <1>20
<1> QED
  BY <1>2, <1>3, <1>10, <1>17, <1>21, CallRecovers

\* The journal after one entry.
LEMMA WithOne ==
    ASSUME NEW J, IsSeq(J), NEW c
    PROVE  With(J, c, 1) = Append(J, c[1])
<1>1. PICK k \in Nat : k = 0
  OBVIOUS
<1>2. With(J, c, 0) = J /\ With(J, c, k + 1) = Append(With(J, c, k), c[k + 1])
  BY WithEntries
<1> QED
  BY <1>1, <1>2

\* The log of put_evidence.
LEMMA EvidenceStaged ==
    ASSUME NEW d, NEW P, NEW T, NEW J, NEW G, Good(d, P, T, J, G), NEW t, t.type # "split",
           Known(d, t.path), NEW log, log = <<t>>
    PROVE  LogStaged(log, d, P, T, J, G)
<1>1. IsSeq(log) /\ Len(log) = 1 /\ log[1] = t
  BY SeqSingle
<1>2. IsSeq(J)
  BY DEF Good, Explained, JournalHolds
<1>3. With(J, log, 0) = J
  BY <1>2, WithEntries
<1>4. With(J, log, 1) = Append(J, t)
  BY <1>1, <1>2, WithOne
<1>5. PICK K : K = Append(J, t)
  OBVIOUS
<1>6. Good(d, P, T, K, G)
  BY <1>5, GoodEntry
<1>7. \A k \in 0..1 : k = 0 \/ k = 1
  OBVIOUS
<1> QED
  BY <1>1, <1>3, <1>4, <1>5, <1>6, <1>7 DEF LogStaged

\* So can put_evidence.
LEMMA PutEvidenceRecovers ==
    ASSUME DurabilityInv, TypeInv, Recoverable, NEW p \in Paths, NEW v \in Vals, PutEvidence(p, v)
    PROVE  Recoverable'
<1> DEFINE r == Put(db.resident, p, v)
           d == AppendRecord([db EXCEPT !.resident = r, !.pending = TRUE], p, v)
           entry == [type |-> "evidence", path |-> p, val |-> v]
           log == IF db.bulk THEN <<>> ELSE <<entry>>
           d1 == MaybeFlushed(d)
<1>1. PICK order \in Orders(IF FlushDue(d) THEN d.dirty ELSE {}) :
        /\ db' = Trimmed(d1)
        /\ todo' = JournalWrites(log) \o MaybeFlush(d, order) \o Trim(d1) \o ReturnValue(p, {v})
  <2>1. d = AppendRecord([db EXCEPT !.resident = Put(@, p, v), !.pending = TRUE], p, v)
    OBVIOUS
  <2> QED
    BY <2>1, Zenon DEF PutEvidence
<1>2. UNCHANGED files /\ status = "open" /\ status' = "open" /\ todo = <<>> /\ grown' = grown
  BY DEF PutEvidence, Ready
<1>3. /\ manifest /\ IsDb(db) /\ db.bulk = FALSE /\ IsSeq(journal)
      /\ Good(db, pages, tmps, journal, grown)
  BY <1>2, CallStart
<1>4. Still(db, d)
  <2> HIDE DEF r
  <2> QED
    BY <1>3, StillCopy, Zenon
<1> HIDE DEF d
<1>5. IsDb(d) /\ SameStore(d, d1)
  BY <1>4, StillFlush DEF Still
<1>6. IsDb(d1) /\ SameStore(d1, db')
  BY <1>1, <1>5, StillFlush DEF SameStore, Still
<1>7. SameNodes(db, db') /\ db'.bulk = FALSE
  BY <1>3, <1>4, <1>5, <1>6 DEF SameStore, Still, SameNumbers, SameNodes
<1>8. IsSeq(order)
  BY <1>1, <1>5, OrdersSeq, FS_EmptySet DEF IsDb
<1>9. entry.type # "split" /\ log = <<entry>> /\ Known(db, entry.path)
  BY <1>3 DEF PutEvidence, HasRow
<1> HIDE DEF entry, log, d1
<1>10. PICK h : h = log
  OBVIOUS
<1>11. LogStaged(h, db, pages, tmps, journal, grown) /\ IsSeq(h)
  <2>1. LogStaged(h, db, pages, tmps, journal, grown)
    BY <1>3, <1>9, <1>10, EvidenceStaged
  <2> QED
    BY <2>1 DEF LogStaged
<1>12. PICK s1 : s1 = JournalWrites(h)
  OBVIOUS
<1>13. PICK s2 : s2 = MaybeFlush(d, order)
  OBVIOUS
<1>14. PICK s3 : s3 = Trim(d1)
  OBVIOUS
<1>15. PICK s4 : s4 = ReturnValue(p, {v})
  OBVIOUS
<1>16. NoAppend(s2) /\ NoAppend(s3) /\ NoAppend(s4)
  BY <1>8, <1>13, <1>14, <1>15, NoAppendComposed, NoAppendPieces
<1>17. PICK s5 : s5 = s2 \o s3
  OBVIOUS
<1>18. PICK rest : rest = s5 \o s4
  OBVIOUS
<1>19. NoAppend(s5) /\ NoAppend(rest)
  BY <1>16, <1>17, <1>18, NoAppendConcat
<1>20. IsSeq(s1) /\ IsSeq(s2) /\ IsSeq(s3) /\ IsSeq(s4) /\ IsSeq(s5)
  BY <1>11, <1>12, <1>16, <1>19, PlainPieces DEF NoAppend, IsPlain
<1>21. todo' = s1 \o rest
  <2>1. todo' = ((s1 \o s2) \o s3) \o s4
    BY <1>1, <1>10, <1>12, <1>13, <1>14, <1>15
  <2>2. (s1 \o s2) \o s3 = s1 \o s5
    BY <1>17, <1>20, ConcatSteps, SMTT(20)
  <2>3. (s1 \o s5) \o s4 = s1 \o (s5 \o s4)
    BY <1>20, ConcatSteps, SMTT(20)
  <2> QED
    BY <1>18, <2>1, <2>2, <2>3
<1>22. todo' = JournalWrites(h) \o rest
  BY <1>12, <1>21
<1> QED
  BY <1>2, <1>3, <1>7, <1>11, <1>19, <1>22, CallRecovers

\* So can evidence(key), trimming or not.
LEMMA ReadEvidenceRecovers ==
    ASSUME DurabilityInv, TypeInv, Recoverable, NEW p \in Paths, ReadEvidence(p)
    PROVE  Recoverable'
<1> DEFINE r == Put(db.resident, p, Lookup(db, p))
           d == [db EXCEPT !.resident = r]
           drop == Lookup(db, p) # None
<1>1. /\ db' = IF drop THEN Trimmed(d) ELSE d
      /\ todo' = FlushStore \o (IF drop THEN Trim(d) ELSE <<>>)
      /\ status = "open" /\ status' = "open" /\ UNCHANGED files /\ todo = <<>> /\ grown' = grown
  <2>1. d = [db EXCEPT !.resident = Put(@, p, Lookup(db, p))]
    OBVIOUS
  <2> HIDE DEF d
  <2> QED
    BY <2>1, Zenon DEF ReadEvidence
<1>2. IsDb(db) /\ db.bulk = FALSE
  BY <1>1, CallStart
<1>3. SameStore(db, d)
  <2> HIDE DEF r
  <2> QED
    BY <1>2, StillField
<1> HIDE DEF d, drop
<1>4. SameStore(d, db')
  BY <1>1, <1>3, StillFlush DEF SameStore, Still, SameNumbers, SameNodes
<1>5. SameNodes(db, db') /\ db'.bulk = FALSE
  BY <1>2, <1>3, <1>4 DEF SameStore, Still, SameNumbers, SameNodes
<1>6. NoAppend(todo')
  BY <1>1, NoAppendPieces, NoAppendComposed, NoAppendConcat
<1> QED
  BY <1>1, <1>5, <1>6, QuietRecovers

\* So can checkpoint.
LEMMA CheckpointRecovers ==
    ASSUME DurabilityInv, TypeInv, Recoverable, Checkpoint
    PROVE  Recoverable'
<1>1. PICK e : e = EvidenceSaved(db)
  OBVIOUS
<1>2. PICK f : f = PagesSaved(e)
  OBVIOUS
<1>3. PICK b : b = (db.ids # DOMAIN db.rows)
  OBVIOUS
<1>4. /\ status = "open" /\ status' = "open" /\ UNCHANGED files /\ todo = <<>> /\ grown' = grown
      /\ db' = [f EXCEPT !.pending = b]
  BY <1>1, <1>2, <1>3 DEF Checkpoint
<1>5. PICK order \in Orders(db.dirty) :
        todo' = ManifestWrites \o PageWrites(db, order) \o SaveEvidence(db) \o
                (IF db.ids = DOMAIN db.rows THEN TruncateJournal ELSE <<>>)
  BY DEF Checkpoint
<1>6. IsDb(db) /\ db.bulk = FALSE
  BY <1>4, CallStart
<1>7. SameStore(db, e) /\ IsDb(e)
  BY <1>1, <1>6, StillFlush DEF SameStore, Still
<1>8. SameStore(e, f) /\ IsDb(f)
  BY <1>2, <1>7, StillFlush DEF SameStore, Still
<1>9. SameStore(f, db')
  BY <1>4, <1>8, StillField
<1>10. SameNodes(db, db') /\ db'.bulk = FALSE
  BY <1>6, <1>7, <1>8, <1>9 DEF SameStore, Still, SameNumbers, SameNodes
<1>11. IsSeq(order)
  BY <1>5, <1>6, OrdersSeq DEF IsDb
<1> DEFINE s2 == PageWrites(db, order)
           s3 == SaveEvidence(db)
           s4 == IF db.ids = DOMAIN db.rows THEN TruncateJournal ELSE <<>>
<1>12. NoAppend(ManifestWrites) /\ NoAppend(s2) /\ NoAppend(s3) /\ NoAppend(s4)
  BY <1>11, NoAppendPieces, NoAppendComposed
<1>13. todo' = ManifestWrites \o s2 \o s3 \o s4
  BY <1>5
<1> HIDE DEF s2, s3, s4
<1>14. NoAppend(todo')
  BY <1>12, <1>13, NoAppendConcat
<1> QED
  BY <1>4, <1>10, <1>14, QuietRecovers

-----------------------------------------------------------------------------
(* A change of the directory leaves what it needs.                         *)

\* What is known of the change that is next.
LEMMA NextChangeOk ==
    ASSUME DurabilityInv, TypeInv, todo # <<>>, NEW c, c = Head(todo)
    PROVE  /\ status = "open" /\ IsSeq(todo) /\ IsSeq(journal) /\ IsSeq(Tail(todo))
           /\ c.file = "page" /\ c.act \in {"remove", "rename"} => c.content = RowsOnPage(db, c.key)
           /\ c.act = "remove" =>
                /\ Tail(todo) # <<>> /\ IsRename(Head(Tail(todo)), c.file)
                /\ Head(Tail(todo)).key = c.key /\ Head(Tail(todo)).content = c.content
           /\ c.act = "truncate" => Len(todo) = 1 /\ db.dirty = {}
           /\ c.act = "nodes" => c.content \in SUBSET DOMAIN db.paths
<1>1. PICK n \in Nat : TypedBy(n)
  BY DEF TypeInv
<1>2. status = "open" /\ IsSeq(journal)
  BY <1>1 DEF TypedBy, DurabilityInv
<1>3. IsSeq(todo) /\ Head(todo) = todo[1] /\ Len(todo) \in Nat \ {0} /\ ChangeOk(todo, 1, db, store)
  BY HeadOk
<1> DEFINE lo == Len(store)
           hi == Len(store \o db.buffer)
<1>4. lo \in Nat /\ hi \in Nat /\ lo <= hi
  BY StoreLength DEF DurabilityInv
<1>5. StepsOk(todo, n, lo, hi, DOMAIN db.paths)
  BY <1>1 DEF TypedBy, StepsDue
<1> HIDE DEF lo, hi
<1>6. PICK low : low = IF IsFlush(Head(todo)) THEN hi ELSE lo
  OBVIOUS
<1>7. PICK known : known = DOMAIN db.paths
  OBVIOUS
<1>8. PICK s : s = todo
  OBVIOUS
<1>9. IF IsFlush(Head(s)) THEN low = hi /\ hi = hi ELSE low = lo /\ hi = hi
  BY <1>6, <1>8
<1>10. StepsOk(s, n, lo, hi, known) /\ s # <<>>
  BY <1>5, <1>7, <1>8
<1>11. /\ StepOk(s, 1, n, lo, hi, known) /\ Head(s) = s[1] /\ IsSeq(Tail(s))
       /\ Head(s).act = "remove" =>
            Tail(s) # <<>> /\ Head(Tail(s)).act = "rename" /\ Head(Tail(s)).file = Head(s).file
            /\ Head(Tail(s)).key = Head(s).key /\ Head(Tail(s)).content = Head(s).content
  BY <1>4, <1>9, <1>10, StepsTail
<1>12. c.act = "remove" =>
         /\ Tail(todo) # <<>> /\ IsRename(Head(Tail(todo)), c.file)
         /\ Head(Tail(todo)).key = c.key /\ Head(Tail(todo)).content = c.content
  BY <1>8, <1>11 DEF IsRename
<1>13. c.act = "nodes" => c.content \in SUBSET DOMAIN db.paths
  BY <1>7, <1>8, <1>11 DEF StepOk
<1>14. c.act = "truncate" => Len(todo) = 1 /\ db.dirty = {}
  BY <1>3 DEF ChangeOk
<1>15. ASSUME c.file = "page", c.act = "rename" PROVE c.content = RowsOnPage(db, c.key)
  BY <1>3, <1>15 DEF ChangeOk, IsRename
<1>16. ASSUME c.file = "page", c.act = "remove" PROVE c.content = RowsOnPage(db, c.key)
  <2>1. PICK t : t = Tail(todo)
    OBVIOUS
  <2>2. PICK r : r = Head(t)
    OBVIOUS
  <2>3. t # <<>> /\ IsSeq(t) /\ IsRename(r, "page") /\ r.key = c.key /\ r.content = c.content
    BY <1>8, <1>11, <1>12, <1>16, <2>1, <2>2
  <2>4. r = t[1] /\ Len(t) \in Nat \ {0}
    BY <2>2, <2>3, SeqTail
  <2>5. t[1] = todo[1 + 1] /\ 1 + 1 \in 1..Len(todo)
    <3>1. Len(t) = Len(todo) - 1 /\ \A i \in 1..(Len(todo) - 1) : t[i] = todo[i + 1]
      BY <1>3, <2>1, SeqTail
    <3> QED
      BY <1>3, <2>4, <3>1
  <2>6. ChangeOk(todo, 2, db, store) /\ todo[2] = r
    BY <2>4, <2>5 DEF DurabilityInv, ChangesOk
  <2> QED
    BY <2>3, <2>6 DEF ChangeOk
<1>17. IsSeq(Tail(todo))
  BY <1>8, <1>11
<1> QED
  BY <1>2, <1>3, <1>12, <1>13, <1>14, <1>15, <1>16, <1>17

\* Any change but an append: the files as they stand, or as they will once the
\* page that was removed is there again, explain the object.
LEMMA ChangeStart ==
    ASSUME DurabilityInv, TypeInv, Recoverable, todo # <<>>, todo' = Tail(todo), status' = status,
           Head(todo).act # "append"
    PROVE  /\ status' = "open" /\ db.bulk = FALSE /\ IsSeq(todo') /\ Appends(todo', 0)
           /\ manifest \/ IsRename(Head(todo), "manifest")
           /\ \E P : Standing(P) /\ Good(db, P, tmps, journal, grown)
<1>1. PICK s : s = todo
  OBVIOUS
<1>2. status = "open" /\ IsSeq(s) /\ IsSeq(Tail(s)) /\ IsSeq(journal) /\ s # <<>> /\ Head(s).act # "append"
  BY <1>1, NextChangeOk
<1>3. db.bulk = FALSE /\ (manifest \/ IsRename(Head(todo), "manifest"))
  BY <1>2 DEF Recoverable
<1>4. PICK P : Standing(P) /\ Staged(s, db, P, tmps, journal, grown)
  BY <1>1, <1>2 DEF Recoverable
<1>5. Appends(s, 0) /\ Good(db, P, tmps, journal, grown)
  BY <1>2, <1>4, NothingDue
<1>6. Appends(Tail(s), 0)
  BY <1>2, <1>5, NothingDue
<1> QED
  BY <1>1, <1>2, <1>3, <1>4, <1>5, <1>6

\* What is left of it.
LEMMA ChangeRecovers ==
    ASSUME status' = "open", IsSeq(todo'), Appends(todo', 0), db'.bulk = FALSE,
           manifest' \/ (todo' # <<>> /\ IsRename(Head(todo'), "manifest")),
           NEW P, Standing(P)', Good(db', P, tmps', journal', grown')
    PROVE  Recoverable'
<1>1. PICK s : s = todo'
  OBVIOUS
<1>2. PICK d : d = db'
  OBVIOUS
<1>3. PICK T : T = tmps'
  OBVIOUS
<1>4. PICK J : J = journal'
  OBVIOUS
<1>5. PICK G : G = grown'
  OBVIOUS
<1>6. IsSeq(s) /\ Appends(s, 0) /\ Good(d, P, T, J, G)
  BY <1>1, <1>2, <1>3, <1>4, <1>5
<1>7. Staged(s, d, P, T, J, G)
  BY <1>6, NothingDue
<1>8. Staged(todo, db, P, tmps, journal, grown)'
  BY <1>1, <1>2, <1>3, <1>4, <1>5, <1>7
<1> QED
  BY <1>8 DEF Recoverable

\* Removing a file that is to be replaced (database.cpp:169-211).
LEMMA RemoveFileRecovers ==
    ASSUME DurabilityInv, TypeInv, Recoverable, RemoveFile
    PROVE  Recoverable'
<1>1. PICK c : c = Head(todo)
  OBVIOUS
<1>2. /\ todo # <<>> /\ c.act = "remove" /\ todo' = Tail(todo) /\ status' = status
      /\ manifest' = (manifest /\ c.file # "manifest")
      /\ pages' = IF c.file = "page" THEN Without(pages, {c.key}) ELSE pages
      /\ UNCHANGED <<tmps, journal, db, grown>>
  BY <1>1 DEF RemoveFile, Made
<1>3. /\ c.file = "page" => c.content = RowsOnPage(db, c.key)
      /\ todo' # <<>> /\ IsRename(Head(todo'), c.file)
      /\ Head(todo').key = c.key /\ Head(todo').content = c.content
  BY <1>1, <1>2, NextChangeOk
<1>4. /\ status' = "open" /\ db.bulk = FALSE /\ IsSeq(todo') /\ Appends(todo', 0)
      /\ manifest \/ IsRename(Head(todo), "manifest")
      /\ \E P : Standing(P) /\ Good(db, P, tmps, journal, grown)
  BY <1>1, <1>2, ChangeStart
<1>5. manifest /\ Good(db, pages, tmps, journal, grown)
  BY <1>1, <1>2, <1>4 DEF Standing, IsRename
<1>6. manifest' \/ (todo' # <<>> /\ IsRename(Head(todo'), "manifest"))
  BY <1>2, <1>3, <1>5
<1>7. CASE c.file = "page"
  <2>1. PICK q : q = c.key
    OBVIOUS
  <2>2. PICK f : f = c.content
    OBVIOUS
  <2>3. PICK Q : Q = Put(pages', q, f)
    OBVIOUS
  <2>4. f = RowsOnPage(db, q)
    BY <1>3, <1>7, <2>1, <2>2
  <2>5. DOMAIN Q = DOMAIN pages \cup {q} /\ Q[q] = f /\ \A x \in DOMAIN pages : x # q => Q[x] = pages[x]
    BY <1>2, <1>7, <2>1, <2>3 DEF Put, Without, Restrict
  <2>6. Good(db, Q, tmps, journal, grown)
    BY <1>5, <2>4, <2>5, GoodPage
  <2>7. Standing(Q)'
    BY <1>3, <1>7, <2>1, <2>2, <2>3 DEF Standing
  <2>8. Good(db', Q, tmps', journal', grown')
    BY <1>2, <2>6
  <2> QED
    BY <1>2, <1>4, <1>6, <2>7, <2>8, ChangeRecovers
<1>8. CASE c.file # "page"
  <2>1. PICK Q : Q = pages
    OBVIOUS
  <2>2. Standing(Q)' /\ Good(db', Q, tmps', journal', grown')
    BY <1>2, <1>5, <1>8, <2>1 DEF Standing
  <2> QED
    BY <1>2, <1>4, <1>6, <2>2, ChangeRecovers
<1> QED
  BY <1>7, <1>8

\* Renaming the new one into its place.
LEMMA RenameFileRecovers ==
    ASSUME DurabilityInv, TypeInv, Recoverable, RenameFile
    PROVE  Recoverable'
<1>1. PICK c : c = Head(todo)
  OBVIOUS
<1>2. /\ todo # <<>> /\ c.act = "rename" /\ todo' = Tail(todo) /\ status' = status
      /\ manifest' = (manifest \/ c.file = "manifest")
      /\ pages' = IF c.file = "page" THEN Put(pages, c.key, c.content) ELSE pages
      /\ tmps' = IF c.file = "page" THEN Without(tmps, {c.key}) ELSE tmps
      /\ UNCHANGED <<journal, db, grown>>
  BY <1>1 DEF RenameFile, Made
<1>3. c.file = "page" => c.content = RowsOnPage(db, c.key)
  BY <1>1, <1>2, NextChangeOk
<1>4. /\ status' = "open" /\ db.bulk = FALSE /\ IsSeq(todo') /\ Appends(todo', 0)
      /\ manifest \/ IsRename(Head(todo), "manifest")
      /\ \E P : Standing(P) /\ Good(db, P, tmps, journal, grown)
  BY <1>1, <1>2, ChangeStart
<1>5. PICK P : Standing(P) /\ Good(db, P, tmps, journal, grown)
  BY <1>4
<1>6. manifest'
  BY <1>1, <1>2, <1>4 DEF IsRename
<1>7. CASE c.file = "page"
  <2>1. PICK q : q = c.key
    OBVIOUS
  <2>2. PICK f : f = c.content
    OBVIOUS
  <2>3. PICK Q : Q = Put(pages, q, f)
    OBVIOUS
  <2>4. f = RowsOnPage(db, q)
    BY <1>3, <1>7, <2>1, <2>2
  <2>5. P = pages \/ P = Q
    BY <1>1, <1>5, <2>1, <2>2, <2>3 DEF Standing
  <2>6. DOMAIN Q = DOMAIN P \cup {q} /\ Q[q] = f /\ \A x \in DOMAIN P : x # q => Q[x] = P[x]
    BY <2>3, <2>5 DEF Put
  <2>7. Good(db, Q, tmps, journal, grown)
    BY <1>5, <2>4, <2>6, GoodPage
  <2>8. PICK T : T = Without(tmps, {q})
    OBVIOUS
  <2>9. Good(db, Q, T, journal, grown)
    BY <2>4, <2>7, <2>8, GoodTmps
  <2>10. Standing(Q)' /\ Good(db', Q, tmps', journal', grown')
    BY <1>2, <1>7, <2>1, <2>2, <2>3, <2>8, <2>9 DEF Standing
  <2> QED
    BY <1>2, <1>4, <1>6, <2>10, ChangeRecovers
<1>8. CASE c.file # "page"
  <2>1. P = pages
    BY <1>1, <1>5, <1>8 DEF Standing, IsRename
  <2>2. Standing(P)' /\ Good(db', P, tmps', journal', grown')
    BY <1>2, <1>5, <1>8, <2>1 DEF Standing
  <2> QED
    BY <1>2, <1>4, <1>6, <2>2, ChangeRecovers
<1> QED
  BY <1>7, <1>8

\* Flushing the stream.
LEMMA FlushStreamRecovers ==
    ASSUME DurabilityInv, TypeInv, Recoverable, FlushStream
    PROVE  Recoverable'
<1>1. /\ todo # <<>> /\ Head(todo).file = "store" /\ Head(todo).act = "flush"
      /\ todo' = Tail(todo) /\ status' = status /\ db' = [db EXCEPT !.buffer = <<>>]
      /\ UNCHANGED <<manifest, pages, tmps, journal, grown>>
  BY DEF FlushStream, NextChange, Made
<1>2. /\ status' = "open" /\ db.bulk = FALSE /\ IsSeq(todo') /\ Appends(todo', 0)
      /\ manifest \/ IsRename(Head(todo), "manifest")
      /\ \E P : Standing(P) /\ Good(db, P, tmps, journal, grown)
  BY <1>1, ChangeStart
<1>3. manifest' /\ Good(db, pages, tmps, journal, grown)
  BY <1>1, <1>2 DEF Standing, IsRename
<1>4. db' = [ids |-> db.ids, paths |-> db.paths, rows |-> db.rows, dirty |-> db.dirty,
             resident |-> db.resident, index |-> db.index, buffer |-> <<>>,
             sidecarDirty |-> db.sidecarDirty, pending |-> db.pending, appends |-> db.appends,
             bulk |-> db.bulk, log |-> db.log]
  BY <1>1 DEF DurabilityInv, IsDb
<1>5. SameNodes(db, db') /\ db'.bulk = FALSE
  BY <1>2, <1>4 DEF SameNodes
<1>6. PICK e : e = db'
  OBVIOUS
<1>7. Good(e, pages, tmps, journal, grown)
  BY <1>3, <1>5, <1>6, GoodSame
<1>8. PICK P : P = pages
  OBVIOUS
<1>9. Standing(P)' /\ Good(db', P, tmps', journal', grown')
  BY <1>1, <1>6, <1>7, <1>8 DEF Standing
<1> QED
  BY <1>2, <1>3, <1>5, <1>9, ChangeRecovers

\* A transaction more in the journal (database.cpp:3491-3511).
LEMMA AppendJournalRecovers ==
    ASSUME DurabilityInv, TypeInv, Recoverable, AppendJournal
    PROVE  Recoverable'
<1>1. PICK x : x = Head(todo).content
  OBVIOUS
<1>2. /\ todo # <<>> /\ Head(todo).file = "journal" /\ Head(todo).act = "append"
      /\ todo' = Tail(todo) /\ status' = status /\ journal' = Append(journal, x)
      /\ UNCHANGED <<manifest, pages, tmps, db, grown>>
  BY <1>1 DEF AppendJournal, NextChange, Made
<1>3. status = "open" /\ IsSeq(todo) /\ IsSeq(journal)
  BY <1>2, NextChangeOk
<1>4. db.bulk = FALSE /\ manifest /\ Staged(todo, db, pages, tmps, journal, grown)
  BY <1>2, <1>3 DEF Recoverable, Standing, IsRename
<1>5. PICK s : s = todo
  OBVIOUS
<1>6. PICK J : J = journal
  OBVIOUS
<1>7. /\ IsSeq(s) /\ IsSeq(J) /\ s # <<>> /\ Head(s).act = "append"
      /\ Staged(s, db, pages, tmps, J, grown) /\ x = Head(s).content
  BY <1>1, <1>2, <1>3, <1>4, <1>5, <1>6
<1>8. Staged(Tail(s), db, pages, tmps, Append(J, x), grown)
  BY <1>7, EntryAppended
<1>9. Staged(todo, db, pages, tmps, journal, grown)'
  BY <1>2, <1>5, <1>6, <1>8
<1>10. Standing(pages)'
  BY DEF Standing
<1> QED
  BY <1>2, <1>3, <1>4, <1>9, <1>10 DEF Recoverable

\* Truncating it: by then every row is in its page (database.cpp:2026-2035).
LEMMA TruncateJournalRecovers ==
    ASSUME DurabilityInv, TypeInv, Recoverable, TruncateJournalFile
    PROVE  Recoverable'
<1>1. /\ todo # <<>> /\ Head(todo).file = "journal" /\ Head(todo).act = "truncate"
      /\ todo' = Tail(todo) /\ status' = status /\ journal' = <<>>
      /\ UNCHANGED <<manifest, pages, tmps, db, grown>>
  BY DEF TruncateJournalFile, NextChange, Made
<1>2. /\ status' = "open" /\ db.bulk = FALSE /\ IsSeq(todo') /\ Appends(todo', 0)
      /\ manifest \/ IsRename(Head(todo), "manifest")
      /\ \E P : Standing(P) /\ Good(db, P, tmps, journal, grown)
  BY <1>1, ChangeStart
<1>3. manifest' /\ Good(db, pages, tmps, journal, grown)
  BY <1>1, <1>2 DEF Standing, IsRename
<1>4. Len(todo) = 1 /\ db.dirty = {} /\ IsSeq(todo)
  BY <1>1, NextChangeOk
<1>5. \A c \in Range(todo) : ~IsRename(c, "page")
  <2>1. \A i \in 1..1 : i = 1
    OBVIOUS
  <2>2. Head(todo) = todo[1] /\ \A c \in Range(todo) : \E i \in 1..1 : todo[i] = c
    BY <1>1, <1>4, SeqTail, SeqShape
  <2> QED
    BY <1>1, <2>1, <2>2 DEF IsRename
<1>6. Renamed(todo) = {}
  BY <1>5 DEF Renamed
<1>7. \A i \in DOMAIN db.rows : OnDisk(i, db.rows[i])
  BY <1>4, <1>6 DEF DurabilityInv, RowsSaved
<1>8. \A i \in DOMAIN db.rows : Held(pages, i) /\ pages[PageOf(i)][i] = db.rows[i]
  BY <1>7 DEF OnDisk, Held
<1>9. PICK K : K = <<>>
  OBVIOUS
<1>10. Good(db, pages, tmps, K, grown)
  BY <1>3, <1>8, <1>9, GoodTruncated
<1>11. PICK P : P = pages
  OBVIOUS
<1>12. Standing(P)' /\ Good(db', P, tmps', journal', grown') /\ db'.bulk = FALSE
  BY <1>1, <1>2, <1>9, <1>10, <1>11 DEF Standing
<1> QED
  BY <1>2, <1>3, <1>12, ChangeRecovers

\* The nodes a split call returns are those of the object.
LEMMA ReturnRecovers ==
    ASSUME DurabilityInv, TypeInv, Recoverable, ReturnFromCall
    PROVE  Recoverable'
<1>1. PICK c : c = Head(todo)
  OBVIOUS
<1>2. /\ todo # <<>> /\ c.file = "return" /\ todo' = Tail(todo) /\ status' = status
      /\ grown' = IF c.act = "nodes" THEN grown \cup c.content ELSE grown
      /\ UNCHANGED <<manifest, pages, tmps, journal, db>>
  BY <1>1 DEF ReturnFromCall, Made
<1>9. c.act # "append"
  <2>1. status = "open" /\ IsSeq(todo)
    BY <1>2, NextChangeOk
  <2>2. \E P : Staged(todo, db, P, tmps, journal, grown)
    BY <2>1 DEF Recoverable
  <2>3. PICK s : s = todo
    OBVIOUS
  <2>4. IsAppend(Head(s)) \/ IsOther(Head(s))
    BY <1>2, <2>1, <2>2, <2>3, HeadShaped
  <2> QED
    BY <1>1, <1>2, <2>3, <2>4 DEF IsAppend, IsOther
<1>3. /\ status' = "open" /\ db.bulk = FALSE /\ IsSeq(todo') /\ Appends(todo', 0)
      /\ manifest \/ IsRename(Head(todo), "manifest")
      /\ \E P : Standing(P) /\ Good(db, P, tmps, journal, grown)
  BY <1>1, <1>2, <1>9, ChangeStart
<1>4. manifest' /\ Good(db, pages, tmps, journal, grown)
  BY <1>1, <1>2, <1>3 DEF Standing, IsRename
<1>5. c.act = "nodes" => c.content \in SUBSET DOMAIN db.paths
  BY <1>1, <1>2, NextChangeOk
<1>6. Good(db, pages, tmps, journal, grown')
  BY <1>2, <1>4, <1>5 DEF Good
<1>7. PICK P : P = pages
  OBVIOUS
<1>8. Standing(P)' /\ Good(db', P, tmps', journal', grown') /\ db'.bulk = FALSE
  BY <1>2, <1>3, <1>6, <1>7 DEF Standing
<1> QED
  BY <1>3, <1>4, <1>8, ChangeRecovers

-----------------------------------------------------------------------------
(* The end of a process, and the start of the next.                        *)

\* A process can end at any time, whatever part of the log is in the journal.
LEMMA StagedEnds ==
    ASSUME NEW s, NEW d, NEW P, NEW T, NEW J, NEW G, IsSeq(s), IsSeq(J), Staged(s, d, P, T, J, G)
    PROVE  \E e : Good(e, P, T, J, G)
<1>1. PICK m \in 0..Len(s) : \A k \in 0..m : \E e : Good(e, P, T, With(J, Contents(s), k), G)
  BY DEF Staged
<1>2. 0 \in 0..m
  BY SeqShape
<1>3. With(J, Contents(s), 0) = J
  BY WithEntries
<1> QED
  BY <1>1, <1>2, <1>3

\* Closing drops the dirty pages, which the journal can rebuild.
LEMMA CloseRecovers ==
    ASSUME DurabilityInv, TypeInv, Recoverable, Close
    PROVE  Recoverable'
<1>1. /\ status = "open" /\ todo = <<>> /\ status' = "closed"
      /\ UNCHANGED <<manifest, pages, tmps, journal, grown>>
  BY DEF Close
<1>2. manifest /\ Good(db, pages, tmps, journal, grown)
  BY <1>1, CallStart
<1>3. manifest' /\ Good(db, pages', tmps', journal', grown')
  BY <1>1, <1>2
<1>4. \E d : Good(d, pages', tmps', journal', grown')
  BY <1>3
<1> QED
  BY <1>1, <1>3, <1>4 DEF Recoverable

\* A kill leaves at most the temporary file of the page it was writing.
LEMMA KillRecovers ==
    ASSUME DurabilityInv, TypeInv, Recoverable, Kill, "unjournaled" \notin risks'
    PROVE  Recoverable'
<1>1. PICK c : c = Head(todo)
  OBVIOUS
<1>2. /\ status = "open" /\ status' = "closed" /\ UNCHANGED <<manifest, pages, journal, grown>>
      /\ todo # <<>> => c.act # "rename"
      /\ \/ tmps' = tmps
         \/ todo # <<>> /\ c.file = "page" /\ tmps' = Put(tmps, c.key, c.content)
  BY <1>1 DEF Kill
<1>3. IsSeq(todo) /\ IsSeq(journal)
  BY DEF DurabilityInv, ChangesOk
<1>4. manifest /\ Staged(todo, db, pages, tmps, journal, grown)
  BY <1>1, <1>2 DEF Recoverable, Standing, IsRename
<1>5. manifest'
  BY <1>2, <1>4
<1>6. PICK s : s = todo
  OBVIOUS
<1>7. IsSeq(s) /\ Staged(s, db, pages, tmps, journal, grown)
  BY <1>3, <1>4, <1>6
<1>8. CASE tmps' = tmps
  <2>1. \E d : Good(d, pages, tmps, journal, grown)
    BY <1>3, <1>7, StagedEnds
  <2>2. \E d : Good(d, pages', tmps', journal', grown')
    BY <1>2, <1>8, <2>1
  <2> QED
    BY <1>2, <1>5, <2>2 DEF Recoverable
<1>9. CASE todo # <<>> /\ c.file = "page" /\ tmps' = Put(tmps, c.key, c.content)
  <2>1. c.act = "remove"
    <3>1. s # <<>> /\ c = Head(s)
      BY <1>1, <1>6, <1>9
    <3>2. IsAppend(Head(s)) \/ IsOther(Head(s))
      BY <1>7, <3>1, HeadShaped
    <3> QED
      BY <1>2, <1>9, <3>1, <3>2 DEF IsAppend, IsOther
  <2>2. PICK q : q = c.key
    OBVIOUS
  <2>3. PICK f : f = c.content
    OBVIOUS
  <2>4. f = RowsOnPage(db, q)
    BY <1>1, <1>9, <2>1, <2>2, <2>3, NextChangeOk
  <2>5. Head(s).act # "append"
    BY <1>1, <1>6, <2>1
  <2>6. Good(db, pages, tmps, journal, grown)
    BY <1>3, <1>7, <2>5, NothingDue
  <2>7. PICK T : T = Put(tmps, q, f)
    OBVIOUS
  <2>8. Good(db, pages, T, journal, grown)
    BY <2>4, <2>6, <2>7, GoodTmps
  <2>9. Good(db, pages', tmps', journal', grown')
    BY <1>2, <1>9, <2>2, <2>3, <2>7, <2>8
  <2>10. \E d : Good(d, pages', tmps', journal', grown')
    BY <2>9
  <2> QED
    BY <1>2, <1>5, <2>10 DEF Recoverable
<1> QED
  BY <1>2, <1>8, <1>9

\* Opening a database that has a manifest rebuilds the object the files explain.
LEMMA OpenExistingRecovers ==
    ASSUME DurabilityInv, TypeInv, Recoverable, OpenExisting
    PROVE  Recoverable'
<1>1. UNCHANGED files /\ grown' = grown /\ status # "open"
  BY DEF OpenExisting
<1>2. PICK d : Good(d, pages, tmps, journal, grown)
  BY <1>1 DEF Recoverable
<1>3. manifest /\ manifest'
  BY <1>1 DEF Recoverable, files
<1>4. CASE status' = "failed"
  <2>1. Good(d, pages', tmps', journal', grown')
    BY <1>1, <1>2 DEF files
  <2>2. \E x : Good(x, pages', tmps', journal', grown')
    BY <2>1
  <2> QED
    BY <1>3, <1>4, <2>2 DEF Recoverable
<1>5. CASE /\ NodesLoadable /\ status' = "open"
           /\ db' = Replayed(journal)
           /\ todo' = IF SidecarUsable THEN <<>>
                      ELSE Replace("sidecar", 0, [size |-> Len(store), index |-> ScannedIndex])
  <2>1. IsDb(Loaded) /\ IsSeq(journal)
    BY LoadedOk DEF DurabilityInv, EvidenceOk
  <2>2. PICK G : G = grown
    OBVIOUS
  <2>3. Good(d, pages, tmps, journal, G)
    BY <1>2, <2>2
  <2>4. SameNodes(d, Replayed(journal))
    BY <2>1, <2>3, ReplayedTree
  <2>5. PICK e : e = Replayed(journal)
    OBVIOUS
  <2>6. Good(e, pages, tmps, journal, grown)
    BY <1>2, <2>4, <2>5, GoodSame
  <2>7. e.bulk = FALSE
    <3>1. PICK n \in Nat : TypedBy(n)
      BY DEF TypeInv
    <3>2. FilesOk(pages, n) /\ FilesOk(tmps, n) /\ LogOk(journal, n) /\ PagesInPlace
      BY <3>1 DEF TypedBy, DurabilityInv
    <3>3. Numbered(Loaded, n)
      BY <1>5, <3>2, LoadedNumbered
    <3>4. Replayed(journal).bulk = Loaded.bulk
      BY <2>1, <3>2, <3>3, ReplayedNumbered
    <3>5. Loaded.bulk = FALSE
      BY DEF Loaded, Fresh
    <3> QED
      BY <2>5, <3>4, <3>5
  <2>8. NoAppend(todo')
    <3>1. PICK content : content = [size |-> Len(store), index |-> ScannedIndex]
      OBVIOUS
    <3>2. todo' = IF SidecarUsable THEN <<>> ELSE Replace("sidecar", 0, content)
      BY <1>5, <3>1
    <3> QED
      BY <3>2, NoAppendPieces, NoAppendReplace
  <2>9. IsSeq(todo') /\ Appends(todo', 0)
    BY <2>8, NoAppends
  <2>10. PICK P : P = pages
    OBVIOUS
  <2>11. Standing(P)' /\ Good(db', P, tmps', journal', grown') /\ db'.bulk = FALSE
    BY <1>1, <1>5, <2>5, <2>6, <2>7, <2>10 DEF Standing, files
  <2> QED
    BY <1>3, <1>5, <2>9, <2>11, ChangeRecovers
<1> QED
  BY <1>4, <1>5, Zenon DEF OpenExisting

\* The files of a new database explain it.
LEMMA InitRecovers == Init => RecoveryInv
<1> SUFFICES ASSUME Init PROVE Recoverable
  BY DEF RecoveryInv
<1>1. PICK root : root = <<>>
  OBVIOUS
<1>2. /\ status = "open" /\ manifest /\ todo = <<>> /\ journal = <<>> /\ tmps = Empty /\ grown = {root}
      /\ pages = [q \in {0} |-> [i \in {0} |-> Leaf(root)]]
  BY <1>1 DEF Init
<1>3. /\ Tree(db) /\ DOMAIN db.rows = {0} /\ db.rows[0] = [path |-> root, left |-> 0, right |-> 0]
      /\ DOMAIN db.paths = {root} /\ db.bulk = FALSE
  BY <1>1, InitTree
<1>4. db.rows[0] = Leaf(root) /\ db.rows[0].left = 0 /\ db.rows[0].right = 0
  BY <1>3 DEF Leaf
<1>5. Linked(db)
  BY <1>3, <1>4 DEF Linked, LinkOk
<1>6. PageOf(0) = 0
  BY LectAssumption DEF PageOf
<1>7. DOMAIN pages = {0} /\ DOMAIN pages[0] = {0} /\ pages[0][0] = Leaf(root)
  BY <1>2
<1>8. PagesHold(db, pages)
  BY <1>3, <1>4, <1>6, <1>7 DEF PagesHold, Held
<1>9. TmpsHold(db, tmps)
  BY <1>2 DEF TmpsHold, Empty
<1>10. IsSeq(journal) /\ 1..Len(journal) = {}
  BY <1>2, SeqEmpty
<1>11. JournalHolds(db, journal)
  BY <1>10 DEF JournalHolds
<1>12. Recorded(db, pages, journal)
  BY <1>3, <1>4 DEF Recorded
<1>13. Good(db, pages, tmps, journal, grown)
  BY <1>2, <1>3, <1>5, <1>8, <1>9, <1>11, <1>12 DEF Good, Explained
<1>14. PICK s : s = todo
  OBVIOUS
<1>15. IsSeq(s) /\ NoAppend(s)
  BY <1>2, <1>14, SeqEmpty, NoAppendPieces
<1>16. Staged(s, db, pages, tmps, journal, grown)
  BY <1>13, <1>15, NoAppends, NothingDue
<1> QED
  BY <1>2, <1>3, <1>14, <1>16 DEF Recoverable, Standing

\* Every step keeps a database that can be rebuilt.
LEMMA NextRecovers ==
    ASSUME DurabilityInv, TypeInv, RecoveryInv, [Next]_vars
    PROVE  RecoveryInv'
<1> SUFFICES ASSUME "unjournaled" \notin risks' PROVE Recoverable'
  BY DEF RecoveryInv
<1>1. CASE UNCHANGED vars
  <2>1. Recoverable
    BY <1>1 DEF RecoveryInv, vars
  <2>2. /\ status' = status /\ db' = db /\ manifest' = manifest /\ todo' = todo /\ pages' = pages
        /\ tmps' = tmps /\ journal' = journal /\ grown' = grown
    BY <1>1 DEF vars, files
  <2> QED
    BY <2>1, <2>2 DEF Recoverable, Standing
<1>2. CASE Call
  <2>1. "unjournaled" \notin risks
    BY <1>2 DEF Call, SplitLeaf, SplitToBox, PutEvidence, DeletePayload, ReadEvidence, SetBulk,
                Checkpoint
  <2>2. Recoverable
    BY <2>1 DEF RecoveryInv
  <2>3. (\A p \in Paths : ~DeletePayload(p)) /\ (\A on \in BOOLEAN : ~SetBulk(on))
    BY DEF DeletePayload, SetBulk
  <2> QED
    BY <1>2, <2>2, <2>3, SplitLeafRecovers, SplitToBoxRecovers, PutEvidenceRecovers,
       ReadEvidenceRecovers, CheckpointRecovers DEF Call
<1>3. CASE FileChange
  <2>1. "unjournaled" \notin risks
    BY <1>3 DEF FileChange, RemoveFile, RenameFile, FlushStream, AppendJournal,
                TruncateJournalFile, ReturnFromCall, Made
  <2>2. Recoverable
    BY <2>1 DEF RecoveryInv
  <2> QED
    BY <1>3, <2>2, RemoveFileRecovers, RenameFileRecovers, FlushStreamRecovers,
       AppendJournalRecovers, TruncateJournalRecovers, ReturnRecovers DEF FileChange
<1>4. CASE Close
  <2>1. Recoverable
    BY <1>4 DEF RecoveryInv, Close
  <2> QED
    BY <1>4, <2>1, CloseRecovers
<1>5. CASE Kill
  <2>1. Recoverable
    BY <1>5 DEF RecoveryInv, Kill
  <2> QED
    BY <1>5, <2>1, KillRecovers
<1>6. CASE OpenExisting
  <2>1. Recoverable
    BY <1>6 DEF RecoveryInv, OpenExisting
  <2> QED
    BY <1>6, <2>1, OpenExistingRecovers
<1>7. CASE OpenWithoutManifest
  <2>1. Recoverable
    BY <1>7 DEF RecoveryInv, OpenWithoutManifest
  <2> QED
    BY <1>7, <2>1 DEF Recoverable, OpenWithoutManifest
<1> QED
  BY <1>1, <1>2, <1>3, <1>4, <1>5, <1>6, <1>7 DEF Next

-----------------------------------------------------------------------------
(* The theorems. *)

\* The last stage of the log is the object itself.
LEMMA ObjectGood ==
    ASSUME RecoveryInv, status = "open", "unjournaled" \notin risks
    PROVE  \E P, J : Good(db, P, tmps, J, grown)
<1>1. PICK P : Staged(todo, db, P, tmps, journal, grown)
  BY DEF RecoveryInv, Recoverable
<1> QED
  BY <1>1 DEF Staged

\* What open rebuilds is one tree, and the splits that were acknowledged are in
\* it, however often the process was closed or killed, as long as no bulk mode,
\* no deletion and no kill inside replace_file came before
\* (database.cpp:2649-2724, 3491-3591).
THEOREM StructureCorrect == Spec => []StructureSurvives
<1>1. TypeInv => TypeOK
  BY TypesHold
<1>2. RecoveryInv => SplitsSurvive
  <2> SUFFICES ASSUME RecoveryInv, status = "open", "unjournaled" \notin risks, NEW p \in grown
               PROVE  Known(db, p)
    BY DEF SplitsSurvive
  <2>1. PICK P : \E J : Good(db, P, tmps, J, grown)
    BY ObjectGood
  <2> QED
    BY <2>1 DEF Good, Known
<1>3. RecoveryInv => TreeWellFormed
  <2> SUFFICES ASSUME RecoveryInv, status = "open", "unjournaled" \notin risks
               PROVE  /\ \A i \in DOMAIN db.rows : db.rows[i].left # 0 =>
                            LET r == db.rows[i] IN
                            /\ {r.left, r.right} \subseteq DOMAIN db.rows
                            /\ db.rows[r.left].path = Append(r.path, 0)
                            /\ db.rows[r.right].path = Append(r.path, 1)
                      /\ \A i \in DOMAIN db.rows \ {0} : \E j \in DOMAIN db.rows :
                            i \in {db.rows[j].left, db.rows[j].right}
    BY DEF TreeWellFormed
  <2>1. PICK P : \E J : Good(db, P, tmps, J, grown)
    BY ObjectGood
  <2>2. Linked(db)
    BY <2>1 DEF Good
  <2>3. ASSUME NEW i \in DOMAIN db.rows, db.rows[i].left # 0
        PROVE  /\ db.rows[i].left \in DOMAIN db.rows /\ db.rows[i].right \in DOMAIN db.rows
               /\ db.rows[db.rows[i].left].path = Append(db.rows[i].path, 0)
               /\ db.rows[db.rows[i].right].path = Append(db.rows[i].path, 1)
    <3>1. LinkOk(db, i)
      BY <2>2 DEF Linked
    <3> QED
      BY <2>3, <3>1, Zenon DEF LinkOk, IsChild
  <2>4. \A i \in DOMAIN db.rows \ {0} : \E j \in DOMAIN db.rows :
           i \in {db.rows[j].left, db.rows[j].right}
    BY <2>2 DEF Linked, HasParent
  <2> QED
    BY <2>3, <2>4, Zenon
<1>4. Init => DurabilityInv /\ TypeInv /\ RecoveryInv
  BY InitDurability, InitTyped, InitRecovers
<1>5. DurabilityInv /\ TypeInv /\ RecoveryInv /\ [Next]_vars
        => (DurabilityInv /\ TypeInv /\ RecoveryInv)'
  BY NextDurability, NextTyped, NextRecovers
<1>6. TypeInv /\ RecoveryInv => StructureSurvives
  BY <1>1, <1>2, <1>3 DEF StructureSurvives
<1> QED
  BY <1>4, <1>5, <1>6, PTL DEF Spec


-----------------------------------------------------------------------------
(* Reading a store: the value of a path after the first n records.         *)

LastAt(s, n, p, k) ==
    k \in 1..n /\ s[k].path = p /\ \A j \in 1..n : j > k => s[j].path # p
Silent(s, m, n, p) == \A j \in 1..n : j > m => s[j].path # p
Reads(s, n, p, v) ==
    \/ \E k \in 1..n : LastAt(s, n, p, k) /\ s[k].val = v
    \/ v = None /\ Silent(s, 0, n, p)
IndexFits(ix, s, n) ==
    \A p : IF p \in DOMAIN ix THEN LastAt(s, n, p, ix[p].pos) ELSE Silent(s, 0, n, p)
Agree(s, r, n) == \A j \in 1..n : s[j] = r[j]

\* A path has one value, and records of other paths leave it.
LEMMA ReadsUnique ==
    ASSUME NEW s, NEW n \in Nat, NEW p, NEW v, NEW w, Reads(s, n, p, v), Reads(s, n, p, w)
    PROVE  v = w
<1>1. ASSUME NEW k \in 1..n, LastAt(s, n, p, k), NEW j \in 1..n, LastAt(s, n, p, j) PROVE j = k
  <2>1. ~(j > k) /\ ~(k > j)
    BY <1>1 DEF LastAt
  <2> QED
    BY <2>1
<1>2. ASSUME NEW k \in 1..n, LastAt(s, n, p, k) PROVE ~Silent(s, 0, n, p)
  <2>1. k > 0 /\ s[k].path = p
    BY <1>2 DEF LastAt
  <2> QED
    BY <2>1 DEF Silent
<1> QED
  BY <1>1, <1>2 DEF Reads

\* It depends on the records alone.
LEMMA ReadsSame ==
    ASSUME NEW s, NEW r, NEW n, Agree(s, r, n)
    PROVE  /\ \A p, v : Reads(s, n, p, v) => Reads(r, n, p, v)
           /\ \A ix : IndexFits(ix, s, n) => IndexFits(ix, r, n)
<1>1. \A p, k : LastAt(s, n, p, k) => LastAt(r, n, p, k)
  BY DEF Agree, LastAt
<1>2. \A p : Silent(s, 0, n, p) => Silent(r, 0, n, p)
  BY DEF Agree, Silent
<1>3. ASSUME NEW p, NEW v, Reads(s, n, p, v) PROVE Reads(r, n, p, v)
  BY <1>1, <1>2, <1>3 DEF Reads, Agree
<1>4. ASSUME NEW ix, IndexFits(ix, s, n) PROVE IndexFits(ix, r, n)
  BY <1>1, <1>2, <1>4 DEF IndexFits
<1> QED
  BY <1>3, <1>4

\* A record changes the value of its path (database.cpp:3003-3082).
LEMMA ReadsNext ==
    ASSUME NEW s, NEW n \in Nat, NEW q, s[n + 1].path = q
    PROVE  /\ Reads(s, n + 1, q, s[n + 1].val)
           /\ \A p, v : p # q => (Reads(s, n + 1, p, v) <=> Reads(s, n, p, v))
           /\ \A ix, g : IndexFits(ix, s, n) /\ g.pos = n + 1 => IndexFits(Put(ix, q, g), s, n + 1)
<1>1. n + 1 \in 1..(n + 1) /\ \A j \in 1..(n + 1) : j \in 1..n \/ j = n + 1
  OBVIOUS
<1>2. \A j \in 1..n : j \in 1..(n + 1) /\ j < n + 1
  OBVIOUS
<1>3. LastAt(s, n + 1, q, n + 1)
  BY <1>1 DEF LastAt
<1>4. \A p, k : p # q => (LastAt(s, n + 1, p, k) <=> LastAt(s, n, p, k))
  <2> SUFFICES ASSUME NEW p, NEW k, p # q PROVE LastAt(s, n + 1, p, k) <=> LastAt(s, n, p, k)
    OBVIOUS
  <2>1. s[n + 1].path # p
    OBVIOUS
  <2> QED
    BY <1>1, <1>2, <2>1 DEF LastAt
<1>5. \A p : p # q => (Silent(s, 0, n + 1, p) <=> Silent(s, 0, n, p))
  BY <1>1, <1>2 DEF Silent
<1>6. Reads(s, n + 1, q, s[n + 1].val)
  BY <1>1, <1>3 DEF Reads
<1>7. ASSUME NEW p, NEW v, p # q PROVE Reads(s, n + 1, p, v) <=> Reads(s, n, p, v)
  BY <1>2, <1>4, <1>5, <1>7 DEF Reads, LastAt
<1>8. ASSUME NEW ix, NEW g, IndexFits(ix, s, n), g.pos = n + 1 PROVE IndexFits(Put(ix, q, g), s, n + 1)
  <2>1. PICK jx : jx = Put(ix, q, g)
    OBVIOUS
  <2>2. /\ DOMAIN jx = DOMAIN ix \cup {q} /\ jx[q].pos = n + 1
        /\ \A p \in DOMAIN ix : p # q => jx[p] = ix[p]
    BY <1>8, <2>1 DEF Put
  <2>3. ASSUME NEW p
        PROVE  IF p \in DOMAIN jx THEN LastAt(s, n + 1, p, jx[p].pos) ELSE Silent(s, 0, n + 1, p)
    <3>1. CASE p = q
      BY <1>3, <2>2, <3>1
    <3>2. CASE p # q
      <4>1. IF p \in DOMAIN ix THEN LastAt(s, n, p, ix[p].pos) ELSE Silent(s, 0, n, p)
        BY <1>8 DEF IndexFits
      <4> QED
        BY <1>4, <1>5, <2>2, <3>2, <4>1
    <3> QED
      BY <3>1, <3>2
  <2> QED
    BY <2>1, <2>3 DEF IndexFits
<1> QED
  BY <1>6, <1>7, <1>8

\* Without a record of its own after the first m, a path has the value it had.
LEMMA ReadsBack ==
    ASSUME NEW s, NEW m \in Nat, NEW n \in Nat, m <= n, NEW p, Silent(s, m, n, p), NEW v,
           Reads(s, n, p, v)
    PROVE  Reads(s, m, p, v)
<1>1. \A j \in 1..m : j \in 1..n
  OBVIOUS
<1>2. CASE v = None /\ Silent(s, 0, n, p)
  BY <1>1, <1>2 DEF Reads, Silent
<1>3. ASSUME NEW k \in 1..n, LastAt(s, n, p, k), s[k].val = v PROVE Reads(s, m, p, v)
  <2>1. k \in 1..m
    BY <1>3 DEF LastAt, Silent
  <2>2. LastAt(s, m, p, k)
    BY <1>1, <1>3, <2>1 DEF LastAt
  <2> QED
    BY <1>3, <2>1, <2>2 DEF Reads
<1> QED
  BY <1>2, <1>3 DEF Reads

\* An index that fits gives each path the value a scan would
\* (database.cpp:3300-3342).
LEMMA IndexReads ==
    ASSUME NEW ix, NEW s, NEW n, IndexFits(ix, s, n), NEW p
    PROVE  /\ p \in DOMAIN ix => Reads(s, n, p, s[ix[p].pos].val)
           /\ p \notin DOMAIN ix => Reads(s, n, p, None)
BY DEF IndexFits, Reads, LastAt

-----------------------------------------------------------------------------
(* The object reads what the records say.                                  *)

ObjectReads(d, s) ==
    /\ IndexFits(d.index, s, Len(s))
    /\ \A p \in DOMAIN d.resident : Reads(s, Len(s), p, d.resident[p])
SameReads(d, e) ==
    e.index = d.index /\ e.buffer = d.buffer /\ DOMAIN e.resident \in SUBSET (DOMAIN d.resident)
    /\ \A p \in DOMAIN e.resident : e.resident[p] = d.resident[p]

\* An object with the same evidence reads the same.
LEMMA SameReadsRead ==
    ASSUME NEW d, NEW e, SameReads(d, e), NEW s, ObjectReads(d, s)
    PROVE  ObjectReads(e, s)
BY DEF SameReads, ObjectReads

\* The same evidence twice over is the same evidence.
LEMMA SameReadsTransitive ==
    ASSUME NEW d, NEW e, NEW f, SameReads(d, e), SameReads(e, f)
    PROVE  SameReads(d, f)
BY DEF SameReads

\* What a record does to the object (database.cpp:3003-3082).
IsRecordOf(e, d, r, p, v, n) ==
    /\ e.resident = r /\ e.paths = d.paths /\ e.buffer = Append(d.buffer, Record(p, v))
    /\ e.index = Put(d.index, p, [pos |-> n, gone |-> v = None])
\* The fields AppendRecord changes.
LEMMA RecordFields ==
    ASSUME NEW d, IsDb(d), NEW r, NEW b, NEW a, a = [d EXCEPT !.resident = r, !.pending = b],
           NEW p, NEW v, NEW z, z = AppendRecord(a, p, v), NEW n, n = Len(store \o d.buffer) + 1
    PROVE  IsDb(z) /\ IsRecordOf(z, d, r, p, v, n)
<1> DEFINE f == [d EXCEPT !.resident = r]
           c == [f EXCEPT !.pending = b]
           x == Record(p, v)
           entry == [pos |-> n, gone |-> v = None]
           e == AppendRecord(c, p, v)
<1>1. IsDb(c) /\ c.resident = r /\ c.paths = d.paths /\ c.buffer = d.buffer /\ c.index = d.index
  <2>1. IsDb(f) /\ f.resident = r /\ f.paths = d.paths /\ f.buffer = d.buffer /\ f.index = d.index
    BY DEF IsDb
  <2> HIDE DEF f
  <2> QED
    BY <2>1 DEF IsDb
<1> HIDE DEF c
<1>2. e = [c EXCEPT !.buffer = Append(@, x), !.index = Put(@, p, entry),
                    !.appends = @ + 1, !.sidecarDirty = TRUE]
  <2>1. e = [c EXCEPT !.buffer = Append(@, Record(p, v)),
                      !.index = Put(@, p, [pos |-> Len(store \o c.buffer) + 1, gone |-> v = None]),
                      !.appends = @ + 1, !.sidecarDirty = TRUE]
    BY Zenon DEF AppendRecord, StoreOf
  <2>2. Len(store \o c.buffer) + 1 = n
    BY <1>1
  <2> QED
    BY <2>1, <2>2, Zenon
<1> HIDE DEF x, entry
<1>3. IsSeq(Append(c.buffer, x))
  BY <1>1, SeqAppend DEF IsDb
<1>4. e = [ids |-> c.ids, paths |-> c.paths, rows |-> c.rows, dirty |-> c.dirty,
           resident |-> c.resident, index |-> Put(c.index, p, entry),
           buffer |-> Append(c.buffer, x), sidecarDirty |-> TRUE, pending |-> c.pending,
           appends |-> c.appends + 1, bulk |-> c.bulk, log |-> c.log]
  <2>1. PICK i : i = Put(c.index, p, entry)
    OBVIOUS
  <2>2. PICK y : y = Append(c.buffer, x)
    OBVIOUS
  <2>3. PICK k : k = c.appends + 1
    OBVIOUS
  <2>4. e = [c EXCEPT !.buffer = y, !.index = i, !.appends = k, !.sidecarDirty = TRUE]
    BY <1>2, <2>1, <2>2, <2>3, Zenon
  <2>5. c = [ids |-> c.ids, paths |-> c.paths, rows |-> c.rows, dirty |-> c.dirty,
             resident |-> c.resident, index |-> c.index, buffer |-> c.buffer,
             sidecarDirty |-> c.sidecarDirty, pending |-> c.pending,
             appends |-> c.appends, bulk |-> c.bulk, log |-> c.log]
    BY <1>1, Zenon DEF IsDb
  <2> HIDE DEF e
  <2>6. e = [ids |-> c.ids, paths |-> c.paths, rows |-> c.rows, dirty |-> c.dirty,
             resident |-> c.resident, index |-> i, buffer |-> y, sidecarDirty |-> TRUE,
             pending |-> c.pending, appends |-> k, bulk |-> c.bulk, log |-> c.log]
    BY <2>4, <2>5
  <2> QED
    BY <2>1, <2>2, <2>3, <2>6, Zenon
<1> HIDE DEF e
<1>5. IsDb(e)
  BY <1>1, <1>3, <1>4 DEF IsDb
<1>6. IsRecordOf(e, d, r, p, v, n)
  <2>1. /\ e.resident = r /\ e.paths = d.paths /\ e.buffer = Append(d.buffer, x)
        /\ e.index = Put(d.index, p, entry)
    BY <1>1, <1>4
  <2> QED
    BY <2>1 DEF IsRecordOf, x, entry
<1> QED
  BY <1>5, <1>6, Zenon DEF e, c, f

\* The record is the next one of the store, and the object reads it.
Longer(t, s, x) ==
    IsSeq(t) /\ Len(s) \in Nat /\ Len(t) = Len(s) + 1 /\ Agree(s, t, Len(s)) /\ t[Len(s) + 1] = x
Puts(e, d, s, p, v) == IsRecordOf(e, d, Put(d.resident, p, v), p, v, Len(s) + 1)
IsStoreOf(s, d) == s = store \o d.buffer
Took(t, s, e, d, p, v) ==
    /\ Longer(t, s, Record(p, v)) /\ ObjectReads(e, t)
    /\ Reads(t, Len(t), p, v) /\ DOMAIN e.index = DOMAIN d.index \cup {p}
\* The record that was appended is the one its path reads from now on.
LEMMA RecordReads ==
    ASSUME IsSeq(store), NEW d, IsDb(d), NEW s, IsStoreOf(s, d), ObjectReads(d, s),
           NEW p, NEW v, NEW e, Puts(e, d, s, p, v), NEW t, IsStoreOf(t, e)
    PROVE  Took(t, s, e, d, p, v)
<1>0. s = store \o d.buffer /\ t = store \o e.buffer
  BY DEF IsStoreOf
<1>1. PICK x : x = Record(p, v)
  OBVIOUS
<1>2. x.path = p /\ x.val = v
  BY <1>1 DEF Record
<1>3. PICK n \in Nat : n = Len(s)
  BY <1>0, SeqConcat, SeqShape DEF IsDb
<1>4. PICK b : b = d.buffer
  OBVIOUS
<1>5. PICK c : c = e.buffer
  OBVIOUS
<1>6. c = Append(b, x) /\ IsSeq(b) /\ IsSeq(c) /\ Len(c) = Len(b) + 1 /\ c[Len(b) + 1] = x
      /\ \A i \in 1..Len(b) : c[i] = b[i]
  BY <1>1, <1>4, <1>5, SeqAppend DEF Puts, IsRecordOf, IsDb
<1>7. Longer(t, s, x)
  <2>1. Len(store) \in Nat /\ Len(b) \in Nat /\ Len(s) = Len(store) + Len(b)
        /\ (\A i \in 1..Len(store) : s[i] = store[i])
        /\ \A i \in 1..Len(b) : s[Len(store) + i] = b[i]
    <3>1. s = store \o b
      BY <1>0, <1>4
    <3>2. Len(store) \in Nat /\ Len(b) \in Nat
      BY <1>6, SeqShape
    <3>3. /\ Len(store \o b) = Len(store) + Len(b)
          /\ \A i \in 1..Len(store) : (store \o b)[i] = store[i]
          /\ \A i \in 1..Len(b) : (store \o b)[Len(store) + i] = b[i]
      BY <1>6, SeqConcat
    <3> QED
      BY <3>1, <3>2, <3>3, Zenon
  <2>2. IsSeq(t) /\ Len(t) = Len(store) + Len(c)
        /\ (\A i \in 1..Len(store) : t[i] = store[i])
        /\ \A i \in 1..Len(c) : t[Len(store) + i] = c[i]
    <3>1. t = store \o c
      BY <1>0, <1>5
    <3>2. /\ IsSeq(store \o c) /\ Len(store \o c) = Len(store) + Len(c)
          /\ \A i \in 1..Len(store) : (store \o c)[i] = store[i]
          /\ \A i \in 1..Len(c) : (store \o c)[Len(store) + i] = c[i]
      BY <1>6, SeqConcat
    <3> QED
      BY <3>1, <3>2, Zenon
  <2>3. Len(t) = Len(s) + 1
    BY <1>6, <2>1, <2>2
  <2>4. t[Len(s) + 1] = x
    <3>1. Len(b) + 1 \in 1..Len(c) /\ Len(s) + 1 = Len(store) + (Len(b) + 1)
      BY <1>6, <2>1
    <3> QED
      BY <1>6, <2>2, <3>1
  <2>5. ASSUME NEW i \in 1..Len(s) PROVE s[i] = t[i]
    <3>1. CASE i <= Len(store)
      BY <2>1, <2>2, <3>1
    <3>2. CASE i > Len(store)
      <4>1. i - Len(store) \in 1..Len(b) /\ i - Len(store) \in 1..Len(c)
            /\ i = Len(store) + (i - Len(store))
        BY <1>6, <2>1, <3>2
      <4>2. PICK j \in 1..Len(b) : j \in 1..Len(c) /\ i = Len(store) + j
        BY <4>1
      <4> QED
        BY <1>6, <2>1, <2>2, <4>2
    <3>3. i <= Len(store) \/ i > Len(store)
      <4>1. i \in 1..n /\ Len(store) \in Nat
        BY <1>3, <2>1
      <4> QED
        BY <4>1
    <3> QED
      BY <3>1, <3>2, <3>3, Zenon
  <2> QED
    <3>1. Len(s) \in Nat /\ Agree(s, t, Len(s))
      BY <1>3, <2>5 DEF Agree
    <3> QED
      BY <2>2, <2>3, <2>4, <3>1 DEF Longer
<1>8. Len(t) = n + 1 /\ t[n + 1] = x /\ Agree(s, t, n) /\ t[n + 1].path = p /\ t[n + 1].val = v
  BY <1>2, <1>3, <1>7 DEF Longer
<1>9. IndexFits(d.index, t, n)
  BY <1>3, <1>8, ReadsSame DEF ObjectReads
<1>10. PICK g : g = [pos |-> n + 1, gone |-> v = None]
  OBVIOUS
<1>11. e.index = Put(d.index, p, g) /\ e.resident = Put(d.resident, p, v) /\ g.pos = n + 1
  BY <1>3, <1>10 DEF Puts, IsRecordOf
<1>12. /\ DOMAIN e.index = DOMAIN d.index \cup {p} /\ e.index[p].pos = n + 1
       /\ \A q \in DOMAIN d.index : q # p => e.index[q] = d.index[q]
  BY <1>11 DEF Put
<1>13. IndexFits(e.index, t, n + 1)
  BY <1>8, <1>9, <1>11, ReadsNext
<1>14. Reads(t, n + 1, p, v)
  BY <1>8, ReadsNext
<1>15. ASSUME NEW q \in DOMAIN e.resident PROVE Reads(t, n + 1, q, e.resident[q])
  <2>1. CASE q = p
    BY <1>11, <1>14, <2>1 DEF Put
  <2>2. CASE q # p
    <3>1. q \in DOMAIN d.resident /\ e.resident[q] = d.resident[q]
      BY <1>11, <2>2 DEF Put
    <3>2. Reads(s, n, q, d.resident[q])
      BY <1>3, <3>1 DEF ObjectReads
    <3>3. Reads(t, n, q, d.resident[q])
      BY <1>8, <3>2, ReadsSame
    <3> QED
      BY <1>8, <2>2, <3>1, <3>3, ReadsNext
  <2> QED
    BY <2>1, <2>2
<1> QED
  BY <1>1, <1>7, <1>8, <1>12, <1>13, <1>14, <1>15 DEF ObjectReads, Took

-----------------------------------------------------------------------------
(* Calls that write no record read what was read before.                   *)

StillReads(d, e) == IsDb(e) /\ SameReads(d, e)

\* So do two such calls in a row.
LEMMA StillReadsTransitive ==
    ASSUME NEW d, NEW e, NEW f, StillReads(d, e), StillReads(e, f)
    PROVE  StillReads(d, f)
BY SameReadsTransitive DEF StillReads

\* The fields a record is not in.
LEMMA ReadsField ==
    ASSUME NEW d, IsDb(d), NEW v, NEW e,
           \/ e = [d EXCEPT !.pending = v] \/ e = [d EXCEPT !.appends = v]
           \/ e = [d EXCEPT !.sidecarDirty = v] \/ e = [d EXCEPT !.dirty = {}]
           \/ e = [d EXCEPT !.log = v] /\ IsSeq(v)
    PROVE  StillReads(d, e)
<1>1. CASE e = [d EXCEPT !.pending = v]
  BY <1>1 DEF IsDb, StillReads, SameReads
<1>2. CASE e = [d EXCEPT !.appends = v]
  BY <1>2 DEF IsDb, StillReads, SameReads
<1>3. CASE e = [d EXCEPT !.sidecarDirty = v]
  BY <1>3 DEF IsDb, StillReads, SameReads
<1>4. CASE e = [d EXCEPT !.dirty = {}]
  BY <1>4, FS_EmptySet DEF IsDb, StillReads, SameReads
<1>5. CASE e = [d EXCEPT !.log = v] /\ IsSeq(v)
  BY <1>5 DEF IsDb, StillReads, SameReads
<1> QED
  BY <1>1, <1>2, <1>3, <1>4, <1>5

\* Trimming drops resident records only (database.cpp:3265-3298).
LEMMA ReadsTrimmed ==
    ASSUME NEW d, IsDb(d), NEW S, NEW v, v = Without(d.resident, S), NEW e, e = [d EXCEPT !.resident = v]
    PROVE  StillReads(d, e)
<1>1. DOMAIN v \in SUBSET (DOMAIN d.resident) /\ \A p \in DOMAIN v : v[p] = d.resident[p]
  BY DEF Without, Restrict
<1>2. IsDb(e) /\ e.resident = v /\ e.index = d.index /\ e.buffer = d.buffer
  BY DEF IsDb
<1> QED
  BY <1>1, <1>2 DEF StillReads, SameReads

\* Writing rows and links (database.cpp:1541-1576).
LEMMA ReadsRow ==
    ASSUME NEW d, IsDb(d), NEW id, NEW row, NEW e, e = WriteRow(d, id, row)
    PROVE  StillReads(d, e)
<1>1. IsDb(e) /\ SameEvidence(d, e)
  BY WriteRowGrows DEF Grows
<1>2. e.resident = d.resident
  BY DEF WriteRow, IsDb
<1> QED
  BY <1>1, <1>2 DEF StillReads, SameReads, SameEvidence

\* Linking two children writes rows alone.
LEMMA ReadsLink ==
    ASSUME NEW d, IsDb(d), NEW p, NEW l, NEW r, NEW e, e = LinkChildren(d, p, l, r)
    PROVE  StillReads(d, e)
<1>1. IsDb(e) /\ SameEvidence(d, e)
  BY LinkChildrenGrows DEF Grows
<1>2. e.resident = d.resident
  BY DEF LinkChildren, IsDb
<1> QED
  BY <1>1, <1>2 DEF StillReads, SameReads, SameEvidence

\* Nor does doing nothing.
LEMMA ReadsSelf ==
    ASSUME NEW d, IsDb(d)
    PROVE  StillReads(d, d)
BY DEF StillReads, SameReads

\* Splitting (database.cpp:1507-1579).
LEMMA ReadsSplit ==
    ASSUME NEW d, IsDb(d), NEW p, NEW e, e = SplitStep(d, p)
    PROVE  StillReads(d, e)
<1> DEFINE l == NextId(d)
           d1 == WriteRow(d, l, Leaf(Append(p, 0)))
           d2 == WriteRow(d1, l + 1, Leaf(Append(p, 1)))
           d3 == LinkChildren(d2, p, l, l + 1)
           log == IF d.bulk THEN d3.log
                  ELSE Append(d3.log, [type |-> "split", node |-> IdOf(d, p),
                                       left |-> l, right |-> l + 1])
           f == [d3 EXCEPT !.pending = TRUE, !.log = log]
<1>1. CASE ~HasRow(d, p) \/ ~IsLeaf(d, p) \/ Len(p) + 1 >= MaxTreeDepth
  BY <1>1, ReadsSelf DEF SplitStep
<1>2. CASE ~(~HasRow(d, p) \/ ~IsLeaf(d, p) \/ Len(p) + 1 >= MaxTreeDepth)
  <2>1. e = f
    BY <1>2 DEF SplitStep
  <2> HIDE DEF l
  <2>2. StillReads(d, d1)
    BY ReadsRow
  <2>3. StillReads(d1, d2)
    BY <2>2, ReadsRow DEF StillReads
  <2> HIDE DEF d2
  <2>4. StillReads(d2, d3)
    BY <2>3, ReadsLink DEF StillReads
  <2> HIDE DEF d3
  <2>5. StillReads(d, d3)
    BY <2>2, <2>3, <2>4, StillReadsTransitive
  <2>6. IsSeq(log)
    BY <2>5, SeqAppend DEF StillReads, IsDb
  <2> HIDE DEF log
  <2>7. PICK g : g = [d3 EXCEPT !.pending = TRUE]
    OBVIOUS
  <2>8. StillReads(d3, g) /\ IsDb(g)
    BY <2>5, <2>7, ReadsField DEF StillReads
  <2>9. f = [g EXCEPT !.log = log]
    BY <2>5, <2>7 DEF StillReads, IsDb
  <2>10. StillReads(g, f)
    BY <2>6, <2>8, <2>9, ReadsField
  <2> QED
    BY <2>1, <2>5, <2>8, <2>10, StillReadsTransitive
<1> QED
  BY <1>1, <1>2

\* Splitting all the way to a node writes no record.
LEMMA ReadsAlong ==
    ASSUME NEW d, IsDb(d), NEW p, IsSeq(p), NEW e, e = SplitAlong(d, p)
    PROVE  StillReads(d, e)
<1>1. Len(p) \in Nat
  BY SeqShape
<1>2. PICK after : /\ SplitAlong(d, p) = after[Len(p)] /\ after[0] = d
                   /\ \A k \in 1..Len(p) : after[k] = SplitStep(after[k - 1], SubSeq(p, 1, k - 1))
  BY <1>1, SplitAlongUnfolds
<1> DEFINE T == {k \in 0..Len(p) : StillReads(d, after[k])}
<1>3. 0 \in T
  BY <1>1, <1>2, ReadsSelf
<1>4. ASSUME NEW k \in 1..Len(p), k - 1 \in T PROVE k \in T
  <2>1. PICK b : b = after[k - 1]
    OBVIOUS
  <2>2. StillReads(d, b) /\ IsDb(b)
    BY <1>4, <2>1 DEF StillReads
  <2>3. StillReads(b, after[k])
    BY <1>2, <2>1, <2>2, ReadsSplit
  <2> QED
    BY <1>1, <2>2, <2>3, StillReadsTransitive
<1>5. Len(p) \in T
  <2> HIDE DEF T
  <2>1. \A k \in 0..Len(p) : k \in T
    BY <1>1, <1>3, <1>4, UpTo
  <2> QED
    BY <1>1, <2>1
<1> QED
  BY <1>2, <1>5

\* Saving (database.cpp:3188-3298).
LEMMA ReadsSaved ==
    ASSUME NEW d, IsDb(d)
    PROVE  /\ StillReads(d, EvidenceSaved(d)) /\ StillReads(d, PagesSaved(d))
           /\ StillReads(d, MaybeFlushed(d)) /\ StillReads(d, Trimmed(d))
<1>1. ASSUME NEW x, IsDb(x) PROVE StillReads(x, EvidenceSaved(x)) /\ StillReads(x, PagesSaved(x))
  BY <1>1, ReadsField DEF EvidenceSaved, PagesSaved
<1>2. StillReads(d, d)
  BY ReadsSelf
<1>3. PICK e : e = EvidenceSaved(d)
  OBVIOUS
<1>4. StillReads(d, e) /\ IsDb(e)
  BY <1>1, <1>3 DEF StillReads
<1>5. PICK f : f = PagesSaved(e)
  OBVIOUS
<1>6. StillReads(e, f) /\ IsDb(f)
  BY <1>1, <1>4, <1>5 DEF StillReads
<1>7. PICK g : g = [f EXCEPT !.appends = 0]
  OBVIOUS
<1>8. StillReads(f, g)
  BY <1>6, <1>7, ReadsField
<1>9. StillReads(d, g)
  BY <1>4, <1>6, <1>8, StillReadsTransitive
<1>10. MaybeFlushed(d) = IF FlushDue(d) THEN g ELSE d
  BY <1>3, <1>5, <1>7 DEF MaybeFlushed
<1>11. PICK S : S = DOMAIN d.index
  OBVIOUS
<1>12. PICK v : v = Without(e.resident, S)
  OBVIOUS
<1>13. PICK h : h = [e EXCEPT !.resident = v]
  OBVIOUS
<1>14. StillReads(e, h)
  BY <1>4, <1>12, <1>13, ReadsTrimmed
<1>15. StillReads(d, h)
  BY <1>4, <1>14, StillReadsTransitive
<1>16. Trimmed(d) = IF TrimDue(d) THEN h ELSE d
  <2>1. [EvidenceSaved(d) EXCEPT !.resident = Without(@, DOMAIN d.index)] = h
    BY <1>3, <1>11, <1>12, <1>13
  <2> QED
    BY <2>1 DEF Trimmed
<1>17. StillReads(d, MaybeFlushed(d))
  BY <1>2, <1>9, <1>10
<1>18. StillReads(d, Trimmed(d))
  BY <1>2, <1>15, <1>16
<1> QED
  BY <1>1, <1>17, <1>18

\* Replaying a split (database.cpp:3513-3561).
LEMMA ReadsReplay ==
    ASSUME NEW d0, IsDb(d0), NEW t, t.type = "split", NEW e, e = ReplayStep(d0, t)
    PROVE  StillReads(d0, e)
<1> DEFINE d == [d0 EXCEPT !.pending = TRUE]
           p == d.rows[t.node].path
           d1 == IF t.left \in DOMAIN d.rows THEN d ELSE WriteRow(d, t.left, Leaf(Append(p, 0)))
           d2 == IF t.right \in DOMAIN d1.rows THEN d1
                 ELSE WriteRow(d1, t.right, Leaf(Append(p, 1)))
<1>1. StillReads(d0, d) /\ IsDb(d)
  <2>1. StillReads(d0, d)
    BY ReadsField
  <2> QED
    BY <2>1 DEF StillReads
<1>2. e = d \/ e = LinkChildren(d2, p, t.left, t.right)
  BY Zenon DEF ReplayStep
<1> HIDE DEF d
<1>3. CASE e = LinkChildren(d2, p, t.left, t.right)
  <2> HIDE DEF p
  <2>1. StillReads(d, d1)
    <3>1. StillReads(d, WriteRow(d, t.left, Leaf(Append(p, 0))))
      BY <1>1, ReadsRow
    <3> QED
      BY <1>1, <3>1, ReadsSelf
  <2> HIDE DEF d1
  <2>2. StillReads(d1, d2)
    <3>1. StillReads(d1, WriteRow(d1, t.right, Leaf(Append(p, 1))))
      BY <2>1, ReadsRow DEF StillReads
    <3> QED
      BY <2>1, <3>1, ReadsSelf DEF StillReads
  <2> HIDE DEF d2
  <2>3. StillReads(d2, e)
    BY <1>3, <2>2, ReadsLink DEF StillReads
  <2> QED
    BY <1>1, <2>1, <2>2, <2>3, StillReadsTransitive
<1> QED
  BY <1>1, <1>2, <1>3

-----------------------------------------------------------------------------
(* Reading a journal: the last record of a path among the first n entries. *)

IsRecord(t) == t.type # "split"
EntryAt(J, n, p, k) ==
    /\ k \in 1..n /\ IsRecord(J[k]) /\ J[k].path = p
    /\ \A j \in 1..n : j > k /\ IsRecord(J[j]) => J[j].path # p
EntryLast(J, n, p, v) == \E k \in 1..n : EntryAt(J, n, p, k) /\ J[k].val = v
EntryNone(J, n, p) == \A k \in 1..n : IsRecord(J[k]) => J[k].path # p

\* A journal has one last record of a path, or none.
LEMMA EntryUnique ==
    ASSUME NEW J, NEW n \in Nat, NEW p, NEW v, EntryLast(J, n, p, v)
    PROVE  ~EntryNone(J, n, p) /\ \A w : EntryLast(J, n, p, w) => w = v
<1>1. PICK k \in 1..n : EntryAt(J, n, p, k) /\ J[k].val = v
  BY DEF EntryLast
<1>2. ~EntryNone(J, n, p)
  BY <1>1 DEF EntryAt, EntryNone
<1>3. ASSUME NEW j \in 1..n, EntryAt(J, n, p, j) PROVE j = k
  <2>1. ~(j > k) /\ ~(k > j)
    BY <1>1, <1>3 DEF EntryAt
  <2> QED
    BY <2>1
<1>4. ASSUME NEW w, EntryLast(J, n, p, w) PROVE w = v
  BY <1>1, <1>3, <1>4 DEF EntryLast
<1> QED
  BY <1>2, <1>4

\* Two journals that agree have the same last records.
LEMMA EntrySame ==
    ASSUME NEW J, NEW K, NEW n \in Nat, Agree(J, K, n)
    PROVE  \A p : /\ EntryNone(J, n, p) => EntryNone(K, n, p)
                  /\ \A v : EntryLast(J, n, p, v) => EntryLast(K, n, p, v)
<1>1. \A p, k : EntryAt(J, n, p, k) => EntryAt(K, n, p, k)
  BY DEF Agree, EntryAt
<1>2. ASSUME NEW p, NEW v, EntryLast(J, n, p, v) PROVE EntryLast(K, n, p, v)
  BY <1>1, <1>2 DEF EntryLast, Agree
<1>3. ASSUME NEW p, EntryNone(J, n, p) PROVE EntryNone(K, n, p)
  BY <1>3 DEF EntryNone, Agree
<1> QED
  BY <1>2, <1>3

\* One more entry: the record of another path, or a split, changes nothing.
Concerns(t, p) == IsRecord(t) /\ t.path = p
\* One more entry is the last record of its own path and of no other.
LEMMA EntryNext ==
    ASSUME NEW J, NEW n \in Nat
    PROVE  \A p : /\ Concerns(J[n + 1], p) => EntryLast(J, n + 1, p, J[n + 1].val)
                  /\ ~Concerns(J[n + 1], p) =>
                        /\ EntryNone(J, n, p) => EntryNone(J, n + 1, p)
                        /\ \A v : EntryLast(J, n, p, v) => EntryLast(J, n + 1, p, v)
<1>1. n + 1 \in 1..(n + 1) /\ \A j \in 1..(n + 1) : j \in 1..n \/ j = n + 1
  OBVIOUS
<1>2. \A j \in 1..n : j \in 1..(n + 1) /\ j < n + 1
  OBVIOUS
<1>3. ASSUME NEW p, Concerns(J[n + 1], p) PROVE EntryLast(J, n + 1, p, J[n + 1].val)
  <2>1. EntryAt(J, n + 1, p, n + 1)
    BY <1>1, <1>3 DEF EntryAt, Concerns
  <2> QED
    BY <1>1, <2>1 DEF EntryLast
<1>4. ASSUME NEW p, ~Concerns(J[n + 1], p), EntryNone(J, n, p) PROVE EntryNone(J, n + 1, p)
  BY <1>1, <1>4 DEF EntryNone, Concerns
<1>5. ASSUME NEW p, ~Concerns(J[n + 1], p), NEW v, EntryLast(J, n, p, v) PROVE EntryLast(J, n + 1, p, v)
  <2>1. PICK k \in 1..n : EntryAt(J, n, p, k) /\ J[k].val = v
    BY <1>5 DEF EntryLast
  <2>2. EntryAt(J, n + 1, p, k)
    BY <1>1, <1>2, <1>5, <2>1 DEF EntryAt, Concerns
  <2> QED
    BY <1>2, <2>1, <2>2 DEF EntryLast
<1> QED
  BY <1>3, <1>4, <1>5

-----------------------------------------------------------------------------
(* What open rebuilds reads, for each path, the last record the journal has *)
(* of it, and without one what the store has.                               *)

FromJournal(J, k, m, s, p) ==
    \/ \E v : EntryLast(J, k, p, v) /\ Reads(s, Len(s), p, v)
    \/ EntryNone(J, k, p) /\ Silent(s, m, Len(s), p)
Replaying(e, d, J, k, m, s) ==
    /\ ObjectReads(e, s)
    /\ \A p \in DOMAIN e.index : p \in DOMAIN d.paths
    /\ \A p : FromJournal(J, k, m, s, p)

\* An entry that is no record of the path leaves it as it was.
LEMMA FromJournalSame ==
    ASSUME NEW J, NEW n \in Nat, NEW m, NEW s, NEW p, FromJournal(J, n, m, s, p),
           ~Concerns(J[n + 1], p)
    PROVE  FromJournal(J, n + 1, m, s, p)
BY EntryNext DEF FromJournal

\* Replaying a record appends it to the store.
LEMMA FromJournalNext ==
    ASSUME NEW J, NEW n \in Nat, NEW m \in Nat, NEW s, NEW t, NEW x, Longer(t, s, x), NEW p,
           Concerns(J[n + 1], x.path), J[n + 1].val = x.val, FromJournal(J, n, m, s, p)
    PROVE  FromJournal(J, n + 1, m, t, p)
<1>1. PICK z \in Nat : z = Len(s)
  BY DEF Longer
<1>2. Len(t) = z + 1 /\ t[z + 1] = x /\ Agree(s, t, z)
  BY <1>1 DEF Longer
<1>3. CASE p = x.path
  <2>1. Reads(t, z + 1, p, x.val)
    BY <1>2, <1>3, ReadsNext
  <2>2. EntryLast(J, n + 1, p, x.val)
    BY <1>3, EntryNext
  <2> QED
    BY <1>2, <2>1, <2>2 DEF FromJournal
<1>4. CASE p # x.path
  <2>1. ~Concerns(J[n + 1], p)
    BY <1>4 DEF Concerns
  <2>2. ASSUME NEW v, EntryLast(J, n, p, v), Reads(s, z, p, v) PROVE FromJournal(J, n + 1, m, t, p)
    <3>1. Reads(t, z, p, v)
      BY <1>2, <2>2, ReadsSame
    <3>2. Reads(t, z + 1, p, v)
      BY <1>2, <1>4, <3>1, ReadsNext
    <3>3. EntryLast(J, n + 1, p, v)
      BY <2>1, <2>2, EntryNext
    <3> QED
      BY <1>2, <3>2, <3>3 DEF FromJournal
  <2>3. ASSUME EntryNone(J, n, p), Silent(s, m, z, p) PROVE FromJournal(J, n + 1, m, t, p)
    <3>1. EntryNone(J, n + 1, p)
      BY <2>1, <2>3, EntryNext
    <3>2. Silent(t, m, z + 1, p)
      <4>1. ASSUME NEW j \in 1..(z + 1), j > m PROVE t[j].path # p
        <5>1. CASE j = z + 1
          BY <1>2, <1>4, <5>1
        <5>2. CASE j \in 1..z
          BY <1>2, <2>3, <4>1, <5>2 DEF Silent, Agree
        <5> QED
          BY <5>1, <5>2
      <4> QED
        BY <4>1 DEF Silent
    <3> QED
      BY <1>2, <3>1, <3>2 DEF FromJournal
  <2> QED
    BY <1>1, <2>2, <2>3 DEF FromJournal
<1> QED
  BY <1>3, <1>4

\* One transaction (database.cpp:3513-3591).
LEMMA ReplayReads ==
    ASSUME IsSeq(store), NEW d, NEW J, NEW k \in Nat,
           NEW b, IsDb(b), NEW s, s = store \o b.buffer, Replaying(b, d, J, k, Len(store), s),
           IsRecord(J[k + 1]) => J[k + 1].path \in DOMAIN d.paths /\ Known(b, J[k + 1].path),
           NEW e, e = ReplayStep(b, J[k + 1]), NEW t, t = store \o e.buffer
    PROVE  IsDb(e) /\ Replaying(e, d, J, k + 1, Len(store), t)
<1>1. PICK x : x = J[k + 1]
  OBVIOUS
<1>2. CASE x.type = "split"
  <2>1. StillReads(b, e)
    BY <1>1, <1>2, ReadsReplay
  <2>2. IsDb(e) /\ SameReads(b, e) /\ e.index = b.index /\ t = s
    BY <2>1 DEF StillReads, SameReads
  <2>3. ObjectReads(e, t)
    BY <2>2, SameReadsRead DEF Replaying
  <2>4. \A p : ~Concerns(J[k + 1], p)
    BY <1>1, <1>2 DEF Concerns, IsRecord
  <2>5. \A p : FromJournal(J, k + 1, Len(store), t, p)
    BY <2>2, <2>4, FromJournalSame DEF Replaying
  <2> QED
    BY <2>2, <2>3, <2>5 DEF Replaying
<1>3. CASE x.type # "split"
  <2>1. PICK p : p = x.path
    OBVIOUS
  <2>2. PICK v : v = x.val
    OBVIOUS
  <2>3. p \in DOMAIN d.paths /\ Known(b, p) /\ Concerns(x, p)
    BY <1>1, <1>3, <2>1 DEF IsRecord, Concerns
  <2>4. PICK r : r = Put(b.resident, p, v)
    OBVIOUS
  <2>5. PICK c : c = [b EXCEPT !.resident = r, !.pending = TRUE]
    OBVIOUS
  <2>6. e = AppendRecord(c, p, v)
    <3>1. PICK f : f = [b EXCEPT !.pending = TRUE]
      OBVIOUS
    <3>2. PICK g : g = [f EXCEPT !.resident = Put(@, x.path, x.val)]
      OBVIOUS
    <3>3. Known(f, x.path)
      BY <2>1, <2>3, <3>1 DEF IsDb, Known
    <3>4. g = c
      <4>1. f.resident = b.resident /\ IsDb(f)
        BY <3>1 DEF IsDb
      <4>2. g = [f EXCEPT !.resident = r]
        BY <2>1, <2>2, <2>4, <3>2, <4>1
      <4> QED
        BY <2>5, <3>1, <4>2 DEF IsDb
    <3>5. ReplayStep(b, x) = AppendRecord(g, x.path, x.val)
      BY <1>3, <3>1, <3>2, <3>3, Zenon DEF ReplayStep
    <3> QED
      BY <1>1, <2>1, <2>2, <3>4, <3>5
  <2>7. PICK n : n = Len(s) + 1
    OBVIOUS
  <2>8. IsDb(e) /\ IsRecordOf(e, b, r, p, v, n)
    BY <2>5, <2>6, <2>7, RecordFields
  <2>9. /\ Longer(t, s, Record(p, v)) /\ ObjectReads(e, t)
        /\ DOMAIN e.index = DOMAIN b.index \cup {p}
    <3>1. ObjectReads(b, s) /\ IsStoreOf(s, b) /\ IsStoreOf(t, e)
      BY DEF Replaying, IsStoreOf
    <3>2. Puts(e, b, s, p, v)
      BY <2>4, <2>7, <2>8 DEF Puts
    <3>3. Took(t, s, e, b, p, v)
      BY <3>1, <3>2, RecordReads
    <3> QED
      BY <3>3 DEF Took
  <2>10. PICK y : y = Record(p, v)
    OBVIOUS
  <2>11. y.path = p /\ y.val = v
    BY <2>10 DEF Record
  <2>12. Len(store) \in Nat
    BY SeqShape
  <2>13. ASSUME NEW q PROVE FromJournal(J, k + 1, Len(store), t, q)
    <3>1. FromJournal(J, k, Len(store), s, q)
      BY DEF Replaying
    <3> QED
      <4>1. Longer(t, s, y)
        BY <2>9, <2>10
      <4>2. Concerns(J[k + 1], y.path) /\ J[k + 1].val = y.val
        BY <1>1, <2>2, <2>3, <2>11
      <4> QED
        BY <2>12, <3>1, <4>1, <4>2, FromJournalNext
  <2>14. \A q \in DOMAIN e.index : q \in DOMAIN d.paths
    BY <2>3, <2>9 DEF Replaying
  <2> QED
    BY <2>8, <2>9, <2>13, <2>14 DEF Replaying
<1> QED
  BY <1>2, <1>3

\* All of them.
LEMMA ReplayedReads ==
    ASSUME IsSeq(store), IsDb(Loaded), NEW d, NEW G, Good(d, pages, tmps, journal, G),
           Loaded.buffer = <<>>, Loaded.resident = Empty,
           IndexFits(Loaded.index, store, Len(store)),
           \A p \in DOMAIN Loaded.index : p \in DOMAIN d.paths
    PROVE  /\ IsDb(Replayed(journal))
           /\ Replaying(Replayed(journal), d, journal, Len(journal), Len(store),
                        store \o Replayed(journal).buffer)
<1>1. Tree(d) /\ Linked(d) /\ JournalHolds(d, journal)
  BY DEF Good, Explained
<1>2. IsSeq(journal) /\ Len(journal) \in Nat
  BY <1>1, SeqShape DEF JournalHolds
<1>3. PICK after : /\ Replayed(journal) = after[Len(journal)] /\ after[0] = Loaded
                   /\ \A k \in 1..Len(journal) : after[k] = ReplayStep(after[k - 1], journal[k])
                   /\ \A k \in 0..Len(journal) : Partial(after[k], d) /\ Progress(after[k], d, journal, k)
  BY ReplayPoints
<1> DEFINE Read(k, e, s) == IsDb(e) /\ Replaying(e, d, journal, k, Len(store), s)
           S == {k \in 0..Len(journal) : Read(k, after[k], store \o after[k].buffer)}
<1>4. 0 \in S
  <2>1. PICK e : e = after[0]
    OBVIOUS
  <2>2. PICK s : s = store \o e.buffer
    OBVIOUS
  <2>3. e.buffer = <<>> /\ e.resident = Empty /\ e.index = Loaded.index /\ IsDb(e)
    BY <1>3, <2>1
  <2>4. Len(s) = Len(store) /\ Len(store) \in Nat /\ \A i \in 1..Len(store) : s[i] = store[i]
    BY <2>2, <2>3, SeqEmpty, SeqConcat, SeqShape
  <2>5. IndexFits(e.index, s, Len(s))
    BY <2>3, <2>4, ReadsSame DEF Agree
  <2>6. ObjectReads(e, s)
    BY <2>3, <2>5 DEF ObjectReads, Empty
  <2>7. ASSUME NEW p PROVE FromJournal(journal, 0, Len(store), s, p)
    <3>1. EntryNone(journal, 0, p)
      BY DEF EntryNone
    <3>2. Silent(s, Len(store), Len(s), p)
      BY <2>4 DEF Silent
    <3> QED
      BY <3>1, <3>2 DEF FromJournal
  <2>8. Read(0, e, s)
    BY <2>3, <2>6, <2>7 DEF Replaying
  <2> QED
    BY <1>2, <2>1, <2>2, <2>8
<1>5. ASSUME NEW k \in 1..Len(journal), k - 1 \in S PROVE k \in S
  <2>1. PICK b : b = after[k - 1]
    OBVIOUS
  <2>2. PICK e : e = after[k]
    OBVIOUS
  <2>3. PICK s : s = store \o b.buffer
    OBVIOUS
  <2>4. PICK t : t = store \o e.buffer
    OBVIOUS
  <2>5. IsDb(b) /\ Replaying(b, d, journal, k - 1, Len(store), s)
    BY <1>5, <2>1, <2>3
  <2>6. PICK j \in Nat : j = k - 1
    BY <1>2
  <2>7. j + 1 = k /\ e = ReplayStep(b, journal[j + 1])
    BY <1>2, <1>3, <2>1, <2>2, <2>6
  <2>8. ASSUME IsRecord(journal[k])
        PROVE  journal[k].path \in DOMAIN d.paths /\ Known(b, journal[k].path)
    <3>1. journal[k].path \in DOMAIN d.paths
      BY <1>1, <2>8 DEF JournalHolds, EntryKnown, Known, IsRecord
    <3>2. Partial(b, d) /\ Progress(b, d, journal, k - 1)
      BY <1>3, <2>1, <1>2
    <3>3. journal[k].type # "split"
      BY <2>8 DEF IsRecord
    <3>4. Known(b, journal[k].path)
      BY <1>1, <3>2, <3>3, EntryThere
    <3> QED
      BY <3>1, <3>4
  <2>9. Read(k, e, t)
    BY <2>3, <2>4, <2>5, <2>6, <2>7, <2>8, ReplayReads
  <2>10. k \in 0..Len(journal)
    BY <1>2
  <2> QED
    BY <2>2, <2>4, <2>9, <2>10
<1>6. Len(journal) \in S
  <2> HIDE DEF S
  <2>1. \A k \in 0..Len(journal) : k \in S
    BY <1>2, <1>4, <1>5, UpTo
  <2> QED
    BY <1>2, <2>1
<1>7. Read(Len(journal), after[Len(journal)], store \o after[Len(journal)].buffer)
  BY <1>6
<1> QED
  BY <1>3, <1>7
-----------------------------------------------------------------------------
(* The invariant.  A path may be read as what is expected of it, now and,  *)
(* for what the journal has no record of, at every record a kill may leave *)
(* the file with.                                                          *)

\* The values the first n records of a store give are expected.
Expects(E, s, n) == \A p \in Paths : \A v : Reads(s, n, p, v) => v \in E[p]

ObjectFits(d, s, E) ==
    ObjectReads(d, s) /\ (\A p \in DOMAIN d.index : Known(d, p)) /\ Expects(E, s, Len(s))

\* Rebuilt from the journal and any prefix of the buffer, the path reads as
\* expected.
PathFits(J, s, m, E, p) ==
    \/ \E v \in E[p] : EntryLast(J, Len(J), p, v)
    \/ /\ EntryNone(J, Len(J), p)
       /\ \A n \in m..Len(s) : \A v : Reads(s, n, p, v) => v \in E[p]
JournalFits(J, s, m, E) == \A p \in Paths : PathFits(J, s, m, E, p)

SidecarFits(c, s) == c.size \in -1..Len(s) /\ IndexFits(c.index, s, c.size)
SidecarsFit(t, s) == \A c \in Range(t) : c.file = "sidecar" => SidecarFits(c.content, s)

\* A call appends its record first, and what it answers is the last record.
IsEntry(c) == c.act = "append" /\ IsRecord(c.content)
Answered(t, J, p, v) ==
    IF IsEntry(t[1]) THEN Concerns(t[1].content, p) /\ t[1].content.val = v
    ELSE EntryLast(J, Len(J), p, v)
AnswerFits(t, c, s, J) ==
    \E v : c.content = {v} /\ Reads(s, Len(s), c.key, v) /\ Answered(t, J, c.key, v)
AnswersFit(t, s, J, E) ==
    \A k \in 1..Len(t) :
        /\ IsEntry(t[k]) => k = 1 /\ t[k].content.val \in E[t[k].content.path]
        /\ t[k].act = "value" => AnswerFits(t, t[k], s, J)
Mute(t) == \A c \in Range(t) : ~IsEntry(c) /\ c.act # "value"

EvidenceHolds ==
    /\ JournalFits(journal, store \o db.buffer, Len(store), expected)
    /\ SidecarFits(sidecar, store)
    /\ status = "open" =>
         /\ ObjectFits(db, store \o db.buffer, expected)
         /\ SidecarsFit(todo, store \o db.buffer)
         /\ AnswersFit(todo, store \o db.buffer, journal, expected)
EvidenceInv == "unjournaled" \notin risks => EvidenceHolds

\* Changes that answer nothing ask nothing.
LEMMA MuteFits ==
    ASSUME NEW t, IsSeq(t), Mute(t), NEW s, NEW J, NEW E
    PROVE  AnswersFit(t, s, J, E)
<1>1. \A k \in 1..Len(t) : t[k] \in Range(t)
  BY SeqShape
<1> QED
  BY <1>1 DEF Mute, AnswersFit

\* Changes of the evidence files one after the other.
LEMMA FitsConcat ==
    ASSUME NEW t, NEW u, IsSeq(t), IsSeq(u), NEW s
    PROVE  /\ IsSeq(t \o u)
           /\ SidecarsFit(t, s) /\ SidecarsFit(u, s) => SidecarsFit(t \o u, s)
           /\ Mute(t) /\ Mute(u) => Mute(t \o u)
BY SeqConcat DEF SidecarsFit, Mute

\* A longer store does not change what a sidecar says of its beginning.
LEMMA SidecarLonger ==
    ASSUME NEW s, NEW t, Len(s) \in Nat, Len(t) \in Nat, Len(s) <= Len(t), Agree(s, t, Len(s)),
           NEW c, SidecarFits(c, s)
    PROVE  SidecarFits(c, t)
<1>1. PICK n : n = c.size
  OBVIOUS
<1>2. n \in -1..Len(s) /\ IndexFits(c.index, s, n)
  BY <1>1 DEF SidecarFits
<1>3. n \in -1..Len(t) /\ Agree(s, t, n)
  BY <1>2 DEF Agree
<1>4. IndexFits(c.index, t, n)
  BY <1>2, <1>3, ReadsSame
<1> QED
  BY <1>1, <1>3, <1>4 DEF SidecarFits

\* The pieces the calls are made of.
LEMMA FitsPieces ==
    ASSUME NEW s
    PROVE  /\ Mute(<<>>) /\ SidecarsFit(<<>>, s)
           /\ Mute(ManifestWrites) /\ SidecarsFit(ManifestWrites, s)
           /\ Mute(FlushStore) /\ SidecarsFit(FlushStore, s)
           /\ Mute(TruncateJournal) /\ SidecarsFit(TruncateJournal, s)
           /\ \A d : Mute(ReturnNodes(d)) /\ SidecarsFit(ReturnNodes(d), s)
           /\ \A p, v : SidecarsFit(ReturnValue(p, v), s)
<1>1. Range(ManifestWrites) = {Change("manifest", "remove", 0, 0), Change("manifest", "rename", 0, 0)}
  BY SeqPair DEF ManifestWrites, Replace
<1>2. Range(FlushStore) = {Change("store", "flush", 0, 0)}
  BY SeqSingle DEF FlushStore
<1>3. Range(TruncateJournal) = {Change("journal", "truncate", 0, 0)}
  BY SeqSingle DEF TruncateJournal
<1>4. \A d : \E x : Range(ReturnNodes(d)) = {Change("return", "nodes", 0, x)}
  BY SeqSingle DEF ReturnNodes
<1>5. \A p, v : Range(ReturnValue(p, v)) = {Change("return", "value", p, v)}
  BY SeqSingle DEF ReturnValue
<1>6. Range(<<>>) = {}
  BY SeqEmpty
<1>7. /\ \A key, x : Change("manifest", "remove", key, x).file # "sidecar"
      /\ \A f, key, x : Change(f, "remove", key, x).act = "remove"
      /\ \A f, key, x : Change(f, "rename", key, x).act = "rename"
      /\ \A f, a, key, x : Change(f, a, key, x).file = f /\ Change(f, a, key, x).act = a
  BY DEF Change
<1>8. /\ Mute(<<>>) /\ SidecarsFit(<<>>, s)
  BY <1>6 DEF Mute, SidecarsFit
<1>9. Mute(ManifestWrites) /\ SidecarsFit(ManifestWrites, s)
  BY <1>1, <1>7 DEF Mute, SidecarsFit, IsEntry
<1>10. Mute(FlushStore) /\ SidecarsFit(FlushStore, s)
  BY <1>2, <1>7 DEF Mute, SidecarsFit, IsEntry
<1>11. Mute(TruncateJournal) /\ SidecarsFit(TruncateJournal, s)
  BY <1>3, <1>7 DEF Mute, SidecarsFit, IsEntry
<1>12. ASSUME NEW d PROVE Mute(ReturnNodes(d)) /\ SidecarsFit(ReturnNodes(d), s)
  BY <1>4, <1>7 DEF Mute, SidecarsFit, IsEntry
<1>13. ASSUME NEW p, NEW v PROVE SidecarsFit(ReturnValue(p, v), s)
  BY <1>5, <1>7 DEF SidecarsFit
<1> QED
  BY <1>8, <1>9, <1>10, <1>11, <1>12, <1>13
\* A split journals splits.
Splits(log) == IsSeq(log) /\ \A t \in Range(log) : t.type = "split"

\* A split logs nothing but splits.
LEMMA SplitsLogged ==
    ASSUME NEW d, IsDb(d), Splits(d.log), NEW p, NEW e, e = SplitStep(d, p)
    PROVE  Splits(e.log)
<1> DEFINE l == NextId(d)
           d1 == WriteRow(d, l, Leaf(Append(p, 0)))
           d2 == WriteRow(d1, l + 1, Leaf(Append(p, 1)))
           d3 == LinkChildren(d2, p, l, l + 1)
           t == [type |-> "split", node |-> IdOf(d, p), left |-> l, right |-> l + 1]
           log == IF d.bulk THEN d3.log ELSE Append(d3.log, t)
<1>1. CASE ~HasRow(d, p) \/ ~IsLeaf(d, p) \/ Len(p) + 1 >= MaxTreeDepth
  BY <1>1 DEF SplitStep
<1>2. CASE ~(~HasRow(d, p) \/ ~IsLeaf(d, p) \/ Len(p) + 1 >= MaxTreeDepth)
  <2>1. e = [d3 EXCEPT !.pending = TRUE, !.log = log]
    BY <1>2 DEF SplitStep
  <2> HIDE DEF l
  <2>2. IsDb(d1) /\ d1.log = d.log
    BY WriteRowGrows DEF Grows
  <2> HIDE DEF d1
  <2>3. IsDb(d2) /\ d2.log = d1.log
    BY <2>2, WriteRowGrows DEF Grows
  <2> HIDE DEF d2
  <2>4. IsDb(d3) /\ d3.log = d2.log
    BY <2>3, LinkChildrenGrows DEF Grows
  <2> HIDE DEF d3
  <2>5. t.type = "split"
    OBVIOUS
  <2> HIDE DEF t
  <2>6. Splits(log)
    BY <2>2, <2>3, <2>4, <2>5, SeqAppend DEF Splits
  <2> HIDE DEF log
  <2>7. e.log = log
    BY <2>1, <2>4 DEF IsDb
  <2> QED
    BY <2>6, <2>7
<1> QED
  BY <1>1, <1>2

\* So does a row of them.
LEMMA AlongLogged ==
    ASSUME NEW d, IsDb(d), Splits(d.log), NEW p, IsSeq(p), NEW e, e = SplitAlong(d, p)
    PROVE  Splits(e.log)
<1>1. Len(p) \in Nat
  BY SeqShape
<1>2. PICK after : /\ SplitAlong(d, p) = after[Len(p)] /\ after[0] = d
                   /\ \A k \in 1..Len(p) : after[k] = SplitStep(after[k - 1], SubSeq(p, 1, k - 1))
  BY <1>1, SplitAlongUnfolds
<1> DEFINE T == {k \in 0..Len(p) : IsDb(after[k]) /\ Splits(after[k].log)}
<1>3. 0 \in T
  BY <1>1, <1>2
<1>4. ASSUME NEW k \in 1..Len(p), k - 1 \in T PROVE k \in T
  <2>1. PICK b : b = after[k - 1]
    OBVIOUS
  <2>2. IsDb(b) /\ Splits(b.log)
    BY <1>4, <2>1
  <2>3. PICK q : q = SubSeq(p, 1, k - 1)
    OBVIOUS
  <2>4. after[k] = SplitStep(b, q)
    BY <1>2, <2>1, <2>3
  <2>5. StillReads(b, after[k]) /\ Splits(after[k].log)
    BY <2>2, <2>4, ReadsSplit, SplitsLogged
  <2> QED
    BY <1>1, <2>5 DEF StillReads
<1>5. Len(p) \in T
  <2> HIDE DEF T
  <2>1. \A k \in 0..Len(p) : k \in T
    BY <1>1, <1>3, <1>4, UpTo
  <2> QED
    BY <1>1, <2>1
<1> QED
  BY <1>2, <1>5

\* Splits in the journal are not read, and neither are pages.
LEMMA FitsNodes ==
    ASSUME NEW s
    PROVE  /\ \A log : Splits(log) => IsSeq(JournalWrites(log)) /\ Mute(JournalWrites(log))
                                      /\ SidecarsFit(JournalWrites(log), s)
           /\ \A d, order : IsSeq(order) => IsSeq(PageWrites(d, order)) /\ Mute(PageWrites(d, order))
                                            /\ SidecarsFit(PageWrites(d, order), s)
<1>1. ASSUME NEW log, Splits(log)
      PROVE  IsSeq(JournalWrites(log)) /\ Mute(JournalWrites(log)) /\ SidecarsFit(JournalWrites(log), s)
  <2>1. PICK t : t = JournalWrites(log)
    OBVIOUS
  <2>2. PICK n \in Nat : n = Len(log) /\ DOMAIN log = 1..n /\ \A k \in 1..n : log[k].type = "split"
    BY <1>1, SeqShape DEF Splits
  <2>3. /\ t = [k \in 1..n |-> t[k]]
        /\ \A k \in 1..n : t[k].file = "journal" /\ t[k].act = "append" /\ t[k].content = log[k]
    BY <2>1, <2>2 DEF JournalWrites, Change
  <2>4. IsSeq(t) /\ Range(t) = {t[k] : k \in 1..n}
    BY <2>3, SeqFunction
  <2>5. \A k \in 1..n : ~IsEntry(t[k])
    BY <2>2, <2>3 DEF IsEntry, IsRecord
  <2> QED
    BY <2>1, <2>3, <2>4, <2>5 DEF Mute, SidecarsFit
<1>2. ASSUME NEW d, NEW order, IsSeq(order)
      PROVE  /\ IsSeq(PageWrites(d, order)) /\ Mute(PageWrites(d, order))
             /\ SidecarsFit(PageWrites(d, order), s)
  <2>1. PICK t : t = PageWrites(d, order)
    OBVIOUS
  <2>2. Len(order) \in Nat
    BY <1>2, SeqShape
  <2>3. PICK n \in Nat : n = 2 * Len(order)
    BY <2>2
  <2>4. /\ t = [k \in 1..n |-> t[k]]
        /\ \A k \in 1..n : t[k].file = "page" /\ t[k].act \in {"remove", "rename"}
    BY <2>1, <2>3 DEF PageWrites, Change
  <2>5. IsSeq(t) /\ Range(t) = {t[k] : k \in 1..n}
    BY <2>4, SeqFunction
  <2> QED
    BY <2>1, <2>4, <2>5 DEF Mute, SidecarsFit, IsEntry
<1> QED
  BY <1>1, <1>2

\* The sidecar that is saved fits what the object reads
\* (database.cpp:3188-3264).
LEMMA SidecarSaved ==
    ASSUME NEW c, NEW s, SidecarFits(c, s)
    PROVE  LET t == Replace("sidecar", 0, c)
           IN IsSeq(t) /\ Mute(t) /\ SidecarsFit(t, s)
<1> DEFINE t == Replace("sidecar", 0, c)
           c1 == Change("sidecar", "remove", 0, c)
           c2 == Change("sidecar", "rename", 0, c)
<1>1. IsSeq(t) /\ Range(t) = {c1, c2}
  BY SeqPair DEF Replace
<1>2. /\ c1.act = "remove" /\ c2.act = "rename" /\ c1.content = c /\ c2.content = c
      /\ c1.file = "sidecar" /\ c2.file = "sidecar"
  BY DEF Change
<1> HIDE DEF c1, c2
<1>3. Mute(t) /\ SidecarsFit(t, s)
  BY <1>1, <1>2 DEF Mute, SidecarsFit, IsEntry
<1> QED
  BY <1>1, <1>3

\* Saving evidence and trimming write no entry and return no value, and the
\* sidecar they write is one of the whole store.
LEMMA FitsSaved ==
    ASSUME NEW d, NEW s, IsSeq(s), s = StoreOf(d), ObjectReads(d, s)
    PROVE  /\ IsSeq(SaveEvidence(d)) /\ Mute(SaveEvidence(d)) /\ SidecarsFit(SaveEvidence(d), s)
           /\ IsSeq(Trim(d)) /\ Mute(Trim(d)) /\ SidecarsFit(Trim(d), s)
           /\ \A order : IsSeq(order) => /\ IsSeq(MaybeFlush(d, order)) /\ Mute(MaybeFlush(d, order))
                                         /\ SidecarsFit(MaybeFlush(d, order), s)
<1> DEFINE c == [size |-> Len(StoreOf(d)), index |-> d.index]
<1>1. IsSeq(<<>>) /\ Mute(<<>>) /\ SidecarsFit(<<>>, s)
  BY FitsPieces, SeqEmpty
<1>2. IsSeq(FlushStore) /\ Mute(FlushStore) /\ SidecarsFit(FlushStore, s)
  BY FitsPieces, SeqSingle DEF FlushStore
<1>3. IsSeq(ManifestWrites) /\ Mute(ManifestWrites) /\ SidecarsFit(ManifestWrites, s)
  BY FitsPieces, SeqPair DEF ManifestWrites, Replace
<1>4. SidecarFits(c, s)
  <2>1. c.size = Len(s) /\ c.index = d.index /\ Len(s) \in Nat
    BY SeqShape
  <2> QED
    BY <2>1 DEF SidecarFits, ObjectReads
<1>5. IsSeq(SidecarWrites(d)) /\ Mute(SidecarWrites(d)) /\ SidecarsFit(SidecarWrites(d), s)
  <2> DEFINE u == Replace("sidecar", 0, c)
  <2>1. IsSeq(u) /\ Mute(u) /\ SidecarsFit(u, s)
    BY <1>4, SidecarSaved
  <2>2. SidecarWrites(d) = IF d.sidecarDirty THEN u ELSE <<>>
    BY DEF SidecarWrites
  <2> QED
    BY <1>1, <2>1, <2>2
<1>6. IsSeq(SaveEvidence(d)) /\ Mute(SaveEvidence(d)) /\ SidecarsFit(SaveEvidence(d), s)
  BY <1>2, <1>5, FitsConcat DEF SaveEvidence
<1>7. IsSeq(Trim(d)) /\ Mute(Trim(d)) /\ SidecarsFit(Trim(d), s)
  BY <1>1, <1>6 DEF Trim
<1>8. ASSUME NEW order, IsSeq(order)
      PROVE  /\ IsSeq(MaybeFlush(d, order)) /\ Mute(MaybeFlush(d, order))
             /\ SidecarsFit(MaybeFlush(d, order), s)
  <2>1. PICK a : a = SaveEvidence(d)
    OBVIOUS
  <2>2. PICK b : b = PageWrites(d, order)
    OBVIOUS
  <2>3. IsSeq(b) /\ Mute(b) /\ SidecarsFit(b, s)
    BY <1>8, <2>2, FitsNodes
  <2>4. IsSeq(a \o b) /\ Mute(a \o b) /\ SidecarsFit(a \o b, s)
    BY <1>6, <2>1, <2>3, FitsConcat
  <2>5. PICK u : u = a \o b
    OBVIOUS
  <2>6. LET w == u \o ManifestWrites IN IsSeq(w) /\ Mute(w) /\ SidecarsFit(w, s)
    BY <1>3, <2>4, <2>5, FitsConcat
  <2>7. MaybeFlush(d, order) = IF FlushDue(d) THEN u \o ManifestWrites ELSE <<>>
    BY <2>1, <2>2, <2>5 DEF MaybeFlush
  <2> QED
    BY <1>1, <2>6, <2>7
<1> QED
  BY <1>6, <1>7, <1>8
-----------------------------------------------------------------------------
(* Every call keeps what is read.                                          *)

\* A call that writes no record.
LEMMA CallFits ==
    ASSUME EvidenceHolds, status = "open", UNCHANGED files, expected' = expected, status' = "open",
           db'.buffer = db.buffer, db'.index = db.index, ObjectReads(db', store \o db.buffer),
           DOMAIN db.paths \in SUBSET (DOMAIN db'.paths),
           IsSeq(todo'), Mute(todo'), SidecarsFit(todo', store \o db.buffer)
    PROVE  EvidenceHolds'
<1>1. PICK s : s = store \o db.buffer
  OBVIOUS
<1>2. store' \o db'.buffer = s /\ store' = store /\ sidecar' = sidecar /\ journal' = journal
  BY <1>1 DEF files
<1>3. /\ JournalFits(journal, s, Len(store), expected) /\ SidecarFits(sidecar, store)
      /\ ObjectFits(db, s, expected)
  BY <1>1 DEF EvidenceHolds
<1>4. ObjectFits(db', s, expected)
  BY <1>1, <1>3 DEF ObjectFits, Known
<1>5. AnswersFit(todo', s, journal, expected)
  BY MuteFits
<1>6. PICK t : t = todo'
  OBVIOUS
<1>7. PICK e : e = db'
  OBVIOUS
<1>8. /\ JournalFits(journal', store' \o db'.buffer, Len(store'), expected')
      /\ SidecarFits(sidecar', store')
      /\ ObjectFits(db', store' \o db'.buffer, expected')
      /\ SidecarsFit(todo', store' \o db'.buffer)
      /\ AnswersFit(todo', store' \o db'.buffer, journal', expected')
  BY <1>1, <1>2, <1>3, <1>4, <1>5
<1> QED
  BY <1>8 DEF EvidenceHolds

\* What is known when a call starts.
LEMMA FitsStart ==
    ASSUME DurabilityInv, TypeInv, Recoverable, EvidenceHolds, status = "open", todo = <<>>
    PROVE  /\ IsDb(db) /\ Tree(db) /\ db.log = <<>> /\ db.bulk = FALSE /\ IsSeq(store) /\ IsSeq(journal)
           /\ IsSeq(store \o db.buffer) /\ Len(store) \in Nat /\ Len(store \o db.buffer) \in Nat
           /\ Len(store) <= Len(store \o db.buffer)
           /\ ObjectFits(db, store \o db.buffer, expected) /\ ObjectReads(db, store \o db.buffer)
<1>1. IsDb(db) /\ db.log = <<>> /\ db.bulk = FALSE /\ IsSeq(journal) /\ Tree(db)
  BY CallStart DEF Good
<1>2. IsSeq(store) /\ IsSeq(db.buffer)
  BY DEF DurabilityInv, IsDb
<1>3. IsSeq(store \o db.buffer) /\ Len(store) \in Nat /\ Len(store \o db.buffer) \in Nat
      /\ Len(store) <= Len(store \o db.buffer)
  BY <1>1, <1>2, SeqConcat, StoreLength
<1>4. ObjectFits(db, store \o db.buffer, expected)
  BY DEF EvidenceHolds
<1> QED
  BY <1>1, <1>2, <1>3, <1>4 DEF ObjectFits

\* The calls that split.
LEMMA SplitFits ==
    ASSUME DurabilityInv, TypeInv, Recoverable, EvidenceHolds, status = "open", todo = <<>>,
           UNCHANGED files, expected' = expected, status' = "open",
           NEW d, StillReads(db, d), Splits(d.log), TreeGrows(db, d), NEW e, e = d \/ e = PagesSaved(d),
           db' = [e EXCEPT !.log = <<>>],
           NEW more, IsSeq(more), Mute(more), SidecarsFit(more, store \o db.buffer),
           todo' = JournalWrites(d.log) \o more
    PROVE  EvidenceHolds'
<1>1. PICK s : s = store \o db.buffer
  OBVIOUS
<1>2. ObjectReads(db, s)
  BY <1>1, FitsStart
<1>3. StillReads(db, e) /\ IsDb(e)
  <2>1. IsDb(d)
    BY DEF StillReads
  <2>2. StillReads(d, PagesSaved(d))
    BY <2>1, ReadsSaved
  <2>3. StillReads(db, PagesSaved(d))
    BY <2>2, StillReadsTransitive
  <2> QED
    BY <2>3 DEF StillReads
<1>4. StillReads(db, db')
  <2>1. StillReads(e, db')
    BY <1>3, ReadsField, SeqEmpty
  <2> QED
    BY <1>3, <2>1, StillReadsTransitive
<1>5. db'.buffer = db.buffer /\ db'.index = db.index /\ SameReads(db, db')
  BY <1>4 DEF StillReads, SameReads
<1>6. ObjectReads(db', s)
  BY <1>2, <1>5, SameReadsRead
<1>7. DOMAIN db.paths \in SUBSET (DOMAIN db'.paths)
  <2>1. db'.paths = e.paths
    BY <1>3 DEF IsDb
  <2>2. e.paths = d.paths
    <3>1. IsDb(d)
      BY DEF StillReads
    <3> QED
      BY <3>1 DEF PagesSaved, IsDb
  <2> QED
    BY <2>1, <2>2 DEF TreeGrows
<1>8. IsSeq(JournalWrites(d.log)) /\ Mute(JournalWrites(d.log)) /\ SidecarsFit(JournalWrites(d.log), s)
  BY FitsNodes
<1>9. IsSeq(todo') /\ Mute(todo') /\ SidecarsFit(todo', s)
  <2>1. PICK t : t = JournalWrites(d.log)
    OBVIOUS
  <2>2. IsSeq(t \o more) /\ Mute(t \o more) /\ SidecarsFit(t \o more, s)
    BY <1>1, <1>8, <2>1, FitsConcat
  <2> QED
    BY <2>1, <2>2
<1> QED
  BY <1>1, <1>5, <1>6, <1>7, <1>9, CallFits

\* split_leaf writes no record.
LEMMA SplitLeafFits ==
    ASSUME DurabilityInv, TypeInv, Recoverable, EvidenceHolds, NEW p \in Paths, SplitLeaf(p)
    PROVE  EvidenceHolds'
<1>1. PICK d : d = SplitStep(db, p)
  OBVIOUS
<1>2. /\ UNCHANGED files /\ status = "open" /\ status' = "open" /\ todo = <<>> /\ expected' = expected
      /\ db' = [d EXCEPT !.log = <<>>]
      /\ todo' = JournalWrites(d.log) \o ReturnNodes(d)
  BY <1>1 DEF SplitLeaf, Ready
<1>3. IsDb(db) /\ Tree(db) /\ db.log = <<>>
  BY <1>2, FitsStart
<1>4. StillReads(db, d)
  BY <1>1, <1>3, ReadsSplit
<1>5. Splits(d.log)
  BY <1>1, <1>3, SplitsLogged, SeqEmpty DEF Splits
<1>6. TreeGrows(db, d)
  <2>1. LogSettled(db)
    BY <1>3, SeqEmpty DEF LogSettled
  <2> QED
    BY <1>1, <1>3, <2>1, SplitStepTree
<1>7. PICK more : more = ReturnNodes(d)
  OBVIOUS
<1>8. IsSeq(more) /\ Mute(more) /\ SidecarsFit(more, store \o db.buffer)
  BY <1>7, FitsPieces, PlainPieces DEF IsPlain
<1>9. todo' = JournalWrites(d.log) \o more
  BY <1>2, <1>7
<1> QED
  BY <1>2, <1>4, <1>5, <1>6, <1>8, <1>9, SplitFits

\* split_to_box writes none either.
LEMMA SplitToBoxFits ==
    ASSUME DurabilityInv, TypeInv, Recoverable, EvidenceHolds, NEW p \in Paths,
           NEW exact \in BOOLEAN, SplitToBox(p, exact)
    PROVE  EvidenceHolds'
<1> DEFINE d == SplitAlong(db, p)
           flush == exact /\ \A k \in 0..(Len(p) - 1) : HasRow(d, SubSeq(p, 1, k))
<1>1. PICK order \in Orders(IF flush THEN d.dirty ELSE {}) :
            /\ db' = [IF flush THEN PagesSaved(d) ELSE d EXCEPT !.log = <<>>]
            /\ todo' = JournalWrites(d.log)
                     \o (IF flush THEN PageWrites(d, order) \o ManifestWrites ELSE <<>>)
                     \o ReturnNodes(d)
  BY Zenon DEF SplitToBox
<1>2. UNCHANGED files /\ status = "open" /\ status' = "open" /\ todo = <<>> /\ expected' = expected
  BY DEF SplitToBox, Ready
<1>3. IsDb(db) /\ Tree(db) /\ db.log = <<>> /\ IsSeq(p)
  BY <1>2, FitsStart, PathsSeq
<1>4. StillReads(db, d) /\ IsDb(d)
  BY <1>3, ReadsAlong DEF StillReads
<1>5. Splits(d.log)
  BY <1>3, AlongLogged, SeqEmpty DEF Splits
<1>6. TreeGrows(db, d)
  <2>1. LogSettled(db)
    BY <1>3, SeqEmpty DEF LogSettled
  <2> QED
    BY <1>3, <2>1, SplitAlongTree
<1> HIDE DEF d, flush
<1>7. PICK e : e = IF flush THEN PagesSaved(d) ELSE d
  OBVIOUS
<1>8. db' = [e EXCEPT !.log = <<>>] /\ (e = d \/ e = PagesSaved(d))
  BY <1>1, <1>7
<1>9. PICK s : s = store \o db.buffer
  OBVIOUS
<1>10. IsSeq(order)
  BY <1>1, <1>4, OrdersSeq, FS_EmptySet DEF IsDb
<1>11. PICK s1 : s1 = JournalWrites(d.log)
  OBVIOUS
<1>12. PICK s2 : s2 = IF flush THEN PageWrites(d, order) \o ManifestWrites ELSE <<>>
  OBVIOUS
<1>13. PICK s3 : s3 = ReturnNodes(d)
  OBVIOUS
<1>14. IsSeq(s2) /\ Mute(s2) /\ SidecarsFit(s2, s)
  <2>1. PICK t : t = PageWrites(d, order)
    OBVIOUS
  <2>2. IsSeq(t) /\ Mute(t) /\ SidecarsFit(t, s)
    BY <1>10, <2>1, FitsNodes
  <2>3. IsSeq(ManifestWrites) /\ Mute(ManifestWrites) /\ SidecarsFit(ManifestWrites, s)
    BY FitsPieces, SeqPair DEF ManifestWrites, Replace
  <2>4. LET u == t \o ManifestWrites IN IsSeq(u) /\ Mute(u) /\ SidecarsFit(u, s)
    BY <2>2, <2>3, FitsConcat
  <2> QED
    BY <1>12, <2>1, <2>4, FitsPieces, SeqEmpty
<1>15. IsSeq(s3) /\ Mute(s3) /\ SidecarsFit(s3, s)
  BY <1>13, FitsPieces, PlainPieces DEF IsPlain
<1>16. PICK more : more = s2 \o s3
  OBVIOUS
<1>17. IsSeq(more) /\ Mute(more) /\ SidecarsFit(more, s)
  BY <1>14, <1>15, <1>16, FitsConcat
<1>18. IsSeq(s1)
  BY <1>5, <1>11, FitsNodes
<1>19. todo' = JournalWrites(d.log) \o more
  <2>1. todo' = (s1 \o s2) \o s3
    BY <1>1, <1>11, <1>12, <1>13
  <2> QED
    BY <1>11, <1>14, <1>15, <1>16, <1>18, <2>1, ConcatSteps, SMTT(20)
<1> QED
  BY <1>2, <1>4, <1>5, <1>6, <1>8, <1>9, <1>17, <1>19, SplitFits
\* What evidence(key) gives is what the records say (database.cpp:1680-1789).
LEMMA LookupReads ==
    ASSUME NEW d, NEW s, s = StoreOf(d), ObjectReads(d, s), \A q \in DOMAIN d.index : Known(d, q),
           NEW p
    PROVE  Reads(s, Len(s), p, Lookup(d, p))
<1>1. CASE p \in DOMAIN d.resident
  BY <1>1 DEF ObjectReads, Lookup
<1>2. CASE p \notin DOMAIN d.resident /\ p \in DOMAIN d.index
  <2>1. Lookup(d, p) = s[d.index[p].pos].val
    BY <1>2 DEF Lookup
  <2> QED
    BY <1>2, <2>1, IndexReads DEF ObjectReads
<1>3. CASE p \notin DOMAIN d.resident /\ p \notin DOMAIN d.index
  <2>1. Lookup(d, p) = None
    BY <1>3 DEF Lookup
  <2> QED
    BY <1>3, <2>1, IndexReads DEF ObjectReads
<1> QED
  BY <1>1, <1>2, <1>3

\* evidence(key) keeps resident what it read.
LEMMA ReadEvidenceFits ==
    ASSUME DurabilityInv, TypeInv, Recoverable, EvidenceHolds, NEW p \in Paths, ReadEvidence(p)
    PROVE  EvidenceHolds'
<1>1. PICK v : v = Lookup(db, p)
  OBVIOUS
<1>2. PICK r : r = Put(db.resident, p, v)
  OBVIOUS
<1>3. PICK d : d = [db EXCEPT !.resident = r]
  OBVIOUS
<1>4. /\ db' = IF v # None THEN Trimmed(d) ELSE d
      /\ todo' = FlushStore \o (IF v # None THEN Trim(d) ELSE <<>>)
      /\ status = "open" /\ status' = "open" /\ UNCHANGED files /\ todo = <<>> /\ expected' = expected
  <2>1. d = [db EXCEPT !.resident = Put(@, p, Lookup(db, p))]
    BY <1>1, <1>2, <1>3
  <2> QED
    BY <1>1, <2>1, Zenon DEF ReadEvidence
<1>5. PICK s : s = store \o db.buffer
  OBVIOUS
<1>6. IsDb(db) /\ ObjectFits(db, s, expected) /\ ObjectReads(db, s) /\ IsSeq(s)
  BY <1>4, <1>5, FitsStart
<1>7. Reads(s, Len(s), p, v)
  <2>1. s = StoreOf(db)
    BY <1>5 DEF StoreOf
  <2> QED
    BY <1>1, <1>6, <2>1, LookupReads DEF ObjectFits
<1>8. IsDb(d) /\ d.resident = r /\ d.index = db.index /\ d.buffer = db.buffer /\ d.paths = db.paths
  BY <1>3, <1>6 DEF IsDb
<1>9. ObjectReads(d, s)
  <2>1. \A q \in DOMAIN r : Reads(s, Len(s), q, r[q])
    BY <1>2, <1>6, <1>7 DEF Put, ObjectReads
  <2> QED
    BY <1>6, <1>8, <2>1 DEF ObjectReads
<1>10. StillReads(d, db') /\ db'.paths = d.paths
  <2>1. StillReads(d, Trimmed(d)) /\ StillReads(d, d)
    BY <1>8, ReadsSaved, ReadsSelf
  <2>2. SameStore(d, Trimmed(d))
    BY <1>8, StillFlush
  <2> QED
    BY <1>4, <2>1, <2>2 DEF SameStore, Still, SameNumbers, SameNodes
<1>11. /\ db'.buffer = db.buffer /\ db'.index = db.index /\ ObjectReads(db', s)
       /\ DOMAIN db.paths \in SUBSET (DOMAIN db'.paths)
  BY <1>8, <1>9, <1>10, SameReadsRead DEF StillReads, SameReads
<1>12. s = StoreOf(d)
  BY <1>5, <1>8 DEF StoreOf
<1>13. IsSeq(Trim(d)) /\ Mute(Trim(d)) /\ SidecarsFit(Trim(d), s)
  BY <1>6, <1>9, <1>12, FitsSaved
<1>14. IsSeq(todo') /\ Mute(todo') /\ SidecarsFit(todo', s)
  <2>1. PICK t : t = IF v # None THEN Trim(d) ELSE <<>>
    OBVIOUS
  <2>2. IsSeq(t) /\ Mute(t) /\ SidecarsFit(t, s)
    BY <1>13, <2>1, FitsPieces, SeqEmpty
  <2>3. IsSeq(FlushStore) /\ Mute(FlushStore) /\ SidecarsFit(FlushStore, s)
    BY FitsPieces, PlainPieces DEF IsPlain
  <2>4. LET u == FlushStore \o t IN IsSeq(u) /\ Mute(u) /\ SidecarsFit(u, s)
    BY <2>2, <2>3, FitsConcat
  <2> QED
    BY <1>4, <2>1, <2>4
<1> QED
  BY <1>4, <1>5, <1>11, <1>14, CallFits

\* checkpoint saves the index the object has.
LEMMA CheckpointFits ==
    ASSUME DurabilityInv, TypeInv, Recoverable, EvidenceHolds, Checkpoint
    PROVE  EvidenceHolds'
<1>1. PICK e : e = EvidenceSaved(db)
  OBVIOUS
<1>2. PICK f : f = PagesSaved(e)
  OBVIOUS
<1>3. PICK b : b = (db.ids # DOMAIN db.rows)
  OBVIOUS
<1>4. /\ status = "open" /\ status' = "open" /\ UNCHANGED files /\ todo = <<>> /\ expected' = expected
      /\ db' = [f EXCEPT !.pending = b]
  BY <1>1, <1>2, <1>3 DEF Checkpoint
<1>5. PICK order \in Orders(db.dirty) :
        todo' = ManifestWrites \o PageWrites(db, order) \o SaveEvidence(db) \o
                (IF db.ids = DOMAIN db.rows THEN TruncateJournal ELSE <<>>)
  BY DEF Checkpoint
<1>6. PICK s : s = store \o db.buffer
  OBVIOUS
<1>7. IsDb(db) /\ ObjectReads(db, s) /\ IsSeq(s)
  BY <1>4, <1>6, FitsStart
<1>8. StillReads(db, e) /\ IsDb(e)
  BY <1>1, <1>7, ReadsSaved DEF StillReads
<1>9. StillReads(e, f) /\ IsDb(f)
  BY <1>2, <1>8, ReadsSaved DEF StillReads
<1>10. StillReads(f, db')
  BY <1>4, <1>9, ReadsField
<1>11. StillReads(db, db')
  BY <1>8, <1>9, <1>10, StillReadsTransitive
<1>12. db'.paths = db.paths
  <2>1. SameStore(db, e) /\ SameStore(e, f) /\ SameStore(f, db')
    BY <1>1, <1>2, <1>4, <1>7, <1>8, <1>9, StillFlush, StillField
  <2> QED
    BY <2>1 DEF SameStore, Still, SameNumbers, SameNodes
<1>13. /\ db'.buffer = db.buffer /\ db'.index = db.index /\ ObjectReads(db', s)
       /\ DOMAIN db.paths \in SUBSET (DOMAIN db'.paths)
  BY <1>7, <1>11, <1>12, SameReadsRead DEF StillReads, SameReads
<1>14. IsSeq(order)
  BY <1>5, <1>7, OrdersSeq DEF IsDb
<1> DEFINE s1 == ManifestWrites
           s2 == PageWrites(db, order)
           s3 == SaveEvidence(db)
           s4 == IF db.ids = DOMAIN db.rows THEN TruncateJournal ELSE <<>>
<1>15. s = StoreOf(db)
  BY <1>6 DEF StoreOf
<1>16. IsSeq(s1) /\ Mute(s1) /\ SidecarsFit(s1, s)
  BY FitsPieces, PlainPieces DEF IsPlain
<1>17. IsSeq(s2) /\ Mute(s2) /\ SidecarsFit(s2, s)
  BY <1>14, FitsNodes
<1>18. IsSeq(s3) /\ Mute(s3) /\ SidecarsFit(s3, s)
  BY <1>7, <1>15, FitsSaved
<1>19. IsSeq(s4) /\ Mute(s4) /\ SidecarsFit(s4, s)
  BY FitsPieces, SeqEmpty, SeqSingle DEF TruncateJournal
<1>20. todo' = ((s1 \o s2) \o s3) \o s4
  BY <1>5
<1> HIDE DEF s1, s2, s3, s4
<1>21. IsSeq(s1 \o s2) /\ Mute(s1 \o s2) /\ SidecarsFit(s1 \o s2, s)
  BY <1>16, <1>17, FitsConcat
<1>22. LET u == (s1 \o s2) \o s3 IN IsSeq(u) /\ Mute(u) /\ SidecarsFit(u, s)
  BY <1>18, <1>21, FitsConcat
<1>23. IsSeq(todo') /\ Mute(todo') /\ SidecarsFit(todo', s)
  BY <1>19, <1>20, <1>22, FitsConcat
<1> QED
  BY <1>4, <1>6, <1>13, <1>23, CallFits
\* After a record, more is expected: its value, where it is.
LEMMA ReadsLonger ==
    ASSUME NEW t, NEW s, NEW x, Longer(t, s, x), NEW q, NEW w
    PROVE  /\ \A n \in 0..Len(s) : Reads(t, n, q, w) => Reads(s, n, q, w)
           /\ Reads(t, Len(t), q, w) => IF q = x.path THEN w = x.val ELSE Reads(s, Len(s), q, w)
<1>1. PICK z \in Nat : z = Len(s)
  BY DEF Longer
<1>2. Len(t) = z + 1 /\ t[z + 1] = x /\ Agree(s, t, z)
  BY <1>1 DEF Longer
<1>3. ASSUME NEW n \in 0..z, Reads(t, n, q, w) PROVE Reads(s, n, q, w)
  <2>1. Agree(t, s, n)
    BY <1>2 DEF Agree
  <2> QED
    BY <1>3, <2>1, ReadsSame
<1>4. ASSUME Reads(t, z + 1, q, w), q = x.path PROVE w = x.val
  <2>1. Reads(t, z + 1, q, x.val)
    BY <1>2, <1>4, ReadsNext
  <2> QED
    BY <1>4, <2>1, ReadsUnique
<1>5. ASSUME Reads(t, z + 1, q, w), q # x.path PROVE Reads(s, z, q, w)
  <2>1. Reads(t, z, q, w)
    BY <1>2, <1>5, ReadsNext
  <2> QED
    BY <1>3, <2>1
<1> QED
  BY <1>1, <1>2, <1>3, <1>4, <1>5

Wider(E, F) == \A q \in Paths : E[q] \in SUBSET F[q]

\* A record of an expected value keeps what may be read of every path.
LEMMA JournalTook ==
    ASSUME NEW t, NEW s, NEW x, Longer(t, s, x), NEW J, NEW m \in Nat, NEW E, JournalFits(J, s, m, E),
           Expects(E, s, Len(s)), NEW F, Wider(E, F), x.val \in F[x.path]
    PROVE  JournalFits(J, t, m, F) /\ Expects(F, t, Len(t))
<1>1. PICK z \in Nat : z = Len(s)
  BY DEF Longer
<1>2. Len(t) = z + 1
  BY <1>1 DEF Longer
<1>3. ASSUME NEW q \in Paths, NEW w, Reads(t, Len(t), q, w) PROVE w \in F[q]
  <2>1. IF q = x.path THEN w = x.val ELSE Reads(s, z, q, w)
    BY <1>1, <1>3, ReadsLonger
  <2>2. CASE q = x.path
    BY <2>1, <2>2
  <2>3. CASE q # x.path
    BY <1>1, <2>1, <2>3 DEF Expects, Wider
  <2> QED
    BY <2>2, <2>3
<1>4. ASSUME NEW q \in Paths PROVE PathFits(J, t, m, F, q)
  <2>1. PathFits(J, s, m, E, q)
    BY DEF JournalFits
  <2>2. ASSUME NEW v \in E[q], EntryLast(J, Len(J), q, v) PROVE PathFits(J, t, m, F, q)
    <3>1. v \in F[q]
      BY DEF Wider
    <3> QED
      BY <2>2, <3>1 DEF PathFits
  <2>3. ASSUME EntryNone(J, Len(J), q), \A n \in m..z : \A v : Reads(s, n, q, v) => v \in E[q]
        PROVE  PathFits(J, t, m, F, q)
    <3>1. ASSUME NEW n \in m..Len(t), NEW w, Reads(t, n, q, w) PROVE w \in F[q]
      <4>1. n = z + 1 \/ n \in m..z
        BY <1>2
      <4>2. CASE n = z + 1
        BY <1>2, <1>3, <3>1, <4>2
      <4>3. CASE n \in m..z
        <5>1. n \in 0..z
          BY <4>3
        <5>2. Reads(s, n, q, w)
          BY <1>1, <3>1, <5>1, ReadsLonger
        <5> QED
          BY <2>3, <4>3, <5>2 DEF Wider
      <4> QED
        BY <4>1, <4>2, <4>3
    <3> QED
      BY <2>3, <3>1 DEF PathFits
  <2> QED
    BY <1>1, <2>1, <2>2, <2>3 DEF PathFits
<1> QED
  BY <1>3, <1>4 DEF JournalFits, Expects

\* put_evidence journals its record before anything else, and answers it.
LEMMA PutDue ==
    ASSUME NEW c, IsEntry(c), NEW r, r.act = "value", NEW v, r.content = {v}, c.content.val = v,
           NEW p, c.content.path = p, r.key = p, NEW mid, IsSeq(mid), Mute(mid),
           NEW x, x = <<c>>, NEW y, y = <<r>>, NEW s, Reads(s, Len(s), p, v), NEW J, NEW E, v \in E[p]
    PROVE  AnswersFit(x \o (mid \o y), s, J, E)
<1>1. IsSeq(x) /\ IsSeq(y) /\ Len(x) = 1 /\ Len(y) = 1 /\ x[1] = c /\ y[1] = r
  BY SeqSingle
<1>2. PICK u : u = mid \o y
  OBVIOUS
<1>3. Len(mid) \in Nat /\ \A k \in 1..Len(mid) : mid[k] \in Range(mid)
  BY SeqShape
<1>4. IsSeq(u) /\ Len(u) = Len(mid) + 1 /\ \A k \in 1..Len(u) : u[k] \in Range(mid) \/ u[k] = r
  <2>1. /\ IsSeq(u) /\ Len(u) = Len(mid) + 1 /\ Range(u) = Range(mid) \cup {r}
    BY <1>1, <1>2, SeqConcat, SeqSingle
  <2> QED
    BY <2>1, SeqShape
<1>5. PICK t : t = x \o u
  OBVIOUS
<1>6. /\ Len(t) = 1 + Len(u) /\ t[1] = c /\ \A k \in 1..Len(u) : t[1 + k] = u[k]
  <2>1. \A k \in 1..1 : t[k] = x[k]
    BY <1>1, <1>4, <1>5, SeqConcat
  <2> QED
    BY <1>1, <1>4, <1>5, <2>1, SeqConcat
<1>7. AnswerFits(t, r, s, J)
  BY <1>6 DEF AnswerFits, Answered, Concerns, IsEntry
<1>8. ASSUME NEW k \in 1..Len(t)
      PROVE  /\ IsEntry(t[k]) => k = 1 /\ t[k].content.val \in E[t[k].content.path]
             /\ t[k].act = "value" => AnswerFits(t, t[k], s, J)
  <2>1. CASE k = 1
    BY <1>6, <2>1 DEF IsEntry
  <2>2. CASE k # 1
    <3>1. PICK j \in 1..Len(u) : k = 1 + j
      <4>1. k - 1 \in 1..Len(u) /\ k = 1 + (k - 1)
        BY <1>3, <1>4, <1>6, <2>2
      <4> QED
        BY <4>1
    <3>2. t[k] \in Range(mid) \/ t[k] = r
      BY <1>4, <1>6, <3>1
    <3>3. CASE t[k] \in Range(mid)
      BY <3>3 DEF Mute
    <3>4. CASE t[k] = r
      BY <1>7, <3>4 DEF IsEntry
    <3> QED
      BY <3>2, <3>3, <3>4
  <2> QED
    BY <2>1, <2>2
<1>9. AnswersFit(t, s, J, E)
  BY <1>8 DEF AnswersFit
<1> QED
  BY <1>2, <1>5, <1>9
\* put_evidence (database.cpp:3003-3082).
LEMMA PutEvidenceFits ==
    ASSUME DurabilityInv, TypeInv, Recoverable, EvidenceHolds, NEW p \in Paths, NEW v \in Vals,
           PutEvidence(p, v)
    PROVE  EvidenceHolds'
<1>1. PICK r : r = Put(db.resident, p, v)
  OBVIOUS
<1>2. PICK a : a = [db EXCEPT !.resident = r, !.pending = TRUE]
  OBVIOUS
<1>3. PICK d : d = AppendRecord(a, p, v)
  OBVIOUS
<1>4. PICK d1 : d1 = MaybeFlushed(d)
  OBVIOUS
<1>5. PICK entry : entry = [type |-> "evidence", path |-> p, val |-> v]
  OBVIOUS
<1>6. PICK log : log = IF db.bulk THEN <<>> ELSE <<entry>>
  OBVIOUS
<1>7. PICK order \in Orders(IF FlushDue(d) THEN d.dirty ELSE {}) :
        /\ db' = Trimmed(d1)
        /\ todo' = JournalWrites(log) \o MaybeFlush(d, order) \o Trim(d1) \o ReturnValue(p, {v})
  <2>1. d = AppendRecord([db EXCEPT !.resident = Put(@, p, v), !.pending = TRUE], p, v)
    BY <1>1, <1>2, <1>3
  <2> QED
    BY <1>4, <1>5, <1>6, <2>1, Zenon DEF PutEvidence
<1>8. /\ UNCHANGED files /\ status = "open" /\ status' = "open" /\ todo = <<>>
      /\ expected' = [expected EXCEPT ![p] = @ \cup {v}] /\ HasRow(db, p)
  BY DEF PutEvidence, Ready
<1>9. PICK s : s = store \o db.buffer
  OBVIOUS
<1>10. /\ IsDb(db) /\ db.bulk = FALSE /\ IsSeq(store) /\ IsSeq(journal) /\ IsSeq(s) /\ Len(store) \in Nat
       /\ Len(s) \in Nat /\ Len(store) <= Len(s)
       /\ ObjectFits(db, s, expected) /\ ObjectReads(db, s)
  BY <1>8, <1>9, FitsStart
<1>11. PICK n : n = Len(s) + 1
  OBVIOUS
<1>12. IsDb(d) /\ IsRecordOf(d, db, r, p, v, n)
  <2>1. n = Len(store \o db.buffer) + 1
    BY <1>9, <1>11
  <2> QED
    BY <1>2, <1>3, <1>10, <2>1, RecordFields
<1>13. PICK t : t = store \o d.buffer
  OBVIOUS
<1>14. Took(t, s, d, db, p, v)
  <2>1. IsStoreOf(s, db) /\ IsStoreOf(t, d)
    BY <1>9, <1>13 DEF IsStoreOf
  <2>2. Puts(d, db, s, p, v)
    BY <1>1, <1>11, <1>12 DEF Puts
  <2> QED
    BY <1>10, <2>1, <2>2, RecordReads
<1>15. PICK x : x = Record(p, v)
  OBVIOUS
<1>16. x.path = p /\ x.val = v
  BY <1>15 DEF Record
<1>17. /\ Longer(t, s, x) /\ ObjectReads(d, t) /\ Reads(t, Len(t), p, v)
       /\ DOMAIN d.index = DOMAIN db.index \cup {p} /\ IsSeq(t)
  BY <1>14, <1>15 DEF Took, Longer
<1>18. StillReads(d, d1) /\ IsDb(d1) /\ SameStore(d, d1)
  BY <1>4, <1>12, ReadsSaved, StillFlush DEF StillReads
<1>19. StillReads(d1, db') /\ SameStore(d1, db')
  BY <1>7, <1>18, ReadsSaved, StillFlush
<1>20. ObjectReads(d1, t) /\ d1.buffer = d.buffer
  BY <1>17, <1>18, SameReadsRead DEF StillReads, SameReads
<1>21. ObjectReads(db', t) /\ db'.buffer = d.buffer /\ db'.index = d.index
  BY <1>18, <1>19, <1>20, SameReadsRead DEF StillReads, SameReads
<1>22. \A q \in DOMAIN db'.index : Known(db', q)
  <2>1. db'.paths = db.paths
    BY <1>12, <1>18, <1>19 DEF IsRecordOf, SameStore, Still, SameNumbers, SameNodes
  <2>2. \A q \in DOMAIN db.index : q \in DOMAIN db.paths
    BY <1>10 DEF ObjectFits, Known
  <2>3. p \in DOMAIN db.paths
    BY <1>8 DEF HasRow, Known
  <2> QED
    BY <1>17, <1>21, <2>1, <2>2, <2>3 DEF Known
<1>23. PICK F : F = expected'
  OBVIOUS
<1>24. Wider(expected, F) /\ v \in F[p]
  <2>1. PICK k \in Nat : TypedBy(k)
    BY DEF TypeInv
  <2>2. expected \in [Paths -> SUBSET (Vals \cup {None})]
    BY <2>1 DEF TypedBy
  <2> QED
    BY <1>8, <1>23, <2>2 DEF Wider
<1>25. JournalFits(journal, t, Len(store), F) /\ Expects(F, t, Len(t))
  <2>1. JournalFits(journal, s, Len(store), expected)
    BY <1>9 DEF EvidenceHolds
  <2>2. Expects(expected, s, Len(s))
    BY <1>10 DEF ObjectFits
  <2>3. x.val \in F[x.path]
    BY <1>16, <1>24
  <2> QED
    BY <1>10, <1>17, <1>24, <2>1, <2>2, <2>3, JournalTook
<1>26. IsSeq(order)
  BY <1>7, <1>12, OrdersSeq, FS_EmptySet DEF IsDb
<1>27. PICK s1 : s1 = JournalWrites(log)
  OBVIOUS
<1>28. PICK s2 : s2 = MaybeFlush(d, order)
  OBVIOUS
<1>29. PICK s3 : s3 = Trim(d1)
  OBVIOUS
<1>30. PICK s4 : s4 = ReturnValue(p, {v})
  OBVIOUS
<1>31. PICK c : c = Change("journal", "append", 0, entry)
  OBVIOUS
<1>32. s1 = <<c>> /\ IsEntry(c) /\ c.file = "journal" /\ c.content.path = p /\ c.content.val = v
  <2>1. entry.type = "evidence" /\ entry.path = p /\ entry.val = v /\ log = <<entry>>
    BY <1>5, <1>6, <1>10
  <2>2. c.act = "append" /\ c.content = entry /\ c.file = "journal"
    BY <1>31 DEF Change
  <2>3. s1 = <<c>>
    BY <1>27, <1>31, <2>1 DEF JournalWrites
  <2> QED
    BY <2>1, <2>2, <2>3 DEF IsEntry, IsRecord
<1>33. PICK b : b = Change("return", "value", p, {v})
  OBVIOUS
<1>34. s4 = <<b>> /\ b.act = "value" /\ b.key = p /\ b.content = {v} /\ b.file = "return"
  BY <1>30, <1>33 DEF ReturnValue, Change
<1>35. IsSeq(s2) /\ Mute(s2) /\ SidecarsFit(s2, t)
  <2>1. t = StoreOf(d)
    BY <1>13 DEF StoreOf
  <2> QED
    BY <1>17, <1>26, <1>28, <2>1, FitsSaved
<1>36. IsSeq(s3) /\ Mute(s3) /\ SidecarsFit(s3, t)
  <2>1. t = StoreOf(d1)
    BY <1>13, <1>20 DEF StoreOf
  <2> QED
    BY <1>17, <1>20, <1>29, <2>1, FitsSaved
<1>37. PICK mid : mid = s2 \o s3
  OBVIOUS
<1>38. IsSeq(mid) /\ Mute(mid) /\ SidecarsFit(mid, t)
  BY <1>35, <1>36, <1>37, FitsConcat
<1>39. IsSeq(s1) /\ SidecarsFit(s1, t) /\ IsSeq(s4) /\ SidecarsFit(s4, t)
  BY <1>32, <1>34, SeqSingle DEF SidecarsFit
<1>40. todo' = s1 \o (mid \o s4)
  <2>1. todo' = ((s1 \o s2) \o s3) \o s4
    BY <1>7, <1>27, <1>28, <1>29, <1>30
  <2>2. (s1 \o s2) \o s3 = s1 \o mid
    BY <1>35, <1>36, <1>37, <1>39, ConcatSteps
  <2>3. (s1 \o mid) \o s4 = s1 \o (mid \o s4)
    BY <1>38, <1>39, ConcatSteps
  <2> QED
    BY <2>1, <2>2, <2>3
<1>41. AnswersFit(todo', t, journal, F)
  BY <1>17, <1>24, <1>32, <1>34, <1>38, <1>40, PutDue
<1>42. SidecarsFit(todo', t)
  <2>1. PICK u : u = mid \o s4
    OBVIOUS
  <2>2. IsSeq(u) /\ SidecarsFit(u, t)
    BY <1>38, <1>39, <2>1, FitsConcat
  <2> QED
    BY <1>39, <1>40, <2>1, <2>2, FitsConcat
<1>43. SidecarFits(sidecar, store)
  BY DEF EvidenceHolds
<1>44. store' \o db'.buffer = t /\ store' = store /\ sidecar' = sidecar /\ journal' = journal
  BY <1>8, <1>13, <1>21 DEF files
<1>45. ObjectFits(db', t, F)
  BY <1>21, <1>22, <1>25 DEF ObjectFits
<1>46. /\ JournalFits(journal', store' \o db'.buffer, Len(store'), expected')
       /\ SidecarFits(sidecar', store')
       /\ ObjectFits(db', store' \o db'.buffer, expected')
       /\ SidecarsFit(todo', store' \o db'.buffer)
       /\ AnswersFit(todo', store' \o db'.buffer, journal', expected')
  BY <1>23, <1>25, <1>41, <1>42, <1>43, <1>44, <1>45
<1> QED
  BY <1>46 DEF EvidenceHolds
-----------------------------------------------------------------------------
(* Every change of a file does.                                            *)

\* What is left of a call's answer after its next change.
LEMMA TailFits ==
    ASSUME NEW t, IsSeq(t), t # <<>>, NEW s, NEW J, NEW E, SidecarsFit(t, s), AnswersFit(t, s, J, E),
           NEW K, IF Head(t).act = "append" THEN IsSeq(J) /\ K = Append(J, Head(t).content) ELSE K = J,
           NEW F, NEW u, u = Tail(t)
    PROVE  IsSeq(u) /\ SidecarsFit(u, s) /\ AnswersFit(u, s, K, F)
<1>1. /\ IsSeq(u) /\ Head(t) = t[1] /\ Len(t) \in Nat \ {0} /\ Len(u) = Len(t) - 1
      /\ \A i \in 1..Len(t) - 1 : u[i] = t[i + 1]
      /\ Range(t) = {Head(t)} \cup Range(u)
  BY SeqTail
<1>2. SidecarsFit(u, s)
  BY <1>1 DEF SidecarsFit
<1>3. PICK c : c = t[1]
  OBVIOUS
<1>4. ASSUME NEW p, NEW v, Answered(t, J, p, v) PROVE EntryLast(K, Len(K), p, v)
  <2>1. CASE c.act = "append"
    <3>1. PICK n \in Nat : n = Len(J)
      BY <1>1, <1>3, <2>1, SeqShape
    <3>2. K[n + 1] = c.content /\ Len(K) = n + 1 /\ Agree(J, K, n)
      BY <1>1, <1>3, <2>1, <3>1, SeqAppend, SMTT(20) DEF Agree
    <3>3. CASE IsEntry(c)
      <4>1. Concerns(c.content, p) /\ c.content.val = v
        BY <1>3, <1>4, <3>3 DEF Answered
      <4> QED
        BY <3>2, <4>1, EntryNext
    <3>4. CASE ~IsEntry(c)
      <4>1. EntryLast(J, n, p, v) /\ ~Concerns(c.content, p)
        BY <1>3, <1>4, <2>1, <3>1, <3>4 DEF Answered, IsEntry, Concerns
      <4>2. EntryLast(K, n, p, v)
        BY <3>2, <4>1, EntrySame
      <4> QED
        BY <3>2, <4>1, <4>2, EntryNext
    <3> QED
      BY <3>3, <3>4
  <2>2. CASE c.act # "append"
    BY <1>1, <1>3, <1>4, <2>2 DEF Answered, IsEntry
  <2> QED
    BY <2>1, <2>2
<1>5. ASSUME NEW k \in 1..Len(u)
      PROVE  ~IsEntry(u[k]) /\ (u[k].act = "value" => AnswerFits(u, u[k], s, K))
  <2>1. PICK j \in 1..Len(t) : j = k + 1
    BY <1>1
  <2>2. u[k] = t[j] /\ j # 1
    BY <1>1, <2>1
  <2>3. 2 \in 1..Len(t) /\ u[1] = t[2]
    BY <1>1
  <2>4. ~IsEntry(t[j]) /\ ~IsEntry(u[1])
    BY <2>2, <2>3 DEF AnswersFit
  <2>5. ASSUME u[k].act = "value" PROVE AnswerFits(u, u[k], s, K)
    <3>1. AnswerFits(t, t[j], s, J)
      BY <2>2, <2>5 DEF AnswersFit
    <3> QED
      BY <1>4, <2>2, <2>4, <3>1 DEF AnswerFits, Answered
  <2> QED
    BY <2>2, <2>4, <2>5
<1>6. AnswersFit(u, s, K, F)
  BY <1>5 DEF AnswersFit
<1> QED
  BY <1>1, <1>2, <1>6

\* What the next change may be.
LEMMA NextFits ==
    ASSUME DurabilityInv, TypeInv, EvidenceHolds, todo # <<>>
    PROVE  /\ status = "open" /\ IsSeq(todo) /\ Head(todo) = todo[1] /\ Len(todo) \in Nat \ {0}
           /\ IsSeq(store) /\ IsSeq(db.buffer) /\ IsSeq(journal) /\ IsDb(db)
           /\ Len(store) \in Nat /\ Len(store \o db.buffer) \in Nat /\ Len(store) <= Len(store \o db.buffer)
           /\ Agree(store, store \o db.buffer, Len(store)) /\ Agree(store \o db.buffer, store, Len(store))
           /\ JournalFits(journal, store \o db.buffer, Len(store), expected)
           /\ SidecarFits(sidecar, store) /\ ObjectFits(db, store \o db.buffer, expected)
           /\ SidecarsFit(todo, store \o db.buffer)
           /\ AnswersFit(todo, store \o db.buffer, journal, expected)
           /\ Head(todo).file = "sidecar" => SidecarFits(Head(todo).content, store)
<1>1. status = "open" /\ IsSeq(todo) /\ IsSeq(journal)
  BY NextChangeOk
<1>2. IsSeq(store) /\ IsSeq(db.buffer) /\ IsDb(db)
  BY DEF DurabilityInv, IsDb
<1>3. Len(store) \in Nat /\ Len(store \o db.buffer) \in Nat /\ Len(store) <= Len(store \o db.buffer)
  BY <1>2, StoreLength
<1>4. \A i \in 1..Len(store) : (store \o db.buffer)[i] = store[i]
  BY <1>2, SeqConcat
<1>5. Head(todo) = todo[1] /\ Len(todo) \in Nat \ {0} /\ Head(todo) \in Range(todo)
  BY <1>1, SeqTail
<1>6. /\ JournalFits(journal, store \o db.buffer, Len(store), expected)
      /\ SidecarFits(sidecar, store) /\ ObjectFits(db, store \o db.buffer, expected)
      /\ SidecarsFit(todo, store \o db.buffer)
      /\ AnswersFit(todo, store \o db.buffer, journal, expected)
  BY <1>1 DEF EvidenceHolds
<1>7. ASSUME Head(todo).file = "sidecar" PROVE SidecarFits(Head(todo).content, store)
  <2>1. PICK c : c = Head(todo).content
    OBVIOUS
  <2>2. PICK z : z = c.size
    OBVIOUS
  <2>3. SidecarFits(c, store \o db.buffer)
    BY <1>5, <1>6, <1>7, <2>1 DEF SidecarsFit
  <2>4. z \in -1..Len(store)
    <3>1. PICK n \in Nat : TypedBy(n)
      BY DEF TypeInv
    <3>2. StepsOk(todo, n, Len(store), Len(store \o db.buffer), DOMAIN db.paths)
      BY <3>1 DEF TypedBy, StepsDue
    <3>3. StepOk(todo, 1, n, Len(store), Len(store \o db.buffer), DOMAIN db.paths)
      BY <1>5, <3>2 DEF StepsOk
    <3>4. SizeOk(todo, 1, Len(store), Len(store \o db.buffer))
      BY <1>5, <1>7, <3>3 DEF StepOk
    <3>5. ~FlushedBy(todo, 1)
      BY DEF FlushedBy
    <3> QED
      BY <1>5, <2>1, <2>2, <3>4, <3>5 DEF SizeOk
  <2>5. Agree(store \o db.buffer, store, z)
    <3>1. \A i \in 1..z : i \in 1..Len(store)
      BY <1>3, <2>4
    <3> QED
      BY <1>4, <3>1 DEF Agree
  <2>6. IndexFits(c.index, store, z)
    BY <2>2, <2>3, <2>5, ReadsSame DEF SidecarFits
  <2> QED
    BY <2>1, <2>2, <2>4, <2>6 DEF SidecarFits
<1> QED
  BY <1>1, <1>2, <1>3, <1>4, <1>5, <1>6, <1>7 DEF Agree

\* A change that leaves the records.
LEMMA ChangeFits ==
    ASSUME DurabilityInv, TypeInv, EvidenceHolds, todo # <<>>, todo' = Tail(todo), status' = status,
           NEW s, s = store \o db.buffer, store' \o db'.buffer = s, ObjectFits(db', s, expected'),
           IF Head(todo).act = "append" THEN journal' = Append(journal, Head(todo).content)
                                        ELSE journal' = journal,
           JournalFits(journal', s, Len(store'), expected'), SidecarFits(sidecar', store')
    PROVE  EvidenceHolds'
<1>1. /\ status = "open" /\ IsSeq(todo) /\ IsSeq(journal)
      /\ SidecarsFit(todo, s) /\ AnswersFit(todo, s, journal, expected)
  BY NextFits
<1>2. SidecarsFit(todo', s) /\ AnswersFit(todo', s, journal', expected')
  BY <1>1, TailFits
<1> QED
  BY <1>1, <1>2 DEF EvidenceHolds

\* Removing a file loses at most a sidecar.
LEMMA RemoveFileFits ==
    ASSUME DurabilityInv, TypeInv, EvidenceHolds, RemoveFile
    PROVE  EvidenceHolds'
<1>1. /\ todo # <<>> /\ Head(todo).act = "remove" /\ todo' = Tail(todo) /\ status' = status
      /\ store' = store /\ journal' = journal /\ db' = db /\ expected' = expected
      /\ sidecar' = IF Head(todo).file = "sidecar" THEN NoSidecar ELSE sidecar
  BY DEF RemoveFile, Made
<1>2. PICK s : s = store \o db.buffer
  OBVIOUS
<1>3. /\ JournalFits(journal, s, Len(store), expected) /\ ObjectFits(db, s, expected)
      /\ SidecarFits(sidecar, store) /\ Len(store) \in Nat
  BY <1>1, <1>2, NextFits
<1>4. SidecarFits(NoSidecar, store)
  <2>1. NoSidecar.size = -1 /\ DOMAIN NoSidecar.index = {}
    BY DEF NoSidecar, Empty
  <2>2. PICK z : z = -1
    OBVIOUS
  <2>3. \A p : Silent(store, 0, z, p)
    BY <2>2 DEF Silent
  <2>4. IndexFits(NoSidecar.index, store, z)
    BY <2>1, <2>3 DEF IndexFits
  <2> QED
    BY <1>3, <2>1, <2>2, <2>4 DEF SidecarFits
<1> QED
  BY <1>1, <1>2, <1>3, <1>4, ChangeFits

\* Renaming one puts a sidecar in place that fits.
LEMMA RenameFileFits ==
    ASSUME DurabilityInv, TypeInv, EvidenceHolds, RenameFile
    PROVE  EvidenceHolds'
<1>1. /\ todo # <<>> /\ Head(todo).act = "rename" /\ todo' = Tail(todo) /\ status' = status
      /\ store' = store /\ journal' = journal /\ db' = db /\ expected' = expected
      /\ sidecar' = IF Head(todo).file = "sidecar" THEN Head(todo).content ELSE sidecar
  BY DEF RenameFile, Made
<1>2. PICK s : s = store \o db.buffer
  OBVIOUS
<1>3. /\ JournalFits(journal, s, Len(store), expected) /\ ObjectFits(db, s, expected)
      /\ SidecarFits(sidecar, store)
      /\ Head(todo).file = "sidecar" => SidecarFits(Head(todo).content, store)
  BY <1>1, <1>2, NextFits
<1> QED
  BY <1>1, <1>2, <1>3, ChangeFits
\* An empty buffer adds nothing.
LEMMA NothingBuffered ==
    ASSUME NEW s, IsSeq(s)
    PROVE  s \o <<>> = s
BY ConcatEmptySeq DEF IsSeq

\* The records a flush writes were in the buffer (database.cpp:3188-3200).
LEMMA FlushStreamFits ==
    ASSUME DurabilityInv, TypeInv, EvidenceHolds, FlushStream
    PROVE  EvidenceHolds'
<1>1. /\ todo # <<>> /\ Head(todo).act = "flush" /\ todo' = Tail(todo) /\ status' = status
      /\ store' = store \o db.buffer /\ db' = [db EXCEPT !.buffer = <<>>]
      /\ journal' = journal /\ sidecar' = sidecar /\ expected' = expected
  BY DEF FlushStream, NextChange, Made, StoreOf
<1>2. PICK s : s = store \o db.buffer
  OBVIOUS
<1>3. /\ JournalFits(journal, s, Len(store), expected) /\ ObjectFits(db, s, expected)
      /\ SidecarFits(sidecar, store) /\ IsDb(db) /\ IsSeq(store) /\ IsSeq(db.buffer)
      /\ Len(store) \in Nat /\ Len(s) \in Nat /\ Len(store) <= Len(s) /\ Agree(store, s, Len(store))
  BY <1>1, <1>2, NextFits
<1>4. /\ db'.buffer = <<>> /\ db'.index = db.index /\ db'.resident = db.resident /\ db'.paths = db.paths
  BY <1>1, <1>3 DEF IsDb
<1>5. store' = s /\ store' \o db'.buffer = s
  BY <1>1, <1>2, <1>3, <1>4, SeqConcat, NothingBuffered
<1>6. ObjectFits(db', s, expected)
  BY <1>3, <1>4 DEF ObjectFits, ObjectReads, Known
<1>7. SidecarFits(sidecar, s)
  BY <1>3, SidecarLonger
<1>8. JournalFits(journal, s, Len(s), expected)
  <2>1. \A n \in Len(s)..Len(s) : n \in Len(store)..Len(s)
    BY <1>3
  <2> QED
    BY <1>3, <2>1 DEF JournalFits, PathFits
<1> QED
  BY <1>1, <1>2, <1>5, <1>6, <1>7, <1>8, ChangeFits

\* A record in the journal is expected to be read (database.cpp:3491-3511).
LEMMA AppendJournalFits ==
    ASSUME DurabilityInv, TypeInv, EvidenceHolds, AppendJournal
    PROVE  EvidenceHolds'
<1>1. PICK x : x = Head(todo).content
  OBVIOUS
<1>2. /\ todo # <<>> /\ Head(todo).act = "append" /\ todo' = Tail(todo) /\ status' = status
      /\ journal' = Append(journal, x) /\ store' = store /\ sidecar' = sidecar /\ db' = db
      /\ expected' = expected
  BY <1>1 DEF AppendJournal, NextChange, Made
<1>3. PICK s : s = store \o db.buffer
  OBVIOUS
<1>4. /\ JournalFits(journal, s, Len(store), expected) /\ ObjectFits(db, s, expected)
      /\ SidecarFits(sidecar, store) /\ IsSeq(journal)
      /\ AnswersFit(todo, s, journal, expected) /\ Head(todo) = todo[1] /\ Len(todo) \in Nat \ {0}
  BY <1>2, <1>3, NextFits
<1>5. PICK n \in Nat : n = Len(journal)
  BY <1>4, SeqShape
<1>6. PICK K : K = journal'
  OBVIOUS
<1>7. K[n + 1] = x /\ Len(K) = n + 1 /\ Agree(journal, K, n)
  BY <1>2, <1>4, <1>5, <1>6, SeqAppend DEF Agree
<1>8. IsRecord(x) => x.val \in expected[x.path]
  <2>1. 1 \in 1..Len(todo)
    BY <1>4
  <2>2. IsRecord(x) => IsEntry(todo[1])
    BY <1>1, <1>2, <1>4 DEF IsEntry
  <2> QED
    BY <1>1, <1>4, <2>1, <2>2 DEF AnswersFit
<1>9. ASSUME NEW p \in Paths PROVE PathFits(K, s, Len(store), expected, p)
  <2>1. CASE Concerns(x, p)
    <3>1. EntryLast(K, n + 1, p, x.val) /\ x.val \in expected[p]
      BY <1>7, <1>8, <2>1, EntryNext DEF Concerns
    <3> QED
      BY <1>7, <3>1 DEF PathFits
  <2>2. CASE ~Concerns(x, p)
    <3>1. PathFits(journal, s, Len(store), expected, p)
      BY <1>4 DEF JournalFits
    <3>2. \A v : EntryLast(journal, n, p, v) => EntryLast(K, n + 1, p, v)
      BY <1>7, <2>2, EntrySame, EntryNext
    <3>3. EntryNone(journal, n, p) => EntryNone(K, n + 1, p)
      BY <1>7, <2>2, EntrySame, EntryNext
    <3> QED
      BY <1>5, <1>7, <3>1, <3>2, <3>3 DEF PathFits
  <2> QED
    BY <2>1, <2>2
<1>10. JournalFits(K, s, Len(store), expected)
  BY <1>9 DEF JournalFits
<1> QED
  BY <1>1, <1>2, <1>3, <1>4, <1>6, <1>10, ChangeFits

\* Truncating it loses no record: by then the store has them all
\* (database.cpp:2026-2035).
LEMMA TruncateJournalFits ==
    ASSUME DurabilityInv, TypeInv, EvidenceHolds, TruncateJournalFile
    PROVE  EvidenceHolds'
<1>1. /\ todo # <<>> /\ Head(todo).act = "truncate" /\ todo' = Tail(todo) /\ status' = status
      /\ journal' = <<>> /\ store' = store /\ sidecar' = sidecar /\ db' = db /\ expected' = expected
  BY DEF TruncateJournalFile, NextChange, Made
<1>2. PICK s : s = store \o db.buffer
  OBVIOUS
<1>3. /\ status = "open" /\ IsSeq(todo) /\ Head(todo) = todo[1] /\ Len(todo) \in Nat \ {0}
      /\ ObjectFits(db, s, expected) /\ SidecarFits(sidecar, store) /\ IsSeq(store)
      /\ Len(store) \in Nat
  BY <1>1, <1>2, NextFits
<1>4. Len(todo) = 1 /\ db.buffer = <<>>
  <2>1. 1 \in 1..Len(todo)
    BY <1>3
  <2>2. ChangeOk(todo, 1, db, store)
    BY <2>1 DEF DurabilityInv, ChangesOk
  <2>3. ~FlushedBy(todo, 1)
    BY DEF FlushedBy
  <2> QED
    BY <1>1, <1>3, <2>2, <2>3 DEF ChangeOk
<1>5. Tail(todo) = <<>>
  <2>1. IsSeq(Tail(todo)) /\ Len(Tail(todo)) = 0
    BY <1>1, <1>3, <1>4, SeqTail
  <2> QED
    BY <2>1, EmptySeq DEF IsSeq
<1>6. s = store
  BY <1>2, <1>3, <1>4, NothingBuffered
<1>7. PICK K : K = <<>>
  OBVIOUS
<1>8. JournalFits(K, s, Len(store), expected)
  <2>1. Len(K) = 0 /\ \A p : EntryNone(K, 0, p)
    BY <1>7, SeqEmpty DEF EntryNone
  <2>2. \A n \in Len(store)..Len(s) : n = Len(s)
    BY <1>3, <1>6
  <2>3. Expects(expected, s, Len(s))
    BY <1>3 DEF ObjectFits
  <2> QED
    BY <2>1, <2>2, <2>3 DEF JournalFits, PathFits, Expects
<1>9. PICK t : t = <<>>
  OBVIOUS
<1>10. SidecarsFit(t, s) /\ AnswersFit(t, s, K, expected)
  BY <1>9, FitsPieces, MuteFits, SeqEmpty
<1>11. todo' = t /\ journal' = K
  BY <1>1, <1>5, <1>7, <1>9
<1> QED
  BY <1>1, <1>2, <1>3, <1>8, <1>10, <1>11 DEF EvidenceHolds

\* A call that returns its value has it in the journal.
LEMMA ReturnFits ==
    ASSUME DurabilityInv, TypeInv, Recoverable, EvidenceHolds, ReturnFromCall
    PROVE  EvidenceHolds'
<1>1. PICK c : c = Head(todo)
  OBVIOUS
<1>2. /\ todo # <<>> /\ c.file = "return" /\ todo' = Tail(todo) /\ status' = status
      /\ expected' = IF c.act = "value" THEN [expected EXCEPT ![c.key] = c.content] ELSE expected
      /\ journal' = journal /\ store' = store /\ sidecar' = sidecar /\ db' = db
  BY <1>1 DEF ReturnFromCall, Made
<1>3. PICK s : s = store \o db.buffer
  OBVIOUS
<1>4. /\ status = "open" /\ JournalFits(journal, s, Len(store), expected) /\ ObjectFits(db, s, expected)
      /\ SidecarFits(sidecar, store) /\ IsSeq(journal) /\ IsSeq(todo)
      /\ AnswersFit(todo, s, journal, expected) /\ Head(todo) = todo[1] /\ Len(todo) \in Nat \ {0}
      /\ Len(s) \in Nat
  BY <1>2, <1>3, NextFits
<1>5. c.act # "append"
  <2>1. \E P : Staged(todo, db, P, tmps, journal, grown)
    BY <1>4 DEF Recoverable
  <2>2. PICK t : t = todo
    OBVIOUS
  <2>3. IsAppend(Head(t)) \/ IsOther(Head(t))
    BY <1>2, <1>4, <2>1, <2>2, HeadShaped
  <2> QED
    BY <1>1, <1>2, <2>2, <2>3 DEF IsAppend, IsOther
<1>6. PICK F : F = expected'
  OBVIOUS
<1>7. JournalFits(journal, s, Len(store), F) /\ Expects(F, s, Len(s))
  <2>1. CASE c.act # "value"
    BY <1>2, <1>4, <1>6, <2>1 DEF ObjectFits
  <2>2. CASE c.act = "value"
    <3>1. AnswerFits(todo, c, s, journal)
      <4>1. 1 \in 1..Len(todo)
        BY <1>4
      <4> QED
        BY <1>1, <1>4, <2>2, <4>1 DEF AnswersFit
    <3>2. PICK v : c.content = {v} /\ Reads(s, Len(s), c.key, v) /\ Answered(todo, journal, c.key, v)
      BY <3>1 DEF AnswerFits
    <3>3. EntryLast(journal, Len(journal), c.key, v)
      BY <1>1, <1>4, <2>2, <3>2 DEF Answered, IsEntry
    <3>4. \A p \in Paths : F[p] = IF p = c.key THEN {v} ELSE expected[p]
      <4>1. PICK k \in Nat : TypedBy(k)
        BY DEF TypeInv
      <4>2. expected \in [Paths -> SUBSET (Vals \cup {None})]
        BY <4>1 DEF TypedBy
      <4> QED
        BY <1>2, <1>6, <2>2, <3>2, <4>2
    <3>5. ASSUME NEW p \in Paths PROVE PathFits(journal, s, Len(store), F, p)
      <4>1. CASE p = c.key
        BY <3>3, <3>4, <4>1 DEF PathFits
      <4>2. CASE p # c.key
        <5>1. F[p] = expected[p]
          BY <3>4, <4>2
        <5> QED
          BY <1>4, <5>1 DEF JournalFits, PathFits
      <4> QED
        BY <4>1, <4>2
    <3>6. ASSUME NEW p \in Paths, NEW w, Reads(s, Len(s), p, w) PROVE w \in F[p]
      <4>1. CASE p = c.key
        BY <1>4, <3>2, <3>4, <3>6, <4>1, ReadsUnique
      <4>2. CASE p # c.key
        BY <1>4, <3>4, <3>6, <4>2 DEF ObjectFits, Expects
      <4> QED
        BY <4>1, <4>2
    <3> QED
      BY <3>5, <3>6 DEF JournalFits, Expects
  <2> QED
    BY <2>1, <2>2
<1>8. ObjectFits(db, s, F)
  BY <1>4, <1>7 DEF ObjectFits
<1> QED
  BY <1>1, <1>2, <1>3, <1>4, <1>5, <1>6, <1>7, <1>8, ChangeFits
-----------------------------------------------------------------------------
(* The end of a process, and the start of the next.                        *)

\* What is left is the records up to some point.
LEMMA EndFits ==
    ASSUME DurabilityInv, TypeInv, EvidenceHolds, db' = Fresh, status' # "open",
           journal' = journal, sidecar' = sidecar, expected' = expected,
           NEW t, IsSeq(t), store' = store \o t, Len(t) <= Len(db.buffer),
           \A i \in 1..Len(t) : t[i] = db.buffer[i]
    PROVE  EvidenceHolds'
<1>1. PICK s : s = store \o db.buffer
  OBVIOUS
<1>2. PICK u : u = store \o t
  OBVIOUS
<1>3. IsSeq(store) /\ IsSeq(db.buffer)
  BY DEF DurabilityInv, IsDb
<1>4. /\ IsSeq(u) /\ Len(store) \in Nat /\ Len(t) \in Nat /\ Len(db.buffer) \in Nat
      /\ Len(u) = Len(store) + Len(t) /\ Len(s) = Len(store) + Len(db.buffer)
      /\ (\A i \in 1..Len(store) : u[i] = store[i] /\ s[i] = store[i])
      /\ (\A i \in 1..Len(t) : u[Len(store) + i] = t[i])
      /\ (\A i \in 1..Len(db.buffer) : s[Len(store) + i] = db.buffer[i])
  BY <1>1, <1>2, <1>3, SeqConcat, SeqShape
<1>5. PICK n \in Nat : n = Len(u)
  BY <1>4
<1>6. ASSUME NEW i \in 1..n PROVE u[i] = s[i]
  <2>1. CASE i <= Len(store)
    BY <1>4, <2>1
  <2>2. CASE i > Len(store)
    <3>1. i - Len(store) \in 1..Len(t) /\ i = Len(store) + (i - Len(store))
      BY <1>4, <1>5, <2>2
    <3>2. PICK j \in 1..Len(t) : i = Len(store) + j
      BY <3>1
    <3>3. j \in 1..Len(db.buffer)
      BY <1>4, <3>2
    <3> QED
      BY <1>4, <3>2, <3>3
  <2>3. i <= Len(store) \/ i > Len(store)
    BY <1>4
  <2> QED
    BY <2>1, <2>2, <2>3, Zenon
<1>7. Agree(u, s, n) /\ Agree(store, u, Len(store)) /\ n \in Len(store)..Len(s) /\ Len(store) <= n
  BY <1>4, <1>5, <1>6 DEF Agree
<1>8. JournalFits(journal, s, Len(store), expected) /\ SidecarFits(sidecar, store)
  BY <1>1 DEF EvidenceHolds
<1>9. JournalFits(journal, u, n, expected)
  <2> SUFFICES ASSUME NEW p \in Paths PROVE PathFits(journal, u, n, expected, p)
    BY DEF JournalFits
  <2>1. PathFits(journal, s, Len(store), expected, p)
    BY <1>8 DEF JournalFits
  <2>2. ASSUME \A k \in Len(store)..Len(s) : \A v : Reads(s, k, p, v) => v \in expected[p],
               NEW k \in n..n, NEW v, Reads(u, k, p, v)
        PROVE  v \in expected[p]
    <3>1. k = n
      OBVIOUS
    <3>2. Reads(s, n, p, v)
      BY <1>7, <2>2, <3>1, ReadsSame
    <3> QED
      BY <1>7, <2>2, <3>2
  <2> QED
    BY <1>5, <2>1, <2>2 DEF PathFits
<1>10. SidecarFits(sidecar, u)
  BY <1>4, <1>5, <1>7, <1>8, SidecarLonger
<1>11. store' = u /\ store' \o db'.buffer = u
  BY <1>2, <1>4, FreshOk, NothingBuffered
<1>12. /\ JournalFits(journal', store' \o db'.buffer, Len(store'), expected')
       /\ SidecarFits(sidecar', store')
  BY <1>5, <1>9, <1>10, <1>11
<1> QED
  BY <1>12 DEF EvidenceHolds

\* Closing writes all that is buffered.
LEMMA CloseFits ==
    ASSUME DurabilityInv, TypeInv, EvidenceHolds, Close
    PROVE  EvidenceHolds'
<1>1. /\ db' = Fresh /\ status' = "closed" /\ journal' = journal /\ sidecar' = sidecar
      /\ expected' = expected /\ store' = store \o db.buffer
  BY DEF Close, StoreOf
<1>2. PICK t : t = db.buffer
  OBVIOUS
<1>3. IsSeq(t) /\ Len(t) <= Len(db.buffer) /\ \A i \in 1..Len(t) : t[i] = db.buffer[i]
  BY <1>2, SeqShape DEF DurabilityInv, IsDb
<1> QED
  BY <1>1, <1>2, <1>3, EndFits

\* A kill leaves the file with some of the records that were buffered.
LEMMA KillFits ==
    ASSUME DurabilityInv, TypeInv, EvidenceHolds, Kill
    PROVE  EvidenceHolds'
<1>1. /\ db' = Fresh /\ status' = "closed" /\ journal' = journal /\ sidecar' = sidecar
      /\ expected' = expected
  BY DEF Kill
<1>2. IsSeq(db.buffer) /\ Len(db.buffer) \in Nat
  BY SeqShape DEF DurabilityInv, IsDb
<1>3. PICK k \in 0..Len(db.buffer) : store' = store \o SubSeq(db.buffer, 1, k)
  <2>1. PICK K : K = IF todo # <<>> /\ Head(todo).file = "sidecar" THEN {0} ELSE 0..Len(db.buffer)
    OBVIOUS
  <2>2. PICK k \in K : store' = store \o SubSeq(db.buffer, 1, k)
    BY <2>1, Zenon DEF Kill
  <2>3. K \subseteq 0..Len(db.buffer)
    BY <1>2, <2>1
  <2> QED
    BY <2>2, <2>3
<1>4. PICK b : b = db.buffer
  OBVIOUS
<1>5. PICK t : t = SubSeq(b, 1, k)
  OBVIOUS
<1>6. Len(t) <= Len(b) /\ IsSeq(t) /\ \A i \in 1..Len(t) : t[i] = b[i]
  <2>1. IsSeq(b) /\ k \in 0..Len(b) /\ Len(b) \in Nat
    BY <1>2, <1>3, <1>4
  <2>2. IsSeq(t) /\ Len(t) = k /\ \A i \in 1..k : t[i] = b[i]
    BY <1>5, <2>1, SeqPrefix
  <2> QED
    BY <2>1, <2>2
<1>7. store' = store \o t
  BY <1>3, <1>4, <1>5
<1>8. Len(t) <= Len(db.buffer) /\ \A i \in 1..Len(t) : t[i] = db.buffer[i]
  BY <1>4, <1>6
<1> QED
  BY <1>1, <1>6, <1>7, <1>8, EndFits

\* The index a scan of the store builds (database.cpp:3084-3187).
LEMMA ScannedFits ==
    ASSUME IsSeq(store)
    PROVE  IndexFits(ScannedIndex, store, Len(store))
<1>1. PICK n \in Nat : n = Len(store) /\ DOMAIN store = 1..n
  BY SeqShape
<1> DEFINE Latest(p) == CHOOSE k \in DOMAIN store :
                        /\ store[k].path = p
                        /\ \A j \in DOMAIN store : store[j].path = p => j <= k
<1>2. ASSUME NEW p \in DOMAIN ScannedIndex PROVE LastAt(store, n, p, ScannedIndex[p].pos)
  <2>1. PICK k0 \in 1..n : store[k0].path = p
    BY <1>1 DEF ScannedIndex
  <2> DEFINE T == {k \in 1..n : store[k].path = p}
  <2>2. T \in SUBSET Nat /\ T # {} /\ \A m \in T : m <= n
    BY <2>1
  <2>3. PICK k \in T : \A m \in T : m <= k
    <3> HIDE DEF T
    <3> QED
      BY <2>2, GreatestNat
  <2>4. /\ Latest(p) \in DOMAIN store /\ store[Latest(p)].path = p
        /\ \A j \in DOMAIN store : store[j].path = p => j <= Latest(p)
    <3>1. \E x \in DOMAIN store : /\ store[x].path = p
                                  /\ \A j \in DOMAIN store : store[j].path = p => j <= x
      BY <1>1, <2>3
    <3> QED
      BY <3>1, Zenon
  <2>5. ScannedIndex[p].pos = Latest(p)
    BY DEF ScannedIndex
  <2> HIDE DEF Last
  <2>6. PICK z \in 1..n : z = Latest(p)
    BY <1>1, <2>4
  <2> QED
    BY <1>1, <2>4, <2>5, <2>6 DEF LastAt
<1>3. ASSUME NEW p, p \notin DOMAIN ScannedIndex PROVE Silent(store, 0, n, p)
  BY <1>1, <1>3 DEF ScannedIndex, Silent
<1> QED
  BY <1>1, <1>2, <1>3 DEF IndexFits
\* What FromJournal says of every path is what PathFits asks of it.
LEMMA ReplayedFits ==
    ASSUME NEW J, Len(J) \in Nat, NEW m \in Nat, NEW s, NEW E, Len(s) \in Nat, m <= Len(s), JournalFits(J, s, m, E),
           NEW t, Len(t) \in Nat, m <= Len(t), Agree(t, s, m),
           \A p : FromJournal(J, Len(J), m, t, p)
    PROVE  JournalFits(J, t, m, E) /\ Expects(E, t, Len(t))
<1> SUFFICES ASSUME NEW p \in Paths
             PROVE  PathFits(J, t, m, E, p) /\ \A v : Reads(t, Len(t), p, v) => v \in E[p]
  BY DEF JournalFits, Expects
<1>1. PathFits(J, s, m, E, p) /\ FromJournal(J, Len(J), m, t, p)
  BY DEF JournalFits
<1>2. CASE \E v \in E[p] : EntryLast(J, Len(J), p, v)
  <2>1. PICK v \in E[p] : EntryLast(J, Len(J), p, v)
    BY <1>2
  <2>2. ~EntryNone(J, Len(J), p) /\ \A w : EntryLast(J, Len(J), p, w) => w = v
    BY <2>1, EntryUnique
  <2>3. Reads(t, Len(t), p, v)
    BY <1>1, <2>2 DEF FromJournal
  <2>4. \A w : Reads(t, Len(t), p, w) => w = v
    BY <2>3, ReadsUnique
  <2> QED
    BY <1>2, <2>1, <2>4 DEF PathFits
<1>3. CASE /\ EntryNone(J, Len(J), p)
           /\ \A n \in m..Len(s) : \A v : Reads(s, n, p, v) => v \in E[p]
  <2>1. \A v : ~EntryLast(J, Len(J), p, v)
    BY <1>3, EntryUnique
  <2>2. Silent(t, m, Len(t), p)
    BY <1>1, <2>1 DEF FromJournal
  <2>3. ASSUME NEW n \in m..Len(t), NEW v, Reads(t, n, p, v) PROVE v \in E[p]
    <3>1. n \in Nat /\ m <= n /\ Silent(t, m, n, p)
      BY <2>2 DEF Silent
    <3>2. Reads(t, m, p, v)
      BY <2>3, <3>1, ReadsBack
    <3>3. Reads(s, m, p, v)
      BY <3>2, ReadsSame
    <3>4. m \in m..Len(s)
      OBVIOUS
    <3> QED
      BY <1>3, <3>3, <3>4
  <2>4. Len(t) \in m..Len(t)
    OBVIOUS
  <2> QED
    BY <1>3, <2>3, <2>4 DEF PathFits
<1> QED
  BY <1>1, <1>2, <1>3 DEF PathFits

\* What open loads before the replay: the index of the sidecar, when that is
\* of the whole store, and otherwise that of a scan.
LEMMA LoadedReads ==
    ASSUME DurabilityInv, SidecarFits(sidecar, store), SidecarUsable \/ StoreScannable
    PROVE  /\ IsDb(Loaded) /\ Loaded.buffer = <<>> /\ Loaded.resident = Empty
           /\ IndexFits(Loaded.index, store, Len(store))
           /\ \A p \in DOMAIN Loaded.index : p \in DOMAIN Loaded.paths
<1>1. IsDb(Loaded) /\ IsSeq(store)
  BY LoadedOk DEF DurabilityInv, EvidenceOk
<1>2. /\ Loaded.buffer = <<>> /\ Loaded.resident = Empty
      /\ Loaded.index = IF SidecarUsable THEN sidecar.index ELSE ScannedIndex
      /\ \A p : p \in DOMAIN Loaded.paths <=> KnownOnDisk(p)
  BY DEF Loaded, Fresh, KnownOnDisk
<1>3. CASE SidecarUsable
  BY <1>1, <1>2, <1>3 DEF SidecarFits, SidecarUsable
<1>4. CASE ~SidecarUsable
  <2>1. IndexFits(ScannedIndex, store, Len(store))
    BY <1>1, ScannedFits
  <2>2. \A p \in DOMAIN ScannedIndex : KnownOnDisk(p)
    BY <1>4 DEF ScannedIndex, StoreScannable
  <2> QED
    BY <1>1, <1>2, <1>4, <2>1, <2>2
<1> QED
  BY <1>3, <1>4
\* Opening a database that has a manifest reads what is expected.
LEMMA OpenExistingFits ==
    ASSUME DurabilityInv, TypeInv, Recoverable, EvidenceHolds, OpenExisting
    PROVE  EvidenceHolds'
<1>1. UNCHANGED files /\ expected' = expected /\ grown' = grown /\ status # "open"
  BY DEF OpenExisting
<1>2. /\ JournalFits(journal, store \o db.buffer, Len(store), expected)
      /\ SidecarFits(sidecar, store)
  BY DEF EvidenceHolds
<1>3. store' = store /\ journal' = journal /\ sidecar' = sidecar
  BY <1>1 DEF files
<1>4. CASE UNCHANGED <<db, todo>> /\ status' = "failed"
  <2>1. /\ JournalFits(journal', store' \o db'.buffer, Len(store'), expected')
        /\ SidecarFits(sidecar', store') /\ status' # "open"
    BY <1>1, <1>2, <1>3, <1>4
  <2> QED
    BY <2>1 DEF EvidenceHolds
<1>5. CASE /\ NodesLoadable /\ (SidecarUsable \/ StoreScannable) /\ status' = "open"
           /\ db' = Replayed(journal)
           /\ todo' = IF SidecarUsable THEN <<>>
                      ELSE Replace("sidecar", 0, [size |-> Len(store), index |-> ScannedIndex])
  <2>1. PICK d : Good(d, pages, tmps, journal, grown)
    BY <1>1 DEF Recoverable
  <2>2. PICK G : G = grown
    OBVIOUS
  <2>3. Good(d, pages, tmps, journal, G) /\ Tree(d)
    BY <2>1, <2>2 DEF Good
  <2>4. /\ IsDb(Loaded) /\ Loaded.buffer = <<>> /\ Loaded.resident = Empty
        /\ IndexFits(Loaded.index, store, Len(store))
        /\ \A p \in DOMAIN Loaded.index : p \in DOMAIN Loaded.paths
    BY <1>2, <1>5, LoadedReads
  <2>5. \A p \in DOMAIN Loaded.index : p \in DOMAIN d.paths
    BY <2>3, <2>4, LoadedPartial DEF Partial
  <2>6. IsSeq(store) /\ IsSeq(journal) /\ IsSeq(db.buffer)
    BY DEF DurabilityInv, IsDb
  <2>7. PICK e : e = Replayed(journal)
    OBVIOUS
  <2>8. PICK t : t = store \o e.buffer
    OBVIOUS
  <2>9. IsDb(e) /\ Replaying(e, d, journal, Len(journal), Len(store), t)
    BY <2>3, <2>4, <2>5, <2>6, <2>7, <2>8, ReplayedReads
  <2>10. SameNodes(d, e)
    BY <2>3, <2>4, <2>7, ReplayedTree
  <2>11. PICK s : s = store \o db.buffer
    OBVIOUS
  <2>12. IsSeq(e.buffer)
    BY <2>9 DEF IsDb
  <2>13. PICK m \in Nat : m = Len(store)
    BY <2>6, SeqShape
  <2>14. /\ Len(s) \in Nat /\ Len(t) \in Nat /\ m <= Len(s) /\ m <= Len(t)
         /\ Agree(t, s, m) /\ Agree(store, t, m) /\ Len(journal) \in Nat
    BY <2>6, <2>8, <2>11, <2>12, <2>13, SeqConcat, SeqShape DEF Agree
  <2>15. JournalFits(journal, t, m, expected) /\ Expects(expected, t, Len(t))
    <3>1. JournalFits(journal, s, m, expected) /\ \A p : FromJournal(journal, Len(journal), m, t, p)
      BY <1>2, <2>9, <2>11, <2>13 DEF Replaying
    <3> QED
      BY <2>14, <3>1, ReplayedFits
  <2>16. \A p \in DOMAIN e.index : Known(e, p)
    BY <2>9, <2>10 DEF Replaying, SameNodes, Known
  <2>17. ObjectFits(e, t, expected)
    BY <2>9, <2>15, <2>16 DEF ObjectFits, Replaying
  <2>18. IsSeq(todo') /\ Mute(todo') /\ SidecarsFit(todo', t)
    <3>1. CASE SidecarUsable
      BY <1>5, <3>1, SeqEmpty, FitsPieces
    <3>2. CASE ~SidecarUsable
      <4>1. PICK c : c = [size |-> Len(store), index |-> ScannedIndex]
        OBVIOUS
      <4>2. c.size = m /\ c.index = ScannedIndex
        BY <2>13, <4>1
      <4>3. IndexFits(c.index, store, c.size)
        BY <2>6, <2>13, <4>2, ScannedFits
      <4>4. IndexFits(c.index, t, c.size)
        BY <2>14, <4>2, <4>3, ReadsSame
      <4>5. SidecarFits(c, t)
        BY <2>14, <4>2, <4>4 DEF SidecarFits
      <4>6. todo' = Replace("sidecar", 0, c)
        BY <1>5, <3>2, <4>1
      <4> QED
        BY <4>5, <4>6, SidecarSaved
    <3> QED
      BY <3>1, <3>2
  <2>19. PICK u : u = todo'
    OBVIOUS
  <2>20. AnswersFit(u, t, journal, expected)
    BY <2>18, <2>19, MuteFits
  <2>21. store' \o db'.buffer = t /\ db' = e /\ Len(store') = m
    BY <1>3, <1>5, <2>7, <2>8, <2>13
  <2>22. /\ JournalFits(journal', store' \o db'.buffer, Len(store'), expected')
         /\ SidecarFits(sidecar', store')
         /\ ObjectFits(db', store' \o db'.buffer, expected')
         /\ SidecarsFit(todo', store' \o db'.buffer)
         /\ AnswersFit(todo', store' \o db'.buffer, journal', expected')
    BY <1>1, <1>2, <1>3, <2>15, <2>17, <2>18, <2>19, <2>20, <2>21
  <2> QED
    BY <2>22 DEF EvidenceHolds
<1> QED
  BY <1>4, <1>5, Zenon DEF OpenExisting
-----------------------------------------------------------------------------
(* The invariant holds throughout.                                         *)

\* A new database has no record, and nothing is expected of it.
LEMMA InitFits == Init => EvidenceInv
<1> SUFFICES ASSUME Init PROVE EvidenceHolds
  BY DEF EvidenceInv
<1>1. /\ store = <<>> /\ journal = <<>> /\ todo = <<>> /\ sidecar = NoSidecar
      /\ expected = [p \in Paths |-> {None}] /\ db = PagesSaved(WriteRow(Fresh, 0, Leaf(<<>>)))
  BY DEF Init
<1>2. IsDb(Fresh) /\ Fresh.buffer = <<>> /\ Fresh.index = Empty /\ Fresh.resident = Empty
  BY FreshOk DEF Fresh
<1>3. PICK leaf : leaf = Leaf(<<>>)
  OBVIOUS
<1>4. PICK d : d = WriteRow(Fresh, 0, leaf)
  OBVIOUS
<1>5. StillReads(Fresh, d)
  BY <1>2, <1>4, ReadsRow
<1>6. StillReads(d, PagesSaved(d))
  BY <1>5, ReadsSaved DEF StillReads
<1>7. db = PagesSaved(d)
  BY <1>1, <1>3, <1>4
<1>8. StillReads(Fresh, db)
  BY <1>5, <1>6, <1>7, StillReadsTransitive
<1>9. PICK s : s = store \o db.buffer
  OBVIOUS
<1>10. db.buffer = <<>> /\ db.index = Empty /\ SameReads(Fresh, db)
  BY <1>2, <1>8 DEF StillReads, SameReads
<1>11. PICK z : z = <<>>
  OBVIOUS
<1>12. IsSeq(z) /\ Len(z) = 0 /\ store = z /\ journal = z /\ todo = z /\ s = z
  BY <1>1, <1>9, <1>10, <1>11, SeqEmpty, NothingBuffered
<1>13. DOMAIN Empty = {}
  BY DEF Empty
<1>14. ObjectReads(Fresh, z)
  BY <1>2, <1>12, <1>13 DEF ObjectReads, IndexFits, Silent
<1>15. ObjectReads(db, z)
  BY <1>10, <1>14, SameReadsRead
<1>16. ASSUME NEW p \in Paths, NEW v, Reads(z, 0, p, v) PROVE v \in expected[p]
  <2>1. v = None
    BY <1>16 DEF Reads, LastAt
  <2> QED
    BY <1>1, <2>1
<1>17. JournalFits(z, z, 0, expected)
  <2>1. \A p : EntryNone(z, 0, p)
    BY DEF EntryNone
  <2> QED
    BY <1>12, <1>16, <2>1 DEF JournalFits, PathFits
<1>18. ObjectFits(db, z, expected)
  BY <1>10, <1>12, <1>13, <1>15, <1>16 DEF ObjectFits, Expects
<1>19. SidecarFits(sidecar, z)
  <2>1. sidecar.size = -1 /\ sidecar.index = Empty
    BY <1>1 DEF NoSidecar
  <2> QED
    BY <1>12, <1>13, <2>1 DEF SidecarFits, IndexFits, Silent
<1>20. Mute(z) /\ SidecarsFit(z, z)
  BY <1>11, FitsPieces
<1>21. AnswersFit(z, z, z, expected)
  BY <1>12, <1>20, MuteFits
<1> QED
  BY <1>9, <1>12, <1>17, <1>18, <1>19, <1>20, <1>21 DEF EvidenceHolds

\* Every step keeps it.
LEMMA NextEvidence ==
    ASSUME DurabilityInv, TypeInv, RecoveryInv, EvidenceInv, [Next]_vars
    PROVE  EvidenceInv'
<1> SUFFICES ASSUME "unjournaled" \notin risks' PROVE EvidenceHolds'
  BY DEF EvidenceInv
<1>1. CASE UNCHANGED vars
  <2>1. EvidenceHolds
    BY <1>1 DEF EvidenceInv, vars
  <2>2. /\ status' = status /\ db' = db /\ todo' = todo /\ store' = store
        /\ sidecar' = sidecar /\ journal' = journal /\ expected' = expected
    BY <1>1 DEF vars, files
  <2> QED
    BY <2>1, <2>2 DEF EvidenceHolds
<1>2. CASE Call
  <2>1. "unjournaled" \notin risks
    BY <1>2 DEF Call, SplitLeaf, SplitToBox, PutEvidence, DeletePayload, ReadEvidence, SetBulk,
                Checkpoint
  <2>2. Recoverable /\ EvidenceHolds
    BY <2>1 DEF RecoveryInv, EvidenceInv
  <2>3. (\A p \in Paths : ~DeletePayload(p)) /\ (\A on \in BOOLEAN : ~SetBulk(on))
    BY DEF DeletePayload, SetBulk
  <2> QED
    BY <1>2, <2>2, <2>3, SplitLeafFits, SplitToBoxFits, PutEvidenceFits, ReadEvidenceFits,
       CheckpointFits DEF Call
<1>3. CASE FileChange
  <2>1. "unjournaled" \notin risks
    BY <1>3 DEF FileChange, RemoveFile, RenameFile, FlushStream, AppendJournal,
                TruncateJournalFile, ReturnFromCall, Made
  <2>2. Recoverable /\ EvidenceHolds
    BY <2>1 DEF RecoveryInv, EvidenceInv
  <2> QED
    BY <1>3, <2>2, RemoveFileFits, RenameFileFits, FlushStreamFits, AppendJournalFits,
       TruncateJournalFits, ReturnFits DEF FileChange
<1>4. CASE Close
  <2>1. EvidenceHolds
    BY <1>4 DEF EvidenceInv, Close
  <2> QED
    BY <1>4, <2>1, CloseFits
<1>5. CASE Kill
  <2>1. EvidenceHolds
    BY <1>5 DEF EvidenceInv, Kill
  <2> QED
    BY <1>5, <2>1, KillFits
<1>6. CASE OpenExisting
  <2>1. Recoverable /\ EvidenceHolds
    BY <1>6 DEF RecoveryInv, EvidenceInv, OpenExisting
  <2> QED
    BY <1>6, <2>1, OpenExistingFits
<1>7. CASE OpenWithoutManifest
  <2>1. Recoverable
    BY <1>7 DEF RecoveryInv, OpenWithoutManifest
  <2> QED
    BY <1>7, <2>1 DEF Recoverable, OpenWithoutManifest
<1> QED
  BY <1>1, <1>2, <1>3, <1>4, <1>5, <1>6, <1>7 DEF Next

\* What evidence() returns is the value of the last put_evidence that returned,
\* or that of a call a kill interrupted, whatever was called, closed, killed
\* and opened again before, as long as no bulk mode, no deletion and no kill
\* inside replace_file came before (database.cpp:1680-1789, 3491-3591).
THEOREM AckedCorrect == Spec => []AckedUnlessUnjournaled
<1>1. DurabilityInv /\ EvidenceInv => AckedUnlessUnjournaled
  <2> SUFFICES ASSUME DurabilityInv, EvidenceInv, "unjournaled" \notin risks, status = "open",
                      NEW p \in Paths
               PROVE  Lookup(db, p) \in expected[p]
    BY DEF AckedUnlessUnjournaled, AckedReadable
  <2>1. PICK s : s = store \o db.buffer
    OBVIOUS
  <2>2. ObjectFits(db, s, expected) /\ s = StoreOf(db)
    BY <2>1 DEF EvidenceInv, EvidenceHolds, StoreOf
  <2>3. ObjectReads(db, s) /\ (\A q \in DOMAIN db.index : Known(db, q)) /\ Expects(expected, s, Len(s))
    BY <2>2 DEF ObjectFits
  <2>4. Reads(s, Len(s), p, Lookup(db, p))
    BY <2>2, <2>3, LookupReads
  <2> QED
    BY <2>3, <2>4 DEF Expects
<1>2. Init => DurabilityInv /\ TypeInv /\ RecoveryInv /\ EvidenceInv
  BY InitDurability, InitTyped, InitRecovers, InitFits
<1>3. DurabilityInv /\ TypeInv /\ RecoveryInv /\ EvidenceInv /\ [Next]_vars
        => (DurabilityInv /\ TypeInv /\ RecoveryInv /\ EvidenceInv)'
  BY NextDurability, NextTyped, NextRecovers, NextEvidence
<1> QED
  BY <1>1, <1>2, <1>3, PTL DEF Spec

=============================================================================
