------------------------- MODULE LectDatabaseProofs -------------------------
(***************************************************************************)
(* Theorems about LectDatabase, for any number of calls, closes and kills  *)
(* and any values of the constants.  The object is followed through the    *)
(* calls by two relations: Grows (rows are added or changed only on pages  *)
(* that are dirty afterwards) and ValidIndex (every entry of the evidence  *)
(* index points at a record of its own path); the changes of the directory *)
(* a call leaves in todo are followed by ChangesOk, which says of each one *)
(* what must come before it, or after it.                                  *)
(* The second half shows that a database whose splits all ended in a flush *)
(* and that was never killed can be opened again, however often it was     *)
(* closed without a checkpoint (OpensUnlessUnsaved).                       *)
(***************************************************************************)
EXTENDS LectDatabase, DataLemmas, FiniteSetTheorems

-----------------------------------------------------------------------------
(* The object. *)

IsDb(d) ==
    /\ d = [ids |-> d.ids, paths |-> d.paths, rows |-> d.rows, dirty |-> d.dirty,
            resident |-> d.resident, index |-> d.index, buffer |-> d.buffer,
            sidecarDirty |-> d.sidecarDirty, pending |-> d.pending, appends |-> d.appends,
            bulk |-> d.bulk, log |-> d.log]
    /\ IsFiniteSet(d.dirty)
    /\ IsSeq(d.buffer) /\ IsSeq(d.log)

\* What a call does to the rows: pages it changes are dirty afterwards.
RowsGrow(d, e) ==
    /\ d.dirty \subseteq e.dirty
    /\ \A i \in DOMAIN e.rows : PageOf(i) \notin e.dirty =>
          i \in DOMAIN d.rows /\ e.rows[i] = d.rows[i]
SameEvidence(d, e) == e.index = d.index /\ e.buffer = d.buffer
Grows(d, e) == IsDb(e) /\ RowsGrow(d, e) /\ SameEvidence(d, e)

\* Growing twice is growing.
LEMMA GrowsTransitive ==
    ASSUME NEW d, NEW e, NEW f, Grows(d, e), Grows(e, f)
    PROVE  Grows(d, f)
BY DEF Grows, RowsGrow, SameEvidence

\* write_node_record marks the page of the row it writes (database.cpp:2270-2316).
LEMMA WriteRowGrows ==
    ASSUME NEW d, IsDb(d), NEW id, NEW row
    PROVE  Grows(d, WriteRow(d, id, row)) /\ WriteRow(d, id, row).log = d.log
<1> DEFINE e == WriteRow(d, id, row)
<1>1. CASE Known(d, row.path) => IdOf(d, row.path) = id
  <2>1. e = [d EXCEPT !.ids = @ \cup {id}, !.paths = Put(@, row.path, id),
                      !.rows = Put(@, id, row), !.dirty = @ \cup {PageOf(id)}]
    BY <1>1 DEF WriteRow
  <2>2. /\ e = [ids |-> d.ids \cup {id}, paths |-> Put(d.paths, row.path, id),
                rows |-> Put(d.rows, id, row), dirty |-> d.dirty \cup {PageOf(id)},
                resident |-> d.resident, index |-> d.index, buffer |-> d.buffer,
                sidecarDirty |-> d.sidecarDirty, pending |-> d.pending, appends |-> d.appends,
                bulk |-> d.bulk, log |-> d.log]
    BY <2>1 DEF IsDb
  <2> HIDE DEF e
  <2>3. IsFiniteSet(e.dirty)
    BY <2>2, FS_AddElement DEF IsDb
  <2>4. IsDb(e)
    BY <2>2, <2>3 DEF IsDb
  <2>5. RowsGrow(d, e)
    BY <2>2 DEF RowsGrow, Put
  <2>6. SameEvidence(d, e) /\ e.log = d.log
    BY <2>2 DEF SameEvidence
  <2> QED
    BY <2>4, <2>5, <2>6 DEF Grows, e
<1>2. CASE ~(Known(d, row.path) => IdOf(d, row.path) = id)
  <2>1. e = [d EXCEPT !.ids = @ \cup {id}]
    BY <1>2 DEF WriteRow
  <2>2. /\ e = [ids |-> d.ids \cup {id}, paths |-> d.paths, rows |-> d.rows, dirty |-> d.dirty,
                resident |-> d.resident, index |-> d.index, buffer |-> d.buffer,
                sidecarDirty |-> d.sidecarDirty, pending |-> d.pending, appends |-> d.appends,
                bulk |-> d.bulk, log |-> d.log]
    BY <2>1 DEF IsDb
  <2> HIDE DEF e
  <2> QED
    BY <2>2 DEF Grows, IsDb, RowsGrow, SameEvidence, e
<1> QED
  BY <1>1, <1>2

\* Linking the children marks the page of the parent.
LEMMA LinkChildrenGrows ==
    ASSUME NEW d, IsDb(d), NEW p, NEW l, NEW r
    PROVE  Grows(d, LinkChildren(d, p, l, r)) /\ LinkChildren(d, p, l, r).log = d.log
<1> DEFINE e == LinkChildren(d, p, l, r)
           id == IdOf(d, p)
           linked == Put(d.rows, id, [d.rows[id] EXCEPT !.left = l, !.right = r])
<1>1. \A i \in DOMAIN linked \ {id} : i \in DOMAIN d.rows /\ linked[i] = d.rows[i]
  BY DEF Put
<1>2. e = [d EXCEPT !.rows = linked, !.dirty = @ \cup {PageOf(id)}]
  BY DEF LinkChildren
<1> HIDE DEF e, linked
<1>3. e = [ids |-> d.ids, paths |-> d.paths, rows |-> linked, dirty |-> d.dirty \cup {PageOf(id)},
           resident |-> d.resident, index |-> d.index, buffer |-> d.buffer,
           sidecarDirty |-> d.sidecarDirty, pending |-> d.pending, appends |-> d.appends,
           bulk |-> d.bulk, log |-> d.log]
  BY <1>2 DEF IsDb
<1>4. IsFiniteSet(e.dirty)
  BY <1>3, FS_AddElement DEF IsDb
<1>5. IsDb(e)
  BY <1>3, <1>4 DEF IsDb
<1>6. RowsGrow(d, e)
  BY <1>1, <1>3 DEF RowsGrow
<1>7. SameEvidence(d, e) /\ e.log = d.log
  BY <1>3 DEF SameEvidence
<1> QED
  BY <1>5, <1>6, <1>7 DEF Grows, e

\* The journal and pending flags are not part of what a call grows.
LEMMA JournalingGrows ==
    ASSUME NEW d, IsDb(d), NEW b, NEW log, IsSeq(log)
    PROVE  Grows(d, [d EXCEPT !.pending = b, !.log = log])
<1> DEFINE f == [d EXCEPT !.pending = b]
           e == [f EXCEPT !.log = log]
<1>1. f = [ids |-> d.ids, paths |-> d.paths, rows |-> d.rows, dirty |-> d.dirty,
           resident |-> d.resident, index |-> d.index, buffer |-> d.buffer,
           sidecarDirty |-> d.sidecarDirty, pending |-> b, appends |-> d.appends,
           bulk |-> d.bulk, log |-> d.log]
  BY DEF IsDb
<1> HIDE DEF f
<1>2. e = [ids |-> d.ids, paths |-> d.paths, rows |-> d.rows, dirty |-> d.dirty,
           resident |-> d.resident, index |-> d.index, buffer |-> d.buffer,
           sidecarDirty |-> d.sidecarDirty, pending |-> b, appends |-> d.appends,
           bulk |-> d.bulk, log |-> log]
  BY <1>1
<1> HIDE DEF e
<1>3. IsDb(e) /\ RowsGrow(d, e) /\ SameEvidence(d, e)
  BY <1>2 DEF IsDb, RowsGrow, SameEvidence
<1>4. Grows(d, e)
  BY <1>3 DEF Grows
<1> QED
  BY <1>4, Zenon DEF e, f

\* split_leaf changes no row whose page it leaves clean (database.cpp:1507-1579).
LEMMA SplitStepGrows ==
    ASSUME NEW d, IsDb(d), NEW p
    PROVE  Grows(d, SplitStep(d, p))
<1> DEFINE l == NextId(d)
           d1 == WriteRow(d, l, Leaf(Append(p, 0)))
           d2 == WriteRow(d1, l + 1, Leaf(Append(p, 1)))
           d3 == LinkChildren(d2, p, l, l + 1)
           log == IF d.bulk THEN d3.log
                  ELSE Append(d3.log, [type |-> "split", node |-> IdOf(d, p),
                                       left |-> l, right |-> l + 1])
           e == [d3 EXCEPT !.pending = TRUE, !.log = log]
<1>1. CASE ~HasRow(d, p) \/ ~IsLeaf(d, p) \/ Len(p) + 1 >= MaxTreeDepth
  BY <1>1 DEF SplitStep, Grows, RowsGrow, SameEvidence
<1>2. CASE ~(~HasRow(d, p) \/ ~IsLeaf(d, p) \/ Len(p) + 1 >= MaxTreeDepth)
  <2>1. SplitStep(d, p) = e
    BY <1>2 DEF SplitStep
  <2> HIDE DEF l
  <2>2. Grows(d, d1)
    BY WriteRowGrows
  <2>3. Grows(d1, d2)
    BY <2>2, WriteRowGrows DEF Grows
  <2> HIDE DEF d2
  <2>4. Grows(d2, d3)
    BY <2>3, LinkChildrenGrows DEF Grows
  <2> HIDE DEF d3
  <2>5. Grows(d, d3)
    BY <2>2, <2>3, <2>4, GrowsTransitive
  <2>6. IsSeq(log)
    BY <2>5, SeqAppend DEF Grows, IsDb
  <2> HIDE DEF log
  <2>7. Grows(d3, e)
    <3>1. IsDb(d3)
      BY <2>5 DEF Grows
    <3> QED
      BY <2>6, <3>1, JournalingGrows, Zenon
  <2> QED
    BY <2>1, <2>5, <2>7, GrowsTransitive
<1> QED
  BY <1>1, <1>2

\* The equation that SplitAlong solves has a solution.
SplitSteps(d, p, n, after) ==
    [k \in 0..n |-> IF k = 0 THEN d ELSE SplitStep(after[k - 1], SubSeq(p, 1, k - 1))]

\* There is a function that satisfies the equation, for a way of any length.
LEMMA SplitStepsExist ==
    ASSUME NEW d, NEW p, NEW n \in Nat
    PROVE  \E after : after = SplitSteps(d, p, n, after)
<1> DEFINE Op(x, k) == SplitStep(x, SubSeq(p, 1, k - 1))
           Ok(n_) == \E after : after = [k \in 0..n_ |-> IF k = 0 THEN d ELSE Op(after[k - 1], k)]
           S == {m \in Nat : Ok(m)}
<1> HIDE DEF Op
<1>1. 0 \in S
  <2>1. [k \in 0..0 |-> d] = [k \in 0..0 |-> IF k = 0 THEN d ELSE Op([j \in 0..0 |-> d][k - 1], k)]
    OBVIOUS
  <2> QED
    BY <2>1
<1>2. ASSUME NEW m \in Nat, m \in S PROVE m + 1 \in S
  <2>1. PICK f : f = [k \in 0..m |-> IF k = 0 THEN d ELSE Op(f[k - 1], k)]
    BY <1>2
  <2> DEFINE g == [k \in 0..m + 1 |-> IF k <= m THEN f[k] ELSE Op(f[m], m + 1)]
  <2>2. \A k \in 0..m + 1 : g[k] = IF k = 0 THEN d ELSE Op(g[k - 1], k)
    <3> TAKE k \in 0..m + 1
    <3>1. CASE k = 0
      BY <2>1, <3>1
    <3>2. CASE k \in 1..m
      <4>1. k \in 0..m /\ k - 1 \in 0..m /\ k # 0
        BY <3>2
      <4>2. g[k] = f[k] /\ g[k - 1] = f[k - 1]
        BY <4>1
      <4>3. f[k] = Op(f[k - 1], k)
        BY <2>1, <4>1
      <4> QED
        BY <4>1, <4>2, <4>3
    <3>3. CASE k = m + 1
      <4>1. g[k] = Op(f[m], k) /\ g[k - 1] = f[m] /\ k # 0
        BY <3>3
      <4> QED
        BY <4>1
    <3> QED
      BY <3>1, <3>2, <3>3
  <2>3. g = [k \in 0..m + 1 |-> IF k = 0 THEN d ELSE Op(g[k - 1], k)]
    BY <2>2
  <2> HIDE DEF g
  <2>4. Ok(m + 1)
    BY <2>3
  <2> QED
    BY <2>4
<1>3. n \in S
  <2> HIDE DEF S
  <2> QED
    BY <1>1, <1>2, NatSetInduction
<1> QED
  BY <1>3 DEF Op, SplitSteps

\* Nor does split_to_box, whatever the length of the way it splits.
LEMMA SplitAlongGrows ==
    ASSUME NEW d, IsDb(d), NEW p, IsSeq(p)
    PROVE  Grows(d, SplitAlong(d, p))
<1> DEFINE after == CHOOSE g : g = SplitSteps(d, p, Len(p), g)
<1>1. Len(p) \in Nat
  BY SeqShape
<1>2. after = SplitSteps(d, p, Len(p), after)
  <2>1. \E g : g = SplitSteps(d, p, Len(p), g)
    BY <1>1, SplitStepsExist
  <2> QED
    BY <2>1
<1>3. SplitAlong(d, p) = after[Len(p)]
  BY DEF SplitAlong, SplitSteps
<1> HIDE DEF after
<1>4. \A k \in 0..Len(p) : after[k] = IF k = 0 THEN d
                                      ELSE SplitStep(after[k - 1], SubSeq(p, 1, k - 1))
  BY <1>2 DEF SplitSteps
<1> DEFINE S == {k \in Nat : k <= Len(p) => Grows(d, after[k])}
<1>5. 0 \in S
  BY <1>1, <1>4 DEF Grows, RowsGrow, SameEvidence
<1>6. ASSUME NEW k \in Nat, k \in S PROVE k + 1 \in S
  <2> SUFFICES ASSUME k + 1 <= Len(p) PROVE Grows(d, after[k + 1])
    OBVIOUS
  <2>1. Grows(d, after[k])
    BY <1>1, <1>6
  <2>2. after[k + 1] = SplitStep(after[k], SubSeq(p, 1, k))
    BY <1>1, <1>4
  <2>3. Grows(after[k], after[k + 1])
    BY <2>1, <2>2, SplitStepGrows DEF Grows
  <2> QED
    BY <2>1, <2>3, GrowsTransitive
<1>7. Len(p) \in S
  <2> HIDE DEF S
  <2> QED
    BY <1>1, <1>5, <1>6, NatSetInduction
<1> QED
  BY <1>1, <1>3, <1>7

-----------------------------------------------------------------------------
(* Evidence: an index is valid for a sequence of records if each of its    *)
(* entries points at a record of its own path.                             *)

ValidIndex(index, s) ==
    \A p \in DOMAIN index : /\ index[p].pos \in 1..Len(s)
                            /\ s[index[p].pos].path = p
                            /\ s[index[p].pos].gone = index[p].gone

\* Records added at the end leave an index valid.
LEMMA ValidLonger ==
    ASSUME NEW index, NEW s, NEW t, IsSeq(s), IsSeq(t), ValidIndex(index, s)
    PROVE  ValidIndex(index, s \o t)
BY SeqConcat, SeqShape DEF ValidIndex

\* append_evidence_record_to_store keeps the index valid: the entry it writes
\* points past the store and the buffer together (database.cpp:3300-3342).
LEMMA AppendRecordValid ==
    ASSUME NEW d, IsDb(d), IsSeq(store), ValidIndex(d.index, store \o d.buffer), NEW p, NEW v
    PROVE  LET e == AppendRecord(d, p, v)
           IN /\ IsDb(e) /\ ValidIndex(e.index, store \o e.buffer)
              /\ RowsGrow(d, e) /\ e.log = d.log
<1> DEFINE r == Record(p, v)
           full == store \o d.buffer
           entry == [pos |-> Len(full) + 1, gone |-> v = None]
           e == AppendRecord(d, p, v)
<1>1. IsSeq(d.buffer) /\ IsSeq(Append(d.buffer, r)) /\ IsSeq(full)
  BY SeqAppend, SeqConcat DEF IsDb
<1>2. e = [d EXCEPT !.buffer = Append(@, r), !.index = Put(@, p, entry),
                    !.appends = @ + 1, !.sidecarDirty = TRUE]
  BY Zenon DEF AppendRecord, StoreOf
<1>3. r.path = p /\ r.gone = (v = None)
  BY DEF Record
<1> HIDE DEF entry, r
<1>4. e = [ids |-> d.ids, paths |-> d.paths, rows |-> d.rows, dirty |-> d.dirty,
           resident |-> d.resident, index |-> Put(d.index, p, entry),
           buffer |-> Append(d.buffer, r), sidecarDirty |-> TRUE, pending |-> d.pending,
           appends |-> d.appends + 1, bulk |-> d.bulk, log |-> d.log]
  BY <1>2 DEF IsDb
<1> HIDE DEF e
<1>5. IsDb(e) /\ RowsGrow(d, e) /\ e.log = d.log
  BY <1>1, <1>4 DEF IsDb, RowsGrow
<1> DEFINE more == store \o Append(d.buffer, r)
<1>6. /\ Len(more) = Len(full) + 1 /\ Len(full) \in Nat
      /\ \A i \in 1..Len(full) : more[i] = full[i]
      /\ more[Len(full) + 1] = r
  <2>1. /\ Len(store) \in Nat /\ Len(d.buffer) \in Nat
        /\ Len(full) = Len(store) + Len(d.buffer)
        /\ Len(more) = Len(store) + Len(d.buffer) + 1
    BY <1>1, SeqConcat, SeqAppend, SeqShape
  <2>2. more[Len(full) + 1] = r
    <3>1. /\ Len(d.buffer) + 1 \in 1..Len(Append(d.buffer, r))
          /\ Append(d.buffer, r)[Len(d.buffer) + 1] = r
      BY <1>1, <2>1, SeqAppend
    <3>2. more[Len(store) + (Len(d.buffer) + 1)] = r
      BY <1>1, <3>1, SeqConcat
    <3> QED
      BY <2>1, <3>2
  <2>3. ASSUME NEW i \in 1..Len(full) PROVE more[i] = full[i]
    <3>1. CASE i <= Len(store)
      BY <1>1, <2>1, <3>1, SeqConcat
    <3>2. CASE i > Len(store)
      <4>1. PICK j \in 1..Len(d.buffer) : i = Len(store) + j
        <5>1. i - Len(store) \in 1..Len(d.buffer) /\ i = Len(store) + (i - Len(store))
          BY <2>1, <3>2
        <5> QED
          BY <5>1
      <4>2. full[i] = d.buffer[j]
        BY <1>1, <4>1, SeqConcat
      <4>3. Append(d.buffer, r)[j] = d.buffer[j] /\ j \in 1..Len(Append(d.buffer, r))
        BY <1>1, <2>1, SeqAppend
      <4>4. more[i] = d.buffer[j]
        BY <1>1, <4>1, <4>3, SeqConcat
      <4> QED
        BY <4>2, <4>4
    <3> QED
      BY <2>1, <3>1, <3>2
  <2> QED
    BY <2>1, <2>2, <2>3
<1> HIDE DEF more, full
<1>7. ValidIndex(Put(d.index, p, entry), more)
  <2> SUFFICES ASSUME NEW x \in DOMAIN d.index \cup {p}
               PROVE  LET i == IF x = p THEN entry ELSE d.index[x]
                      IN i.pos \in 1..Len(more) /\ more[i.pos].path = x /\ more[i.pos].gone = i.gone
    BY DEF ValidIndex, Put
  <2>1. CASE x = p
    BY <1>3, <1>6, <2>1 DEF entry
  <2>2. CASE x # p
    <3> DEFINE at == d.index[x].pos
    <3>1. at \in 1..Len(full) /\ full[at].path = x /\ full[at].gone = d.index[x].gone
      BY <2>2 DEF ValidIndex, full
    <3>2. at \in 1..Len(more) /\ more[at] = full[at]
      BY <1>6, <3>1
    <3> QED
      BY <2>2, <3>1, <3>2
  <2> QED
    BY <2>1, <2>2
<1> QED
  BY <1>4, <1>5, <1>7 DEF e, more

-----------------------------------------------------------------------------
(* Replaying the journal. *)

EvidenceOk(d) == IsDb(d) /\ ValidIndex(d.index, store \o d.buffer)

\* A call that only adds rows leaves index and records alone.
LEMMA GrowsKeepsEvidence ==
    ASSUME NEW d, NEW e, EvidenceOk(d), Grows(d, e)
    PROVE  EvidenceOk(e) /\ RowsGrow(d, e)
BY DEF EvidenceOk, Grows, SameEvidence

\* Setting checkpoint_pending_ changes neither rows nor evidence.
LEMMA PendingGrows ==
    ASSUME NEW d, IsDb(d), NEW b
    PROVE  Grows(d, [d EXCEPT !.pending = b])
<1> DEFINE e == [d EXCEPT !.pending = b]
<1>1. e = [ids |-> d.ids, paths |-> d.paths, rows |-> d.rows, dirty |-> d.dirty,
           resident |-> d.resident, index |-> d.index, buffer |-> d.buffer,
           sidecarDirty |-> d.sidecarDirty, pending |-> b, appends |-> d.appends,
           bulk |-> d.bulk, log |-> d.log]
  BY DEF IsDb
<1> HIDE DEF e
<1>2. IsDb(e) /\ RowsGrow(d, e) /\ SameEvidence(d, e)
  BY <1>1 DEF IsDb, RowsGrow, SameEvidence
<1> QED
  BY <1>2 DEF Grows, e

\* Nor does a record that becomes resident.
LEMMA ResidentGrows ==
    ASSUME NEW d, IsDb(d), NEW r
    PROVE  Grows(d, [d EXCEPT !.resident = r])
<1> DEFINE e == [d EXCEPT !.resident = r]
<1>1. e = [ids |-> d.ids, paths |-> d.paths, rows |-> d.rows, dirty |-> d.dirty,
           resident |-> r, index |-> d.index, buffer |-> d.buffer,
           sidecarDirty |-> d.sidecarDirty, pending |-> d.pending, appends |-> d.appends,
           bulk |-> d.bulk, log |-> d.log]
  BY DEF IsDb
<1> HIDE DEF e
<1>2. IsDb(e) /\ RowsGrow(d, e) /\ SameEvidence(d, e)
  BY <1>1 DEF IsDb, RowsGrow, SameEvidence
<1> QED
  BY <1>2 DEF Grows, e

\* Replaying one transaction keeps the index valid and marks the pages it
\* changes (database.cpp:3491-3591).
LEMMA ReplayStepKeeps ==
    ASSUME NEW d0, IsSeq(store), EvidenceOk(d0), NEW t
    PROVE  EvidenceOk(ReplayStep(d0, t)) /\ RowsGrow(d0, ReplayStep(d0, t))
<1> DEFINE d == [d0 EXCEPT !.pending = TRUE]
<1>1. Grows(d0, d)
  <2>1. IsDb(d0)
    BY DEF EvidenceOk
  <2> QED
    BY <2>1, PendingGrows, Zenon
<1>2. EvidenceOk(d) /\ RowsGrow(d0, d)
  BY <1>1, GrowsKeepsEvidence
<1> DEFINE e == ReplayStep(d0, t)
           p == d.rows[t.node].path
           d1 == IF t.left \in DOMAIN d.rows THEN d ELSE WriteRow(d, t.left, Leaf(Append(p, 0)))
           d2 == IF t.right \in DOMAIN d1.rows THEN d1
                 ELSE WriteRow(d1, t.right, Leaf(Append(p, 1)))
           f == [d EXCEPT !.resident = Put(@, t.path, t.val)]
<1>3. e = d \/ e = LinkChildren(d2, p, t.left, t.right) \/ e = AppendRecord(f, t.path, t.val)
  BY Zenon DEF ReplayStep
<1> HIDE DEF e, d
<1>4. CASE e = d
  BY <1>2, <1>4 DEF e
<1>5. CASE e = LinkChildren(d2, p, t.left, t.right)
  <2> HIDE DEF p
  <2>1. Grows(d, d1)
    <3>1. Grows(d, d)
      BY <1>2 DEF EvidenceOk, Grows, RowsGrow, SameEvidence
    <3>2. Grows(d, WriteRow(d, t.left, Leaf(Append(p, 0))))
      BY <1>2, WriteRowGrows DEF EvidenceOk
    <3> QED
      BY <3>1, <3>2
  <2> HIDE DEF d1
  <2>2. Grows(d1, d2)
    <3>1. Grows(d1, d1)
      BY <2>1 DEF Grows, RowsGrow, SameEvidence
    <3>2. Grows(d1, WriteRow(d1, t.right, Leaf(Append(p, 1))))
      BY <2>1, WriteRowGrows DEF Grows
    <3> QED
      BY <3>1, <3>2
  <2> HIDE DEF d2
  <2>3. Grows(d2, e)
    BY <1>5, <2>2, LinkChildrenGrows DEF Grows
  <2>4. Grows(d0, e)
    BY <1>1, <2>1, <2>2, <2>3, GrowsTransitive
  <2> QED
    BY <2>4, GrowsKeepsEvidence DEF e
<1>6. CASE e = AppendRecord(f, t.path, t.val)
  <2>1. Grows(d, f)
    BY <1>2, ResidentGrows DEF EvidenceOk
  <2> HIDE DEF f
  <2>2. EvidenceOk(f) /\ RowsGrow(d, f)
    BY <1>2, <2>1, GrowsKeepsEvidence
  <2>3. EvidenceOk(e) /\ RowsGrow(f, e)
    BY <1>6, <2>2, AppendRecordValid DEF EvidenceOk
  <2> QED
    BY <1>2, <2>2, <2>3 DEF RowsGrow, e
<1> QED
  BY <1>3, <1>4, <1>5, <1>6

\* The equation that Replayed solves has a solution.
ReplaySteps(log, n, after) ==
    [k \in 0..n |-> IF k = 0 THEN Loaded ELSE ReplayStep(after[k - 1], log[k])]

\* There is a function that satisfies the equation, for a journal of any length.
LEMMA ReplayStepsExist ==
    ASSUME NEW log, NEW n \in Nat
    PROVE  \E after : after = ReplaySteps(log, n, after)
<1> DEFINE Op(x, k) == ReplayStep(x, log[k])
           Ok(n_) == \E after : after = [k \in 0..n_ |-> IF k = 0 THEN Loaded
                                                         ELSE Op(after[k - 1], k)]
           S == {m \in Nat : Ok(m)}
<1> HIDE DEF Op
<1>1. 0 \in S
  <2>1. [k \in 0..0 |-> Loaded]
          = [k \in 0..0 |-> IF k = 0 THEN Loaded ELSE Op([j \in 0..0 |-> Loaded][k - 1], k)]
    OBVIOUS
  <2> QED
    BY <2>1
<1>2. ASSUME NEW m \in Nat, m \in S PROVE m + 1 \in S
  <2>1. PICK f : f = [k \in 0..m |-> IF k = 0 THEN Loaded ELSE Op(f[k - 1], k)]
    BY <1>2
  <2> DEFINE g == [k \in 0..m + 1 |-> IF k <= m THEN f[k] ELSE Op(f[m], m + 1)]
  <2>2. \A k \in 0..m + 1 : g[k] = IF k = 0 THEN Loaded ELSE Op(g[k - 1], k)
    <3> TAKE k \in 0..m + 1
    <3>1. CASE k = 0
      BY <2>1, <3>1
    <3>2. CASE k \in 1..m
      <4>1. k \in 0..m /\ k - 1 \in 0..m /\ k # 0
        BY <3>2
      <4>2. g[k] = f[k] /\ g[k - 1] = f[k - 1]
        BY <4>1
      <4>3. f[k] = Op(f[k - 1], k)
        BY <2>1, <4>1
      <4> QED
        BY <4>1, <4>2, <4>3
    <3>3. CASE k = m + 1
      <4>1. g[k] = Op(f[m], k) /\ g[k - 1] = f[m] /\ k # 0
        BY <3>3
      <4> QED
        BY <4>1
    <3> QED
      BY <3>1, <3>2, <3>3
  <2>3. g = [k \in 0..m + 1 |-> IF k = 0 THEN Loaded ELSE Op(g[k - 1], k)]
    BY <2>2
  <2> HIDE DEF g
  <2>4. Ok(m + 1)
    BY <2>3
  <2> QED
    BY <2>4
<1>3. n \in S
  <2> HIDE DEF S
  <2> QED
    BY <1>1, <1>2, NatSetInduction
<1> QED
  BY <1>3 DEF Op, ReplaySteps

\* Replaying a whole journal, of any length, does too.
LEMMA ReplayedKeeps ==
    ASSUME IsSeq(store), IsSeq(journal), EvidenceOk(Loaded)
    PROVE  EvidenceOk(Replayed(journal)) /\ RowsGrow(Loaded, Replayed(journal))
<1> DEFINE n == Len(journal)
           after == CHOOSE g : g = ReplaySteps(journal, n, g)
<1>1. n \in Nat
  BY SeqShape
<1>2. after = ReplaySteps(journal, n, after)
  <2>1. \E g : g = ReplaySteps(journal, n, g)
    BY <1>1, ReplayStepsExist
  <2> QED
    BY <2>1
<1>3. Replayed(journal) = after[n]
  BY DEF Replayed, ReplaySteps
<1> HIDE DEF after
<1>4. \A k \in 0..n : after[k] = IF k = 0 THEN Loaded ELSE ReplayStep(after[k - 1], journal[k])
  BY <1>2 DEF ReplaySteps
<1> DEFINE Ok(d) == EvidenceOk(d) /\ RowsGrow(Loaded, d)
           S == {k \in Nat : k <= n => Ok(after[k])}
<1>5. 0 \in S
  <2>1. after[0] = Loaded
    BY <1>1, <1>4
  <2> QED
    BY <2>1 DEF RowsGrow
<1>6. ASSUME NEW k \in Nat, k \in S PROVE k + 1 \in S
  <2> SUFFICES ASSUME k + 1 <= n PROVE Ok(after[k + 1])
    OBVIOUS
  <2>1. Ok(after[k])
    BY <1>1, <1>6
  <2>2. after[k + 1] = ReplayStep(after[k], journal[k + 1])
    BY <1>1, <1>4
  <2>3. EvidenceOk(after[k + 1]) /\ RowsGrow(after[k], after[k + 1])
    BY <2>1, <2>2, ReplayStepKeeps
  <2> QED
    BY <2>1, <2>3 DEF RowsGrow
<1>7. n \in S
  <2> HIDE DEF S
  <2> QED
    BY <1>1, <1>5, <1>6, NatSetInduction
<1> QED
  BY <1>1, <1>3, <1>7

-----------------------------------------------------------------------------
(* The changes a call has still to make. *)

IsFlush(c) == c.file = "store" /\ c.act = "flush"
IsRename(c, f) == c.file = f /\ c.act = "rename"
FlushedBy(s, k) == \E j \in 1..(k - 1) : IsFlush(s[j])

\* records: the records in the store.
ChangeOk(s, k, d, records) ==
    /\ IsRename(s[k], "sidecar") =>
          \/ ValidIndex(s[k].content.index, records)
          \/ ValidIndex(s[k].content.index, records \o d.buffer) /\ FlushedBy(s, k)
    /\ IsRename(s[k], "page") => s[k].content = RowsOnPage(d, s[k].key)
    /\ s[k].file = "page" /\ s[k].act = "remove" =>
          \E j \in (k + 1)..Len(s) : IsRename(s[j], "page") /\ s[j].key = s[k].key
    /\ s[k].act = "truncate" => k = Len(s) /\ d.dirty = {} /\ (d.buffer = <<>> \/ FlushedBy(s, k))
ChangesOk(s, d, records) == IsSeq(s) /\ \A k \in 1..Len(s) : ChangeOk(s, k, d, records)
KeepsJournal(s) == \A c \in Range(s) : c.act # "truncate"
Renamed(s) == {c.key : c \in {b \in Range(s) : IsRename(b, "page")}}

\* Changes that are in order one sequence after the other are in order.
LEMMA ChangesConcat ==
    ASSUME NEW s, NEW t, NEW d, NEW records,
           ChangesOk(s, d, records), ChangesOk(t, d, records), KeepsJournal(s)
    PROVE  /\ ChangesOk(s \o t, d, records)
           /\ Renamed(s \o t) = Renamed(s) \cup Renamed(t)
           /\ KeepsJournal(t) => KeepsJournal(s \o t)
<1> DEFINE u == s \o t
<1>1. IsSeq(s) /\ IsSeq(t) /\ Len(s) \in Nat /\ Len(t) \in Nat
  BY SeqShape DEF ChangesOk
<1>2. /\ IsSeq(u) /\ Range(u) = Range(s) \cup Range(t) /\ Len(u) = Len(s) + Len(t)
      /\ \A i \in 1..Len(s) : u[i] = s[i]
      /\ \A i \in 1..Len(t) : u[Len(s) + i] = t[i]
  BY <1>1, SeqConcat
<1> HIDE DEF u
<1>3. ASSUME NEW k \in 1..Len(s) PROVE ChangeOk(u, k, d, records)
  <2>1. u[k] = s[k] /\ ChangeOk(s, k, d, records) /\ s[k].act # "truncate"
    BY <1>1, <1>2, SeqShape DEF ChangesOk, KeepsJournal
  <2>2. FlushedBy(s, k) => FlushedBy(u, k)
    BY <1>1, <1>2 DEF FlushedBy
  <2>3. ASSUME NEW j \in (k + 1)..Len(s) PROVE u[j] = s[j] /\ j \in (k + 1)..Len(u)
    BY <1>1, <1>2
  <2> QED
    BY <2>1, <2>2, <2>3 DEF ChangeOk
<1>4. ASSUME NEW i \in 1..Len(t) PROVE ChangeOk(u, Len(s) + i, d, records)
  <2>1. u[Len(s) + i] = t[i] /\ ChangeOk(t, i, d, records)
    BY <1>1, <1>2 DEF ChangesOk
  <2>2. ASSUME FlushedBy(t, i) PROVE FlushedBy(u, Len(s) + i)
    <3>1. PICK j \in 1..(i - 1) : IsFlush(t[j])
      BY <2>2 DEF FlushedBy
    <3>2. Len(s) + j \in 1..(Len(s) + i - 1) /\ u[Len(s) + j] = t[j]
      BY <1>1, <1>2
    <3> QED
      BY <3>1, <3>2 DEF FlushedBy
  <2>3. ASSUME NEW j \in (i + 1)..Len(t)
        PROVE  u[Len(s) + j] = t[j] /\ Len(s) + j \in (Len(s) + i + 1)..Len(u)
    BY <1>1, <1>2
  <2>4. i = Len(t) => Len(s) + i = Len(u)
    BY <1>2
  <2> QED
    BY <2>1, <2>2, <2>3, <2>4 DEF ChangeOk
<1>5. ASSUME NEW k \in 1..Len(u) PROVE ChangeOk(u, k, d, records)
  <2>1. CASE k <= Len(s)
    BY <1>1, <1>3, <2>1
  <2>2. CASE k > Len(s)
    <3>1. k - Len(s) \in 1..Len(t) /\ Len(s) + (k - Len(s)) = k
      BY <1>1, <1>2, <2>2
    <3> QED
      BY <1>4, <3>1
  <2> QED
    BY <1>1, <1>2, <2>1, <2>2
<1>6. Renamed(u) = Renamed(s) \cup Renamed(t)
  BY <1>2 DEF Renamed
<1>7. KeepsJournal(t) => KeepsJournal(u)
  BY <1>2 DEF KeepsJournal
<1> QED
  BY <1>2, <1>5, <1>6, <1>7 DEF ChangesOk, u

\* A sequence of changes of the other files.
IsPlain(s) ==
    IsSeq(s) /\ \A c \in Range(s) : c.file \notin {"page", "sidecar"} /\ c.act # "truncate"

\* Changes of the manifest, the store and the journal are always in order.
LEMMA PlainOk ==
    ASSUME NEW s, IsPlain(s), NEW d, NEW records
    PROVE  ChangesOk(s, d, records) /\ KeepsJournal(s) /\ Renamed(s) = {}
BY SeqShape DEF IsPlain, ChangesOk, ChangeOk, KeepsJournal, Renamed, IsRename

\* The pieces that are such changes.
LEMMA PlainPieces ==
    /\ IsPlain(<<>>) /\ IsPlain(ManifestWrites) /\ IsPlain(FlushStore)
    /\ \A d : IsPlain(ReturnNodes(d))
    /\ \A p, v : IsPlain(ReturnValue(p, v))
    /\ \A log : IsSeq(log) => IsPlain(JournalWrites(log))
<1>1. IsPlain(<<>>)
  BY SeqEmpty DEF IsPlain
<1>2. IsPlain(ManifestWrites)
  BY SeqPair DEF IsPlain, ManifestWrites, Replace, Change
<1>3. IsPlain(FlushStore)
  BY SeqSingle DEF IsPlain, FlushStore, Change
<1>4. ASSUME NEW d PROVE IsPlain(ReturnNodes(d))
  BY SeqSingle DEF IsPlain, ReturnNodes, Change
<1>5. ASSUME NEW p, NEW v PROVE IsPlain(ReturnValue(p, v))
  BY SeqSingle DEF IsPlain, ReturnValue, Change
<1>6. ASSUME NEW log, IsSeq(log) PROVE IsPlain(JournalWrites(log))
  <2> DEFINE s == JournalWrites(log)
  <2>1. Len(log) \in Nat /\ DOMAIN log = 1..Len(log)
    BY <1>6, SeqShape
  <2>2. s = [k \in 1..Len(log) |-> Change("journal", "append", 0, log[k])]
    BY <2>1 DEF JournalWrites
  <2>3. IsSeq(s) /\ Range(s) = {s[k] : k \in 1..Len(log)}
    <3> HIDE DEF s
    <3>1. s = [k \in 1..Len(log) |-> s[k]]
      BY <2>2
    <3> QED
      BY <2>1, <3>1, SeqFunction
  <2>4. \A k \in 1..Len(log) : s[k].file = "journal" /\ s[k].act = "append"
    BY <2>2 DEF Change
  <2> HIDE DEF s
  <2>5. IsPlain(s)
    BY <2>3, <2>4 DEF IsPlain
  <2> QED
    BY <2>5 DEF s
<1> QED
  BY <1>1, <1>2, <1>3, <1>4, <1>5, <1>6

\* Page writes are in order: every remove has its rename, every page gets the
\* rows the object has for it.
LEMMA PageWritesOk ==
    ASSUME NEW order, IsSeq(order), NEW d, NEW records
    PROVE  LET s == PageWrites(d, order)
           IN ChangesOk(s, d, records) /\ KeepsJournal(s) /\ Renamed(s) = Range(order)
<1> DEFINE s == PageWrites(d, order)
           n == Len(order)
<1>1. n \in Nat /\ 2 * n \in Nat
  BY SeqShape
<1>2. s = [k \in 1..2 * n |->
            Change("page", IF k % 2 = 1 THEN "remove" ELSE "rename", order[(k + 1) \div 2],
                   RowsOnPage(d, order[(k + 1) \div 2]))]
  BY DEF PageWrites
<1> HIDE DEF s
<1>3. \A k \in 1..2 * n : /\ s[k].file = "page" /\ s[k].key = order[(k + 1) \div 2]
                          /\ s[k].act = IF k % 2 = 1 THEN "remove" ELSE "rename"
                          /\ s[k].content = RowsOnPage(d, order[(k + 1) \div 2])
  BY <1>2 DEF Change
<1>4. IsSeq(s) /\ Len(s) = 2 * n /\ Range(s) = {s[k] : k \in 1..2 * n}
  <2>1. s = [k \in 1..2 * n |-> s[k]]
    BY <1>2
  <2> QED
    BY <1>1, <2>1, SeqFunction
<1>5. ASSUME NEW k \in 1..2 * n PROVE ChangeOk(s, k, d, records)
  <2>1. s[k].act = "remove" => /\ k + 1 \in (k + 1)..Len(s)
                               /\ IsRename(s[k + 1], "page") /\ s[k + 1].key = s[k].key
    <3> SUFFICES ASSUME s[k].act = "remove"
                 PROVE  /\ k + 1 \in (k + 1)..Len(s)
                        /\ IsRename(s[k + 1], "page") /\ s[k + 1].key = s[k].key
      OBVIOUS
    <3>1. k % 2 = 1
      BY <1>3
    <3>2. k + 1 \in 1..2 * n /\ (k + 1) % 2 # 1 /\ (k + 1 + 1) \div 2 = (k + 1) \div 2
      BY <1>1, <3>1
    <3> QED
      BY <1>3, <1>4, <3>2 DEF IsRename
  <2>2. s[k].act # "truncate" /\ s[k].file # "sidecar"
    BY <1>3
  <2>3. s[k].content = RowsOnPage(d, s[k].key)
    BY <1>3
  <2> QED
    BY <2>1, <2>2, <2>3 DEF ChangeOk, IsRename
<1>6. KeepsJournal(s)
  BY <1>3, <1>4 DEF KeepsJournal
<1>7. Renamed(s) = Range(order)
  <2>1. ASSUME NEW q \in Range(order) PROVE q \in Renamed(s)
    <3>1. PICK i \in 1..n : order[i] = q
      BY SeqShape
    <3>2. 2 * i \in 1..2 * n /\ (2 * i) % 2 # 1 /\ (2 * i + 1) \div 2 = i
      BY <1>1
    <3>3. s[2 * i].key = q /\ IsRename(s[2 * i], "page") /\ s[2 * i] \in Range(s)
      BY <1>3, <1>4, <3>1, <3>2 DEF IsRename
    <3> QED
      BY <3>3 DEF Renamed
  <2>2. ASSUME NEW q \in Renamed(s) PROVE q \in Range(order)
    <3>1. PICK k \in 1..2 * n : q = s[k].key
      BY <1>4, <2>2 DEF Renamed
    <3>2. (k + 1) \div 2 \in 1..n
      BY <1>1
    <3> QED
      BY <1>3, <3>1, <3>2, SeqShape
  <2> QED
    BY <2>1, <2>2
<1> QED
  BY <1>4, <1>5, <1>6, <1>7 DEF ChangesOk, s

\* Replacing the sidecar at open(): the index it gets is valid for the store alone.
LEMMA SidecarReplaceOk ==
    ASSUME NEW content, NEW d, NEW records, ValidIndex(content.index, records)
    PROVE  LET s == Replace("sidecar", 0, content)
           IN ChangesOk(s, d, records) /\ KeepsJournal(s) /\ Renamed(s) = {}
<1> DEFINE s == Replace("sidecar", 0, content)
           c1 == Change("sidecar", "remove", 0, content)
           c2 == Change("sidecar", "rename", 0, content)
<1>1. /\ c1.file = "sidecar" /\ c1.act = "remove" /\ c2.file = "sidecar" /\ c2.act = "rename"
      /\ c2.content = content
  BY DEF Change
<1>2. s = <<c1, c2>>
  BY DEF Replace
<1> HIDE DEF s, c1, c2
<1>3. IsSeq(s) /\ Range(s) = {c1, c2} /\ Len(s) = 2 /\ s[1] = c1 /\ s[2] = c2
  BY <1>2, SeqPair
<1>4. KeepsJournal(s) /\ Renamed(s) = {}
  BY <1>1, <1>3 DEF KeepsJournal, Renamed, IsRename
<1>5. \A k \in 1..2 : ChangeOk(s, k, d, records)
  BY <1>1, <1>3 DEF ChangeOk, IsRename, FlushedBy
<1> QED
  BY <1>3, <1>4, <1>5 DEF ChangesOk, s

\* save_evidence flushes the stream before it writes the sidecar, so that the
\* index the sidecar gets is valid for the store by then (database.cpp:2775-2791).
LEMMA SaveEvidenceOk ==
    ASSUME NEW d, NEW e, NEW records, ValidIndex(d.index, records \o e.buffer)
    PROVE  LET s == SaveEvidence(d)
           IN /\ ChangesOk(s, e, records) /\ KeepsJournal(s) /\ Renamed(s) = {}
              /\ \E k \in 1..Len(s) : IsFlush(s[k])
<1> DEFINE s == SaveEvidence(d)
           content == [size |-> Len(StoreOf(d)), index |-> d.index]
           c0 == Change("store", "flush", 0, 0)
           c1 == Change("sidecar", "remove", 0, content)
           c2 == Change("sidecar", "rename", 0, content)
<1>1. /\ c0.file = "store" /\ c0.act = "flush"
      /\ c1.file = "sidecar" /\ c1.act = "remove" /\ c2.file = "sidecar" /\ c2.act = "rename"
      /\ c2.content.index = d.index
  BY DEF Change
<1>2. CASE d.sidecarDirty
  <2>1. s = <<c0>> \o <<c1, c2>>
    BY <1>2 DEF SaveEvidence, FlushStore, SidecarWrites, Replace
  <2> HIDE DEF s, c0, c1, c2
  <2>2. /\ IsSeq(<<c0>>) /\ Range(<<c0>>) = {c0} /\ Len(<<c0>>) = 1 /\ <<c0>>[1] = c0
        /\ IsSeq(<<c1, c2>>) /\ Range(<<c1, c2>>) = {c1, c2} /\ Len(<<c1, c2>>) = 2
        /\ <<c1, c2>>[1] = c1 /\ <<c1, c2>>[2] = c2
    BY SeqSingle, SeqPair
  <2>3. /\ IsSeq(s) /\ Range(s) = {c0, c1, c2} /\ Len(s) = 3
        /\ s[1] = c0 /\ s[2] = c1 /\ s[3] = c2
    <3>1. /\ \A i \in 1..1 : s[i] = <<c0>>[i]
          /\ \A i \in 1..2 : s[1 + i] = <<c1, c2>>[i]
          /\ IsSeq(s) /\ Len(s) = 1 + 2 /\ Range(s) = {c0} \cup {c1, c2}
      BY <2>1, <2>2, SeqConcat
    <3> QED
      BY <2>2, <3>1
  <2>4. KeepsJournal(s) /\ Renamed(s) = {} /\ IsFlush(s[1])
    BY <1>1, <2>3 DEF KeepsJournal, Renamed, IsRename, IsFlush
  <2>5. \A k \in 1..3 : ChangeOk(s, k, e, records)
    BY <1>1, <2>3, <2>4 DEF ChangeOk, IsRename, FlushedBy
  <2> QED
    BY <2>3, <2>4, <2>5 DEF ChangesOk, s
<1>3. CASE ~d.sidecarDirty
  <2>1. s = <<c0>> \o <<>>
    BY <1>3 DEF SaveEvidence, FlushStore, SidecarWrites
  <2> HIDE DEF s, c0
  <2>2. /\ IsSeq(<<c0>>) /\ Range(<<c0>>) = {c0} /\ Len(<<c0>>) = 1 /\ <<c0>>[1] = c0
        /\ IsSeq(<<>>) /\ Range(<<>>) = {} /\ Len(<<>>) = 0
    BY SeqSingle, SeqEmpty
  <2>3. IsSeq(s) /\ Range(s) = {c0} /\ Len(s) = 1 /\ s[1] = c0
    BY <2>1, <2>2, SeqConcat
  <2>4. KeepsJournal(s) /\ Renamed(s) = {} /\ IsFlush(s[1])
    BY <1>1, <2>3 DEF KeepsJournal, Renamed, IsRename, IsFlush
  <2>5. \A k \in 1..1 : ChangeOk(s, k, e, records)
    BY <1>1, <2>3 DEF ChangeOk, IsRename
  <2> QED
    BY <2>3, <2>4, <2>5 DEF ChangesOk, s
<1> QED
  BY <1>2, <1>3

\* Truncating the journal may follow changes that flush the stream, once no page
\* is dirty.
LEMMA TruncateOk ==
    ASSUME NEW s, NEW d, NEW records, ChangesOk(s, d, records), KeepsJournal(s),
           d.dirty = {}, \E k \in 1..Len(s) : IsFlush(s[k])
    PROVE  ChangesOk(s \o TruncateJournal, d, records)
           /\ Renamed(s \o TruncateJournal) = Renamed(s)
<1> DEFINE c == Change("journal", "truncate", 0, 0)
           t == <<c>>
           u == s \o t
<1>1. c.file = "journal" /\ c.act = "truncate"
  BY DEF Change
<1> HIDE DEF c
<1>2. IsSeq(t) /\ Range(t) = {c} /\ Len(t) = 1 /\ t[1] = c
  BY SeqSingle
<1> HIDE DEF t
<1>3. IsSeq(s) /\ Len(s) \in Nat
  BY SeqShape DEF ChangesOk
<1>4. /\ IsSeq(u) /\ Range(u) = Range(s) \cup {c} /\ Len(u) = Len(s) + 1
      /\ \A i \in 1..Len(s) : u[i] = s[i]
      /\ u[Len(s) + 1] = c
  <2>1. \A i \in 1..1 : u[Len(s) + i] = t[i]
    BY <1>2, <1>3, SeqConcat
  <2>2. u[Len(s) + 1] = c
    <3>1. 1 \in 1..1
      OBVIOUS
    <3> QED
      BY <1>2, <2>1, <3>1
  <2>3. IsSeq(u) /\ Range(u) = Range(s) \cup Range(t) /\ Len(u) = Len(s) + Len(t)
    BY <1>2, <1>3, SeqConcat
  <2>4. \A i \in 1..Len(s) : u[i] = s[i]
    BY <1>2, <1>3, SeqConcat
  <2> QED
    BY <1>2, <2>2, <2>3, <2>4
<1> HIDE DEF u
<1>5. Renamed(u) = Renamed(s)
  BY <1>1, <1>4 DEF Renamed, IsRename
<1>6. ASSUME NEW k \in 1..Len(s) PROVE ChangeOk(u, k, d, records)
  <2>1. u[k] = s[k] /\ ChangeOk(s, k, d, records) /\ s[k].act # "truncate"
    BY <1>3, <1>4, SeqShape DEF ChangesOk, KeepsJournal
  <2>2. FlushedBy(s, k) => FlushedBy(u, k)
    BY <1>3, <1>4 DEF FlushedBy
  <2>3. ASSUME NEW j \in (k + 1)..Len(s) PROVE u[j] = s[j] /\ j \in (k + 1)..Len(u)
    BY <1>3, <1>4
  <2> QED
    BY <2>1, <2>2, <2>3 DEF ChangeOk
<1>7. ChangeOk(u, Len(s) + 1, d, records)
  <2>1. FlushedBy(u, Len(s) + 1)
    <3>1. PICK j \in 1..Len(s) : IsFlush(s[j])
      OBVIOUS
    <3>2. j \in 1..(Len(s) + 1 - 1) /\ u[j] = s[j]
      BY <1>3, <1>4
    <3> QED
      BY <3>1, <3>2 DEF FlushedBy
  <2> QED
    BY <1>1, <1>4, <2>1 DEF ChangeOk, IsRename
<1>8. \A k \in 1..Len(u) : ChangeOk(u, k, d, records)
  BY <1>3, <1>4, <1>6, <1>7
<1> QED
  BY <1>4, <1>5, <1>8 DEF ChangesOk, u, t, c, TruncateJournal

-----------------------------------------------------------------------------
(* The inductive invariant. *)

\* A row is in its page file.
OnDisk(i, row) ==
    PageOf(i) \in DOMAIN pages /\ i \in DOMAIN pages[PageOf(i)] /\ pages[PageOf(i)][i] = row
\* The rows of d that no dirty page holds, and that no change is about to
\* write, are in their page files.
RowsSaved(d, keys) ==
    \A i \in DOMAIN d.rows : PageOf(i) \in d.dirty \cup keys \/ OnDisk(i, d.rows[i])
PagesInPlace == \A q \in DOMAIN pages : \A i \in DOMAIN pages[q] : PageOf(i) = q

DurabilityInv ==
    /\ IsSeq(store) /\ IsSeq(journal) /\ IsDb(db)
    /\ ChangesOk(todo, db, store)
    /\ PagesInPlace /\ RowsSaved(db, Renamed(todo))
    /\ ValidIndex(db.index, store \o db.buffer)
    /\ ValidIndex(sidecar.index, store)

\* A call works on the object, from the state b to the state d, and leaves the
\* object in db' with changes to make.
LEMMA CallKeeps ==
    ASSUME DurabilityInv, UNCHANGED files,
           NEW b, NEW d, RowsSaved(b, {}), RowsGrow(b, d),
           IsDb(db'), db'.rows = d.rows, db'.buffer = d.buffer, db'.index = d.index,
           ValidIndex(d.index, store \o d.buffer),
           ChangesOk(todo', db', store),
           d.dirty \subseteq db'.dirty \cup Renamed(todo')
    PROVE  DurabilityInv'
<1>1. RowsSaved(db, Renamed(todo))'
  <2> SUFFICES ASSUME NEW i \in DOMAIN d.rows, PageOf(i) \notin db'.dirty \cup Renamed(todo')
               PROVE  OnDisk(i, d.rows[i])'
    BY DEF RowsSaved
  <2>1. PageOf(i) \notin d.dirty
    OBVIOUS
  <2>2. i \in DOMAIN b.rows /\ d.rows[i] = b.rows[i] /\ PageOf(i) \notin b.dirty
    BY <2>1 DEF RowsGrow
  <2>3. OnDisk(i, d.rows[i])
    BY <2>2 DEF RowsSaved
  <2> QED
    BY <2>3 DEF OnDisk, files
<1> QED
  BY <1>1 DEF DurabilityInv, PagesInPlace, files

\* An order of the dirty pages is a sequence of all of them.
LEMMA OrdersSeq ==
    ASSUME NEW S, IsFiniteSet(S), NEW order \in Orders(S)
    PROVE  IsSeq(order) /\ Range(order) = S
<1>1. Cardinality(S) \in Nat
  BY FS_CardinalityType
<1>2. order = [k \in 1..Cardinality(S) |-> order[k]] /\ Range(order) = S
  BY DEF Orders
<1> QED
  BY <1>1, <1>2, SeqFunction

\* A path is a sequence.
LEMMA PathsSeq == \A p \in Paths : IsSeq(p)
<1> SUFFICES ASSUME NEW p \in Paths PROVE IsSeq(p)
  OBVIOUS
<1>1. PICK n \in 0..(MaxTreeDepth - 1) : p \in [1..n -> {0, 1}]
  BY DEF Paths
<1>2. n \in Nat /\ p = [k \in 1..n |-> p[k]]
  BY <1>1
<1> QED
  BY <1>2, SeqFunction

\* The fields of an object whose pages, sidecar or journal have been saved.
LEMMA SavedFields ==
    ASSUME NEW d, IsDb(d)
    PROVE  /\ LET e == PagesSaved(d) IN
              /\ IsDb(e) /\ e.dirty = {} /\ e.rows = d.rows /\ e.buffer = d.buffer
              /\ e.index = d.index /\ e.log = d.log
           /\ LET e == EvidenceSaved(d) IN
              /\ IsDb(e) /\ e.dirty = d.dirty /\ e.rows = d.rows /\ e.buffer = d.buffer
              /\ e.index = d.index /\ e.log = d.log
<1>1. ASSUME NEW e, e = PagesSaved(d)
      PROVE  /\ IsDb(e) /\ e.dirty = {} /\ e.rows = d.rows /\ e.buffer = d.buffer
             /\ e.index = d.index /\ e.log = d.log
  <2>1. e = [ids |-> d.ids, paths |-> d.paths, rows |-> d.rows, dirty |-> {},
             resident |-> d.resident, index |-> d.index, buffer |-> d.buffer,
             sidecarDirty |-> d.sidecarDirty, pending |-> d.pending, appends |-> d.appends,
             bulk |-> d.bulk, log |-> d.log]
    BY <1>1 DEF PagesSaved, IsDb
  <2> QED
    BY <2>1, FS_EmptySet DEF IsDb
<1>2. ASSUME NEW e, e = EvidenceSaved(d)
      PROVE  /\ IsDb(e) /\ e.dirty = d.dirty /\ e.rows = d.rows /\ e.buffer = d.buffer
             /\ e.index = d.index /\ e.log = d.log
  <2>1. e = [ids |-> d.ids, paths |-> d.paths, rows |-> d.rows, dirty |-> d.dirty,
             resident |-> d.resident, index |-> d.index, buffer |-> d.buffer,
             sidecarDirty |-> FALSE, pending |-> d.pending, appends |-> d.appends,
             bulk |-> d.bulk, log |-> d.log]
    BY <1>2 DEF EvidenceSaved, IsDb
  <2> QED
    BY <2>1 DEF IsDb
<1> QED
  BY <1>1, <1>2

\* A field none of the properties reads.
LEMMA OtherFields ==
    ASSUME NEW d, IsDb(d), NEW v, NEW e,
           \/ e = [d EXCEPT !.pending = v] \/ e = [d EXCEPT !.appends = v]
           \/ e = [d EXCEPT !.bulk = v] \/ e = [d EXCEPT !.resident = v]
    PROVE  /\ IsDb(e) /\ e.dirty = d.dirty /\ e.rows = d.rows /\ e.buffer = d.buffer
           /\ e.index = d.index /\ e.log = d.log
<1>1. e = [ids |-> d.ids, paths |-> d.paths, rows |-> d.rows, dirty |-> d.dirty,
           resident |-> e.resident, index |-> d.index, buffer |-> d.buffer,
           sidecarDirty |-> d.sidecarDirty, pending |-> e.pending, appends |-> e.appends,
           bulk |-> e.bulk, log |-> d.log]
  BY DEF IsDb
<1> QED
  BY <1>1 DEF IsDb

\* Handing over the journal's transactions changes nothing else.
LEMMA LogCleared ==
    ASSUME NEW d, IsDb(d)
    PROVE  LET e == [d EXCEPT !.log = <<>>] IN
           /\ IsDb(e) /\ e.dirty = d.dirty /\ e.rows = d.rows /\ e.buffer = d.buffer
           /\ e.index = d.index
<1>1. ASSUME NEW e, e = [d EXCEPT !.log = <<>>]
      PROVE  /\ IsDb(e) /\ e.dirty = d.dirty /\ e.rows = d.rows /\ e.buffer = d.buffer
             /\ e.index = d.index
  <2>1. e = [ids |-> d.ids, paths |-> d.paths, rows |-> d.rows, dirty |-> d.dirty,
             resident |-> d.resident, index |-> d.index, buffer |-> d.buffer,
             sidecarDirty |-> d.sidecarDirty, pending |-> d.pending, appends |-> d.appends,
             bulk |-> d.bulk, log |-> <<>>]
    BY <1>1 DEF IsDb
  <2> QED
    BY <2>1, SeqEmpty DEF IsDb
<1> QED
  BY <1>1

-----------------------------------------------------------------------------
(* Every call preserves the invariant. *)

\* Before a call, with no change left, every clean row is in its page file.
LEMMA CallBase ==
    ASSUME DurabilityInv, todo = <<>>
    PROVE  RowsSaved(db, {}) /\ RowsGrow(db, db)
<1>1. Renamed(<<>>) = {}
  BY SeqEmpty DEF Renamed
<1> QED
  BY <1>1 DEF DurabilityInv, RowsSaved, RowsGrow

\* The order depends on the rows and the buffer alone, until the journal goes.
LEMMA ChangesSame ==
    ASSUME NEW s, NEW d, NEW e, NEW records, ChangesOk(s, d, records), KeepsJournal(s),
           e.rows = d.rows, e.buffer = d.buffer
    PROVE  ChangesOk(s, e, records)
<1>1. \A q : RowsOnPage(e, q) = RowsOnPage(d, q)
  BY DEF RowsOnPage
<1>2. \A k \in 1..Len(s) : s[k].act # "truncate"
  BY SeqShape DEF ChangesOk, KeepsJournal
<1>3. ASSUME NEW k \in 1..Len(s) PROVE ChangeOk(s, k, e, records)
  <2>1. ChangeOk(s, k, d, records) /\ s[k].act # "truncate"
    BY <1>2 DEF ChangesOk
  <2>2. RowsOnPage(e, s[k].key) = RowsOnPage(d, s[k].key)
    BY <1>1
  <2> QED
    BY <2>1, <2>2 DEF ChangeOk
<1> QED
  BY <1>3 DEF ChangesOk

\* Plain changes followed by plain changes are plain.
LEMMA PlainConcat ==
    ASSUME NEW s, NEW t, IsPlain(s), IsPlain(t)
    PROVE  IsPlain(s \o t)
BY SeqConcat DEF IsPlain

\* split_leaf keeps the invariant.
LEMMA SplitLeafKeeps ==
    ASSUME DurabilityInv, NEW p \in Paths, SplitLeaf(p)
    PROVE  DurabilityInv'
<1> DEFINE d == SplitStep(db, p)
<1>1. /\ todo = <<>> /\ UNCHANGED files
      /\ db' = [d EXCEPT !.log = <<>>]
      /\ todo' = JournalWrites(d.log) \o ReturnNodes(d)
  BY DEF SplitLeaf, Ready
<1>2. Grows(db, d)
  BY SplitStepGrows DEF DurabilityInv
<1> HIDE DEF d
<1>3. IsPlain(todo')
  BY <1>1, <1>2, PlainPieces, PlainConcat DEF Grows, IsDb
<1>4. ChangesOk(todo', db', store) /\ Renamed(todo') = {}
  BY <1>3, PlainOk
<1>5. /\ IsDb(db') /\ db'.dirty = d.dirty /\ db'.rows = d.rows /\ db'.buffer = d.buffer
      /\ db'.index = d.index
  BY <1>1, <1>2, LogCleared DEF Grows
<1>6. ValidIndex(d.index, store \o d.buffer)
  BY <1>2 DEF Grows, SameEvidence, DurabilityInv
<1>7. RowsSaved(db, {}) /\ RowsGrow(db, d)
  BY <1>1, <1>2, CallBase DEF Grows
<1> QED
  BY <1>1, <1>4, <1>5, <1>6, <1>7, CallKeeps

\* split_to_box and split_toward_box keep it, flushing or not.
LEMMA SplitToBoxKeeps ==
    ASSUME DurabilityInv, NEW p \in Paths, NEW exact \in BOOLEAN, SplitToBox(p, exact)
    PROVE  DurabilityInv'
<1> DEFINE d == SplitAlong(db, p)
           flush == exact /\ \A k \in 0..(Len(p) - 1) : HasRow(d, SubSeq(p, 1, k))
<1>1. PICK order \in Orders(IF flush THEN d.dirty ELSE {}) :
            /\ db' = [IF flush THEN PagesSaved(d) ELSE d EXCEPT !.log = <<>>]
            /\ todo' = JournalWrites(d.log)
                     \o (IF flush THEN PageWrites(d, order) \o ManifestWrites ELSE <<>>)
                     \o ReturnNodes(d)
  BY Zenon DEF SplitToBox
<1>2. todo = <<>> /\ UNCHANGED files
  BY DEF SplitToBox, Ready
<1>3. Grows(db, d)
  BY PathsSeq, SplitAlongGrows DEF DurabilityInv
<1> HIDE DEF d
<1>4. IsDb(d) /\ ValidIndex(d.index, store \o d.buffer) /\ RowsGrow(db, d) /\ RowsSaved(db, {})
  BY <1>2, <1>3, CallBase DEF Grows, SameEvidence, DurabilityInv
<1>5. IsPlain(JournalWrites(d.log)) /\ IsPlain(ReturnNodes(d)) /\ IsPlain(ManifestWrites)
  BY <1>4, PlainPieces DEF IsDb
<1>6. CASE flush
  <2>1. IsSeq(order) /\ Range(order) = d.dirty
    BY <1>1, <1>4, <1>6, OrdersSeq DEF IsDb
  <2> DEFINE e == PagesSaved(d)
             s1 == JournalWrites(d.log)
             s2 == PageWrites(d, order)
             s3 == s2 \o ManifestWrites
             s4 == s1 \o s3
  <2>2. db' = [e EXCEPT !.log = <<>>] /\ todo' = s4 \o ReturnNodes(d)
    BY <1>1, <1>6
  <2>3. /\ IsDb(e) /\ e.rows = d.rows /\ e.buffer = d.buffer /\ e.index = d.index
    BY <1>4, SavedFields
  <2> HIDE DEF e
  <2>4. IsDb(db') /\ db'.rows = d.rows /\ db'.buffer = d.buffer /\ db'.index = d.index
    BY <2>2, <2>3, LogCleared
  <2>5. ChangesOk(s2, db', store) /\ KeepsJournal(s2) /\ Renamed(s2) = d.dirty
    BY <2>1, <2>4, PageWritesOk, ChangesSame
  <2>6. ChangesOk(s1, db', store) /\ KeepsJournal(s1) /\ Renamed(s1) = {}
    BY <1>5, PlainOk
  <2>7. /\ ChangesOk(ManifestWrites, db', store) /\ KeepsJournal(ManifestWrites)
        /\ ChangesOk(ReturnNodes(d), db', store)
    BY <1>5, PlainOk
  <2> HIDE DEF s1, s2
  <2>8. ChangesOk(s3, db', store) /\ KeepsJournal(s3) /\ d.dirty \subseteq Renamed(s3)
    <3>1. Renamed(s3) = Renamed(s2) \cup Renamed(ManifestWrites)
      BY <2>5, <2>7, ChangesConcat
    <3>2. ChangesOk(s3, db', store) /\ KeepsJournal(s3)
      BY <2>5, <2>7, ChangesConcat
    <3> QED
      BY <2>5, <3>1, <3>2
  <2> HIDE DEF s3
  <2>9. ChangesOk(s4, db', store) /\ KeepsJournal(s4) /\ d.dirty \subseteq Renamed(s4)
    BY <2>6, <2>8, ChangesConcat
  <2> HIDE DEF s4
  <2>10. ChangesOk(todo', db', store) /\ d.dirty \subseteq Renamed(todo')
    BY <2>2, <2>7, <2>9, ChangesConcat
  <2> QED
    BY <1>2, <1>4, <2>4, <2>10, CallKeeps
<1>7. CASE ~flush
  <2>1. db' = [d EXCEPT !.log = <<>>] /\ todo' = JournalWrites(d.log) \o <<>> \o ReturnNodes(d)
    BY <1>1, <1>7
  <2>2. IsPlain(<<>>)
    BY PlainPieces
  <2>3. IsPlain(JournalWrites(d.log) \o <<>>)
    BY <1>5, <2>2, PlainConcat
  <2>4. IsPlain(todo')
    BY <1>5, <2>1, <2>3, PlainConcat
  <2>5. ChangesOk(todo', db', store)
    BY <2>4, PlainOk
  <2>6. /\ IsDb(db') /\ db'.dirty = d.dirty /\ db'.rows = d.rows /\ db'.buffer = d.buffer
        /\ db'.index = d.index
    BY <1>4, <2>1, LogCleared
  <2> QED
    BY <1>2, <1>4, <2>5, <2>6, CallKeeps
<1> QED
  BY <1>6, <1>7

\* maybe_flush_incremental_storage writes its changes in order and leaves no row
\* unsaved.
LEMMA MaybeFlushOk ==
    ASSUME NEW d, IsDb(d), IsSeq(store), ValidIndex(d.index, store \o d.buffer),
           NEW order \in Orders(IF FlushDue(d) THEN d.dirty ELSE {})
    PROVE  LET s == MaybeFlush(d, order)
               f == MaybeFlushed(d)
           IN /\ IsDb(f) /\ f.rows = d.rows /\ f.buffer = d.buffer /\ f.index = d.index
              /\ ChangesOk(s, d, store) /\ KeepsJournal(s)
              /\ d.dirty \subseteq f.dirty \cup Renamed(s)
<1>1. CASE FlushDue(d)
  <2> DEFINE s1 == SaveEvidence(d)
             s2 == PageWrites(d, order)
             s3 == s1 \o s2
             e1 == EvidenceSaved(d)
             e2 == PagesSaved(e1)
             f == [e2 EXCEPT !.appends = 0]
  <2>1. MaybeFlush(d, order) = s3 \o ManifestWrites /\ MaybeFlushed(d) = f
    BY <1>1 DEF MaybeFlush, MaybeFlushed
  <2>2. IsSeq(order) /\ Range(order) = d.dirty
    BY <1>1, OrdersSeq DEF IsDb
  <2>3. IsDb(e1) /\ e1.rows = d.rows /\ e1.buffer = d.buffer /\ e1.index = d.index
    BY SavedFields
  <2> HIDE DEF e1
  <2>4. IsDb(e2) /\ e2.rows = d.rows /\ e2.buffer = d.buffer /\ e2.index = d.index
    BY <2>3, SavedFields
  <2> HIDE DEF e2
  <2>5. IsDb(f) /\ f.rows = d.rows /\ f.buffer = d.buffer /\ f.index = d.index
    <3>1. f = [e2 EXCEPT !.appends = 0]
      OBVIOUS
    <3> HIDE DEF f
    <3> QED
      BY <2>4, <3>1, OtherFields
  <2> HIDE DEF f
  <2>6. ChangesOk(s1, d, store) /\ KeepsJournal(s1)
    BY SaveEvidenceOk
  <2>7. ChangesOk(s2, d, store) /\ KeepsJournal(s2) /\ Renamed(s2) = d.dirty
    BY <2>2, PageWritesOk
  <2>8. ChangesOk(ManifestWrites, d, store) /\ KeepsJournal(ManifestWrites)
    BY PlainPieces, PlainOk
  <2> HIDE DEF s1, s2
  <2>9. ChangesOk(s3, d, store) /\ KeepsJournal(s3) /\ d.dirty \subseteq Renamed(s3)
    <3>1. Renamed(s3) = Renamed(s1) \cup Renamed(s2)
      BY <2>6, <2>7, ChangesConcat
    <3>2. ChangesOk(s3, d, store) /\ KeepsJournal(s3)
      BY <2>6, <2>7, ChangesConcat
    <3> QED
      BY <2>7, <3>1, <3>2
  <2> HIDE DEF s3
  <2>10. /\ ChangesOk(s3 \o ManifestWrites, d, store) /\ KeepsJournal(s3 \o ManifestWrites)
         /\ d.dirty \subseteq Renamed(s3 \o ManifestWrites)
    BY <2>8, <2>9, ChangesConcat
  <2> QED
    BY <2>1, <2>5, <2>10
<1>2. CASE ~FlushDue(d)
  <2>1. MaybeFlush(d, order) = <<>> /\ MaybeFlushed(d) = d
    BY <1>2 DEF MaybeFlush, MaybeFlushed
  <2> QED
    BY <2>1, PlainPieces, PlainOk
<1> QED
  BY <1>1, <1>2

\* trim_evidence_cache writes its changes in order and drops resident records only.
LEMMA TrimOk ==
    ASSUME NEW d, IsDb(d), IsSeq(store), ValidIndex(d.index, store \o d.buffer)
    PROVE  LET s == Trim(d)
               f == Trimmed(d)
           IN /\ IsDb(f) /\ f.rows = d.rows /\ f.buffer = d.buffer /\ f.index = d.index
              /\ f.dirty = d.dirty
              /\ ChangesOk(s, d, store) /\ KeepsJournal(s) /\ Renamed(s) = {}
<1>1. CASE TrimDue(d)
  <2> DEFINE e == EvidenceSaved(d)
             r == Without(e.resident, DOMAIN d.index)
             f == [e EXCEPT !.resident = r]
  <2>1. Trim(d) = SaveEvidence(d) /\ Trimmed(d) = f
    BY <1>1 DEF Trim, Trimmed
  <2>2. /\ IsDb(e) /\ e.rows = d.rows /\ e.buffer = d.buffer /\ e.index = d.index
        /\ e.dirty = d.dirty
    BY SavedFields
  <2> HIDE DEF e, r
  <2>3. /\ IsDb(f) /\ f.rows = d.rows /\ f.buffer = d.buffer /\ f.index = d.index
        /\ f.dirty = d.dirty
    <3>1. f = [e EXCEPT !.resident = r]
      OBVIOUS
    <3> HIDE DEF f
    <3> QED
      BY <2>2, <3>1, OtherFields
  <2> HIDE DEF f
  <2>4. /\ ChangesOk(SaveEvidence(d), d, store) /\ KeepsJournal(SaveEvidence(d))
        /\ Renamed(SaveEvidence(d)) = {}
    BY SaveEvidenceOk
  <2> QED
    BY <2>1, <2>3, <2>4
<1>2. CASE ~TrimDue(d)
  <2>1. Trim(d) = <<>> /\ Trimmed(d) = d
    BY <1>2 DEF Trim, Trimmed
  <2> QED
    BY <2>1, PlainPieces, PlainOk
<1> QED
  BY <1>1, <1>2

\* The copy of the object put_evidence and delete_node_payloads start from.
LEMMA WorkingCopy ==
    ASSUME NEW d, IsDb(d), IsSeq(store), ValidIndex(d.index, store \o d.buffer),
           NEW r, NEW b, NEW e, e = [d EXCEPT !.resident = r, !.pending = b]
    PROVE  IsDb(e) /\ ValidIndex(e.index, store \o e.buffer) /\ RowsGrow(d, e)
<1>1. e = [ids |-> d.ids, paths |-> d.paths, rows |-> d.rows, dirty |-> d.dirty,
           resident |-> r, index |-> d.index, buffer |-> d.buffer,
           sidecarDirty |-> d.sidecarDirty, pending |-> e.pending, appends |-> d.appends,
           bulk |-> d.bulk, log |-> d.log]
  BY DEF IsDb
<1> QED
  BY <1>1 DEF IsDb, RowsGrow

\* ... and what they leave in it.
LEMMA AppendFromCopy ==
    ASSUME DurabilityInv, NEW r, NEW b, NEW p, NEW v
    PROVE  LET d == AppendRecord([db EXCEPT !.resident = r, !.pending = b], p, v)
           IN IsDb(d) /\ ValidIndex(d.index, store \o d.buffer) /\ RowsGrow(db, d)
<1> DEFINE c == [db EXCEPT !.resident = r, !.pending = b]
<1>1. IsDb(c) /\ ValidIndex(c.index, store \o c.buffer) /\ RowsGrow(db, c)
  <2>1. c = [db EXCEPT !.resident = r, !.pending = b]
    BY Zenon
  <2> HIDE DEF c
  <2> QED
    BY <2>1, WorkingCopy DEF DurabilityInv
<1> HIDE DEF c
<1>2. LET d == AppendRecord(c, p, v)
      IN IsDb(d) /\ ValidIndex(d.index, store \o d.buffer) /\ RowsGrow(c, d)
  BY <1>1, AppendRecordValid DEF DurabilityInv
<1>3. LET d == AppendRecord(c, p, v)
      IN IsDb(d) /\ ValidIndex(d.index, store \o d.buffer) /\ RowsGrow(db, d)
  BY <1>1, <1>2 DEF RowsGrow
<1> QED
  BY <1>3, Zenon DEF c

\* put_evidence keeps the invariant.
LEMMA PutEvidenceKeeps ==
    ASSUME DurabilityInv, NEW p \in Paths, NEW v \in Vals, PutEvidence(p, v)
    PROVE  DurabilityInv'
<1> DEFINE r == Put(db.resident, p, v)
           d == AppendRecord([db EXCEPT !.resident = r, !.pending = TRUE], p, v)
           log == IF db.bulk THEN <<>> ELSE <<[type |-> "evidence", path |-> p, val |-> v]>>
           d1 == MaybeFlushed(d)
<1>1. PICK order \in Orders(IF FlushDue(d) THEN d.dirty ELSE {}) :
            /\ db' = Trimmed(d1)
            /\ todo' = JournalWrites(log) \o MaybeFlush(d, order) \o Trim(d1) \o ReturnValue(p, {v})
  BY Zenon DEF PutEvidence
<1>2. todo = <<>> /\ UNCHANGED files
  BY DEF PutEvidence, Ready
<1>3. IsDb(d) /\ ValidIndex(d.index, store \o d.buffer) /\ RowsGrow(db, d)
  <2> HIDE DEF r
  <2> QED
    BY AppendFromCopy, Zenon
<1> HIDE DEF d
<1>4. IsSeq(store) /\ RowsSaved(db, {})
  BY <1>2, CallBase DEF DurabilityInv
<1>5. IsPlain(JournalWrites(log)) /\ IsPlain(ReturnValue(p, {v}))
  <2>1. IsSeq(log)
    BY SeqSingle, SeqEmpty
  <2> QED
    BY <2>1, PlainPieces
<1> DEFINE s1 == JournalWrites(log)
           s2 == MaybeFlush(d, order)
           s3 == Trim(d1)
           s4 == ReturnValue(p, {v})
           s12 == s1 \o s2
           s123 == s12 \o s3
<1>6. todo' = s123 \o s4
  BY <1>1
<1>7. /\ IsDb(d1) /\ d1.rows = d.rows /\ d1.buffer = d.buffer /\ d1.index = d.index
      /\ ChangesOk(s2, d, store) /\ KeepsJournal(s2)
      /\ d.dirty \subseteq d1.dirty \cup Renamed(s2)
  BY <1>3, <1>4, MaybeFlushOk
<1> HIDE DEF d1, log
<1>8. /\ IsDb(db') /\ db'.rows = d1.rows /\ db'.buffer = d1.buffer /\ db'.index = d1.index
      /\ db'.dirty = d1.dirty
      /\ ChangesOk(s3, d1, store) /\ KeepsJournal(s3) /\ Renamed(s3) = {}
  BY <1>1, <1>3, <1>4, <1>7, TrimOk
<1>9. ChangesOk(s1, db', store) /\ KeepsJournal(s1) /\ ChangesOk(s4, db', store)
  BY <1>5, PlainOk
<1> HIDE DEF s1, s2, s3, s4
<1>10. ChangesOk(s2, db', store) /\ ChangesOk(s3, db', store)
  BY <1>7, <1>8, ChangesSame
<1>11. /\ ChangesOk(s12, db', store) /\ KeepsJournal(s12)
       /\ Renamed(s12) = Renamed(s1) \cup Renamed(s2)
  BY <1>7, <1>9, <1>10, ChangesConcat
<1> HIDE DEF s12
<1>12. /\ ChangesOk(s123, db', store) /\ KeepsJournal(s123)
       /\ Renamed(s123) = Renamed(s12) \cup Renamed(s3)
  BY <1>8, <1>10, <1>11, ChangesConcat
<1> HIDE DEF s123
<1>13. ChangesOk(todo', db', store) /\ Renamed(todo') = Renamed(s123) \cup Renamed(s4)
  BY <1>6, <1>9, <1>12, ChangesConcat
<1>14. d.dirty \subseteq db'.dirty \cup Renamed(todo')
  BY <1>7, <1>8, <1>11, <1>12, <1>13
<1>15. db'.rows = d.rows /\ db'.buffer = d.buffer /\ db'.index = d.index
  BY <1>7, <1>8
<1> QED
  BY <1>2, <1>3, <1>4, <1>8, <1>13, <1>14, <1>15, CallKeeps

\* delete_node_payloads keeps it.
LEMMA DeletePayloadKeeps ==
    ASSUME DurabilityInv, NEW p \in Paths, DeletePayload(p)
    PROVE  DurabilityInv'
<1> DEFINE r == Without(db.resident, {p})
           d == AppendRecord([db EXCEPT !.resident = r, !.pending = TRUE], p, None)
<1>1. PICK order \in Orders(IF FlushDue(d) THEN d.dirty ELSE {}) :
            /\ db' = MaybeFlushed(d)
            /\ todo' = MaybeFlush(d, order) \o ReturnValue(p, {None})
  BY Zenon DEF DeletePayload
<1>2. todo = <<>> /\ UNCHANGED files
  BY DEF DeletePayload, Ready
<1>3. IsDb(d) /\ ValidIndex(d.index, store \o d.buffer) /\ RowsGrow(db, d)
  <2> HIDE DEF r
  <2> QED
    BY AppendFromCopy, Zenon
<1> HIDE DEF d
<1>4. IsSeq(store) /\ RowsSaved(db, {})
  BY <1>2, CallBase DEF DurabilityInv
<1> DEFINE s1 == MaybeFlush(d, order)
           s2 == ReturnValue(p, {None})
<1>5. /\ IsDb(db') /\ db'.rows = d.rows /\ db'.buffer = d.buffer /\ db'.index = d.index
      /\ ChangesOk(s1, d, store) /\ KeepsJournal(s1)
      /\ d.dirty \subseteq db'.dirty \cup Renamed(s1)
  BY <1>1, <1>3, <1>4, MaybeFlushOk
<1>6. ChangesOk(s2, db', store)
  BY PlainPieces, PlainOk
<1>7. todo' = s1 \o s2
  BY <1>1
<1> HIDE DEF s1, s2
<1>8. ChangesOk(s1, db', store)
  BY <1>5, ChangesSame
<1>9. ChangesOk(todo', db', store) /\ Renamed(todo') = Renamed(s1) \cup Renamed(s2)
  BY <1>5, <1>6, <1>7, <1>8, ChangesConcat
<1>10. d.dirty \subseteq db'.dirty \cup Renamed(todo')
  BY <1>5, <1>9
<1> QED
  BY <1>2, <1>3, <1>4, <1>5, <1>9, <1>10, CallKeeps

\* evidence(key) keeps it, trimming or not.
LEMMA ReadEvidenceKeeps ==
    ASSUME DurabilityInv, NEW p \in Paths, ReadEvidence(p)
    PROVE  DurabilityInv'
<1> DEFINE r == Put(db.resident, p, Lookup(db, p))
           d == [db EXCEPT !.resident = r]
           drop == Lookup(db, p) # None
           trim == IF drop THEN Trim(d) ELSE <<>>
<1>1. /\ todo = <<>> /\ UNCHANGED files
      /\ db' = IF drop THEN Trimmed(d) ELSE d
      /\ todo' = FlushStore \o trim
  BY DEF ReadEvidence
<1>2. /\ IsDb(d) /\ d.dirty = db.dirty /\ d.rows = db.rows /\ d.buffer = db.buffer
      /\ d.index = db.index
  <2>1. d = [db EXCEPT !.resident = r]
    OBVIOUS
  <2> HIDE DEF d, r
  <2> QED
    BY <2>1, OtherFields DEF DurabilityInv
<1> HIDE DEF d, drop
<1>3. IsSeq(store) /\ ValidIndex(d.index, store \o d.buffer) /\ RowsSaved(db, {}) /\ RowsGrow(db, d)
  BY <1>1, <1>2, CallBase DEF DurabilityInv, RowsGrow
<1>4. /\ IsDb(db') /\ db'.rows = d.rows /\ db'.buffer = d.buffer /\ db'.index = d.index
      /\ db'.dirty = d.dirty
      /\ ChangesOk(trim, d, store) /\ KeepsJournal(trim)
  <2>1. CASE drop
    BY <1>1, <1>2, <1>3, <2>1, TrimOk
  <2>2. CASE ~drop
    BY <1>1, <1>2, <2>2, PlainPieces, PlainOk
  <2> QED
    BY <2>1, <2>2
<1> HIDE DEF trim
<1>5. ChangesOk(trim, db', store)
  BY <1>4, ChangesSame
<1>6. ChangesOk(FlushStore, db', store) /\ KeepsJournal(FlushStore)
  BY PlainPieces, PlainOk
<1>7. ChangesOk(todo', db', store)
  BY <1>1, <1>5, <1>6, ChangesConcat
<1> QED
  BY <1>1, <1>3, <1>4, <1>7, CallKeeps

\* set_bulk_prewarm_mode keeps it.
LEMMA SetBulkKeeps ==
    ASSUME DurabilityInv, NEW on \in BOOLEAN, SetBulk(on)
    PROVE  DurabilityInv'
<1>1. todo = <<>> /\ todo' = <<>> /\ UNCHANGED files /\ db' = [db EXCEPT !.bulk = on]
  BY DEF SetBulk
<1>2. /\ IsDb(db') /\ db'.dirty = db.dirty /\ db'.rows = db.rows /\ db'.buffer = db.buffer
      /\ db'.index = db.index
  <2>1. PICK v : db' = [db EXCEPT !.bulk = v]
    BY <1>1, Zenon
  <2> QED
    BY <2>1, OtherFields DEF DurabilityInv
<1>3. RowsSaved(db, {}) /\ RowsGrow(db, db)
  BY <1>1, CallBase
<1>4. ChangesOk(todo', db', store)
  BY <1>1, PlainPieces, PlainOk
<1> QED
  BY <1>1, <1>2, <1>3, <1>4, CallKeeps DEF DurabilityInv

\* checkpoint keeps it: the journal goes after the pages and the store.
LEMMA CheckpointKeeps ==
    ASSUME DurabilityInv, Checkpoint
    PROVE  DurabilityInv'
<1> DEFINE e == EvidenceSaved(db)
           f == PagesSaved(e)
           whole == db.ids = DOMAIN db.rows
           s1 == ManifestWrites
           s3 == SaveEvidence(db)
<1>1. /\ todo = <<>> /\ UNCHANGED files
      /\ db' = [f EXCEPT !.pending = db.ids # DOMAIN db.rows]
  BY DEF Checkpoint
<1>2. PICK order \in Orders(db.dirty) :
        todo' = ManifestWrites \o PageWrites(db, order) \o SaveEvidence(db) \o
                (IF db.ids = DOMAIN db.rows THEN TruncateJournal ELSE <<>>)
  BY DEF Checkpoint
<1>3. IsDb(e) /\ e.rows = db.rows /\ e.buffer = db.buffer /\ e.index = db.index
  BY SavedFields DEF DurabilityInv
<1> HIDE DEF e
<1>4. /\ IsDb(f) /\ f.rows = db.rows /\ f.buffer = db.buffer /\ f.index = db.index
      /\ f.dirty = {}
  BY <1>3, SavedFields
<1> HIDE DEF f
<1>5. /\ IsDb(db') /\ db'.rows = db.rows /\ db'.buffer = db.buffer /\ db'.index = db.index
      /\ db'.dirty = {}
  <2>1. PICK v : db' = [f EXCEPT !.pending = v]
    BY <1>1, Zenon
  <2> QED
    BY <1>4, <2>1, OtherFields
<1>6. /\ IsSeq(store) /\ ValidIndex(db.index, store \o db.buffer) /\ IsDb(db)
      /\ RowsSaved(db, {}) /\ RowsGrow(db, db)
  BY <1>1, CallBase DEF DurabilityInv
<1>7. IsSeq(order) /\ Range(order) = db.dirty
  BY <1>6, OrdersSeq DEF IsDb
<1> DEFINE s2 == PageWrites(db, order)
           s12 == s1 \o s2
           s123 == s12 \o s3
           s4 == IF db.ids = DOMAIN db.rows THEN TruncateJournal ELSE <<>>
<1>8. todo' = s123 \o s4
  BY <1>2
<1>9. ChangesOk(s1, db', store) /\ KeepsJournal(s1)
  BY PlainPieces, PlainOk
<1>10. ChangesOk(s2, db', store) /\ KeepsJournal(s2) /\ Renamed(s2) = db.dirty
  <2>1. ChangesOk(s2, db, store) /\ KeepsJournal(s2) /\ Renamed(s2) = db.dirty
    BY <1>7, PageWritesOk
  <2> HIDE DEF s2
  <2> QED
    BY <1>5, <2>1, ChangesSame
<1>11. ChangesOk(s3, db', store) /\ KeepsJournal(s3) /\ \E k \in 1..Len(s3) : IsFlush(s3[k])
  <2>1. ValidIndex(db.index, store \o db'.buffer)
    BY <1>5, <1>6
  <2> QED
    BY <2>1, SaveEvidenceOk
<1> HIDE DEF s1, s2, s3
<1>12. ChangesOk(s12, db', store) /\ KeepsJournal(s12) /\ Renamed(s12) = Renamed(s1) \cup Renamed(s2)
  BY <1>9, <1>10, ChangesConcat
<1> HIDE DEF s12
<1>13. /\ ChangesOk(s123, db', store) /\ KeepsJournal(s123)
       /\ Renamed(s123) = Renamed(s12) \cup Renamed(s3)
  BY <1>11, <1>12, ChangesConcat
<1>14. \E k \in 1..Len(s123) : IsFlush(s123[k])
  <2>1. PICK k \in 1..Len(s3) : IsFlush(s3[k])
    BY <1>11
  <2>2. IsSeq(s12) /\ IsSeq(s3)
    BY <1>11, <1>12 DEF ChangesOk
  <2>3. s123[Len(s12) + k] = s3[k] /\ Len(s123) = Len(s12) + Len(s3)
    BY <2>2, SeqConcat
  <2>4. Len(s12) + k \in 1..Len(s123)
    BY <2>2, <2>3, SeqShape
  <2> QED
    BY <2>1, <2>3, <2>4
<1> HIDE DEF s123
<1>15. ChangesOk(todo', db', store) /\ Renamed(s123) \subseteq Renamed(todo')
  <2>1. CASE db.ids = DOMAIN db.rows
    <3>1. todo' = s123 \o TruncateJournal
      BY <1>8, <2>1
    <3> QED
      BY <1>5, <1>13, <1>14, <3>1, TruncateOk
  <2>2. CASE db.ids # DOMAIN db.rows
    <3>1. todo' = s123 \o <<>>
      BY <1>8, <2>2
    <3>2. ChangesOk(<<>>, db', store)
      BY PlainPieces, PlainOk
    <3> QED
      BY <1>13, <3>1, <3>2, ChangesConcat
  <2> QED
    BY <2>1, <2>2
<1>16. db.dirty \subseteq db'.dirty \cup Renamed(todo')
  BY <1>10, <1>12, <1>13, <1>15
<1> QED
  BY <1>1, <1>5, <1>6, <1>15, <1>16, CallKeeps

-----------------------------------------------------------------------------
(* Opening the database. *)

\* A new object has no rows, no evidence and no dirty page.
LEMMA FreshOk == IsDb(Fresh) /\ Fresh.index = Empty /\ Fresh.rows = Empty /\ Fresh.buffer = <<>>
                 /\ Fresh.dirty = {}
BY FS_EmptySet, SeqEmpty DEF Fresh, IsDb

\* scan_binary_evidence_store finds the last record of each path.
LEMMA ScannedValid ==
    ASSUME IsSeq(store)
    PROVE  ValidIndex(ScannedIndex, store)
<1>1. Len(store) \in Nat /\ DOMAIN store = 1..Len(store)
  BY SeqShape
<1>2. ASSUME NEW p \in {store[k].path : k \in DOMAIN store}
      PROVE  \E k \in DOMAIN store : store[k].path = p /\
                 \A j \in DOMAIN store : store[j].path = p => j <= k
  <2> DEFINE T == {k \in 1..Len(store) : store[k].path = p}
  <2>1. T \in SUBSET Nat /\ T # {} /\ \A m \in T : m <= Len(store)
    BY <1>1, <1>2
  <2>2. PICK n \in T : \A m \in T : m <= n
    <3> HIDE DEF T
    <3> QED
      BY <1>1, <2>1, GreatestNat
  <2> QED
    BY <1>1, <2>2
<1>3. ASSUME NEW p \in {store[k].path : k \in DOMAIN store}
      PROVE  LET last == CHOOSE k \in DOMAIN store :
                            /\ store[k].path = p
                            /\ \A j \in DOMAIN store : store[j].path = p => j <= k
             IN /\ last \in 1..Len(store) /\ store[last].path = p
                /\ ScannedIndex[p] = [pos |-> last, gone |-> store[last].gone]
  BY <1>1, <1>2 DEF ScannedIndex
<1>4. DOMAIN ScannedIndex = {store[k].path : k \in DOMAIN store}
  BY DEF ScannedIndex
<1>5. ASSUME NEW p \in DOMAIN ScannedIndex
      PROVE  LET i == ScannedIndex[p]
             IN i.pos \in 1..Len(store) /\ store[i.pos].path = p /\ store[i.pos].gone = i.gone
  <2> DEFINE last == CHOOSE k \in DOMAIN store :
                        /\ store[k].path = p
                        /\ \A j \in DOMAIN store : store[j].path = p => j <= k
  <2>1. /\ last \in 1..Len(store) /\ store[last].path = p
        /\ ScannedIndex[p] = [pos |-> last, gone |-> store[last].gone]
    BY <1>3, <1>4
  <2> HIDE DEF last
  <2> QED
    BY <2>1
<1> QED
  BY <1>5 DEF ValidIndex

\* What open() loads: a valid index, from the sidecar or the scan, and rows that
\* are in their page files.
LEMMA LoadedOk ==
    ASSUME IsSeq(store), ValidIndex(sidecar.index, store), PagesInPlace
    PROVE  EvidenceOk(Loaded) /\ RowsSaved(Loaded, {})
<1> DEFINE index == IF SidecarUsable THEN sidecar.index ELSE ScannedIndex
           ids == {n[1] : n \in DiskNodes}
           paths == [p \in {n[2] : n \in DiskNodes} |-> (CHOOSE n \in DiskNodes : n[2] = p)[1]]
<1>1. ValidIndex(index, store)
  BY ScannedValid
<1>2. Loaded = [Fresh EXCEPT !.ids = ids, !.rows = DiskRows, !.paths = paths, !.index = index,
                             !.sidecarDirty = FALSE]
  BY DEF Loaded
<1> HIDE DEF index, ids, paths
<1>3. Loaded = [ids |-> ids, paths |-> paths, rows |-> DiskRows, dirty |-> {},
                resident |-> Empty, index |-> index, buffer |-> <<>>, sidecarDirty |-> FALSE,
                pending |-> FALSE, appends |-> 0, bulk |-> FALSE, log |-> <<>>]
  BY <1>2 DEF Fresh
<1>4. IsDb(Loaded)
  BY <1>3, FS_EmptySet, SeqEmpty DEF IsDb
<1>5. ValidIndex(Loaded.index, store \o Loaded.buffer)
  BY <1>1, <1>3, SeqEmpty, ValidLonger
<1>6. RowsSaved(Loaded, {})
  <2> SUFFICES ASSUME NEW i \in DOMAIN DiskRows
               PROVE  OnDisk(i, DiskRows[i])
    BY <1>3 DEF RowsSaved
  <2>1. PICK q \in DOMAIN pages : i \in DOMAIN pages[q]
    BY DEF DiskRows
  <2>2. PageOf(i) = q
    BY <2>1 DEF PagesInPlace
  <2>3. DiskRows[i] = pages[PageOf(i)][i]
    BY DEF DiskRows
  <2> QED
    BY <2>1, <2>2, <2>3 DEF OnDisk
<1> QED
  BY <1>4, <1>5, <1>6 DEF EvidenceOk

\* Opening a database that has a manifest keeps the invariant.
LEMMA OpenExistingKeeps ==
    ASSUME DurabilityInv, OpenExisting
    PROVE  DurabilityInv'
<1>1. UNCHANGED files
  BY DEF OpenExisting
<1>2. CASE UNCHANGED <<db, todo>>
  BY <1>1, <1>2 DEF DurabilityInv, files, ChangesOk, ChangeOk, FlushedBy, RowsSaved, OnDisk,
                    PagesInPlace
<1>3. CASE /\ db' = Replayed(journal)
           /\ todo' = IF SidecarUsable THEN <<>>
                      ELSE Replace("sidecar", 0, [size |-> Len(store), index |-> ScannedIndex])
  <2>1. EvidenceOk(Loaded) /\ RowsSaved(Loaded, {})
    BY LoadedOk DEF DurabilityInv
  <2>2. EvidenceOk(db') /\ RowsGrow(Loaded, db')
    BY <1>3, <2>1, ReplayedKeeps DEF DurabilityInv
  <2>3. ChangesOk(todo', db', store)
    <3>1. CASE SidecarUsable
      BY <1>3, <3>1, PlainPieces, PlainOk
    <3>2. CASE ~SidecarUsable
      <4> DEFINE content == [size |-> Len(store), index |-> ScannedIndex]
      <4>1. ValidIndex(content.index, store)
        BY ScannedValid DEF DurabilityInv
      <4>2. todo' = Replace("sidecar", 0, content)
        BY <1>3, <3>2
      <4> HIDE DEF content
      <4> QED
        BY <4>1, <4>2, SidecarReplaceOk
    <3> QED
      BY <3>1, <3>2
  <2>4. /\ IsDb(db') /\ db'.rows = db'.rows /\ db'.buffer = db'.buffer /\ db'.index = db'.index
        /\ ValidIndex(db'.index, store \o db'.buffer)
        /\ db'.dirty \subseteq db'.dirty \cup Renamed(todo')
    BY <2>2 DEF EvidenceOk
  <2> QED
    BY <1>1, <2>1, <2>2, <2>3, <2>4, CallKeeps
<1> QED
  BY <1>2, <1>3, Zenon DEF OpenExisting

\* So does making a new one around the files that are there.
LEMMA OpenWithoutManifestKeeps ==
    ASSUME DurabilityInv, OpenWithoutManifest
    PROVE  DurabilityInv'
<1> DEFINE d == WriteRow(Fresh, 0, Leaf(<<>>))
           s == PageWrites(d, <<0>>)
<1>1. UNCHANGED files
  BY DEF OpenWithoutManifest
<1>2. CASE UNCHANGED <<db, todo>>
  BY <1>1, <1>2 DEF DurabilityInv, files, ChangesOk, ChangeOk, FlushedBy, RowsSaved, OnDisk,
                    PagesInPlace
<1>3. CASE db' = PagesSaved(d) /\ todo' = ManifestWrites \o s
  <2>1. Grows(Fresh, d)
    BY FreshOk, WriteRowGrows
  <2>2. d.dirty = {0}
    <3>1. 0 \div RowsPerPage = 0
      BY LectAssumption
    <3>2. ~Known(Fresh, Leaf(<<>>).path)
      BY DEF Known, Fresh, Empty
    <3>3. d = [Fresh EXCEPT !.ids = @ \cup {0}, !.paths = Put(@, Leaf(<<>>).path, 0),
                            !.rows = Put(@, 0, Leaf(<<>>)), !.dirty = @ \cup {PageOf(0)}]
      BY <3>2, Zenon DEF WriteRow
    <3>4. IsDb(Fresh) /\ Fresh.dirty = {}
      BY FreshOk
    <3> HIDE DEF d
    <3>5. d.dirty = Fresh.dirty \cup {PageOf(0)}
      BY <3>3, <3>4 DEF IsDb
    <3> QED
      BY <3>1, <3>4, <3>5 DEF PageOf
  <2> HIDE DEF d
  <2>3. /\ IsDb(db') /\ db'.rows = d.rows /\ db'.buffer = d.buffer /\ db'.index = d.index
    BY <1>3, <2>1, SavedFields DEF Grows
  <2>4. IsSeq(<<0>>) /\ Range(<<0>>) = {0}
    BY SeqSingle
  <2>5. ChangesOk(s, d, store) /\ KeepsJournal(s) /\ Renamed(s) = {0}
    BY <2>4, PageWritesOk
  <2>6. ChangesOk(ManifestWrites, db', store) /\ KeepsJournal(ManifestWrites)
    BY PlainPieces, PlainOk
  <2> HIDE DEF s
  <2>7. ChangesOk(s, db', store)
    BY <2>3, <2>5, ChangesSame
  <2>8. ChangesOk(todo', db', store) /\ Renamed(todo') = Renamed(ManifestWrites) \cup Renamed(s)
    BY <1>3, <2>6, <2>7, ChangesConcat
  <2>9. RowsSaved(Fresh, {}) /\ RowsGrow(Fresh, d)
    BY <2>1, FreshOk DEF RowsSaved, Empty, Grows
  <2>10. ValidIndex(d.index, store \o d.buffer)
    BY <2>1, FreshOk DEF Grows, SameEvidence, ValidIndex, Empty
  <2>11. d.dirty \subseteq db'.dirty \cup Renamed(todo')
    BY <2>2, <2>5, <2>8
  <2> QED
    BY <1>1, <2>3, <2>8, <2>9, <2>10, <2>11, CallKeeps
<1> QED
  BY <1>2, <1>3, Zenon DEF OpenWithoutManifest

-----------------------------------------------------------------------------
(* Every change of the directory preserves the invariant. *)

\* The changes that are left, once the first one has been made.
LEMMA TailOk ==
    ASSUME NEW s, s # <<>>, NEW d, NEW e, NEW records, NEW more,
           ChangesOk(s, d, records), e.rows = d.rows, e.dirty = d.dirty,
           \/ more = records /\ e.buffer = d.buffer /\ ~IsFlush(Head(s))
           \/ /\ more = records \o d.buffer /\ e.buffer = <<>>
              /\ IsSeq(records) /\ IsSeq(d.buffer)
    PROVE  ChangesOk(Tail(s), e, more) /\ Renamed(s) \subseteq {Head(s).key} \cup Renamed(Tail(s))
           /\ (~IsRename(Head(s), "page") => Renamed(Tail(s)) = Renamed(s))
<1> DEFINE t == Tail(s)
<1>1. IsSeq(s)
  BY DEF ChangesOk
<1>2. /\ IsSeq(t) /\ Head(s) = s[1] /\ Len(s) \in Nat \ {0} /\ Len(t) = Len(s) - 1
      /\ \A i \in 1..Len(s) - 1 : t[i] = s[i + 1]
      /\ Range(s) = {Head(s)} \cup Range(t)
  BY <1>1, SeqTail
<1> HIDE DEF t
<1>3. ASSUME NEW k \in 1..Len(t) PROVE ChangeOk(t, k, e, more)
  <2>1. k + 1 \in 1..Len(s) /\ t[k] = s[k + 1]
    BY <1>2
  <2>2. ChangeOk(s, k + 1, d, records)
    BY <2>1 DEF ChangesOk
  <2>3. RowsOnPage(e, t[k].key) = RowsOnPage(d, t[k].key)
    BY DEF RowsOnPage
  <2>4. ASSUME FlushedBy(s, k + 1), ~IsFlush(Head(s)) PROVE FlushedBy(t, k)
    <3>1. PICK j \in 1..k : IsFlush(s[j])
      BY <2>4 DEF FlushedBy
    <3>2. j # 1
      BY <1>2, <2>4, <3>1
    <3>3. j - 1 \in 1..(k - 1) /\ j - 1 \in 1..Len(s) - 1 /\ (j - 1) + 1 = j
      BY <1>2, <3>2
    <3>4. t[j - 1] = s[j]
      BY <1>2, <3>3
    <3> QED
      BY <3>1, <3>3, <3>4 DEF FlushedBy
  <2>5. ASSUME NEW j \in (k + 2)..Len(s)
        PROVE  j - 1 \in (k + 1)..Len(t) /\ t[j - 1] = s[j]
    <3>1. j - 1 \in (k + 1)..Len(t) /\ j - 1 \in 1..Len(s) - 1 /\ (j - 1) + 1 = j
      BY <1>2
    <3> QED
      BY <1>2, <3>1
  <2>6. IsRename(t[k], "sidecar") =>
          \/ ValidIndex(t[k].content.index, more)
          \/ ValidIndex(t[k].content.index, more \o e.buffer) /\ FlushedBy(t, k)
    <3>1. CASE more = records /\ e.buffer = d.buffer /\ ~IsFlush(Head(s))
      BY <2>1, <2>2, <2>4, <3>1 DEF ChangeOk
    <3>2. CASE more = records \o d.buffer /\ IsSeq(records) /\ IsSeq(d.buffer)
      BY <2>1, <2>2, <3>2, ValidLonger DEF ChangeOk
    <3> QED
      BY <3>1, <3>2
  <2>7. IsRename(t[k], "page") => t[k].content = RowsOnPage(e, t[k].key)
    BY <2>1, <2>2, <2>3 DEF ChangeOk
  <2>8. t[k].file = "page" /\ t[k].act = "remove" =>
          \E j \in (k + 1)..Len(t) : IsRename(t[j], "page") /\ t[j].key = t[k].key
    BY <2>1, <2>2, <2>5 DEF ChangeOk
  <2>9. t[k].act = "truncate" =>
          k = Len(t) /\ e.dirty = {} /\ (e.buffer = <<>> \/ FlushedBy(t, k))
    BY <1>2, <2>1, <2>2, <2>4 DEF ChangeOk
  <2> QED
    BY <2>6, <2>7, <2>8, <2>9 DEF ChangeOk
<1>4. /\ Renamed(s) \subseteq {Head(s).key} \cup Renamed(t)
      /\ ~IsRename(Head(s), "page") => Renamed(t) = Renamed(s)
  BY <1>2 DEF Renamed
<1> QED
  BY <1>2, <1>3, <1>4 DEF ChangesOk, t

\* The change about to be made is in order.
LEMMA HeadOk ==
    ASSUME DurabilityInv, todo # <<>>
    PROVE  /\ ChangeOk(todo, 1, db, store) /\ Head(todo) = todo[1]
           /\ ~FlushedBy(todo, 1)
           /\ IsSeq(todo) /\ Len(todo) \in Nat \ {0}
<1>1. IsSeq(todo)
  BY DEF DurabilityInv, ChangesOk
<1>2. Head(todo) = todo[1] /\ Len(todo) \in Nat \ {0}
  BY <1>1, SeqTail
<1>3. ChangeOk(todo, 1, db, store)
  BY <1>2 DEF DurabilityInv, ChangesOk
<1>4. ~FlushedBy(todo, 1)
  BY DEF FlushedBy
<1> QED
  BY <1>1, <1>2, <1>3, <1>4

\* Removing a page file keeps the invariant: its rename is still to come.
LEMMA RemoveFileKeeps ==
    ASSUME DurabilityInv, RemoveFile
    PROVE  DurabilityInv'
<1> DEFINE c == Head(todo)
<1>1. /\ todo # <<>> /\ c.act = "remove" /\ todo' = Tail(todo)
      /\ pages' = (IF c.file = "page" THEN Without(pages, {c.key}) ELSE pages)
      /\ sidecar' = (IF c.file = "sidecar" THEN NoSidecar ELSE sidecar)
      /\ UNCHANGED <<store, journal, db>>
  BY DEF RemoveFile, Made
<1>2. ~IsFlush(c) /\ ~IsRename(c, "page")
  BY <1>1 DEF IsFlush, IsRename
<1>3. ChangesOk(todo', db', store') /\ Renamed(todo') = Renamed(todo)
  BY <1>1, <1>2, TailOk DEF DurabilityInv
<1>4. c.file = "page" => c.key \in Renamed(todo)
  <2> SUFFICES ASSUME c.file = "page" PROVE c.key \in Renamed(todo)
    OBVIOUS
  <2>1. PICK j \in 2..Len(todo) : IsRename(todo[j], "page") /\ todo[j].key = c.key
    BY <1>1, HeadOk DEF ChangeOk
  <2>2. todo[j] \in Range(todo)
    BY <1>1, HeadOk, SeqShape
  <2> QED
    BY <2>1, <2>2 DEF Renamed
<1>5. \A q \in DOMAIN pages' : q \in DOMAIN pages /\ pages'[q] = pages[q]
  BY <1>1 DEF Without, Restrict
<1>6. \A q \in DOMAIN pages : q \in DOMAIN pages' \/ (c.file = "page" /\ q = c.key)
  BY <1>1 DEF Without, Restrict
<1>7. PagesInPlace'
  BY <1>5 DEF DurabilityInv, PagesInPlace
<1>8. RowsSaved(db, Renamed(todo))'
  <2> SUFFICES ASSUME NEW i \in DOMAIN db.rows, PageOf(i) \notin db.dirty \cup Renamed(todo)
               PROVE  OnDisk(i, db.rows[i])'
    BY <1>1, <1>3 DEF RowsSaved
  <2>1. OnDisk(i, db.rows[i])
    BY DEF DurabilityInv, RowsSaved
  <2>2. PageOf(i) \in DOMAIN pages'
    BY <1>4, <1>6, <2>1 DEF OnDisk
  <2> QED
    BY <1>1, <1>5, <2>1, <2>2 DEF OnDisk
<1>9. ValidIndex(sidecar'.index, store')
  BY <1>1 DEF DurabilityInv, NoSidecar, ValidIndex, Empty
<1> QED
  BY <1>1, <1>3, <1>7, <1>8, <1>9 DEF DurabilityInv

\* Renaming a file into place keeps it.
LEMMA RenameFileKeeps ==
    ASSUME DurabilityInv, RenameFile
    PROVE  DurabilityInv'
<1> DEFINE c == Head(todo)
<1>1. /\ todo # <<>> /\ c.act = "rename" /\ todo' = Tail(todo)
      /\ pages' = (IF c.file = "page" THEN Put(pages, c.key, c.content) ELSE pages)
      /\ sidecar' = (IF c.file = "sidecar" THEN c.content ELSE sidecar)
      /\ UNCHANGED <<store, journal, db>>
  BY DEF RenameFile, Made
<1>2. ~IsFlush(c)
  BY <1>1 DEF IsFlush
<1>3. /\ ChangesOk(todo', db', store')
      /\ Renamed(todo) \subseteq {c.key} \cup Renamed(todo')
      /\ ~IsRename(c, "page") => Renamed(todo') = Renamed(todo)
  BY <1>1, <1>2, TailOk DEF DurabilityInv
<1>4. c.file = "page" => c.content = RowsOnPage(db, c.key)
  BY <1>1, HeadOk DEF ChangeOk, IsRename
<1>5. ValidIndex(sidecar'.index, store')
  BY <1>1, HeadOk DEF ChangeOk, IsRename, DurabilityInv
<1>6. CASE c.file = "page"
  <2>1. pages' = Put(pages, c.key, RowsOnPage(db, c.key))
    BY <1>1, <1>4, <1>6
  <2> DEFINE rows == RowsOnPage(db, c.key)
  <2>2. \A q \in DOMAIN pages \ {c.key} : pages'[q] = pages[q]
    BY <2>1 DEF Put
  <2>3. DOMAIN pages' = DOMAIN pages \cup {c.key} /\ pages'[c.key] = rows
    BY <2>1 DEF Put
  <2>4. PagesInPlace'
    <3>1. \A i \in DOMAIN rows : PageOf(i) = c.key
      BY DEF RowsOnPage
    <3> HIDE DEF rows
    <3> QED
      BY <2>2, <2>3, <3>1 DEF DurabilityInv, PagesInPlace
  <2>5. RowsSaved(db, Renamed(todo))'
    <3> SUFFICES ASSUME NEW i \in DOMAIN db.rows, PageOf(i) \notin db.dirty \cup Renamed(todo')
                 PROVE  OnDisk(i, db.rows[i])'
      BY <1>1 DEF RowsSaved
    <3>1. CASE PageOf(i) = c.key
      <4>1. i \in DOMAIN rows /\ rows[i] = db.rows[i]
        BY <3>1 DEF RowsOnPage
      <4> HIDE DEF rows
      <4> QED
        BY <1>1, <2>3, <3>1, <4>1 DEF OnDisk
    <3>2. CASE PageOf(i) # c.key
      <4>1. OnDisk(i, db.rows[i])
        BY <1>3, <3>2 DEF DurabilityInv, RowsSaved
      <4> HIDE DEF rows
      <4> QED
        BY <1>1, <2>2, <2>3, <3>2, <4>1 DEF OnDisk
    <3> QED
      BY <3>1, <3>2
  <2> QED
    BY <1>1, <1>3, <1>5, <2>4, <2>5 DEF DurabilityInv
<1>7. CASE c.file # "page"
  <2>1. pages' = pages /\ Renamed(todo') = Renamed(todo)
    BY <1>1, <1>3, <1>7 DEF IsRename
  <2>2. RowsSaved(db, Renamed(todo))' /\ PagesInPlace'
    BY <1>1, <2>1 DEF DurabilityInv, RowsSaved, OnDisk, PagesInPlace
  <2> QED
    BY <1>1, <1>3, <1>5, <2>2 DEF DurabilityInv
<1> QED
  BY <1>6, <1>7

\* Flushing the stream moves the buffer to the end of the store.
LEMMA FlushStreamKeeps ==
    ASSUME DurabilityInv, FlushStream
    PROVE  DurabilityInv'
<1>1. /\ todo # <<>> /\ IsFlush(Head(todo)) /\ todo' = Tail(todo)
      /\ store' = store \o db.buffer /\ db' = [db EXCEPT !.buffer = <<>>]
      /\ UNCHANGED <<pages, sidecar, journal>>
  BY DEF FlushStream, NextChange, Made, IsFlush, StoreOf
<1>2. /\ IsDb(db') /\ db'.rows = db.rows /\ db'.dirty = db.dirty /\ db'.index = db.index
      /\ db'.buffer = <<>>
  <2>1. db' = [ids |-> db.ids, paths |-> db.paths, rows |-> db.rows, dirty |-> db.dirty,
               resident |-> db.resident, index |-> db.index, buffer |-> <<>>,
               sidecarDirty |-> db.sidecarDirty, pending |-> db.pending,
               appends |-> db.appends, bulk |-> db.bulk, log |-> db.log]
    BY <1>1 DEF DurabilityInv, IsDb
  <2> QED
    BY <2>1, SeqEmpty DEF DurabilityInv, IsDb
<1>3. IsSeq(store) /\ IsSeq(db.buffer) /\ IsSeq(store')
  BY <1>1, SeqConcat DEF DurabilityInv, IsDb
<1>4. ~IsRename(Head(todo), "page")
  BY <1>1 DEF IsFlush, IsRename
<1>5. ChangesOk(todo', db', store') /\ Renamed(todo') = Renamed(todo)
  BY <1>1, <1>2, <1>3, <1>4, TailOk DEF DurabilityInv
<1>6. ValidIndex(db'.index, store')
  BY <1>1, <1>2 DEF DurabilityInv
<1>7. ValidIndex(db'.index, store' \o db'.buffer)
  BY <1>2, <1>3, <1>6, SeqEmpty, ValidLonger
<1>8. ValidIndex(sidecar'.index, store')
  BY <1>1, <1>3, ValidLonger DEF DurabilityInv
<1>9. RowsSaved(db, Renamed(todo))' /\ PagesInPlace'
  BY <1>1, <1>2, <1>5 DEF DurabilityInv, RowsSaved, OnDisk, PagesInPlace
<1> QED
  BY <1>1, <1>2, <1>3, <1>5, <1>7, <1>8, <1>9 DEF DurabilityInv

\* The other changes leave the pages, the store, the sidecar and the object alone.
LEMMA OtherChangeKeeps ==
    ASSUME DurabilityInv, todo # <<>>, todo' = Tail(todo), ~IsFlush(Head(todo)),
           ~IsRename(Head(todo), "page"), UNCHANGED <<pages, store, sidecar, db>>, IsSeq(journal')
    PROVE  DurabilityInv'
<1>1. ChangesOk(todo', db', store') /\ Renamed(todo') = Renamed(todo)
  BY TailOk DEF DurabilityInv
<1> QED
  BY <1>1 DEF DurabilityInv, RowsSaved, OnDisk, PagesInPlace

\* Every file change keeps the invariant.
LEMMA FileChangeKeeps ==
    ASSUME DurabilityInv, FileChange
    PROVE  DurabilityInv'
<1>1. CASE RemoveFile
  BY <1>1, RemoveFileKeeps
<1>2. CASE RenameFile
  BY <1>2, RenameFileKeeps
<1>3. CASE FlushStream
  BY <1>3, FlushStreamKeeps
<1>4. CASE AppendJournal
  <2>1. /\ todo # <<>> /\ todo' = Tail(todo) /\ ~IsFlush(Head(todo))
        /\ ~IsRename(Head(todo), "page") /\ UNCHANGED <<pages, store, sidecar, db>>
        /\ journal' = Append(journal, Head(todo).content)
    BY <1>4 DEF AppendJournal, NextChange, Made, IsFlush, IsRename
  <2>2. IsSeq(journal')
    BY <2>1, SeqAppend DEF DurabilityInv
  <2> QED
    BY <2>1, <2>2, OtherChangeKeeps
<1>5. CASE TruncateJournalFile
  <2>1. /\ todo # <<>> /\ todo' = Tail(todo) /\ ~IsFlush(Head(todo))
        /\ ~IsRename(Head(todo), "page") /\ UNCHANGED <<pages, store, sidecar, db>>
        /\ journal' = <<>>
    BY <1>5 DEF TruncateJournalFile, NextChange, Made, IsFlush, IsRename
  <2> QED
    BY <2>1, SeqEmpty, OtherChangeKeeps
<1>6. CASE ReturnFromCall
  <2>1. /\ todo # <<>> /\ todo' = Tail(todo) /\ ~IsFlush(Head(todo))
        /\ ~IsRename(Head(todo), "page") /\ UNCHANGED <<pages, store, sidecar, db, journal>>
    BY <1>6 DEF ReturnFromCall, Made, IsFlush, IsRename
  <2> QED
    BY <2>1, OtherChangeKeeps DEF DurabilityInv
<1> QED
  BY <1>1, <1>2, <1>3, <1>4, <1>5, <1>6 DEF FileChange

\* A process that ends leaves in the store a prefix of what the buffer held.
LEMMA ProcessEnds ==
    ASSUME DurabilityInv, UNCHANGED <<pages, sidecar, journal>>, db' = Fresh, todo' = <<>>,
           NEW t, IsSeq(t), store' = store \o t
    PROVE  DurabilityInv'
<1>1. IsSeq(store') /\ ValidIndex(sidecar'.index, store')
  BY SeqConcat, ValidLonger DEF DurabilityInv
<1>2. ChangesOk(todo', db', store')
  BY PlainPieces, PlainOk
<1>3. /\ IsDb(db') /\ RowsSaved(db, Renamed(todo))'
      /\ ValidIndex(db'.index, store' \o db'.buffer)
  BY FreshOk DEF RowsSaved, ValidIndex, Empty
<1> QED
  BY <1>1, <1>2, <1>3 DEF DurabilityInv, PagesInPlace

\* Closing keeps the invariant.
LEMMA CloseKeeps ==
    ASSUME DurabilityInv, Close
    PROVE  DurabilityInv'
<1>1. /\ UNCHANGED <<pages, sidecar, journal>> /\ db' = Fresh /\ todo' = <<>>
      /\ store' = store \o db.buffer
  BY DEF Close, StoreOf
<1> QED
  BY <1>1, ProcessEnds DEF DurabilityInv, IsDb

\* So does a kill between any two changes.
LEMMA KillKeeps ==
    ASSUME DurabilityInv, Kill
    PROVE  DurabilityInv'
<1>1. PICK k \in 0..Len(db.buffer) : store' = store \o SubSeq(db.buffer, 1, k)
  <2>1. 0 \in 0..Len(db.buffer)
    BY SeqShape DEF DurabilityInv, IsDb
  <2> QED
    BY <2>1 DEF Kill
<1>2. IsSeq(SubSeq(db.buffer, 1, k))
  BY SeqPrefix DEF DurabilityInv, IsDb
<1>3. UNCHANGED <<pages, sidecar, journal>> /\ db' = Fresh /\ todo' = <<>>
  BY DEF Kill
<1> QED
  BY <1>1, <1>2, <1>3, ProcessEnds

-----------------------------------------------------------------------------
(* The theorems. *)

\* A new database satisfies the invariant.
LEMMA InitDurability == Init => DurabilityInv
<1> SUFFICES ASSUME Init PROVE DurabilityInv
  OBVIOUS
<1> DEFINE d == WriteRow(Fresh, 0, Leaf(<<>>))
<1>1. /\ store = <<>> /\ sidecar = NoSidecar /\ journal = <<>> /\ todo = <<>>
      /\ db = PagesSaved(d) /\ pages = [q \in {0} |-> [i \in {0} |-> Leaf(<<>>)]]
  BY DEF Init
<1>2. DOMAIN pages = {0} /\ DOMAIN pages[0] = {0} /\ pages[0][0] = Leaf(<<>>)
  BY <1>1
<1>3. PageOf(0) = 0
  <2>1. 0 \div RowsPerPage = 0
    BY LectAssumption
  <2> QED
    BY <2>1 DEF PageOf
<1>4. Grows(Fresh, d) /\ DOMAIN d.rows \subseteq {0} /\ d.rows = Put(Fresh.rows, 0, Leaf(<<>>))
  <2>1. ~Known(Fresh, Leaf(<<>>).path)
    BY DEF Known, Fresh, Empty
  <2>2. d = [Fresh EXCEPT !.ids = @ \cup {0}, !.paths = Put(@, Leaf(<<>>).path, 0),
                          !.rows = Put(@, 0, Leaf(<<>>)), !.dirty = @ \cup {PageOf(0)}]
    BY <2>1, Zenon DEF WriteRow
  <2>3. Grows(Fresh, d)
    BY FreshOk, WriteRowGrows
  <2>4. IsDb(Fresh) /\ Fresh.rows = Empty
    BY FreshOk
  <2> HIDE DEF d
  <2>5. d.rows = Put(Fresh.rows, 0, Leaf(<<>>))
    BY <2>2, <2>4 DEF IsDb
  <2> QED
    BY <2>3, <2>4, <2>5 DEF Put, Empty
<1> HIDE DEF d
<1>5. /\ IsDb(db) /\ db.rows = d.rows /\ db.index = Empty
  BY <1>1, <1>4, SavedFields, FreshOk DEF Grows, SameEvidence
<1>6. RowsSaved(db, Renamed(todo))
  <2>1. \A i \in DOMAIN db.rows : i = 0 /\ db.rows[i] = Leaf(<<>>)
    BY <1>4, <1>5 DEF Put
  <2> QED
    BY <1>2, <1>3, <2>1 DEF RowsSaved, OnDisk
<1>7. PagesInPlace
  BY <1>2, <1>3 DEF PagesInPlace
<1>8. ChangesOk(todo, db, store)
  BY <1>1, PlainPieces, PlainOk
<1>9. ValidIndex(db.index, store \o db.buffer) /\ ValidIndex(sidecar.index, store)
  BY <1>1, <1>5 DEF ValidIndex, Empty, NoSidecar
<1> QED
  BY <1>1, <1>5, <1>6, <1>7, <1>8, <1>9, SeqEmpty DEF DurabilityInv

\* Every step preserves it.
LEMMA NextDurability ==
    ASSUME DurabilityInv, [Next]_vars
    PROVE  DurabilityInv'
<1>1. CASE UNCHANGED vars
  BY <1>1 DEF DurabilityInv, vars, files, ChangesOk, ChangeOk, FlushedBy, RowsSaved, OnDisk,
              PagesInPlace
<1>2. CASE Call
  BY <1>2, SplitLeafKeeps, SplitToBoxKeeps, PutEvidenceKeeps, DeletePayloadKeeps,
     ReadEvidenceKeeps, SetBulkKeeps, CheckpointKeeps DEF Call
<1>3. CASE FileChange
  BY <1>3, FileChangeKeeps
<1>4. CASE Close
  BY <1>4, CloseKeeps
<1>5. CASE Kill
  BY <1>5, KillKeeps
<1>6. CASE OpenExisting
  BY <1>6, OpenExistingKeeps
<1>7. CASE OpenWithoutManifest
  BY <1>7, OpenWithoutManifestKeeps
<1> QED
  BY <1>1, <1>2, <1>3, <1>4, <1>5, <1>6, <1>7 DEF Next

\* The invariant holds in every reachable state, for any number of calls, closes
\* and kills, any depth, page size and flush interval.
THEOREM DurabilityInvariant == Spec => []DurabilityInv
BY InitDurability, NextDurability, PTL DEF Spec

\* Whatever an earlier process left in the files, every index entry of an open
\* database points at a record of its own path (database.cpp:3003-3187, 3300-3342).
THEOREM IndexCorrect == Spec => []IndexPointsAtRecord
<1>1. DurabilityInv => IndexPointsAtRecord
  BY DEF DurabilityInv, IndexPointsAtRecord, ValidIndex, StoreOf
<1> QED
  BY <1>1, DurabilityInvariant, PTL

\* The journal is truncated only when the page files hold every row the object
\* has and the store every record (database.cpp:2026-2035).
THEOREM TruncationCorrect == Spec => TruncationSafe
<1> DEFINE Safe == Len(journal') < Len(journal) =>
                     /\ db.buffer = <<>>
                     /\ \A i \in DOMAIN db.rows : i \in DOMAIN DiskRows /\ DiskRows[i] = db.rows[i]
<1>1. ASSUME DurabilityInv, [Next]_vars PROVE [Safe]_vars
  <2> SUFFICES ASSUME Len(journal') < Len(journal) PROVE Safe
    OBVIOUS
  <2>1. Len(journal) \in Nat
    BY <1>1, SeqShape DEF DurabilityInv
  <2>2. TruncateJournalFile
    <3>1. ~ UNCHANGED journal
      BY <2>1
    <3>2. ~ AppendJournal
      <4>1. Len(Append(journal, Head(todo).content)) = Len(journal) + 1
        BY <1>1, SeqAppend DEF DurabilityInv
      <4> QED
        BY <2>1, <4>1 DEF AppendJournal
    <3> QED
      BY <1>1, <3>1, <3>2 DEF Next, Call, FileChange, vars, files, SplitLeaf, SplitToBox,
         PutEvidence, DeletePayload, ReadEvidence, SetBulk, Checkpoint, RemoveFile, RenameFile,
         FlushStream, ReturnFromCall, Close, Kill, OpenExisting, OpenWithoutManifest
  <2>3. todo # <<>> /\ Head(todo).act = "truncate"
    BY <2>2 DEF TruncateJournalFile, NextChange
  <2>4. Len(todo) = 1 /\ db.dirty = {} /\ db.buffer = <<>>
    BY <1>1, <2>3, HeadOk DEF ChangeOk
  <2>5. Renamed(todo) = {}
    <3>1. \A c \in Range(todo) : c = todo[1]
      BY <1>1, <2>3, <2>4, HeadOk, SeqShape
    <3> QED
      BY <1>1, <2>3, <3>1, HeadOk DEF Renamed, IsRename
  <2>6. ASSUME NEW i \in DOMAIN db.rows PROVE i \in DOMAIN DiskRows /\ DiskRows[i] = db.rows[i]
    <3>1. OnDisk(i, db.rows[i])
      BY <1>1, <2>4, <2>5 DEF DurabilityInv, RowsSaved
    <3> QED
      BY <3>1 DEF OnDisk, DiskRows
  <2> QED
    BY <2>4, <2>6
<1> QED
  BY <1>1, DurabilityInvariant, PTL DEF Spec, TruncationSafe

-----------------------------------------------------------------------------
(* Paths. *)

\* A path is a sequence of at most MaxTreeDepth - 1 sides.
LEMMA PathShape ==
    \A p : p \in Paths <=> /\ IsSeq(p) /\ Len(p) \in 0..(MaxTreeDepth - 1)
                           /\ Range(p) \subseteq {0, 1}
<1> TAKE p
<1>1. ASSUME p \in Paths
      PROVE  IsSeq(p) /\ Len(p) \in 0..(MaxTreeDepth - 1) /\ Range(p) \subseteq {0, 1}
  <2>1. PICK n \in 0..(MaxTreeDepth - 1) : p \in [1..n -> {0, 1}]
    BY <1>1 DEF Paths
  <2>2. n \in Nat /\ p = [k \in 1..n |-> p[k]] /\ \A k \in 1..n : p[k] \in {0, 1}
    BY <2>1
  <2>3. IsSeq(p) /\ Len(p) = n /\ Range(p) = {p[k] : k \in 1..n}
    BY <2>2, SeqFunction
  <2> QED
    BY <2>1, <2>2, <2>3
<1>2. ASSUME IsSeq(p), Len(p) \in 0..(MaxTreeDepth - 1), Range(p) \subseteq {0, 1}
      PROVE  p \in Paths
  <2>1. p \in Seq({0, 1})
    BY <1>2, SeqWider
  <2>2. p \in [1..Len(p) -> {0, 1}]
    BY <2>1, LenProperties
  <2> QED
    BY <1>2, <2>2 DEF Paths
<1> QED
  BY <1>1, <1>2

\* A longer path is one of its own, and names its parent and its side.
LEMMA PathAppend ==
    ASSUME NEW p \in Paths, NEW a \in {0, 1}
    PROVE  /\ Append(p, a) # p
           /\ Len(p) + 1 < MaxTreeDepth => Append(p, a) \in Paths
           /\ \A q \in Paths, b \in {0, 1} : Append(p, a) = Append(q, b) => p = q /\ a = b
<1>1. IsSeq(p) /\ Len(p) \in 0..(MaxTreeDepth - 1) /\ Range(p) \subseteq {0, 1} /\ Len(p) \in Nat
  BY PathShape
<1>2. /\ IsSeq(Append(p, a)) /\ Range(Append(p, a)) = Range(p) \cup {a}
      /\ Len(Append(p, a)) = Len(p) + 1
  BY <1>1, SeqAppend
<1>3. MaxTreeDepth \in Nat
  BY LectAssumption
<1>4. Append(p, a) # p
  BY <1>1, <1>2
<1>5. ASSUME Len(p) + 1 < MaxTreeDepth PROVE Append(p, a) \in Paths
  <2>1. Len(Append(p, a)) \in 0..(MaxTreeDepth - 1) /\ Range(Append(p, a)) \subseteq {0, 1}
    BY <1>1, <1>2, <1>3, <1>5
  <2> QED
    BY <1>2, <2>1, PathShape
<1>6. ASSUME NEW q \in Paths, NEW b \in {0, 1}, Append(p, a) = Append(q, b)
      PROVE  p = q /\ a = b
  <2>1. IsSeq(q) /\ Len(q) \in Nat
    BY PathShape
  <2>2. p \in Seq({0, 1}) /\ q \in Seq({0, 1})
    BY <1>1, <2>1, PathShape, SeqWider
  <2>3. p \in [1..Len(p) -> {0, 1}] /\ q \in [1..Len(q) -> {0, 1}]
    BY <2>2, LenProperties
  <2>4. Len(p) = Len(q)
    BY <1>1, <1>2, <1>6, <2>1, SeqAppend
  <2>5. \A k \in 1..Len(p) : p[k] = q[k]
    BY <1>1, <1>6, <2>1, <2>4, SeqAppend
  <2>6. p = q
    BY <2>3, <2>4, <2>5
  <2>7. Append(p, a)[Len(p) + 1] = a /\ Append(q, b)[Len(q) + 1] = b
    BY <1>1, <2>1, SeqAppend
  <2> QED
    BY <1>6, <2>4, <2>6, <2>7
<1> QED
  BY <1>4, <1>5, <1>6

\* What comes before a place in a path is a path.
LEMMA PathPrefix ==
    ASSUME NEW p \in Paths, NEW n \in 0..Len(p)
    PROVE  SubSeq(p, 1, n) \in Paths
<1>1. IsSeq(p) /\ Len(p) \in 0..(MaxTreeDepth - 1) /\ Range(p) \subseteq {0, 1}
  BY PathShape
<1>2. /\ IsSeq(SubSeq(p, 1, n)) /\ Len(SubSeq(p, 1, n)) = n
      /\ Range(SubSeq(p, 1, n)) \subseteq Range(p)
  BY <1>1, SeqPrefix
<1>3. Len(SubSeq(p, 1, n)) \in 0..(MaxTreeDepth - 1)
  BY <1>1, <1>2, LectAssumption
<1> QED
  BY <1>1, <1>2, <1>3, PathShape

-----------------------------------------------------------------------------
(* The nodes of an object. *)

\* f is the function of its values.
IsMap(f) == f = [x \in DOMAIN f |-> f[x]]

\* Put makes one.
LEMMA PutIsMap == ASSUME NEW f, NEW x, NEW v PROVE IsMap(Put(f, x, v))
<1> DEFINE h == [y \in DOMAIN f \cup {x} |-> IF y = x THEN v ELSE f[y]]
<1>1. IsMap(h)
  BY DEF IsMap
<1> QED
  BY <1>1 DEF Put

\* The ids are the first numbers, each is that of one row, and the rows are a
\* tree: a path is known only below an inner node.
Tree(d) ==
    /\ IsMap(d.rows) /\ IsMap(d.paths)
    /\ d.ids = DOMAIN d.rows
    /\ \E m \in Nat : d.ids = 0..m
    /\ \A i \in DOMAIN d.rows :
          /\ d.rows[i] = [path |-> d.rows[i].path, left |-> d.rows[i].left,
                          right |-> d.rows[i].right]
          /\ d.rows[i].path \in Paths
          /\ Known(d, d.rows[i].path) /\ d.paths[d.rows[i].path] = i
    /\ \A q \in DOMAIN d.paths : d.paths[q] \in DOMAIN d.rows /\ d.rows[d.paths[q]].path = q
    /\ \A q \in Paths, b \in {0, 1} :
          Known(d, Append(q, b)) => Known(d, q) /\ ~IsLeaf(d, q)

\* The split t is in the rows.
Settled(t, d) ==
    t.type = "split" =>
        /\ t.node \in DOMAIN d.rows /\ t.left # 0 /\ d.rows[t.node].left = t.left
        /\ {t.left, t.right} \subseteq DOMAIN d.rows

\* From d to e, inner nodes stay what they are and nothing known is forgotten.
TreeGrows(d, e) ==
    /\ \A i \in DOMAIN d.rows : i \in DOMAIN e.rows /\ (d.rows[i].left # 0 => e.rows[i] = d.rows[i])
    /\ DOMAIN d.paths \subseteq DOMAIN e.paths

LogSettled(d) == \A t \in Range(d.log) : Settled(t, d)
RecordsKnown(d) == \A r \in Range(d.buffer) : Known(d, r.path)
SameNodes(d, e) == e.ids = d.ids /\ e.paths = d.paths /\ e.rows = d.rows

\* A split in the rows stays in them.
LEMMA SettledStays ==
    ASSUME NEW d, NEW e, TreeGrows(d, e), NEW t, Settled(t, d)
    PROVE  Settled(t, e)
BY DEF TreeGrows, Settled

\* Growing twice is growing.
LEMMA TreeGrowsTransitive ==
    ASSUME NEW d, NEW e, NEW f, TreeGrows(d, e), TreeGrows(e, f)
    PROVE  TreeGrows(d, f)
BY DEF TreeGrows

\* All this is about the nodes alone.
LEMMA SameNodesSame ==
    ASSUME NEW d, NEW e, SameNodes(d, e)
    PROVE  /\ Tree(d) => Tree(e)
           /\ \A t : Settled(t, d) => Settled(t, e)
           /\ \A p : Known(d, p) => Known(e, p)
BY DEF SameNodes, Tree, Settled, Known, IsLeaf, IdOf

-----------------------------------------------------------------------------
(* Splitting. *)

\* The next id is one past the last.
LEMMA NextIdIsNew ==
    ASSUME NEW d, NEW m \in Nat, d.ids = 0..m
    PROVE  NextId(d) = m + 1
<1>1. m \in d.ids /\ \A i \in d.ids : i <= m
  OBVIOUS
<1>2. \A k : (k \in d.ids /\ \A i \in d.ids : i <= k) => k = m
  BY <1>1
<1> DEFINE last == CHOOSE k \in d.ids : \A i \in d.ids : i <= k
<1>3. last = m
  BY <1>1, <1>2
<1>4. d.ids # {}
  BY <1>1
<1>5. NextId(d) = IF d.ids = {} THEN 0 ELSE 1 + last
  BY Zenon DEF NextId
<1> HIDE DEF last
<1> QED
  BY <1>3, <1>4, <1>5

\* The fields of an object with one more node, whose path was not known.
LEMMA NewNode ==
    ASSUME NEW d, IsDb(d), NEW id, NEW q, Known(d, q) => IdOf(d, q) = id,
           NEW e, e = WriteRow(d, id, Leaf(q))
    PROVE  /\ IsDb(e) /\ e.log = d.log /\ e.bulk = d.bulk
           /\ IsMap(e.paths)
           /\ e.ids = d.ids \cup {id}
           /\ DOMAIN e.paths = DOMAIN d.paths \cup {q} /\ e.paths[q] = id
           /\ \A x \in DOMAIN d.paths : e.paths[x] = d.paths[x]
           /\ DOMAIN e.rows = DOMAIN d.rows \cup {id}
           /\ e.rows[id] = [path |-> q, left |-> 0, right |-> 0]
           /\ \A i \in DOMAIN d.rows \ {id} : e.rows[i] = d.rows[i]
<1>1. IsDb(e) /\ e.log = d.log
  BY WriteRowGrows DEF Grows
<1>2. Leaf(q).path = q /\ Leaf(q) = [path |-> q, left |-> 0, right |-> 0]
  BY DEF Leaf
<1>3. e = [d EXCEPT !.ids = @ \cup {id}, !.paths = Put(@, q, id),
                    !.rows = Put(@, id, Leaf(q)), !.dirty = @ \cup {PageOf(id)}]
  BY <1>2 DEF WriteRow
<1>4. e = [ids |-> d.ids \cup {id}, paths |-> Put(d.paths, q, id),
           rows |-> Put(d.rows, id, Leaf(q)), dirty |-> d.dirty \cup {PageOf(id)},
           resident |-> d.resident, index |-> d.index, buffer |-> d.buffer,
           sidecarDirty |-> d.sidecarDirty, pending |-> d.pending, appends |-> d.appends,
           bulk |-> d.bulk, log |-> d.log]
  BY <1>3 DEF IsDb
<1>5. /\ e.ids = d.ids \cup {id} /\ e.bulk = d.bulk
      /\ e.paths = Put(d.paths, q, id) /\ e.rows = Put(d.rows, id, Leaf(q))
  BY <1>4
<1>6. /\ DOMAIN e.paths = DOMAIN d.paths \cup {q} /\ e.paths[q] = id
      /\ \A x \in DOMAIN d.paths : x # q => e.paths[x] = d.paths[x]
  BY <1>5 DEF Put
<1>7. /\ DOMAIN e.rows = DOMAIN d.rows \cup {id} /\ e.rows[id] = Leaf(q)
      /\ \A i \in DOMAIN d.rows \ {id} : e.rows[i] = d.rows[i]
  BY <1>5 DEF Put
<1>8. \A x \in DOMAIN d.paths : x = q => d.paths[x] = id
  BY DEF Known, IdOf
<1>9. IsMap(e.paths)
  BY <1>5, PutIsMap
<1> QED
  BY <1>1, <1>2, <1>5, <1>6, <1>7, <1>8, <1>9

\* The fields of an object with the children of a node linked to it.
LEMMA LinkedNode ==
    ASSUME NEW d, IsDb(d), NEW q, NEW l, NEW r, NEW e, e = LinkChildren(d, q, l, r),
           NEW id, id = IdOf(d, q), id \in DOMAIN d.rows,
           d.rows[id] = [path |-> d.rows[id].path, left |-> d.rows[id].left,
                         right |-> d.rows[id].right]
    PROVE  /\ IsDb(e) /\ e.log = d.log /\ e.bulk = d.bulk
           /\ IsMap(e.rows)
           /\ e.ids = d.ids /\ e.paths = d.paths
           /\ DOMAIN e.rows = DOMAIN d.rows
           /\ e.rows[id] = [path |-> d.rows[id].path, left |-> l, right |-> r]
           /\ \A i \in DOMAIN d.rows \ {id} : e.rows[i] = d.rows[i]
<1> DEFINE row == [d.rows[id] EXCEPT !.left = l, !.right = r]
           linked == Put(d.rows, id, row)
<1>1. IsDb(e) /\ e.log = d.log
  BY LinkChildrenGrows DEF Grows
<1>2. row = [path |-> d.rows[id].path, left |-> l, right |-> r]
  <2>1. PICK x : x = d.rows[id].path
    OBVIOUS
  <2>2. PICK y : y = d.rows[id].left
    OBVIOUS
  <2>3. PICK z : z = d.rows[id].right
    OBVIOUS
  <2>4. d.rows[id] = [path |-> x, left |-> y, right |-> z]
    BY <2>1, <2>2, <2>3
  <2>5. PICK u : u = [d.rows[id] EXCEPT !.left = l]
    OBVIOUS
  <2>6. u = [path |-> x, left |-> l, right |-> z]
    BY <2>4, <2>5
  <2>7. row = [u EXCEPT !.right = r]
    BY <2>5
  <2> HIDE DEF row
  <2> QED
    BY <2>1, <2>6, <2>7
<1>3. e = [d EXCEPT !.rows = linked, !.dirty = @ \cup {PageOf(id)}]
  BY DEF LinkChildren
<1> HIDE DEF row
<1>4. /\ DOMAIN linked = DOMAIN d.rows /\ linked[id] = row
      /\ \A i \in DOMAIN d.rows \ {id} : linked[i] = d.rows[i]
  BY DEF Put
<1>6. IsMap(linked)
  BY PutIsMap
<1> HIDE DEF linked
<1>5. e = [ids |-> d.ids, paths |-> d.paths, rows |-> linked, dirty |-> d.dirty \cup {PageOf(id)},
           resident |-> d.resident, index |-> d.index, buffer |-> d.buffer,
           sidecarDirty |-> d.sidecarDirty, pending |-> d.pending, appends |-> d.appends,
           bulk |-> d.bulk, log |-> d.log]
  BY <1>3 DEF IsDb
<1> QED
  BY <1>1, <1>2, <1>4, <1>5, <1>6

IsChild(p, q, side) == p = Append(q, side)

\* Rows with one leaf q split: what is left to say is that they are a tree.
IsSplitOf(e, d, q, p0, p1, id, m) ==
    /\ IsMap(e.rows) /\ IsMap(e.paths)
    /\ e.ids = 0..(m + 2)
    /\ DOMAIN e.paths = DOMAIN d.paths \cup {p0, p1}
    /\ e.paths[p0] = m + 1 /\ e.paths[p1] = m + 2
    /\ \A x \in DOMAIN d.paths : e.paths[x] = d.paths[x]
    /\ DOMAIN e.rows = 0..(m + 2)
    /\ e.rows[id] = [path |-> q, left |-> m + 1, right |-> m + 2]
    /\ e.rows[m + 1] = [path |-> p0, left |-> 0, right |-> 0]
    /\ e.rows[m + 2] = [path |-> p1, left |-> 0, right |-> 0]
    /\ \A i \in 0..m : i # id => e.rows[i] = d.rows[i]

\* Splitting a leaf of a tree leaves a tree.
LEMMA SplitOfTree ==
    ASSUME NEW d, Tree(d), NEW q \in Paths, Len(q) + 1 < MaxTreeDepth, HasRow(d, q), IsLeaf(d, q),
           NEW m \in Nat, d.ids = 0..m, NEW id, id = IdOf(d, q),
           NEW p0, IsChild(p0, q, 0), NEW p1, IsChild(p1, q, 1),
           NEW e, IsSplitOf(e, d, q, p0, p1, id, m)
    PROVE  Tree(e) /\ TreeGrows(d, e)
<1>1. /\ DOMAIN d.rows = 0..m /\ id \in 0..m /\ Known(d, q) /\ d.rows[id].path = q
      /\ d.rows[id].left = 0 /\ id = d.paths[q]
  BY DEF Tree, HasRow, Known, IdOf, IsLeaf
<1>2. p0 \in Paths /\ p1 \in Paths /\ p0 # p1 /\ p0 # q /\ p1 # q
  <2>1. 0 \in {0, 1} /\ 1 \in {0, 1} /\ 0 # 1
    OBVIOUS
  <2> QED
    BY <2>1, PathAppend DEF IsChild
<1>3. ~Known(d, p0) /\ ~Known(d, p1)
  <2>1. \A b \in {0, 1} : ~Known(d, Append(q, b))
    BY DEF Tree
  <2> QED
    BY <2>1 DEF IsChild
<1>4. \A x \in Paths, b \in {0, 1} : (Append(x, b) = p0 \/ Append(x, b) = p1) => x = q
  <2>1. 0 \in {0, 1} /\ 1 \in {0, 1}
    OBVIOUS
  <2> QED
    BY <2>1, PathAppend DEF IsChild
<1>5. IsMap(e.rows) /\ IsMap(e.paths) /\ e.ids = DOMAIN e.rows /\ \E k \in Nat : e.ids = 0..k
  <2>1. m + 2 \in Nat
    OBVIOUS
  <2> QED
    BY <2>1 DEF IsSplitOf
<1>6. ASSUME NEW i \in DOMAIN e.rows
      PROVE  /\ e.rows[i] = [path |-> e.rows[i].path, left |-> e.rows[i].left,
                             right |-> e.rows[i].right]
             /\ e.rows[i].path \in Paths
             /\ Known(e, e.rows[i].path) /\ e.paths[e.rows[i].path] = i
  <2>1. (i \in 0..m /\ i # id) \/ i = id \/ i = m + 1 \/ i = m + 2
    BY <1>6 DEF IsSplitOf
  <2>2. CASE i \in 0..m /\ i # id
    <3>1. e.rows[i] = d.rows[i]
      BY <2>2 DEF IsSplitOf
    <3>2. /\ d.rows[i] = [path |-> d.rows[i].path, left |-> d.rows[i].left,
                          right |-> d.rows[i].right]
          /\ d.rows[i].path \in Paths
          /\ Known(d, d.rows[i].path) /\ d.paths[d.rows[i].path] = i
      BY <1>1, <2>2 DEF Tree
    <3> QED
      BY <3>1, <3>2 DEF Known, IsSplitOf
  <2>3. CASE i = id
    BY <1>1, <2>3 DEF Known, IsSplitOf
  <2>4. CASE i = m + 1
    BY <1>2, <2>4 DEF Known, IsSplitOf
  <2>5. CASE i = m + 2
    BY <1>2, <2>5 DEF Known, IsSplitOf
  <2> QED
    BY <2>1, <2>2, <2>3, <2>4, <2>5
<1>7. ASSUME NEW x \in DOMAIN e.paths
      PROVE  e.paths[x] \in DOMAIN e.rows /\ e.rows[e.paths[x]].path = x
  <2>1. CASE x \in DOMAIN d.paths
    <3>1. e.paths[x] = d.paths[x] /\ d.paths[x] \in 0..m /\ d.rows[d.paths[x]].path = x
      BY <1>1, <2>1 DEF Tree, IsSplitOf
    <3>2. d.paths[x] = id => x = q
      BY <1>1, <3>1
    <3>3. 0..m \subseteq 0..(m + 2)
      OBVIOUS
    <3> QED
      BY <3>1, <3>2, <3>3 DEF IsSplitOf
  <2>2. CASE x = p0 \/ x = p1
    <3>1. m + 1 \in 0..(m + 2) /\ m + 2 \in 0..(m + 2)
      OBVIOUS
    <3> QED
      BY <2>2, <3>1 DEF IsSplitOf
  <2> QED
    BY <1>7, <2>1, <2>2 DEF IsSplitOf
<1>8. ASSUME NEW x \in Paths, NEW b \in {0, 1}, Known(e, Append(x, b))
      PROVE  Known(e, x) /\ ~IsLeaf(e, x)
  <2>1. Known(d, Append(x, b)) \/ x = q
    BY <1>4, <1>8 DEF Known, IsSplitOf
  <2>2. CASE x = q
    <3>1. Known(e, q) /\ e.paths[q] = id /\ e.rows[id].left = m + 1
      BY <1>1 DEF Known, IsSplitOf
    <3> QED
      BY <2>2, <3>1 DEF IsLeaf, IdOf
  <2>3. CASE Known(d, Append(x, b)) /\ x # q
    <3>1. Known(d, x) /\ d.rows[d.paths[x]].left # 0
      BY <2>3 DEF Tree, IsLeaf, IdOf
    <3>2. d.paths[x] \in 0..m /\ d.rows[d.paths[x]].path = x
      BY <1>1, <3>1 DEF Tree, Known
    <3>3. d.paths[x] # id
      BY <1>1, <2>3, <3>2
    <3>4. Known(e, x) /\ e.paths[x] = d.paths[x] /\ e.rows[d.paths[x]] = d.rows[d.paths[x]]
      BY <3>1, <3>2, <3>3 DEF Known, IsSplitOf
    <3> QED
      BY <3>1, <3>4 DEF IsLeaf, IdOf
  <2> QED
    BY <2>1, <2>2, <2>3
<1>9. Tree(e)
  BY <1>5, <1>6, <1>7, <1>8 DEF Tree
<1>10. TreeGrows(d, e)
  <2>1. \A i \in 0..m : i \in 0..(m + 2)
    OBVIOUS
  <2> QED
    BY <1>1, <2>1 DEF TreeGrows, IsSplitOf
<1> QED
  BY <1>9, <1>10

\* The entry a split of node id puts in the journal when m is the last id.
SplitEntry(id, m) == [type |-> "split", node |-> id, left |-> m + 1, right |-> m + 2]

\* What split_leaf does to a leaf that may be split: two new rows, the links to
\* them, and an entry for the journal unless the database is in bulk mode
\* (database.cpp:1507-1579).
LEMMA SplitStepShape ==
    ASSUME NEW d, IsDb(d), Tree(d), NEW q \in Paths, HasRow(d, q), IsLeaf(d, q),
           Len(q) + 1 < MaxTreeDepth, NEW m \in Nat, d.ids = 0..m, NEW id, id = IdOf(d, q),
           NEW p0, IsChild(p0, q, 0), NEW p1, IsChild(p1, q, 1), NEW e, e = SplitStep(d, q)
    PROVE  /\ IsSplitOf(e, d, q, p0, p1, id, m) /\ id \in 0..m /\ IsSeq(e.log)
           /\ e.bulk = d.bulk
           /\ e.log = IF d.bulk THEN d.log ELSE Append(d.log, SplitEntry(id, m))
<1> DEFINE l == NextId(d)
           d1 == WriteRow(d, l, Leaf(p0))
           d2 == WriteRow(d1, l + 1, Leaf(p1))
           d3 == LinkChildren(d2, q, l, l + 1)
           t == [type |-> "split", node |-> IdOf(d, q), left |-> l, right |-> l + 1]
           log == IF d.bulk THEN d3.log ELSE Append(d3.log, t)
<1>1. e = [d3 EXCEPT !.pending = TRUE, !.log = log]
  <2>1. ~(~HasRow(d, q) \/ ~IsLeaf(d, q) \/ Len(q) + 1 >= MaxTreeDepth)
    BY PathShape, LectAssumption
  <2>2. p0 = Append(q, 0) /\ p1 = Append(q, 1)
    BY DEF IsChild
  <2> QED
    BY <2>1, <2>2 DEF SplitStep
<1>2. l = m + 1
  BY NextIdIsNew
<1> HIDE DEF l
<1>3. Len(q) + 1 < MaxTreeDepth
  OBVIOUS
<1>4. p0 # p1 /\ p0 # q /\ p1 # q
  <2>1. 0 \in {0, 1} /\ 1 \in {0, 1} /\ 0 # 1
    OBVIOUS
  <2> QED
    BY <2>1, PathAppend DEF IsChild
<1>5. ~Known(d, p0) /\ ~Known(d, p1)
  <2>1. \A b \in {0, 1} : ~Known(d, Append(q, b))
    BY DEF Tree
  <2> QED
    BY <2>1 DEF IsChild
<1>6. /\ IsDb(d1) /\ d1.log = d.log /\ d1.bulk = d.bulk
      /\ d1.ids = d.ids \cup {l}
      /\ DOMAIN d1.paths = DOMAIN d.paths \cup {p0} /\ d1.paths[p0] = l
      /\ \A x \in DOMAIN d.paths : d1.paths[x] = d.paths[x]
      /\ DOMAIN d1.rows = DOMAIN d.rows \cup {l}
      /\ d1.rows[l] = [path |-> p0, left |-> 0, right |-> 0]
      /\ \A i \in DOMAIN d.rows \ {l} : d1.rows[i] = d.rows[i]
  BY <1>5, NewNode
<1> HIDE DEF d1
<1>7. ~Known(d1, p1)
  BY <1>4, <1>5, <1>6 DEF Known
<1>8. /\ IsDb(d2) /\ d2.log = d1.log /\ d2.bulk = d1.bulk /\ IsMap(d2.paths)
      /\ d2.ids = d1.ids \cup {l + 1}
      /\ DOMAIN d2.paths = DOMAIN d1.paths \cup {p1} /\ d2.paths[p1] = l + 1
      /\ \A x \in DOMAIN d1.paths : d2.paths[x] = d1.paths[x]
      /\ DOMAIN d2.rows = DOMAIN d1.rows \cup {l + 1}
      /\ d2.rows[l + 1] = [path |-> p1, left |-> 0, right |-> 0]
      /\ \A i \in DOMAIN d1.rows \ {l + 1} : d2.rows[i] = d1.rows[i]
  BY <1>6, <1>7, NewNode
<1> HIDE DEF d2
<1>9. /\ Known(d, q) /\ id = d.paths[q] /\ id \in 0..m /\ DOMAIN d.rows = 0..m
       /\ d.rows[id] = [path |-> q, left |-> d.rows[id].left, right |-> d.rows[id].right]
  <2>1. Known(d, q) /\ id = d.paths[q] /\ id \in DOMAIN d.rows /\ DOMAIN d.rows = 0..m
    BY DEF HasRow, Known, IdOf, Tree
  <2>2. d.rows[id].path = q
    BY <2>1 DEF Known, Tree
  <2>3. d.rows[id] = [path |-> d.rows[id].path, left |-> d.rows[id].left,
                      right |-> d.rows[id].right]
    BY <2>1 DEF Tree
  <2> QED
    BY <2>1, <2>2, <2>3
<1>10. id # l /\ id # l + 1 /\ l # l + 1 /\ l \notin 0..m /\ l + 1 \notin 0..m
  BY <1>2, <1>9
<1>11. /\ id = IdOf(d2, q) /\ id \in DOMAIN d2.rows /\ d2.rows[id] = d.rows[id]
  BY <1>6, <1>8, <1>9, <1>10 DEF IdOf, Known
<1>12. /\ IsDb(d3) /\ d3.log = d2.log /\ d3.bulk = d2.bulk /\ IsMap(d3.rows)
       /\ d3.ids = d2.ids /\ d3.paths = d2.paths
       /\ DOMAIN d3.rows = DOMAIN d2.rows
       /\ d3.rows[id] = [path |-> q, left |-> l, right |-> l + 1]
       /\ \A i \in DOMAIN d2.rows \ {id} : d3.rows[i] = d2.rows[i]
  <2>1. d2.rows[id].path = q
    BY <1>9, <1>11
  <2>2. d2.rows[id] = [path |-> d2.rows[id].path, left |-> d2.rows[id].left,
                       right |-> d2.rows[id].right]
    BY <1>9, <1>11
  <2> QED
    BY <1>8, <1>11, <2>1, <2>2, LinkedNode
<1> HIDE DEF d3
<1>13. /\ d3.ids = 0..(m + 2) /\ DOMAIN d3.rows = 0..(m + 2)
  <2>1. 0..(m + 2) = (0..m \cup {m + 1}) \cup {m + 2} /\ m + 2 = l + 1
    BY <1>2
  <2> QED
    BY <1>2, <1>6, <1>8, <1>9, <1>12, <2>1
<1>14. /\ DOMAIN d3.paths = DOMAIN d.paths \cup {p0, p1}
       /\ d3.paths[p0] = l /\ d3.paths[p1] = l + 1
       /\ \A x \in DOMAIN d.paths : d3.paths[x] = d.paths[x]
  BY <1>6, <1>8, <1>12
<1>15. /\ d3.rows[l] = [path |-> p0, left |-> 0, right |-> 0]
       /\ d3.rows[l + 1] = [path |-> p1, left |-> 0, right |-> 0]
  BY <1>6, <1>8, <1>10, <1>12
<1>16. \A i \in 0..m : i # id => d3.rows[i] = d.rows[i]
  BY <1>6, <1>8, <1>9, <1>10, <1>12
<1>17. IsSeq(log) /\ Range(log) \subseteq Range(d.log) \cup {t}
  <2>1. d3.log = d.log
    BY <1>6, <1>8, <1>12
  <2>2. IsSeq(d.log)
    BY DEF IsDb
  <2>3. IsSeq(Append(d.log, t)) /\ Range(Append(d.log, t)) = Range(d.log) \cup {t}
    BY <2>2, SeqAppend
  <2> QED
    BY <2>1, <2>2, <2>3
<1>18. t.type = "split" /\ t.node = id /\ t.left = l /\ t.right = l + 1
  OBVIOUS
<1> HIDE DEF log, t
<1>19. SameNodes(d3, e) /\ e.log = log /\ e.bulk = d3.bulk
  <2>1. Grows(d3, e)
    <3>1. Grows(d3, [d3 EXCEPT !.pending = TRUE, !.log = log])
      BY <1>12, <1>17, JournalingGrows, Zenon
    <3> QED
      BY <1>1, <3>1
  <2>2. PICK f : f = [d3 EXCEPT !.pending = TRUE]
    OBVIOUS
  <2>3. f = [ids |-> d3.ids, paths |-> d3.paths, rows |-> d3.rows, dirty |-> d3.dirty,
             resident |-> d3.resident, index |-> d3.index, buffer |-> d3.buffer,
             sidecarDirty |-> d3.sidecarDirty, pending |-> TRUE, appends |-> d3.appends,
             bulk |-> d3.bulk, log |-> d3.log]
    BY <1>12, <2>2 DEF IsDb
  <2>4. e = [f EXCEPT !.log = log]
    BY <1>1, <2>2
  <2>5. e.ids = f.ids /\ e.paths = f.paths /\ e.rows = f.rows /\ e.log = log
        /\ e.bulk = f.bulk
    BY <2>3, <2>4
  <2> QED
    BY <2>3, <2>5 DEF SameNodes
<1>20. IsSplitOf(e, d, q, p0, p1, id, m)
  <2>1. e.ids = d3.ids /\ e.paths = d3.paths /\ e.rows = d3.rows
    BY <1>19 DEF SameNodes
  <2>2. l = m + 1 /\ l + 1 = m + 2
    BY <1>2
  <2>3. d3.rows[id] = [path |-> q, left |-> l, right |-> l + 1]
    BY <1>12
  <2>4. IsMap(e.rows) /\ IsMap(e.paths)
    BY <1>8, <1>12, <2>1
  <2> QED
    BY <1>13, <1>14, <1>15, <1>16, <2>1, <2>2, <2>3, <2>4 DEF IsSplitOf
<1>21. e.log = IF d.bulk THEN d.log ELSE Append(d.log, SplitEntry(id, m))
  <2>1. d3.log = d.log
    BY <1>6, <1>8, <1>12
  <2>2. t = SplitEntry(id, m)
    <3>1. l = m + 1 /\ l + 1 = m + 2
      BY <1>2
    <3> QED
      BY <3>1 DEF t, SplitEntry
  <2> QED
    BY <1>19, <2>1, <2>2 DEF log
<1> QED
  BY <1>6, <1>8, <1>9, <1>12, <1>17, <1>19, <1>20, <1>21

\* split_leaf keeps the nodes a tree, and journals only what it did
\* (database.cpp:1507-1579).
LEMMA SplitStepTree ==
    ASSUME NEW d, IsDb(d), Tree(d), LogSettled(d), NEW q \in Paths
    PROVE  LET e == SplitStep(d, q)
           IN IsDb(e) /\ Tree(e) /\ LogSettled(e) /\ TreeGrows(d, e) /\ e.buffer = d.buffer
<1> DEFINE e == SplitStep(d, q)
<1>1. IsDb(e) /\ e.buffer = d.buffer
  BY SplitStepGrows DEF Grows, SameEvidence
<1>2. CASE ~HasRow(d, q) \/ ~IsLeaf(d, q) \/ Len(q) + 1 >= MaxTreeDepth
  BY <1>2 DEF SplitStep, TreeGrows
<1>3. CASE ~(~HasRow(d, q) \/ ~IsLeaf(d, q) \/ Len(q) + 1 >= MaxTreeDepth)
  <2> HIDE DEF e
  <2>1. PICK m \in Nat : d.ids = 0..m
    BY DEF Tree
  <2>2. PICK p0 : IsChild(p0, q, 0)
    BY DEF IsChild
  <2>3. PICK p1 : IsChild(p1, q, 1)
    BY DEF IsChild
  <2>4. Len(q) + 1 < MaxTreeDepth
    BY <1>3, PathShape, LectAssumption
  <2>5. HasRow(d, q) /\ IsLeaf(d, q)
    BY <1>3
  <2>6. PICK id : id = IdOf(d, q)
    OBVIOUS
  <2>7. PICK t : t = SplitEntry(id, m)
    OBVIOUS
  <2>8. PICK f : f = e
    OBVIOUS
  <2>9. /\ IsSplitOf(f, d, q, p0, p1, id, m) /\ id \in 0..m
        /\ f.log = IF d.bulk THEN d.log ELSE Append(d.log, t)
    BY <2>1, <2>2, <2>3, <2>4, <2>5, <2>6, <2>7, <2>8, SplitStepShape DEF e
  <2>10. Tree(f) /\ TreeGrows(d, f)
    BY <2>1, <2>2, <2>3, <2>4, <2>5, <2>6, <2>9, SplitOfTree
  <2>11. Settled(t, f)
    <3>1. t.type = "split" /\ t.node = id /\ t.left = m + 1 /\ t.right = m + 2
      BY <2>7 DEF SplitEntry
    <3>2. /\ t.node \in DOMAIN f.rows /\ f.rows[t.node].left = t.left
          /\ t.left \in DOMAIN f.rows /\ t.right \in DOMAIN f.rows
      BY <2>9, <3>1 DEF IsSplitOf
    <3> QED
      BY <3>1, <3>2 DEF Settled
  <2>12. Range(f.log) \subseteq Range(d.log) \cup {t}
    <3>1. IsSeq(d.log)
      BY DEF IsDb
    <3>2. Range(Append(d.log, t)) = Range(d.log) \cup {t}
      BY <3>1, SeqAppend
    <3> QED
      BY <2>9, <3>2
  <2>13. LogSettled(f)
    BY <2>10, <2>11, <2>12, SettledStays DEF LogSettled
  <2> QED
    BY <1>1, <2>8, <2>10, <2>13 DEF e
<1> QED
  BY <1>1, <1>2, <1>3

\* Nor does split_to_box, whatever the length of the way it splits.
LEMMA SplitAlongTree ==
    ASSUME NEW d, IsDb(d), Tree(d), LogSettled(d), NEW p \in Paths
    PROVE  LET e == SplitAlong(d, p)
           IN IsDb(e) /\ Tree(e) /\ LogSettled(e) /\ TreeGrows(d, e) /\ e.buffer = d.buffer
<1> DEFINE after == CHOOSE g : g = SplitSteps(d, p, Len(p), g)
<1>1. Len(p) \in Nat
  BY PathShape
<1>2. after = SplitSteps(d, p, Len(p), after)
  <2>1. \E g : g = SplitSteps(d, p, Len(p), g)
    BY <1>1, SplitStepsExist
  <2> QED
    BY <2>1
<1>3. SplitAlong(d, p) = after[Len(p)]
  BY DEF SplitAlong, SplitSteps
<1> HIDE DEF after
<1>4. \A k \in 0..Len(p) : after[k] = IF k = 0 THEN d
                                      ELSE SplitStep(after[k - 1], SubSeq(p, 1, k - 1))
  BY <1>2 DEF SplitSteps
<1> DEFINE Ok(e) == /\ IsDb(e) /\ Tree(e) /\ LogSettled(e) /\ TreeGrows(d, e)
                    /\ e.buffer = d.buffer
           T == {k \in 0..Len(p) : Ok(after[k])}
<1>5. 0 \in T
  <2>1. after[0] = d
    BY <1>1, <1>4
  <2>2. Ok(d)
    BY DEF TreeGrows
  <2> QED
    BY <1>1, <2>1, <2>2
<1>6. ASSUME NEW k \in 1..Len(p), k - 1 \in T PROVE k \in T
  <2>1. Ok(after[k - 1]) /\ k - 1 \in 0..Len(p)
    BY <1>6
  <2> DEFINE q == SubSeq(p, 1, k - 1)
  <2>2. after[k] = SplitStep(after[k - 1], q)
    BY <1>1, <1>4
  <2>3. q \in Paths
    BY <2>1, PathPrefix
  <2> HIDE DEF q
  <2>4. /\ IsDb(after[k]) /\ Tree(after[k]) /\ LogSettled(after[k])
        /\ TreeGrows(after[k - 1], after[k]) /\ after[k].buffer = after[k - 1].buffer
    BY <2>1, <2>2, <2>3, SplitStepTree
  <2>5. TreeGrows(d, after[k])
    BY <2>1, <2>4, TreeGrowsTransitive
  <2> QED
    BY <1>1, <2>1, <2>4, <2>5
<1>7. Len(p) \in T
  <2> HIDE DEF T
  <2>1. \A k \in 0..Len(p) : k \in T
    BY <1>1, <1>5, <1>6, UpTo
  <2> QED
    BY <1>1, <2>1
<1> QED
  BY <1>3, <1>7

-----------------------------------------------------------------------------
(* What calls do that changes no node. *)

Quiet(d, e) ==
    /\ IsDb(e) /\ SameNodes(d, e) /\ e.dirty = d.dirty /\ e.log = d.log
    /\ RecordsKnown(d) => RecordsKnown(e)

\* Twice quiet is quiet.
LEMMA QuietTransitive ==
    ASSUME NEW d, NEW e, NEW f, Quiet(d, e), Quiet(e, f)
    PROVE  Quiet(d, f)
BY DEF Quiet, SameNodes

\* A change of one of the other fields is quiet.
LEMMA QuietField ==
    ASSUME NEW d, IsDb(d), NEW v, NEW e,
           \/ e = [d EXCEPT !.pending = v] \/ e = [d EXCEPT !.appends = v]
           \/ e = [d EXCEPT !.bulk = v] \/ e = [d EXCEPT !.resident = v]
           \/ e = [d EXCEPT !.sidecarDirty = v]
    PROVE  Quiet(d, e)
<1>1. e = [ids |-> d.ids, paths |-> d.paths, rows |-> d.rows, dirty |-> d.dirty,
           resident |-> e.resident, index |-> d.index, buffer |-> d.buffer,
           sidecarDirty |-> e.sidecarDirty, pending |-> e.pending, appends |-> e.appends,
           bulk |-> e.bulk, log |-> d.log]
  BY DEF IsDb
<1> QED
  BY <1>1 DEF IsDb, Quiet, SameNodes, RecordsKnown, Known

\* So is saving the pages when none is dirty.
LEMMA QuietPages ==
    ASSUME NEW d, IsDb(d), d.dirty = {}
    PROVE  Quiet(d, PagesSaved(d))
<1> DEFINE e == PagesSaved(d)
<1>1. e = [ids |-> d.ids, paths |-> d.paths, rows |-> d.rows, dirty |-> {},
           resident |-> d.resident, index |-> d.index, buffer |-> d.buffer,
           sidecarDirty |-> d.sidecarDirty, pending |-> d.pending, appends |-> d.appends,
           bulk |-> d.bulk, log |-> d.log]
  BY DEF IsDb, PagesSaved
<1> HIDE DEF e
<1>2. Quiet(d, e)
  BY <1>1, FS_EmptySet DEF IsDb, Quiet, SameNodes, RecordsKnown, Known
<1> QED
  BY <1>2 DEF e

\* And so is a record of a node that is known (database.cpp:2318-2440).
LEMMA QuietRecord ==
    ASSUME NEW d, IsDb(d), NEW p, Known(d, p), NEW v
    PROVE  Quiet(d, AppendRecord(d, p, v))
<1> DEFINE r == Record(p, v)
           entry == [pos |-> Len(StoreOf(d)) + 1, gone |-> v = None]
           e == AppendRecord(d, p, v)
           more == Append(d.buffer, r)
<1>1. IsSeq(d.buffer) /\ IsSeq(more) /\ Range(more) = Range(d.buffer) \cup {r}
  BY SeqAppend DEF IsDb
<1>2. e = [d EXCEPT !.buffer = more, !.index = Put(@, p, entry),
                    !.appends = @ + 1, !.sidecarDirty = TRUE]
  BY DEF AppendRecord, IsDb
<1>3. r.path = p
  BY DEF Record
<1> HIDE DEF entry, r, more
<1>4. e = [ids |-> d.ids, paths |-> d.paths, rows |-> d.rows, dirty |-> d.dirty,
           resident |-> d.resident, index |-> Put(d.index, p, entry),
           buffer |-> more, sidecarDirty |-> TRUE, pending |-> d.pending,
           appends |-> d.appends + 1, bulk |-> d.bulk, log |-> d.log]
  BY <1>2 DEF IsDb
<1> HIDE DEF e
<1>5. IsDb(e) /\ SameNodes(d, e) /\ e.dirty = d.dirty /\ e.log = d.log /\ e.buffer = more
  BY <1>1, <1>4 DEF IsDb, SameNodes
<1>6. ASSUME RecordsKnown(d) PROVE RecordsKnown(e)
  <2>1. \A x \in Range(more) : Known(d, x.path)
    BY <1>1, <1>3, <1>6 DEF RecordsKnown
  <2> QED
    BY <1>5, <2>1 DEF RecordsKnown, Known, SameNodes
<1>7. Quiet(d, e)
  BY <1>5, <1>6 DEF Quiet
<1> QED
  BY <1>7 DEF e

\* The incremental flush and the trim are quiet too.
LEMMA QuietFlush ==
    ASSUME NEW d, IsDb(d), d.dirty = {}
    PROVE  Quiet(d, EvidenceSaved(d)) /\ Quiet(d, MaybeFlushed(d)) /\ Quiet(d, Trimmed(d))
<1>1. Quiet(d, d)
  BY DEF Quiet, SameNodes
<1>2. PICK e : e = EvidenceSaved(d)
  OBVIOUS
<1>3. Quiet(d, e)
  BY <1>2, QuietField DEF EvidenceSaved
<1>4. IsDb(e) /\ e.dirty = {}
  BY <1>3 DEF Quiet
<1>5. PICK f : f = PagesSaved(e)
  OBVIOUS
<1>6. Quiet(d, f)
  BY <1>3, <1>4, <1>5, QuietPages, QuietTransitive
<1>7. PICK g : g = [f EXCEPT !.appends = 0]
  OBVIOUS
<1>8. Quiet(f, g)
  BY <1>6, <1>7, QuietField DEF Quiet
<1>9. Quiet(d, g)
  BY <1>6, <1>8, QuietTransitive
<1>10. MaybeFlushed(d) = IF FlushDue(d) THEN g ELSE d
  BY <1>2, <1>5, <1>7 DEF MaybeFlushed
<1>11. PICK h : h = [e EXCEPT !.resident = Without(@, DOMAIN d.index)]
  OBVIOUS
<1>12. e.index = d.index
  <2>1. e = [d EXCEPT !.sidecarDirty = FALSE]
    BY <1>2 DEF EvidenceSaved
  <2> QED
    BY <2>1 DEF IsDb
<1>13. Quiet(e, h)
  <2>1. PICK v : v = Without(e.resident, DOMAIN d.index)
    OBVIOUS
  <2>2. h = [e EXCEPT !.resident = v]
    BY <1>11, <2>1
  <2> QED
    BY <1>4, <2>2, QuietField
<1>14. Quiet(d, h)
  BY <1>3, <1>13, QuietTransitive
<1>15. Trimmed(d) = IF TrimDue(d) THEN h ELSE d
  BY <1>2, <1>11, <1>12 DEF Trimmed
<1> QED
  BY <1>1, <1>2, <1>3, <1>9, <1>10, <1>14, <1>15

\* Replaying a transaction that is in the rows changes no node
\* (database.cpp:3491-3591).
LEMMA QuietReplay ==
    ASSUME NEW d0, IsDb(d0), NEW t, Settled(t, d0)
    PROVE  Quiet(d0, ReplayStep(d0, t))
<1>1. PICK d : d = [d0 EXCEPT !.pending = TRUE]
  OBVIOUS
<1>2. Quiet(d0, d)
  BY <1>1, QuietField
<1>3. IsDb(d) /\ Settled(t, d)
  BY <1>2, SameNodesSame DEF Quiet
<1>4. CASE t.type = "split"
  <2>1. ReplayStep(d0, t) = d
    BY <1>1, <1>3, <1>4 DEF ReplayStep, Settled
  <2> QED
    BY <1>2, <2>1
<1>5. CASE t.type # "split"
  <2>1. CASE ~Known(d, t.path)
    <3>1. ReplayStep(d0, t) = d
      BY <1>1, <1>5, <2>1 DEF ReplayStep
    <3> QED
      BY <1>2, <3>1
  <2>2. CASE Known(d, t.path)
    <3>1. PICK f : f = [d EXCEPT !.resident = Put(@, t.path, t.val)]
      OBVIOUS
    <3>2. Quiet(d, f)
      <4>1. PICK v : v = Put(d.resident, t.path, t.val)
        OBVIOUS
      <4>2. f = [d EXCEPT !.resident = v]
        BY <3>1, <4>1
      <4> QED
        BY <1>3, <4>2, QuietField
    <3>3. IsDb(f) /\ Known(f, t.path)
      BY <2>2, <3>2, SameNodesSame DEF Quiet
    <3>4. ReplayStep(d0, t) = AppendRecord(f, t.path, t.val)
      BY <1>1, <1>5, <2>2, <3>1 DEF ReplayStep
    <3>5. Quiet(f, ReplayStep(d0, t))
      BY <3>3, <3>4, QuietRecord
    <3> QED
      BY <1>2, <3>2, <3>5, QuietTransitive
  <2> QED
    BY <2>1, <2>2
<1> QED
  BY <1>4, <1>5

\* Nor does replaying a whole journal of such transactions.
LEMMA QuietReplayed ==
    ASSUME IsSeq(journal), IsDb(Loaded), \A t \in Range(journal) : Settled(t, Loaded)
    PROVE  Quiet(Loaded, Replayed(journal))
<1> DEFINE n == Len(journal)
           after == CHOOSE g : g = ReplaySteps(journal, n, g)
<1>1. n \in Nat /\ \A k \in 1..n : journal[k] \in Range(journal)
  BY SeqShape
<1>2. after = ReplaySteps(journal, n, after)
  <2>1. \E g : g = ReplaySteps(journal, n, g)
    BY <1>1, ReplayStepsExist
  <2> QED
    BY <2>1
<1>3. Replayed(journal) = after[n]
  BY DEF Replayed, ReplaySteps
<1> HIDE DEF after
<1>4. \A k \in 0..n : after[k] = IF k = 0 THEN Loaded ELSE ReplayStep(after[k - 1], journal[k])
  BY <1>2 DEF ReplaySteps
<1> DEFINE T == {k \in 0..n : Quiet(Loaded, after[k])}
<1>5. 0 \in T
  <2>1. after[0] = Loaded
    BY <1>1, <1>4
  <2>2. Quiet(Loaded, Loaded)
    BY DEF Quiet, SameNodes
  <2> QED
    BY <1>1, <2>1, <2>2
<1>6. ASSUME NEW k \in 1..n, k - 1 \in T PROVE k \in T
  <2>1. Quiet(Loaded, after[k - 1])
    BY <1>6
  <2>2. after[k] = ReplayStep(after[k - 1], journal[k])
    BY <1>1, <1>4
  <2>3. IsDb(after[k - 1]) /\ Settled(journal[k], after[k - 1])
    <3>1. SameNodes(Loaded, after[k - 1]) /\ IsDb(after[k - 1])
      BY <2>1 DEF Quiet
    <3>2. Settled(journal[k], Loaded)
      BY <1>1
    <3> QED
      BY <3>1, <3>2, SameNodesSame
  <2>4. Quiet(after[k - 1], after[k])
    BY <2>2, <2>3, QuietReplay
  <2> QED
    BY <1>1, <2>1, <2>4, QuietTransitive
<1>7. n \in T
  <2> HIDE DEF T, n
  <2>1. \A k \in 0..n : k \in T
    BY <1>1, <1>5, <1>6, UpTo
  <2> QED
    BY <1>1, <2>1
<1> QED
  BY <1>3, <1>7

-----------------------------------------------------------------------------
(* The changes a call has still to make: the manifest is not only removed, *)
(* and the journal gets splits that are in the rows.                       *)

RenamesManifest(s) == \E k \in 1..Len(s) : IsRename(s[k], "manifest")
TodoSafe(s, d) ==
    /\ IsSeq(s)
    /\ \A k \in 1..Len(s) : s[k].file = "manifest" /\ s[k].act = "remove" =>
          \E j \in (k + 1)..Len(s) : IsRename(s[j], "manifest")
    /\ \A k \in 1..Len(s) : s[k].file = "journal" /\ s[k].act = "append" => Settled(s[k].content, d)

\* Changes of other files.
LEMMA OtherFilesSafe ==
    ASSUME NEW s, IsSeq(s), NEW d,
           \A c \in Range(s) : c.file # "manifest" /\ ~(c.file = "journal" /\ c.act = "append")
    PROVE  TodoSafe(s, d)
BY SeqShape DEF TodoSafe

\* One safe sequence after another is safe.
LEMMA TodoConcat ==
    ASSUME NEW s, NEW t, NEW d, TodoSafe(s, d), TodoSafe(t, d)
    PROVE  TodoSafe(s \o t, d)
<1> DEFINE u == s \o t
<1>1. IsSeq(s) /\ IsSeq(t) /\ Len(s) \in Nat /\ Len(t) \in Nat
  BY SeqShape DEF TodoSafe
<1>2. /\ IsSeq(u) /\ Len(u) = Len(s) + Len(t)
      /\ \A i \in 1..Len(s) : u[i] = s[i]
      /\ \A i \in 1..Len(t) : u[Len(s) + i] = t[i]
  BY <1>1, SeqConcat
<1> HIDE DEF u
<1>3. \A k \in 1..Len(u) : k \in 1..Len(s) \/ \E i \in 1..Len(t) : k = Len(s) + i
  <2> SUFFICES ASSUME NEW k \in 1..Len(u), ~(k \in 1..Len(s))
               PROVE  \E i \in 1..Len(t) : k = Len(s) + i
    OBVIOUS
  <2>1. k - Len(s) \in 1..Len(t) /\ k = Len(s) + (k - Len(s))
    BY <1>1, <1>2
  <2> QED
    BY <2>1
<1>4. ASSUME NEW k \in 1..Len(u), u[k].file = "manifest", u[k].act = "remove"
      PROVE  \E j \in (k + 1)..Len(u) : IsRename(u[j], "manifest")
  <2>1. CASE k \in 1..Len(s)
    <3>1. PICK j \in (k + 1)..Len(s) : IsRename(s[j], "manifest")
      BY <1>2, <1>4, <2>1 DEF TodoSafe
    <3>2. j \in (k + 1)..Len(u) /\ u[j] = s[j]
      BY <1>1, <1>2, <2>1
    <3> QED
      BY <3>1, <3>2
  <2>2. ASSUME NEW i \in 1..Len(t), k = Len(s) + i
        PROVE  \E j \in (k + 1)..Len(u) : IsRename(u[j], "manifest")
    <3>1. PICK j \in (i + 1)..Len(t) : IsRename(t[j], "manifest")
      BY <1>2, <1>4, <2>2 DEF TodoSafe
    <3>2. Len(s) + j \in (k + 1)..Len(u) /\ j \in 1..Len(t)
      BY <1>1, <1>2, <2>2
    <3>3. u[Len(s) + j] = t[j]
      BY <1>2, <3>2
    <3> QED
      BY <3>1, <3>2, <3>3
  <2> QED
    BY <1>3, <2>1, <2>2
<1>5. ASSUME NEW k \in 1..Len(u), u[k].file = "journal", u[k].act = "append"
      PROVE  Settled(u[k].content, d)
  <2>1. CASE k \in 1..Len(s)
    BY <1>2, <1>5, <2>1 DEF TodoSafe
  <2>2. ASSUME NEW i \in 1..Len(t), k = Len(s) + i PROVE Settled(u[k].content, d)
    BY <1>2, <1>5, <2>2 DEF TodoSafe
  <2> QED
    BY <1>3, <2>1, <2>2
<1> QED
  BY <1>2, <1>4, <1>5 DEF TodoSafe, u

\* So is what is left of one.
LEMMA TodoTail ==
    ASSUME NEW s, NEW d, TodoSafe(s, d), s # <<>>
    PROVE  /\ TodoSafe(Tail(s), d)
           /\ Head(s).file = "manifest" /\ Head(s).act = "remove" => RenamesManifest(Tail(s))
           /\ RenamesManifest(s) => IsRename(Head(s), "manifest") \/ RenamesManifest(Tail(s))
           /\ Head(s).file = "journal" /\ Head(s).act = "append" => Settled(Head(s).content, d)
<1> DEFINE u == Tail(s)
<1>1. /\ IsSeq(u) /\ Head(s) = s[1] /\ Len(s) \in Nat \ {0} /\ Len(u) = Len(s) - 1
      /\ \A i \in 1..Len(u) : u[i] = s[i + 1]
  BY SeqTail DEF TodoSafe
<1> HIDE DEF u
<1>2. ASSUME NEW k \in 2..Len(s), IsRename(s[k], "manifest")
      PROVE  k - 1 \in 1..Len(u) /\ IsRename(u[k - 1], "manifest")
  <2>1. k - 1 \in 1..Len(u) /\ (k - 1) + 1 = k
    BY <1>1
  <2> QED
    BY <1>1, <1>2, <2>1
<1>3. ASSUME NEW k \in 1..Len(u), u[k].file = "manifest", u[k].act = "remove"
      PROVE  \E j \in (k + 1)..Len(u) : IsRename(u[j], "manifest")
  <2>1. k + 1 \in 1..Len(s) /\ s[k + 1] = u[k]
    BY <1>1
  <2>2. PICK j \in (k + 2)..Len(s) : IsRename(s[j], "manifest")
    BY <1>3, <2>1 DEF TodoSafe
  <2>3. j \in 2..Len(s) /\ j - 1 \in (k + 1)..Len(u)
    BY <1>1, <2>1
  <2>4. IsRename(u[j - 1], "manifest")
    BY <1>2, <2>2, <2>3
  <2> QED
    BY <2>3, <2>4
<1>4. ASSUME NEW k \in 1..Len(u), u[k].file = "journal", u[k].act = "append"
      PROVE  Settled(u[k].content, d)
  <2>1. k + 1 \in 1..Len(s) /\ s[k + 1] = u[k]
    BY <1>1
  <2> QED
    BY <1>4, <2>1 DEF TodoSafe
<1>5. TodoSafe(u, d)
  BY <1>1, <1>3, <1>4 DEF TodoSafe
<1>6. ASSUME Head(s).file = "manifest", Head(s).act = "remove" PROVE RenamesManifest(u)
  <2>1. PICK j \in 2..Len(s) : IsRename(s[j], "manifest")
    BY <1>1, <1>6 DEF TodoSafe
  <2> QED
    BY <1>2, <2>1 DEF RenamesManifest
<1>7. ASSUME RenamesManifest(s) PROVE IsRename(Head(s), "manifest") \/ RenamesManifest(u)
  <2>1. PICK j \in 1..Len(s) : IsRename(s[j], "manifest")
    BY <1>7 DEF RenamesManifest
  <2>2. j = 1 \/ j \in 2..Len(s)
    BY <1>1
  <2> QED
    BY <1>1, <1>2, <2>1, <2>2 DEF RenamesManifest
<1>8. Head(s).file = "journal" /\ Head(s).act = "append" => Settled(Head(s).content, d)
  BY <1>1 DEF TodoSafe
<1> QED
  BY <1>5, <1>6, <1>7, <1>8 DEF u

\* The pieces calls are made of.
LEMMA SafePieces ==
    ASSUME NEW d
    PROVE  /\ TodoSafe(<<>>, d) /\ TodoSafe(ManifestWrites, d) /\ TodoSafe(FlushStore, d)
           /\ TodoSafe(TruncateJournal, d)
           /\ \A e : TodoSafe(ReturnNodes(e), d) /\ TodoSafe(SidecarWrites(e), d)
           /\ \A p, v : TodoSafe(ReturnValue(p, v), d)
           /\ \A e, order : IsSeq(order) => TodoSafe(PageWrites(e, order), d)
           /\ \A log : IsSeq(log) /\ (\A t \in Range(log) : Settled(t, d))
                          => TodoSafe(JournalWrites(log), d)
<1>1. TodoSafe(<<>>, d)
  BY SeqEmpty, OtherFilesSafe
<1>2. TodoSafe(ManifestWrites, d)
  <2> DEFINE s == ManifestWrites
  <2>1. s = <<Change("manifest", "remove", 0, 0), Change("manifest", "rename", 0, 0)>>
    BY DEF ManifestWrites, Replace
  <2>2. /\ IsSeq(s) /\ Len(s) = 2
        /\ s[1] = Change("manifest", "remove", 0, 0) /\ s[2] = Change("manifest", "rename", 0, 0)
    BY <2>1, SeqPair
  <2> HIDE DEF s
  <2>3. \A k \in 1..2 : s[k].file = "manifest" /\ (s[k].act = "remove" => k = 1)
    BY <2>2 DEF Change
  <2>4. IsRename(s[2], "manifest")
    BY <2>2 DEF Change, IsRename
  <2>5. TodoSafe(s, d)
    BY <2>2, <2>3, <2>4 DEF TodoSafe
  <2> QED
    BY <2>5 DEF s
<1>3. TodoSafe(FlushStore, d) /\ TodoSafe(TruncateJournal, d)
  BY SeqSingle, OtherFilesSafe DEF FlushStore, TruncateJournal, Change
<1>4. ASSUME NEW e PROVE TodoSafe(ReturnNodes(e), d) /\ TodoSafe(SidecarWrites(e), d)
  <2>1. TodoSafe(ReturnNodes(e), d)
    BY SeqSingle, OtherFilesSafe DEF ReturnNodes, Change
  <2>2. \A c : TodoSafe(Replace("sidecar", 0, c), d)
    BY SeqPair, OtherFilesSafe DEF Replace, Change
  <2> QED
    BY <1>1, <2>1, <2>2 DEF SidecarWrites
<1>5. ASSUME NEW p, NEW v PROVE TodoSafe(ReturnValue(p, v), d)
  BY SeqSingle, OtherFilesSafe DEF ReturnValue, Change
<1>6. ASSUME NEW e, NEW order, IsSeq(order) PROVE TodoSafe(PageWrites(e, order), d)
  <2> DEFINE s == PageWrites(e, order)
             n == 2 * Len(order)
  <2>1. Len(order) \in Nat
    BY <1>6, SeqShape
  <2>2. n \in Nat
    BY <2>1
  <2>3. s = [k \in 1..n |-> LET q == order[(k + 1) \div 2]
               IN Change("page", IF k % 2 = 1 THEN "remove" ELSE "rename", q, RowsOnPage(e, q))]
    BY DEF PageWrites
  <2>4. \A k \in 1..n : s[k].file = "page"
    BY <2>3 DEF Change
  <2>5. s = [k \in 1..n |-> s[k]]
    BY <2>3
  <2> HIDE DEF s, n
  <2>6. IsSeq(s) /\ Range(s) = {s[k] : k \in 1..n}
    BY <2>2, <2>5, SeqFunction
  <2>7. TodoSafe(s, d)
    BY <2>4, <2>6, OtherFilesSafe
  <2> QED
    BY <2>7 DEF s
<1>7. ASSUME NEW log, IsSeq(log), \A t \in Range(log) : Settled(t, d)
      PROVE  TodoSafe(JournalWrites(log), d)
  <2> DEFINE s == JournalWrites(log)
             n == Len(log)
  <2>1. n \in Nat /\ DOMAIN log = 1..n /\ \A k \in 1..n : log[k] \in Range(log)
    BY <1>7, SeqShape
  <2>2. s = [k \in 1..n |-> Change("journal", "append", 0, log[k])]
    BY <2>1 DEF JournalWrites
  <2>3. \A k \in 1..n : s[k].file = "journal" /\ s[k].content = log[k]
    BY <2>2 DEF Change
  <2>4. s = [k \in 1..n |-> s[k]]
    BY <2>2
  <2> HIDE DEF s, n
  <2>5. IsSeq(s) /\ Len(s) = n
    BY <2>1, <2>4, SeqFunction
  <2>6. TodoSafe(s, d)
    BY <1>7, <2>1, <2>3, <2>5 DEF TodoSafe
  <2> QED
    BY <2>6 DEF s
<1> QED
  BY <1>1, <1>2, <1>3, <1>4, <1>5, <1>6, <1>7

\* So are the composed ones.
LEMMA SafeComposed ==
    ASSUME NEW d, NEW e
    PROVE  /\ TodoSafe(SaveEvidence(e), d) /\ TodoSafe(Trim(e), d)
           /\ \A order : IsSeq(order) => TodoSafe(MaybeFlush(e, order), d)
<1>1. TodoSafe(<<>>, d) /\ TodoSafe(ManifestWrites, d) /\ TodoSafe(FlushStore, d)
      /\ TodoSafe(SidecarWrites(e), d)
  BY SafePieces
<1>2. TodoSafe(SaveEvidence(e), d)
  BY <1>1, TodoConcat DEF SaveEvidence
<1>3. TodoSafe(Trim(e), d)
  BY <1>1, <1>2 DEF Trim
<1>4. ASSUME NEW order, IsSeq(order) PROVE TodoSafe(MaybeFlush(e, order), d)
  <2>1. TodoSafe(PageWrites(e, order), d)
    BY <1>4, SafePieces
  <2>2. TodoSafe(SaveEvidence(e) \o PageWrites(e, order), d)
    BY <1>2, <2>1, TodoConcat
  <2>3. TodoSafe(SaveEvidence(e) \o PageWrites(e, order) \o ManifestWrites, d)
    BY <1>1, <2>2, TodoConcat
  <2> QED
    BY <1>1, <2>3 DEF MaybeFlush
<1> QED
  BY <1>2, <1>3, <1>4

-----------------------------------------------------------------------------
(* The invariant. *)

\* The files hold the nodes of d, and a journal and records that are about them.
Directory(d) ==
    /\ Tree(d) /\ d.dirty = {} /\ LogSettled(d) /\ RecordsKnown(d)
    /\ \A q \in DOMAIN pages : DOMAIN pages[q] \subseteq DOMAIN d.rows
    /\ \A t \in Range(journal) : Settled(t, d)
    /\ \A r \in Range(store) : Known(d, r.path)

\* While the database is open they do so for the object, once the changes that
\* are left are made; while it is closed, for what load_nodes would make of them.
Reopenable ==
    /\ ~torn /\ tmps = Empty
    /\ \/ /\ status = "open" /\ Directory(db) /\ TodoSafe(todo, db)
          /\ manifest \/ RenamesManifest(todo)
       \/ /\ status = "closed" /\ todo = <<>> /\ manifest /\ Directory(Loaded)

ReopenInv == "unsaved" \notin risks => Reopenable

\* What every call has to show.
LEMMA CallReopens ==
    ASSUME Reopenable, status = "open", todo = <<>>, UNCHANGED files, status' = "open",
           Tree(db'), db'.dirty = {}, LogSettled(db'), RecordsKnown(db'), TreeGrows(db, db'),
           TodoSafe(todo', db')
    PROVE  Reopenable'
<1>1. ~torn /\ tmps = Empty /\ Directory(db) /\ (manifest \/ RenamesManifest(todo))
  BY DEF Reopenable
<1>2. manifest
  <2>1. ~RenamesManifest(<<>>)
    BY SeqEmpty DEF RenamesManifest
  <2> QED
    BY <1>1, <2>1
<1>3. /\ pages' = pages /\ journal' = journal /\ store' = store /\ manifest' = manifest
      /\ torn' = torn /\ tmps' = tmps
  BY DEF files
<1>4. \A q \in DOMAIN pages : DOMAIN pages[q] \subseteq DOMAIN db'.rows
  BY <1>1 DEF Directory, TreeGrows
<1>5. \A t \in Range(journal) : Settled(t, db')
  BY <1>1, SettledStays DEF Directory
<1>6. \A r \in Range(store) : Known(db', r.path)
  BY <1>1 DEF Directory, TreeGrows, Known
<1>7. Directory(db)'
  BY <1>3, <1>4, <1>5, <1>6 DEF Directory
<1>8. manifest' \/ RenamesManifest(todo')
  BY <1>2, <1>3
<1> QED
  BY <1>1, <1>3, <1>7, <1>8 DEF Reopenable, Empty

\* ... and what one that touches no node has.
LEMMA QuietCallReopens ==
    ASSUME Reopenable, status = "open", todo = <<>>, UNCHANGED files, status' = "open",
           Quiet(db, db'), TodoSafe(todo', db')
    PROVE  Reopenable'
<1>1. Directory(db)
  BY DEF Reopenable
<1>2. SameNodes(db, db') /\ db'.dirty = db.dirty /\ db'.log = db.log /\ RecordsKnown(db')
  BY <1>1 DEF Quiet, Directory
<1>3. Tree(db') /\ LogSettled(db')
  BY <1>1, <1>2, SameNodesSame DEF Directory, LogSettled
<1>4. TreeGrows(db, db')
  BY <1>2 DEF TreeGrows, SameNodes
<1>5. db'.dirty = {}
  BY <1>1, <1>2 DEF Directory
<1> QED
  BY <1>2, <1>3, <1>4, <1>5, CallReopens

-----------------------------------------------------------------------------
(* Every call keeps the database one that can be opened. *)

\* split_to_box, when it gets to its box, writes the pages of what it split
\* (database.cpp:1612-1678).
LEMMA SplitToBoxReopens ==
    ASSUME DurabilityInv, Reopenable, NEW p \in Paths, NEW exact \in BOOLEAN, SplitToBox(p, exact),
           "unsaved" \notin risks'
    PROVE  Reopenable'
<1> DEFINE d == SplitAlong(db, p)
           flush == exact /\ \A k \in 0..(Len(p) - 1) : HasRow(d, SubSeq(p, 1, k))
           e == PagesSaved(d)
<1>1. PICK order \in Orders(IF flush THEN d.dirty ELSE {}) :
            /\ db' = [IF flush THEN PagesSaved(d) ELSE d EXCEPT !.log = <<>>]
            /\ risks' = risks \cup (IF flush THEN {} ELSE {"unsaved"})
            /\ todo' = JournalWrites(d.log)
                     \o (IF flush THEN PageWrites(d, order) \o ManifestWrites ELSE <<>>)
                     \o ReturnNodes(d)
  BY Zenon DEF SplitToBox
<1>2. status = "open" /\ status' = "open" /\ todo = <<>> /\ UNCHANGED files
  BY DEF SplitToBox, Ready
<1>3. Directory(db) /\ IsDb(db)
  BY <1>2 DEF Reopenable, DurabilityInv
<1>4. /\ IsDb(d) /\ Tree(d) /\ LogSettled(d) /\ TreeGrows(db, d) /\ d.buffer = db.buffer
  BY <1>3, SplitAlongTree DEF Directory
<1> HIDE DEF d
<1>5. flush
  BY <1>1
<1> HIDE DEF flush
<1>6. IsSeq(order)
  BY <1>1, <1>4, <1>5, OrdersSeq DEF IsDb
<1>7. e = [ids |-> d.ids, paths |-> d.paths, rows |-> d.rows, dirty |-> {},
           resident |-> d.resident, index |-> d.index, buffer |-> d.buffer,
           sidecarDirty |-> d.sidecarDirty, pending |-> d.pending, appends |-> d.appends,
           bulk |-> d.bulk, log |-> d.log]
  BY <1>4 DEF PagesSaved, IsDb
<1>8. db' = [e EXCEPT !.log = <<>>]
  BY <1>1, <1>5
<1> HIDE DEF e
<1>9. db' = [ids |-> d.ids, paths |-> d.paths, rows |-> d.rows, dirty |-> {},
           resident |-> d.resident, index |-> d.index, buffer |-> d.buffer,
           sidecarDirty |-> d.sidecarDirty, pending |-> d.pending, appends |-> d.appends,
           bulk |-> d.bulk, log |-> <<>>]
  BY <1>7, <1>8
<1>10. SameNodes(d, db') /\ db'.dirty = {} /\ db'.log = <<>> /\ db'.buffer = db.buffer
  BY <1>4, <1>9 DEF SameNodes
<1>11. Tree(db') /\ LogSettled(db')
  BY <1>4, <1>10, SameNodesSame, SeqEmpty DEF LogSettled
<1>12. TreeGrows(db, db')
  BY <1>4, <1>10 DEF TreeGrows, SameNodes
<1>13. RecordsKnown(db')
  BY <1>3, <1>10, <1>12 DEF RecordsKnown, Directory, TreeGrows, Known
<1> DEFINE s1 == JournalWrites(d.log)
           s2 == PageWrites(d, order)
           s3 == s2 \o ManifestWrites
           s4 == s1 \o s3
<1>14. todo' = s4 \o ReturnNodes(d)
  BY <1>1, <1>5
<1>15. TodoSafe(s1, db')
  <2>1. \A t \in Range(d.log) : Settled(t, db')
    BY <1>4, <1>10, SameNodesSame DEF LogSettled
  <2>2. IsSeq(d.log)
    BY <1>4 DEF IsDb
  <2> QED
    BY <2>1, <2>2, SafePieces
<1>16. TodoSafe(s2, db') /\ TodoSafe(ManifestWrites, db') /\ TodoSafe(ReturnNodes(d), db')
  BY <1>6, SafePieces
<1> HIDE DEF s1, s2
<1>17. TodoSafe(s3, db')
  BY <1>16, TodoConcat
<1> HIDE DEF s3
<1>18. TodoSafe(s4, db')
  BY <1>15, <1>17, TodoConcat
<1> HIDE DEF s4
<1>19. TodoSafe(todo', db')
  BY <1>14, <1>16, <1>18, TodoConcat
<1> QED
  BY <1>2, <1>10, <1>11, <1>12, <1>13, <1>19, CallReopens

\* The copy of the object put_evidence and delete_node_payloads leave: no node
\* is another one.
LEMMA QuietCopy ==
    ASSUME NEW d, IsDb(d), NEW r, NEW b, NEW p, Known(d, p), NEW v
    PROVE  Quiet(d, AppendRecord([d EXCEPT !.resident = r, !.pending = b], p, v))
<1> DEFINE c == [d EXCEPT !.resident = r]
           e == [c EXCEPT !.pending = b]
<1>1. Quiet(d, c)
  BY QuietField
<1> HIDE DEF c
<1>2. Quiet(c, e)
  BY <1>1, QuietField DEF Quiet
<1> HIDE DEF e
<1>3. Quiet(d, e)
  BY <1>1, <1>2, QuietTransitive
<1>4. IsDb(e) /\ Known(e, p)
  BY <1>3, SameNodesSame DEF Quiet
<1>5. Quiet(e, AppendRecord(e, p, v))
  BY <1>4, QuietRecord
<1>6. Quiet(d, AppendRecord(e, p, v))
  BY <1>3, <1>5, QuietTransitive
<1> QED
  BY <1>6, Zenon DEF c, e

\* put_evidence is about a node there is.
LEMMA PutEvidenceReopens ==
    ASSUME DurabilityInv, Reopenable, NEW p \in Paths, NEW v \in Vals, PutEvidence(p, v)
    PROVE  Reopenable'
<1> DEFINE r == Put(db.resident, p, v)
           d == AppendRecord([db EXCEPT !.resident = r, !.pending = TRUE], p, v)
           log == IF db.bulk THEN <<>> ELSE <<[type |-> "evidence", path |-> p, val |-> v]>>
           d1 == MaybeFlushed(d)
<1>1. PICK order \in Orders(IF FlushDue(d) THEN d.dirty ELSE {}) :
            /\ db' = Trimmed(d1)
            /\ todo' = JournalWrites(log) \o MaybeFlush(d, order) \o Trim(d1) \o ReturnValue(p, {v})
  BY Zenon DEF PutEvidence
<1>2. status = "open" /\ status' = "open" /\ todo = <<>> /\ UNCHANGED files /\ Known(db, p)
  BY DEF PutEvidence, Ready, HasRow
<1>3. IsDb(db) /\ db.dirty = {}
  BY <1>2 DEF Reopenable, Directory, DurabilityInv
<1>4. Quiet(db, d)
  <2> HIDE DEF r
  <2> QED
    BY <1>2, <1>3, QuietCopy, Zenon
<1> HIDE DEF d
<1>5. Quiet(d, d1) /\ IsDb(d) /\ d.dirty = {}
  BY <1>3, <1>4, QuietFlush DEF Quiet
<1>6. Quiet(d1, db')
  BY <1>1, <1>5, QuietFlush DEF Quiet
<1>7. Quiet(db, db')
  BY <1>4, <1>5, <1>6, QuietTransitive
<1>8. IsSeq(order)
  BY <1>1, <1>5, OrdersSeq, FS_EmptySet
<1>9. IsSeq(log) /\ \A t \in Range(log) : Settled(t, db')
  <2>1. IsSeq(log) /\ \A t \in Range(log) : t.type = "evidence"
    BY SeqEmpty, SeqSingle
  <2> QED
    BY <2>1 DEF Settled
<1> HIDE DEF d1, log
<1>10. /\ TodoSafe(JournalWrites(log), db') /\ TodoSafe(MaybeFlush(d, order), db')
       /\ TodoSafe(Trim(d1), db') /\ TodoSafe(ReturnValue(p, {v}), db')
  BY <1>8, <1>9, SafePieces, SafeComposed
<1>11. TodoSafe(JournalWrites(log) \o MaybeFlush(d, order), db')
  BY <1>10, TodoConcat
<1>12. TodoSafe(JournalWrites(log) \o MaybeFlush(d, order) \o Trim(d1), db')
  BY <1>10, <1>11, TodoConcat
<1>13. TodoSafe(todo', db')
  BY <1>1, <1>10, <1>12, TodoConcat
<1> QED
  BY <1>2, <1>7, <1>13, QuietCallReopens

\* So is delete_node_payloads.
LEMMA DeletePayloadReopens ==
    ASSUME DurabilityInv, Reopenable, NEW p \in Paths, DeletePayload(p)
    PROVE  Reopenable'
<1> DEFINE r == Without(db.resident, {p})
           d == AppendRecord([db EXCEPT !.resident = r, !.pending = TRUE], p, None)
<1>1. PICK order \in Orders(IF FlushDue(d) THEN d.dirty ELSE {}) :
            /\ db' = MaybeFlushed(d)
            /\ todo' = MaybeFlush(d, order) \o ReturnValue(p, {None})
  BY Zenon DEF DeletePayload
<1>2. status = "open" /\ status' = "open" /\ todo = <<>> /\ UNCHANGED files /\ Known(db, p)
  BY DEF DeletePayload, Ready
<1>3. IsDb(db) /\ db.dirty = {}
  BY <1>2 DEF Reopenable, Directory, DurabilityInv
<1>4. Quiet(db, d)
  <2> HIDE DEF r
  <2> QED
    BY <1>2, <1>3, QuietCopy, Zenon
<1> HIDE DEF d
<1>5. IsDb(d) /\ d.dirty = {}
  BY <1>3, <1>4 DEF Quiet
<1>6. Quiet(db, db')
  BY <1>1, <1>4, <1>5, QuietFlush, QuietTransitive
<1>7. IsSeq(order)
  BY <1>1, <1>5, OrdersSeq, FS_EmptySet
<1>8. TodoSafe(todo', db')
  BY <1>1, <1>7, SafePieces, SafeComposed, TodoConcat
<1> QED
  BY <1>2, <1>6, <1>8, QuietCallReopens

\* evidence(key) flushes and may trim.
LEMMA ReadEvidenceReopens ==
    ASSUME DurabilityInv, Reopenable, NEW p \in Paths, ReadEvidence(p)
    PROVE  Reopenable'
<1> DEFINE r == Put(db.resident, p, Lookup(db, p))
           d == [db EXCEPT !.resident = r]
           drop == Lookup(db, p) # None
<1>1. /\ db' = IF drop THEN Trimmed(d) ELSE d
      /\ todo' = FlushStore \o (IF drop THEN Trim(d) ELSE <<>>)
      /\ status = "open" /\ status' = "open" /\ todo = <<>> /\ UNCHANGED files
  <2>1. d = [db EXCEPT !.resident = Put(@, p, Lookup(db, p))]
    OBVIOUS
  <2> HIDE DEF d
  <2> QED
    BY <2>1, Zenon DEF ReadEvidence
<1>2. IsDb(db) /\ db.dirty = {}
  BY <1>1 DEF Reopenable, Directory, DurabilityInv
<1>3. Quiet(db, d)
  <2> HIDE DEF r
  <2> QED
    BY <1>2, QuietField
<1> HIDE DEF d, drop
<1>4. IsDb(d) /\ d.dirty = {}
  BY <1>2, <1>3 DEF Quiet
<1>5. Quiet(db, db')
  BY <1>1, <1>3, <1>4, QuietFlush, QuietTransitive
<1>6. TodoSafe(todo', db')
  <2>1. /\ TodoSafe(FlushStore, db') /\ TodoSafe(Trim(d), db') /\ TodoSafe(<<>>, db')
    BY SafePieces, SafeComposed
  <2> QED
    BY <1>1, <2>1, TodoConcat
<1> QED
  BY <1>1, <1>5, <1>6, QuietCallReopens

\* set_bulk_prewarm_mode changes one flag.
LEMMA SetBulkReopens ==
    ASSUME DurabilityInv, Reopenable, NEW on \in BOOLEAN, SetBulk(on)
    PROVE  Reopenable'
<1>1. /\ status = "open" /\ status' = "open" /\ todo = <<>> /\ todo' = <<>> /\ UNCHANGED files
      /\ db' = [db EXCEPT !.bulk = on]
  BY DEF SetBulk
<1>2. IsDb(db)
  BY DEF DurabilityInv
<1>3. Quiet(db, db')
  BY <1>1, <1>2, QuietField
<1>4. TodoSafe(todo', db')
  BY <1>1, SafePieces
<1> QED
  BY <1>1, <1>3, <1>4, QuietCallReopens

\* checkpoint writes what is there already.
LEMMA CheckpointReopens ==
    ASSUME DurabilityInv, Reopenable, Checkpoint
    PROVE  Reopenable'
<1> DEFINE e == EvidenceSaved(db)
           f == PagesSaved(e)
<1>1. /\ status = "open" /\ status' = "open" /\ todo = <<>> /\ UNCHANGED files
      /\ db' = [f EXCEPT !.pending = db.ids # DOMAIN db.rows]
  BY DEF Checkpoint
<1>2. PICK order \in Orders(db.dirty) :
        todo' = ManifestWrites \o PageWrites(db, order) \o SaveEvidence(db) \o
                (IF db.ids = DOMAIN db.rows THEN TruncateJournal ELSE <<>>)
  BY DEF Checkpoint
<1>3. IsDb(db) /\ db.dirty = {}
  BY <1>1 DEF Reopenable, Directory, DurabilityInv
<1>4. Quiet(db, e) /\ IsDb(e) /\ e.dirty = {}
  BY <1>3, QuietFlush DEF Quiet
<1> HIDE DEF e
<1>5. Quiet(e, f)
  BY <1>4, QuietPages
<1> HIDE DEF f
<1>6. Quiet(f, db')
  <2>1. PICK b : b = (db.ids # DOMAIN db.rows)
    OBVIOUS
  <2>2. db' = [f EXCEPT !.pending = b]
    BY <1>1, <2>1
  <2> QED
    BY <1>5, <2>2, QuietField DEF Quiet
<1>7. Quiet(db, db')
  BY <1>4, <1>5, <1>6, QuietTransitive
<1>8. IsSeq(order)
  BY <1>2, <1>3, OrdersSeq, FS_EmptySet
<1> DEFINE s2 == PageWrites(db, order)
           s3 == SaveEvidence(db)
           s4 == IF db.ids = DOMAIN db.rows THEN TruncateJournal ELSE <<>>
<1>9. /\ TodoSafe(ManifestWrites, db') /\ TodoSafe(s2, db') /\ TodoSafe(s3, db')
      /\ TodoSafe(s4, db')
  BY <1>8, SafePieces, SafeComposed
<1>10. todo' = ManifestWrites \o s2 \o s3 \o s4
  BY <1>2
<1> HIDE DEF s2, s3, s4
<1>11. TodoSafe(ManifestWrites \o s2, db')
  BY <1>9, TodoConcat
<1>12. TodoSafe(ManifestWrites \o s2 \o s3, db')
  BY <1>9, <1>11, TodoConcat
<1>13. TodoSafe(todo', db')
  BY <1>9, <1>10, <1>12, TodoConcat
<1> QED
  BY <1>1, <1>7, <1>13, QuietCallReopens

-----------------------------------------------------------------------------
(* Every change of a file does. *)

\* A change that touches neither the rows on disk nor the journal nor the store.
LEMMA PlainChangeReopens ==
    ASSUME Reopenable, todo # <<>>, todo' = Tail(todo), UNCHANGED <<torn, status>>,
           UNCHANGED <<pages, store, journal, db>>, tmps' = Empty,
           manifest' \/ (IF IsRename(Head(todo), "manifest") THEN FALSE
                         ELSE manifest' = manifest) \/ RenamesManifest(todo')
    PROVE  Reopenable'
<1>1. /\ ~torn /\ tmps = Empty /\ status = "open" /\ Directory(db) /\ TodoSafe(todo, db)
      /\ manifest \/ RenamesManifest(todo)
  BY DEF Reopenable
<1>2. TodoSafe(todo', db) /\ (RenamesManifest(todo) => \/ IsRename(Head(todo), "manifest")
                                                      \/ RenamesManifest(todo'))
  BY <1>1, TodoTail
<1>3. Directory(db)'
  BY <1>1 DEF Directory
<1>4. manifest' \/ RenamesManifest(todo')
  BY <1>1, <1>2
<1> QED
  BY <1>1, <1>2, <1>3, <1>4 DEF Reopenable, Empty

\* A file is removed only on the way to being replaced.
LEMMA RemoveFileReopens ==
    ASSUME Reopenable, RemoveFile
    PROVE  Reopenable'
<1> DEFINE c == Head(todo)
<1>1. /\ todo # <<>> /\ c.act = "remove" /\ todo' = Tail(todo)
      /\ UNCHANGED <<torn, status, tmps, store, journal, db>>
      /\ manifest' = (manifest /\ c.file # "manifest")
      /\ pages' = IF c.file = "page" THEN Without(pages, {c.key}) ELSE pages
  BY DEF RemoveFile, Made
<1>2. /\ ~torn /\ tmps = Empty /\ status = "open" /\ Directory(db) /\ TodoSafe(todo, db)
      /\ manifest \/ RenamesManifest(todo)
  BY <1>1 DEF Reopenable
<1>3. /\ TodoSafe(todo', db)
      /\ c.file = "manifest" => RenamesManifest(todo')
      /\ RenamesManifest(todo) => IsRename(c, "manifest") \/ RenamesManifest(todo')
  BY <1>1, <1>2, TodoTail
<1>4. manifest' \/ RenamesManifest(todo')
  BY <1>1, <1>2, <1>3 DEF IsRename
<1>5. \A q \in DOMAIN pages' : q \in DOMAIN pages /\ pages'[q] = pages[q]
  BY <1>1 DEF Without, Restrict
<1> HIDE DEF c
<1>6. Directory(db)'
  BY <1>1, <1>2, <1>5 DEF Directory
<1> QED
  BY <1>1, <1>2, <1>3, <1>4, <1>6 DEF Reopenable, Empty

\* Its replacement holds rows of the object.
LEMMA RenameFileReopens ==
    ASSUME DurabilityInv, Reopenable, RenameFile
    PROVE  Reopenable'
<1> DEFINE c == Head(todo)
<1>1. /\ todo # <<>> /\ c.act = "rename" /\ todo' = Tail(todo)
      /\ UNCHANGED <<torn, status, store, journal, db>>
      /\ manifest' = (manifest \/ c.file = "manifest")
      /\ pages' = IF c.file = "page" THEN Put(pages, c.key, c.content) ELSE pages
      /\ tmps' = IF c.file = "page" THEN Without(tmps, {c.key}) ELSE tmps
  BY DEF RenameFile, Made
<1>2. /\ ~torn /\ tmps = Empty /\ status = "open" /\ Directory(db) /\ TodoSafe(todo, db)
      /\ manifest \/ RenamesManifest(todo)
  BY <1>1 DEF Reopenable
<1>3. /\ TodoSafe(todo', db)
      /\ RenamesManifest(todo) => IsRename(c, "manifest") \/ RenamesManifest(todo')
  BY <1>1, <1>2, TodoTail
<1>4. manifest' \/ RenamesManifest(todo')
  BY <1>1, <1>2, <1>3 DEF IsRename
<1>5. c.file = "page" => c.content = RowsOnPage(db, c.key)
  BY <1>1, HeadOk DEF DurabilityInv, ChangeOk, IsRename
<1> HIDE DEF c
<1>6. \A q \in DOMAIN pages' : DOMAIN pages'[q] \subseteq DOMAIN db.rows
  <2>1. CASE c.file # "page"
    BY <1>1, <1>2, <2>1 DEF Directory
  <2>2. CASE c.file = "page"
    <3>1. DOMAIN RowsOnPage(db, c.key) \subseteq DOMAIN db.rows
      BY DEF RowsOnPage
    <3>2. \A q \in DOMAIN pages' : \/ pages'[q] = RowsOnPage(db, c.key)
                                   \/ q \in DOMAIN pages /\ pages'[q] = pages[q]
      BY <1>1, <1>5, <2>2 DEF Put
    <3> QED
      BY <1>2, <3>1, <3>2 DEF Directory
  <2> QED
    BY <2>1, <2>2
<1>7. Directory(db)'
  BY <1>1, <1>2, <1>6 DEF Directory
<1>8. tmps' = Empty
  BY <1>1, <1>2 DEF Without, Restrict, Empty
<1> QED
  BY <1>1, <1>2, <1>3, <1>4, <1>7, <1>8 DEF Reopenable, Empty

\* The records that are flushed are about nodes there are.
LEMMA FlushStreamReopens ==
    ASSUME DurabilityInv, Reopenable, FlushStream
    PROVE  Reopenable'
<1>1. /\ todo # <<>> /\ todo' = Tail(todo) /\ Head(todo).act = "flush"
      /\ UNCHANGED <<torn, status, manifest, pages, tmps, journal>>
      /\ store' = store \o db.buffer /\ db' = [db EXCEPT !.buffer = <<>>]
  BY DEF FlushStream, Made, NextChange, StoreOf
<1>2. /\ ~torn /\ tmps = Empty /\ status = "open" /\ Directory(db) /\ TodoSafe(todo, db)
      /\ manifest \/ RenamesManifest(todo)
  BY <1>1 DEF Reopenable
<1>3. /\ TodoSafe(todo', db)
      /\ RenamesManifest(todo) => IsRename(Head(todo), "manifest") \/ RenamesManifest(todo')
  BY <1>1, <1>2, TodoTail
<1>4. manifest' \/ RenamesManifest(todo')
  BY <1>1, <1>2, <1>3 DEF IsRename
<1>5. /\ SameNodes(db, db') /\ db'.dirty = db.dirty /\ db'.log = db.log /\ db'.buffer = <<>>
  <2>1. db' = [ids |-> db.ids, paths |-> db.paths, rows |-> db.rows, dirty |-> db.dirty,
             resident |-> db.resident, index |-> db.index, buffer |-> <<>>,
             sidecarDirty |-> db.sidecarDirty, pending |-> db.pending, appends |-> db.appends,
             bulk |-> db.bulk, log |-> db.log]
    BY <1>1 DEF DurabilityInv, IsDb
  <2> QED
    BY <2>1 DEF SameNodes
<1>6. Range(store') = Range(store) \cup Range(db.buffer)
  BY <1>1, SeqConcat DEF DurabilityInv, IsDb
<1>7. Tree(db') /\ (\A t : Settled(t, db) => Settled(t, db')) /\ (\A p : Known(db, p) => Known(db', p))
  BY <1>2, <1>5, SameNodesSame DEF Directory
<1>8. TodoSafe(todo', db')
  BY <1>3, <1>7 DEF TodoSafe
<1>9. LogSettled(db') /\ RecordsKnown(db')
  BY <1>2, <1>5, <1>7, SeqEmpty DEF Directory, LogSettled, RecordsKnown
<1>10. \A r \in Range(store') : Known(db', r.path)
  BY <1>2, <1>6, <1>7 DEF Directory, RecordsKnown
<1>11. \A q \in DOMAIN pages : DOMAIN pages[q] \subseteq DOMAIN db'.rows
  BY <1>2, <1>5 DEF Directory, SameNodes
<1>12. \A t \in Range(journal) : Settled(t, db')
  BY <1>2, <1>7 DEF Directory
<1>13. db'.dirty = {}
  BY <1>2, <1>5 DEF Directory
<1>14. Directory(db)'
  BY <1>1, <1>7, <1>9, <1>10, <1>11, <1>12, <1>13 DEF Directory
<1> QED
  BY <1>1, <1>2, <1>4, <1>8, <1>14 DEF Reopenable, Empty

\* The journal gets what is in the rows, and loses what it likes.
LEMMA JournalReopens ==
    ASSUME DurabilityInv, Reopenable, AppendJournal \/ TruncateJournalFile
    PROVE  Reopenable'
<1>1. /\ todo # <<>> /\ todo' = Tail(todo) /\ Head(todo).file = "journal"
      /\ UNCHANGED <<torn, status, manifest, pages, tmps, store, db>>
  BY DEF AppendJournal, TruncateJournalFile, Made, NextChange
<1>2. /\ ~torn /\ tmps = Empty /\ status = "open" /\ Directory(db) /\ TodoSafe(todo, db)
      /\ manifest \/ RenamesManifest(todo)
  BY <1>1 DEF Reopenable
<1>3. /\ TodoSafe(todo', db)
      /\ RenamesManifest(todo) => IsRename(Head(todo), "manifest") \/ RenamesManifest(todo')
      /\ Head(todo).act = "append" => Settled(Head(todo).content, db)
  BY <1>1, <1>2, TodoTail
<1>4. manifest' \/ RenamesManifest(todo')
  BY <1>1, <1>2, <1>3 DEF IsRename
<1>5. \A t \in Range(journal') : Settled(t, db)
  <2>1. CASE AppendJournal
    <3>1. journal' = Append(journal, Head(todo).content) /\ Head(todo).act = "append"
      BY <2>1 DEF AppendJournal, NextChange
    <3>2. Range(journal') = Range(journal) \cup {Head(todo).content}
      BY <3>1, SeqAppend DEF DurabilityInv
    <3> QED
      BY <1>2, <1>3, <3>1, <3>2 DEF Directory
  <2>2. CASE TruncateJournalFile
    BY <2>2, SeqEmpty DEF TruncateJournalFile
  <2> QED
    BY <2>1, <2>2
<1>6. Directory(db)'
  BY <1>1, <1>2, <1>5 DEF Directory
<1> QED
  BY <1>1, <1>2, <1>3, <1>4, <1>6 DEF Reopenable, Empty

\* A call returns.
LEMMA ReturnReopens ==
    ASSUME Reopenable, ReturnFromCall
    PROVE  Reopenable'
<1>1. /\ todo # <<>> /\ todo' = Tail(todo) /\ Head(todo).file = "return"
      /\ UNCHANGED <<torn, status, manifest, pages, tmps, store, journal, db>>
  BY DEF ReturnFromCall, Made
<1>2. ~IsRename(Head(todo), "manifest") /\ tmps = Empty
  BY <1>1 DEF IsRename, Reopenable
<1>3. tmps' = Empty
  BY <1>1, <1>2
<1> QED
  BY <1>1, <1>2, <1>3, PlainChangeReopens

-----------------------------------------------------------------------------
(* Closing and opening. *)

\* What load_nodes makes of the page files.
LEMMA LoadedFields ==
    /\ /\ Loaded.ids = {n[1] : n \in DiskNodes} /\ Loaded.rows = DiskRows
       /\ Loaded.paths = [p \in {n[2] : n \in DiskNodes} |->
                            (CHOOSE n \in DiskNodes : n[2] = p)[1]]
       /\ Loaded.dirty = {} /\ Loaded.log = <<>> /\ Loaded.buffer = <<>>
    /\ /\ Loaded'.ids = {n[1] : n \in DiskNodes'} /\ Loaded'.rows = DiskRows'
       /\ Loaded'.paths = [p \in {n[2] : n \in DiskNodes'} |->
                            (CHOOSE n \in DiskNodes' : n[2] = p)[1]]
       /\ Loaded'.dirty = {} /\ Loaded'.log = <<>> /\ Loaded'.buffer = <<>>
BY DEF Loaded, Fresh

\* The node of a row in a page file.
LEMMA DiskNodesAre ==
    ASSUME tmps = Empty
    PROVE  \A n : n \in DiskNodes <=> \E q \in DOMAIN pages : \E i \in DOMAIN pages[q] :
                                         n = <<i, pages[q][i].path>>
<1>1. NodesIn(tmps) = {}
  <2>1. DOMAIN tmps = {}
    BY DEF Empty
  <2> QED
    BY <2>1 DEF NodesIn
<1>2. \A n : n \in NodesIn(pages) <=> \E q \in DOMAIN pages :
                n \in {<<i, pages[q][i].path>> : i \in DOMAIN pages[q]}
  BY DEF NodesIn
<1>3. DiskNodes = NodesIn(pages)
  BY <1>1 DEF DiskNodes
<1> QED
  BY <1>2, <1>3

\* A node on disk is an id and a path.
LEMMA NodeParts == \A i, p : <<i, p>>[1] = i /\ <<i, p>>[2] = p
OBVIOUS

\* When every row is in its page file and no other is in one, it makes of them
\* the nodes there are.
LEMMA LoadedIsObject ==
    ASSUME NEW d, Tree(d), tmps = Empty, PagesInPlace,
           \A i \in DOMAIN d.rows : OnDisk(i, d.rows[i]),
           \A q \in DOMAIN pages : DOMAIN pages[q] \subseteq DOMAIN d.rows
    PROVE  SameNodes(d, Loaded)
<1>1. \A q \in DOMAIN pages : \A i \in DOMAIN pages[q] :
         PageOf(i) = q /\ i \in DOMAIN d.rows /\ pages[q][i] = d.rows[i]
  BY DEF PagesInPlace, OnDisk
<1>2. \A n : n \in DiskNodes <=> \E i \in DOMAIN d.rows : n = <<i, d.rows[i].path>>
  <2>1. ASSUME NEW n, n \in DiskNodes PROVE \E i \in DOMAIN d.rows : n = <<i, d.rows[i].path>>
    <3>1. PICK q \in DOMAIN pages : \E i \in DOMAIN pages[q] : n = <<i, pages[q][i].path>>
      BY <2>1, DiskNodesAre
    <3>2. PICK i \in DOMAIN pages[q] : n = <<i, pages[q][i].path>>
      BY <3>1
    <3>3. i \in DOMAIN d.rows /\ pages[q][i] = d.rows[i]
      BY <1>1, <3>1, <3>2
    <3>4. n = <<i, d.rows[i].path>>
      BY <3>2, <3>3
    <3> QED
      BY <3>3, <3>4
  <2>2. ASSUME NEW i \in DOMAIN d.rows PROVE <<i, d.rows[i].path>> \in DiskNodes
    <3>1. /\ PageOf(i) \in DOMAIN pages /\ i \in DOMAIN pages[PageOf(i)]
          /\ pages[PageOf(i)][i] = d.rows[i]
      BY <2>2 DEF OnDisk
    <3>2. <<i, d.rows[i].path>> = <<i, pages[PageOf(i)][i].path>>
      BY <3>1
    <3> QED
      BY <3>1, <3>2, DiskNodesAre
  <2> QED
    BY <2>1, <2>2
<1>3. {n[1] : n \in DiskNodes} = DOMAIN d.rows
  <2>1. ASSUME NEW n \in DiskNodes PROVE n[1] \in DOMAIN d.rows
    <3>1. PICK i \in DOMAIN d.rows : n = <<i, d.rows[i].path>>
      BY <1>2
    <3>2. n[1] = i
      BY <3>1, NodeParts
    <3> QED
      BY <3>1, <3>2
  <2>2. ASSUME NEW i \in DOMAIN d.rows PROVE \E n \in DiskNodes : n[1] = i
    <3>1. <<i, d.rows[i].path>> \in DiskNodes
      BY <1>2
    <3>2. <<i, d.rows[i].path>>[1] = i
      BY NodeParts
    <3> QED
      BY <3>1, <3>2
  <2> QED
    BY <2>1, <2>2
<1>4. {n[2] : n \in DiskNodes} = DOMAIN d.paths
  <2>1. ASSUME NEW n \in DiskNodes PROVE n[2] \in DOMAIN d.paths
    <3>1. PICK i \in DOMAIN d.rows : n = <<i, d.rows[i].path>>
      BY <1>2
    <3>2. Known(d, d.rows[i].path)
      BY DEF Tree
    <3> QED
      BY <3>1, <3>2, NodeParts DEF Known
  <2>2. ASSUME NEW p \in DOMAIN d.paths PROVE \E n \in DiskNodes : n[2] = p
    <3>1. d.paths[p] \in DOMAIN d.rows /\ d.rows[d.paths[p]].path = p
      BY DEF Tree
    <3>2. <<d.paths[p], p>> \in DiskNodes
      BY <1>2, <3>1
    <3> QED
      BY <3>2, NodeParts
  <2> QED
    BY <2>1, <2>2
<1>5. ASSUME NEW p \in DOMAIN d.paths
      PROVE  (CHOOSE n \in DiskNodes : n[2] = p)[1] = d.paths[p]
  <2>1. d.paths[p] \in DOMAIN d.rows /\ d.rows[d.paths[p]].path = p
    BY DEF Tree
  <2>2. <<d.paths[p], p>> \in DiskNodes
    BY <1>2, <2>1
  <2>3. \A n \in DiskNodes : n[2] = p => n[1] = d.paths[p]
    <3> SUFFICES ASSUME NEW n \in DiskNodes, n[2] = p PROVE n[1] = d.paths[p]
      OBVIOUS
    <3>1. PICK i \in DOMAIN d.rows : n = <<i, d.rows[i].path>>
      BY <1>2
    <3>2. d.paths[d.rows[i].path] = i
      BY DEF Tree
    <3>3. n[1] = i /\ n[2] = d.rows[i].path
      BY <3>1, NodeParts
    <3> QED
      BY <3>2, <3>3
  <2> DEFINE m == CHOOSE n \in DiskNodes : n[2] = p
  <2>4. m \in DiskNodes /\ m[2] = p
    <3>1. <<d.paths[p], p>>[2] = p
      BY NodeParts
    <3> QED
      BY <2>2, <3>1
  <2> HIDE DEF m
  <2>5. m[1] = d.paths[p]
    BY <2>3, <2>4
  <2> QED
    BY <2>5 DEF m
<1>6. DOMAIN DiskRows = DOMAIN d.rows
  <2>1. DOMAIN DiskRows = UNION {DOMAIN pages[q] : q \in DOMAIN pages}
    BY DEF DiskRows
  <2>2. ASSUME NEW i \in DOMAIN d.rows PROVE \E q \in DOMAIN pages : i \in DOMAIN pages[q]
    BY DEF OnDisk
  <2> QED
    BY <1>1, <2>1, <2>2
<1>7. DiskRows = d.rows
  <2>1. \A i \in DOMAIN d.rows : DiskRows[i] = d.rows[i]
    BY <1>6 DEF DiskRows, OnDisk
  <2>2. DiskRows = [i \in DOMAIN d.rows |-> DiskRows[i]]
    BY <1>6 DEF DiskRows
  <2>3. d.rows = [i \in DOMAIN d.rows |-> d.rows[i]]
    BY DEF Tree, IsMap
  <2> QED
    BY <2>1, <2>2, <2>3
<1>8. Loaded.paths = d.paths
  <2>1. d.paths = [p \in DOMAIN d.paths |-> d.paths[p]]
    BY DEF Tree, IsMap
  <2> DEFINE first(p) == (CHOOSE n \in DiskNodes : n[2] = p)[1]
  <2>2. \A p \in DOMAIN d.paths : first(p) = d.paths[p]
    BY <1>5
  <2>3. Loaded.paths = [p \in DOMAIN d.paths |-> first(p)]
    BY <1>4, LoadedFields
  <2> HIDE DEF first
  <2> QED
    BY <2>1, <2>2, <2>3
<1> QED
  BY <1>3, <1>7, <1>8, LoadedFields DEF SameNodes, Tree

-----------------------------------------------------------------------------
(* Closing and opening. *)

\* The destructor drops no row: they are all in their pages (database.cpp:1077-1080).
LEMMA CloseReopens ==
    ASSUME DurabilityInv, Reopenable, Close
    PROVE  Reopenable'
<1>1. /\ status = "open" /\ todo = <<>> /\ status' = "closed" /\ store' = store \o db.buffer
      /\ UNCHANGED <<manifest, pages, tmps, torn, journal, todo>>
  BY DEF Close, StoreOf
<1>2. ~torn /\ tmps = Empty /\ Directory(db) /\ (manifest \/ RenamesManifest(todo))
  BY <1>1 DEF Reopenable
<1>3. manifest
  <2>1. ~RenamesManifest(<<>>)
    BY SeqEmpty DEF RenamesManifest
  <2> QED
    BY <1>1, <1>2, <2>1
<1>4. \A i \in DOMAIN db.rows : OnDisk(i, db.rows[i])
  <2>1. Renamed(<<>>) = {}
    BY SeqEmpty DEF Renamed
  <2>2. RowsSaved(db, {}) /\ db.dirty = {}
    BY <1>1, <1>2, <2>1 DEF DurabilityInv, Directory
  <2> QED
    BY <2>2 DEF RowsSaved
<1>5. SameNodes(db, Loaded)
  <2>1. Tree(db) /\ PagesInPlace /\ \A q \in DOMAIN pages : DOMAIN pages[q] \subseteq DOMAIN db.rows
    BY <1>2 DEF DurabilityInv, Directory
  <2> QED
    BY <1>2, <1>4, <2>1, LoadedIsObject
<1>6. PICK e : e = Loaded'
  OBVIOUS
<1>7. SameNodes(Loaded, e) /\ e.dirty = {} /\ e.log = <<>> /\ e.buffer = <<>>
  <2>1. DiskNodes' = DiskNodes /\ DiskRows' = DiskRows
    BY <1>1 DEF DiskNodes, DiskRows, NodesIn
  <2> QED
    BY <1>6, <2>1, LoadedFields DEF SameNodes
<1>8. SameNodes(db, e)
  BY <1>5, <1>7 DEF SameNodes
<1>9. Tree(e) /\ LogSettled(e) /\ RecordsKnown(e)
  BY <1>2, <1>7, <1>8, SameNodesSame, SeqEmpty DEF Directory, LogSettled, RecordsKnown
<1>10. \A q \in DOMAIN pages' : DOMAIN pages'[q] \subseteq DOMAIN e.rows
  BY <1>1, <1>2, <1>8 DEF Directory, SameNodes
<1>11. \A t \in Range(journal') : Settled(t, e)
  BY <1>1, <1>2, <1>8, SameNodesSame DEF Directory
<1>12. \A r \in Range(store') : Known(e, r.path)
  <2>1. Range(store') = Range(store) \cup Range(db.buffer)
    BY <1>1, SeqConcat DEF DurabilityInv, IsDb
  <2> QED
    BY <1>2, <1>8, <2>1, SameNodesSame DEF Directory, RecordsKnown
<1>13. Directory(Loaded)'
  BY <1>6, <1>7, <1>9, <1>10, <1>11, <1>12 DEF Directory
<1> QED
  BY <1>1, <1>2, <1>3, <1>13 DEF Reopenable, Empty

\* What load_nodes and the scan of the store ask of the files is there.
LEMMA DirectoryLoadable ==
    ASSUME DurabilityInv, ~torn, tmps = Empty, Directory(Loaded)
    PROVE  NodesLoadable /\ StoreScannable
<1>1. Tree(Loaded) /\ PagesInPlace
  BY DEF Directory, DurabilityInv
<1>2. ASSUME NEW n \in DiskNodes
      PROVE  \E i \in DOMAIN Loaded.rows : n = <<i, Loaded.rows[i].path>>
  <2>1. PICK q \in DOMAIN pages : \E i \in DOMAIN pages[q] : n = <<i, pages[q][i].path>>
    BY DiskNodesAre
  <2>2. PICK i \in DOMAIN pages[q] : n = <<i, pages[q][i].path>>
    BY <2>1
  <2>3. i \in DOMAIN DiskRows /\ DiskRows[i] = pages[q][i]
    BY <1>1 DEF DiskRows, PagesInPlace
  <2>4. Loaded.rows = DiskRows
    BY LoadedFields
  <2> QED
    BY <2>2, <2>3, <2>4
<1>3. ASSUME NEW a \in DiskNodes, NEW b \in DiskNodes, a[2] = b[2] PROVE a = b
  <2>1. PICK i \in DOMAIN Loaded.rows : a = <<i, Loaded.rows[i].path>>
    BY <1>2
  <2>2. PICK j \in DOMAIN Loaded.rows : b = <<j, Loaded.rows[j].path>>
    BY <1>2
  <2>3. Loaded.rows[i].path = Loaded.rows[j].path
    BY <1>3, <2>1, <2>2, NodeParts
  <2>4. Loaded.paths[Loaded.rows[i].path] = i /\ Loaded.paths[Loaded.rows[j].path] = j
    BY <1>1 DEF Tree
  <2> QED
    BY <2>1, <2>2, <2>3, <2>4
<1>4. DOMAIN pages # {}
  <2>1. PICK m \in Nat : Loaded.ids = 0..m
    BY <1>1 DEF Tree
  <2>2. 0 \in {n[1] : n \in DiskNodes}
    <3>1. 0 \in Loaded.ids
      BY <2>1
    <3>2. Loaded.ids = {n[1] : n \in DiskNodes}
      BY LoadedFields
    <3> QED
      BY <3>1, <3>2, Zenon
  <2>3. PICK n \in DiskNodes : TRUE
    BY <2>2
  <2> QED
    BY <2>3, DiskNodesAre
<1>5. \A p : Known(Loaded, p) => KnownOnDisk(p)
  <2>1. DOMAIN Loaded.paths = {n[2] : n \in DiskNodes}
    BY LoadedFields
  <2> QED
    BY <2>1 DEF Known, KnownOnDisk
<1>6. ASSUME NEW k \in DOMAIN store PROVE KnownOnDisk(store[k].path)
  <2>1. store[k] \in Range(store)
    BY SeqShape DEF DurabilityInv
  <2> QED
    BY <1>5, <2>1 DEF Directory
<1> QED
  BY <1>3, <1>4, <1>6 DEF NodesLoadable, StoreScannable

\* open() succeeds, and its replay of the journal changes no node
\* (database.cpp:1101-1188, 3491-3591).
LEMMA OpenExistingReopens ==
    ASSUME DurabilityInv, Reopenable, OpenExisting
    PROVE  Reopenable'
<1>1. /\ status = "closed" /\ todo = <<>> /\ manifest /\ ~torn /\ tmps = Empty
      /\ Directory(Loaded)
  BY DEF OpenExisting, Reopenable
<1>2. NodesLoadable /\ StoreScannable
  BY <1>1, DirectoryLoadable
<1>3. /\ db' = Replayed(journal) /\ status' = "open" /\ UNCHANGED files
      /\ todo' = IF SidecarUsable THEN <<>>
                 ELSE Replace("sidecar", 0, [size |-> Len(store), index |-> ScannedIndex])
  BY <1>2, Zenon DEF OpenExisting
<1>4. Quiet(Loaded, db')
  <2>1. IsDb(Loaded)
    BY LoadedOk DEF DurabilityInv, EvidenceOk
  <2> QED
    BY <1>1, <1>3, <2>1, QuietReplayed DEF Directory, DurabilityInv
<1>5. RecordsKnown(Loaded) /\ Loaded.dirty = {} /\ LogSettled(Loaded)
  BY <1>1 DEF Directory
<1>6. SameNodes(Loaded, db') /\ db'.dirty = {} /\ db'.log = Loaded.log /\ RecordsKnown(db')
  BY <1>4, <1>5 DEF Quiet
<1>7. Tree(db') /\ LogSettled(db')
  BY <1>1, <1>5, <1>6, SameNodesSame DEF Directory, LogSettled
<1>8. TodoSafe(todo', db')
  <2>1. PICK c : c = [size |-> Len(store), index |-> ScannedIndex]
    OBVIOUS
  <2>2. todo' = <<>> \/ todo' = Replace("sidecar", 0, c)
    BY <1>3, <2>1
  <2>3. TodoSafe(<<>>, db')
    BY SafePieces
  <2>4. TodoSafe(Replace("sidecar", 0, c), db')
    BY SeqPair, OtherFilesSafe DEF Replace, Change
  <2> QED
    BY <2>2, <2>3, <2>4
<1>9. /\ pages' = pages /\ journal' = journal /\ store' = store /\ manifest' = manifest
      /\ torn' = torn /\ tmps' = tmps
  BY <1>3 DEF files
<1>10. /\ \A q \in DOMAIN pages : DOMAIN pages[q] \subseteq DOMAIN db'.rows
       /\ \A t \in Range(journal) : Settled(t, db')
       /\ \A r \in Range(store) : Known(db', r.path)
  BY <1>1, <1>6, SameNodesSame DEF Directory, SameNodes
<1>11. Directory(db)'
  BY <1>6, <1>7, <1>9, <1>10 DEF Directory
<1> QED
  BY <1>1, <1>3, <1>8, <1>9, <1>11 DEF Reopenable, Empty

-----------------------------------------------------------------------------
(* The theorem. *)

\* The node of a new database.
LEMMA InitTree ==
    ASSUME Init, NEW root, root = <<>>
    PROVE  /\ Tree(db) /\ DOMAIN db.rows = {0} /\ db.rows[0] = [path |-> root, left |-> 0, right |-> 0]
           /\ DOMAIN db.paths = {root} /\ db.bulk = FALSE
           /\ db.dirty = {} /\ db.log = <<>> /\ db.buffer = <<>>
<1> DEFINE d == WriteRow(Fresh, 0, Leaf(<<>>))
<1>1. /\ store = <<>> /\ journal = <<>> /\ todo = <<>> /\ status = "open" /\ manifest /\ ~torn
      /\ tmps = Empty /\ db = PagesSaved(d) /\ pages = [q \in {0} |-> [i \in {0} |-> Leaf(<<>>)]]
  BY DEF Init
<1>2. DOMAIN pages = {0} /\ DOMAIN pages[0] = {0}
  BY <1>1
<1>3. root = <<>>
  OBVIOUS
<1>4. root \in Paths
  <2>1. IsSeq(root) /\ Len(root) = 0 /\ Range(root) = {}
    BY <1>3, SeqEmpty
  <2>2. 0 \in 0..(MaxTreeDepth - 1)
    BY LectAssumption
  <2> QED
    BY <2>1, <2>2, PathShape
<1>5. /\ IsDb(Fresh) /\ ~Known(Fresh, root) /\ Fresh.ids = {} /\ DOMAIN Fresh.paths = {}
      /\ DOMAIN Fresh.rows = {} /\ Fresh.log = <<>> /\ Fresh.bulk = FALSE
  BY FreshOk DEF Known, Fresh, Empty
<1>6. d = WriteRow(Fresh, 0, Leaf(root))
  BY <1>3
<1> HIDE DEF d
<1>7. /\ IsDb(d) /\ d.log = <<>> /\ d.bulk = FALSE /\ IsMap(d.paths) /\ d.ids = {0}
      /\ DOMAIN d.paths = {root} /\ d.paths[root] = 0
      /\ DOMAIN d.rows = {0} /\ d.rows[0] = [path |-> root, left |-> 0, right |-> 0]
  BY <1>5, <1>6, NewNode
<1>8. IsMap(d.rows)
  <2>1. d = [Fresh EXCEPT !.ids = @ \cup {0}, !.paths = Put(@, Leaf(root).path, 0),
                          !.rows = Put(@, 0, Leaf(root)), !.dirty = @ \cup {PageOf(0)}]
    <3>1. ~Known(Fresh, Leaf(root).path)
      BY <1>5 DEF Leaf
    <3> QED
      BY <1>6, <3>1, Zenon DEF WriteRow
  <2>2. d.rows = Put(Fresh.rows, 0, Leaf(root))
    BY <1>5, <2>1 DEF IsDb
  <2> QED
    BY <2>2, PutIsMap
<1>9. /\ db.ids = d.ids /\ db.paths = d.paths /\ db.rows = d.rows /\ db.dirty = {}
      /\ db.log = <<>> /\ db.buffer = <<>> /\ db.bulk = FALSE
  <2>1. db = [ids |-> d.ids, paths |-> d.paths, rows |-> d.rows, dirty |-> {},
              resident |-> d.resident, index |-> d.index, buffer |-> d.buffer,
              sidecarDirty |-> d.sidecarDirty, pending |-> d.pending, appends |-> d.appends,
              bulk |-> d.bulk, log |-> d.log]
    BY <1>1, <1>7 DEF IsDb, PagesSaved
  <2>2. d.buffer = Fresh.buffer
    BY <1>5, <1>6, WriteRowGrows DEF Grows, SameEvidence
  <2> QED
    BY <1>7, <2>1, <2>2, FreshOk
<1>10. \A q, b : Append(q, b) = root => q \notin Paths
  <2> SUFFICES ASSUME NEW q \in Paths, NEW b PROVE Append(q, b) # root
    OBVIOUS
  <2>1. Len(Append(q, b)) = Len(q) + 1 /\ Len(q) \in Nat
    BY PathShape, SeqAppend
  <2> QED
    BY <1>3, <2>1, SeqEmpty
<1>11. Tree(db)
  <2>1. db.ids = 0..0
    BY <1>7, <1>9
  <2>2. \A q \in Paths, b \in {0, 1} : ~Known(db, Append(q, b))
    BY <1>7, <1>9, <1>10 DEF Known
  <2> QED
    BY <1>4, <1>7, <1>8, <1>9, <2>1, <2>2 DEF Tree, Known
<1> QED
  BY <1>7, <1>9, <1>11

\* A new database is a root in its page.
LEMMA InitReopens == Init => ReopenInv
<1> SUFFICES ASSUME Init PROVE Reopenable
  BY DEF ReopenInv
<1>1. /\ store = <<>> /\ journal = <<>> /\ todo = <<>> /\ status = "open" /\ manifest /\ ~torn
      /\ tmps = Empty /\ pages = [q \in {0} |-> [i \in {0} |-> Leaf(<<>>)]]
  BY DEF Init
<1>2. DOMAIN pages = {0} /\ DOMAIN pages[0] = {0}
  BY <1>1
<1>3. Tree(db) /\ DOMAIN db.rows = {0} /\ db.dirty = {} /\ db.log = <<>> /\ db.buffer = <<>>
  <2>1. PICK root : root = <<>>
    OBVIOUS
  <2> QED
    BY <2>1, InitTree
<1>4. Directory(db)
  BY <1>1, <1>2, <1>3, SeqEmpty DEF Directory, LogSettled, RecordsKnown
<1>5. TodoSafe(todo, db)
  BY <1>1, SafePieces
<1> QED
  BY <1>1, <1>4, <1>5 DEF Reopenable

\* Every step preserves the invariant, as long as no row goes unsaved and no
\* process is killed.
LEMMA NextReopens ==
    ASSUME DurabilityInv, ReopenInv, [Next]_vars
    PROVE  ReopenInv'
<1> SUFFICES ASSUME "unsaved" \notin risks' PROVE Reopenable'
  BY DEF ReopenInv
<1>1. CASE UNCHANGED vars
  <2>1. Reopenable
    BY <1>1 DEF ReopenInv, vars
  <2>2. Loaded'.ids = Loaded.ids /\ Loaded'.paths = Loaded.paths /\ Loaded'.rows = Loaded.rows
    BY <1>1, LoadedFields DEF vars, files, DiskNodes, DiskRows, NodesIn
  <2>3. PICK e : e = Loaded'
    OBVIOUS
  <2>4. SameNodes(Loaded, e) /\ e.dirty = {} /\ e.log = <<>> /\ e.buffer = <<>>
    BY <2>2, <2>3, LoadedFields DEF SameNodes
  <2>5. Directory(Loaded) => Directory(Loaded)'
    <3> SUFFICES ASSUME Directory(Loaded) PROVE Directory(Loaded)'
      OBVIOUS
    <3>1. Tree(e) /\ LogSettled(e) /\ RecordsKnown(e)
      BY <2>4, SameNodesSame, SeqEmpty DEF Directory, LogSettled, RecordsKnown
    <3>2. /\ \A q \in DOMAIN pages : DOMAIN pages[q] \subseteq DOMAIN e.rows
          /\ \A t \in Range(journal) : Settled(t, e)
          /\ \A r \in Range(store) : Known(e, r.path)
      BY <2>4, SameNodesSame DEF Directory, SameNodes
    <3>3. pages' = pages /\ journal' = journal /\ store' = store
      BY <1>1 DEF vars, files
    <3> QED
      BY <2>3, <2>4, <3>1, <3>2, <3>3 DEF Directory
  <2>6. Directory(db) => Directory(db)'
    BY <1>1 DEF vars, files, Directory
  <2> QED
    BY <1>1, <2>1, <2>5, <2>6 DEF Reopenable, vars, files, Empty
<1>2. CASE Call
  <2>1. "unsaved" \notin risks
    BY <1>2 DEF Call, SplitLeaf, SplitToBox, PutEvidence, DeletePayload, ReadEvidence, SetBulk,
                Checkpoint
  <2>2. Reopenable
    BY <2>1 DEF ReopenInv
  <2>3. \A p \in Paths : ~SplitLeaf(p)
    BY DEF SplitLeaf
  <2> QED
    BY <1>2, <2>2, <2>3, SplitToBoxReopens, PutEvidenceReopens, DeletePayloadReopens,
       ReadEvidenceReopens, SetBulkReopens, CheckpointReopens DEF Call
<1>3. CASE FileChange
  <2>1. "unsaved" \notin risks
    BY <1>3 DEF FileChange, RemoveFile, RenameFile, FlushStream, AppendJournal,
                TruncateJournalFile, ReturnFromCall, Made
  <2>2. Reopenable
    BY <2>1 DEF ReopenInv
  <2> QED
    BY <1>3, <2>2, RemoveFileReopens, RenameFileReopens, FlushStreamReopens, JournalReopens,
       ReturnReopens DEF FileChange
<1>4. CASE Close
  <2>1. Reopenable
    BY <1>4 DEF ReopenInv, Close
  <2> QED
    BY <1>4, <2>1, CloseReopens
<1>5. CASE Kill
  BY <1>5 DEF Kill
<1>6. CASE OpenExisting
  <2>1. Reopenable
    BY <1>6 DEF ReopenInv, OpenExisting
  <2> QED
    BY <1>6, <2>1, OpenExistingReopens
<1>7. CASE OpenWithoutManifest
  <2>1. Reopenable
    BY <1>7 DEF ReopenInv, OpenWithoutManifest
  <2> QED
    BY <1>7, <2>1 DEF Reopenable, OpenWithoutManifest
<1> QED
  BY <1>1, <1>2, <1>3, <1>4, <1>5, <1>6, <1>7 DEF Next

\* A database can be opened again as long as every split ended in a flush and no
\* process was killed, however often it was closed without a checkpoint, bulk
\* mode and deletions included (database.cpp:1101-1188, 3109-3187).
THEOREM ReopeningCorrect == Spec => []OpensUnlessUnsaved
<1>1. ReopenInv => OpensUnlessUnsaved
  BY DEF ReopenInv, Reopenable, OpensUnlessUnsaved
<1>2. Init => DurabilityInv /\ ReopenInv
  BY InitDurability, InitReopens
<1>3. DurabilityInv /\ ReopenInv /\ [Next]_vars => (DurabilityInv /\ ReopenInv)'
  BY NextDurability, NextReopens
<1> QED
  BY <1>1, <1>2, <1>3, PTL DEF Spec
=============================================================================
