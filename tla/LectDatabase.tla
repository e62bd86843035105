---------------------------- MODULE LectDatabase ----------------------------
(***************************************************************************)
(* Durability of lect_database/src/lect_database/database.cpp: the node    *)
(* pages, the append-only evidence store with its index sidecar, the text  *)
(* journal and the checkpoint, against a process that is closed without a  *)
(* checkpoint or killed.                                                   *)
(*                                                                         *)
(* A call changes the object db at once and queues what it does to the     *)
(* files in todo, in the order the code does it; every element of todo is  *)
(* one change of the directory, so a crash between two of them leaves the  *)
(* directory the process would leave.  One handle has the database open at *)
(* a time and calls do not overlap.                                        *)
(*                                                                         *)
(* Left out: payload bytes (a member of Vals), generation numbers (no      *)
(* branch of recovery reads them), nodes.pages (load_nodes reads it only   *)
(* when the page directory is missing), parent hulls (the configuration    *)
(* propagate_parent_hulls = false), streaming prewarm, read-only handles,  *)
(* and page eviction (databases of at most max_resident_pages pages).      *)
(***************************************************************************)
EXTENDS Integers, Sequences, FiniteSets, SequencesExt

CONSTANTS
    Vals,              \* evidence payloads
    None,              \* no evidence
    MaxTreeDepth,      \* config_.max_tree_depth
    RowsPerPage,       \* rows_per_node_page()
    AppendsPerFlush,   \* kEvidenceAppendsPerFlush
    ResidentCap,       \* kMaxResidentEvidenceRecords
    CreateIfMissing,   \* config_.open.create_if_missing
    Ops,               \* the operations the user of this run calls
    Faults,            \* subset of {"close", "crash", "tear", "replace"}
    MaxOps, MaxStops   \* bounds: modifying calls, and closes plus crashes

ASSUME LectAssumption ==
    /\ None \notin Vals
    /\ {MaxTreeDepth, RowsPerPage, AppendsPerFlush, ResidentCap} \subseteq Nat \ {0}
    /\ CreateIfMissing \in BOOLEAN /\ MaxOps \in Nat /\ MaxStops \in Nat

VARIABLES
    manifest,   \* the manifest file exists
    pages,      \* the page files: page number -> rows
    tmps,       \* temporary files a kill left among them, likewise
    store,      \* evidence.pages: the records the file holds
    torn,       \* ... followed by part of a record
    sidecar,    \* evidence.index: [size, index], or NoSidecar
    journal,    \* journal.log: the committed transactions
    db,         \* the LectDatabase object
    status,     \* "open", "closed", or "failed": open() returned false
    todo,       \* file changes the current call has still to make
    expected,   \* history: what reading a path may return
    grown,      \* history: the paths split calls have returned
    risks,      \* history: what was done that recovery is not sure to survive
    ops, stops  \* bounds

files == <<manifest, pages, tmps, store, torn, sidecar, journal>>
vars  == <<files, db, status, todo, expected, grown, risks, ops, stops>>

-----------------------------------------------------------------------------
(* Nodes.  A row maps a node id to its path from the root and its children; *)
(* id 0 is the root, so 0 as a child means none.                            *)

Paths == UNION {[1..n -> {0, 1}] : n \in 0..(MaxTreeDepth - 1)}
Leaf(p) == [path |-> p, left |-> 0, right |-> 0]
PageOf(id) == id \div RowsPerPage
Put(f, x, v) == [y \in DOMAIN f \cup {x} |-> IF y = x THEN v ELSE f[y]]
Without(f, S) == Restrict(f, DOMAIN f \ S)
Empty == [x \in {} |-> x]
NoSidecar == [size |-> -1, index |-> Empty]

\* d.paths is node_path_index_ and d.ids is node_ids_; a crash can leave a
\* path or an id without a row.
Known(d, p) == p \in DOMAIN d.paths
HasRow(d, p) == Known(d, p) /\ d.paths[p] \in DOMAIN d.rows
IdOf(d, p) == d.paths[p]
IsLeaf(d, p) == d.rows[IdOf(d, p)].left = 0

\* allocate_node_id: next_node_id_ is one past the largest id remembered.
NextId(d) == IF d.ids = {} THEN 0 ELSE 1 + CHOOSE m \in d.ids : \A i \in d.ids : i <= m

\* write_node_record: the id is remembered even when its path belongs to
\* another id, and the row is then not written.
WriteRow(d, id, row) ==
    IF Known(d, row.path) => IdOf(d, row.path) = id
    THEN [d EXCEPT !.ids = @ \cup {id}, !.paths = Put(@, row.path, id),
                   !.rows = Put(@, id, row), !.dirty = @ \cup {PageOf(id)}]
    ELSE [d EXCEPT !.ids = @ \cup {id}]

LinkChildrenClean(d, p, l, r) ==
    LET id == IdOf(d, p) IN [d EXCEPT !.rows = Put(@, id, [@[id] EXCEPT !.left = l, !.right = r])]

LinkChildren(d, p, l, r) ==
    LET id == IdOf(d, p) IN
    [d EXCEPT !.rows = Put(@, id, [@[id] EXCEPT !.left = l, !.right = r]),
              !.dirty = @ \cup {PageOf(id)}]

\* split_leaf; the transaction it journals goes to log.
SplitStep(d, p) ==
    IF ~HasRow(d, p) \/ ~IsLeaf(d, p) \/ Len(p) + 1 >= MaxTreeDepth THEN d
    ELSE LET l == NextId(d)
             d1 == WriteRow(d, l, Leaf(Append(p, 0)))
             d2 == WriteRow(d1, l + 1, Leaf(Append(p, 1)))
         IN [LinkChildren(d2, p, l, l + 1) EXCEPT
               !.pending = TRUE,
               !.log = IF d.bulk THEN @
                       ELSE Append(@, [type |-> "split", node |-> IdOf(d, p),
                                       left |-> l, right |-> l + 1])]

\* The leaves on the way to p are split, from the root on.
SplitAlong(d, p) ==
    LET after[k \in 0..Len(p)] ==
          IF k = 0 THEN d ELSE SplitStep(after[k - 1], SubSeq(p, 1, k - 1))
    IN after[Len(p)]

-----------------------------------------------------------------------------
(* Evidence. *)

Record(p, v) == [path |-> p, val |-> v, gone |-> v = None]
StoreOf(d) == store \o d.buffer

AppendRecordInBuffer(d, p, v) ==
    [d EXCEPT !.buffer = Append(@, Record(p, v)),
              !.index = Put(@, p, [pos |-> Len(d.buffer) + 1, gone |-> v = None]),
              !.appends = @ + 1, !.sidecarDirty = TRUE]

\* append_evidence_record_to_store: into the stream's buffer and the index.
AppendRecord(d, p, v) ==
    [d EXCEPT !.buffer = Append(@, Record(p, v)),
              !.index = Put(@, p, [pos |-> Len(StoreOf(d)) + 1, gone |-> v = None]),
              !.appends = @ + 1, !.sidecarDirty = TRUE]

\* evidence(key), without its effect on the resident records.
Lookup(d, p) ==
    IF p \in DOMAIN d.resident THEN d.resident[p]
    ELSE IF ~Known(d, p) \/ p \notin DOMAIN d.index THEN None
    ELSE StoreOf(d)[d.index[p].pos].val

-----------------------------------------------------------------------------
(* Changes of the directory.  replace_file removes the old file and then    *)
(* renames the new one into its place.                                      *)

Change(file, act, key, content) ==
    [file |-> file, act |-> act, key |-> key, content |-> content]
Replace(file, key, content) ==
    <<Change(file, "remove", key, content), Change(file, "rename", key, content)>>

ManifestWrites == Replace("manifest", 0, 0)
RowsOnPage(d, q) == [i \in {j \in DOMAIN d.rows : PageOf(j) = q} |-> d.rows[i]]
Orders(S) == {s \in [1..Cardinality(S) -> S] : Range(s) = S}
PageWrites(d, order) ==
    [k \in 1..2 * Len(order) |->
        LET q == order[(k + 1) \div 2]
        IN Change("page", IF k % 2 = 1 THEN "remove" ELSE "rename", q, RowsOnPage(d, q))]
FlushStore == <<Change("store", "flush", 0, 0)>>
SidecarWrites(d) ==
    IF d.sidecarDirty
    THEN Replace("sidecar", 0, [size |-> Len(StoreOf(d)), index |-> d.index])
    ELSE <<>>
JournalWrites(log) == [k \in DOMAIN log |-> Change("journal", "append", 0, log[k])]
TruncateJournal == <<Change("journal", "truncate", 0, 0)>>
ReturnValue(p, v) == <<Change("return", "value", p, v)>>
ReturnNodes(d) == <<Change("return", "nodes", 0, {d.rows[i].path : i \in DOMAIN d.rows})>>

SaveEvidenceUnflushed(d) == SidecarWrites(d)

\* save_evidence: flush the stream, rewrite the sidecar if it is dirty.
SaveEvidence(d) == FlushStore \o SidecarWrites(d)
EvidenceSaved(d) == [d EXCEPT !.sidecarDirty = FALSE]
PagesSaved(d) == [d EXCEPT !.dirty = {}]

\* maybe_flush_incremental_storage
FlushDue(d) == ~d.bulk /\ d.appends >= AppendsPerFlush
MaybeFlush(d, order) ==
    IF FlushDue(d) THEN SaveEvidence(d) \o PageWrites(d, order) \o ManifestWrites ELSE <<>>
MaybeFlushed(d) ==
    IF FlushDue(d) THEN [PagesSaved(EvidenceSaved(d)) EXCEPT !.appends = 0] ELSE d

\* trim_evidence_cache: save_evidence, then drop what the index can reload.
TrimDue(d) == ~d.bulk /\ Cardinality(DOMAIN d.resident) > ResidentCap
Trim(d) == IF TrimDue(d) THEN SaveEvidence(d) ELSE <<>>
Trimmed(d) ==
    IF TrimDue(d)
    THEN [EvidenceSaved(d) EXCEPT !.resident = Without(@, DOMAIN d.index)]
    ELSE d

-----------------------------------------------------------------------------
(* open() *)

Fresh == [ids |-> {}, paths |-> Empty, rows |-> Empty, dirty |-> {}, resident |-> Empty, index |-> Empty,
          buffer |-> <<>>, sidecarDirty |-> FALSE, pending |-> FALSE, appends |-> 0,
          bulk |-> FALSE, log |-> <<>>]

DiskRows == [i \in UNION {DOMAIN pages[q] : q \in DOMAIN pages} |-> pages[PageOf(i)][i]]

\* load_nodes reads every file of the page directory, temporary ones too, for
\* the ids and paths in it; a row is later read from its page file alone.
NodesIn(f) == UNION {{<<i, f[q][i].path>> : i \in DOMAIN f[q]} : q \in DOMAIN f}
DiskNodes == NodesIn(pages) \cup NodesIn(tmps)
KnownOnDisk(p) == \E n \in DiskNodes : n[2] = p
NodesLoadable ==
    /\ DOMAIN pages \cup DOMAIN tmps # {}
    /\ \A m, n \in DiskNodes : m[2] = n[2] => m = n

SidecarUsable ==
    /\ sidecar # NoSidecar /\ ~torn
    /\ sidecar.size = Len(store)
    /\ \A p \in DOMAIN sidecar.index : KnownOnDisk(p)

\* scan_binary_evidence_store gives up on a partial record or an unknown path.
StoreScannable == ~torn /\ \A k \in DOMAIN store : KnownOnDisk(store[k].path)
ScannedIndex ==
    [p \in {store[k].path : k \in DOMAIN store} |->
        LET last == CHOOSE k \in DOMAIN store :
                        /\ store[k].path = p
                        /\ \A j \in DOMAIN store : store[j].path = p => j <= k
        IN [pos |-> last, gone |-> store[last].gone]]

\* replay_journal, one committed transaction.
ReplayStep(d0, t) ==
    LET d == [d0 EXCEPT !.pending = TRUE] IN
    IF t.type = "split"
    THEN IF t.node \notin DOMAIN d.rows \/
            (d.rows[t.node].left = t.left /\ {t.left, t.right} \subseteq DOMAIN d.rows)
         THEN d
         ELSE LET p == d.rows[t.node].path
                  d1 == IF t.left \in DOMAIN d.rows THEN d ELSE WriteRow(d, t.left, Leaf(Append(p, 0)))
                  d2 == IF t.right \in DOMAIN d1.rows THEN d1 ELSE WriteRow(d1, t.right, Leaf(Append(p, 1)))
              IN LinkChildren(d2, p, t.left, t.right)
    ELSE IF ~Known(d, t.path) THEN d
         ELSE AppendRecord([d EXCEPT !.resident = Put(@, t.path, t.val)], t.path, t.val)

Loaded ==
    [Fresh EXCEPT !.ids = {n[1] : n \in DiskNodes}, !.rows = DiskRows,
                  !.paths = [p \in {n[2] : n \in DiskNodes} |->
                               (CHOOSE n \in DiskNodes : n[2] = p)[1]],
                  !.index = IF SidecarUsable THEN sidecar.index ELSE ScannedIndex,
                  !.sidecarDirty = FALSE]

Replayed(log) ==
    LET after[k \in 0..Len(log)] ==
          IF k = 0 THEN Loaded ELSE ReplayStep(after[k - 1], log[k])
    IN after[Len(log)]

OpenExisting ==
    /\ status \in {"closed", "failed"} /\ manifest
    /\ IF NodesLoadable /\ (SidecarUsable \/ StoreScannable)
       THEN /\ db' = Replayed(journal)
            /\ todo' = IF SidecarUsable THEN <<>>
                       ELSE Replace("sidecar", 0, [size |-> Len(store), index |-> ScannedIndex])
            /\ status' = "open"
       ELSE status' = "failed" /\ UNCHANGED <<db, todo>>
    /\ UNCHANGED <<files, expected, grown, risks, ops, stops>>

\* No manifest: a new database in the same directory, around whatever
\* evidence and journal files are there.
OpenWithoutManifest ==
    /\ status \in {"closed", "failed"} /\ ~manifest
    /\ IF CreateIfMissing
       THEN LET d == WriteRow(Fresh, 0, Leaf(<<>>)) IN
            /\ db' = PagesSaved(d)
            /\ todo' = ManifestWrites \o PageWrites(d, <<0>>)
            /\ status' = "open"
       ELSE status' = "failed" /\ UNCHANGED <<db, todo>>
    /\ UNCHANGED <<files, expected, grown, risks, ops, stops>>

-----------------------------------------------------------------------------
(* Calls on an open database. *)

Ready(op) == status = "open" /\ todo = <<>> /\ op \in Ops /\ ops < MaxOps

\* split_leaf leaves the rows in dirty resident pages.
SplitLeaf(p) ==
    /\ Ready("split_leaf")
    /\ HasRow(db, p) /\ IsLeaf(db, p) /\ Len(p) + 1 < MaxTreeDepth
    /\ LET d == SplitStep(db, p) IN
       /\ db' = [d EXCEPT !.log = <<>>]
       /\ todo' = JournalWrites(d.log) \o ReturnNodes(d)
    /\ risks' = risks \cup {"unsaved"}
    /\ ops' = ops + 1
    /\ UNCHANGED <<files, status, expected, grown, stops>>

SplitToBoxUnflushed(p, exact) ==
    /\ Ready(IF exact THEN "split_to_box" ELSE "split_toward_box")
    /\ ~HasRow(db, p)
    /\ LET d == SplitAlong(db, p) IN
       /\ db' = [d EXCEPT !.log = <<>>]
       /\ todo' = JournalWrites(d.log) \o ReturnNodes(d)
    /\ ops' = ops + 1
    /\ UNCHANGED <<files, status, expected, grown, risks, stops>>

\* split_to_box splits the leaves on the way to p.  When it gets there, and the
\* box it was asked for is the box of p, it flushes the pages and the manifest,
\* as ensure_depth does; otherwise the new rows stay in dirty pages.
SplitToBox(p, exact) ==
    /\ Ready(IF exact THEN "split_to_box" ELSE "split_toward_box")
    /\ ~HasRow(db, p)
    /\ LET d == SplitAlong(db, p)
           flush == exact /\ \A k \in 0..(Len(p) - 1) : HasRow(d, SubSeq(p, 1, k))
       IN \E order \in Orders(IF flush THEN d.dirty ELSE {}) :
            /\ db' = [IF flush THEN PagesSaved(d) ELSE d EXCEPT !.log = <<>>]
            /\ risks' = risks \cup (IF flush THEN {} ELSE {"unsaved"})
            /\ todo' = JournalWrites(d.log)
                     \o (IF flush THEN PageWrites(d, order) \o ManifestWrites ELSE <<>>)
                     \o ReturnNodes(d)
    /\ ops' = ops + 1
    /\ UNCHANGED <<files, status, expected, grown, stops>>

\* put_evidence: store, then journal, then the incremental flush and the trim.
PutEvidence(p, v) ==
    /\ Ready("put")
    /\ HasRow(db, p)
    /\ LET d == AppendRecord([db EXCEPT !.resident = Put(@, p, v), !.pending = TRUE], p, v)
           log == IF db.bulk THEN <<>> ELSE <<[type |-> "evidence", path |-> p, val |-> v]>>
           d1 == MaybeFlushed(d)
       IN \E order \in Orders(IF FlushDue(d) THEN d.dirty ELSE {}) :
            /\ db' = Trimmed(d1)
            /\ todo' = JournalWrites(log) \o MaybeFlush(d, order) \o Trim(d1) \o ReturnValue(p, {v})
    /\ expected' = [expected EXCEPT ![p] = @ \cup {v}]
    /\ ops' = ops + 1
    /\ UNCHANGED <<files, status, grown, risks, stops>>

\* delete_node_payloads appends a tombstone to the store; the journal is not
\* told.
DeletePayload(p) ==
    /\ Ready("delete")
    /\ Known(db, p) /\ p \in DOMAIN db.index /\ ~db.index[p].gone
    /\ LET d == AppendRecord([db EXCEPT !.resident = Without(@, {p}), !.pending = TRUE], p, None)
       IN \E order \in Orders(IF FlushDue(d) THEN d.dirty ELSE {}) :
            /\ db' = MaybeFlushed(d)
            /\ todo' = MaybeFlush(d, order) \o ReturnValue(p, {None})
    /\ expected' = [expected EXCEPT ![p] = @ \cup {None}]
    /\ risks' = risks \cup {"unjournaled"}
    /\ ops' = ops + 1
    /\ UNCHANGED <<files, status, grown, stops>>

\* evidence(key): a miss flushes the stream, loads the record and may trim.
ReadEvidence(p) ==
    /\ status = "open" /\ todo = <<>> /\ "read" \in Ops
    /\ p \notin DOMAIN db.resident /\ Known(db, p) /\ p \in DOMAIN db.index
    /\ LET d == [db EXCEPT !.resident = Put(@, p, Lookup(db, p))]
           drop == Lookup(db, p) # None IN
       /\ db' = IF drop THEN Trimmed(d) ELSE d
       /\ todo' = FlushStore \o (IF drop THEN Trim(d) ELSE <<>>)
    /\ UNCHANGED <<files, status, expected, grown, risks, ops, stops>>

\* set_bulk_prewarm_mode
SetBulk(on) ==
    /\ status = "open" /\ todo = <<>> /\ "bulk" \in Ops
    /\ db.bulk # on
    /\ db' = [db EXCEPT !.bulk = on]
    /\ risks' = risks \cup {"unjournaled"}
    /\ UNCHANGED <<files, status, todo, expected, grown, ops, stops>>

CheckpointTruncatingFirst ==
    /\ status = "open" /\ todo = <<>> /\ "checkpoint" \in Ops /\ db.pending
    /\ db.ids = DOMAIN db.rows
    /\ \E order \in Orders(db.dirty) :
         todo' = TruncateJournal \o ManifestWrites \o PageWrites(db, order) \o SaveEvidence(db)
    /\ db' = [PagesSaved(EvidenceSaved(db)) EXCEPT !.pending = FALSE]
    /\ UNCHANGED <<files, status, expected, grown, risks, ops, stops>>

\* checkpoint: manifest, pages, store and sidecar; the journal goes last.
\* save_nodes fails, and with it the checkpoint, when an id has no row.
Checkpoint ==
    /\ status = "open" /\ todo = <<>> /\ "checkpoint" \in Ops /\ db.pending
    /\ \E order \in Orders(db.dirty) :
         todo' = ManifestWrites \o PageWrites(db, order) \o SaveEvidence(db) \o
                 (IF db.ids = DOMAIN db.rows THEN TruncateJournal ELSE <<>>)
    /\ db' = [PagesSaved(EvidenceSaved(db)) EXCEPT !.pending = db.ids # DOMAIN db.rows]
    /\ UNCHANGED <<files, status, expected, grown, risks, ops, stops>>

-----------------------------------------------------------------------------
(* The current call changes the files, one change at a time. *)

NextChange(file, act) == todo # <<>> /\ Head(todo).file = file /\ Head(todo).act = act
Made == todo' = Tail(todo) /\ UNCHANGED <<torn, status, risks, ops, stops>>

RemoveFile ==
    /\ todo # <<>> /\ Head(todo).act = "remove" /\ Made
    /\ LET c == Head(todo) IN
       /\ manifest' = (manifest /\ c.file # "manifest")
       /\ pages' = IF c.file = "page" THEN Without(pages, {c.key}) ELSE pages
       /\ sidecar' = IF c.file = "sidecar" THEN NoSidecar ELSE sidecar
    /\ UNCHANGED <<tmps, store, journal, db, expected, grown>>

RenameFile ==
    /\ todo # <<>> /\ Head(todo).act = "rename" /\ Made
    /\ LET c == Head(todo) IN
       /\ manifest' = (manifest \/ c.file = "manifest")
       /\ pages' = IF c.file = "page" THEN Put(pages, c.key, c.content) ELSE pages
       /\ tmps' = IF c.file = "page" THEN Without(tmps, {c.key}) ELSE tmps
       /\ sidecar' = IF c.file = "sidecar" THEN c.content ELSE sidecar
    /\ UNCHANGED <<store, journal, db, expected, grown>>

FlushStream ==
    /\ NextChange("store", "flush") /\ Made
    /\ store' = StoreOf(db)
    /\ db' = [db EXCEPT !.buffer = <<>>]
    /\ UNCHANGED <<manifest, pages, tmps, sidecar, journal, expected, grown>>

AppendJournal ==
    /\ NextChange("journal", "append") /\ Made
    /\ journal' = Append(journal, Head(todo).content)
    /\ UNCHANGED <<manifest, pages, tmps, store, sidecar, db, expected, grown>>

TruncateJournalFile ==
    /\ NextChange("journal", "truncate") /\ Made
    /\ journal' = <<>>
    /\ UNCHANGED <<manifest, pages, tmps, store, sidecar, db, expected, grown>>

ReturnFromCall ==
    /\ todo # <<>> /\ Head(todo).file = "return" /\ Made
    /\ LET c == Head(todo) IN
       /\ expected' = IF c.act = "value" THEN [expected EXCEPT ![c.key] = c.content] ELSE expected
       /\ grown' = IF c.act = "nodes" THEN grown \cup c.content ELSE grown
    /\ UNCHANGED <<manifest, pages, tmps, store, sidecar, journal, db>>

-----------------------------------------------------------------------------
(* The end of a process. *)

\* The destructor flushes the two streams; dirty pages are simply dropped.
Close ==
    /\ status = "open" /\ todo = <<>> /\ "close" \in Faults /\ stops < MaxStops
    /\ store' = StoreOf(db)
    /\ status' = "closed" /\ db' = Fresh
    /\ stops' = stops + 1
    /\ UNCHANGED <<manifest, pages, tmps, torn, sidecar, journal, todo, expected, grown, risks, ops>>

\* A killed process loses what its stream buffer holds.  The buffer goes to
\* the file when it is full, so some records may be there, and with "tear"
\* the first bytes of the next one; a sidecar is only written with the buffer
\* empty.  A page being replaced may leave its temporary file.  Only with
\* "replace" may the kill fall between the remove and the rename.
Kill ==
    /\ status = "open" /\ "crash" \in Faults /\ stops < MaxStops
    /\ todo # <<>> /\ Head(todo).act = "rename" => "replace" \in Faults
    /\ \E k \in IF todo # <<>> /\ Head(todo).file = "sidecar" THEN {0} ELSE 0..Len(db.buffer) :
         /\ store' = store \o SubSeq(db.buffer, 1, k)
         /\ torn' \in IF k < Len(db.buffer) /\ "tear" \in Faults THEN BOOLEAN ELSE {torn}
    /\ tmps' \in IF todo # <<>> /\ Head(todo).file = "page"
                THEN {Put(tmps, Head(todo).key, Head(todo).content)} \cup
                     (IF Head(todo).act = "remove" THEN {tmps} ELSE {})
                ELSE {tmps}
    /\ risks' = risks \cup {"unsaved"}
                 \cup (IF todo # <<>> /\ Head(todo).act = "rename" THEN {"unjournaled"} ELSE {})
    /\ status' = "closed" /\ db' = Fresh /\ todo' = <<>>
    /\ stops' = stops + 1
    /\ UNCHANGED <<manifest, pages, sidecar, journal, expected, grown, ops>>

-----------------------------------------------------------------------------
\* A new database: open() has written the manifest, the root page and an
\* evidence store with no record.
Init ==
    /\ manifest = TRUE
    /\ pages = [q \in {0} |-> [i \in {0} |-> Leaf(<<>>)]]
    /\ tmps = Empty
    /\ store = <<>> /\ torn = FALSE /\ sidecar = NoSidecar /\ journal = <<>>
    /\ db = PagesSaved(WriteRow(Fresh, 0, Leaf(<<>>)))
    /\ status = "open" /\ todo = <<>>
    /\ expected = [p \in Paths |-> {None}]
    /\ grown = {<<>>}
    /\ risks = {}
    /\ ops = 0 /\ stops = 0

Call ==
    \/ \E p \in Paths :
          \/ SplitLeaf(p) \/ \E exact \in BOOLEAN : SplitToBox(p, exact)
          \/ \E v \in Vals : PutEvidence(p, v)
          \/ DeletePayload(p) \/ ReadEvidence(p)
    \/ \E on \in BOOLEAN : SetBulk(on)
    \/ Checkpoint

FileChange == \/ RemoveFile \/ RenameFile \/ FlushStream \/ AppendJournal
              \/ TruncateJournalFile \/ ReturnFromCall

Next == Call \/ FileChange \/ Close \/ Kill \/ OpenExisting \/ OpenWithoutManifest

Spec == Init /\ [][Next]_vars

-----------------------------------------------------------------------------
(* Properties. *)

\* The variables keep their types.
TypeOK ==
    /\ status \in {"open", "closed", "failed"} /\ manifest \in BOOLEAN /\ torn \in BOOLEAN
    /\ db.ids \subseteq Nat /\ DOMAIN db.rows \subseteq db.ids
    /\ Range(db.paths) \subseteq db.ids
    /\ db.dirty \subseteq {PageOf(i) : i \in DOMAIN db.rows}
    /\ \A p \in Paths : expected[p] \subseteq Vals \cup {None}
    /\ sidecar.size \in -1..Len(store)

\* Every index entry points at a record of its own path, in the store or still
\* in the stream buffer, whatever an earlier process left in the files
\* (database.cpp:3003-3187, 3300-3342).
IndexPointsAtRecord ==
    status = "open" => \A p \in DOMAIN db.index :
        /\ db.index[p].pos \in 1..Len(StoreOf(db))
        /\ StoreOf(db)[db.index[p].pos].path = p
        /\ StoreOf(db)[db.index[p].pos].gone = db.index[p].gone

\* A database that was ever created can be opened again, whatever stopped the
\* process that had it (database.cpp:1101-1231).
OpenSucceeds == status # "failed"

\* Only a row that was never saved, or a kill, can keep open() from succeeding:
\* a user whose splits end in a flush may close whenever it likes, bulk mode
\* and deletions included (database.cpp:1101-1188, 3109-3187).
OpensUnlessUnsaved ==
    status = "failed" => "unsaved" \in risks

\* After any mixture of calls, checkpoints, closes and kills, evidence() returns
\* the value of the last put_evidence that returned, or that of a call the kill
\* interrupted (database.cpp:1680-1789, 3491-3591).
AckedReadable ==
    status = "open" /\ todo = <<>> => \A p \in Paths : Lookup(db, p) \in expected[p]

\* ... and nothing but bulk mode, a deletion or a kill in the middle of
\* replace_file can make it return anything else.
AckedUnlessUnjournaled ==
    "unjournaled" \notin risks => AckedReadable

\* A node a split call returned is there after every reopening
\* (database.cpp:1507-1579, 3513-3561).
SplitsSurvive ==
    status = "open" /\ "unjournaled" \notin risks => \A p \in grown : Known(db, p)

\* The rows form one tree: the children an internal node names exist and lie on
\* its two sides, and every other row is a child its parent names; what
\* verify() looks for (database.cpp:1558-1576, 3540-3559, 1919-1939).
TreeWellFormed ==
    status = "open" /\ "unjournaled" \notin risks =>
        /\ \A i \in DOMAIN db.rows : db.rows[i].left # 0 =>
            LET r == db.rows[i] IN
            /\ {r.left, r.right} \subseteq DOMAIN db.rows
            /\ db.rows[r.left].path = Append(r.path, 0)
            /\ db.rows[r.right].path = Append(r.path, 1)
        /\ \A i \in DOMAIN db.rows \ {0} : \E j \in DOMAIN db.rows :
            i \in {db.rows[j].left, db.rows[j].right}

\* Truncating the journal loses nothing: when it goes, the page files hold
\* every node and the store every record the object has
\* (database.cpp:2026-2035).
TruncationSafe ==
    [][Len(journal') < Len(journal) =>
         /\ db.buffer = <<>>
         /\ \A i \in DOMAIN db.rows : i \in DOMAIN DiskRows /\ DiskRows[i] = db.rows[i]]_vars

\* What open rebuilds is one tree: its nodes hang together, and the splits that
\* were acknowledged are there (database.cpp:2649-2724, 3491-3591).
StructureSurvives == TypeOK /\ SplitsSurvive /\ TreeWellFormed
=============================================================================
