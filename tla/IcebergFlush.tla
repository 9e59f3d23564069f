---------------------------- MODULE IcebergFlush ----------------------------
(***************************************************************************)
(* The Iceberg side of durability: the background IcebergFlusher copies    *)
(* logged inserts and deletes into one staging table per collection,       *)
(* advances the manager's watermark and cuts wal.log; open_with_iceberg    *)
(* rebuilds the manager after a crash.                                     *)
(*                                                                         *)
(* The flusher holds the manager's lock only while it collects a batch     *)
(* and again while it finishes it, so writes and checkpoints happen in     *)
(* between, the catalog can refuse each table on its own or commit and     *)
(* lose the answer, and the process can die anywhere.                      *)
(*                                                                         *)
(* Simplifications.                                                        *)
(*  - Torn frames and failed appends are WalStore's subject: here an       *)
(*    append is atomic and succeeds, and the counters behind WalStats and  *)
(*    the checkpoint thresholds are left out (a checkpoint may happen      *)
(*    between any two requests).                                           *)
(*  - A staging table is the set of its rows.  A retry appends a row that  *)
(*    is there already; rows are applied in LSN order, equal LSNs in any   *)
(*    order, and applying one twice in a row changes nothing.              *)
(*  - Opening the directory writes nothing that is read again, so it is    *)
(*    one step.                                                            *)
(*  - The catalog and the object store are external: a table commit is     *)
(*    atomic, as iceberg's Transaction promises.                           *)
(***************************************************************************)
EXTENDS CollectionStore, SequencesExt

CONSTANTS
    MaxBatchEntries,   \* IcebergFlusher.max_batch_entries
    IndexSnapshots,    \* is write_collection_snapshot ever called?
    TruncateMayFail,   \* can truncate_wal_up_to return an error?
    MaxLsn,            \* bound: LSNs handed out
    MaxCrashes         \* bound: crashes of the process

ASSUME FlushAssumption ==
    /\ MaxBatchEntries \in Nat \ {0} /\ MaxLsn \in Nat /\ MaxCrashes \in Nat
    /\ IndexSnapshots \in BOOLEAN /\ TruncateMayFail \in BOOLEAN
    /\ IsFiniteSet(Collections)

VARIABLES
    \* WalManager
    up, mem, next_lsn, snapshot_lsn, iceberg_watermark,
    unflushed,      \* entries logged by this process and not yet staged
    detached,       \* the writer's file is no longer the one named wal.log
    \* the data directory
    log, snap,
    \* the catalog, per collection
    staging,        \* rows of the staging table
    last_wal_lsn,   \* its last_wal_lsn property
    index_snapshot, \* the latest row of likhadb_index_snapshots
    \* flush_once
    pc, batch, todo, flush_errors,
    \* history
    promised,       \* the store after every acknowledged operation
    acked,          \* entries this process appended to wal.log
    opened_at,      \* iceberg_watermark when this process opened
    hole,           \* wal.log lacks entries that snapshot.bin does not hold
    crashes

manager == <<up, mem, next_lsn, snapshot_lsn, iceberg_watermark, unflushed, detached>>
dir == <<log, snap>>
catalog == <<staging, last_wal_lsn, index_snapshot>>
flusher == <<pc, batch, todo, flush_errors>>
history == <<promised, acked, opened_at, hole, crashes>>
vars == <<manager, dir, catalog, flusher, history>>

Entry == [lsn : Nat, op : AllOps]
IsRowOp(op) == op.kind \in {"insert", "delete"}

Entries(first, ops) == [k \in 1 .. Len(ops) |-> [lsn |-> first + k - 1, op |-> ops[k]]]

\* The entries of a sequence above an LSN, in their order.
Above(s, lsn) ==
    LET kept[k \in 0 .. Len(s)] ==
            IF k = 0 THEN <<>>
            ELSE IF s[k].lsn > lsn THEN Append(kept[k - 1], s[k]) ELSE kept[k - 1]
    IN  kept[Len(s)]

\* Largest LSN of a set of entries, or the given one.
MaxLsnOf(es, least) == LET S == {e.lsn : e \in es} \cup {least}
                       IN  CHOOSE n \in S : \A m \in S : m <= n

FlusherIdle == pc' = "idle" /\ batch' = <<>> /\ todo' = {} /\ flush_errors' = FALSE

Init ==
    /\ up = FALSE /\ mem = EmptyStore /\ next_lsn = 1 /\ snapshot_lsn = 0
    /\ iceberg_watermark = 0 /\ unflushed = <<>> /\ detached = FALSE
    /\ log = <<>> /\ snap = [lsn |-> 0, store |-> EmptyStore]
    /\ staging = [c \in Collections |-> {}]
    /\ last_wal_lsn = [c \in Collections |-> 0]
    /\ index_snapshot = EmptyStore
    /\ pc = "idle" /\ batch = <<>> /\ todo = {} /\ flush_errors = FALSE
    /\ promised = EmptyStore /\ acked = {} /\ opened_at = 0 /\ hole = FALSE
    /\ crashes = 0

----------------------------------------------------------------------------
(* The manager *)

\* log_and_apply or insert_batch: append, remember the entries for the
\* flusher, apply.  A rejected operation is logged and remembered too.
Write(ops) ==
    /\ up
    /\ ops \in Singles \/ mem[ops[1].c] # Absent
    /\ next_lsn + Len(ops) <= MaxLsn + 1
    /\ LET es == Entries(next_lsn, ops)
       IN  /\ unflushed' = unflushed \o es
           /\ IF detached
              THEN UNCHANGED <<log, acked>> /\ hole' = TRUE
              ELSE log' = log \o es /\ acked' = acked \cup ToSet(es) /\ UNCHANGED hole
    /\ next_lsn' = next_lsn + Len(ops)
    /\ mem' = Upto(mem, ops, Len(ops))
    /\ promised' = Upto(promised, ops, Len(ops))
    /\ UNCHANGED <<up, snapshot_lsn, iceberg_watermark, detached, snap,
                   catalog, flusher, opened_at, crashes>>

\* checkpoint: the snapshot takes effect; truncating the log may fail.  The
\* truncate goes through the open handle.
CheckpointAt(lsn) ==
    /\ up
    /\ snap' = [lsn |-> lsn, store |-> mem]
    /\ snapshot_lsn' = lsn
    /\ log' \in IF detached THEN {log} ELSE {<<>>, log}
    /\ promised' = mem /\ hole' = detached
    /\ UNCHANGED <<up, mem, next_lsn, iceberg_watermark, unflushed, detached,
                   catalog, flusher, acked, opened_at, crashes>>

\* Mutant: the snapshot claims an LSN that is still to be handed out.
CheckpointAhead == CheckpointAt(next_lsn)

Checkpoint == CheckpointAt(next_lsn - 1)

\* write_collection_snapshot: appends a row; the latest one is what
\* load_collection_snapshots returns.
WriteIndexSnapshot(c) ==
    /\ IndexSnapshots
    /\ up /\ mem[c] # Absent
    /\ index_snapshot' = [index_snapshot EXCEPT ![c] = mem[c]]
    /\ UNCHANGED <<manager, dir, staging, last_wal_lsn, flusher, history>>

----------------------------------------------------------------------------
(* The flusher: flush_once *)

\* Step 1 and 2, under the read lock: the oldest entries above the watermark,
\* grouped by collection.
Collect ==
    /\ up /\ pc = "idle"
    /\ LET pending == Above(unflushed, iceberg_watermark)
           n == IF Len(pending) < MaxBatchEntries THEN Len(pending) ELSE MaxBatchEntries
           es == SubSeq(pending, 1, n)
       IN  /\ n > 0
           /\ batch' = es
           /\ todo' = {e.op.c : e \in {x \in ToSet(es) : IsRowOp(x.op)}}
    /\ pc' = IF todo' = {} THEN "finish" ELSE "catalog"
    /\ UNCHANGED <<manager, dir, catalog, flush_errors, history>>

CatalogBuilt ==
    /\ pc = "catalog" /\ pc' = "staging"
    /\ UNCHANGED <<manager, dir, catalog, batch, todo, flush_errors, history>>

CatalogFails ==
    /\ pc = "catalog" /\ FlusherIdle
    /\ UNCHANGED <<manager, dir, catalog, history>>

RowsFor(c) == {e \in ToSet(batch) : IsRowOp(e.op) /\ e.op.c = c}

\* append_to_staging's transaction: rows and property in one commit.
CommitRows(c) ==
    /\ staging' = [staging EXCEPT ![c] = @ \cup RowsFor(c)]
    /\ last_wal_lsn' = [last_wal_lsn EXCEPT ![c] = MaxLsnOf(RowsFor(c), 0)]

\* Step 3 for one collection; the HashMap gives them in any order.
StageCollection(c) ==
    /\ pc = "staging" /\ c \in todo
    /\ CommitRows(c)
    /\ todo' = todo \ {c}
    /\ UNCHANGED <<manager, dir, index_snapshot, pc, batch, flush_errors, history>>

\* get_or_create_staging_table or append_to_staging returns an error; the
\* commit may have gone through and its answer been lost.  The loop goes on.
StageFails(c) ==
    /\ pc = "staging" /\ c \in todo
    /\ CommitRows(c) \/ UNCHANGED <<staging, last_wal_lsn>>
    /\ todo' = todo \ {c}
    /\ flush_errors' = TRUE
    /\ UNCHANGED <<manager, dir, index_snapshot, pc, batch, history>>

\* set_iceberg_watermark.
SetIcebergWatermark(lsn) ==
    IF lsn > iceberg_watermark
    THEN /\ iceberg_watermark' = lsn
         /\ unflushed' = Above(unflushed, lsn)
    ELSE UNCHANGED <<iceberg_watermark, unflushed>>

\* truncate_wal_up_to: rewrite wal.log with the entries above lsn, rename it
\* into place and open it.  An error before the rename changes nothing; one
\* in the reopening leaves the old handle on the unlinked file.
TruncateWalUpTo(lsn) ==
    LET kept == Above(log, lsn)
        cut  == \E e \in ToSet(log) : e.lsn <= lsn /\ e.lsn > snapshot_lsn
    IN  \/ /\ log' = kept /\ hole' = (hole \/ cut)
           /\ detached' \in (IF TruncateMayFail THEN BOOLEAN ELSE {FALSE})
        \/ /\ TruncateMayFail
           /\ UNCHANGED <<log, hole, detached>>

HasDdl == \E e \in ToSet(batch) : ~IsRowOp(e.op)

BatchMaxLsn == MaxLsnOf(ToSet(batch), 0)

\* Step 4 once every table has its rows, under the write lock; also the
\* batch that held only DDL.
FinishUpTo(cut) ==
    /\ pc \in {"staging", "finish"} /\ todo = {} /\ ~flush_errors
    /\ SetIcebergWatermark(BatchMaxLsn)
    /\ IF HasDdl THEN UNCHANGED <<log, hole, detached>> ELSE TruncateWalUpTo(cut)
    /\ FlusherIdle
    /\ UNCHANGED <<up, mem, next_lsn, snapshot_lsn, snap, catalog,
                   promised, acked, opened_at, crashes>>

\* Mutant: cut at the LSN current when the write lock is taken.
FinishUpToNow == FinishUpTo(next_lsn - 1)

\* Mutant: a batch of DDL alone returns without moving the watermark.
FinishRowsOnly ==
    \/ pc = "staging" /\ FinishUpTo(BatchMaxLsn)
    \/ pc = "finish" /\ FlusherIdle /\ UNCHANGED <<manager, dir, catalog, history>>

Finish == FinishUpTo(BatchMaxLsn)

\* Mutant: advances the watermark past a batch one of whose tables failed.
GiveUpAdvances ==
    /\ pc = "staging" /\ todo = {} /\ flush_errors
    /\ SetIcebergWatermark(BatchMaxLsn)
    /\ FlusherIdle
    /\ UNCHANGED <<up, mem, next_lsn, snapshot_lsn, detached, dir, catalog, history>>

\* Some table failed: the whole batch is collected again at the next tick.
GiveUp ==
    /\ pc = "staging" /\ todo = {} /\ flush_errors
    /\ FlusherIdle
    /\ UNCHANGED <<manager, dir, catalog, history>>

----------------------------------------------------------------------------
(* Crash and recovery *)

Crash ==
    /\ up /\ up' = FALSE
    /\ crashes < MaxCrashes /\ crashes' = crashes + 1
    /\ mem' = EmptyStore /\ next_lsn' = 1 /\ snapshot_lsn' = 0
    /\ iceberg_watermark' = 0 /\ unflushed' = <<>> /\ detached' = FALSE
    /\ FlusherIdle
    /\ acked' = {} /\ opened_at' = 0
    /\ UNCHANGED <<dir, catalog, promised, hole>>

\* replay_wal above an LSN.
Replayed(store, es) ==
    LET after[k \in 0 .. Len(es)] ==
            IF k = 0 THEN store ELSE ReplayOp(after[k - 1], es[k].op)
    IN  after[Len(es)]

Replay(store, above) == Replayed(store, Above(log, above))

\* Mutant: the LSN of the last entry is handed out again.
NextLsnRepeats(above) ==
    LET es == Above(log, above)
    IN  IF es = <<>> THEN above ELSE Last(es).lsn

NextLsn(above) ==
    LET es == Above(log, above)
    IN  IF es = <<>> THEN above + 1 ELSE Last(es).lsn + 1

Opened(store, above, watermark) ==
    /\ ~up /\ up' = TRUE
    /\ mem' = Replay(store, above)
    /\ next_lsn' = NextLsn(above)
    /\ snapshot_lsn' = above
    /\ iceberg_watermark' = watermark /\ opened_at' = watermark
    /\ UNCHANGED <<unflushed, detached, dir, catalog, flusher, promised, acked,
                   hole, crashes>>

\* No index snapshots: WalManager::open, snapshot.bin and wal.log.
OpenLocal ==
    /\ index_snapshot = EmptyStore
    /\ Opened(snap.store, snap.lsn, 0)

\* A staging table's rows in the order scan_pending may return them.
PendingOrders(c) ==
    {s \in SetToSeqs(staging[c]) : \A i \in 1 .. Len(s) - 1 : s[i].lsn <= s[i + 1].lsn}

\* apply_delta_row for every row, its errors ignored.
Staged(col, rows) ==
    LET after[k \in 0 .. Len(rows)] ==
            IF k = 0 THEN col
            ELSE IF rows[k].op.kind = "insert" /\ rows[k].op.vec = BadVec THEN after[k - 1]
            ELSE CollectionAfter(after[k - 1], rows[k].op)
    IN  after[Len(rows)]

\* Index snapshots, the pending rows of their collections, all of wal.log.
OpenIceberg ==
    /\ index_snapshot # EmptyStore
    /\ LET names == {c \in Collections : index_snapshot[c] # Absent}
           wms == {last_wal_lsn[c] : c \in names}
       IN  \E order \in [names -> UNION {PendingOrders(c) : c \in names}] :
              /\ \A c \in names : order[c] \in PendingOrders(c)
              /\ Opened([c \in Collections |-> IF c \in names
                            THEN Staged(index_snapshot[c], order[c]) ELSE Absent],
                        0, CHOOSE n \in wms : \A m \in wms : m <= n)

----------------------------------------------------------------------------
Next ==
    \/ \E ops \in Singles \cup Batches : Write(ops)
    \/ Checkpoint
    \/ \E c \in Collections : WriteIndexSnapshot(c)
    \/ Collect \/ CatalogBuilt \/ CatalogFails
    \/ \E c \in Collections : StageCollection(c) \/ StageFails(c)
    \/ Finish \/ GiveUp
    \/ Crash \/ OpenLocal \/ OpenIceberg

Spec == Init /\ [][Next]_vars

\* Fairness: the ticker fires again and again and flush_once runs to its end.
FlusherRuns ==
    /\ WF_vars(Collect) /\ WF_vars(CatalogBuilt) /\ WF_vars(Finish) /\ WF_vars(GiveUp)
    /\ \A c \in Collections : WF_vars(StageCollection(c))

\* The catalog stops failing at some point.
CatalogRecovers ==
    <>[][~CatalogFails /\ \A c \in Collections : ~StageFails(c)]_vars

FairSpec == Spec /\ FlusherRuns /\ CatalogRecovers

----------------------------------------------------------------------------
(* Properties *)

TypeOK ==
    /\ up \in BOOLEAN /\ mem \in Store /\ next_lsn \in Nat \ {0}
    /\ snapshot_lsn \in Nat /\ iceberg_watermark \in Nat
    /\ unflushed \in Seq(Entry) /\ detached \in BOOLEAN
    /\ log \in Seq(Entry) /\ snap \in [lsn : Nat, store : Store]
    /\ staging \in [Collections -> SUBSET Entry]
    /\ last_wal_lsn \in [Collections -> Nat]
    /\ index_snapshot \in Store
    /\ pc \in {"idle", "catalog", "staging", "finish"}
    /\ batch \in Seq(Entry) /\ todo \in SUBSET Collections /\ flush_errors \in BOOLEAN
    /\ promised \in Store /\ acked \in SUBSET Entry
    /\ opened_at \in Nat /\ hole \in BOOLEAN /\ crashes \in Nat

\* Rows of this process the flusher is answerable for: appended to wal.log
\* under an LSN above the watermark the process opened with.  (After a
\* recovery from index snapshots LSNs can start below it; the flusher never
\* looks at those entries.)
OwnRows == {e \in acked : IsRowOp(e.op) /\ e.lsn > opened_at}

\* The watermark never runs ahead of the staging tables: a logged insert or
\* delete at or below it is in its collection's table, whichever of the
\* tables failed, answered late or were retried.
WatermarkHonest ==
    \A e \in OwnRows : e.lsn <= iceberg_watermark => e \in staging[e.op.c]

\* Cutting wal.log while writers and checkpoints run never drops the last
\* copy of a row operation: it is in snapshot.bin, in wal.log or staged.
RowsKept ==
    \A e \in OwnRows : \/ e.lsn <= snapshot_lsn
                       \/ e \in ToSet(log)
                       \/ e \in staging[e.op.c]

\* With no index snapshots, a restart comes back with every acknowledged
\* operation, unless the flusher has cut entries since the last checkpoint
\* (a batch that is cut takes DDL and replayed entries with it, and the
\* restart does not read the staging tables).
DurableUnlessCut ==
    up /\ ~hole /\ index_snapshot = EmptyStore => mem = promised

Queued(n) == n > iceberg_watermark /\ \E e \in ToSet(unflushed) : e.lsn = n

\* Once the catalog answers, an entry above the watermark leaves the queue:
\* it is staged (or passed over, being DDL), or the process dies first.
QueueDrains == \A n \in 1 .. MaxLsn : Queued(n) ~> ~Queued(n)
============================================================================
