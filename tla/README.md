# likhadb: a TLA+ verification project

likhadb is a vector database: collections of vectors with payloads, three kinds
of index, a full-text index, a write-ahead log with snapshots, and background
tasks that exchange data with Iceberg tables.  This project models the parts
that keep state across failures and threads, checks them with TLC on small
instances and proves the most important results with TLAPS for every value of
the constants.

## 1. Inventory

| Component | State | Operations | Hard behaviour |
|---|---|---|---|
| `WalManager` (likhadb-persist) | `wal.log`, `snapshot.bin`, write buffer, LSN and entry counters, the `CollectionManager` | DDL, insert, insert_batch, delete, enable_fts, set_source_binding, checkpoint, open | crashes at every point, torn frames, I/O errors, replay over a snapshot that is ahead of the log |
| `CollectionManager`, `Collection` (likhadb-store) | name → index, payloads, FTS, binding, journal | the same operations in memory; `apply_op` on recovery | replay must agree with the live path; partial failure between index, FTS and payload |
| `HnswIndex` (likhadb-index) | node slab, id → node, tombstones, entry point | insert, bulk build, delete, search, compaction plan | overwrites leave ghosts; deleting the entry point; islands of the graph |
| HNSW compaction (store, lakehouse) | plan, journal, replacement | prepare, build off-thread, finish, cancel | writes during the build, failing builds, drop and create under the same name |
| `FlatIndex`, `IvfIndex` (likhadb-index) | id and vector slabs; staging, centroids, posting lists, id → list, SQ8 quantizer | insert, overwrite, delete, train, compact, search | parallel arrays with swap-remove, a vector that changes its list, training and re-training, ties, rounding and clamping, rayon's merge order |
| `IcebergFlusher`, `open_with_iceberg` | `unflushed`, watermark, staging tables | flush_once, truncate_wal_up_to, recovery | I/O without the lock, retry after partial failure, what truncation may remove |
| `IndexMaintenanceTask`, `incremental_scan` (lakehouse) | binding, source snapshot id, IVF row counters; the source table's snapshots | tick: observe, scan, apply_source_delta, count rows, retrain | stale scans, fallback scans, retries after half an application, rows that are in no WAL, a source that rolls back, expires and rewrites |
| `TantivyFtsIndex` (likhadb-fts) | documents, watermark file | enable, index, delete, set_lsn, search | LSN gate on replay, crash between commit and watermark, errors in the middle of a row |
| `MetaStore`, `Collection::search`, `hybrid_search` | payloads | predicates, filtered search, rank fusion | missing and mistyped fields, nested predicates |
| `Pipeline` (likhadb-query) | configuration, enrichment tables, one shared table registry | execute: register, enrich, fuse, bi-encoder, cross-encoder | concurrent requests interleave at every await over one registry |
| Server (likhadb-server) | `RwLock<WalManager>`, tasks, process state | REST and gRPC handlers, periodic checkpoint, shutdown | several WAL entries per request, errors and crashes between them, drain timeout |
| Parquet import and export (lakehouse) | files under a root | export, import by row (WAL) and by batch, object-store variant | partial imports and their retry, two exports of one path, payload text that is JSON or not |

Interaction: the server holds one `RwLock<WalManager>`; REST and gRPC handlers,
the checkpoint task, the flusher and the maintenance task take it for each
call.  So one call of `WalManager` is atomic with respect to the others, and
what interleaves are calls, the steps of tasks that let go of the lock between
calls, and failures.

What makes each part correct:

* WAL: what a restart comes back with is what the acknowledged calls allow.
* Collections: replay computes what the live call computed.
* HNSW and compaction: `get` answers the last write, searches can reach every
  live row, and a rebuild changes neither; a rebuild always lets go of its
  collection.
* Iceberg flusher: the watermark covers only staged rows, cutting the log drops
  no last copy, the queue drains.
* Flat and IVF: an id has one slot, its vector in the same one, in the list the
  id map names; a full probe is brute force; nothing but insert and delete changes
  the table.
* Source maintenance: a row is that of the snapshot the watermark names, unless a
  client wrote it or the code has lost track of it (`stale`, section 4); a quiet
  collection catches up; a retraining that is due stays due.
* FTS: rows and documents agree between calls; a new write passes the gate.
* Query pipeline: an answer holds its own request's rows, those its teams may see,
  all of them up to the limits, in order.
* Server: between two guards disk and memory agree; a client error has changed
  nothing; a shutdown ends, and a clean one leaves nothing to replay.

`PROJECT.json` lists every component and, under `hazards`, each place where
this code can go wrong in a way tests hardly reach.

## 2. Plan

Every component of the inventory is modelled and checked as far as section 6 allows.
The WAL, the collections, HNSW compaction, the Iceberg flusher, the full-text gate, the
maintenance task and the server have theorems (section 5): every safety property their
passing runs check is proved.  What is left is to prove the same of `VectorIndexes`:
`PostingsAgree` as the invariant of insert and delete, then `TablesKept`, the refinement
of `VectorTable`.

`MetaFilter`, `HybridSearch` and `QueryPipeline` use a RECURSIVE operator (predicates
are trees) and stay with TLC.

## 3. Modules

| Module | Models |
|---|---|
| `CollectionStore` | `CollectionManager`/`Collection` under the six `WalOp`s, live (`Accepts`, `ApplyLive`, `ApplyBatch`) and replayed (`ReplayOp` = `apply_op`) |
| `DurableStore` | the abstract promise: a store, a set of stores a restart may come back with, no log |
| `WalStore` | `WalManager` with files, counters, failures and recovery |
| `MCWalStore` | instances of `WalStore` |
| `HnswIndex` | the bookkeeping of `HnswIndex` as pure operators |
| `IndexCompaction` | one collection name, clients, and workers that rebuild its index |
| `MCIndexCompaction` | instances of `IndexCompaction` |
| `IcebergFlush` | `flush_once`, the staging tables, `truncate_wal_up_to` and `open_with_iceberg` around the manager of `CollectionStore` |
| `MCIcebergFlush` | instances of `IcebergFlush` |
| `TopK` | the bounded heap and rayon's fold and reduce, with the reference definition of a top k |
| `FlatIndex`, `IvfIndex` | the two indexes as pure operators: slabs, k-means, SQ8, posting lists, search |
| `VectorTable` | the abstract promise of the `VectorIndex` trait: a table from ids to vectors |
| `VectorIndexes`, `MCVectorIndexes` | a flat and an IVF index under the same calls, each refining `VectorTable` |
| `SourceTable` | an Iceberg table (external) and the snapshot diff and full scan of `incremental_scan.rs` |
| `SourceMaintenance`, `MCSourceMaintenance` | the maintenance task, clients, checkpoints and crashes around one bound collection |
| `FtsGate`, `MCFtsGate` | rows, documents, watermark file and log of one collection with full-text search |
| `MetaFilter`, `HybridSearch` | payload predicates with a reference reading; filtered and hybrid search |
| `QueryPipeline`, `MCQueryPipeline` | search requests through the enriched pipeline |
| `ParquetIo` | what export writes and the two import loops do, over `CollectionStore` |
| `ServerLifecycle`, `MCServerLifecycle` | requests, guards, checkpoint task and the life of the process, over `CollectionStore` and `ParquetIo` |
| `DataInduction` | induction over numbers, sequences and recursive functions, as facts about sets and functions |
| `CollectionStoreProofs`, `WalStoreProofs` | theorems on collections, WAL and recovery |
| `IndexCompactionProofs`, `IcebergFlushProofs`, `FtsGateProofs`, `SourceMaintenanceProofs`, `ServerLifecycleProofs` | theorems on the module each is named after, with its inductive invariant |

`CollectionStore` is shared: `WalStore`, `IcebergFlush` and `ServerLifecycle` apply and
replay the same operations.  `DurableStore` and `VectorTable` are the abstract
specifications; `WalStore` and `VectorIndexes` are shown to implement them.

### WalStore

The variables carry the names of the fields of `WalManager`; `log`, `snap` and
`wbuf` are `wal.log`, `snapshot.bin` and the `BufWriter`.  `phase` is the program
counter inside `checkpoint` and `open_with_config`, the two calls in which a
crash between two steps matters; `pos` is the position of the replay.  `worlds`
is a history variable: the stores a restart may come back with, given which
calls were acknowledged, failed or cut off.

| Action | Code |
|---|---|
| `LogAndApply` | `log_and_apply` with the closures of the DDL and DML methods, `record_append`, `maybe_checkpoint` |
| `InsertBatch` | `insert_batch` |
| `AppendFails` | `append_batch` returning an error |
| `Checkpoint`, `CheckpointRename`, `CheckpointTruncate`, `CheckpointFails` | `checkpoint`, `WalWriter::truncate` |
| `Crash`, `CrashInAppend` | the process dies |
| `Open`, `ReplayEntry`, `OpenFinish`, `OpenFails` | `open_with_config`, `replay_wal`, `WalReader::next` |

Abstractions: a frame is an LSN, an operation and one of ok / short / bad; a
frame counts as one byte for the byte threshold; the order of one append's bytes
is kept by the file system, and a rename is ordered before a later `set_len`
(the directory itself is not synced by the code).  The recovery report, the
rejection of the legacy frame format, compression and encoding are left out.
FTS documents are not part of the store here.

### HnswIndex and IndexCompaction

An index is its node sequence, the tombstoned ids, the entry point and the
first node of the island the entry point is on.  A node that is inserted while
there is no entry point gets no neighbours, so no edge ever leads from it to
older nodes: that is the only part of the graph the properties need.  Random
levels are nondeterministic.  Distances, edges and pruning are left out, so
`Hits` is what some search may return, and recall is not a subject.

`IndexCompaction` has one collection name, since everything here goes by name.
`Prepare` is the locked part of `enqueue_hnsw_compaction`, `Build` and
`BuildFails` the blocking worker, `Finish` and `Cancel` the locked parts after
it.  `rows`, `owner` and `mixed` are history variables.

### IcebergFlush

`pc`, `batch`, `todo` and `flush_errors` are the locals of `flush_once`: the lock
is released after `Collect` and taken again in `Finish`, and every catalog call
between them is a step of its own.

| Action | Code |
|---|---|
| `Write`, `Checkpoint` | `log_and_apply`, `insert_batch` with `unflushed`; `checkpoint` |
| `Collect` | steps 1 and 2 of `flush_once`, `collect_unflushed` |
| `CatalogBuilt`, `CatalogFails` | `build_rest_catalog` |
| `StageCollection`, `StageFails` | `get_or_create_staging_table`, `append_to_staging`; an error may hide a commit |
| `Finish`, `GiveUp` | step 4: `set_iceberg_watermark`, `truncate_wal_up_to` |
| `WriteIndexSnapshot` | `write_collection_snapshot`, which the server never calls |
| `OpenLocal`, `OpenIceberg` | the two branches of `open_with_iceberg` |

Appends are atomic here, since `WalStore` has torn and failed ones; counters of
`WalStats` are left out and a checkpoint may come between any two requests.  The
file named `wal.log` and the writer's open file are told apart (`detached`): a
rewrite of the log that fails in reopening it leaves the writer on the unlinked
file.  `promised`, `acked`, `opened_at` and `hole` are history variables.

### Flat and IVF indexes

A slab is the pair of parallel arrays of the code; `SlabDrop` is the swap-remove.
`IvfInsert` stages until `nlist` vectors are there and then trains in the same call;
`IvfDelete`, `Train`, `Compactions` and `IvfSearch` follow the branches of the code, with and
without a quantizer.  Vectors have one dimension and are integers in units that
keep decoded SQ8 codes integral through one refit; a centroid is a sum and a
count, so means are exact.  A parallel search is the set of heaps it may end with.

### SourceTable and SourceMaintenance

The table belongs to other engines: it commits (append, copy on write, drop,
delete file, merge on read, manifest rewrite), rolls back and expires snapshots
at any time.  `scan_delta` reads the manifests of the newest snapshot, so what a diff
can see of an earlier commit is what they still show: `added` and `dropped` are the
commits whose data file is there as Added or Deleted.  A commit that drops a file
writes its manifest anew, as its own and with a Deleted entry in place of the old one
(`commit_file_drop` in `tests/incremental_scan_rest.rs:151` does it so), a merge of
manifests makes every entry Existing, and a manifest with Deleted entries only may be
left out by the next commit (`keep`: engines differ).  `DeltaRows` and `FullScans` are
what `scan_delta` makes of it.

| Action | Code |
|---|---|
| `Observe`, `QuietTick` | `run_once`, `bound_collections` |
| `ScanRows`, `ScanEnds` | `maintain_collection` up to the write lock |
| `Apply`, `Discard` | `apply_source_delta` with its revalidation |
| `ApplyFails` | the same when a row is refused, or when its full-text write fails and leaves the row half applied (`HalfApplyRow`: a new vector with the old payload is `Torn`) |
| `CountRows`, `CompactIvf` | `maybe_compact_ivf` |
| `Client`, `Checkpoint`, `Crash` | calls through the WAL; snapshots take rows and watermark together; recovery |

`atBind` and `stale` (fields of `coll`), `shown` and `hidden` (of what the task carries)
and `since` are history.  `stale` holds the ids whose rows nothing the code does keeps in
step with the watermark: those a client wrote, those a failed tick touched, those a full
scan cannot remove and those whose last change a diff has lost.  An id leaves the set
when a full scan has its row or a diff its last change.

### FtsGate

One call writes three stores in turn, and the model has a step for each: `Call` logs
and starts the row, `WriteDocument` commits to Tantivy, `SetLsn` renames the watermark
file and stores the payload; `FtsFails` or `Crash` may come at each.  `EnableFails` is an
`enable_fts` that returns an error, always so over an index that is open.  `Apply` is
what an entry does, live and on replay: on replay too an entry may fail, half way through
its row, and then it is skipped and `ReplayEntry` goes on with the next
(`wal/mod.rs:478`), whose `set_lsn` moves the watermark past it.  `SourceRow` is a row
outside the log.  Tantivy is external: its commits are atomic and durable.

### Query pipeline

`SearchStep` is the handler up to the end of its read guard; `RegisterCandidates`,
`Enrich`, `FuseScores`, `BiEncode`, `CrossEncode` are the stages between two awaits of
`Pipeline::execute`; `NameTaken` is the error of a registration.  The registry is
DataFusion's and external: registering a taken name is an error, the clone of a
`SessionContext` shares it.  Scores are integers over the common denominator of one
request; the model services return any scores or an error.  The server builds its
pipeline without re-rankers; the library takes them, so they are modelled.

### ServerLifecycle and ParquetIo

`todo` is what a handler has still to call under its guard, so that an error or a crash
can fall between two calls of one request.  `Acquire` and `Release` are the write guard,
`BeginExport` and `EndExport` the read guard of an export; queries wait for somebody else
after their guard (`Respond`), which may never come.  `Sigterm`, `Drain`, `FinalCheckpoint`
and `Exit` are `main` after the signal, the two servers drained one after the other.
Here the WAL is its promise: `log` and `snap`, an append whole or failed; the failures
inside it are `WalStore`'s subject.

## 4. Runs

| Run | Result | Shows |
|---|---|---|
| `wal_faults` | pass | `TypeOK`, `DurableRecovery`, `SnapshotAdvances` with crashes, torn frames and I/O errors |
| `wal_refines` | pass | `PromiseKept` (refinement of `DurableStore`), `LsnOrder`, `RecoveryCompletes` for all operation kinds, without I/O errors and torn frames |
| `wal_torn_tail` | violation | acknowledged entries behind a torn frame are lost |
| `compaction` | pass | `TypeOK`, `IndexServesRows`, `LiveRowsReachable`, and `JournalCloses` under fairness |
| `flush` | pass | `TypeOK`, `WatermarkHonest`, `RowsKept`, `DurableUnlessCut` with catalog failures, lost answers, failing log rewrites and a crash |
| `flush_live` | pass | `QueueDrains` under fairness |
| `indexes` | pass | `PostingsAgree`, `FullProbeExact`, `FindsItself`, `Sq8Nearest`, and `TablesKept` (refinement of `VectorTable`) |
| `source_retry` | pass | `MirrorsSource` over every kind of commit, with refused rows, a full-text write that fails in a delta or a crash, and retries |
| `source_clients` | pass | `MirrorsSource`, `OwnWatermark`, `RetrainingDue` with two tables and two client calls: drop and create, rebind, writes; and `CatchesUp` under fairness |
| `fts` | pass | `SearchAgrees`, `FreshLsnsPass` with two events out of crashes, FTS errors (live and on replay) and source rows |
| `query` | pass | `OwnAnswers`, `RankedAnswers`, `FilterHonoured` for two requests at a time |
| `server` | pass | `RestartSame`, `CreatorsOptions`, `CleanStop`, `ImportFaithful`, `ClientErrorsHarmless`, and `ShutdownCompletes` under fairness |

Bounds.  They limit the instance only; the code has no such limits.

* `wal_faults` hands out 3 LSNs over a log of at most 3 frames with batches of 2: enough
  for create, a failed or torn write and a write after it, with any number of
  crashes, checkpoints and recoveries between.  Operations are chosen so that
  leaving one out, repeating one or swapping two changes the store.  `wal_refines`
  uses every kind of operation, accepted and rejected.
* `compaction`: one worker, two ids, 3 physical nodes and 2 journalled mutations: a
  live row and a dead node, a rebuilt index, a journal that deletes, overwrites
  or revives; drop and create at every point.
* `flush`: two collections, so that one staging table fails while the other commits,
  three LSNs in flusher batches of two, so that a write can arrive while a batch is
  in flight and a batch can be split, one crash.  `flush_live` takes two entries one
  by one.
* `indexes`: three ids and three vectors over two lists, so that training leaves
  one vector to come, an overwrite moves between lists and a distance ties; one
  compaction, since each may fit a quantizer to decoded values.
* `source_retry`: three commits and two ids, so that a diff holds a good row before
  a refused one, a retry covers a longer range and a drop is followed by another
  commit; one client call, and one fault (a crash or a full-text error).
  `source_clients`: two tables, one id, two commits and two client calls beside one
  fault, so that a collection is dropped and created again with the same binding, or
  rebound there and back, within one tick.  A collection may be bound and checkpointed
  at the start, so that calls are not spent on that.  The row counter saturates at 3.
* `fts`: four LSNs and two events (an event is a crash, an FTS error or a source row):
  an insert, an overwrite and a delete around a crash, with a crash in the replay.
* `query`: four rows at distances -3, -2, 0 and 1, two on each side of -1; every corpus
  over five kinds of row; five configurations, two of them invalid; k at 0, at its limit
  and above; both search kinds.
* `server`: two clients, three requests, two lives, one fault, a checkpoint threshold
  of four, two paths: two creates of one name, an import against a create, two
  exports of one path, a query that never ends.

CHECK_DEADLOCK is off in `query` and `server`, whose instances come to an end: requests
all answered, lives used up.  Symmetry is used in `fts` and `source_retry`, which have no
liveness property and treat ids alike.

Fairness.  `WalStore`: a supervisor restarts the process (`Open`), and the loops of
open and checkpoint go on; no fairness of clients, crashes or errors.
`RecoveryCompletes` assumes that crashes stop.  `IndexCompaction`: tokio goes on running
a spawned task and its `RwLock` is fair, so `Build`, `Finish` and `Cancel` are weakly
fair; `Prepare` and clients are not.  `IcebergFlush`: the ticker of the flusher's loop
fires for ever and `flush_once` runs to its end, so its steps are weakly fair; the
catalog is assumed to stop failing at some point (`CatalogRecovers`), without which a
batch with two tables may fail for ever on one of them in turn.
`SourceMaintenance`: the ticker keeps the task going (weak fairness of its steps), and
a read of the source that is tried again and again succeeds at some time (strong
fairness of `ScanRows`); the bounds make source and clients quiet in the end.
`ServerLifecycle`: a handler inside a guard goes on, since there is no await in it, and
`main` goes on, since each of its waits has a timeout and the lock is first come,
first served; clients, model services and readers of a stream owe nothing.

### Excepted cases

Where the code does not keep a promise in full, the property says which states
it leaves out, and this is the list of them.

* WAL.  `DurableRecovery` leaves out logs with a torn frame in front of later frames
  (`TearBuried`, shown by `wal_torn_tail`) and logs whose LSNs go back (`LsnStraddle`): a
  batch append that returns an error after some frames reached the file leaves
  `next_lsn` where it was (`wal/mod.rs:797`), the next acknowledged entry reuses the LSN,
  and after a checkpoint that was cut off before its truncation recovery replays the
  failed batch's later rows on top, although `mod.rs:736` says that each row's own LSN
  preserves replay order.  `insert_batch` does not count its entries
  (`mod.rs:807`), so `entries_since_checkpoint` is not what `mod.rs:223` says it is, and
  batches never reach the entry threshold.  Creates refused with InvalidArgument
  (`manager.rs:81`, `:106`, `:131`) are left out: they are logged and, live and on replay
  (`recovery.rs:45`), leave the store as it was, as a refused insert does in the model.
* Compaction.  `finish_index_compaction` accepts any plan when the collection of that
  name has a journal (`collection.rs:387`).  With two workers on one name, a plan of a
  dropped collection can be swapped into the one created after it;
  `collection.rs:382` says it returns false then.  `IndexServesRows` leaves out a collection
  that was given such a plan (`mixed`).
* HNSW.  `commit_insert` tombstones an overwritten id and revives it a few lines
  below (`hnsw.rs:386`), so a search may return the old node with the old score besides
  the new one, which `hnsw.rs:55` excludes.  `LiveRowsReachable` claims reachability only.
* Flusher.  `WatermarkHonest` and `RowsKept` are about entries that reached `wal.log`
  under an LSN above the watermark the process opened with (`OwnRows`); after a
  recovery from index snapshots LSNs can start below it.  `DurableUnlessCut` leaves out
  what the flusher cut, or a detached writer lost, since the last checkpoint (`hole`):
  `truncate_wal_up_to` (`iceberg_flusher.rs:193`) removes entries that only the staging
  tables hold, and a restart without index snapshots does not read those;
  `docs/ARCHITECTURE.md:192` promises that no committed operation is lost.
* Source maintenance.  `MirrorsSource` leaves out `stale` rows.  A full rescan upserts and
  deletes nothing, so rows the source no longer has remain.  A diff skips the entries a
  manifest rewrite marks Existing (`incremental_scan.rs:262`) and does not see
  a Deleted entry whose manifest a later commit left out, so it loses the addition or the
  deletion although the watermark moves over it, and
  `rfc_incremental_index_maintenance.md:152` calls a diff "always a precise, replayable
  range".  A client's write to a row stays until a scan
  brings that row.  Rebinding to another column of the same table is not
  modelled: a binding is its table.
* FTS.  `excused` are rows older than `enable_fts`, documents that outlive a dropped
  collection, ids whose FTS call failed, live or on replay, until they are written
  again, and source rows a crash took back.  A payload without text keeps the old
  document.  An entry that fails on replay is skipped and its row stays half stored
  (`wal/mod.rs:478`); a second `enable_fts` is such an entry and changes nothing;
  `from_snapshot` drops an index that does not open without a word.
* Query.  Registering `candidates` on the shared registry means that the second enriched
  request of a process fails with "table already exists": no answer is wrong, but
  `session.rs:75` calls the context isolated.  With the dot metric distances are negative
  (`distance.rs:7`) and 1 / (1 + d) changes its sign at -1: of two rows on either side of it
  the farther one comes first, against `config.rs:150` ("lower distance → higher score").
  `RankedAnswers` claims the order on each side; a distance of exactly -1, a division by
  zero, is not in the model.  A hybrid request hands rank-fusion scores (higher is better) on as
  distances.  The full-text half of a hybrid query is not filtered.  With both
  re-rankers the limit is the configured one, not the request's k.
* Server.  An import answers a client error for an I/O error and keeps the rows before
  it; `ClientErrorsHarmless` leaves imports out.  A create that fails or dies half way
  leaves a collection without its options (`partial`).  Two exports of different
  collections to one path may leave a mixture.  The model takes it as a file that does
  not parse; with equal row counts and dimensions the offsets are the same
  (`wal_io.rs:40-75`) and a mixture can parse, so `ImportFaithful` is about whole files.  A
  write error of an export (`wal_io.rs:44-74`), which leaves a cut file, is left out: a
  crash leaves the same one.  After a drain
  timeout requests may write behind the final checkpoint: `CleanStop` is about
  shutdowns that drained.

## 5. Theorems

All proof modules are checked by TLAPS to the last step, for every value of the
constants.  The bounds of the models (LSNs, batches, commits, crashes, operations) are
arbitrary naturals here, the sets of ids, names, tables, workers and values arbitrary
sets.  The named assumptions say no more than this:

* sentinels differ from the values they stand for (`SentinelAssumption`,
  `AbsentAssumption`, `IndexAssumption`, `FtsAssumption`, `CallAssumption`, parts of
  `CompactionAssumption`, `SourceAssumption` and `RequestAssumption`), as the variants of
  a Rust enum do;
* bounds, thresholds and levels are naturals, flags are Booleans (`OpsAssumption`,
  `ConfigAssumption`, `FlushAssumption`, `CompactionAssumption`, `SourceAssumption`);
* `Collections` (flusher) and `Ids` (source maintenance, server) are finite: a batch has
  a largest LSN, and the rows of a commit or of an export can be put in a sequence;
* a request names a collection and carries operations of its own kind
  (`RequestAssumption`), and the store and the files a server starts with are a store
  and files (`SeedAssumption`).

TLC evaluates them in the runs of the same modules.  Each inductive invariant was an
invariant of a TLC run before it was proved (where it speaks of any rows, over those of
the instance).

### Collections and WAL

* `ReplayAgrees`, `BatchReplaysRowByRow`: `apply_op` computes what the live path
  computes, one operation at a time, and a batch replayed row by row gives the
  bulk insert.  These carry everything below.
* `TypeCorrect`: `Spec => []TypeOK`.
* `SnapshotNeverGoesBack`: `Spec => SnapshotAdvances`, with every failure the
  model has.  The strengthening says that the snapshot's LSN is below `next_lsn`
  whenever a checkpoint may run, through replay as well: replay starts above the
  snapshot and only takes entries above it.
* `RecoveryIsDurable`: `Spec => []DurableRecovery`, with every failure the model has.
  `DurableRecovery` is about the end of a replay and not inductive; `DurableInv` speaks
  of the image of the disk, the stores that replaying the readable frames above the
  snapshot's LSN passes through.  It says of every state that, unless the log is spoilt
  (`TearBuried` or `LsnStraddle`), the image ends in `worlds`, whatever prefix of the
  write buffer reaches the file; that the same is true with the snapshot a checkpoint
  would write now in the place of the one on the disk; that `mem` is a promised store
  while serving and the image's prefix during replay; and that a snapshot under its own
  name holds `mem` until the log is truncated.  Frames of a request extend the image by
  its operations (`ExtendEnds`, from the two theorems on replay), a torn frame ends it
  (`TornEnds`), a frame behind a torn one spoils the log (`Buries`).  The rename turns
  the second statement into the first.  A completed append restores the second: in a log
  that is not spoilt its LSNs are the highest (`LastIsHighest`), so the new snapshot
  covers all of it.
* `LsnsOrdered`: assuming `AppendMayFail = FALSE`, torn frames allowed.  `LsnInv` orders
  LSNs over the readable log and keeps the buffer empty.
* `PromiseIsKept`: assuming also `TearMayHappen = FALSE`, `Spec => PromiseKept`:
  every step of `WalStore` is a step of `DurableStore` or a stutter under the
  mapping given in the module.

The two hypotheses are not conveniences: with I/O errors a failed append's LSNs are
used again, and with them or with buried torn frames a restart may lose an acknowledged
operation (section 4), so the unrestricted statements are false.

### HNSW compaction

`CompactionTypes`, `RebuildsServeRows` (`IndexServesRows`), `SearchesReachRows`
(`LiveRowsReachable`), `LoneWorkerServesRows`.  The invariant has a part on graphs and a
part on rows.  `IndexOK` says of the index, and of every index a worker has built, that
the latest node of a live id is on the entry point's island; insert, delete with its
hand-over of the entry point and a bulk build keep it.  `RebuildServes` relates the three
things that exist during a rebuild: as long as the open journal is the one a worker
started, the plan's vectors, or the index built of them, with the journal written over
them, are the rows.  Without it nothing says what a swap puts in place.
`LoneWorkerServesRows` adds that with one worker no plan of a dropped namesake is ever
accepted (`mixed` stays false): the worker that made it is still under way, and its
finish or cancel comes before the next prepare.

### Iceberg flusher

`FlushTypes`, `WatermarkStaged` (`WatermarkHonest`), `CutKeepsRows` (`RowsKept`),
`RestartKeepsPromise` (`DurableUnlessCut`).  `WatermarkHonest` and `RowsKept` need three facts
about what is in flight.  `QueueOK`: every own entry above the watermark is in
`unflushed`, in LSN order, and the watermark stays below `next_lsn` once it has moved.  `BatchOK`: a
batch is all of the queue up to its largest LSN, and while no table has failed every
row of it is staged or its table still to come; so moving the watermark to the largest
LSN passes no row.  `StagingOK`: a table holds rows of its own collection.
`RestartKeepsPromise` rests on `LocalOK`: as long as there are no index snapshots,
`wal.log` is in LSN order and replays, above the snapshot's LSN, to what was promised
unless something was cut.  A write extends that replay (by `ReplayAgrees` and
`BatchReplaysRowByRow`), a checkpoint moves its start.

### Full-text gate

`GateTypes`, `FreshLsnsPassGate` (`FreshLsnsPass`), `SearchesAgree` (`SearchAgrees`).
`SearchAgrees` is about the time between two calls.  The invariant says, at every
step, what a recovery would make of it: for every id that is not excused, `Claim` holds,
that is either rows and documents agree once the entries above the watermark are
applied, or replay has yet to come to an entry above the watermark that sets the document
right (a drop, or the write whose document was committed before its watermark).  An entry
that fails on replay excuses its own id and no other: it sets no other document, so later
entries may move the watermark past it.  `Claim` is
stated three times: for a recovery that starts now (`DiskOK`), for one that starts after
the entry reached has moved the watermark (`MarkOK`), and for the rest of the replay from
the rows in memory (`MemOK`).  `LogOK` keeps LSNs without gaps and the watermark within
the log, which is `FreshLsnsPass`.

### Source maintenance

`SourceTypes`, `OwnTablesWatermark` (`OwnWatermark`), `RetrainingStaysDue` (`RetrainingDue`),
`WatermarkIsHonest` (`MirrorsSource`), all from one invariant, `IInv`.

* `Good(tables)` is what may be under the name: nothing, or a collection whose watermark,
  if it was moved since the last bind, is one of the table bound, and whose rows, the
  stale ones apart, are those of the snapshot the watermark names.  The persisted
  collection is in it too, and every logged operation stays in it (`EffectType`), since a
  crash makes what the log leaves of the snapshot the live collection.  So does a tick,
  because binding and watermark are compared under the lock it applies under.
* `ScanOK`, of the task: whatever rows the scan under way meets when it is applied
  (`ScanDoes`), it brings the rows of its snapshot to the ids it shows; the others it
  leaves alone, and those are, for a diff that has not lost their last change, the same
  in both snapshots, and for a full scan not in the source.  It speaks of any rows because
  between scan and application clients write and crashes take rows back; `ApplyMirrors`
  draws from it that the watermark may move, and `ApplyFailsInv` that a tick that
  failed in some row has touched none but the ids it makes stale.
* `TablesOK`: a parent is older than its snapshot, so the walk through the parents ends;
  each snapshot's rows are its parent's but for the row its commit is about, and the
  entries its manifests show are of commits that wrote such files (`SnapsOK`).  That is
  what a scan needs to be right, and nothing about which entries are kept: rewriting and
  pruning may be of any kind.
* `DueOK`: between ticks and in them, the rows applied and not counted yet are the ones
  the task carries, up to saturation; and a retraining is only begun when the counter has
  reached the threshold, so that taking the threshold from it does not underflow.

What a diff brings is shown by induction along the parents (`AlongParents`, `DiffMore`,
`DiffFromAncestor`): the rows of each commit come after those of its parent, and if its
entry is still shown they bring what its snapshot has at the row it changed.
`LastChange` is the commit that decides a row.  The source only adds snapshots (`Longer`,
`Grown`), so what was true of a scan when it was read is so when it is applied.

### Server

`ServerTypes`, `RestartsSame` (`RestartSame`), `CreatorsOptionsKept` (`CreatorsOptions`),
`ShutdownIsClean` (`CleanStop`), `ClientErrorsAreHarmless` (`ClientErrorsHarmless`),
`ImportsAreFaithful` (`ImportFaithful`).  The invariant `Inv` has six parts.

* `GuardInv`: one handler at most is inside the write guard, with calls left to make
  that are a suffix of what its request started with, and no export beside it.  It is
  what lets the other parts treat a request of several calls as one.
* `DiskInv`: snapshot and log replay to the store in memory at every call, unless an
  append failed in this life; `RestartSame` says so only between guards.  It rests on
  `ReplayAgrees`.
* `ExportInv`: the collections an export reads exist until it ends, since a drop waits
  for the guard; so what is at a path stays a file that `ImportFaithful` can be shown of.
* `CleanInv`: a server that drained stays drained, so the final checkpoint finds nobody
  at work and no entry is logged behind it.
* `OptionsInv`: a collection has the options its creator asked for, or its creator is
  still between two calls and it has those asked for so far, or a call failed and it
  counts as partial.  Memory and disk may differ after a failed append, so both are
  followed.
* `TypeOK`.

### How induction is done

The library's induction theorems take an operator, which the installed provers cannot
instantiate; `DataInduction` restates induction with sets (`LeastNatural`,
`SeqInduction`) and shows that a recursion over positions, or along parents, has exactly
one solution and stays in the set its steps stay in (`Recursion`, `RecursionUnique`,
`ParentRecursion`, `ParentUnique`).  For that reason the filters and folds of the models
that are proved about are recursive functions and not `SelectSeq` or `FoldLeft`.

### Only model-checked

* Liveness (`RecoveryCompletes`, `JournalCloses`, `QueueDrains`, `CatchesUp`,
  `ShutdownCompletes`), which is outside the prover's reach.
* Everything about `VectorIndexes`: the plan of section 2.  Its invariant needs that a
  nearest centroid exists, a minimum over cross-multiplied fractions, and facts about the
  folds of training and compaction.  `FullProbeExact`, `FindsItself` and `Sq8Nearest`
  compare searches with a reference over every query of the instance.
* `QueryPipeline`, `MetaFilter`, `HybridSearch`: they reach a RECURSIVE operator, with which
  the SMT backend cannot be used.

## 6. Not modelled

* HNSW distances, edges, pruning and recall, and the SIMD kernels of likhadb-core:
  floating-point numerics.
* `PendingMaintenanceRows` and `MaintenanceConfig` (`maintenance.rs`): nothing calls
  them outside their tests.
* `import_iceberg`, the catalog and object-store client builders, Parquet's and the
  WAL's byte encoding: I/O and formats; a torn or corrupt frame and a file that does
  not parse stand for what can go wrong in them.
* Metrics, gauges, tracing, body, message and concurrency limits of the server, and
  the environment variables that configure it.
* The stress tool, benchmarks, deployment files and the Python SDK keep no state of
  the system.
