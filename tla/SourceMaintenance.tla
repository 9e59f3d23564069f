-------------------------- MODULE SourceMaintenance --------------------------
(***************************************************************************)
(* A collection bound to an Iceberg source table, the IndexMaintenanceTask *)
(* that follows the table, clients, checkpoints and crashes.               *)
(*                                                                         *)
(* The task reads binding and watermark under the read lock, loads and     *)
(* scans the table with no lock, and applies the scan under the write lock *)
(* if binding and watermark are still the same.  The rows it applies are   *)
(* not in the WAL; snapshots hold them together with their watermark.      *)
(*                                                                         *)
(* One collection name.  A binding stands for the table it names.  HNSW    *)
(* compaction, which a tick ends with, is IndexCompaction.                 *)
(***************************************************************************)
EXTENDS SourceTable

CONSTANTS
    Tables,          \* the source tables, which are also the bindings
    NoBinding,       \* Option::None for a binding
    Absent,          \* the collection does not exist
    NoMark,          \* Option::None for source_snapshot_id
    ClientVec,       \* the vector clients write
    Torn,            \* a new vector with the old payload
    Kinds,           \* the index kinds created, of "flat" and "ivf"
    EveryNRows,      \* ivf_compaction_every_n_rows
    MaxCount,        \* u64::MAX of the row counter, where it saturates
    MaxCommits,      \* bound on snapshots, of all tables together
    MaxOps,          \* bound on client operations
    MaxFaults        \* bound on crashes and failing writes of the full-text index

ASSUME SourceAssumption ==
    /\ {ClientVec, Torn} \cap (Nat \cup {BadVec, NoVec}) = {}
    /\ NoVec \notin Nat \cup {BadVec}
    /\ NoBinding \notin Tables /\ Kinds \subseteq {"flat", "ivf"}
    /\ EveryNRows \in Nat /\ MaxCount \in Nat /\ MaxCommits \in Nat
    /\ IsFiniteSet(Ids)

VARIABLES
    tables,      \* the source tables
    coll,        \* the live collection
    wal,         \* client operations the next recovery replays
    snap,        \* the persisted CollectionSnapshot
    task,        \* where the maintenance task is and what it carries
    counter,     \* rows_since_compaction, 0 for no entry
    since,       \* history: rows applied to this collection since it was created,
                 \* recovered or last retrained
    commits, ops, faults \* for the bounds

vars == <<tables, coll, wal, snap, task, counter, since, commits, ops, faults>>

Mark == {NoMark} \cup (Tables \X (1 .. MaxCommits))

\* The fields of Collection that matter here, and two of history: the watermark at
\* the time of the last bind, and the ids whose rows nothing the code does keeps in
\* step with the watermark: clients wrote them, a tick that failed touched them, a
\* diff had lost the last change of them, or a full scan could not remove them.
NewCollection(kind) ==
    [kind |-> kind, rows |-> EmptyRows, binding |-> NoBinding, mark |-> NoMark,
     atBind |-> NoMark, stale |-> {}]

Idle == [pc |-> "idle"]

\* Nothing is there yet, or a bound collection that has been checkpointed.
Init ==
    /\ tables = [t \in Tables |-> NewTable]
    /\ coll \in {Absent} \cup {[NewCollection(k) EXCEPT !.binding = t] : k \in Kinds, t \in Tables}
    /\ wal = <<>> /\ snap = coll
    /\ task = Idle /\ counter = 0 /\ since = 0
    /\ commits = 0 /\ ops = 0 /\ faults = 0

----------------------------------------------------------------------------
(* The source: other engines commit, roll back and expire snapshots. *)

Source(t, table) ==
    /\ tables' = [tables EXCEPT ![t] = table]
    /\ UNCHANGED <<coll, wal, snap, task, counter, since, ops, faults>>

Commit(t) ==
    /\ commits < MaxCommits /\ commits' = commits + 1
    /\ \E kind \in CommitKinds, i \in Ids, bad, keep \in BOOLEAN :
           /\ CanCommit(tables[t], kind, i)
           /\ Source(t, Committed(tables[t], kind, i, bad, keep))

Rollback(t) ==
    \E n \in ToSet(Lineage(tables[t], tables[t].current)) \ {tables[t].current} :
        Source(t, [tables[t] EXCEPT !.current = n]) /\ UNCHANGED commits

\* Expiry is by age: the oldest snapshot goes first.
Expire(t) ==
    \E n \in (DOMAIN tables[t].snaps) \ (tables[t].expired \cup {tables[t].current}) :
        /\ 1 .. (n - 1) \subseteq tables[t].expired \cup {tables[t].current}
        /\ Source(t, [tables[t] EXCEPT !.expired = @ \cup {n}]) /\ UNCHANGED commits

----------------------------------------------------------------------------
(* Clients, through the WAL. *)

\* One WAL entry on the collection, live and on replay.  Creating what exists
\* and changing what does not leaves it alone.
Effect(c, op) ==
    CASE op.op = "create" -> IF c = Absent THEN NewCollection(op.kind) ELSE c
      [] op.op = "drop"   -> Absent
      [] op.op = "bind"   -> IF c = Absent THEN c
                             ELSE [c EXCEPT !.binding = op.table, !.atBind = c.mark]
      [] op.op = "write"  -> IF c = Absent THEN c
                             ELSE [c EXCEPT !.rows[op.id] = op.vec, !.stale = @ \cup {op.id}]

Replay(c, log) ==
    LET after[k \in 0 .. Len(log)] ==
            IF k = 0 THEN c ELSE Effect(after[k - 1], log[k])
    IN  after[Len(log)]

BindTo(t) == [op |-> "bind", table |-> t]

\* What a call logs.  A collection is created with its binding in one call.
Calls ==
    IF coll = Absent
    THEN {<<[op |-> "create", kind |-> k], BindTo(t)>> : k \in Kinds, t \in Tables}
    ELSE {<<[op |-> "drop"]>>} \cup {<<BindTo(t)>> : t \in Tables}
         \cup {<<[op |-> "write", id |-> i, vec |-> v]>> : i \in Ids, v \in {ClientVec, NoVec}}

\* create_collection, drop, set_source_binding, insert and delete.
Client ==
    /\ ops < MaxOps
    /\ \E call \in Calls :
           /\ coll' = Replay(coll, call)
           /\ wal' = wal \o call
           /\ since' = IF Head(call).op \in {"create", "drop"} THEN 0 ELSE since
    /\ ops' = ops + 1
    /\ UNCHANGED <<tables, snap, task, counter, commits, faults>>

----------------------------------------------------------------------------
(* Persistence *)

\* A snapshot takes rows and watermark together and truncates the WAL.  Entries a
\* crash leaves in between are below the snapshot's LSN and not replayed.
Checkpoint ==
    /\ <<snap, wal>> # <<coll, <<>>>>
    /\ snap' = coll /\ wal' = <<>>
    /\ UNCHANGED <<tables, coll, task, counter, since, commits, ops, faults>>

\* The process stops and recovers: the task and its counters start over.
Crash ==
    /\ faults < MaxFaults
    /\ coll' = Replay(snap, wal)
    /\ task' = Idle /\ counter' = 0 /\ since' = 0
    /\ faults' = faults + 1
    /\ UNCHANGED <<tables, wal, snap, commits, ops>>

----------------------------------------------------------------------------
(* IndexMaintenanceTask *)

Moves(next) == task' = next /\ UNCHANGED <<tables, wal, snap, commits, ops>>

Step(next) == Moves(next) /\ UNCHANGED faults

Bound == coll # Absent /\ coll.binding # NoBinding

\* bound_collections: binding and watermark, under the read lock.
Observe ==
    /\ task.pc = "idle"
    /\ Bound
    /\ Step([pc |-> "observed", binding |-> coll.binding, from |-> coll.mark])
    /\ UNCHANGED <<coll, counter, since>>

\* A tick that finds no bound collection.
QuietTick ==
    /\ task.pc = "idle"
    /\ ~Bound
    /\ UNCHANGED vars

\* from_snapshot_id is an ancestor of the current snapshot of this table.
Reaches(t, from, to) ==
    from # NoMark /\ from[1] = t /\ IsAncestor(tables[t], from[2], to)

\* What the task carries; shown and hidden are history: the ids whose rows a full
\* scan has, or whose last change a diff has or has lost.
Scanned(t, from, to, rows) ==
    [pc |-> "scanned", binding |-> t, from |-> from, to |-> to, rows |-> rows,
     full   |-> ~Reaches(t, from, to),
     shown  |-> IF Reaches(t, from, to) THEN ShownIn(tables[t], from[2], to)
                ELSE {i \in Ids : RowsAt(tables[t], to)[i] # NoVec},
     hidden |-> IF Reaches(t, from, to) THEN HiddenIn(tables[t], from[2], to) ELSE {}]

\* Mutant: a watermark that is no ancestor is an error like any other.
ScanRowsNoFallback ==
    /\ task.pc = "observed"
    /\ LET t  == task.binding
           to == tables[t].current
       IN  /\ to # 0 /\ task.from # <<t, to>>
           /\ task.from = NoMark \/ Reaches(t, task.from, to)
           /\ \E rows \in (IF Reaches(t, task.from, to)
                           THEN {DeltaRows(tables[t], task.from[2], to)}
                           ELSE FullScans(tables[t], to)) :
                  Step(Scanned(t, task.from, to, rows))
    /\ UNCHANGED <<coll, counter, since>>

\* load_source_table and scan_delta: the difference to the current snapshot, or
\* a full scan when there is no watermark or it is no ancestor.
ScanRows ==
    /\ task.pc = "observed"
    /\ LET t  == task.binding
           to == tables[t].current
       IN  /\ to # 0 /\ task.from # <<t, to>>
           /\ \E rows \in (IF Reaches(t, task.from, to)
                           THEN {DeltaRows(tables[t], task.from[2], to)}
                           ELSE FullScans(tables[t], to)) :
                  Step(Scanned(t, task.from, to, rows))
    /\ UNCHANGED <<coll, counter, since>>

\* No snapshot, none that is new, or the catalog or a file cannot be read.
ScanEnds ==
    /\ task.pc = "observed"
    /\ Step(Idle)
    /\ UNCHANGED <<coll, counter, since>>

\* apply_delta_row for a run of rows that all succeed.
ApplyRow(rows, r) == [rows EXCEPT ![r.id] = IF r.op = "delete" THEN NoVec ELSE r.vec]

ApplyRows(rows, rs) ==
    LET after[k \in 0 .. Len(rs)] ==
            IF k = 0 THEN rows ELSE ApplyRow(after[k - 1], rs[k])
    IN  after[Len(rs)]

\* Mutant: vectors of any length are taken.
FirstBadNever(rs) == 0

\* The first row the collection refuses, by its dimension; 0 when there is none.
FirstBad(rs) == SelectInSeq(rs, LAMBDA r : r.op = "upsert" /\ r.vec = BadVec)

Saturating(a, b) == IF a + b > MaxCount THEN MaxCount ELSE a + b

\* Mutant: only the watermark is compared.
CurrentMark == coll # Absent /\ coll.mark = task.from

\* Mutant: only the binding is compared.
CurrentBinding == coll # Absent /\ coll.binding = task.binding

\* apply_source_delta's revalidation.
Current == coll # Absent /\ coll.binding = task.binding /\ coll.mark = task.from

\* History: the ids out of step after a success.  A full scan only upserts, so what
\* it does not have and is there stays; a diff puts right what it shows.
StaleAfter ==
    IF task.full
    THEN {i \in Ids \ task.shown : coll.rows[i] # NoVec}
    ELSE (coll.stale \cup task.hidden) \ task.shown

\* apply_delta_row whose write of the full-text index fails: the vector is in the
\* index or gone from it, the old payload is still there or gone.
HalfApplyRow(rows, r) == [rows EXCEPT ![r.id] = IF r.op = "delete" THEN NoVec ELSE Torn]

\* The rows before k apply, row k makes the delta fail, and the watermark does not
\* move.
FailsAt(k, rows) ==
    /\ coll' = [coll EXCEPT
                  !.rows  = rows,
                  !.stale = @ \cup {task.rows[j].id : j \in 1 .. k}]
    /\ Moves(Idle)
    /\ UNCHANGED <<counter, since>>

\* A row is refused, or its full-text write fails half way.
ApplyFails ==
    /\ task.pc = "scanned" /\ Current
    /\ \E k \in DOMAIN task.rows :
           LET before == ApplyRows(coll.rows, SubSeq(task.rows, 1, k - 1))
           IN  \/ k = FirstBad(task.rows) /\ FailsAt(k, before) /\ UNCHANGED faults
              \/ /\ FirstBad(SubSeq(task.rows, 1, k)) = 0
                 /\ faults < MaxFaults /\ faults' = faults + 1
                 /\ FailsAt(k, HalfApplyRow(before, task.rows[k]))

\* Mutant: the watermark advances although a row failed.
ApplyPartial ==
    /\ task.pc = "scanned" /\ Current
    /\ coll' = [coll EXCEPT
                  !.rows  = ApplyRows(@, IF FirstBad(task.rows) = 0 THEN task.rows
                                         ELSE SubSeq(task.rows, 1, FirstBad(task.rows) - 1)),
                  !.mark  = <<task.binding, task.to>>,
                  !.stale = StaleAfter]
    /\ since' = Saturating(since, Len(task.rows))
    /\ Step([pc |-> "applied", n |-> Len(task.rows)])
    /\ UNCHANGED counter

\* Every row applies and the watermark advances, under one write lock.
Apply ==
    /\ task.pc = "scanned" /\ Current /\ FirstBad(task.rows) = 0
    /\ coll' = [coll EXCEPT
                  !.rows  = ApplyRows(@, task.rows),
                  !.mark  = <<task.binding, task.to>>,
                  !.stale = StaleAfter]
    /\ since' = Saturating(since, Len(task.rows))
    /\ Step([pc |-> "applied", n |-> Len(task.rows)])
    /\ UNCHANGED counter

\* A stale scan is discarded; a dropped collection is an error.
Discard ==
    /\ task.pc = "scanned" /\ ~Current
    /\ Step(Idle)
    /\ UNCHANGED <<coll, counter, since>>

\* maybe_compact_ivf up to the threshold.  Collections that are not IVF lose
\* their counter, which is kept by name.
CountRows ==
    /\ task.pc = "applied"
    /\ IF EveryNRows = 0 \/ task.n = 0 \/ coll = Absent
       THEN Step(Idle) /\ UNCHANGED counter
       ELSE IF coll.kind # "ivf" THEN Step(Idle) /\ counter' = 0
       ELSE /\ counter' = Saturating(counter, task.n)
            /\ Step(IF counter' < EveryNRows THEN Idle ELSE [pc |-> "compacting"])
    /\ UNCHANGED <<coll, since>>

\* Mutant: an untrained index loses the count of the rows it was due for.
CompactIvfForgets ==
    /\ task.pc = "compacting"
    /\ \/ counter' = 0 /\ UNCHANGED since
       \/ /\ coll # Absent /\ coll.kind = "ivf"
          /\ counter' = counter - EveryNRows /\ since' = 0
    /\ Step(Idle)
    /\ UNCHANGED coll

\* compact_ivf_collection under the write lock.  A dropped collection, another
\* kind of index or an untrained one leaves the counter due.
CompactIvf ==
    /\ task.pc = "compacting"
    /\ \/ UNCHANGED <<counter, since>>
       \/ /\ coll # Absent /\ coll.kind = "ivf"
          /\ counter' = counter - EveryNRows /\ since' = 0
    /\ Step(Idle)
    /\ UNCHANGED coll

Maintain ==
    Observe \/ QuietTick \/ ScanRows \/ ScanEnds \/ Apply \/ ApplyFails \/ Discard \/ CountRows \/ CompactIvf

Next ==
    \/ \E t \in Tables : Commit(t) \/ Rollback(t) \/ Expire(t)
    \/ Client \/ Checkpoint \/ Crash
    \/ Maintain

Spec == Init /\ [][Next]_vars

\* The ticker keeps the task going, and reading the source does not fail for ever.
Fairness == WF_vars(Maintain) /\ SF_vars(ScanRows)

FairSpec == Spec /\ Fairness

----------------------------------------------------------------------------
(* Properties *)

\* Every variable has its type; the task carries what its step needs.
TypeOK ==
    /\ tables \in [Tables -> [snaps : Seq(Snapshot), current : 0 .. MaxCommits,
                              expired : SUBSET (1 .. MaxCommits)]]
    /\ \A c \in {coll, snap} \ {Absent} :
           /\ c.rows \in [Ids -> Nat \cup {NoVec, ClientVec, Torn}]
           /\ c.binding \in Tables \cup {NoBinding} /\ c.mark \in Mark
           /\ c.stale \subseteq Ids
    /\ task.pc \in {"idle", "observed", "scanned", "applied", "compacting"}
    /\ task.pc = "scanned" => task.binding \in Tables /\ task.from \in Mark
    /\ counter \in 0 .. MaxCount /\ since \in 0 .. MaxCount

\* The watermark is honest: a row is that of the source snapshot the watermark
\* names, across scans raced by commits, rebinds and re-creations, ticks that fail
\* in any row and are retried over a longer range, checkpoints and crashes.  Out of
\* it are the rows of `stale`, until a full scan has them or a diff their last
\* change: then they are right again.
MirrorsSource ==
    (coll # Absent /\ coll.mark # NoMark) =>
        \A i \in Ids \ coll.stale : coll.rows[i] = RowsAt(tables[coll.mark[1]], coll.mark[2])[i]

\* Rows of another table are never taken for the binding's own: once a tick has
\* moved the watermark after a rebind, it names a snapshot of the table bound,
\* although the scan it comes from may have begun before the rebind.
OwnWatermark ==
    (coll # Absent /\ coll.mark # coll.atBind) => coll.mark[1] = coll.binding

\* Between ticks the counter of an IVF collection is at least the number of rows
\* applied since its centroids were last trained, so that a retraining that came
\* too early (the index was still untrained), or met an error, stays due.
RetrainingDue ==
    (task.pc = "idle" /\ coll # Absent /\ coll.kind = "ivf" /\ EveryNRows # 0)
        => since <= counter

HasBadRow(t) == \E n \in DOMAIN tables[t].snaps : BadVec \in {tables[t].snaps[n].rows[i] : i \in Ids}

\* Once source and clients are quiet the collection catches up with its source:
\* a bound collection ends with the table's current snapshot as its watermark,
\* unless the table has held a row the collection refuses.
CatchesUp ==
    <>[](Bound =>
            LET t == coll.binding
            IN  \/ tables[t].current = 0 \/ HasBadRow(t)
                \/ coll.mark = <<t, tables[t].current>>)

=============================================================================
