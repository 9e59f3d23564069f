------------------------------ MODULE WalStore ------------------------------
(***************************************************************************)
(* WalManager of likhadb-persist: every mutation is appended to wal.log    *)
(* and fsynced, then applied to the in-memory CollectionManager; a         *)
(* checkpoint writes snapshot.bin and truncates the log; opening the       *)
(* directory loads the snapshot and replays the log above its LSN.         *)
(*                                                                         *)
(* A write method holds &mut self, so requests do not interleave; what     *)
(* interleaves with them is failure: a crash at any point, a crash inside  *)
(* an append that leaves a prefix of its frames and perhaps a torn one, a  *)
(* crash between the rename and the truncate of a checkpoint or in the     *)
(* middle of recovery, and I/O errors returned by an append or a           *)
(* checkpoint.                                                             *)
(*                                                                         *)
(* Simplifications.                                                        *)
(*  - A frame is its LSN, its operation and whether it reads back: "ok",   *)
(*    "short" (cut off before its last byte) or "bad" (full length, wrong  *)
(*    checksum).  Every frame counts as one byte of wal.log.               *)
(*  - The file system keeps the order of one append's bytes, and orders a  *)
(*    rename before a later set_len.                                       *)
(*  - A crash of the checkpoint before its rename leaves only              *)
(*    snapshot.bin.tmp, which nothing reads; it is a crash in "ckpt".      *)
(*  - A directory without files is the snapshot with LSN 0 and an empty    *)
(*    store, and the empty log.                                            *)
(***************************************************************************)
EXTENDS CollectionStore

CONSTANTS
    CheckpointEveryEntries,  \* WalConfig thresholds, 0 = disabled
    CheckpointEveryBytes,
    AppendMayFail,           \* do write, flush, fsync, rename return errors?
    TearMayHappen,           \* can an interrupted write leave part of a frame?
    MaxLsn,                  \* bound: LSNs handed out
    MaxLog                   \* bound: frames in wal.log and the write buffer

ASSUME ConfigAssumption ==
    /\ CheckpointEveryEntries \in Nat /\ CheckpointEveryBytes \in Nat
    /\ AppendMayFail \in BOOLEAN /\ TearMayHappen \in BOOLEAN
    /\ MaxLsn \in Nat /\ MaxLog \in Nat

VARIABLES
    mem,        \* WalManager.inner
    phase,      \* where the process is, see Phases
    pos,        \* frames of wal.log that recovery has read
    next_lsn, wal_entries, entries_written, entries_since_checkpoint,
    snapshot_lsn, bytes_written,
    wbuf,       \* frames a failed flush left in the BufWriter
    log,        \* wal.log
    snap,       \* snapshot.bin
    worlds      \* history: the stores a restart may come back with

counters == <<next_lsn, wal_entries, entries_written,
              entries_since_checkpoint, snapshot_lsn, bytes_written>>
disk == <<log, snap>>
vars == <<phase, pos, mem, worlds, counters, wbuf, disk>>

Phases == {"down",        \* no process
           "replaying",   \* open_with_config, inside replay_wal
           "serving",     \* between two calls
           "ckpt",        \* checkpoint, before the rename
           "ckpt_trunc"}  \* checkpoint, between the rename and the truncate

Frame == [lsn : Nat, op : AllOps, st : {"ok", "short", "bad"}]

Frames(first, ops) ==
    [k \in 1 .. Len(ops) |-> [lsn |-> first + k - 1, op |-> ops[k], st |-> "ok"]]

\* What an interrupted write of the frames fs can have left in the file.
PartialWrites(fs) ==
    {SubSeq(fs, 1, k) : k \in 0 .. Len(fs)}
    \cup IF TearMayHappen
         THEN {Append(SubSeq(fs, 1, k - 1), [fs[k] EXCEPT !.st = t]) :
                  k \in 1 .. Len(fs), t \in {"short", "bad"}}
         ELSE {}

\* insert_batch checks that the collection exists before it logs anything.
AcceptedBatches == {ops \in Batches : mem[ops[1].c] # Absent}
Requests == Singles \cup AcceptedBatches

\* History: a request that did not complete leaves some prefix of itself.
Uncertain(ops) ==
    worlds \cup {Upto(w, ops, k) : w \in worlds, k \in 1 .. Len(ops)}

HasRoom(ops) == /\ next_lsn + Len(ops) <= MaxLsn + 1
                /\ Len(log) + Len(wbuf) + Len(ops) <= MaxLog

----------------------------------------------------------------------------
Volatile(m, n, s) ==
    /\ mem' = m /\ pos' = 0
    /\ next_lsn' = n /\ snapshot_lsn' = s
    /\ wal_entries' = 0 /\ entries_written' = 0
    /\ entries_since_checkpoint' = 0 /\ bytes_written' = 0

Init ==
    /\ mem = EmptyStore /\ worlds = {EmptyStore}
    /\ phase = "down" /\ pos = 0
    /\ next_lsn = 1 /\ wal_entries = 0 /\ entries_written = 0
    /\ entries_since_checkpoint = 0 /\ snapshot_lsn = 0 /\ bytes_written = 0
    /\ wbuf = <<>> /\ log = <<>>
    /\ snap = [lsn |-> 0, store |-> EmptyStore]

----------------------------------------------------------------------------
(* Writes *)

\* Mutant: a batch advances next_lsn by one, not by its length.
AppendToLogOneLsn(ops) ==
    /\ log' = log \o wbuf \o Frames(next_lsn, ops)
    /\ wbuf' = <<>>
    /\ bytes_written' = bytes_written + Len(ops)
    /\ next_lsn' = next_lsn + 1

\* WalWriter::append_batch succeeding: whatever an earlier failed flush left
\* in the buffer goes out first.
AppendToLog(ops) ==
    /\ log' = log \o wbuf \o Frames(next_lsn, ops)
    /\ wbuf' = <<>>
    /\ bytes_written' = bytes_written + Len(ops)
    /\ next_lsn' = next_lsn + Len(ops)

\* maybe_checkpoint's condition.
CheckpointDue(entries, bytes) ==
    \/ CheckpointEveryEntries > 0 /\ entries >= CheckpointEveryEntries
    \/ CheckpointEveryBytes > 0 /\ bytes >= CheckpointEveryBytes

\* log_and_apply: append, count, apply; an operation the manager rejects
\* stays in the log and returns before maybe_checkpoint.
LogAndApply(op) ==
    /\ phase = "serving" /\ HasRoom(<<op>>)
    /\ AppendToLog(<<op>>)
    /\ wal_entries' = wal_entries + 1
    /\ entries_written' = entries_written + 1
    /\ entries_since_checkpoint' = entries_since_checkpoint + 1
    /\ mem' = ApplyLive(mem, op)
    /\ worlds' = {ApplyLive(w, op) : w \in worlds}
    /\ phase' = IF Accepts(mem, op) /\ CheckpointDue(wal_entries', bytes_written')
                THEN "ckpt" ELSE "serving"
    /\ UNCHANGED <<pos, snapshot_lsn, snap>>

\* insert_batch: one append for all rows; it neither counts its entries nor
\* looks at the checkpoint thresholds.
InsertBatch(ops) ==
    /\ phase = "serving" /\ HasRoom(ops)
    /\ AppendToLog(ops)
    /\ mem' = ApplyBatch(mem, ops[1].c, ops, Len(ops))
    /\ worlds' = {ApplyBatch(w, ops[1].c, ops, Len(ops)) : w \in worlds}
    /\ UNCHANGED <<phase, pos, wal_entries, entries_written,
                   entries_since_checkpoint, snapshot_lsn, snap>>

\* append_batch returning an error: memory and next_lsn stay as they were.
\* The frames are still in the BufWriter, or some of their bytes are in the
\* file (a direct write cut short, or only the fsync failed).
AppendFails(ops) ==
    /\ AppendMayFail
    /\ phase = "serving" /\ HasRoom(ops)
    /\ LET fs == wbuf \o Frames(next_lsn, ops)
       IN  \/ wbuf' = fs /\ log' = log
           \/ wbuf' = <<>> /\ \E p \in PartialWrites(fs) : log' = log \o p
    /\ worlds' = Uncertain(ops)
    /\ UNCHANGED <<phase, pos, mem, counters, snap>>

----------------------------------------------------------------------------
(* Checkpoint *)

\* Periodic task, shutdown, or a caller.
Checkpoint ==
    /\ phase = "serving"
    /\ phase' = "ckpt"
    /\ UNCHANGED <<pos, mem, worlds, counters, wbuf, disk>>

RenameAt(lsn) ==
    /\ phase = "ckpt"
    /\ snap' = [lsn |-> lsn, store |-> mem]
    /\ snapshot_lsn' = lsn
    /\ entries_since_checkpoint' = 0
    /\ phase' = "ckpt_trunc"
    /\ UNCHANGED <<pos, mem, worlds, next_lsn, wal_entries, entries_written,
                   bytes_written, wbuf, log>>

\* Mutants: the snapshot claims one LSN too many, or one too few.
RenameAtNext == RenameAt(next_lsn)
RenameBelow == RenameAt(next_lsn - 2)

\* The snapshot is complete under its own name: it holds every LSN below the
\* next one.
CheckpointRename == RenameAt(next_lsn - 1)

CheckpointTruncate ==
    /\ phase = "ckpt_trunc"
    /\ log' = <<>> /\ wbuf' = <<>>
    /\ bytes_written' = 0 /\ wal_entries' = 0
    /\ worlds' = {mem}
    /\ phase' = "serving"
    /\ UNCHANGED <<pos, mem, next_lsn, entries_written, entries_since_checkpoint,
                   snapshot_lsn, snap>>

\* Writing or renaming the snapshot failed, or truncating the log did: its
\* flush, or its set_len after a flush that went through.
CheckpointFails ==
    /\ AppendMayFail
    /\ \/ phase \in {"ckpt", "ckpt_trunc"} /\ UNCHANGED <<wbuf, log>>
       \/ phase = "ckpt_trunc" /\ log' = log \o wbuf /\ wbuf' = <<>>
    /\ phase' = "serving"
    /\ UNCHANGED <<pos, mem, worlds, counters, snap>>

----------------------------------------------------------------------------
(* Crash and recovery *)

\* The process dies between two appends.
Crash ==
    /\ phase # "down"
    /\ phase' = "down"
    /\ \E p \in PartialWrites(wbuf) : log' = log \o p
    /\ wbuf' = <<>>
    /\ Volatile(EmptyStore, 1, 0)
    /\ UNCHANGED <<worlds, snap>>

\* The process dies inside an append, or after it and before the reply.
CrashInAppend(ops) ==
    /\ phase = "serving" /\ HasRoom(ops)
    /\ phase' = "down"
    /\ \E p \in PartialWrites(wbuf \o Frames(next_lsn, ops)) : log' = log \o p
    /\ wbuf' = <<>>
    /\ worlds' = Uncertain(ops)
    /\ Volatile(EmptyStore, 1, 0)
    /\ UNCHANGED snap

\* Mutant: LSNs start at 1 again after a restart.
OpenAtOne ==
    /\ phase = "down"
    /\ phase' = "replaying"
    /\ Volatile(snap.store, 1, snap.lsn)
    /\ UNCHANGED <<worlds, wbuf, disk>>

\* open_with_config: load the snapshot, start replay_wal.
Open ==
    /\ phase = "down"
    /\ phase' = "replaying"
    /\ Volatile(snap.store, snap.lsn + 1, snap.lsn)
    /\ UNCHANGED <<worlds, wbuf, disk>>

\* Mutant: an entry the snapshot covers is not passed over.
ReplayEntryStuck ==
    /\ phase = "replaying" /\ pos < Len(log) /\ log[pos + 1].st = "ok"
    /\ log[pos + 1].lsn > snapshot_lsn
    /\ pos' = pos + 1
    /\ wal_entries' = wal_entries + 1
    /\ mem' = ReplayOp(mem, log[pos + 1].op)
    /\ next_lsn' = log[pos + 1].lsn + 1
    /\ entries_since_checkpoint' = entries_since_checkpoint + 1
    /\ UNCHANGED <<phase, worlds, entries_written, snapshot_lsn,
                   bytes_written, wbuf, disk>>

\* One iteration of replay_wal's loop.
ReplayEntry ==
    /\ phase = "replaying" /\ pos < Len(log) /\ log[pos + 1].st = "ok"
    /\ pos' = pos + 1
    /\ wal_entries' = wal_entries + 1
    /\ IF log[pos + 1].lsn <= snapshot_lsn
       THEN UNCHANGED <<mem, next_lsn, entries_since_checkpoint>>
       ELSE /\ mem' = ReplayOp(mem, log[pos + 1].op)
            /\ next_lsn' = log[pos + 1].lsn + 1
            /\ entries_since_checkpoint' = entries_since_checkpoint + 1
    /\ UNCHANGED <<phase, worlds, entries_written, snapshot_lsn,
                   bytes_written, wbuf, disk>>

\* WalReader has no next entry: the file ends, or a torn frame ends it.  A
\* cut-off frame with later frames behind it swallows their bytes, so the
\* reader may run into the end of the file inside it.
EndOfLog ==
    \/ pos = Len(log)
    \/ /\ pos < Len(log)
       /\ log[pos + 1].st # "ok"
       /\ pos + 1 = Len(log) \/ log[pos + 1].st = "short"

\* A checksum mismatch with bytes left behind it is a fatal Crc error.
MidLogCorruption ==
    /\ pos + 1 < Len(log)
    /\ log[pos + 1].st # "ok"

\* The log is opened for appending at the end of the file, torn tail included.
OpenFinish ==
    /\ phase = "replaying" /\ EndOfLog
    /\ phase' = "serving" /\ pos' = 0
    /\ worlds' = {mem}
    /\ bytes_written' = Len(log)
    /\ UNCHANGED <<mem, next_lsn, wal_entries, entries_written,
                   entries_since_checkpoint, snapshot_lsn, wbuf, disk>>

OpenFails ==
    /\ phase = "replaying" /\ MidLogCorruption
    /\ phase' = "down"
    /\ Volatile(EmptyStore, 1, 0)
    /\ UNCHANGED <<worlds, wbuf, disk>>

----------------------------------------------------------------------------
Next ==
    \/ \E op \in Ops : LogAndApply(op)
    \/ \E ops \in AcceptedBatches : InsertBatch(ops)
    \/ \E ops \in Requests : AppendFails(ops)
    \/ \E ops \in Requests : CrashInAppend(ops)
    \/ Checkpoint \/ CheckpointRename \/ CheckpointTruncate \/ CheckpointFails
    \/ Crash
    \/ Open \/ ReplayEntry \/ OpenFinish \/ OpenFails

Spec == Init /\ [][Next]_vars

\* Fairness: a supervisor restarts the process, and the loops of open and
\* checkpoint do not stop halfway.
Fairness == /\ WF_vars(Open) /\ WF_vars(ReplayEntry) /\ WF_vars(OpenFinish)
            /\ WF_vars(CheckpointRename) /\ WF_vars(CheckpointTruncate)

FairSpec == Spec /\ Fairness

----------------------------------------------------------------------------
(* Properties *)

TypeOK ==
    /\ phase \in Phases
    /\ mem \in Store
    /\ pos \in 0 .. Len(log) /\ (phase # "replaying" => pos = 0)
    /\ next_lsn \in Nat \ {0}
    /\ snapshot_lsn \in Nat
    /\ wal_entries \in Nat /\ entries_written \in Nat
    /\ entries_since_checkpoint \in Nat /\ bytes_written \in Nat
    /\ wbuf \in Seq(Frame) /\ log \in Seq(Frame)
    /\ snap \in [lsn : Nat, store : Store]
    /\ worlds \in SUBSET Store

\* The log has a torn frame with later frames behind it.
TearBuried == \E i \in 1 .. Len(log) - 1 : log[i].st # "ok"

\* LSNs go back somewhere in the log: a batch that failed halfway was
\* followed by an entry that reuses the LSN of its first row.
LsnStraddle == \E i, j \in 1 .. Len(log) : i < j /\ log[j].lsn < log[i].lsn

\* Whatever crashed or failed, and wherever it did, the store that recovery
\* arrives at when replay_wal reaches the end of the log is the one the
\* clients were promised: every acknowledged operation is in it, in order,
\* over whatever the calls that failed or were cut off left behind.  Two
\* kinds of log are excepted, for which the code does not keep the promise
\* (DurableAlways).
DurableRecovery ==
    phase = "replaying" /\ EndOfLog /\ ~TearBuried /\ ~LsnStraddle
        => mem \in worlds

\* The same with no exception (docs/ARCHITECTURE.md, section on persistence:
\* no committed operation is lost if the process crashes).
DurableAlways ==
    phase = "replaying" /\ EndOfLog => mem \in worlds

\* The frames recovery reads, in the order it reads them.
Readable(i) == /\ i \in 1 .. Len(log)
               /\ \A j \in 1 .. i : log[j].st = "ok"

\* Every entry recovery reads has an LSN of its own, in increasing order, and
\* the next LSN the server hands out is above all of them and above the
\* snapshot.  (Replay drops an entry whose LSN is not above the snapshot's,
\* and a checkpoint claims every LSN below the next one.)
LsnOrder ==
    /\ \A i, j \in 1 .. Len(log) :
          i < j /\ Readable(j) => log[i].lsn < log[j].lsn
    /\ phase \notin {"down", "replaying"} =>
          /\ snap.lsn < next_lsn
          /\ \A i \in 1 .. Len(log) : Readable(i) => log[i].lsn < next_lsn

\* A checkpoint never replaces the snapshot by an older one, and what recovery
\* has to start from only moves forward, through any number of crashes.
SnapshotAdvances == [][snap'.lsn >= snap.lsn]_snap

CrashStep == Crash \/ \E ops \in Requests : CrashInAppend(ops)

\* Once the process stops dying, it comes back into service, whatever whole
\* frames the crashes left in the log and wherever they cut a checkpoint.
\* (Behind a buried torn frame open_with_config can fail on every attempt.)
RecoveryCompletes == <>[][~CrashStep]_vars => []<>(phase = "serving")

\* WalManager keeps the promise of DurableStore: a restart only ever returns
\* to a store that the acknowledged operations allow.
Promise == INSTANCE DurableStore WITH
    up  <- phase \in {"serving", "ckpt", "ckpt_trunc"},
    mem <- IF phase \in {"serving", "ckpt", "ckpt_trunc"} THEN mem ELSE EmptyStore
PromiseKept == Promise!Spec
============================================================================
