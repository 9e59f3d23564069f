------------------------------ MODULE FtsGate ------------------------------
(***************************************************************************)
(* A collection with full-text search: Collection::insert and delete of    *)
(* likhadb-store over TantivyFtsIndex of likhadb-fts, below the write      *)
(* ahead log that replays them.                                            *)
(*                                                                         *)
(* Three stores are written in turn by one call: wal.log, the Tantivy      *)
(* directory and the file fts_lsn.  Tantivy commits survive a crash that   *)
(* takes the rows in memory; replay rebuilds the rows from snapshot and    *)
(* log and must not run the documents backwards or forget one, which is    *)
(* what the gate `lsn > last_lsn` is for.                                  *)
(*                                                                         *)
(* Abstractions.  There is one collection name and one vector; a payload   *)
(* is the text its string fields add up to, or Blank when it has none.     *)
(* The index is the bag of documents of every id.  Appends to the log do   *)
(* not tear, a checkpoint is one step, and operations the manager rejects  *)
(* because of the collection's name are left out (WalStore has all three). *)
(* A Tantivy call that fails has either committed or left nothing.         *)
(***************************************************************************)
EXTENDS Naturals, Sequences, FiniteSets

CONSTANTS
    Ids, Texts,
    Blank,       \* a payload without a string field
    NoPayload,   \* Option::None for a payload
    NoRow, NoCall,
    MaxLsn,      \* bound: entries logged
    MaxEvents    \* bound: crashes, failing FTS calls, out-of-band rows

ASSUME FtsAssumption ==
    /\ Blank \notin Texts /\ NoPayload \notin Texts \cup {Blank}
    /\ NoRow \notin Texts \cup {Blank, NoPayload}
    /\ {MaxLsn, MaxEvents} \subseteq Nat

VARIABLES
    phase,    \* "down", "replaying" or "serving"
    col,      \* the collection: does it exist, has it an index, its rows
    call,     \* the insert or delete in progress, or NoCall
    pos,      \* entries of wal that replay has read
    docs,     \* the Tantivy directory: the documents of every id
    fts_lsn,  \* the file fts_lsn; TantivyFtsIndex.watermark equals it
    wal, snap,
    excused,  \* history: ids whose document the code does not keep in step
    unsaved,  \* history: ids with out-of-band rows no snapshot holds
    events    \* crashes, failing FTS calls and out-of-band rows so far

disk == <<docs, fts_lsn>>
history == <<excused, unsaved>>
vars == <<phase, col, call, pos, disk, wal, snap, history, events>>

OutOfBand == MaxLsn + 1   \* u64::MAX

Payload == Texts \cup {Blank}
NoRows == [i \in Ids |-> NoRow]
Missing == [exists |-> FALSE, fts |-> FALSE, rows |-> NoRows]

Ops == [kind : {"create", "drop", "enable_fts"}]
       \cup [kind : {"insert"}, id : Ids, pay : Payload \cup {NoPayload}]
       \cup [kind : {"delete"}, id : Ids]

\* A call under way: before its document is committed, or before the watermark.
Calls == [op : Ops, lsn : 1 .. OutOfBand, stage : {"document", "watermark"}]

ASSUME CallAssumption == NoCall \notin Calls

LastLsn == IF wal = <<>> THEN snap.lsn ELSE wal[Len(wal)].lsn

\* A new directory, or one whose collection was created with full-text search
\* and checkpointed; LSNs count from there.
Init ==
    /\ phase = "serving" /\ call = NoCall /\ pos = 0
    /\ col \in {Missing, [Missing EXCEPT !.exists = TRUE, !.fts = TRUE]}
    /\ docs = [i \in Ids |-> <<>>] /\ fts_lsn = 0
    /\ wal = <<>> /\ snap = [lsn |-> 0, col |-> col]
    /\ excused = {} /\ unsaved = {}
    /\ events = 0

----------------------------------------------------------------------------
(* TantivyFtsIndex *)

\* Mutant: the old document of the id is not removed first.
IndexDocumentAdd(i, text) == [docs EXCEPT ![i] = Append(@, text)]

\* index_document: delete_term, add_document, commit, reload.
IndexDocument(i, text) == [docs EXCEPT ![i] = <<text>>]

\* delete_document: delete_term, commit, reload.
DeleteDocument(i) == [docs EXCEPT ![i] = <<>>]

\* search, for a query that is one of the texts.
FtsSearch(text) == {i \in Ids : \E n \in DOMAIN docs[i] : docs[i][n] = text}

----------------------------------------------------------------------------
(* Collection *)

\* Does the call get past `out_of_band || lsn > fts.last_lsn()` to a Tantivy
\* write?  A payload without text is not indexed and sets no watermark.
WritesDocument(op, lsn) ==
    /\ col.fts
    /\ lsn = OutOfBand \/ lsn > fts_lsn
    /\ op.kind = "delete" \/ op.pay \in Texts

\* meta.set or meta.remove, and the vector index next to it.
StoredAs(old, op) ==
    CASE op.kind = "delete"    -> NoRow
      [] op.kind = "insert" /\ op.pay # NoPayload -> op.pay
      [] OTHER -> IF old = NoRow THEN NoPayload ELSE old

\* The row while its Tantivy write is under way: a delete has removed it, an
\* insert has stored the vector and not yet the payload.
HalfStored(old, op) ==
    IF op.kind = "delete" THEN NoRow ELSE IF old = NoRow THEN NoPayload ELSE old

\* Collection::insert and delete up to their first Tantivy call, or to the end
\* when they make none.
StartRow(op, lsn) ==
    IF WritesDocument(op, lsn)
    THEN /\ col' = [col EXCEPT !.rows[op.id] = HalfStored(@, op)]
         /\ call' = [op |-> op, lsn |-> lsn, stage |-> "document"]
    ELSE /\ col' = [col EXCEPT !.rows[op.id] = StoredAs(@, op)]
         /\ call' = NoCall

\* Collection::new, enable_fts over the directory of the name (whose documents
\* and watermark outlive the collection), drop_collection.
StartDdl(op) ==
    /\ col' = CASE op.kind = "create"     -> [Missing EXCEPT !.exists = TRUE]
                [] op.kind = "enable_fts" -> [col EXCEPT !.fts = TRUE]
                [] op.kind = "drop"       -> Missing
    /\ call' = NoCall

Start(op, lsn) ==
    IF op.kind \in {"insert", "delete"} THEN StartRow(op, lsn) ELSE StartDdl(op)

Event == events < MaxEvents /\ events' = events + 1

\* enable_fts fails and changes nothing: over an index that is open always, as
\* a second Tantivy writer cannot lock the directory, otherwise when the
\* directory does not open.
EnableFails(op) ==
    /\ op.kind = "enable_fts"
    /\ IF col.fts THEN UNCHANGED events ELSE Event
    /\ UNCHANGED <<col, call>>

\* What an entry does, in a live call and when replay comes to it.
Apply(op, lsn) ==
    \/ ~(op.kind = "enable_fts" /\ col.fts) /\ Start(op, lsn) /\ UNCHANGED events
    \/ EnableFails(op)

\* History.  The ids an operation leaves out of step by design: a text written
\* or a row deleted while there is no index, and the documents a dropped
\* collection leaves in the directory.
LeftBehind(op) ==
    CASE op.kind = "drop" -> {i \in Ids : docs[i] # <<>>}
      [] op.kind = "delete" /\ ~col.fts -> {op.id}
      [] op.kind = "insert" /\ ~col.fts /\ op.pay \in Texts -> {op.id}
      [] OTHER -> {}

----------------------------------------------------------------------------
(* Calls *)

\* log_and_apply: the entry is in wal.log before anything else changes, that
\* of a call that fails too.
Call(op) ==
    /\ phase = "serving" /\ call = NoCall
    /\ op.kind = "create" <=> ~col.exists
    /\ LastLsn < MaxLsn
    /\ wal' = Append(wal, [lsn |-> LastLsn + 1, op |-> op])
    /\ Apply(op, LastLsn + 1)
    /\ excused' = excused \cup LeftBehind(op)
    /\ unsaved' = IF op.kind = "drop" THEN {} ELSE unsaved
    /\ UNCHANGED <<phase, pos, disk, snap>>

\* apply_source_delta: a row of the source table, outside the log.
SourceRow(op) ==
    /\ phase = "serving" /\ call = NoCall /\ col.exists
    /\ Event
    /\ op.kind = "delete" \/ op.kind = "insert"
    /\ Start(op, OutOfBand)
    /\ excused' = excused \cup LeftBehind(op)
    /\ unsaved' = unsaved \cup {op.id}
    /\ UNCHANGED <<phase, pos, disk, wal, snap>>

\* The call is over: its row is stored, and document and row agree again.
Finish(op, lsn) ==
    /\ col' = [col EXCEPT !.rows[op.id] = StoredAs(@, op)]
    /\ call' = NoCall
    /\ excused' = excused \ {op.id}
    /\ unsaved' = IF lsn = OutOfBand THEN unsaved ELSE unsaved \ {op.id}

Committed == IF call.op.kind = "delete" THEN DeleteDocument(call.op.id)
             ELSE IndexDocument(call.op.id, call.op.pay)

\* Mutant: the watermark goes out before the document.
WriteDocumentLate ==
    /\ phase # "down" /\ call # NoCall /\ call.stage = "document"
    /\ IF call.lsn # OutOfBand /\ fts_lsn < call.lsn
       THEN fts_lsn' = call.lsn /\ UNCHANGED <<docs, col, call, history>>
       ELSE docs' = Committed /\ fts_lsn' = fts_lsn /\ Finish(call.op, call.lsn)
    /\ UNCHANGED <<phase, pos, wal, snap, events>>

\* Mutant: an out-of-band row goes on to set the watermark.
WriteDocumentMarks ==
    /\ phase # "down" /\ call # NoCall /\ call.stage = "document"
    /\ docs' = Committed
    /\ call' = [call EXCEPT !.stage = "watermark"]
    /\ UNCHANGED <<phase, col, pos, fts_lsn, wal, snap, history, events>>

\* index_document or delete_document; an out-of-band row is done with it.
WriteDocument ==
    /\ phase # "down" /\ call # NoCall /\ call.stage = "document"
    /\ docs' = Committed
    /\ IF call.lsn = OutOfBand
       THEN Finish(call.op, call.lsn)
       ELSE /\ call' = [call EXCEPT !.stage = "watermark"]
            /\ UNCHANGED <<col, history>>
    /\ UNCHANGED <<phase, pos, fts_lsn, wal, snap, events>>

\* set_lsn: write fts_lsn.tmp, rename it; then meta.set.
SetLsn ==
    /\ phase # "down" /\ call # NoCall /\ call.stage = "watermark"
    /\ fts_lsn' = call.lsn
    /\ Finish(call.op, call.lsn)
    /\ UNCHANGED <<phase, pos, docs, wal, snap, events>>

\* A Tantivy call or set_lsn returns an error: an insert gives up before it
\* stores the payload, a delete has removed the row.  A live call returns the
\* error; replay_wal adds the entry to entries_skipped and goes on to the next.
FtsFails ==
    /\ phase # "down" /\ call # NoCall
    /\ Event
    /\ docs' \in IF call.stage = "document" THEN {docs, Committed} ELSE {docs}
    /\ call' = NoCall
    /\ excused' = excused \cup {call.op.id}
    /\ UNCHANGED <<phase, col, pos, fts_lsn, wal, snap, unsaved>>

----------------------------------------------------------------------------
(* Checkpoint, crash, recovery *)

\* checkpoint: the snapshot in place, the log truncated.
Checkpoint ==
    /\ phase = "serving" /\ call = NoCall
    /\ snap' = [lsn |-> LastLsn, col |-> col]
    /\ wal' = <<>>
    /\ unsaved' = {}
    /\ UNCHANGED <<phase, col, call, pos, disk, excused, events>>

Crash ==
    /\ phase # "down"
    /\ Event
    /\ phase' = "down" /\ col' = Missing /\ call' = NoCall /\ pos' = 0
    /\ excused' = excused \cup unsaved /\ unsaved' = {}
    /\ UNCHANGED <<disk, wal, snap>>

\* from_snapshot: an index that does not open is left out without a word.
Open ==
    /\ phase = "down"
    /\ phase' = "replaying"
    /\ \/ col' = snap.col /\ UNCHANGED events
       \/ /\ snap.col.fts /\ Event
          /\ col' = [snap.col EXCEPT !.fts = FALSE]
    /\ UNCHANGED <<call, pos, disk, wal, snap, history>>

\* apply_op: an insert of exactly what the row already holds is skipped.
Identical(op) == op.kind = "insert" /\ col.rows[op.id] = op.pay

\* replay_wal comes to the next entry; one that cannot be applied is skipped.
ReplayEntry ==
    /\ phase = "replaying" /\ call = NoCall /\ pos < Len(wal)
    /\ pos' = pos + 1
    /\ LET e == wal[pos + 1]
       IN  IF e.lsn <= snap.lsn \/ Identical(e.op)
           THEN UNCHANGED <<col, call, excused, events>>
           ELSE /\ Apply(e.op, e.lsn)
                /\ excused' = excused \cup
                       IF e.lsn > fts_lsn THEN LeftBehind(e.op) ELSE {}
    /\ UNCHANGED <<phase, disk, wal, snap, unsaved>>

OpenFinish ==
    /\ phase = "replaying" /\ call = NoCall /\ pos = Len(wal)
    /\ phase' = "serving" /\ pos' = 0
    /\ UNCHANGED <<col, call, disk, wal, snap, history, events>>

Next ==
    \/ \E op \in Ops : Call(op) \/ SourceRow(op)
    \/ WriteDocument \/ SetLsn \/ FtsFails
    \/ Checkpoint \/ Crash \/ Open \/ ReplayEntry
    \/ OpenFinish

Spec == Init /\ [][Next]_vars

----------------------------------------------------------------------------
(* Properties *)

\* An id has at most one document, however often replay indexes it again.
TypeOK ==
    /\ phase \in {"down", "replaying", "serving"}
    /\ col \in [exists : BOOLEAN, fts : BOOLEAN,
                rows : [Ids -> Payload \cup {NoPayload, NoRow}]]
    /\ call \in {NoCall} \cup Calls
    /\ pos \in 0 .. Len(wal)
    /\ docs \in [Ids -> {<<>>} \cup {<<t>> : t \in Texts}]
    /\ fts_lsn \in 0 .. OutOfBand
    /\ wal \in Seq([lsn : 1 .. MaxLsn, op : Ops])
    /\ snap.lsn \in 0 .. MaxLsn
    /\ excused \subseteq Ids /\ unsaved \subseteq Ids

\* Between two calls, a text search finds the row that holds the text and no
\* deleted row, whatever the process went through: a crash after the Tantivy
\* commit and before the watermark, a replay that starts below the documents,
\* a checkpoint in between.  Excepted are the ids the code leaves out of step
\* (history variable excused): rows older than enable_fts, documents of a
\* dropped namesake, ids whose FTS call returned an error, and source rows a
\* crash took back that the maintenance task has yet to bring again.  A row
\* whose new payload has no text keeps its old document, so nothing is claimed
\* of it.
SearchAgrees ==
    phase = "serving" /\ call = NoCall /\ col.fts =>
        \A i \in Ids \ excused :
            /\ col.rows[i] \in Texts => i \in FtsSearch(col.rows[i])
            /\ \A t \in Texts : i \in FtsSearch(t) =>
                  col.rows[i] \in {t, Blank, NoPayload}

\* The watermark file never gets ahead of the log: the next LSN handed out
\* passes the gate, so no new write is taken for an old one.
FreshLsnsPass == fts_lsn <= LastLsn
=============================================================================
