----------------------------- MODULE ParquetIo -----------------------------
(***************************************************************************)
(* Parquet export and import of a collection (likhadb-lakehouse): what an  *)
(* exported file holds, how a column value becomes a payload, and the two  *)
(* import loops: row by row through the WAL (WalManager, the server) and   *)
(* one insert_batch per record batch (CollectionManager, the library; the  *)
(* object-store variant runs the same loop over downloaded bytes).  Pure   *)
(* operators, no state.                                                    *)
(*                                                                         *)
(* Abstractions.  A file is whether it parses as Parquet, whether its id   *)
(* and vector columns exist and have the type and dimension the collection *)
(* needs, its payload columns, and its record batches.  A cell is null, a  *)
(* string holding the JSON text of a payload, another string, a value of a *)
(* supported type, or one of a type col_value_at does not know.  Ids and   *)
(* vectors are not null.                                                   *)
(***************************************************************************)
EXTENDS CollectionStore, SequencesExt

CONSTANT ReaderRows   \* rows per record batch of the Parquet reader

ASSUME ReaderAssumption == ReaderRows \in Nat \ {0}

NullCell == [kind |-> "null"]
JsonCell(p) == [kind |-> "json", value |-> p]

File(lines, cols) ==
    [parses |-> TRUE, fits |-> TRUE, cols |-> cols,
     lines |-> lines]

\* A file some export was cut off in, or that is not Parquet at all.
Broken == [parses |-> FALSE, fits |-> FALSE, cols |-> {}, lines |-> <<>>]

----------------------------------------------------------------------------
(* Export *)

\* One row per id that list_ids names and get finds; a payload is written as
\* its JSON text, no payload as null.
Line(i, row) ==
    [id |-> i, vec |-> row.vec,
     cells |-> [n \in {"payload"} |->
                   IF row.pay = NoPayload THEN NullCell ELSE JsonCell(row.pay)]]

ExportFile(rows) ==
    LET ids == SetToSeq({i \in Ids : rows[i] # NoRow})
    IN  File([n \in DOMAIN ids |-> Line(ids[n], rows[ids[n]])], {"payload"})

\* collection_to_parquet_bytes: the same rows into a buffer that is uploaded
\* whole.
ExportBytes(rows) == ExportFile(rows)

----------------------------------------------------------------------------
(* Payloads *)

\* col_value_at: None for a column type it does not know.  A string is taken
\* as it is, JSON text or not.
ColValueAt(cell) ==
    IF cell.kind = "unsupported" THEN NoPayload
    ELSE IF cell.kind = "json" THEN <<"text", cell.value>> ELSE cell.value

\* Mutant: the payload column is not parsed.
BuildPayloadVerbatim(cells, cols) ==
    LET present == {n \in cols : cells[n] # NullCell /\ ColValueAt(cells[n]) # NoPayload}
    IN  IF present = {} THEN NoPayload ELSE [n \in present |-> ColValueAt(cells[n])]

\* build_payload: a single column `payload` with JSON text is the payload
\* itself, otherwise the columns that have a value make an object.
BuildPayload(cells, cols) ==
    IF cols = {"payload"} /\ cells["payload"].kind = "json"
    THEN cells["payload"].value
    ELSE LET present == {n \in cols : /\ cells[n] # NullCell
                                      /\ ColValueAt(cells[n]) # NoPayload}
         IN  IF present = {} THEN NoPayload
             ELSE [n \in present |-> ColValueAt(cells[n])]

----------------------------------------------------------------------------
(* Import *)

\* What import finds wrong before it inserts a row, "ok" if nothing.  That a
\* payload column is missing shows only when there is a batch.
ImportCheck(col, file, cols) ==
    IF col = Absent THEN "not_found"
    ELSE IF ~file.parses THEN "internal"
    ELSE IF ~file.fits THEN "bad_request"
    ELSE IF file.lines # <<>> /\ ~(cols \subseteq file.cols) THEN "bad_request"
    ELSE "ok"

\* The inserts WalManager's import makes, one per row.
ImportOps(c, file, cols) ==
    [n \in DOMAIN file.lines |->
        [kind |-> "insert", c |-> c, id |-> file.lines[n].id,
         vec |-> file.lines[n].vec,
         pay |-> BuildPayload(file.lines[n].cells, cols)]]

\* The first n of them applied to the rows of a collection.
ImportRows(rows, ops, n) ==
    LET after[k \in 0 .. n] ==
            IF k = 0 THEN rows
            ELSE [after[k - 1] EXCEPT ![ops[k].id] = UpsertRow(@, ops[k].vec, ops[k].pay)]
    IN  after[n]

\* The record batches of the reader: the last one may be short.
BatchEnd(ops, b) == IF b * ReaderRows < Len(ops) THEN b * ReaderRows ELSE Len(ops)
RecordBatch(ops, b) == SubSeq(ops, (b - 1) * ReaderRows + 1, BatchEnd(ops, b))
BatchCount(ops) == (Len(ops) + ReaderRows - 1) \div ReaderRows

\* CollectionManager's import: one insert_batch per record batch.
ImportBatches(rows, ops) ==
    LET after[b \in 0 .. BatchCount(ops)] ==
            IF b = 0 THEN rows
            ELSE LET before == after[b - 1]
                     batch == RecordBatch(ops, b)
                 IN  [i \in Ids |-> BatchRow(before[i], batch, Len(batch), i)]
    IN  after[BatchCount(ops)]

\* parquet_bytes_into_collection, on the bytes of an object that was fetched.
ImportFromStore(rows, bytes, c, cols) ==
    ImportBatches(rows, ImportOps(c, bytes, cols))
=============================================================================
