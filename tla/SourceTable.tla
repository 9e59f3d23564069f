----------------------------- MODULE SourceTable -----------------------------
(***************************************************************************)
(* An Iceberg source table as likhadb-lakehouse reads it, and the snapshot *)
(* diff of incremental_scan.rs.  Pure operators; SourceMaintenance uses    *)
(* them.                                                                   *)
(*                                                                         *)
(* The table itself belongs to other engines.  A commit changes one row:   *)
(*   append    a data file is added;                                       *)
(*   rewrite   copy on write: the row's file is dropped, another added;    *)
(*   drop      the row's file is dropped;                                  *)
(*   delete    a delete file removes the row;                              *)
(*   merge     merge on read: a delete file and a data file with a new row;*)
(*   manifests no row changes; older manifests are merged into one whose   *)
(*             entries are all Existing.                                   *)
(*                                                                         *)
(* A snapshot is its commit, its parent, its live rows and what its        *)
(* manifest list still shows of earlier commits.  One data file and one    *)
(* manifest per commit: a commit that drops a file writes the manifest of  *)
(* that file anew, with a Deleted entry of its own, and whatever the old   *)
(* manifest said is gone.  A manifest with Deleted entries only is left    *)
(* out by the next commit of some engines and kept by others.              *)
(***************************************************************************)
EXTENDS Naturals, Sequences, FiniteSets, SequencesExt

CONSTANTS
    Ids,        \* vector ids
    BadVec,     \* a vector of another dimension
    NoVec       \* no row

\* The vector a commit writes is told apart by the commit's number, or bad.
Rows == [Ids -> Nat \cup {BadVec, NoVec}]

EmptyRows == [i \in Ids |-> NoVec]

CommitKinds == {"append", "rewrite", "drop", "delete", "merge", "manifests"}
FileAdds == {"append", "rewrite", "merge"}  \* commits that add a data file
FileDrops == {"rewrite", "drop"}            \* commits that drop one
RowDeletes == {"delete", "merge"}           \* commits that add a delete file

\* added and dropped: the commits whose data file the manifests of this snapshot
\* show as Added or Deleted.
Snapshot == [kind : CommitKinds, id : Ids, parent : Nat, rows : Rows,
             added : SUBSET Nat, dropped : SUBSET Nat]

\* Snapshots are numbered; current is 0 while there is none, and the metadata
\* no longer knows the expired ones.
NewTable == [snaps |-> <<>>, current |-> 0, expired |-> {}]

RowsAt(table, n) == IF n = 0 THEN EmptyRows ELSE table.snaps[n].rows

\* A commit on top of the current snapshot.  Appends are of new ids, all others
\* of a live one: ids are unique in the table.  (The merged manifests are those of
\* a live row and all others.)
CanCommit(table, kind, i) ==
    LET live == RowsAt(table, table.current)[i] # NoVec
    IN  kind \in IF live THEN CommitKinds \ {"append"} ELSE {"append"}

\* The newest file of a row among those shown as Added: the one that holds it,
\* if its entry has not become Existing.
Holder(table, i) ==
    LET files == {n \in table.snaps[table.current].added : table.snaps[n].id = i}
    IN  {n \in files : \A m \in files : m <= n}

\* The manifest list of the next snapshot; keep: manifests with Deleted entries
\* only stay in it.
NextAdded(table, kind, i, n) ==
    (IF table.current = 0 \/ kind = "manifests" THEN {}
     ELSE table.snaps[table.current].added \ (IF kind \in FileDrops THEN Holder(table, i) ELSE {}))
    \cup (IF kind \in FileAdds THEN {n} ELSE {})

NextDropped(table, kind, n, keep) ==
    (IF table.current = 0 \/ kind = "manifests" \/ ~keep
     THEN {} ELSE table.snaps[table.current].dropped)
    \cup (IF kind \in FileDrops THEN {n} ELSE {})

Committed(table, kind, i, bad, keep) ==
    LET n      == Len(table.snaps) + 1
        before == RowsAt(table, table.current)
        row    == CASE kind = "manifests" -> before[i]
                    [] kind \in FileAdds -> IF bad THEN BadVec ELSE n
                    [] OTHER -> NoVec
    IN  [table EXCEPT
           !.current = n,
           !.snaps   = Append(@,
               [kind    |-> kind, id |-> i, parent |-> table.current,
                rows    |-> [before EXCEPT ![i] = row],
                added   |-> NextAdded(table, kind, i, n),
                dropped |-> NextDropped(table, kind, n, keep)])]

----------------------------------------------------------------------------
(* scan_delta *)

\* The snapshots in (from, to], in commit order: from `to` back through the
\* parents, as far as the metadata knows them.
CommitRange(table, from, to) ==
    LET back[n \in 0 .. Len(table.snaps)] ==
            IF n \in {0, from} \cup table.expired THEN <<>>
            ELSE Append(back[table.snaps[n].parent], n)
    IN  back[to]

Lineage(table, to) == CommitRange(table, 0, to)

IsAncestor(table, from, to) == from \in ToSet(Lineage(table, to))

Upsert(i, v) == [op |-> "upsert", id |-> i, vec |-> v]
Delete(i) == [op |-> "delete", id |-> i]

\* snapshot_ids and removed_ids: what a commit with a delete file removed, by
\* comparing the live ids before and after it.
ResolvedDeletes(table, n) ==
    {i \in Ids : RowsAt(table, table.snaps[n].parent)[i] # NoVec /\ table.snaps[n].rows[i] = NoVec}

\* What the manifests and the summaries that `to` still has say of a commit.
\* Existing entries are skipped; a delete file is also known from the summary of
\* its snapshot.
Gone(table, to, n) ==
    LET s == table.snaps[n]
    IN  (IF n \in table.snaps[to].dropped THEN {s.id} ELSE {})
        \cup (IF s.kind \in RowDeletes THEN ResolvedDeletes(table, n) ELSE {})

Added(table, to, n) ==
    IF n \in table.snaps[to].added THEN {table.snaps[n].id} ELSE {}

\* sort_changes: deletions first, so that an update of the same id survives.
CommitRows(table, to, n) ==
    SetToSeq({Delete(i) : i \in Gone(table, to, n)})
    \o SetToSeq({Upsert(i, table.snaps[n].rows[i]) : i \in Added(table, to, n)})

\* The incremental diff: every commit of the range, in commit order.
DeltaRows(table, from, to) ==
    FlattenSeq([k \in DOMAIN CommitRange(table, from, to) |->
                   CommitRows(table, to, CommitRange(table, from, to)[k])])

\* The full scan: an upsert for every live row, in the reader's order.
FullScans(table, to) ==
    LET live == {i \in Ids : RowsAt(table, to)[i] # NoVec}
    IN  {[k \in DOMAIN order |-> Upsert(order[k], RowsAt(table, to)[order[k]])] :
            order \in SetToSeqs(live)}

----------------------------------------------------------------------------
(* What a diff can know of a row *)

\* The last commit of the range that changed row i.
LastChange(table, from, to, i) ==
    LET changes == {n \in ToSet(CommitRange(table, from, to)) :
                       table.snaps[n].id = i /\ table.snaps[n].kind # "manifests"}
    IN  {n \in changes : \A m \in changes : m <= n}

\* The manifests of `to` still have the entry a commit was made with.
StillShown(table, to, n) ==
    /\ table.snaps[n].kind \in FileAdds => n \in table.snaps[to].added
    /\ table.snaps[n].kind = "drop" => n \in table.snaps[to].dropped

ShownIn(table, from, to) ==
    {i \in Ids : \E n \in LastChange(table, from, to, i) : StillShown(table, to, n)}

HiddenIn(table, from, to) ==
    {i \in Ids : \E n \in LastChange(table, from, to, i) : ~StillShown(table, to, n)}

=============================================================================
