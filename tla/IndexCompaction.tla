--------------------------- MODULE IndexCompaction ---------------------------
(***************************************************************************)
(* Off-thread compaction of an HNSW collection: the maintenance task       *)
(* captures the live vectors under the store lock and opens a journal, a   *)
(* blocking worker rebuilds the graph without the lock, and the swap       *)
(* replays the journal under the lock again.  Meanwhile clients write to   *)
(* the collection, drop it and create it again under the same name: a plan *)
(* finds its collection by name only.                                      *)
(*                                                                         *)
(* One collection name; the store's RwLock makes every action atomic.      *)
(* Payloads and FTS documents are not touched by compaction and left out.  *)
(***************************************************************************)
EXTENDS HnswIndex

CONSTANTS Workers,            \* rebuilds that may be under way
          NoCollection,       \* the name is not in the CollectionManager
          NoJournal,          \* compaction_journal = None
          Nobody,
          TombNum, TombDen,   \* hnsw_compaction_tombstone_ratio = TombNum / TombDen
          MaxBatch,           \* bound: rows of an insert_batch
          MaxNodes,           \* bound: physical nodes before an insert is refused
          MaxJournal          \* bound: journalled mutations

ASSUME CompactionAssumption ==
    /\ TombNum \in Nat /\ TombDen \in Nat \ {0}
    /\ MaxBatch \in Nat /\ MaxNodes \in Nat /\ MaxJournal \in Nat
    /\ Nobody \notin Workers
    /\ NoCollection \notin Index /\ NoJournal \notin Seq(Mutations)

VARIABLES
    index,    \* Collection.index, or NoCollection
    journal,  \* Collection.compaction_journal
    plan,     \* plan[w]: the rebuild worker w is at
    rows,     \* history: what clients wrote to this collection
    owner,    \* history: the worker whose prepare opened the journal
    mixed     \* history: a plan was swapped in with another plan's journal

vars == <<index, journal, plan, rows, owner, mixed>>

Idle == [st |-> "idle", vectors |-> <<>>, built |-> EmptyIndex]

NoRows == [i \in Ids |-> NoVec]

Exists == index # NoCollection
JournalRoom(n) == journal # NoJournal => Len(journal) + n <= MaxJournal
HasRoom(n) == Len(index.nodes) + n <= MaxNodes /\ JournalRoom(n)

\* The journal with ms behind it, if there is one.
Journalled(ms) == IF journal = NoJournal THEN NoJournal ELSE journal \o ms

Init ==
    /\ index = NoCollection /\ journal = NoJournal
    /\ plan = [w \in Workers |-> Idle]
    /\ rows = NoRows /\ owner = Nobody /\ mixed = FALSE

----------------------------------------------------------------------------
(* Clients *)

CreateHnswCollection ==
    /\ ~Exists
    /\ index' = EmptyIndex /\ journal' = NoJournal
    /\ rows' = NoRows /\ owner' = Nobody /\ mixed' = FALSE
    /\ UNCHANGED plan

\* Mutant: the journal outlives the collection.
DropKeepsJournal ==
    /\ Exists
    /\ index' = NoCollection
    /\ rows' = NoRows /\ mixed' = FALSE
    /\ UNCHANGED <<journal, plan, owner>>

\* The journal goes with the collection; a worker on it does not notice.
DropCollection ==
    /\ Exists
    /\ index' = NoCollection /\ journal' = NoJournal
    /\ rows' = NoRows /\ owner' = Nobody /\ mixed' = FALSE
    /\ UNCHANGED plan

Insert(i, v) ==
    /\ Exists /\ HasRoom(1)
    /\ \E level \in Levels : index' = Upsert(index, i, v, level)
    /\ journal' = Journalled(<<[kind |-> "upsert", id |-> i, vec |-> v]>>)
    /\ rows' = [rows EXCEPT ![i] = v]
    /\ UNCHANGED <<plan, owner, mixed>>

Batches == UNION {[1 .. n -> Upserts] : n \in 2 .. MaxBatch}

InsertBatch(ms) ==
    /\ Exists /\ HasRoom(Len(ms))
    /\ \E levels \in Draws(ms) : index' = Mutated(index, ms, levels)
    /\ journal' = Journalled(ms)
    /\ rows' = [i \in Ids |->
                  LET mine == {k \in DOMAIN ms : ms[k].id = i}
                  IN  IF mine = {} THEN rows[i] ELSE ms[Latest(mine)].vec]
    /\ UNCHANGED <<plan, owner, mixed>>

\* Mutant: the row is tombstoned but the journal does not hear of it.
DeleteUnjournalled(i) ==
    /\ Exists /\ JournalRoom(1)
    /\ index' = Remove(index, i)
    /\ rows' = [rows EXCEPT ![i] = NoVec]
    /\ UNCHANGED <<journal, plan, owner, mixed>>

\* Only a delete that found its row is journalled.
Delete(i) ==
    /\ Exists /\ JournalRoom(1)
    /\ index' = Remove(index, i)
    /\ journal' = IF Existed(index, i)
                  THEN Journalled(<<[kind |-> "delete", id |-> i]>>) ELSE journal
    /\ rows' = [rows EXCEPT ![i] = NoVec]
    /\ UNCHANGED <<plan, owner, mixed>>

----------------------------------------------------------------------------
(* The maintenance task and its workers *)

\* tombstone_ratio() > threshold; an index without nodes has ratio 0.
TooManyTombstones == Dead(index) * TombDen > TombNum * Physical(index)

\* enqueue_hnsw_compaction: capture a plan and open the journal.
Prepare(w) ==
    /\ plan[w].st = "idle"
    /\ Exists /\ journal = NoJournal /\ TooManyTombstones
    /\ journal' = <<>>
    /\ plan' = [plan EXCEPT ![w] = [Idle EXCEPT !.st = "building",
                                                !.vectors = LiveVectors(index)]]
    /\ owner' = w
    /\ UNCHANGED <<index, rows, mixed>>

\* prepared.build() on the blocking worker, without the lock.
Build(w) ==
    /\ plan[w].st = "building"
    /\ \E levels \in Draws(plan[w].vectors) :
          plan' = [plan EXCEPT ![w] =
                     [Idle EXCEPT !.st = "built",
                                  !.built = Mutated(EmptyIndex, plan[w].vectors, levels)]]
    /\ UNCHANGED <<index, journal, rows, owner, mixed>>

\* The build returned an error, or its thread panicked.
BuildFails(w) ==
    /\ plan[w].st = "building"
    /\ plan' = [plan EXCEPT ![w] = [Idle EXCEPT !.st = "failed"]]
    /\ UNCHANGED <<index, journal, rows, owner, mixed>>

\* Mutant: the worker ends without cancelling.
CancelForgotten(w) ==
    /\ plan[w].st = "failed"
    /\ plan' = [plan EXCEPT ![w] = Idle]
    /\ UNCHANGED <<index, journal, rows, owner, mixed>>

\* cancel_index_compaction, by name: it closes whatever journal is there.
Cancel(w) ==
    /\ plan[w].st = "failed"
    /\ plan' = [plan EXCEPT ![w] = Idle]
    /\ journal' = NoJournal /\ owner' = Nobody
    /\ UNCHANGED <<index, rows, mixed>>

\* finish_index_compaction with the journal taken out: replay it into the
\* replacement and swap.
Swap(w) ==
    /\ \E levels \in Draws(journal) : index' = Mutated(plan[w].built, journal, levels)
    /\ mixed' = (mixed \/ owner # w)

\* finish_index_compaction, by name: an error if the collection is gone,
\* false if it has no journal.
Finish(w) ==
    /\ plan[w].st = "built"
    /\ plan' = [plan EXCEPT ![w] = Idle]
    /\ IF Exists /\ journal # NoJournal THEN Swap(w) ELSE UNCHANGED <<index, mixed>>
    /\ journal' = NoJournal /\ owner' = Nobody
    /\ UNCHANGED rows

----------------------------------------------------------------------------
Next ==
    \/ CreateHnswCollection \/ DropCollection
    \/ \E i \in Ids, v \in Vecs : Insert(i, v)
    \/ \E ms \in Batches : InsertBatch(ms)
    \/ \E i \in Ids : Delete(i)
    \/ \E w \in Workers : Prepare(w) \/ Build(w) \/ BuildFails(w) \/ Cancel(w) \/ Finish(w)

Spec == Init /\ [][Next]_vars

\* Fairness: the runtime keeps running a worker that has been spawned, and the
\* store lock is fair.
Fairness == \A w \in Workers : WF_vars(Build(w)) /\ WF_vars(Cancel(w)) /\ WF_vars(Finish(w))

FairSpec == Spec /\ Fairness

----------------------------------------------------------------------------
(* Properties *)

Plans == [st : {"idle", "building", "built", "failed"},
          vectors : Seq(Upserts), built : Index]

TypeOK ==
    /\ index \in Index \cup {NoCollection}
    /\ journal \in Seq(Mutations) \cup {NoJournal}
    /\ plan \in [Workers -> Plans]
    /\ rows \in [Ids -> Vecs \cup {NoVec}]
    /\ owner \in Workers \cup {Nobody} /\ mixed \in BOOLEAN
    /\ ~Exists => journal = NoJournal

\* get() answers what clients wrote, through every rebuild, failed build and
\* concurrent write: a swap neither loses nor resurrects a row.  Excepted are
\* collections that were given another collection's plan, which takes two
\* workers on one name.
IndexServesRows ==
    Exists /\ ~mixed => \A i \in Ids : Get(index, i) = rows[i]

\* Searches find every live row and no deleted one: there is an entry point
\* exactly while there are live rows, it is not tombstoned, the node that get()
\* reads for a live row is among the nodes search may return, and every such
\* node belongs to a live row.  (It may be an overwritten node of that row:
\* tombstones are per id.)
LiveRowsReachable ==
    Exists =>
        /\ index.entry = 0 <=> LiveIds(index) = {}
        /\ index.entry # 0 => index.entry \in Hits(index)
        /\ \A i \in LiveIds(index) : IdToNode(index, i) \in Hits(index)
        /\ \A n \in Hits(index) : index.nodes[n].id \in LiveIds(index)

\* A collection is never left journalling: whatever becomes of the rebuild,
\* the journal is closed again, so it does not grow for ever and the next
\* compaction can start.
JournalCloses == journal # NoJournal ~> journal = NoJournal
=============================================================================
