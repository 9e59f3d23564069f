------------------------------ MODULE HnswIndex ------------------------------
(***************************************************************************)
(* The bookkeeping of likhadb-index's HnswIndex: which nodes the slab      *)
(* holds, which ids are tombstoned, which node is canonical for an id and  *)
(* where searches enter the graph.                                         *)
(*                                                                         *)
(* Simplifications.  Distances, edges and pruning are left out.  What is   *)
(* kept of the graph is its island: a node inserted while there is no      *)
(* entry point gets no neighbours, so no edge ever joins it to the nodes   *)
(* before it; `root` is the first node of the island searches run in.  The *)
(* random level of a node is a parameter.  max_level is always the level   *)
(* of the entry point (0 without one), so it is not a field.               *)
(***************************************************************************)
EXTENDS Naturals, Sequences, FiniteSets

CONSTANTS Ids, Vecs, NoVec,
          Levels       \* the levels random_level may draw

ASSUME IndexAssumption == NoVec \notin Vecs /\ Levels \subseteq Nat

Node == [id : Ids, vec : Vecs, level : Nat]

Index == [nodes   : Seq(Node),
          deleted : SUBSET Ids,
          entry   : Nat,        \* entry_point, 0 for None
          root    : Nat]        \* first node of the current island, 0 for none

EmptyIndex == [nodes |-> <<>>, deleted |-> {}, entry |-> 0, root |-> 0]

\* id_to_node: ids are never removed from it, and a later node for the same id
\* takes the entry over.
NodesOf(ix, i) == {n \in DOMAIN ix.nodes : ix.nodes[n].id = i}
Known(ix) == {i \in Ids : NodesOf(ix, i) # {}}
Latest(S) == CHOOSE n \in S : \A m \in S : m <= n
IdToNode(ix, i) == Latest(NodesOf(ix, i))

LiveIds(ix) == Known(ix) \ ix.deleted

Get(ix, i) == IF i \in LiveIds(ix) THEN ix.nodes[IdToNode(ix, i)].vec ELSE NoVec

\* len(), nodes.len() and the share of them that is dead.
Size(ix) == Cardinality(Known(ix)) - Cardinality(ix.deleted)
Physical(ix) == Len(ix.nodes)
Dead(ix) == Physical(ix) - Size(ix)

----------------------------------------------------------------------------
(* Mutations *)

MaxLevel(ix) == IF ix.entry = 0 THEN 0 ELSE ix.nodes[ix.entry].level

\* commit_insert: an overwritten id leaves its old node behind as a ghost.
Upsert(ix, i, v, level) ==
    LET new == Len(ix.nodes) + 1
    IN  [nodes   |-> Append(ix.nodes, [id |-> i, vec |-> v, level |-> level]),
         deleted |-> ix.deleted \ {i},
         entry   |-> IF ix.entry = 0 \/ level > MaxLevel(ix) THEN new ELSE ix.entry,
         root    |-> IF ix.entry = 0 THEN new ELSE ix.root]

\* Mutant: the search for a new entry point runs from the oldest node.
OldestReplacement(nodes, deleted) ==
    LET rest == {n \in DOMAIN nodes : nodes[n].id \notin deleted}
    IN  IF rest = {} THEN 0 ELSE CHOOSE n \in rest : \A m \in rest : n <= m

\* The latest node whose id is not tombstoned.
Replacement(nodes, deleted) ==
    LET rest == {n \in DOMAIN nodes : nodes[n].id \notin deleted}
    IN  IF rest = {} THEN 0 ELSE Latest(rest)

\* delete: tombstone the id, and move the entry point if it belongs to it.
Existed(ix, i) == i \in LiveIds(ix)

Remove(ix, i) ==
    IF ~Existed(ix, i) THEN ix
    ELSE LET dead == ix.deleted \cup {i}
             entry == IF ix.entry # 0 /\ ix.nodes[ix.entry].id = i
                      THEN Replacement(ix.nodes, dead) ELSE ix.entry
         IN  [ix EXCEPT !.deleted = dead, !.entry = entry]

----------------------------------------------------------------------------
(* Runs of mutations: insert_batch, build and the replay of a journal *)

Upserts == [kind : {"upsert"}, id : Ids, vec : Vecs]
Deletes == [kind : {"delete"}, id : Ids]
Mutations == Upserts \cup Deletes

Mutate(ix, m, level) ==
    IF m.kind = "upsert" THEN Upsert(ix, m.id, m.vec, level) ELSE Remove(ix, m.id)

\* The index after the mutations ms in order, the k-th one drawing levels[k].
Mutated(ix, ms, levels) ==
    LET after[k \in 0 .. Len(ms)] ==
            IF k = 0 THEN ix ELSE Mutate(after[k - 1], ms[k], levels[k])
    IN  after[Len(ms)]

Draws(ms) == [1 .. Len(ms) -> Levels]

\* prepare_compaction's live_vectors: the canonical node of every live id, in
\* node order.
LiveVectors(ix) ==
    LET canonical == {n \in DOMAIN ix.nodes :
                         /\ ix.nodes[n].id \in LiveIds(ix)
                         /\ n = IdToNode(ix, ix.nodes[n].id)}
        nth(k) == CHOOSE n \in canonical :
                     Cardinality({m \in canonical : m < n}) = k - 1
    IN  [k \in 1 .. Cardinality(canonical) |->
            [kind |-> "upsert", id |-> ix.nodes[nth(k)].id, vec |-> ix.nodes[nth(k)].vec]]

----------------------------------------------------------------------------
(* Search *)

\* The nodes search may return, whatever the query: those of the island, less
\* the ones whose id is tombstoned.
Hits(ix) == IF ix.entry = 0 THEN {}
            ELSE {n \in ix.root .. Len(ix.nodes) : ix.nodes[n].id \notin ix.deleted}
============================================================================
