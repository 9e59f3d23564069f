----------------------- MODULE IndexCompactionProofs -----------------------
(***************************************************************************)
(* Proofs about HNSW compaction, for every set of ids, vectors, levels and *)
(* workers and every value of the bounds: the graph's bookkeeping keeps    *)
(* its shape, and a rebuild that is swapped in serves what clients wrote.  *)
(***************************************************************************)
EXTENDS IndexCompaction, DataInduction

----------------------------------------------------------------------------
(* Positions *)

\* Latest of a non-empty set of positions is the largest of them.
LEMMA LatestIsLast ==
    ASSUME NEW n \in Nat, NEW T \in SUBSET (1 .. n), T # {}
    PROVE  Latest(T) \in T /\ \A k \in T : k <= Latest(T)
<1> DEFINE D == {d \in Nat : n - d \in T}
<1>1. \A j \in T : n - j \in D
  OBVIOUS
<1>2. PICK d \in D : \A y \in D : d <= y
  <2>1. D # {}
    BY <1>1
  <2>2. QED
    BY <2>1, LeastNatural
<1>3. n - d \in T /\ \A k \in T : k <= n - d
  BY <1>1, <1>2
<1>4. QED
  BY <1>3 DEF Latest

\* ... and is any element that no other one exceeds.
LEMMA LatestIs ==
    ASSUME NEW n \in Nat, NEW T \in SUBSET (1 .. n), NEW m \in T,
           \A k \in T : k <= m
    PROVE  Latest(T) = m
<1>1. Latest(T) \in T /\ m <= Latest(T)
  BY LatestIsLast
<1>2. Latest(T) <= m
  BY <1>1
<1>3. \A k \in T : k \in Nat
  OBVIOUS
<1>4. \A x, y \in Nat : x <= y /\ y <= x => x = y
  OBVIOUS
<1>5. QED
  BY <1>1, <1>2, <1>3, <1>4, Zenon

----------------------------------------------------------------------------
(* One mutation of the graph *)

\* What holds of every index the code builds.  Searches enter at a node that
\* is not tombstoned, exactly while there are live ids, and every live id has
\* a node in the island they enter.
IndexOK(ix) ==
    /\ ix \in Index
    /\ ix.entry = 0 => LiveIds(ix) = {}
    /\ ix.entry # 0 => /\ ix.entry \in ix.root .. Len(ix.nodes) /\ ix.root # 0
                       /\ ix.nodes[ix.entry].id \notin ix.deleted
    /\ \A i \in LiveIds(ix) : \E n \in NodesOf(ix, i) : ix.root <= n

\* HnswIndex::new is well formed.
LEMMA EmptyIndexOK == IndexOK(EmptyIndex)
BY DEF IndexOK, EmptyIndex, Index, LiveIds, Known, NodesOf

\* The nodes of an index, and those of one id.
LEMMA NodeFacts ==
    ASSUME NEW ix \in Index
    PROVE  /\ Len(ix.nodes) \in Nat /\ DOMAIN ix.nodes = 1 .. Len(ix.nodes)
           /\ \A n \in 1 .. Len(ix.nodes) :
                 ix.nodes[n].id \in Ids /\ ix.nodes[n].vec \in Vecs
           /\ \A i \in Ids : NodesOf(ix, i) \in SUBSET (1 .. Len(ix.nodes))
<1>1. ix.nodes \in Seq(Node)
  BY DEF Index
<1>2. Len(ix.nodes) \in Nat /\ DOMAIN ix.nodes = 1 .. Len(ix.nodes)
  BY <1>1
<1>3. \A n \in 1 .. Len(ix.nodes) : ix.nodes[n] \in Node
  BY <1>1
<1>4. QED
  BY <1>2, <1>3 DEF Node, NodesOf

\* The nodes after an upsert: those there were, and the new one.
LEMMA UpsertNodes ==
    ASSUME NEW ix \in Index, NEW i \in Ids, NEW v \in Vecs, NEW level \in Nat
    PROVE  LET up == Upsert(ix, i, v, level)
               new == Len(ix.nodes) + 1
           IN  /\ up \in Index /\ Len(up.nodes) = new
               /\ up.nodes[new].id = i /\ up.nodes[new].vec = v
               /\ \A n \in 1 .. Len(ix.nodes) : up.nodes[n] = ix.nodes[n]
               /\ \A j \in Ids : NodesOf(up, j) =
                     IF j = i THEN NodesOf(ix, j) \cup {new} ELSE NodesOf(ix, j)
<1> DEFINE up == Upsert(ix, i, v, level)
           new == Len(ix.nodes) + 1
           node == [id |-> i, vec |-> v, level |-> level]
<1>1. ix.nodes \in Seq(Node) /\ node \in Node /\ new \in Nat
  BY DEF Index, Node
<1>2. up.nodes = Append(ix.nodes, node) /\ up.deleted = ix.deleted \ {i}
  BY DEF Upsert
<1>3. /\ up.nodes \in Seq(Node) /\ Len(up.nodes) = new /\ up.nodes[new] = node
      /\ \A n \in 1 .. Len(ix.nodes) : up.nodes[n] = ix.nodes[n]
  BY <1>1, <1>2
<1>4. up \in Index
  BY <1>1, <1>3 DEF Upsert, Index
<1>5. ASSUME NEW j \in Ids
      PROVE  NodesOf(up, j) = IF j = i THEN NodesOf(ix, j) \cup {new} ELSE NodesOf(ix, j)
  <2>1. DOMAIN up.nodes = 1 .. new /\ DOMAIN ix.nodes = 1 .. Len(ix.nodes)
    BY <1>1, <1>3
  <2>2. 1 .. new = (1 .. Len(ix.nodes)) \cup {new} /\ new \notin 1 .. Len(ix.nodes)
    BY <1>1
  <2> HIDE DEF up, new
  <2>3. QED
    BY <1>3, <2>1, <2>2 DEF NodesOf
<1>6. QED
  BY <1>3, <1>4, <1>5

\* Insert keeps an index well formed, the latest nodes on the entry point's island.
LEMMA UpsertOK ==
    ASSUME NEW ix, IndexOK(ix), NEW i \in Ids, NEW v \in Vecs, NEW level \in Nat
    PROVE  IndexOK(Upsert(ix, i, v, level))
<1> DEFINE up == Upsert(ix, i, v, level)
           new == Len(ix.nodes) + 1
<1>0. ix \in Index
  BY DEF IndexOK
<1>1. /\ up \in Index /\ Len(up.nodes) = new /\ new \in Nat /\ new # 0
      /\ up.nodes[new].id = i
      /\ \A n \in 1 .. Len(ix.nodes) : up.nodes[n] = ix.nodes[n]
      /\ \A j \in Ids : NodesOf(up, j) =
            IF j = i THEN NodesOf(ix, j) \cup {new} ELSE NodesOf(ix, j)
  BY <1>0, UpsertNodes, NodeFacts
<1>2. /\ up.deleted = ix.deleted \ {i}
      /\ up.entry = new \/ (up.entry = ix.entry /\ ix.entry # 0)
      /\ up.root = IF ix.entry = 0 THEN new ELSE ix.root
      /\ ix.entry = 0 => up.entry = new
  BY DEF Upsert
<1>3. /\ ix.entry \in Nat /\ ix.root \in Nat /\ Len(ix.nodes) \in Nat
      /\ \A j \in Ids : \A n \in NodesOf(ix, j) : n \in 1 .. Len(ix.nodes)
  BY <1>0, NodeFacts DEF Index
<1> HIDE DEF up, new
<1>4. up.entry # 0 /\ up.root # 0
  BY <1>1, <1>2 DEF IndexOK
<1>5. up.entry \in up.root .. Len(up.nodes)
  <2>1. new = Len(ix.nodes) + 1
    BY DEF new
  <2>2. ix.entry # 0 => ix.entry \in ix.root .. Len(ix.nodes)
    BY DEF IndexOK
  <2>3. QED
    BY <1>1, <1>2, <1>3, <2>1, <2>2
<1>6. up.nodes[up.entry].id \notin up.deleted
  <2>1. CASE up.entry = new
    BY <1>1, <1>2, <2>1
  <2>2. CASE up.entry = ix.entry /\ ix.entry # 0
    <3>1. ix.entry \in 1 .. Len(ix.nodes) /\ ix.nodes[ix.entry].id \notin ix.deleted
      BY <1>3, <2>2 DEF IndexOK
    <3>2. QED
      BY <1>1, <1>2, <2>2, <3>1
  <2>3. QED
    BY <1>2, <2>1, <2>2
<1>7. ASSUME NEW j \in LiveIds(up)
      PROVE  \E n \in NodesOf(up, j) : up.root <= n
  <2>1. j \in Ids /\ j \notin up.deleted /\ NodesOf(up, j) # {}
    BY <1>7 DEF LiveIds, Known
  <2>2. up.root <= new
    BY <1>1, <1>2, <1>3 DEF IndexOK, new
  <2>3. CASE j = i
    BY <1>1, <2>1, <2>2, <2>3
  <2>4. CASE j # i
    <3>1. j \in LiveIds(ix) /\ NodesOf(up, j) = NodesOf(ix, j)
      BY <1>1, <1>2, <2>1, <2>4 DEF LiveIds, Known
    <3>2. ix.entry # 0
      BY <3>1 DEF IndexOK
    <3>3. QED
      BY <1>2, <3>1, <3>2 DEF IndexOK
  <2>5. QED
    BY <2>3, <2>4
<1>8. QED
  BY <1>1, <1>4, <1>5, <1>6, <1>7 DEF IndexOK, up

\* A delete that finds its row: the nodes stay, the id joins the tombstones.
LEMMA RemoveFields ==
    ASSUME NEW ix \in Index, NEW i \in Ids, Existed(ix, i)
    PROVE  LET rm == Remove(ix, i)
           IN  /\ rm.nodes = ix.nodes /\ rm.root = ix.root
               /\ rm.deleted = ix.deleted \cup {i}
               /\ rm.entry = IF ix.entry # 0 /\ ix.nodes[ix.entry].id = i
                             THEN Replacement(ix.nodes, ix.deleted \cup {i})
                             ELSE ix.entry
               /\ \A j \in Ids : NodesOf(rm, j) = NodesOf(ix, j)
               /\ LiveIds(rm) = LiveIds(ix) \ {i}
<1> DEFINE rm == Remove(ix, i)
<1>1. /\ rm.nodes = ix.nodes /\ rm.root = ix.root
      /\ rm.deleted = ix.deleted \cup {i}
      /\ rm.entry = IF ix.entry # 0 /\ ix.nodes[ix.entry].id = i
                    THEN Replacement(ix.nodes, ix.deleted \cup {i})
                    ELSE ix.entry
  BY DEF Remove, Index
<1> HIDE DEF rm
<1>2. \A j : NodesOf(rm, j) = NodesOf(ix, j)
  BY <1>1 DEF NodesOf
<1>3. LiveIds(rm) = LiveIds(ix) \ {i}
  BY <1>1, <1>2 DEF LiveIds, Known
<1>4. QED
  BY <1>1, <1>2, <1>3 DEF rm

\* So does delete, with its hand-over of the entry point.
LEMMA RemoveOK ==
    ASSUME NEW ix, IndexOK(ix), NEW i \in Ids
    PROVE  IndexOK(Remove(ix, i))
<1>1. CASE ~Existed(ix, i)
  BY <1>1 DEF Remove
<1>2. CASE Existed(ix, i)
  <2> DEFINE rm == Remove(ix, i)
             dead == ix.deleted \cup {i}
             rest == {n \in DOMAIN ix.nodes : ix.nodes[n].id \notin dead}
  <2>1. ix \in Index
    BY DEF IndexOK
  <2>2. /\ rm.nodes = ix.nodes /\ rm.root = ix.root /\ rm.deleted = dead
        /\ rm.entry = IF ix.entry # 0 /\ ix.nodes[ix.entry].id = i
                      THEN Replacement(ix.nodes, dead) ELSE ix.entry
        /\ \A j \in Ids : NodesOf(rm, j) = NodesOf(ix, j)
        /\ LiveIds(rm) = LiveIds(ix) \ {i}
    BY <1>2, <2>1, RemoveFields
  <2>3. /\ Len(ix.nodes) \in Nat /\ DOMAIN ix.nodes = 1 .. Len(ix.nodes)
        /\ \A n \in 1 .. Len(ix.nodes) : ix.nodes[n].id \in Ids
        /\ ix.entry \in Nat /\ ix.root \in Nat /\ ix.deleted \in SUBSET Ids
    BY <2>1, NodeFacts DEF Index
  <2>4. Replacement(ix.nodes, dead) = IF rest = {} THEN 0 ELSE Latest(rest)
    BY DEF Replacement
  <2>5. ix.root # 0 /\ ix.entry # 0 /\ ix.entry \in ix.root .. Len(ix.nodes)
    BY <1>2 DEF Existed, IndexOK
  <2>6. rest # {} => Latest(rest) \in rest /\ \A k \in rest : k <= Latest(rest)
    <3>1. rest \in SUBSET (1 .. Len(ix.nodes))
      BY <2>3
    <3> HIDE DEF rest
    <3>2. QED
      BY <2>3, <3>1, LatestIsLast
  <2>7. \A j \in LiveIds(rm) : \E n \in rest : ix.root <= n
    <3> SUFFICES ASSUME NEW j \in LiveIds(rm)
                 PROVE  \E n \in rest : ix.root <= n
      OBVIOUS
    <3>1. j \in LiveIds(ix) /\ j \notin dead /\ j \in Ids
      BY <2>2 DEF LiveIds, Known
    <3>2. PICK n \in NodesOf(ix, j) : ix.root <= n
      BY <3>1 DEF IndexOK
    <3>3. n \in rest
      BY <3>1, <3>2 DEF NodesOf
    <3>4. QED
      BY <3>2, <3>3
  <2>8. \A n \in rest : ix.nodes[n].id \in LiveIds(rm)
    <3> SUFFICES ASSUME NEW n \in rest
                 PROVE  ix.nodes[n].id \in LiveIds(rm)
      OBVIOUS
    <3>1. n \in NodesOf(ix, ix.nodes[n].id) /\ ix.nodes[n].id \in Ids
      BY <2>3 DEF NodesOf
    <3>2. QED
      BY <2>2, <2>3, <3>1 DEF LiveIds, Known
  <2>9. rm.entry = 0 => LiveIds(rm) = {}
    <3>1. 0 \notin rest
      BY <2>3
    <3> HIDE DEF rest
    <3>2. QED
      BY <2>2, <2>4, <2>5, <2>6, <2>7, <3>1
  <2>10. rm.entry # 0 => /\ rm.entry \in rm.root .. Len(rm.nodes)
                         /\ rm.nodes[rm.entry].id \notin rm.deleted
    <3>1. CASE ix.nodes[ix.entry].id = i
      <4> SUFFICES ASSUME rm.entry # 0
                   PROVE  /\ rm.entry \in rm.root .. Len(rm.nodes)
                          /\ rm.nodes[rm.entry].id \notin rm.deleted
        OBVIOUS
      <4>1. rest # {} /\ rm.entry = Latest(rest)
        BY <2>2, <2>4, <2>5, <3>1
      <4>2. rm.entry \in rest /\ \A k \in rest : k <= rm.entry
        BY <2>6, <4>1
      <4>3. PICK n \in rest : ix.root <= n
        BY <2>7, <2>8, <4>1
      <4>4. rm.entry \in 1 .. Len(ix.nodes) /\ n \in 1 .. Len(ix.nodes) /\ n <= rm.entry
        BY <2>3, <4>2
      <4>5. ix.root <= rm.entry
        BY <2>3, <4>3, <4>4
      <4>6. rm.entry \in rm.root .. Len(rm.nodes)
        BY <2>2, <2>3, <4>4, <4>5
      <4>7. rm.nodes[rm.entry].id \notin rm.deleted
        BY <2>2, <4>2
      <4>8. QED
        BY <4>6, <4>7
    <3>2. CASE ix.nodes[ix.entry].id # i
      BY <2>2, <2>5, <3>2 DEF IndexOK
    <3>3. QED
      BY <3>1, <3>2
  <2>11. rm \in Index
    <3>1. Replacement(ix.nodes, dead) \in Nat
      <4> HIDE DEF rest
      <4>1. \A k \in rest : k \in Nat
        BY <2>3 DEF rest
      <4>2. QED
        BY <2>4, <2>6, <4>1
    <3>2. QED
      BY <1>2, <2>1, <3>1 DEF Remove, Index
  <2>12. \A j \in LiveIds(rm) : \E n \in NodesOf(rm, j) : rm.root <= n
    BY <2>2 DEF IndexOK, LiveIds, Known
  <2>13. QED
    BY <2>2, <2>5, <2>9, <2>10, <2>11, <2>12 DEF IndexOK
<1>3. QED
  BY <1>1, <1>2

----------------------------------------------------------------------------
(* What get() answers after a mutation *)

View(ix) == [i \in Ids |-> Get(ix, i)]

\* What a mutation writes into the row of its id.
Wrote(m) == IF m.kind = "upsert" THEN m.vec ELSE NoVec

\* get after insert: the new vector, and no other id is touched.
LEMMA UpsertGet ==
    ASSUME NEW ix \in Index, NEW i \in Ids, NEW v \in Vecs, NEW level \in Nat,
           NEW j \in Ids
    PROVE  Get(Upsert(ix, i, v, level), j) = IF j = i THEN v ELSE Get(ix, j)
<1> DEFINE up == Upsert(ix, i, v, level)
           new == Len(ix.nodes) + 1
<1>1. /\ up \in Index /\ Len(up.nodes) = new /\ new \in Nat
      /\ up.nodes[new].id = i /\ up.nodes[new].vec = v
      /\ \A n \in 1 .. Len(ix.nodes) : up.nodes[n] = ix.nodes[n]
      /\ NodesOf(up, j) = IF j = i THEN NodesOf(ix, j) \cup {new} ELSE NodesOf(ix, j)
  BY UpsertNodes, NodeFacts
<1>2. up.deleted = ix.deleted \ {i}
  BY DEF Upsert
<1>3. NodesOf(ix, j) \in SUBSET (1 .. Len(ix.nodes)) /\ Len(ix.nodes) \in Nat
  BY NodeFacts
<1>4. new = Len(ix.nodes) + 1
  OBVIOUS
<1> HIDE DEF up, new
<1>5. CASE j = i
  <2>1. j \in LiveIds(up)
    BY <1>1, <1>2, <1>5 DEF LiveIds, Known
  <2>2. Latest(NodesOf(up, j)) = new
    <3> DEFINE S == NodesOf(up, j)
    <3>1. S \in SUBSET (1 .. new) /\ new \in S /\ \A k \in S : k <= new
      BY <1>1, <1>3, <1>4, <1>5
    <3> HIDE DEF S
    <3>2. Latest(S) = new
      BY <1>1, <3>1, LatestIs
    <3>3. QED
      BY <3>2 DEF S
  <2>3. QED
    BY <1>1, <1>5, <2>1, <2>2 DEF Get, IdToNode, up
<1>6. CASE j # i
  <2>1. NodesOf(up, j) = NodesOf(ix, j)
    BY <1>1, <1>6
  <2>2. j \in LiveIds(up) <=> j \in LiveIds(ix)
    BY <1>2, <1>6, <2>1 DEF LiveIds, Known
  <2>3. j \in LiveIds(ix) => IdToNode(ix, j) \in 1 .. Len(ix.nodes)
    BY <1>3, LatestIsLast DEF LiveIds, Known, IdToNode
  <2>4. IdToNode(up, j) = IdToNode(ix, j)
    BY <2>1 DEF IdToNode
  <2>5. QED
    BY <1>1, <1>6, <2>2, <2>3, <2>4 DEF Get, up
<1>7. QED
  BY <1>5, <1>6

\* get after delete: nothing, and no other id is touched.
LEMMA RemoveGet ==
    ASSUME NEW ix \in Index, NEW i \in Ids, NEW j \in Ids
    PROVE  Get(Remove(ix, i), j) = IF j = i THEN NoVec ELSE Get(ix, j)
<1>1. CASE ~Existed(ix, i)
  BY <1>1 DEF Remove, Existed, Get
<1>2. CASE Existed(ix, i)
  <2> DEFINE rm == Remove(ix, i)
  <2>1. /\ rm.nodes = ix.nodes
        /\ \A k \in Ids : NodesOf(rm, k) = NodesOf(ix, k)
        /\ LiveIds(rm) = LiveIds(ix) \ {i}
    BY <1>2, RemoveFields
  <2> HIDE DEF rm
  <2>2. Get(rm, j) = IF j = i THEN NoVec ELSE Get(ix, j)
    BY <2>1 DEF Get, IdToNode
  <2>3. QED
    BY <2>2 DEF rm
<1>3. QED
  BY <1>1, <1>2

\* Both facts for a journal entry.
LEMMA MutateOK ==
    ASSUME NEW ix, IndexOK(ix), NEW m \in Mutations, NEW level \in Levels
    PROVE  /\ IndexOK(Mutate(ix, m, level))
           /\ \A j \in Ids : Get(Mutate(ix, m, level), j)
                                = IF j = m.id THEN Wrote(m) ELSE Get(ix, j)
<1>1. ix \in Index /\ level \in Nat
  BY IndexAssumption DEF IndexOK
<1>2. CASE m \in Upserts
  <2>1. m.kind = "upsert" /\ m.id \in Ids /\ m.vec \in Vecs
    BY <1>2 DEF Upserts
  <2>2. QED
    BY <1>1, <2>1, UpsertOK, UpsertGet DEF Mutate, Wrote
<1>3. CASE m \in Deletes
  <2>1. m.kind # "upsert" /\ m.id \in Ids
    BY <1>3 DEF Deletes
  <2>2. QED
    BY <1>1, <2>1, RemoveOK, RemoveGet DEF Mutate, Wrote
<1>4. QED
  BY <1>2, <1>3 DEF Mutations

----------------------------------------------------------------------------
(* Runs of mutations *)

\* f holds the indexes that the first n mutations of ms lead through from ix.
Stages(f, ix, ms, levels, n) ==
    f = [k \in 0 .. n |-> IF k = 0 THEN ix ELSE Mutate(f[k - 1], ms[k], levels[k])]

\* The recursion in Mutated has a solution.
LEMMA StagesExist ==
    ASSUME NEW ix, NEW ms, NEW levels, NEW n \in Nat
    PROVE  \E f : Stages(f, ix, ms, levels, n)
<1> DEFINE D == {d \in Nat : ~\E f : Stages(f, ix, ms, levels, d)}
<1>1. SUFFICES ASSUME D # {}
               PROVE  FALSE
  OBVIOUS
<1>2. PICK d \in D : \A y \in D : d <= y
  BY <1>1, LeastNatural
<1>3. d # 0
  <2> DEFINE g == [k \in 0 .. 0 |-> ix]
  <2>1. Stages(g, ix, ms, levels, 0)
    BY DEF Stages
  <2>2. QED
    BY <1>2, <2>1
<1>4. d - 1 \in Nat /\ d - 1 \notin D
  BY <1>2, <1>3
<1>5. PICK f : Stages(f, ix, ms, levels, d - 1)
  BY <1>4
<1> DEFINE g == [k \in 0 .. d |-> IF k = d THEN Mutate(f[d - 1], ms[d], levels[d]) ELSE f[k]]
<1>6. ASSUME NEW k \in 0 .. d
      PROVE  g[k] = IF k = 0 THEN ix ELSE Mutate(g[k - 1], ms[k], levels[k])
  <2>1. CASE k = d
    BY <1>3, <2>1
  <2>2. CASE k # d
    <3>1. k \in 0 .. (d - 1) /\ g[k] = f[k]
      BY <2>2
    <3>2. f[k] = IF k = 0 THEN ix ELSE Mutate(f[k - 1], ms[k], levels[k])
      BY <1>5, <3>1 DEF Stages
    <3>3. k # 0 => g[k - 1] = f[k - 1]
      BY <3>1
    <3>4. QED
      BY <3>1, <3>2, <3>3
  <2>3. QED
    BY <2>1, <2>2
<1>7. g = [k \in 0 .. d |-> IF k = 0 THEN ix ELSE Mutate(g[k - 1], ms[k], levels[k])]
  <2> HIDE DEF g
  <2>1. g = [k \in 0 .. d |-> g[k]]
    BY DEF g
  <2>2. QED
    BY <1>6, <2>1
<1>8. QED
  BY <1>2, <1>7 DEF Stages

\* Replaying a journal is a row of single mutations.
LEMMA MutatedStages ==
    ASSUME NEW ix, NEW ms \in Seq(Mutations), NEW levels
    PROVE  \E f : Stages(f, ix, ms, levels, Len(ms)) /\ Mutated(ix, ms, levels) = f[Len(ms)]
<1> DEFINE after == CHOOSE f : Stages(f, ix, ms, levels, Len(ms))
<1>1. Mutated(ix, ms, levels) = after[Len(ms)]
  BY DEF Mutated, Stages
<1>2. Stages(after, ix, ms, levels, Len(ms))
  BY StagesExist
<1> HIDE DEF after
<1>3. QED
  BY <1>1, <1>2

\* The rows r with the mutations ms written over them: the last one that
\* names an id decides.
Overlay(r, ms) ==
    [i \in Ids |-> LET mine == {k \in DOMAIN ms : ms[k].id = i}
                   IN  IF mine = {} THEN r[i] ELSE Wrote(ms[Latest(mine)])]

\* A run of mutations keeps the index in shape, and get() then answers the
\* last one of every id.
LEMMA MutatedOK ==
    ASSUME NEW ix, IndexOK(ix), NEW ms \in Seq(Mutations), NEW levels \in Draws(ms)
    PROVE  /\ IndexOK(Mutated(ix, ms, levels))
           /\ View(Mutated(ix, ms, levels)) = Overlay(View(ix), ms)
<1> DEFINE Mine(k, i) == {j \in 1 .. k : ms[j].id = i}
           Row(k, i) == IF Mine(k, i) = {} THEN Get(ix, i)
                        ELSE Wrote(ms[Latest(Mine(k, i))])
<1>0. PICK f : Stages(f, ix, ms, levels, Len(ms)) /\ Mutated(ix, ms, levels) = f[Len(ms)]
  BY MutatedStages
<1>1. /\ f[0] = ix
      /\ \A k \in 1 .. Len(ms) : f[k] = Mutate(f[k - 1], ms[k], levels[k])
      /\ Mutated(ix, ms, levels) = f[Len(ms)]
  <2>1. \A k \in 0 .. Len(ms) :
           f[k] = IF k = 0 THEN ix ELSE Mutate(f[k - 1], ms[k], levels[k])
    BY <1>0, Zenon DEF Stages
  <2>2. 0 \in 0 .. Len(ms) /\ \A k \in 1 .. Len(ms) : k \in 0 .. Len(ms) /\ k # 0
    OBVIOUS
  <2>3. QED
    BY <1>0, <2>1, <2>2
<1>2. Len(ms) \in Nat /\ DOMAIN ms = 1 .. Len(ms)
  OBVIOUS
<1>3. \A k \in 1 .. Len(ms) : ms[k] \in Mutations /\ levels[k] \in Levels
  BY DEF Draws
<1> DEFINE D == {k \in 0 .. Len(ms) :
                    ~(IndexOK(f[k]) /\ \A i \in Ids : Get(f[k], i) = Row(k, i))}
<1>4. D = {}
  <2>1. SUFFICES ASSUME D # {}
                 PROVE  FALSE
    OBVIOUS
  <2>2. PICK d \in D : \A y \in D : d <= y
    <3>1. D \in SUBSET Nat
      BY <1>2
    <3> HIDE DEF D
    <3>2. QED
      BY <2>1, <3>1, LeastNatural
  <2>3. d # 0
    <3>1. \A i : Mine(0, i) = {}
      OBVIOUS
    <3>2. QED
      BY <1>1, <2>2, <3>1
  <2>4. d \in 1 .. Len(ms) /\ d - 1 \in 0 .. Len(ms) /\ d - 1 \notin D
    BY <1>2, <2>2, <2>3
  <2>5. IndexOK(f[d - 1]) /\ \A i \in Ids : Get(f[d - 1], i) = Row(d - 1, i)
    BY <2>4
  <2>6. f[d] = Mutate(f[d - 1], ms[d], levels[d])
    BY <1>1, <2>4
  <2>7. /\ IndexOK(f[d])
        /\ \A i \in Ids : Get(f[d], i) = IF i = ms[d].id THEN Wrote(ms[d])
                                         ELSE Get(f[d - 1], i)
    BY <1>3, <2>4, <2>5, <2>6, MutateOK
  <2>8. ASSUME NEW i \in Ids
        PROVE  Get(f[d], i) = Row(d, i)
    <3>1. CASE i = ms[d].id
      <4> DEFINE S == Mine(d, i)
      <4>1. S \in SUBSET (1 .. d) /\ d \in S /\ d \in Nat /\ \A k \in S : k <= d
        BY <2>4, <3>1
      <4>2. Latest(S) = d
        <5> HIDE DEF S
        <5>1. QED
          BY <4>1, LatestIs
      <4>3. QED
        BY <2>7, <3>1, <4>1, <4>2
    <3>2. CASE i # ms[d].id
      <4>1. Mine(d, i) = Mine(d - 1, i)
        BY <2>4, <3>2
      <4>2. QED
        BY <2>5, <2>7, <3>2, <4>1
    <3>3. QED
      BY <3>1, <3>2
  <2>9. QED
    BY <2>2, <2>7, <2>8
<1>5. Len(ms) \in 0 .. Len(ms) /\ Len(ms) \notin D
  BY <1>2, <1>4
<1>6. /\ IndexOK(Mutated(ix, ms, levels))
      /\ \A i \in Ids : Get(Mutated(ix, ms, levels), i) = Row(Len(ms), i)
  BY <1>1, <1>5
<1>7. \A i \in Ids : Row(Len(ms), i) = Overlay(View(ix), ms)[i]
  BY <1>2 DEF Overlay, View
<1>8. QED
  BY <1>6, <1>7 DEF View, Overlay

\* Writes one after another are written in two parts as well.
LEMMA OverlayConcat ==
    ASSUME NEW r, NEW a \in Seq(Mutations), NEW b \in Seq(Mutations)
    PROVE  Overlay(r, a \o b) = Overlay(Overlay(r, a), b)
<1> DEFINE ab == a \o b
           Mine(ms, i) == {k \in DOMAIN ms : ms[k].id = i}
<1>1. /\ Len(a) \in Nat /\ Len(b) \in Nat /\ Len(ab) = Len(a) + Len(b)
      /\ DOMAIN a = 1 .. Len(a) /\ DOMAIN b = 1 .. Len(b)
      /\ DOMAIN ab = 1 .. (Len(a) + Len(b))
      /\ \A k \in 1 .. Len(a) : ab[k] = a[k]
      /\ \A k \in 1 .. Len(b) : ab[Len(a) + k] = b[k]
  OBVIOUS
<1> HIDE DEF ab
<1>2. ASSUME NEW i \in Ids
      PROVE  Overlay(r, ab)[i] = Overlay(Overlay(r, a), b)[i]
  <2>1. /\ \A k \in Mine(b, i) : Len(a) + k \in Mine(ab, i)
        /\ \A k \in Mine(ab, i) : k \in Mine(a, i) \/ k - Len(a) \in Mine(b, i)
        /\ \A k \in Mine(a, i) : k \in Mine(ab, i) /\ k <= Len(a)
        /\ \A k \in Mine(b, i) : k \in 1 .. Len(b)
    BY <1>1
  <2>2. CASE Mine(b, i) = {}
    <3>1. Mine(ab, i) = Mine(a, i)
      BY <2>1, <2>2
    <3>2. Mine(a, i) # {} => Latest(Mine(a, i)) \in 1 .. Len(a)
      <4> DEFINE S == Mine(a, i)
      <4>1. S \in SUBSET (1 .. Len(a))
        BY <1>1
      <4> HIDE DEF S
      <4>2. S # {} => Latest(S) \in 1 .. Len(a)
        BY <1>1, <4>1, LatestIsLast
      <4>3. QED
        BY <4>2 DEF S
    <3>3. QED
      BY <1>1, <2>2, <3>1, <3>2 DEF Overlay
  <2>3. CASE Mine(b, i) # {}
    <3> DEFINE S == Mine(b, i)
               T == Mine(ab, i)
               last == Latest(S)
    <3>1. last \in S /\ \A k \in S : k <= last
      <4>1. S \in SUBSET (1 .. Len(b)) /\ S # {}
        BY <1>1, <2>3
      <4> HIDE DEF S
      <4>2. QED
        BY <1>1, <4>1, LatestIsLast
    <3>2. /\ T \in SUBSET (1 .. (Len(a) + Len(b))) /\ Len(a) + last \in T
          /\ Len(a) + last \in Nat /\ Len(a) + Len(b) \in Nat
      BY <1>1, <2>1, <3>1
    <3>3. \A k \in T : k <= Len(a) + last
      <4> SUFFICES ASSUME NEW k \in T
                   PROVE  k <= Len(a) + last
        OBVIOUS
      <4>1. last \in Nat /\ k \in Nat
        BY <1>1, <2>1, <3>1
      <4>2. CASE k \in Mine(a, i)
        BY <1>1, <2>1, <4>1, <4>2
      <4>3. CASE k - Len(a) \in S
        <5>1. k - Len(a) <= last
          BY <3>1, <4>3
        <5> HIDE DEF last
        <5>2. QED
          BY <1>1, <4>1, <5>1
      <4>4. QED
        BY <2>1, <4>2, <4>3
    <3>4. Latest(T) = Len(a) + last
      <4> HIDE DEF T, last
      <4>1. QED
        BY <3>2, <3>3, LatestIs
    <3>5. ab[Latest(T)] = b[last]
      BY <1>1, <2>1, <3>1, <3>4
    <3>6. Overlay(r, ab)[i] = Wrote(ab[Latest(T)])
      BY <3>2 DEF Overlay
    <3>7. Overlay(Overlay(r, a), b)[i] = Wrote(b[last])
      BY <2>3 DEF Overlay
    <3>8. QED
      BY <3>5, <3>6, <3>7
  <2>4. QED
    BY <2>2, <2>3
<1>3. Overlay(r, ab) = Overlay(Overlay(r, a), b)
  BY <1>2 DEF Overlay
<1>4. QED
  BY <1>3 DEF ab

\* One write changes one id.
LEMMA OverlayOne ==
    ASSUME NEW r \in [Ids -> Vecs \cup {NoVec}], NEW m \in Mutations
    PROVE  Overlay(r, <<m>>) = [r EXCEPT ![m.id] = Wrote(m)]
<1>1. DOMAIN <<m>> = 1 .. 1 /\ <<m>>[1] = m
  OBVIOUS
<1>2. ASSUME NEW i \in Ids
      PROVE  Overlay(r, <<m>>)[i] = IF i = m.id THEN Wrote(m) ELSE r[i]
  <2> DEFINE S == {k \in DOMAIN <<m>> : <<m>>[k].id = i}
  <2>1. S = IF i = m.id THEN {1} ELSE {}
    BY <1>1
  <2>2. i = m.id => Latest(S) = 1
    <3>1. S \in SUBSET (1 .. 1) /\ 1 \in Nat
      BY <1>1
    <3> HIDE DEF S
    <3>2. i = m.id => 1 \in S /\ \A k \in S : k <= 1
      BY <2>1
    <3>3. QED
      BY <3>1, <3>2, LatestIs
  <2>3. QED
    BY <1>1, <2>1, <2>2 DEF Overlay
<1>3. QED
  BY <1>2 DEF Overlay

\* No write changes nothing.
LEMMA OverlayNone ==
    ASSUME NEW r \in [Ids -> Vecs \cup {NoVec}]
    PROVE  Overlay(r, <<>>) = r
BY DEF Overlay

\* Writes leave rows.
LEMMA OverlayType ==
    ASSUME NEW r \in [Ids -> Vecs \cup {NoVec}], NEW ms \in Seq(Mutations)
    PROVE  Overlay(r, ms) \in [Ids -> Vecs \cup {NoVec}]
<1>1. ASSUME NEW i \in Ids
      PROVE  Overlay(r, ms)[i] \in Vecs \cup {NoVec}
  <2> DEFINE S == {k \in DOMAIN ms : ms[k].id = i}
  <2>1. S \in SUBSET (1 .. Len(ms)) /\ Len(ms) \in Nat
    OBVIOUS
  <2>2. S # {} => Latest(S) \in 1 .. Len(ms)
    <3> HIDE DEF S
    <3>1. QED
      BY <2>1, LatestIsLast
  <2>3. \A k \in 1 .. Len(ms) : Wrote(ms[k]) \in Vecs \cup {NoVec}
    BY DEF Wrote, Mutations, Upserts, Deletes
  <2>4. QED
    BY <2>2, <2>3 DEF Overlay
<1>2. QED
  BY <1>1 DEF Overlay

----------------------------------------------------------------------------
(* The vectors a plan captures *)

Rank(S, n) == Cardinality({m \in S : m < n})

\* The elements of a finite set of naturals have the ranks 0, 1, ...
LEMMA Ranks ==
    ASSUME NEW N \in Nat, NEW S \in SUBSET (1 .. N)
    PROVE  /\ Cardinality(S) \in Nat
           /\ \A n \in S : Rank(S, n) + 1 \in 1 .. Cardinality(S)
           /\ \A m, n \in S : Rank(S, m) = Rank(S, n) => m = n
           /\ \A k \in 1 .. Cardinality(S) : \E n \in S : Rank(S, n) = k - 1
<1> DEFINE Below(n) == {m \in S : m < n}
           f == [n \in S |-> Rank(S, n) + 1]
<1>0. \A n \in S : n \in Nat
  OBVIOUS
<1>1. IsFiniteSet(S) /\ Cardinality(S) \in Nat
  <2>1. IsFiniteSet(1 .. N)
    BY FS_Interval
  <2>2. IsFiniteSet(S)
    BY <2>1, FS_Subset
  <2>3. QED
    BY <2>2, FS_CardinalityType
<1>2. ASSUME NEW n \in S
      PROVE  IsFiniteSet(Below(n)) /\ Rank(S, n) \in Nat /\ Rank(S, n) < Cardinality(S)
  <2>1. Below(n) \in SUBSET S /\ n \notin Below(n)
    BY <1>0
  <2>2. /\ IsFiniteSet(Below(n)) /\ Cardinality(Below(n)) <= Cardinality(S)
        /\ Cardinality(Below(n)) # Cardinality(S)
    <3> DEFINE B == Below(n)
    <3>1. B \in SUBSET S /\ B # S
      BY <2>1
    <3> HIDE DEF B
    <3>2. IsFiniteSet(B) /\ Cardinality(B) <= Cardinality(S) /\ Cardinality(B) # Cardinality(S)
      BY <1>1, <3>1, FS_Subset
    <3>3. QED
      BY <3>2 DEF B
  <2>3. Cardinality(Below(n)) \in Nat
    BY <2>2, FS_CardinalityType
  <2>4. QED
    BY <1>1, <2>2, <2>3 DEF Rank
<1> HIDE DEF Below
<1>2a. \A n \in S : Rank(S, n) \in Nat /\ Rank(S, n) < Cardinality(S)
  BY <1>2
<1>3. ASSUME NEW m \in S, NEW n \in S, m < n
      PROVE  Rank(S, m) < Rank(S, n)
  <2> DEFINE A == Below(m)
             B == Below(n)
  <2>0. \A x \in S : (x \in A <=> x < m) /\ (x \in B <=> x < n)
    BY DEF Below
  <2>1. A \in SUBSET B /\ m \in B /\ m \notin A
    <3>1. A \subseteq S
      BY DEF Below
    <3> HIDE DEF A, B
    <3>2. \A x \in A : x \in B
      BY <1>0, <1>3, <2>0, <3>1
    <3>3. QED
      BY <1>0, <1>3, <2>0, <3>2
  <2>2. IsFiniteSet(B) /\ Rank(S, m) = Cardinality(A) /\ Rank(S, n) = Cardinality(B)
    BY <1>2 DEF Rank, Below
  <2> HIDE DEF A, B
  <2>3. Cardinality(A) <= Cardinality(B) /\ Cardinality(A) # Cardinality(B)
    BY <2>1, <2>2, FS_Subset
  <2>4. Rank(S, m) <= Rank(S, n) /\ Rank(S, m) # Rank(S, n)
    BY <2>2, <2>3
  <2>5. Rank(S, m) \in Nat /\ Rank(S, n) \in Nat
    BY <1>2a
  <2>6. QED
    BY <2>4, <2>5
<1>4. \A m, n \in S : Rank(S, m) = Rank(S, n) => m = n
  <2> SUFFICES ASSUME NEW m \in S, NEW n \in S, m # n
               PROVE  Rank(S, m) # Rank(S, n)
    OBVIOUS
  <2>1. m < n \/ n < m
    BY <1>0
  <2>2. Rank(S, m) < Rank(S, n) \/ Rank(S, n) < Rank(S, m)
    BY <1>3, <2>1
  <2>3. Rank(S, m) \in Nat /\ Rank(S, n) \in Nat
    BY <1>2a
  <2>4. QED
    BY <2>2, <2>3
<1>5. \A n \in S : Rank(S, n) + 1 \in 1 .. Cardinality(S)
  BY <1>1, <1>2a
<1>6. f \in Injection(S, 1 .. Cardinality(S))
  BY <1>2a, <1>4, <1>5 DEF Injection, IsInjective
<1>7. IsFiniteSet(1 .. Cardinality(S)) /\ Cardinality(1 .. Cardinality(S)) = Cardinality(S)
  BY <1>1, FS_Interval
<1>8. f \in Surjection(S, 1 .. Cardinality(S))
  BY <1>6, <1>7, FS_Injection
<1>9. \A k \in 1 .. Cardinality(S) : \E n \in S : f[n] = k
  BY <1>8 DEF Surjection
<1>10. \A k \in 1 .. Cardinality(S) : \E n \in S : Rank(S, n) = k - 1
  BY <1>1, <1>2a, <1>9
<1>11. QED
  BY <1>1, <1>4, <1>5, <1>10

\* prepare_compaction captures the live rows and nothing else: written over no
\* rows at all, its vectors are what get() answers.
LEMMA LiveVectorsView ==
    ASSUME NEW ix, IndexOK(ix)
    PROVE  LiveVectors(ix) \in Seq(Upserts) /\ Overlay(NoRows, LiveVectors(ix)) = View(ix)
<1> DEFINE canonical == {n \in DOMAIN ix.nodes :
                            /\ ix.nodes[n].id \in LiveIds(ix)
                            /\ n = IdToNode(ix, ix.nodes[n].id)}
           nth(k) == CHOOSE n \in canonical :
                        Cardinality({m \in canonical : m < n}) = k - 1
           count == Cardinality(canonical)
           vs == LiveVectors(ix)
<1>1. /\ ix \in Index /\ Len(ix.nodes) \in Nat /\ DOMAIN ix.nodes = 1 .. Len(ix.nodes)
      /\ \A n \in 1 .. Len(ix.nodes) : ix.nodes[n].id \in Ids /\ ix.nodes[n].vec \in Vecs
      /\ \A i \in Ids : NodesOf(ix, i) \in SUBSET (1 .. Len(ix.nodes))
  BY NodeFacts DEF IndexOK
<1>2. vs = [k \in 1 .. count |->
             [kind |-> "upsert", id |-> ix.nodes[nth(k)].id, vec |-> ix.nodes[nth(k)].vec]]
  BY DEF LiveVectors
<1>3. canonical \in SUBSET (1 .. Len(ix.nodes))
  BY <1>1
<1>4. /\ count \in Nat
      /\ \A n \in canonical : Rank(canonical, n) + 1 \in 1 .. count
      /\ \A m, n \in canonical : Rank(canonical, m) = Rank(canonical, n) => m = n
      /\ \A k \in 1 .. count : \E n \in canonical : Rank(canonical, n) = k - 1
  <2> HIDE DEF canonical
  <2>1. QED
    BY <1>1, <1>3, Ranks
<1>5. \A k \in 1 .. count : nth(k) \in canonical
  <2> HIDE DEF canonical
  <2>1. QED
    BY <1>4 DEF Rank
<1>6. \A n \in canonical : \E k \in 1 .. count : nth(k) = n
  <2> SUFFICES ASSUME NEW n \in canonical
               PROVE  \E k \in 1 .. count : nth(k) = n
    OBVIOUS
  <2> DEFINE k == Rank(canonical, n) + 1
  <2> HIDE DEF canonical
  <2>1. k \in 1 .. count /\ Rank(canonical, n) = k - 1
    <3>1. k \in 1 .. count
      BY <1>4
    <3>2. Rank(canonical, n) \in Nat
      <4>0. IsFiniteSet(1 .. Len(ix.nodes))
        BY <1>1, FS_Interval
      <4>1. IsFiniteSet(canonical)
        BY <1>3, <4>0, FS_Subset
      <4>2. IsFiniteSet({m \in canonical : m < n})
        BY <4>1, FS_Subset
      <4>3. QED
        BY <4>2, FS_CardinalityType DEF Rank
    <3>3. QED
      BY <3>1, <3>2
  <2>2. nth(k) \in canonical /\ Rank(canonical, nth(k)) = k - 1
    BY <1>4, <2>1 DEF Rank
  <2>3. QED
    BY <1>4, <2>1, <2>2
<1> HIDE DEF canonical, nth
<1>7. \A n \in canonical : /\ n \in 1 .. Len(ix.nodes) /\ ix.nodes[n].id \in LiveIds(ix)
                           /\ n = IdToNode(ix, ix.nodes[n].id)
  BY <1>1 DEF canonical
<1>8. vs \in Seq(Upserts) /\ DOMAIN vs = 1 .. count
  <2>1. \A k \in 1 .. count : vs[k] \in Upserts
    BY <1>1, <1>2, <1>5, <1>7 DEF Upserts
  <2>2. QED
    BY <1>2, <1>4, <2>1
<1>9. \A k \in 1 .. count : vs[k].id \in LiveIds(ix) /\ vs[k].kind = "upsert"
                            /\ vs[k].vec = Get(ix, vs[k].id)
  BY <1>2, <1>5, <1>7 DEF Get
<1>10. \A i \in LiveIds(ix) : \E k \in 1 .. count : vs[k].id = i
  <2> SUFFICES ASSUME NEW i \in LiveIds(ix)
               PROVE  \E k \in 1 .. count : vs[k].id = i
    OBVIOUS
  <2>1. i \in Ids /\ NodesOf(ix, i) # {}
    BY DEF LiveIds, Known
  <2>2. IdToNode(ix, i) \in NodesOf(ix, i)
    BY <1>1, <2>1, LatestIsLast DEF IdToNode
  <2>3. IdToNode(ix, i) \in canonical
    BY <2>1, <2>2 DEF canonical, NodesOf
  <2>4. PICK k \in 1 .. count : nth(k) = IdToNode(ix, i)
    BY <1>6, <2>3
  <2>5. ix.nodes[IdToNode(ix, i)].id = i
    BY <2>2 DEF NodesOf
  <2>6. QED
    BY <1>2, <2>4, <2>5
<1> HIDE DEF vs
<1>11. ASSUME NEW i \in Ids
       PROVE  Overlay(NoRows, vs)[i] = Get(ix, i)
  <2> DEFINE S == {k \in DOMAIN vs : vs[k].id = i}
  <2>1. S \in SUBSET (1 .. count)
    BY <1>8
  <2>2. CASE S = {}
    <3>1. i \notin LiveIds(ix)
      BY <1>8, <1>10, <2>2
    <3>2. QED
      BY <2>2, <3>1 DEF Overlay, Get, NoRows
  <2>3. CASE S # {}
    <3>1. Latest(S) \in S
      <4> HIDE DEF S
      <4>1. QED
        BY <1>4, <2>1, <2>3, LatestIsLast
    <3>2. vs[Latest(S)].id = i /\ Latest(S) \in 1 .. count
      BY <2>1, <3>1
    <3>3. Wrote(vs[Latest(S)]) = Get(ix, i)
      BY <1>9, <3>2 DEF Wrote
    <3>4. QED
      BY <2>3, <3>3 DEF Overlay
  <2>4. QED
    BY <2>2, <2>3
<1>12. Overlay(NoRows, vs) = View(ix)
  BY <1>11 DEF Overlay, View
<1>13. QED
  BY <1>8, <1>12 DEF vs

----------------------------------------------------------------------------
(* The inductive invariant *)

\* The collection's graph and every rebuilt one are in shape.
GraphsOK ==
    /\ Exists => IndexOK(index)
    /\ \A w \in Workers : IndexOK(plan[w].built)

\* While the journal a worker opened is still the open one, what the worker
\* captured or built, with the journal written over it, is what clients wrote.
RebuildServes ==
    Exists /\ ~mixed /\ journal # NoJournal /\ owner \in Workers =>
        /\ plan[owner].st = "building" =>
              rows = Overlay(Overlay(NoRows, plan[owner].vectors), journal)
        /\ plan[owner].st = "built" =>
              rows = Overlay(View(plan[owner].built), journal)

\* get() answers what clients wrote, as an equation between functions.
IndexView == Exists /\ ~mixed => rows = View(index)

IInv == TypeOK /\ GraphsOK /\ RebuildServes /\ IndexView

\* What get answers, for all ids, are rows.
LEMMA ViewType ==
    ASSUME NEW ix \in Index
    PROVE  View(ix) \in [Ids -> Vecs \cup {NoVec}]
<1>1. ASSUME NEW i \in Ids
      PROVE  Get(ix, i) \in Vecs \cup {NoVec}
  <2>1. i \in LiveIds(ix) => IdToNode(ix, i) \in 1 .. Len(ix.nodes)
    BY NodeFacts, LatestIsLast DEF LiveIds, Known, IdToNode
  <2>2. QED
    BY <2>1, NodeFacts DEF Get
<1>2. QED
  BY <1>1 DEF View

\* An empty index answers nothing.
LEMMA EmptyView == View(EmptyIndex) = NoRows
BY DEF View, Get, LiveIds, Known, NodesOf, EmptyIndex, NoRows

\* The empty table is one.
LEMMA NoRowsType == NoRows \in [Ids -> Vecs \cup {NoVec}]
BY DEF NoRows

\* A plan's vectors can be replayed like a journal.
LEMMA UpsertsAreMutations == Seq(Upserts) \subseteq Seq(Mutations)
BY DEF Mutations

\* The fields of a worker's plan.
LEMMA PlanFields ==
    ASSUME TypeOK, NEW w \in Workers
    PROVE  /\ plan[w] \in Plans /\ plan[w].vectors \in Seq(Upserts)
           /\ plan[w].vectors \in Seq(Mutations) /\ plan[w].built \in Index
<1>1. plan[w] \in Plans
  BY DEF TypeOK
<1>2. plan[w].vectors \in Seq(Upserts) /\ plan[w].built \in Index
  BY <1>1 DEF Plans
<1>3. QED
  BY <1>1, <1>2, UpsertsAreMutations

\* Clients that write rows: the same mutations go into the index, behind the
\* journal and into the rows.
LEMMA ClientWrites ==
    ASSUME IInv, Exists, NEW ms \in Seq(Mutations), IndexOK(index'),
           View(index') = Overlay(View(index), ms),
           \/ journal' = Journalled(ms)
           \/ journal' = journal /\ Overlay(View(index), ms) = View(index),
           ~mixed => rows' = Overlay(rows, ms),
           rows' \in [Ids -> Vecs \cup {NoVec}],
           UNCHANGED <<plan, owner, mixed>>
    PROVE  IInv'
<1>1. index' \in Index /\ index' # NoCollection
  BY CompactionAssumption DEF IndexOK
<1>2. journal' \in Seq(Mutations) \cup {NoJournal}
  <2>1. journal \in Seq(Mutations) \cup {NoJournal}
    BY DEF IInv, TypeOK
  <2>2. journal \in Seq(Mutations) => journal \o ms \in Seq(Mutations)
    OBVIOUS
  <2>3. QED
    BY <2>1, <2>2 DEF Journalled
<1>3. TypeOK'
  BY <1>1, <1>2 DEF IInv, TypeOK, Exists
<1>4. GraphsOK'
  BY DEF IInv, GraphsOK
<1>5. IndexView'
  BY DEF IInv, IndexView
<1>6. RebuildServes'
  <2> SUFFICES ASSUME ~mixed, journal' # NoJournal, owner \in Workers
               PROVE  /\ plan[owner].st = "building" =>
                            rows' = Overlay(Overlay(NoRows, plan[owner].vectors), journal')
                      /\ plan[owner].st = "built" =>
                            rows' = Overlay(View(plan[owner].built), journal')
    BY DEF RebuildServes
  <2>1. journal # NoJournal /\ journal \in Seq(Mutations)
    BY DEF IInv, TypeOK, Journalled
  <2>2. CASE journal' = Journalled(ms)
    <3>1. journal' = journal \o ms
      BY <2>1, <2>2 DEF Journalled
    <3>2. \A r : Overlay(r, journal') = Overlay(Overlay(r, journal), ms)
      BY <2>1, <3>1, OverlayConcat
    <3>3. QED
      BY <2>1, <3>2 DEF IInv, RebuildServes
  <2>3. CASE journal' = journal /\ Overlay(View(index), ms) = View(index)
    <3>1. rows' = rows
      BY <2>3 DEF IInv, IndexView
    <3>2. QED
      BY <2>1, <2>3, <3>1 DEF IInv, RebuildServes
  <2>4. QED
    BY <2>2, <2>3
<1>7. QED
  BY <1>3, <1>4, <1>5, <1>6 DEF IInv

\* The invariant holds before the first call.
LEMMA InitIInv == Init => IInv
<1> SUFFICES ASSUME Init
             PROVE  IInv
  OBVIOUS
<1>1. EmptyIndex \in Index /\ Idle \in Plans
  BY EmptyIndexOK DEF IndexOK, Idle, Plans
<1>2. TypeOK
  BY <1>1, NoRowsType DEF Init, TypeOK, Exists
<1>3. GraphsOK
  BY EmptyIndexOK DEF Init, GraphsOK, Exists, Idle
<1>4. QED
  BY <1>2, <1>3 DEF Init, IInv, RebuildServes, IndexView, Exists

\* insert keeps the invariant, journal and index together.
LEMMA InsertIInv ==
    ASSUME IInv, NEW i \in Ids, NEW v \in Vecs, Insert(i, v)
    PROVE  IInv'
<1> DEFINE m == [kind |-> "upsert", id |-> i, vec |-> v]
<1>1. m \in Mutations /\ <<m>> \in Seq(Mutations) /\ Wrote(m) = v /\ m.id = i
  BY DEF Mutations, Upserts, Wrote
<1>2. PICK level \in Levels : index' = Upsert(index, i, v, level)
  BY DEF Insert
<1>3. Exists /\ IndexOK(index) /\ index \in Index /\ level \in Nat
  BY IndexAssumption DEF Insert, IInv, GraphsOK, IndexOK
<1>4. IndexOK(index')
  BY <1>2, <1>3, UpsertOK
<1>5. rows \in [Ids -> Vecs \cup {NoVec}] /\ View(index) \in [Ids -> Vecs \cup {NoVec}]
  BY <1>3, ViewType DEF IInv, TypeOK
<1>6. View(index') = Overlay(View(index), <<m>>)
  <2>1. \A j \in Ids : Get(index', j) = IF j = i THEN v ELSE Get(index, j)
    BY <1>2, <1>3, UpsertGet
  <2>2. Overlay(View(index), <<m>>) = [View(index) EXCEPT ![i] = v]
    BY <1>1, <1>5, OverlayOne
  <2>3. QED
    BY <2>1, <2>2 DEF View
<1>7. rows' = Overlay(rows, <<m>>) /\ rows' \in [Ids -> Vecs \cup {NoVec}]
  BY <1>1, <1>5, OverlayOne DEF Insert
<1>8. journal' = Journalled(<<m>>) /\ UNCHANGED <<plan, owner, mixed>>
  BY DEF Insert
<1> HIDE DEF m
<1>9. QED
  BY <1>1, <1>3, <1>4, <1>6, <1>7, <1>8, ClientWrites

\* So does insert_batch, row by row.
LEMMA InsertBatchIInv ==
    ASSUME IInv, NEW ms \in Batches, InsertBatch(ms)
    PROVE  IInv'
<1>1. ms \in Seq(Upserts)
  <2>1. PICK n \in 2 .. MaxBatch : ms \in [1 .. n -> Upserts]
    BY DEF Batches
  <2>2. n \in Nat
    BY <2>1, CompactionAssumption
  <2>3. QED
    BY <2>1, <2>2
<1>2. ms \in Seq(Mutations)
  BY <1>1, UpsertsAreMutations
<1>3. Exists /\ IndexOK(index)
  BY DEF InsertBatch, IInv, GraphsOK
<1>4. PICK levels \in Draws(ms) : index' = Mutated(index, ms, levels)
  BY DEF InsertBatch
<1>5. IndexOK(index') /\ View(index') = Overlay(View(index), ms)
  BY <1>2, <1>3, <1>4, MutatedOK
<1>6. rows' = Overlay(rows, ms)
  <2>1. ASSUME NEW i \in Ids, NEW mine, mine = {k \in DOMAIN ms : ms[k].id = i}, mine # {}
        PROVE  Wrote(ms[Latest(mine)]) = ms[Latest(mine)].vec
    <3>1. Len(ms) \in Nat /\ mine \in SUBSET (1 .. Len(ms))
      BY <1>1, <2>1
    <3>2. Latest(mine) \in 1 .. Len(ms)
      BY <2>1, <3>1, LatestIsLast
    <3>3. ms[Latest(mine)] \in Upserts
      BY <1>1, <3>2
    <3>4. QED
      BY <3>3 DEF Wrote, Upserts
  <2>2. \A i \in Ids : LET mine == {k \in DOMAIN ms : ms[k].id = i}
                       IN  mine # {} => Wrote(ms[Latest(mine)]) = ms[Latest(mine)].vec
    BY <2>1
  <2>3. QED
    BY <2>2 DEF InsertBatch, Overlay
<1>7. rows' \in [Ids -> Vecs \cup {NoVec}]
  BY <1>2, <1>6, OverlayType DEF IInv, TypeOK
<1>8. journal' = Journalled(ms) /\ UNCHANGED <<plan, owner, mixed>>
  BY DEF InsertBatch
<1>9. QED
  BY <1>2, <1>3, <1>5, <1>6, <1>7, <1>8, ClientWrites

\* So does delete.
LEMMA DeleteIInv ==
    ASSUME IInv, NEW i \in Ids, Delete(i)
    PROVE  IInv'
<1> DEFINE m == [kind |-> "delete", id |-> i]
<1>1. m \in Mutations /\ <<m>> \in Seq(Mutations) /\ Wrote(m) = NoVec /\ m.id = i
  BY DEF Mutations, Deletes, Wrote
<1>2. Exists /\ IndexOK(index) /\ index \in Index /\ index' = Remove(index, i)
  BY DEF Delete, IInv, GraphsOK, IndexOK
<1>3. IndexOK(index')
  BY <1>2, RemoveOK
<1>4. rows \in [Ids -> Vecs \cup {NoVec}] /\ View(index) \in [Ids -> Vecs \cup {NoVec}]
  BY <1>2, ViewType DEF IInv, TypeOK
<1>5. Overlay(View(index), <<m>>) = [View(index) EXCEPT ![i] = NoVec]
  BY <1>1, <1>4, OverlayOne
<1>6. View(index') = Overlay(View(index), <<m>>)
  <2>1. \A j \in Ids : Get(index', j) = IF j = i THEN NoVec ELSE Get(index, j)
    BY <1>2, RemoveGet
  <2>2. QED
    BY <1>5, <2>1 DEF View
<1>7. rows' = Overlay(rows, <<m>>) /\ rows' \in [Ids -> Vecs \cup {NoVec}]
  BY <1>1, <1>4, OverlayOne DEF Delete
<1>8. ~Existed(index, i) => Overlay(View(index), <<m>>) = View(index)
  BY <1>5 DEF Existed, View, Get
<1>9. /\ journal' = IF Existed(index, i) THEN Journalled(<<m>>) ELSE journal
      /\ UNCHANGED <<plan, owner, mixed>>
  BY DEF Delete
<1> HIDE DEF m
<1>10. QED
  BY <1>1, <1>2, <1>3, <1>6, <1>7, <1>8, <1>9, ClientWrites

\* So does taking a plan, which starts an empty journal.
LEMMA PrepareIInv ==
    ASSUME IInv, NEW w \in Workers, Prepare(w)
    PROVE  IInv'
<1> DEFINE vs == LiveVectors(index)
<1>1. Exists /\ IndexOK(index)
  BY DEF Prepare, IInv, GraphsOK
<1>2. vs \in Seq(Upserts) /\ Overlay(NoRows, vs) = View(index)
  BY <1>1, LiveVectorsView
<1>3. /\ journal' = <<>> /\ owner' = w /\ UNCHANGED <<index, rows, mixed>>
      /\ plan' = [plan EXCEPT ![w] = [st |-> "building", vectors |-> vs, built |-> EmptyIndex]]
  <2>1. /\ journal' = <<>> /\ owner' = w /\ UNCHANGED <<index, rows, mixed>>
        /\ plan' = [plan EXCEPT ![w] = [Idle EXCEPT !.st = "building", !.vectors = vs]]
    BY DEF Prepare
  <2> HIDE DEF vs
  <2>2. [Idle EXCEPT !.st = "building", !.vectors = vs]
           = [st |-> "building", vectors |-> vs, built |-> EmptyIndex]
    <3> DEFINE a == [Idle EXCEPT !.st = "building"]
    <3>1. a = [st |-> "building", vectors |-> <<>>, built |-> EmptyIndex]
      BY DEF Idle
    <3>2. [Idle EXCEPT !.st = "building", !.vectors = vs] = [a EXCEPT !.vectors = vs]
      OBVIOUS
    <3> HIDE DEF a
    <3>3. QED
      BY <3>1, <3>2
  <2>3. QED
    BY <2>1, <2>2
<1> HIDE DEF vs
<1>4. /\ plan \in [Workers -> Plans] /\ EmptyIndex \in Index
      /\ View(index) \in [Ids -> Vecs \cup {NoVec}]
  BY <1>1, EmptyIndexOK, ViewType DEF IInv, TypeOK, IndexOK
<1>5. TypeOK'
  BY <1>1, <1>2, <1>3, <1>4 DEF IInv, TypeOK, Exists, Plans
<1>6. GraphsOK'
  BY <1>3, <1>4, EmptyIndexOK DEF IInv, GraphsOK, Exists
<1>7. RebuildServes'
  <2>1. Overlay(View(index), <<>>) = View(index)
    BY <1>4, OverlayNone
  <2>2. plan'[w].st = "building" /\ plan'[w].vectors = vs
    BY <1>3, <1>4
  <2>3. QED
    BY <1>2, <1>3, <2>1, <2>2 DEF IInv, IndexView, RebuildServes, Exists
<1>8. IndexView'
  BY <1>3 DEF IInv, IndexView, Exists
<1>9. QED
  BY <1>5, <1>6, <1>7, <1>8 DEF IInv

\* So does the build: it serves the plan's vectors.
LEMMA BuildIInv ==
    ASSUME IInv, NEW w \in Workers, Build(w)
    PROVE  IInv'
<1>1. PICK levels \in Draws(plan[w].vectors) :
         plan' = [plan EXCEPT ![w] = [st |-> "built", vectors |-> <<>>,
                    built |-> Mutated(EmptyIndex, plan[w].vectors, levels)]]
  BY DEF Build, Idle
<1> DEFINE ix == Mutated(EmptyIndex, plan[w].vectors, levels)
<1>2. UNCHANGED <<index, journal, rows, owner, mixed>> /\ plan[w].st = "building"
  BY DEF Build
<1>3. plan[w].vectors \in Seq(Mutations)
  BY PlanFields DEF IInv
<1>4. IndexOK(ix) /\ View(ix) = Overlay(NoRows, plan[w].vectors)
  BY <1>3, EmptyIndexOK, EmptyView, MutatedOK
<1>5. plan' = [plan EXCEPT ![w] = [st |-> "built", vectors |-> <<>>, built |-> ix]]
  BY <1>1
<1>6. plan \in [Workers -> Plans]
  BY DEF IInv, TypeOK
<1> HIDE DEF ix
<1>7. TypeOK'
  <2>1. [st |-> "built", vectors |-> <<>>, built |-> ix] \in Plans
    BY <1>4 DEF Plans, IndexOK
  <2>2. plan' \in [Workers -> Plans]
    BY <1>5, <1>6, <2>1
  <2>3. QED
    BY <1>2, <2>2 DEF IInv, TypeOK, Exists
<1>8. GraphsOK'
  BY <1>2, <1>4, <1>5, <1>6 DEF IInv, GraphsOK, Exists
<1>9. RebuildServes'
  <2> SUFFICES ASSUME Exists, ~mixed, journal # NoJournal, owner \in Workers
               PROVE  /\ plan'[owner].st = "building" =>
                            rows = Overlay(Overlay(NoRows, plan'[owner].vectors), journal)
                      /\ plan'[owner].st = "built" =>
                            rows = Overlay(View(plan'[owner].built), journal)
    BY <1>2 DEF RebuildServes, Exists
  <2>1. CASE owner = w
    <3>1. plan'[owner].st = "built" /\ plan'[owner].built = ix
      BY <1>5, <1>6, <2>1
    <3>2. rows = Overlay(Overlay(NoRows, plan[w].vectors), journal)
      BY <1>2, <2>1 DEF IInv, RebuildServes
    <3>3. QED
      BY <1>4, <3>1, <3>2
  <2>2. CASE owner # w
    BY <1>5, <1>6, <2>2 DEF IInv, RebuildServes
  <2>3. QED
    BY <2>1, <2>2
<1>10. IndexView'
  BY <1>2 DEF IInv, IndexView, Exists
<1>11. QED
  BY <1>7, <1>8, <1>9, <1>10 DEF IInv

\* So does the swap: plan and journal together are the rows.
LEMMA FinishIInv ==
    ASSUME IInv, NEW w \in Workers, Finish(w)
    PROVE  IInv'
<1>1. /\ plan[w].st = "built" /\ plan' = [plan EXCEPT ![w] = Idle]
      /\ journal' = NoJournal /\ owner' = Nobody /\ rows' = rows
  BY DEF Finish
<1>2. plan \in [Workers -> Plans] /\ Idle \in Plans /\ Idle.built = EmptyIndex
  BY EmptyIndexOK DEF IInv, TypeOK, Idle, Plans, IndexOK
<1>3. plan' \in [Workers -> Plans] /\ \A u \in Workers : IndexOK(plan'[u].built)
  BY <1>1, <1>2, EmptyIndexOK DEF IInv, GraphsOK
<1>4. RebuildServes'
  BY <1>1 DEF RebuildServes
<1>5. CASE Exists /\ journal # NoJournal
  <2>1. PICK levels \in Draws(journal) : index' = Mutated(plan[w].built, journal, levels)
    BY <1>5 DEF Finish, Swap
  <2>2. journal \in Seq(Mutations) /\ IndexOK(plan[w].built)
    BY <1>5 DEF IInv, TypeOK, GraphsOK
  <2>3. IndexOK(index') /\ View(index') = Overlay(View(plan[w].built), journal)
    BY <2>1, <2>2, MutatedOK
  <2>4. mixed' = (mixed \/ owner # w)
    BY <1>5 DEF Finish, Swap
  <2>5. TypeOK'
    <3>1. mixed' \in BOOLEAN
      BY <2>4
    <3>2. QED
      BY <1>1, <1>3, <2>3, <3>1 DEF IInv, TypeOK, Exists, IndexOK
  <2>6. GraphsOK'
    BY <1>3, <2>3 DEF GraphsOK
  <2>7. IndexView'
    <3> SUFFICES ASSUME ~mixed'
                 PROVE  rows' = View(index')
      BY DEF IndexView
    <3>1. ~mixed /\ owner = w
      BY <2>4
    <3>2. rows = Overlay(View(plan[w].built), journal)
      BY <1>1, <1>5, <3>1 DEF IInv, RebuildServes
    <3>3. QED
      BY <1>1, <2>3, <3>2
  <2>8. QED
    BY <1>4, <2>5, <2>6, <2>7 DEF IInv
<1>6. CASE ~(Exists /\ journal # NoJournal)
  <2>1. UNCHANGED <<index, mixed>>
    BY <1>6 DEF Finish
  <2>2. QED
    BY <1>1, <1>3, <1>4, <2>1 DEF IInv, TypeOK, GraphsOK, IndexView, Exists
<1>7. QED
  BY <1>5, <1>6

\* So do a failing build and its cancellation.
LEMMA FailIInv ==
    ASSUME IInv, NEW w \in Workers, BuildFails(w) \/ Cancel(w)
    PROVE  IInv'
<1> DEFINE failed == [st |-> "failed", vectors |-> <<>>, built |-> EmptyIndex]
<1>0. failed = [Idle EXCEPT !.st = "failed"]
  BY DEF Idle
<1>1. /\ failed \in Plans /\ failed.st = "failed" /\ failed.built = EmptyIndex
      /\ Idle \in Plans /\ Idle.st = "idle" /\ Idle.built = EmptyIndex
      /\ plan \in [Workers -> Plans]
  BY EmptyIndexOK DEF IInv, TypeOK, Idle, Plans, IndexOK
<1> HIDE DEF failed
<1>2. PICK p \in {failed, Idle} : plan' = [plan EXCEPT ![w] = p]
  BY <1>0 DEF BuildFails, Cancel
<1>3. /\ UNCHANGED <<index, rows, mixed>>
      /\ \/ UNCHANGED <<journal, owner>>
         \/ journal' = NoJournal /\ owner' = Nobody
  BY DEF BuildFails, Cancel
<1>4. plan' \in [Workers -> Plans] /\ \A u \in Workers : IndexOK(plan'[u].built)
  BY <1>1, <1>2, EmptyIndexOK DEF IInv, GraphsOK
<1>5. TypeOK'
  BY <1>3, <1>4 DEF IInv, TypeOK, Exists
<1>6. RebuildServes'
  <2> SUFFICES ASSUME Exists, ~mixed, journal' # NoJournal, owner' \in Workers
               PROVE  /\ plan'[owner'].st = "building" =>
                            rows = Overlay(Overlay(NoRows, plan'[owner'].vectors), journal')
                      /\ plan'[owner'].st = "built" =>
                            rows = Overlay(View(plan'[owner'].built), journal')
    BY <1>3 DEF RebuildServes, Exists
  <2>1. journal' = journal /\ owner' = owner
    BY <1>3
  <2>2. CASE owner = w
    BY <1>1, <1>2, <2>1, <2>2
  <2>3. CASE owner # w
    <3>1. plan'[owner] = plan[owner]
      BY <1>1, <1>2, <2>3
    <3>2. QED
      BY <2>1, <3>1 DEF IInv, RebuildServes
  <2>4. QED
    BY <2>2, <2>3
<1>7. QED
  BY <1>3, <1>4, <1>5, <1>6 DEF IInv, GraphsOK, IndexView, Exists

\* So do create and drop, which start with no rows and no journal.
LEMMA NamesIInv ==
    ASSUME IInv, CreateHnswCollection \/ DropCollection
    PROVE  IInv'
<1>1. /\ index' \in {EmptyIndex, NoCollection} /\ journal' = NoJournal
      /\ rows' = NoRows /\ owner' = Nobody /\ mixed' = FALSE /\ plan' = plan
  BY DEF CreateHnswCollection, DropCollection
<1>2. TypeOK'
  BY <1>1, EmptyIndexOK, NoRowsType DEF IInv, TypeOK, IndexOK
<1>3. QED
  BY <1>1, <1>2, EmptyIndexOK, EmptyView
     DEF IInv, GraphsOK, RebuildServes, IndexView, Exists

\* The invariant is inductive.
LEMMA NextIInv == IInv /\ [Next]_vars => IInv'
<1> SUFFICES ASSUME IInv, [Next]_vars
             PROVE  IInv'
  OBVIOUS
<1>1. CASE CreateHnswCollection \/ DropCollection
  BY <1>1, NamesIInv
<1>2. ASSUME NEW i \in Ids, NEW v \in Vecs, Insert(i, v)
      PROVE  IInv'
  BY <1>2, InsertIInv
<1>3. ASSUME NEW ms \in Batches, InsertBatch(ms)
      PROVE  IInv'
  BY <1>3, InsertBatchIInv
<1>4. ASSUME NEW i \in Ids, Delete(i)
      PROVE  IInv'
  BY <1>4, DeleteIInv
<1>5. ASSUME NEW w \in Workers, Prepare(w)
      PROVE  IInv'
  BY <1>5, PrepareIInv
<1>6. ASSUME NEW w \in Workers, Build(w)
      PROVE  IInv'
  BY <1>6, BuildIInv
<1>7. ASSUME NEW w \in Workers, BuildFails(w) \/ Cancel(w)
      PROVE  IInv'
  BY <1>7, FailIInv
<1>8. ASSUME NEW w \in Workers, Finish(w)
      PROVE  IInv'
  BY <1>8, FinishIInv
<1>9. CASE UNCHANGED vars
  BY <1>9 DEF vars, IInv, TypeOK, GraphsOK, RebuildServes, IndexView, Exists
<1>10. QED
  BY <1>1, <1>2, <1>3, <1>4, <1>5, <1>6, <1>7, <1>8, <1>9 DEF Next

----------------------------------------------------------------------------
(* Theorems *)

\* Every variable of a compacting collection keeps its type, and a collection
\* that is gone has no journal.
THEOREM CompactionTypes == Spec => []TypeOK
<1>1. IInv => TypeOK
  BY DEF IInv
<1>2. QED
  BY <1>1, InitIInv, NextIInv, PTL DEF Spec

\* A rebuild that is swapped in neither loses nor resurrects a row: get()
\* answers what clients wrote, with any number of ids, workers and writes
\* between prepare and finish.
THEOREM RebuildsServeRows == Spec => []IndexServesRows
<1>1. IInv => IndexServesRows
  BY DEF IInv, IndexView, IndexServesRows, View
<1>2. QED
  BY <1>1, InitIInv, NextIInv, PTL DEF Spec

\* Searches can find every live row and none that is deleted.
THEOREM SearchesReachRows == Spec => []LiveRowsReachable
<1>1. IInv => LiveRowsReachable
  <2> SUFFICES ASSUME Exists, IndexOK(index)
               PROVE  /\ index.entry = 0 <=> LiveIds(index) = {}
                      /\ index.entry # 0 => index.entry \in Hits(index)
                      /\ \A i \in LiveIds(index) : IdToNode(index, i) \in Hits(index)
                      /\ \A n \in Hits(index) : index.nodes[n].id \in LiveIds(index)
    BY DEF IInv, GraphsOK, LiveRowsReachable
  <2>1. /\ index \in Index /\ index.root \in Nat /\ Len(index.nodes) \in Nat
        /\ DOMAIN index.nodes = 1 .. Len(index.nodes)
        /\ \A n \in 1 .. Len(index.nodes) : index.nodes[n].id \in Ids
        /\ \A i \in Ids : NodesOf(index, i) \in SUBSET (1 .. Len(index.nodes))
    BY NodeFacts DEF IndexOK, Index
  <2>2. index.entry # 0 => index.entry \in Hits(index)
    BY DEF IndexOK, Hits
  <2>3. ASSUME NEW n \in Hits(index)
        PROVE  index.nodes[n].id \in LiveIds(index)
    <3>1. n \in index.root .. Len(index.nodes) /\ index.nodes[n].id \notin index.deleted
      BY DEF Hits
    <3>2. index.root # 0
      BY <2>3 DEF Hits, IndexOK
    <3>3. n \in 1 .. Len(index.nodes)
      BY <2>1, <3>1, <3>2
    <3>4. n \in NodesOf(index, index.nodes[n].id)
      BY <2>1, <3>3 DEF NodesOf
    <3>5. QED
      BY <2>1, <3>1, <3>3, <3>4 DEF LiveIds, Known
  <2>4. index.entry = 0 <=> LiveIds(index) = {}
    BY <2>2, <2>3 DEF IndexOK
  <2>5. ASSUME NEW i \in LiveIds(index)
        PROVE  IdToNode(index, i) \in Hits(index)
    <3> DEFINE n == IdToNode(index, i)
    <3>1. i \in Ids /\ i \notin index.deleted /\ NodesOf(index, i) # {}
      BY <2>5 DEF LiveIds, Known
    <3>2. n \in NodesOf(index, i) /\ \A k \in NodesOf(index, i) : k <= n
      BY <2>1, <3>1, LatestIsLast DEF IdToNode
    <3>3. PICK k \in NodesOf(index, i) : index.root <= k
      BY <2>5 DEF IndexOK
    <3> HIDE DEF n
    <3>4. k \in 1 .. Len(index.nodes) /\ n \in 1 .. Len(index.nodes) /\ k <= n
      BY <2>1, <3>1, <3>2, <3>3
    <3>5. n \in index.root .. Len(index.nodes)
      BY <2>1, <3>3, <3>4
    <3>6. index.nodes[n].id = i
      BY <3>2 DEF NodesOf
    <3>7. n \in Hits(index)
      BY <2>4, <2>5, <3>1, <3>5, <3>6 DEF Hits
    <3>8. QED
      BY <3>7 DEF n
  <2>6. QED
    BY <2>2, <2>3, <2>4, <2>5
<1>2. QED
  BY <1>1, InitIInv, NextIInv, PTL DEF Spec

\* With one rebuild at a time under a name, a plan is never swapped in with
\* another plan's journal, whatever is dropped and created again while it is
\* built: then get() answers what clients wrote without exception.
THEOREM LoneWorkerServesRows ==
    ASSUME \A u, w \in Workers : u = w
    PROVE  Spec => [](Exists => \A i \in Ids : Get(index, i) = rows[i])
<1> DEFINE Lone == (journal # NoJournal => owner \in Workers) /\ mixed = FALSE
<1>1. Init => Lone
  BY DEF Init
<1>2. ASSUME Lone, [Next]_vars
      PROVE  Lone'
  <2>1. CASE CreateHnswCollection \/ DropCollection
    BY <2>1 DEF CreateHnswCollection, DropCollection
  <2>2. ASSUME NEW i \in Ids, NEW v \in Vecs, Insert(i, v)
        PROVE  Lone'
    BY <1>2, <2>2 DEF Insert, Journalled
  <2>3. ASSUME NEW ms \in Batches, InsertBatch(ms)
        PROVE  Lone'
    BY <1>2, <2>3 DEF InsertBatch, Journalled
  <2>4. ASSUME NEW i \in Ids, Delete(i)
        PROVE  Lone'
    BY <1>2, <2>4 DEF Delete, Journalled
  <2>5. ASSUME NEW w \in Workers, Prepare(w) \/ Build(w) \/ BuildFails(w) \/ Cancel(w)
        PROVE  Lone'
    BY <1>2, <2>5 DEF Prepare, Build, BuildFails, Cancel
  <2>6. ASSUME NEW w \in Workers, Finish(w)
        PROVE  Lone'
    <3>1. journal # NoJournal => owner = w
      BY <1>2
    <3>2. QED
      BY <1>2, <2>6, <3>1 DEF Finish, Swap
  <2>7. CASE UNCHANGED vars
    BY <1>2, <2>7 DEF vars
  <2>8. QED
    BY <1>2, <2>1, <2>2, <2>3, <2>4, <2>5, <2>6, <2>7 DEF Next
<1>3. Lone /\ IInv => (Exists => \A i \in Ids : Get(index, i) = rows[i])
  BY DEF IInv, IndexView, View
<1>4. QED
  BY <1>1, <1>2, <1>3, InitIInv, NextIInv, PTL DEF Spec
=============================================================================
