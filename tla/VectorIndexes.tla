---------------------------- MODULE VectorIndexes ----------------------------
(***************************************************************************)
(* A flat and an IVF index under the same calls.  The flat index is the    *)
(* brute force the IVF index is measured against; VectorTable is what the  *)
(* VectorIndex trait promises of both.                                     *)
(***************************************************************************)
EXTENDS IvfIndex

CONSTANTS
    Kinds,             \* the IVF indexes created, pairs <<nprobe, quantize>>
    MaxCompactions     \* bound: each compaction may fit one more quantizer

ASSUME KindAssumption == Kinds \subseteq (1 .. NList) \X BOOLEAN
ASSUME UnitAssumption == Unit = Sq8Levels ^ (MaxCompactions + 1)

VARIABLES
    flat,         \* a FlatIndex
    ivf,          \* an IvfIndex
    given,        \* the vectors the current IVF index was given, by id
    compactions   \* how often it was rebuilt

vars == <<flat, ivf, given, compactions>>

Init ==
    /\ flat = EmptySlab
    /\ \E kind \in Kinds : ivf = NewIvf(kind[1], kind[2])
    /\ given = [i \in Ids |-> NoVec]
    /\ compactions = 0

Insert(i, v) ==
    /\ flat' = SlabPut(flat, i, v)
    /\ ivf' = IvfInsert(ivf, i, v)
    /\ given' = [given EXCEPT ![i] = v]
    /\ UNCHANGED compactions

Delete(i) ==
    /\ flat' = SlabDrop(flat, i)
    /\ ivf' = IvfDelete(ivf, i)
    /\ given' = [given EXCEPT ![i] = NoVec]
    /\ UNCHANGED compactions

\* Collection::compact_index; None while untrained.  The new index is given what
\* the old one answers.
Compact ==
    /\ ivf.trained
    /\ compactions < MaxCompactions
    /\ ivf' \in Compactions(ivf)
    /\ given' = IvfContent(ivf)
    /\ compactions' = compactions + 1
    /\ UNCHANGED flat

Next ==
    \/ \E i \in Ids, v \in Vecs : Insert(i, v)
    \/ \E i \in Ids : Delete(i)
    \/ Compact

Spec == Init /\ [][Next]_vars

----------------------------------------------------------------------------
(* Properties *)

\* Every field has its type; a trained index has nlist centroids and lists.
TypeOK ==
    /\ flat \in Slab
    /\ given \in [Ids -> Int \cup {NoVec}]
    /\ compactions \in 0 .. MaxCompactions
    /\ ivf.staging \in Slab
    /\ ivf.home \in [Ids -> 0 .. NList]
    /\ Len(ivf.lists) = (IF ivf.trained THEN NList ELSE 0)
    /\ Len(ivf.centroids) = Len(ivf.lists)

Occurrences(slab, i) == Cardinality({n \in DOMAIN slab.ids : slab.ids[n] = i})

\* id_to_list and the posting lists never disagree: across overwrites that move
\* a vector to another list, swap-removes, training and compaction, an id is in
\* exactly the list id_to_list names, once, its vector in the same slot; nothing
\* stays in staging after training.  get, delete and search rest on this.
PostingsAgree ==
    /\ \A slab \in {ivf.staging} \cup ToSet(ivf.lists) : Len(slab.ids) = Len(slab.data)
    /\ ivf.trained => ivf.staging = EmptySlab
    /\ ivf.trained => \A i \in Ids, c \in 1 .. NList :
           Occurrences(ivf.lists[c], i) = (IF ivf.home[i] = c THEN 1 ELSE 0)
    /\ IvfIds(ivf) = {i \in Ids : given[i] # NoVec}

Exact(content, q, k, filter, heap) ==
    IsTopK(heap, {<<Distance(q, content[i]), i>> : i \in {j \in filter : content[j] # NoVec}}, k)

\* Searches with and without a filter that hides one id.
Filters == {Ids, Ids \ {SetMin(Ids)}}

\* IvfIndex's own claim: with nprobe = nlist, and before training, a search is
\* equivalent to brute force.  Whatever rayon does, the IVF index ends with k
\* nearest of the vectors it holds, which without SQ8 are those of the flat
\* index, and the flat index with k nearest of its own.
FullProbeExact ==
    \A q \in Vecs, k \in 1 .. 2, filter \in Filters :
        /\ \A heap \in FlatSearch(flat, q, k, filter) :
               Exact(FlatContent(flat), q, k, filter, heap)
        /\ (ivf.nprobe = NList \/ ~ivf.trained) =>
               \A heap \in IvfSearch(ivf, q, k, filter) :
                   Exact(IF ivf.quantize THEN IvfContent(ivf) ELSE FlatContent(flat),
                         q, k, filter, heap)

\* With any nprobe a vector that is stored is found by searching for it: insert
\* and search break ties between equally near centroids the same way, so the
\* list that holds it is always probed.  (Unquantized: under SQ8 the stored
\* vector is not the one that was given.)
FindsItself ==
    ~ivf.quantize =>
        \A i \in Ids : given[i] # NoVec =>
            \A heap \in IvfSearch(ivf, given[i], 1, Ids) : {h[1] : h \in heap} = {0}

\* SQ8 answers the representable value nearest to what was given, also for a
\* vector far outside the range the quantizer was fitted to, which is clamped.
Sq8Nearest ==
    \A i \in Ids : given[i] # NoVec =>
        IF ivf.quantizer = NoQuantizer THEN IvfGet(ivf, i) = given[i]
        ELSE \A code \in 0 .. Sq8Levels :
                 Distance(IvfGet(ivf, i), given[i])
                     <= Distance(Decode(ivf.quantizer, code), given[i])

FlatTable == INSTANCE VectorTable WITH rows <- FlatContent(flat)
IvfTable == INSTANCE VectorTable WITH rows <- IvfContent(ivf)

\* Both indexes implement the promise of the VectorIndex trait: an insert or a
\* delete changes the one row it names, and training, swap-removes and
\* compaction, in whatever order the hash map lists the ids, change none.
\* SQ8 indexes are excepted: their rows are approximations.
TablesKept ==
    /\ FlatTable!Spec
    /\ IvfTable!Init
    /\ [][ivf.quantize \/ IvfTable!Next]_<<IvfContent(ivf), ivf.quantize>>

=============================================================================
