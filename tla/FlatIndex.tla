------------------------------ MODULE FlatIndex ------------------------------
(***************************************************************************)
(* likhadb-index's FlatIndex: two parallel slabs, ids and data, the n-th   *)
(* id owning the n-th vector, and brute-force search over them.            *)
(*                                                                         *)
(* Vectors have one dimension and are integers; the distance is L2.  A     *)
(* vector of another length is refused before anything changes, so it is   *)
(* not a parameter here.                                                   *)
(***************************************************************************)
EXTENDS Integers, Sequences, FiniteSets, TopK

CONSTANTS Ids, Vecs, NoVec

ASSUME FlatAssumption == Ids \subseteq Nat /\ Vecs \subseteq Int /\ NoVec \notin Int

Distance(a, b) == IF a < b THEN b - a ELSE a - b

Slab == [ids : Seq(Ids), data : Seq(Int)]

EmptySlab == [ids |-> <<>>, data |-> <<>>]

\* position: the slot of an id, 0 when it has none.
Position(slab, i) ==
    IF \E n \in DOMAIN slab.ids : slab.ids[n] = i
    THEN CHOOSE n \in DOMAIN slab.ids : slab.ids[n] = i
    ELSE 0

SlabGet(slab, i) ==
    IF Position(slab, i) = 0 THEN NoVec ELSE slab.data[Position(slab, i)]

SlabPush(slab, i, v) ==
    [ids |-> Append(slab.ids, i), data |-> Append(slab.data, v)]

\* insert: overwrite in place, or push at the end.
SlabPut(slab, i, v) ==
    IF Position(slab, i) # 0
    THEN [slab EXCEPT !.data[Position(slab, i)] = v]
    ELSE SlabPush(slab, i, v)

SwapRemove(seq, n) ==
    SubSeq(IF n = Len(seq) THEN seq ELSE [seq EXCEPT ![n] = seq[Len(seq)]], 1, Len(seq) - 1)

\* Mutant: the last vector is not moved into the vacated slot.
SlabDropUnaligned(slab, i) ==
    LET n == Position(slab, i)
    IN  IF n = 0 THEN slab
        ELSE [ids |-> SwapRemove(slab.ids, n), data |-> SwapRemove(slab.data, Len(slab.data))]

\* delete: the last entry of both slabs moves into the vacated slot.
SlabDrop(slab, i) ==
    LET n == Position(slab, i)
    IN  IF n = 0 THEN slab
        ELSE [ids |-> SwapRemove(slab.ids, n), data |-> SwapRemove(slab.data, n)]

\* The candidates a scan meets, in slab order; the filter is a set of ids and
\* Measure turns what the slab stores into a distance.
Candidates(slab, filter, Measure(_)) ==
    LET slots == SelectSeq([n \in DOMAIN slab.ids |-> n], LAMBDA n : slab.ids[n] \in filter)
    IN  [n \in DOMAIN slots |-> <<Measure(slab.data[slots[n]]), slab.ids[slots[n]]>>]

\* search: the heaps it may end with; k = 0 finds nothing.
FlatSearch(slab, q, k, filter) ==
    IF k = 0 THEN {{}}
    ELSE ParallelTopK(Candidates(slab, filter, LAMBDA v : Distance(q, v)), k)

FlatContent(slab) == [i \in Ids |-> SlabGet(slab, i)]

=============================================================================
