-------------------------------- MODULE TopK --------------------------------
(***************************************************************************)
(* The bounded max-heap with which every index of likhadb-index keeps its  *)
(* k best candidates, and the fold/reduce over rayon threads that fills    *)
(* it.  A candidate is a pair <<distance, id>>; a heap is a set of them,   *)
(* ordered by distance and then by id, as Rust orders tuples.              *)
(*                                                                         *)
(* Which thread gets which candidates, and in which order the reduce step  *)
(* drains the other heap, is up to rayon and to BinaryHeap: a parallel     *)
(* search is the SET of heaps it may end with.                             *)
(***************************************************************************)
EXTENDS Naturals, Sequences, FiniteSets, SequencesExt

\* The candidate BinaryHeap::peek shows: the farthest, the highest id of ties.
Peek(heap) ==
    CHOOSE x \in heap : \A y \in heap :
        y[1] < x[1] \/ (y[1] = x[1] /\ y[2] <= x[2])

\* Mutant: a full heap takes the candidate without dropping its worst.
OfferNoPop(heap, x, k) ==
    IF Cardinality(heap) < k \/ x[1] < Peek(heap)[1] THEN heap \cup {x} ELSE heap

\* One candidate: taken while there is room, or in place of the worst if nearer.
Offer(heap, x, k) ==
    IF Cardinality(heap) < k THEN heap \cup {x}
    ELSE IF x[1] < Peek(heap)[1] THEN (heap \ {Peek(heap)}) \cup {x}
    ELSE heap

Fill(heap, candidates, k) ==
    FoldLeft(LAMBDA h, x : Offer(h, x, k), heap, candidates)

\* reduce: the other heap is drained into this one in any order.
Merges(a, b, k) == {Fill(a, s, k) : s \in SetToSeqs(b)}

\* fold then reduce, the candidates cut between two threads at any point.
ParallelTopK(candidates, k) ==
    UNION {Merges(Fill({}, SubSeq(candidates, 1, n), k),
                  Fill({}, SubSeq(candidates, n + 1, Len(candidates)), k), k) :
           n \in 0 .. Len(candidates)}

\* The reference: k of the candidates (all, if there are fewer), and none that
\* was left out is nearer than one that was taken.
IsTopK(heap, candidates, k) ==
    /\ heap \subseteq candidates
    /\ Cardinality(heap) = (IF Cardinality(candidates) < k THEN Cardinality(candidates) ELSE k)
    /\ \A x \in heap, y \in candidates \ heap : x[1] <= y[1]

=============================================================================
