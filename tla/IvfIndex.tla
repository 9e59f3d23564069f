------------------------------ MODULE IvfIndex ------------------------------
(***************************************************************************)
(* likhadb-index's IvfIndex: a staging slab until nlist vectors are there, *)
(* then k-means centroids and one posting list per centroid, optionally    *)
(* with 8-bit scalar quantization (SQ8).                                   *)
(*                                                                         *)
(* Numbers.  Vectors have one dimension and are integers counted in 1/Unit *)
(* of the caller's, so that decoded codes stay integers: a quantizer       *)
(* divides its range by Sq8Levels (255 in the code) and compaction fits a  *)
(* new one to decoded values, so n fits need Unit = Sq8Levels ^ n.         *)
(* A centroid is a mean, the pair <<sum, count>>; two centroids            *)
(* that differ at all differ by more than KMEANS_TOL.                      *)
(***************************************************************************)
EXTENDS FlatIndex

CONSTANTS
    NList,           \* clusters, and the number of vectors that triggers training
    Sq8Levels,       \* the highest code
    Unit,            \* 1.0 in the integers of the model
    MaxKmeansIter,   \* MAX_KMEANS_ITER
    NoQuantizer      \* Option::None for the quantizer

ASSUME IvfAssumption ==
    /\ NList \in Nat \ {0} /\ Sq8Levels \in Nat \ {0} /\ MaxKmeansIter \in Nat \ {0}
    /\ \A v \in Vecs : v % Unit = 0

----------------------------------------------------------------------------
(* Sq8Quantizer *)

SetMin(S) == CHOOSE x \in S : \A y \in S : x <= y
SetMax(S) == CHOOSE x \in S : \A y \in S : y <= x

\* fit: a range of zero gets the scale 1.0.
Fit(data) ==
    LET lo == SetMin(ToSet(data))
        hi == SetMax(ToSet(data))
    IN  [min |-> lo, scale |-> IF hi > lo THEN (hi - lo) \div Sq8Levels ELSE Unit]

\* Mutant: the quotient is cut down instead of rounded.
EncodeFloor(q, v) ==
    LET code == IF v < q.min THEN 0 ELSE (v - q.min) \div q.scale
    IN  IF code > Sq8Levels THEN Sq8Levels ELSE code

\* encode: round half up (values below the minimum end at 0 anyway), clamp.
Encode(q, v) ==
    LET code == IF v < q.min THEN 0 ELSE (2 * (v - q.min) + q.scale) \div (2 * q.scale)
    IN  IF code > Sq8Levels THEN Sq8Levels ELSE code

Decode(q, code) == q.min + code * q.scale

----------------------------------------------------------------------------
(* kmeans *)

\* The distance from v to a centroid, times the centroid's count.
Spread(v, c) == Distance(v * c[2], c[1])

Nearer(v, c, d) == Spread(v, c) * d[2] < Spread(v, d) * c[2]

\* Mutant: the last of the nearest centroids.
NearestCentroidLast(centroids, v) ==
    CHOOSE c \in DOMAIN centroids :
        /\ \A d \in DOMAIN centroids : ~Nearer(v, centroids[d], centroids[c])
        /\ \A d \in (c + 1) .. Len(centroids) : Nearer(v, centroids[c], centroids[d])

\* min_by over 0..k: the first of the nearest centroids.
NearestCentroid(centroids, v) ==
    CHOOSE c \in DOMAIN centroids :
        /\ \A d \in DOMAIN centroids : ~Nearer(v, centroids[d], centroids[c])
        /\ \A d \in 1 .. (c - 1) : Nearer(v, centroids[c], centroids[d])

\* Stride-sampled starting centroids.
Seeds(data) == [c \in 1 .. NList |-> <<data[((c - 1) * Len(data)) \div NList + 1], 1>>]

\* One Lloyd iteration.  An empty cluster takes the previous centroid of the
\* largest cluster, the last of them on a tie (max_by_key).
Lloyd(data, centroids) ==
    LET home     == [n \in DOMAIN data |-> NearestCentroid(centroids, data[n])]
        Members(c) == SelectSeq([n \in DOMAIN data |-> n], LAMBDA n : home[n] = c)
        Count(c) == Len(Members(c))
        Total(c) == FoldLeft(LAMBDA s, n : s + data[n], 0, Members(c))
        largest  == CHOOSE c \in DOMAIN centroids :
                        /\ \A d \in DOMAIN centroids : Count(d) <= Count(c)
                        /\ \A d \in (c + 1) .. NList : Count(d) < Count(c)
    IN  [c \in DOMAIN centroids |-> IF Count(c) = 0 THEN centroids[largest]
                                     ELSE <<Total(c), Count(c)>>]

SameMeans(a, b) == \A c \in DOMAIN a : a[c][1] * b[c][2] = b[c][1] * a[c][2]

\* Stops early once an iteration moves no centroid.
Kmeans(data) ==
    LET Round(s, n) == IF s.done THEN s
                       ELSE LET next == Lloyd(data, s.at)
                            IN  [at |-> next, done |-> SameMeans(s.at, next)]
    IN  FoldLeft(Round, [at |-> Seeds(data), done |-> FALSE],
                 [n \in 1 .. MaxKmeansIter |-> n]).at

----------------------------------------------------------------------------
(* IvfIndex *)

\* IvfIndex::new and new_sq8 (new refuses nlist = 0 and nprobe outside 1..nlist).
NewIvf(nprobe, quantize) ==
    [nprobe |-> nprobe, quantize |-> quantize,
     staging |-> EmptySlab, trained |-> FALSE, centroids |-> <<>>, lists |-> <<>>,
     home |-> [i \in Ids |-> 0],           \* id_to_list, 0 for no entry
     quantizer |-> NoQuantizer]

\* What a posting list stores of a vector: its code under SQ8.
Stored(ix, v) == IF ix.quantizer = NoQuantizer THEN v ELSE Encode(ix.quantizer, v)
Loaded(ix, x) == IF ix.quantizer = NoQuantizer THEN x ELSE Decode(ix.quantizer, x)

\* push or push_codes into the nearest centroid's list, and note it.
Post(ix, i, v) ==
    LET c == NearestCentroid(ix.centroids, v)
    IN  [ix EXCEPT !.lists[c] = SlabPush(@, i, Stored(ix, v)), !.home[i] = c]

\* remove_by_id or remove_by_id_sq8, and forget it.
Unpost(ix, i) ==
    [ix EXCEPT !.lists[ix.home[i]] = SlabDrop(@, i), !.home[i] = 0]

\* Mutant: training forgets to leave the untrained state.
TrainNoFlag(ix) ==
    [ix EXCEPT !.centroids = Kmeans(ix.staging.data),
               !.lists     = [c \in 1 .. NList |-> EmptySlab]]

\* train: centroids and quantizer from the staged vectors, which move to lists.
Train(ix) ==
    LET staged == ix.staging
        empty  == [ix EXCEPT
                     !.centroids = Kmeans(staged.data),
                     !.lists     = [c \in 1 .. NList |-> EmptySlab],
                     !.quantizer = IF ix.quantize THEN Fit(staged.data) ELSE @,
                     !.staging   = EmptySlab,
                     !.trained   = TRUE]
    IN  FoldLeft(LAMBDA x, n : Post(x, staged.ids[n], staged.data[n]), empty,
                 [n \in DOMAIN staged.ids |-> n])

IvfGet(ix, i) ==
    IF ~ix.trained THEN SlabGet(ix.staging, i)
    ELSE IF ix.home[i] = 0 THEN NoVec
    ELSE Loaded(ix, SlabGet(ix.lists[ix.home[i]], i))

\* Mutant: a trained insert leaves the overwritten entry in its old list.
IvfInsertNoUnpost(ix, i, v) ==
    IF ix.trained THEN Post(ix, i, v)
    ELSE LET put == [ix EXCEPT !.staging = SlabPut(@, i, v)]
         IN  IF Len(put.staging.ids) >= NList THEN Train(put) ELSE put

\* insert: trained, out of the old list and into the nearest; untrained, staged,
\* and the vector that makes nlist trains the index.
IvfInsert(ix, i, v) ==
    IF ix.trained
    THEN Post(IF ix.home[i] = 0 THEN ix ELSE Unpost(ix, i), i, v)
    ELSE LET put == [ix EXCEPT !.staging = SlabPut(@, i, v)]
         IN  IF Len(put.staging.ids) >= NList THEN Train(put) ELSE put

IvfDelete(ix, i) ==
    IF ~ix.trained THEN [ix EXCEPT !.staging = SlabDrop(@, i)]
    ELSE IF ix.home[i] = 0 THEN ix ELSE Unpost(ix, i)

IvfIds(ix) ==
    IF ix.trained THEN {i \in Ids : ix.home[i] # 0} ELSE ToSet(ix.staging.ids)

\* compact: a fresh index of the same parameters takes the live vectors in the
\* order the hash map lists them.  It is trained only if there are nlist again.
Compactions(ix) ==
    {FoldLeft(LAMBDA x, i : IvfInsert(x, i, IvfGet(ix, i)),
              NewIvf(ix.nprobe, ix.quantize), order) : order \in SetToSeqs(IvfIds(ix))}

\* The nprobe lists nearest to the query, by distance and then by number.
Probed(ix, q) ==
    LET Before(c, d) == \/ Nearer(q, ix.centroids[c], ix.centroids[d])
                        \/ ~Nearer(q, ix.centroids[d], ix.centroids[c]) /\ c < d
    IN  SubSeq(SetToSortSeq(DOMAIN ix.centroids, Before), 1, ix.nprobe)

\* search: a sequential scan of staging, or rayon over the probed lists.
IvfSearch(ix, q, k, filter) ==
    LET Measure(x) == Distance(q, Loaded(ix, x))
    IN  IF k = 0 THEN {{}}
        ELSE IF ~ix.trained THEN {Fill({}, Candidates(ix.staging, filter, Measure), k)}
        ELSE ParallelTopK(FlattenSeq([n \in 1 .. ix.nprobe |->
                 Candidates(ix.lists[Probed(ix, q)[n]], filter, Measure)]), k)

IvfContent(ix) == [i \in Ids |-> IvfGet(ix, i)]

=============================================================================
