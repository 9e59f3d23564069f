---------------------------- MODULE HybridSearch ----------------------------
(***************************************************************************)
(* Collection::search and hybrid_search of likhadb-store: the nearest rows *)
(* that pass a predicate, and the fusion of that list with a full-text     *)
(* list by reciprocal rank.  Pure operators over the contents of a         *)
(* collection and the lists its indexes return.                            *)
(*                                                                         *)
(* Scores are integers in units of 1/Unit.  The vector distances of a      *)
(* query are distinct, so the vector list is determined; ties between      *)
(* fused scores come out of a hash map, in any order.                      *)
(***************************************************************************)
EXTENDS MetaFilter, FiniteSets, Functions, SequencesExt

CONSTANTS
    Unit,       \* scores are multiples of 1/Unit
    NoFilter    \* Option::None for a predicate

Lowest(k, n) == IF k < n THEN k ELSE n

\* The elements of S in every order that has Key descending.
Descending(S, Key(_)) ==
    {s \in Injection(1 .. Cardinality(S), S) :
        \A i, j \in DOMAIN s : i < j => Key(s[i]) >= Key(s[j])}

\* Mutant: one row too few.
TruncateShort(s, k) == SubSeq(s, 1, Lowest(k - 1, Len(s)))

Truncate(s, k) == SubSeq(s, 1, Lowest(k, Len(s)))

\* search: the k nearest of the rows that pass.
Search(rows, dist, k, filter) ==
    LET pass == {i \in DOMAIN rows : filter = NoFilter \/ Passes(rows[i], filter)}
        Near(i) == -dist[i]
        list == CHOOSE s \in Descending(pass, Near) : TRUE
    IN  [n \in 1 .. Lowest(k, Len(list)) |-> [id |-> list[n], score |-> dist[list[n]]]]

\* The term a list adds to the score of an id: 1 / (rrf_k + rank).
RrfTerm(list, i, rrf_k) ==
    IF i \in Range(list)
    THEN Unit \div (rrf_k + CHOOSE n \in DOMAIN list : list[n] = i)
    ELSE 0

\* hybrid_search: both lists 2k long, fused, truncated to k.  The full-text
\* list is not filtered.
Hybrid(rows, dist, text_hits, k, rrf_k, filter) ==
    LET near == Search(rows, dist, 2 * k, filter)
        vec  == [n \in DOMAIN near |-> near[n].id]
        fts  == Truncate(text_hits, 2 * k)
        Score(i) == RrfTerm(vec, i, rrf_k) + RrfTerm(fts, i, rrf_k)
    IN  {[n \in 1 .. Lowest(k, Len(s)) |-> [id |-> s[n], score |-> Score(s[n])]] :
            s \in Descending(Range(vec) \cup Range(fts), Score)}
=============================================================================
