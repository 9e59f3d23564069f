--------------------------- MODULE QueryPipeline ---------------------------
(***************************************************************************)
(* A search request of the REST server with enriched ranking: the handlers *)
(* query_vectors and hybrid_query_vectors, and Pipeline::execute of        *)
(* likhadb-query behind them (candidates, enrichment and ACL, score        *)
(* fusion, bi-encoder, cross-encoder).  Several requests run at once and   *)
(* may interleave at every await.                                          *)
(*                                                                         *)
(* Every request clones the SessionContext.  The clone shares the catalog, *)
(* so the tables `candidates` and `enriched_candidates` are entries of one *)
(* registry; registering a name that is taken is an error (MemorySchema-   *)
(* Provider of DataFusion), and nothing takes an entry out again.          *)
(*                                                                         *)
(* Abstractions.  The five enrichment tables are one record per id (whether*)
(* the joins find it, whether it is restricted, its teams, its age in      *)
(* days).  Text is left out.  Decay is exp(-lambda n) with lambda = ln 2.  *)
(* Fused scores are compared within one request, so they are kept as the   *)
(* numerators over its common denominator.                                 *)
(***************************************************************************)
EXTENDS HybridSearch

CONSTANTS
    Clients,      \* requests in flight
    Ids,
    Rows,         \* the collection: payloads by id
    Dist,         \* distance of every id from the query, in units of 1/Unit
    TextHits,     \* what the FTS index returns, best first
    Corpora,      \* possible contents of the enrichment tables
    Configs,      \* pipeline configurations
    RequestSet,   \* what clients may ask
    BadTeam,      \* a team name with a character that is not allowed
    None,         \* Option::None
    MaxK          \* MAX_K

ASSUME PipelineAssumption ==
    /\ Unit \in Nat \ {0} /\ MaxK \in Nat
    /\ \A i, j \in Ids : i # j => Dist[i] # Dist[j]

VARIABLES
    config,     \* the configuration the operator gave, fixed
    corpus,     \* the enrichment tables, loaded at startup
    registry,   \* the shared table registry
    pc, req,
    hits,       \* results of the vector or hybrid search
    bound,      \* rows of `candidates` as the enrichment query resolved it
    ranked      \* the list a request is working on, or its answer

vars == <<config, corpus, registry, pc, req, hits, bound, ranked>>

----------------------------------------------------------------------------
(* Configuration *)

\* ScoringWeights::new, RecencyConfig::new, BiEncoderConfig::new,
\* CrossEncoderConfig::new and the checks of build_query_config_from_env.
\* Weights are in hundredths; alpha is a half or not in (0, 1).
ValidConfig(c) ==
    /\ c.vector_weight >= 0 /\ c.recency_weight >= 0
    /\ c.vector_weight + c.recency_weight = 100
    /\ c.grace >= 0
    /\ c.top_n >= 1 /\ c.top_m \in 1 .. c.top_n
    /\ c.bi # None => c.bi.alpha = 50 /\ c.bi.top_p >= 1
    /\ c.cross # None => c.cross.top_k >= 1

\* try_build_pipeline_from_env and Pipeline::new: a configuration that is not
\* valid leaves the server without a pipeline.  A cross-encoder without a
\* bi-encoder is never reached.
HasPipeline == ValidConfig(config)

----------------------------------------------------------------------------
(* Scores *)

\* 1 / (1 + ann_distance), rounded to a multiple of a fixed unit.
RawVector(d) ==
    LET n == Unit + d
    IN  IF n > 0 THEN (840 * Unit) \div n ELSE -((840 * Unit) \div (-n))

\* exp(-lambda * max(0, age - grace)).
RawRecency(age) ==
    LET late == age - config.grace IN 8 \div 2 ^ (IF late > 0 THEN late ELSE 0)

Lows(S) == CHOOSE x \in S : \A y \in S : x <= y
Highs(S) == CHOOSE x \in S : \A y \in S : x >= y

\* Max minus min of a signal over the window; where it is 0, NULLIF and
\* COALESCE make the normalised signal 0, whatever it is divided by.
Spread(S) == IF Highs(S) = Lows(S) THEN 1 ELSE Highs(S) - Lows(S)

\* Mutant: the normalised distance is not inverted.
FusionScoreRaw(window, c) ==
    LET v == {x.score : x \in window}
        a == {RawRecency(corpus[x.id].age) : x \in window}
    IN  config.vector_weight * (c.score - Lows(v)) * Spread(a)
          + config.recency_weight * (RawRecency(corpus[c.id].age) - Lows(a)) * Spread(v)

\* fusion_score of row c in the window of its request, times the product of
\* both spreads.
FusionScore(window, c) ==
    LET v == {RawVector(x.score) : x \in window}
        a == {RawRecency(corpus[x.id].age) : x \in window}
    IN  config.vector_weight * (RawVector(c.score) - Lows(v)) * Spread(a)
          + config.recency_weight * (RawRecency(corpus[c.id].age) - Lows(a)) * Spread(v)

\* What fusion_score is a fraction of: 1.0 in the same units.
FullScore(window) ==
    100 * Spread({RawVector(x.score) : x \in window})
        * Spread({RawRecency(corpus[x.id].age) : x \in window})

----------------------------------------------------------------------------
(* Enrichment *)

\* The joins and the WHERE clause of enrich.
Admitted(rows, teams) ==
    {c \in rows : /\ corpus[c.id].joined /\ ~corpus[c.id].restricted
                  /\ teams = {} \/ corpus[c.id].teams \cap teams # {}}

\* SessionContext::register_table on the shared catalog.
RegisterTable(name, rows) ==
    /\ registry[name] = None
    /\ registry' = [registry EXCEPT ![name] = rows]

----------------------------------------------------------------------------
Init ==
    /\ config \in Configs /\ corpus \in Corpora
    /\ registry = [t \in {"candidates", "enriched_candidates"} |-> None]
    /\ pc = [c \in Clients |-> "idle"]
    /\ req = [c \in Clients |-> None]
    /\ hits = [c \in Clients |-> <<>>]
    /\ bound = [c \in Clients |-> {}]
    /\ ranked = [c \in Clients |-> <<>>]

Goto(c, l) == pc' = [pc EXCEPT ![c] = l]

\* The handler answers 400 or 500.
Fail(c) == /\ Goto(c, "failed")
           /\ ranked' = [ranked EXCEPT ![c] = <<>>]

Answer(c, list) == /\ Goto(c, "answered")
                   /\ ranked' = [ranked EXCEPT ![c] = list]

Submit(c, r) ==
    /\ pc[c] = "idle"
    /\ req' = [req EXCEPT ![c] = r]
    /\ Goto(c, "search")
    /\ UNCHANGED <<config, corpus, registry, hits, bound, ranked>>

\* Mutant: no upper limit.
ValidateKMin(k) == k >= 1

\* validate_k.
ValidateK(k) == k \in 1 .. MaxK

\* query_vectors and hybrid_query_vectors up to the end of the read guard:
\* validate_k, then k results; without a pipeline they are the answer, without
\* results the pipeline returns at once.
SearchStep(c) ==
    /\ pc[c] = "search"
    /\ IF ~ValidateK(req[c].k)
       THEN Fail(c) /\ UNCHANGED hits
       ELSE \E h \in IF req[c].kind = "query"
                     THEN {Search(Rows, Dist, req[c].k, req[c].filter)}
                     ELSE Hybrid(Rows, Dist, TextHits, req[c].k, 1, req[c].filter) :
              /\ hits' = [hits EXCEPT ![c] = h]
              /\ IF ~HasPipeline \/ h = <<>>
                 THEN Answer(c, h)
                 ELSE Goto(c, "register") /\ UNCHANGED ranked
    /\ UNCHANGED <<config, corpus, registry, req, bound>>

\* Mutant: a table left by another request is replaced.
RegisterCandidatesOver(c) ==
    /\ pc[c] = "register"
    /\ registry' = [registry EXCEPT !["candidates"] = Range(hits[c])]
    /\ Goto(c, "enrich")
    /\ UNCHANGED <<config, corpus, req, hits, bound, ranked>>

\* Stage 2: candidates_to_batch, child_context, register_candidates_in.
RegisterCandidates(c) ==
    /\ pc[c] = "register"
    /\ RegisterTable("candidates", Range(hits[c]))
    /\ Goto(c, "enrich")
    /\ UNCHANGED <<config, corpus, req, hits, bound, ranked>>

\* Stage 2 or 4a finds its table name taken.
NameTaken(c) ==
    /\ \/ pc[c] = "register" /\ registry["candidates"] # None
       \/ pc[c] = "fuse" /\ registry["enriched_candidates"] # None
    /\ Fail(c)
    /\ UNCHANGED <<config, corpus, registry, req, hits, bound>>

\* Stage 3: acl_predicate validates the team names; planning the query binds
\* the table that is registered now.
Enrich(c) ==
    /\ pc[c] = "enrich"
    /\ IF BadTeam \in req[c].teams
       THEN Fail(c) /\ UNCHANGED bound
       ELSE /\ bound' = [bound EXCEPT ![c] =
                            Admitted(registry["candidates"], req[c].teams)]
            /\ Goto(c, "fuse")
            /\ UNCHANGED ranked
    /\ UNCHANGED <<config, corpus, registry, req, hits>>

\* Stage 4a, and materialize_fused when there is no bi-encoder: rows by fused
\* score, the first top_m of them.
FuseScores(c) ==
    /\ pc[c] = "fuse"
    /\ RegisterTable("enriched_candidates", bound[c])
    /\ LET window == bound[c]
           Score(x) == FusionScore(window, x)
       IN  \E s \in Descending(window, Score) :
              LET list == [n \in 1 .. Lowest(config.top_m, Len(s)) |->
                              [id |-> s[n].id, score |-> Score(s[n])]]
              IN  IF config.bi = None
                  THEN Answer(c, Truncate(list, req[c].k))
                  ELSE IF list = <<>> THEN Answer(c, <<>>)
                  ELSE /\ ranked' = [ranked EXCEPT ![c] = list]
                       /\ Goto(c, "bi")
    /\ UNCHANGED <<config, corpus, req, hits, bound>>

\* Stage 4b: rerank_biencoder with the scores the model service returned, one
\* per row (n of them, or an error); combined is the mean of both scores.
BiEncode(c) ==
    /\ pc[c] = "bi"
    /\ LET rows == Range(ranked[c])
       IN  \/ Fail(c)   \* HTTP error, or not one score per row
           \/ \E bi \in [rows -> {0, 1}] :
                LET Combined(x) == bi[x] * FullScore(bound[c]) + x.score
                IN  \E s \in Descending(rows, Combined) :
                      LET list == [n \in 1 .. Lowest(config.bi.top_p, Len(s)) |->
                                      [id |-> s[n].id, score |-> Combined(s[n])]]
                      IN  IF config.cross = None
                          THEN Answer(c, Truncate(list, req[c].k))
                          ELSE /\ ranked' = [ranked EXCEPT ![c] = list]
                               /\ Goto(c, "cross")
    /\ UNCHANGED <<config, corpus, registry, req, hits, bound>>

\* Stage 4c: rerank_crossencoder; the limit is the configured one.
CrossEncode(c) ==
    /\ pc[c] = "cross"
    /\ LET rows == Range(ranked[c])
       IN  \/ Fail(c)
           \/ \E cross \in [rows -> {0, 1}] :
                LET Score(x) == cross[x]
                IN  \E s \in Descending(rows, Score) :
                      Answer(c, [n \in 1 .. Lowest(config.cross.top_k, Len(s)) |->
                                    [id |-> s[n].id, score |-> Score(s[n])]])
    /\ UNCHANGED <<config, corpus, registry, req, hits, bound>>

Next ==
    \E c \in Clients :
        \/ \E r \in RequestSet : Submit(c, r)
        \/ SearchStep(c) \/ RegisterCandidates(c) \/ NameTaken(c)
        \/ Enrich(c) \/ FuseScores(c) \/ BiEncode(c) \/ CrossEncode(c)

Spec == Init /\ [][Next]_vars

----------------------------------------------------------------------------
(* Properties *)

Stages == {"idle", "search", "register", "enrich", "fuse", "bi", "cross",
           "answered", "failed"}

Scored == [id : Ids, score : Int]

\* Types; past the search, k is within its limits.
TypeOK ==
    /\ config \in Configs /\ corpus \in Corpora
    /\ \A t \in DOMAIN registry : registry[t] = None \/ registry[t] \subseteq Scored
    /\ pc \in [Clients -> Stages]
    /\ \A c \in Clients :
          /\ pc[c] # "idle" => req[c] \in RequestSet
          /\ pc[c] \notin {"idle", "search", "failed"} => req[c].k \in 1 .. MaxK
          /\ Range(hits[c]) \subseteq Scored /\ bound[c] \subseteq Scored
          /\ Range(ranked[c]) \subseteq Scored

AnsweredBy(c, enriched) == pc[c] = "answered" /\ HasPipeline = enriched
IdsOf(list) == {list[n].id : n \in DOMAIN list}

\* An enriched answer holds rows of its own request only: rows its own search
\* found, that are not restricted and that its own teams may see, however the
\* requests interleave on the shared table registry.
OwnAnswers ==
    \A c \in Clients : AnsweredBy(c, TRUE) =>
        IdsOf(ranked[c]) \subseteq
            {x.id : x \in Admitted(Range(hits[c]), req[c].teams)}

\* 1 + ann_distance has one sign for both of two results.
SameSide(x, y) == Unit + x.score > 0 <=> Unit + y.score > 0

\* Of two rows of the same age a fused list has the nearer one first, if the
\* distances are both above -1 or both below it: dot distances may be on either
\* side, and there 1 / (1 + ann_distance) ranks the farther row first.
NearerFirst(list, found) ==
    \A m, n \in DOMAIN list : m < n =>
        \A x, y \in found :
            x.id = list[m].id /\ y.id = list[n].id /\ SameSide(x, y)
                /\ corpus[x.id].age = corpus[y.id].age => x.score <= y.score

\* No row is in an answer twice, the answer is in descending order of the score
\* of its last stage, nearer rows before farther ones where that is fusion, and
\* it has as many rows as its limits and the rows its teams may see allow:
\* nothing is lost between the stages.
RankedAnswers ==
    \A c \in Clients : AnsweredBy(c, TRUE) =>
        LET mine == Cardinality(Admitted(Range(hits[c]), req[c].teams))
            limits == {config.top_m, mine}
                      \cup (IF config.bi = None THEN {} ELSE {config.bi.top_p})
                      \cup (IF config.bi = None \/ config.cross = None
                            THEN {req[c].k} ELSE {config.cross.top_k})
        IN  /\ Len(ranked[c]) = Lows(limits)
            /\ Cardinality(IdsOf(ranked[c])) = Len(ranked[c])
            /\ \A m, n \in DOMAIN ranked[c] :
                  m < n => ranked[c][m].score >= ranked[c][n].score
            /\ config.bi = None => NearerFirst(ranked[c], Range(hits[c]))

\* A vector query with a predicate returns only rows the predicate describes
\* (MetaFilter!Meaning), in the plain and in the enriched answer.  (The
\* full-text half of a hybrid query is not filtered.)
FilterHonoured ==
    \A c \in Clients :
        pc[c] = "answered" /\ req[c].kind = "query" /\ req[c].filter # NoFilter =>
            \A i \in IdsOf(ranked[c]) :
                Rows[i] \in Meaning(Range(Rows) \ {NoPayload}, req[c].filter)
=============================================================================
