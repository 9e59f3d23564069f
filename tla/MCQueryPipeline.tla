-------------------------- MODULE MCQueryPipeline --------------------------
(* QueryPipeline for TLC: four rows, two requests at a time. *)
EXTENDS QueryPipeline

FourIds == 1 .. 4

\* Payloads over the fields "tag" and "year"; row 3 has none.
FourRows == <<[tag |-> <<"str", 1>>, year |-> <<"num", 20>>],
              [tag |-> <<"num", 1>>],
              NoPayload,
              [year |-> <<"num", 3>>]>>

\* Negated dot products -2, 0, 1 and -3: two on each side of -1.
DotDist == <<-24, 0, 12, -36>>

Matches == <<3, 2>>

Open(a)       == [joined |-> TRUE, restricted |-> FALSE, teams |-> {1}, age |-> a]
Restricted    == [Open(0) EXCEPT !.restricted = TRUE]
Unjoined      == [Open(0) EXCEPT !.joined = FALSE]
OtherTeam     == [Open(0) EXCEPT !.teams = {2}]
FourCorpora  == [FourIds -> {Open(0), Open(2), Restricted, Unjoined, OtherTeam}]

Plain == [vector_weight |-> 70, recency_weight |-> 30, grace |-> 1,
          top_n |-> 3, top_m |-> 2, bi |-> None, cross |-> None]
Bi    == [Plain EXCEPT !.top_m = 3, !.bi = [alpha |-> 50, top_p |-> 2]]
Cross == [Bi EXCEPT !.cross = [top_k |-> 1]]
SomeConfigs == {Plain, Bi, Cross,
                [Plain EXCEPT !.recency_weight = 40],
                [Plain EXCEPT !.top_m = 4]}

Eq(f, v)  == [op |-> "eq", field |-> f, value |-> v]
Ask(kind, k, filter, teams) ==
    [kind |-> kind, k |-> k, filter |-> filter, teams |-> teams]

\* "year <= 5", which rows without the field fail, and a nested predicate.
Early  == [op |-> "lte", field |-> "year", value |-> <<"num", 5>>]
Nested == [op |-> "and", filters |->
             <<[op |-> "or", filters |-> <<[op |-> "exists", field |-> "year"],
                                           [op |-> "in", field |-> "tag",
                                            value |-> {<<"num", 1>>, <<"num", 2>>}]>>],
               [op |-> "ne", field |-> "tag", value |-> <<"str", 2>>]>>]

SomeRequests ==
    {Ask("query", 4, NoFilter, {}), Ask("query", 4, Early, {1}),
     Ask("query", 2, Nested, {1, 2}), Ask("hybrid", 2, Eq("tag", <<"num", 1>>), {2}),
     Ask("query", 0, NoFilter, {}), Ask("query", 5, NoFilter, {}),
     Ask("query", 1, NoFilter, {1, BadTeam})}
=============================================================================
