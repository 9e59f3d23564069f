------------------------- MODULE MCServerLifecycle -------------------------
(* Instances of ServerLifecycle for TLC. *)
EXTENDS ServerLifecycle

CONSTANTS c1, c2, i1, i2, v1, v2, p1, b1, f, g

TwoCollections == {c1, c2}
TwoIds == {i1, i2}
TwoVecs == {v1, v2}
TwoPaths == {f, g}

\* A payload column with text that is not JSON becomes an object.
Text == [kind |-> "text", value |-> "t"]
SomePayloads == {p1, [n \in {"payload"} |-> "t"]}

\* A foreign file: an id that comes twice, first with a text that is not JSON,
\* then without a payload.
Foreign ==
    [by |-> {}, of |-> NoFile,
     file |-> File(<<[id |-> i1, vec |-> v1, cells |-> [n \in {"payload"} |-> Text]],
                     [id |-> i1, vec |-> v2, cells |-> [n \in {"payload"} |-> NullCell]]>>,
                   {"payload"})]

OneForeign == [p \in TwoPaths |-> IF p = g THEN Foreign ELSE NoFile]

\* An earlier life left one collection.
OneSeed ==
    [EmptyStore EXCEPT ![c2] = [NewCollection EXCEPT !.rows =
        [i \in TwoIds |-> IF i = i1 THEN [vec |-> v1, pay |-> p1]
                          ELSE [vec |-> v2, pay |-> NoPayload]]]]

Ask(via, kind, c) ==
    [via |-> via, kind |-> kind, c |-> c, auth |-> TRUE, valid |-> TRUE]
Made(via, c, fts, b) == Ask(via, "create", c) @@ [fts |-> fts, binding |-> b]
Wrote(via, kind, op) == Ask(via, kind, op.c) @@ [op |-> op]
Filed(kind, c, p, cols) == Ask("rest", kind, c) @@ [path |-> p, cols |-> cols]
Insert(c, id, vec, pay) ==
    [kind |-> "insert", c |-> c, id |-> id, vec |-> vec, pay |-> pay]

SomeRequests ==
    {Made("rest", c1, TRUE, b1), Made("grpc", c1, FALSE, b1),
     Wrote("grpc", "drop", Op("drop", c1)),
     Wrote("rest", "insert", Insert(c1, i1, v1, p1)),
     Ask("rest", "query", c2), Ask("grpc", "query", c2),
     Filed("import", c2, g, {"payload"}),
     Filed("export", c1, f, {}), Filed("export", c2, f, {}),
     [Ask("rest", "health", c1) EXCEPT !.auth = FALSE]}
=============================================================================
