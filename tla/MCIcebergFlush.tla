--------------------------- MODULE MCIcebergFlush ---------------------------
(***************************************************************************)
(* IcebergFlush for TLC: two collections, so that one staging table can    *)
(* fail while the other commits, and one id in each.                       *)
(***************************************************************************)
EXTENDS IcebergFlush

CONSTANTS c1, c2, i1, v1, p1

Create(c) == [kind |-> "create", c |-> c]
Insert(c) == [kind |-> "insert", c |-> c, id |-> i1, vec |-> v1, pay |-> p1]
Delete(c) == [kind |-> "delete", c |-> c, id |-> i1]

MCCollections == {c1, c2}
MCIds == {i1}
MCVecs == {v1}
MCPayloads == {p1}

\* DDL and rows of one collection, rows of another.
Inserts == {Create(c1), Insert(c1), Insert(c2)}
RowOps == {Create(c1), Insert(c1), Delete(c1)}
============================================================================
