----------------------------- MODULE MCWalStore -----------------------------
(***************************************************************************)
(* Instances of WalStore for TLC: one collection, one id, and operations   *)
(* chosen so that replaying one too few, one too many or two in the wrong  *)
(* order gives another store.                                              *)
(***************************************************************************)
EXTENDS WalStore

CONSTANTS c1, i1, v1, v2, p1, b1

Insert(v, p) == [kind |-> "insert", c |-> c1, id |-> i1, vec |-> v, pay |-> p]
Create == [kind |-> "create", c |-> c1]
Drop   == [kind |-> "drop", c |-> c1]
Delete == [kind |-> "delete", c |-> c1, id |-> i1]

\* Every kind of operation, accepted and rejected ones.
AllKinds == {Create, Drop, Delete, Insert(v1, p1), Insert(v2, NoPayload),
             Insert(BadVec, p1),
             [kind |-> "enable_fts", c |-> c1],
             [kind |-> "bind", c |-> c1, binding |-> b1]}

\* Enough to tell orders apart, for deeper logs.
FewKinds == {Create, Drop, Insert(v1, p1), Insert(v2, NoPayload)}

MCCollections == {c1}
MCIds == {i1}
MCVecs == {v1, v2}
MCPayloads == {p1}
MCBindings == {b1}
============================================================================
