-------------------------- MODULE CollectionStore --------------------------
(***************************************************************************)
(* The in-memory CollectionManager of likhadb-store and the effect of the  *)
(* six WAL operations on it: once as the live write path applies them      *)
(* (CollectionManager, Collection) and once as recovery replays them       *)
(* (apply_op).  Pure operators, no state; WalStore and DurableStore use    *)
(* them.                                                                   *)
(*                                                                         *)
(* Abstractions.  A vector is a model value; BadVec stands for any vector  *)
(* whose length differs from the collection's dimension.  A payload is a   *)
(* model value or NoPayload (None).  The index kind, metric and dimension  *)
(* of a collection never change after its creation and no operation tells  *)
(* them apart, so a collection is its rows, its FTS flag and its binding.  *)
(* The documents inside the FTS index are not part of this module.         *)
(***************************************************************************)
EXTENDS Naturals, Sequences, FiniteSets

CONSTANTS
    Collections,  \* collection names
    Ids,          \* vector ids
    Vecs,         \* vectors of the right dimension
    BadVec,       \* a vector of another dimension
    Payloads,     \* payload values
    NoPayload,    \* Option::None for a payload
    Bindings,     \* source-table bindings
    NoBinding,    \* Option::None for a binding
    Absent,       \* the collection does not exist
    NoRow,        \* the id is not in the collection
    Ops,          \* the operations clients submit
    MaxBatch      \* the longest batch clients submit

ASSUME SentinelAssumption ==
    /\ BadVec \notin Vecs
    /\ NoPayload \notin Payloads
    /\ NoBinding \notin Bindings

Row == [vec : Vecs, pay : Payloads \cup {NoPayload}]

Collection == [rows    : [Ids -> Row \cup {NoRow}],
               fts     : BOOLEAN,
               binding : Bindings \cup {NoBinding}]

\* Absent and NoRow are told apart from a collection and a row.
ASSUME AbsentAssumption == Absent \notin Collection /\ NoRow \notin Row

Store == [Collections -> Collection \cup {Absent}]

EmptyStore == [c \in Collections |-> Absent]

\* Collection::new / with_index: no rows, no FTS index, no binding.
NewCollection == [rows    |-> [i \in Ids |-> NoRow],
                  fts     |-> FALSE,
                  binding |-> NoBinding]

----------------------------------------------------------------------------
(* WalOp, one set per variant. *)

CreateOps  == [kind : {"create"}, c : Collections]
DropOps    == [kind : {"drop"}, c : Collections]
InsertOps  == [kind : {"insert"}, c : Collections, id : Ids,
               vec : Vecs \cup {BadVec}, pay : Payloads \cup {NoPayload}]
DeleteOps  == [kind : {"delete"}, c : Collections, id : Ids]
EnableOps  == [kind : {"enable_fts"}, c : Collections]
BindOps    == [kind : {"bind"}, c : Collections, binding : Bindings]

AllOps == CreateOps \cup DropOps \cup InsertOps \cup DeleteOps
             \cup EnableOps \cup BindOps

ASSUME OpsAssumption == Ops \subseteq AllOps /\ MaxBatch \in Nat

\* What one call can submit: a single operation, or a batch that passes the
\* length and dimension checks of insert_batch.
Singles == {<<op>> : op \in Ops}
BatchRows == {op \in Ops : op.kind = "insert" /\ op.vec # BadVec}
Batches == {ops \in UNION {[1 .. n -> BatchRows] : n \in 1 .. MaxBatch} :
               \A j \in DOMAIN ops : ops[j].c = ops[1].c}

----------------------------------------------------------------------------
(* The live path: the closures log_and_apply runs on the manager. *)

\* Does the manager accept the operation?  create fails on an existing name,
\* everything else on a missing one, and an insert on a dimension mismatch.
Accepts(s, op) ==
    /\ op.kind = "create" <=> s[op.c] = Absent
    /\ op.kind = "insert" => op.vec # BadVec

\* Collection::insert: the vector is overwritten, the payload only when the
\* caller gave one (apply_insert_payload does nothing for None).
UpsertRow(old, vec, pay) ==
    [vec |-> vec,
     pay |-> IF pay = NoPayload /\ old # NoRow THEN old.pay ELSE pay]

CollectionAfter(col, op) ==
    CASE op.kind = "insert" ->
            [col EXCEPT !.rows[op.id] = UpsertRow(@, op.vec, op.pay)]
      [] op.kind = "delete"     -> [col EXCEPT !.rows[op.id] = NoRow]
      [] op.kind = "enable_fts" -> [col EXCEPT !.fts = TRUE]
      [] op.kind = "bind"       -> [col EXCEPT !.binding = op.binding]
      [] op.kind = "create"     -> NewCollection
      [] op.kind = "drop"       -> Absent

ApplyLive(s, op) ==
    IF Accepts(s, op)
    THEN [s EXCEPT ![op.c] = CollectionAfter(@, op)]
    ELSE s

\* Collection::insert_batch_with_lsns over the first n inserts of `ops` into
\* collection c: the index takes the last vector of every id, then the
\* payloads go in one by one, so the last payload that is not None wins.
LastOf(S) == CHOOSE j \in S : \A k \in S : k <= j

BatchRow(old, ops, n, i) ==
    LET mine == {j \in 1 .. n : ops[j].id = i}
        paid == {j \in mine : ops[j].pay # NoPayload}
    IN  IF mine = {} THEN old
        ELSE [vec |-> ops[LastOf(mine)].vec,
              pay |-> IF paid # {} THEN ops[LastOf(paid)].pay
                      ELSE IF old # NoRow THEN old.pay ELSE NoPayload]

ApplyBatch(s, c, ops, n) ==
    IF s[c] = Absent THEN s
    ELSE [s EXCEPT ![c] = [@ EXCEPT !.rows =
             [i \in Ids |-> BatchRow(s[c].rows[i], ops, n, i)]]]

\* The store after the first n operations of a request.
Upto(s, ops, n) ==
    IF ops \in Singles THEN ApplyLive(s, ops[1])
    ELSE ApplyBatch(s, ops[1].c, ops, n)

----------------------------------------------------------------------------
(* The recovery path: apply_op, which tolerates what a partial checkpoint  *)
(* may already have done.                                                  *)

\* PersistError::Apply: recovery skips the entry and reports it.
ReplaySkips(s, op) ==
    /\ op.kind \in {"insert", "delete"}
    /\ \/ s[op.c] = Absent
       \/ op.kind = "insert" /\ op.vec = BadVec

\* The exact row is already there, so the insert is not applied again.
AlreadyThere(s, op) ==
    /\ op.kind = "insert"
    /\ s[op.c] # Absent
    /\ s[op.c].rows[op.id] = [vec |-> op.vec, pay |-> op.pay]

\* Mutant: replay creates a collection that exists over again.
ReplayRecreates(s, op) ==
    op.kind \in {"drop", "enable_fts", "bind"} /\ s[op.c] = Absent

\* CollectionAlreadyExists and CollectionNotFound are swallowed.
ReplayIgnores(s, op) ==
    \/ op.kind = "create" /\ s[op.c] # Absent
    \/ op.kind \in {"drop", "enable_fts", "bind"} /\ s[op.c] = Absent

ReplayOp(s, op) ==
    IF ReplaySkips(s, op) \/ AlreadyThere(s, op) \/ ReplayIgnores(s, op)
    THEN s
    ELSE [s EXCEPT ![op.c] = CollectionAfter(@, op)]
============================================================================
