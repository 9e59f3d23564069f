----------------------- MODULE CollectionStoreProofs -----------------------
(***************************************************************************)
(* Facts about the operators of CollectionStore, for every set of          *)
(* collections, ids, vectors, payloads and bindings.                       *)
(***************************************************************************)
EXTENDS CollectionStore, DataInduction

\* A non-empty set of positions has a last one: LastOf is one of them.
LEMMA LastOfIsIn ==
    ASSUME NEW n \in Nat, NEW T \in SUBSET (1 .. n), T # {}
    PROVE  LastOf(T) \in T /\ \A k \in T : k <= LastOf(T)
<1> DEFINE D == {d \in Nat : n - d \in T}
<1>1. \A j \in T : n - j \in D
  OBVIOUS
<1>2. D # {}
  BY <1>1
<1>3. PICK d \in D : \A y \in D : d <= y
  BY <1>2, LeastNatural
<1>4. n - d \in T /\ \A k \in T : k <= n - d
  BY <1>1, <1>3
<1>5. QED
  BY <1>4 DEF LastOf

\* What the live path leaves of a collection is a collection, or nothing.
LEMMA CollectionAfterType ==
    ASSUME NEW col \in Collection \cup {Absent}, NEW op \in AllOps,
           op.kind # "create" => col \in Collection,
           op.kind = "insert" => op.vec # BadVec
    PROVE  CollectionAfter(col, op) \in Collection \cup {Absent}
<1>1. CASE op \in CreateOps
  BY <1>1 DEF CollectionAfter, CreateOps, NewCollection, Collection
<1>2. CASE op \in DropOps
  BY <1>2 DEF CollectionAfter, DropOps
<1>3. CASE op \in InsertOps
  <2>1. col \in Collection /\ op.id \in Ids /\ op.vec \in Vecs /\ op.kind = "insert"
    BY <1>3 DEF InsertOps
  <2>2. UpsertRow(col.rows[op.id], op.vec, op.pay) \in Row
    BY <1>3, <2>1 DEF UpsertRow, Row, Collection, InsertOps
  <2>3. QED
    BY <2>1, <2>2 DEF CollectionAfter, Collection
<1>4. CASE op \in DeleteOps
  BY <1>4 DEF CollectionAfter, DeleteOps, Collection
<1>5. CASE op \in EnableOps
  BY <1>5 DEF CollectionAfter, EnableOps, Collection
<1>6. CASE op \in BindOps
  BY <1>6 DEF CollectionAfter, BindOps, Collection
<1>7. QED
  BY <1>1, <1>2, <1>3, <1>4, <1>5, <1>6 DEF AllOps

\* Every operation names a collection.
LEMMA OpCollection ==
    ASSUME NEW op \in AllOps
    PROVE  op.c \in Collections
BY DEF AllOps, CreateOps, DropOps, InsertOps, DeleteOps, EnableOps, BindOps

\* A live call leaves a store.
LEMMA ApplyLiveType ==
    ASSUME NEW s \in Store, NEW op \in AllOps
    PROVE  ApplyLive(s, op) \in Store
<1>1. op.c \in Collections
  BY OpCollection
<1>2. ASSUME Accepts(s, op)
      PROVE  CollectionAfter(s[op.c], op) \in Collection \cup {Absent}
  <2>1. s[op.c] \in Collection \cup {Absent}
    BY <1>1 DEF Store
  <2>2. QED
    BY <1>2, <2>1, CollectionAfterType DEF Accepts
<1>3. QED
  BY <1>1, <1>2 DEF ApplyLive, Store

\* Recovery and the live path agree on every operation in every store: what
\* apply_op skips, ignores or finds already done is what the live path
\* rejects or what changes nothing.
THEOREM ReplayAgrees ==
    ASSUME NEW s \in Store, NEW op \in AllOps
    PROVE  ReplayOp(s, op) = ApplyLive(s, op)
<1>1. op.c \in Collections /\ s[op.c] \in Collection \cup {Absent}
  BY OpCollection DEF Store
<1>2. CASE AlreadyThere(s, op) /\ op.vec # BadVec
  <2>1. op \in InsertOps /\ op.kind = "insert" /\ s[op.c] \in Collection
    BY <1>1, <1>2 DEF AlreadyThere, AllOps, CreateOps, DropOps, DeleteOps,
                      EnableOps, BindOps
  <2>2. op.id \in Ids
    BY <2>1 DEF InsertOps
  <2>3. s[op.c].rows[op.id] = [vec |-> op.vec, pay |-> op.pay]
    BY <1>2 DEF AlreadyThere
  <2>4. UpsertRow(s[op.c].rows[op.id], op.vec, op.pay)
          = s[op.c].rows[op.id]
    BY <2>3 DEF UpsertRow
  <2>5. CollectionAfter(s[op.c], op) = s[op.c]
    BY <2>1, <2>2, <2>4 DEF CollectionAfter, Collection
  <2>6. ApplyLive(s, op) = s
    BY <1>1, <2>5 DEF ApplyLive, Store
  <2>7. QED
    BY <1>2, <2>6 DEF ReplayOp
<1>3. CASE ~(AlreadyThere(s, op) /\ op.vec # BadVec)
  <2>1. op.kind \in {"create", "drop", "insert", "delete", "enable_fts", "bind"}
    BY DEF AllOps, CreateOps, DropOps, InsertOps, DeleteOps, EnableOps, BindOps
  <2>2. Accepts(s, op) <=> ~(ReplaySkips(s, op) \/ AlreadyThere(s, op)
                                \/ ReplayIgnores(s, op))
    BY <1>3, <2>1 DEF Accepts, ReplaySkips, ReplayIgnores, AlreadyThere
  <2>3. QED
    BY <2>2 DEF ReplayOp, ApplyLive
<1>4. QED
  BY <1>2, <1>3

----------------------------------------------------------------------------
(* Batches *)

\* The rows of a batch into collection c.
RowsInto(c, ops) ==
    /\ ops \in Seq(InsertOps)
    /\ \A j \in 1 .. Len(ops) : ops[j].c = c /\ ops[j].vec # BadVec

\* The fields of a batch's rows, whose dimensions insert_batch has checked.
LEMMA RowFields ==
    ASSUME NEW c, NEW ops, RowsInto(c, ops), NEW j \in 1 .. Len(ops)
    PROVE  /\ ops[j] \in InsertOps
           /\ ops[j].kind = "insert" /\ ops[j].c = c /\ ops[j].id \in Ids
           /\ ops[j].vec \in Vecs /\ ops[j].vec # BadVec
           /\ ops[j].pay \in Payloads \cup {NoPayload}
<1>1. ops[j] \in InsertOps
  BY DEF RowsInto
<1>2. ops[j].c = c /\ ops[j].vec # BadVec
  BY DEF RowsInto
<1>3. QED
  BY <1>1, <1>2 DEF InsertOps

\* A row after a prefix of the batch is a row or none.
LEMMA BatchRowType ==
    ASSUME NEW c, NEW ops, RowsInto(c, ops), NEW n \in 0 .. Len(ops),
           NEW i \in Ids, NEW old \in Row \cup {NoRow}
    PROVE  BatchRow(old, ops, n, i) \in Row \cup {NoRow}
<1> DEFINE mine == {j \in 1 .. n : ops[j].id = i}
           paid == {j \in mine : ops[j].pay # NoPayload}
           pay == IF paid # {} THEN ops[LastOf(paid)].pay
                  ELSE IF old # NoRow THEN old.pay ELSE NoPayload
<1>1. n \in Nat /\ Len(ops) \in Nat
  BY DEF RowsInto
<1>2. \A j \in 1 .. n : /\ ops[j].vec \in Vecs
                        /\ ops[j].pay \in Payloads \cup {NoPayload}
  BY <1>1, RowFields
<1>3. CASE mine = {}
  BY <1>3 DEF BatchRow
<1>4. CASE mine # {}
  <2>1. mine \in SUBSET (1 .. n) /\ paid \in SUBSET (1 .. n)
    OBVIOUS
  <2>2. LastOf(mine) \in 1 .. n
    BY <1>1, <1>4, <2>1, LastOfIsIn
  <2>3. paid # {} => LastOf(paid) \in 1 .. n
    BY <1>1, <2>1, LastOfIsIn
  <2>4. pay \in Payloads \cup {NoPayload}
    BY <1>2, <2>3 DEF Row
  <2> HIDE DEF pay
  <2>5. [vec |-> ops[LastOf(mine)].vec, pay |-> pay] \in Row
    BY <1>2, <2>2, <2>4 DEF Row
  <2>6. QED
    BY <1>4, <2>5 DEF BatchRow, pay
<1>5. QED
  BY <1>3, <1>4

\* The collection after a batch is a collection.
LEMMA BatchCollectionType ==
    ASSUME NEW c, NEW ops, RowsInto(c, ops), NEW n \in 0 .. Len(ops),
           NEW col \in Collection
    PROVE  [col EXCEPT !.rows = [i \in Ids |-> BatchRow(col.rows[i], ops, n, i)]]
              \in Collection
<1>1. \A i \in Ids : BatchRow(col.rows[i], ops, n, i) \in Row \cup {NoRow}
  BY BatchRowType DEF Collection
<1>2. QED
  BY <1>1 DEF Collection

\* insert_batch leaves a store after every prefix of its rows.
LEMMA ApplyBatchType ==
    ASSUME NEW s \in Store, NEW c \in Collections, NEW ops, RowsInto(c, ops),
           NEW n \in 0 .. Len(ops)
    PROVE  ApplyBatch(s, c, ops, n) \in Store
<1>1. CASE s[c] # Absent
  <2>1. s[c] \in Collection
    BY <1>1 DEF Store
  <2>2. QED
    BY <1>1, <2>1, BatchCollectionType DEF ApplyBatch, Store
<1>2. QED
  BY <1>1 DEF ApplyBatch

\* A batch of no rows changes nothing.
LEMMA ApplyBatchNone ==
    ASSUME NEW s \in Store, NEW c \in Collections, NEW ops
    PROVE  ApplyBatch(s, c, ops, 0) = s
<1>1. \A i : {j \in 1 .. 0 : ops[j].id = i} = {}
  OBVIOUS
<1>2. \A i, old : BatchRow(old, ops, 0, i) = old
  BY <1>1 DEF BatchRow
<1>3. CASE s[c] # Absent
  <2>1. s[c] \in Collection
    BY <1>3 DEF Store
  <2>2. [i \in Ids |-> BatchRow(s[c].rows[i], ops, 0, i)] = s[c].rows
    BY <1>2, <2>1 DEF Collection
  <2>3. QED
    BY <1>3, <2>1, <2>2 DEF ApplyBatch, Store, Collection
<1>4. QED
  BY <1>3 DEF ApplyBatch

\* One more row of the batch touches the row of its id, like an insert.
LEMMA BatchRowStep ==
    ASSUME NEW c, NEW ops, RowsInto(c, ops), NEW n \in 1 .. Len(ops),
           NEW id \in Ids, NEW old \in Row \cup {NoRow}
    PROVE  BatchRow(old, ops, n, id) =
              IF ops[n].id = id
              THEN UpsertRow(BatchRow(old, ops, n - 1, id), ops[n].vec, ops[n].pay)
              ELSE BatchRow(old, ops, n - 1, id)
<1> DEFINE mine(k) == {j \in 1 .. k : ops[j].id = id}
           paid(k) == {j \in mine(k) : ops[j].pay # NoPayload}
<1>0. Len(ops) \in Nat /\ n \in Nat /\ n - 1 \in 0 .. Len(ops)
  BY DEF RowsInto
<1>1. CASE ops[n].id # id
  <2>1. mine(n) = mine(n - 1)
    BY <1>0, <1>1
  <2>2. QED
    BY <1>1, <2>1 DEF BatchRow
<1>2. CASE ops[n].id = id
  <2>1. n \in mine(n) /\ \A j \in mine(n) : j <= n
    BY <1>0, <1>2
  <2>2. LastOf(mine(n)) = n
    BY <2>1 DEF LastOf
  <2>3. CASE ops[n].pay # NoPayload
    <3>1. n \in paid(n) /\ \A j \in paid(n) : j <= n
      BY <1>0, <1>2, <2>3
    <3>2. LastOf(paid(n)) = n
      BY <3>1 DEF LastOf
    <3>3. QED
      BY <1>2, <2>1, <2>2, <2>3, <3>1, <3>2 DEF BatchRow, UpsertRow
  <2>4. CASE ops[n].pay = NoPayload
    <3>1. paid(n) = paid(n - 1)
      BY <2>4
    <3>2. BatchRow(old, ops, n, id).vec = ops[n].vec
      BY <2>1, <2>2 DEF BatchRow
    <3>3. CASE mine(n - 1) = {}
      <4>1. paid(n) = {}
        BY <3>1, <3>3
      <4>2. BatchRow(old, ops, n - 1, id) = old
        BY <3>3 DEF BatchRow
      <4>3. BatchRow(old, ops, n, id)
              = [vec |-> ops[n].vec,
                 pay |-> IF old # NoRow THEN old.pay ELSE NoPayload]
        BY <2>1, <2>2, <4>1 DEF BatchRow
      <4>4. QED
        BY <1>2, <2>4, <4>2, <4>3 DEF UpsertRow
    <3>4. CASE mine(n - 1) # {}
      <4> DEFINE pay == IF paid(n) # {} THEN ops[LastOf(paid(n))].pay
                        ELSE IF old # NoRow THEN old.pay ELSE NoPayload
                 row == BatchRow(old, ops, n - 1, id)
      <4>1. row = [vec |-> ops[LastOf(mine(n - 1))].vec, pay |-> pay]
        BY <3>1, <3>4 DEF BatchRow
      <4>2. BatchRow(old, ops, n, id) = [vec |-> ops[n].vec, pay |-> pay]
        BY <2>1, <2>2 DEF BatchRow
      <4>3. row # NoRow
        <5>1. LastOf(mine(n - 1)) \in 1 .. n - 1
          <6>1. mine(n - 1) \in SUBSET (1 .. n - 1) /\ n - 1 \in Nat
            BY <1>0
          <6>2. QED
            BY <3>4, <6>1, LastOfIsIn
        <5>2. ops[LastOf(mine(n - 1))].vec \in Vecs
          BY <1>0, <5>1, RowFields
        <5>3. pay \in Payloads \cup {NoPayload}
          <6>1. paid(n) # {} => LastOf(paid(n)) \in paid(n)
            <7>1. paid(n) \in SUBSET (1 .. n)
              OBVIOUS
            <7>2. QED
              BY <1>0, <7>1, LastOfIsIn
          <6>2. \A j \in 1 .. n : ops[j].pay \in Payloads \cup {NoPayload}
            BY <1>0, RowFields
          <6>3. QED
            BY <6>1, <6>2 DEF Row
        <5> HIDE DEF pay
        <5>4. row \in Row
          BY <4>1, <5>2, <5>3 DEF Row
        <5>5. QED
          BY <5>4, AbsentAssumption
      <4> HIDE DEF row, pay
      <4>4. UpsertRow(row, ops[n].vec, ops[n].pay)
              = [vec |-> ops[n].vec, pay |-> pay]
        BY <2>4, <4>1, <4>3 DEF UpsertRow
      <4>5. QED
        BY <1>2, <4>2, <4>4 DEF row
    <3>5. QED
      BY <3>3, <3>4
  <2>5. QED
    BY <2>3, <2>4
<1>3. QED
  BY <1>1, <1>2

\* Replaying the frames of a batch one by one arrives, row after row, at what
\* insert_batch_with_lsns did to the collection at once.
THEOREM BatchReplaysRowByRow ==
    ASSUME NEW s \in Store, NEW c \in Collections, NEW ops, RowsInto(c, ops),
           NEW n \in 1 .. Len(ops)
    PROVE  ReplayOp(ApplyBatch(s, c, ops, n - 1), ops[n])
             = ApplyBatch(s, c, ops, n)
<1> DEFINE before == ApplyBatch(s, c, ops, n - 1)
<1>0. Len(ops) \in Nat /\ n \in Nat /\ n - 1 \in 0 .. Len(ops)
  BY DEF RowsInto
<1>1. before \in Store /\ ops[n] \in AllOps
  BY <1>0, ApplyBatchType, RowFields DEF AllOps
<1>2. ops[n] \in InsertOps /\ ops[n].kind = "insert" /\ ops[n].c = c
        /\ ops[n].id \in Ids /\ ops[n].vec # BadVec
  BY <1>0, RowFields
<1>3. ReplayOp(before, ops[n]) = ApplyLive(before, ops[n])
  BY <1>1, ReplayAgrees
<1>4. CASE s[c] = Absent
  BY <1>2, <1>3, <1>4 DEF ApplyBatch, ApplyLive, Accepts
<1>5. CASE s[c] # Absent
  <2>1. s[c] \in Collection
    BY <1>5 DEF Store
  <2> DEFINE rowsAt(k) == [i \in Ids |-> BatchRow(s[c].rows[i], ops, k, i)]
             id == ops[n].id
  <2>2. ASSUME NEW i \in Ids
        PROVE  BatchRow(s[c].rows[i], ops, n, i) =
                  IF id = i
                  THEN UpsertRow(BatchRow(s[c].rows[i], ops, n - 1, i), ops[n].vec, ops[n].pay)
                  ELSE BatchRow(s[c].rows[i], ops, n - 1, i)
    <3>1. s[c].rows[i] \in Row \cup {NoRow}
      BY <2>1 DEF Collection
    <3>2. QED
      BY <3>1, BatchRowStep
  <2>3. rowsAt(n) = [rowsAt(n - 1) EXCEPT ![id] = UpsertRow(@, ops[n].vec, ops[n].pay)]
    BY <1>2, <2>2
  <2>4. before[c] = [s[c] EXCEPT !.rows = rowsAt(n - 1)]
    BY <1>5 DEF ApplyBatch, Store
  <2>5. before[c] \in Collection /\ before[c] # Absent
    BY <1>0, <2>1, <2>4, BatchCollectionType, AbsentAssumption
  <2>6. CollectionAfter(before[c], ops[n]) = [s[c] EXCEPT !.rows = rowsAt(n)]
    BY <1>2, <2>1, <2>3, <2>4 DEF CollectionAfter, Collection
  <2>7. ApplyLive(before, ops[n]) = [before EXCEPT ![c] = [s[c] EXCEPT !.rows = rowsAt(n)]]
    BY <1>2, <2>5, <2>6 DEF ApplyLive, Accepts
  <2>8. before = [s EXCEPT ![c] = [s[c] EXCEPT !.rows = rowsAt(n - 1)]]
    BY <1>5 DEF ApplyBatch
  <2>9. [before EXCEPT ![c] = [s[c] EXCEPT !.rows = rowsAt(n)]]
            = [s EXCEPT ![c] = [s[c] EXCEPT !.rows = rowsAt(n)]]
    <3> HIDE DEF rowsAt
    <3>1. QED
      BY <2>8 DEF Store
  <2>10. QED
    BY <1>3, <1>5, <2>7, <2>9 DEF ApplyBatch
<1>6. QED
  BY <1>4, <1>5

----------------------------------------------------------------------------
(* Requests *)

\* A request is a single operation or the rows of a batch.
LEMMA BatchRowsInto ==
    ASSUME NEW ops \in Batches
    PROVE  /\ RowsInto(ops[1].c, ops) /\ ops[1].c \in Collections
           /\ Len(ops) \in Nat \ {0} /\ ops \in Seq(AllOps)
<1>1. PICK n \in 1 .. MaxBatch : ops \in [1 .. n -> BatchRows]
  BY DEF Batches
<1>2. n \in Nat \ {0}
  BY OpsAssumption
<1>3. BatchRows \subseteq InsertOps
  BY OpsAssumption DEF BatchRows, AllOps, CreateOps, DropOps, InsertOps,
                       DeleteOps, EnableOps, BindOps
<1>4. ops \in Seq(InsertOps) /\ Len(ops) = n
  BY <1>1, <1>2, <1>3
<1>5. \A j \in 1 .. n : ops[j].c = ops[1].c /\ ops[j].vec # BadVec
  BY <1>1, <1>2 DEF Batches, BatchRows
<1>6. RowsInto(ops[1].c, ops)
  BY <1>4, <1>5 DEF RowsInto
<1>7. ops[1].c \in Collections
  <2>1. ops[1] \in InsertOps
    BY <1>1, <1>2, <1>3
  <2>2. QED
    BY <2>1 DEF InsertOps
<1>8. ops \in Seq(AllOps)
  BY <1>4 DEF AllOps
<1>9. QED
  BY <1>2, <1>4, <1>6, <1>7, <1>8

\* A request is a non-empty sequence of operations.
LEMMA RequestType ==
    ASSUME NEW ops \in Singles \cup Batches
    PROVE  ops \in Seq(AllOps) /\ Len(ops) \in Nat \ {0}
<1>1. CASE ops \in Singles
  <2>1. PICK op \in Ops : ops = <<op>>
    BY <1>1 DEF Singles
  <2>2. op \in AllOps
    BY OpsAssumption
  <2>3. QED
    BY <2>1, <2>2
<1>2. QED
  BY <1>1, BatchRowsInto

\* A request leaves a store after every prefix.
LEMMA UptoType ==
    ASSUME NEW s \in Store, NEW ops \in Singles \cup Batches, NEW n \in 1 .. Len(ops)
    PROVE  Upto(s, ops, n) \in Store
<1>1. CASE ops \in Singles
  BY <1>1, ApplyLiveType, OpsAssumption DEF Upto, Singles
<1>2. CASE ops \in Batches
  BY <1>2, <1>1, ApplyBatchType, BatchRowsInto DEF Upto
<1>3. QED
  BY <1>1, <1>2

\* apply_op leaves a store.
LEMMA ReplayType ==
    ASSUME NEW s \in Store, NEW op \in AllOps
    PROVE  ReplayOp(s, op) \in Store
BY ReplayAgrees, ApplyLiveType

\* The stores a request passes through, one per operation.
Walk(ops, g, k) ==
    /\ g \in [0 .. k -> Store]
    /\ \A j \in 1 .. k : g[j] = ReplayOp(g[j - 1], ops[j])

\* The rows of a batch walk to what insert_batch does to the collection.
LEMMA BatchWalk ==
    ASSUME NEW s \in Store, NEW ops \in Batches, NEW k \in 0 .. Len(ops)
    PROVE  \E g : /\ Walk(ops, g, k) /\ g[0] = s
                  /\ g[k] = ApplyBatch(s, ops[1].c, ops, k)
<1> DEFINE c == ops[1].c
           g == [j \in 0 .. k |-> ApplyBatch(s, c, ops, j)]
<1>1. RowsInto(c, ops) /\ c \in Collections /\ Len(ops) \in Nat
  BY BatchRowsInto
<1>2. \A j \in 0 .. k : j \in 0 .. Len(ops)
  BY <1>1
<1>3. \A j \in 0 .. k : ApplyBatch(s, c, ops, j) \in Store
  BY <1>1, <1>2, ApplyBatchType
<1>4. g \in [0 .. k -> Store]
  BY <1>3, Zenon
<1>5. ASSUME NEW j \in 1 .. k
      PROVE  g[j] = ReplayOp(g[j - 1], ops[j])
  <2>1. j \in 1 .. Len(ops) /\ j \in 0 .. k /\ j - 1 \in 0 .. k
    BY <1>1
  <2>2. g[j] = ApplyBatch(s, c, ops, j) /\ g[j - 1] = ApplyBatch(s, c, ops, j - 1)
    BY <2>1, Zenon
  <2>3. ReplayOp(ApplyBatch(s, c, ops, j - 1), ops[j]) = ApplyBatch(s, c, ops, j)
    BY <1>1, <2>1, BatchReplaysRowByRow
  <2>4. QED
    BY <2>2, <2>3, Zenon
<1>6. 0 \in 0 .. k /\ k \in 0 .. k
  BY <1>1
<1>7. g[0] = ApplyBatch(s, c, ops, 0) /\ g[k] = ApplyBatch(s, c, ops, k)
  BY <1>6, Zenon
<1>8. ApplyBatch(s, c, ops, 0) = s
  BY <1>1, ApplyBatchNone
<1> HIDE DEF g
<1>9. QED
  BY <1>4, <1>5, <1>7, <1>8, Zenon DEF Walk

\* The first k frames of a request walk to what the promise says of them.
LEMMA RequestWalk ==
    ASSUME NEW s \in Store, NEW ops \in Singles \cup Batches, NEW k \in 0 .. Len(ops)
    PROVE  \E g : /\ Walk(ops, g, k) /\ g[0] = s
                  /\ k = 0 => g[k] = s
                  /\ k > 0 => g[k] = Upto(s, ops, k)
<1>1. CASE ops \in Singles
  <2>1. PICK op \in Ops : ops = <<op>>
    BY <1>1 DEF Singles
  <2>2. op \in AllOps /\ Len(ops) = 1 /\ ops[1] = op
    BY <2>1, OpsAssumption
  <2> DEFINE after == ApplyLive(s, op)
             g == [j \in 0 .. k |-> IF j = 0 THEN s ELSE after]
  <2>3. after \in Store /\ ReplayOp(s, op) = after
    BY <2>2, ApplyLiveType, ReplayAgrees
  <2>4. Upto(s, ops, k) = after
    BY <1>1, <2>2 DEF Upto
  <2>5. k = 0 \/ k = 1
    BY <2>2
  <2> HIDE DEF after
  <2>6. g \in [0 .. k -> Store] /\ g[0] = s /\ (k = 1 => g[1] = after)
    BY <2>3, <2>5
  <2>7. \A j \in 1 .. k : k = 1 /\ j = 1 /\ j - 1 = 0
    BY <2>5
  <2> HIDE DEF g
  <2>8. \A j \in 1 .. k : g[j] = ReplayOp(g[j - 1], ops[j])
    BY <2>2, <2>3, <2>6, <2>7
  <2>9. k > 0 => k = 1
    BY <2>5
  <2>10. Walk(ops, g, k)
    BY <2>6, <2>8 DEF Walk
  <2>11. k > 0 => g[k] = Upto(s, ops, k)
    BY <2>4, <2>6, <2>9
  <2>12. QED
    BY <2>6, <2>10, <2>11
<1>2. CASE ops \in Batches /\ ops \notin Singles
  <2>1. PICK g : /\ Walk(ops, g, k) /\ g[0] = s
                 /\ g[k] = ApplyBatch(s, ops[1].c, ops, k)
    BY <1>2, BatchWalk
  <2>2. Upto(s, ops, k) = ApplyBatch(s, ops[1].c, ops, k)
    BY <1>2 DEF Upto
  <2>3. QED
    BY <2>1, <2>2
<1>3. QED
  BY <1>1, <1>2
=============================================================================
