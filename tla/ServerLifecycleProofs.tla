----------------------- MODULE ServerLifecycleProofs -----------------------
(***************************************************************************)
(* Theorems about ServerLifecycle for every set of clients, requests and   *)
(* files, every checkpoint threshold and any number of lives and faults.   *)
(*                                                                         *)
(* The write guard is what makes the handlers' several WalManager calls    *)
(* one step to everybody else: GuardInv says who is inside it and with     *)
(* which calls.  DiskInv follows the log call by call.  OptionsInv adds    *)
(* what a failed call may leave: memory and disk then differ, but only on  *)
(* collections that count as partly done, and where memory has no          *)
(* collection the disk has none with options.                              *)
(***************************************************************************)
EXTENDS ServerLifecycle, CollectionStoreProofs, SequenceTheorems

Writers == {"create", "drop", "insert", "delete", "import"}

\* The calls of a create that follow the creation.
EnableCalls(r) == IF r.fts THEN <<Op("enable_fts", r.c)>> ELSE <<>>
BindCalls(r) == IF Options(r)[2] # NoBinding
                THEN <<[kind |-> "bind", c |-> r.c, binding |-> r.binding]>>
                ELSE <<>>

\* How far a create has come: nothing done, the collection created, all but the
\* binding.
Fresh(r, t) == t = <<Op("create", r.c)>> \o EnableCalls(r) \o BindCalls(r)
Created(r, t) == r.fts /\ t = <<Op("enable_fts", r.c)>> \o BindCalls(r)
Searchable(r, t) == Options(r)[2] # NoBinding /\ t = BindCalls(r)
Begun(r, t) == Created(r, t) \/ Searchable(r, t)

\* The calls a handler inside the guard has still to make.
CallsLeft(r, t) ==
    /\ r.kind = "create" => Fresh(r, t) \/ Begun(r, t)
    /\ r.kind \in {"drop", "insert", "delete"} => t = <<r.op>>
    /\ r.kind = "import" => \A n \in 1 .. Len(t) : t[n].kind = "insert" /\ t[n].c = r.c

\* A handler has calls to make exactly while it is inside the guard, and only
\* a create and an import change something before they are done.
Handler(c) ==
    /\ pc[c] = "write" <=> holder = c
    /\ pc[c] = "write" <=> todo[c] # <<>>
    /\ pc[c] = "export" => holder = Nobody /\ req[c].kind = "export"
    /\ pc[c] # "idle" => req[c] \in RequestSet /\ Up
    /\ pc[c] = "write" => req[c].kind \in Writers /\ CallsLeft(req[c], todo[c])
    /\ pc[c] \in {"lock", "export"} /\ req[c].kind \in {"import", "export"} =>
          req[c].path \in Paths
    /\ pc[c] = "lock" /\ req[c].kind = "import" => AtPath(files[req[c].path])
    /\ c \in wrote => /\ pc[c] = "write"
                      /\ \/ req[c].kind = "import"
                         \/ req[c].kind = "create" /\ Begun(req[c], todo[c])

\* One writer at a time, and no export beside it.
GuardInv ==
    /\ \A c \in Clients : Handler(c)
    /\ Up \/ holder = Nobody

\* The collections an export was begun from are there until it ends.
ExportInv ==
    \A c \in Clients : pc[c] = "export" =>
        LET x == files[req[c].path]
        IN  AtPath(x) /\ \A d \in x.by : store[d] # Absent

\* Memory and disk agree at every call, not only between guards.
DiskInv == Up /\ ~uncertain => Recovered = store

\* Servers that drained stay drained, and what follows finds nobody at work.
CleanInv ==
    stop = "clean" =>
        /\ proc = "drain_rest" => InFlight("grpc") = {}
        /\ proc \in {"final", "exiting"} => \A c \in Clients : pc[c] = "idle"
        /\ proc \in {"exiting", "down"} => log = <<>>

OptionsOf(col) == <<col.fts, col.binding>>
NoOptions == <<FALSE, NoBinding>>

\* Is somebody between the first and the last call of creating c?
Creating(d, c) == /\ pc[d] = "write" /\ req[d].kind = "create" /\ req[d].c = c
                  /\ Begun(req[d], todo[d])

\* The options a creator has got so far.
SoFar(r, t) == IF Created(r, t) THEN NoOptions ELSE <<r.fts, NoBinding>>

\* What memory (m) and disk (d) say of a collection, done or only partly.
Agree(m, d, part) ==
    /\ m = Absent => d = Absent \/ OptionsOf(d) = NoOptions
    /\ ~part => /\ m = Absent <=> d = Absent
                /\ d # Absent => OptionsOf(m) = OptionsOf(d)

CollectionOptions(c) ==
    /\ Up => Agree(store[c], Recovered[c], c \in partial)
    /\ \A d \in Clients : Creating(d, c) => store[c] # Absent /\ asked[c] = Options(req[d])
    /\ c \notin partial /\ Recovered[c] # Absent =>
          \/ OptionsOf(Recovered[c]) = asked[c] /\ \A d \in Clients : ~Creating(d, c)
          \/ \E d \in Clients : /\ Creating(d, c)
                                /\ OptionsOf(Recovered[c]) = SoFar(req[d], todo[d])

OptionsInv == \A c \in Collections : CollectionOptions(c)

Inv == TypeOK /\ GuardInv /\ ExportInv /\ DiskInv /\ CleanInv /\ OptionsInv

----------------------------------------------------------------------------
(* Replay *)

ReplayedBy(f, s, ops) ==
    f = [k \in 0 .. Len(ops) |-> IF k = 0 THEN s ELSE ReplayOp(f[k - 1], ops[k])]

\* A function that replays step by step is the replay.
LEMMA ReplayedIs ==
    ASSUME NEW s, NEW ops \in Seq(AllOps), NEW g, g[0] = s,
           \A k \in 1 .. Len(ops) : g[k] = ReplayOp(g[k - 1], ops[k])
    PROVE  Replayed(s, ops) = g[Len(ops)]
<1> DEFINE f == CHOOSE f : ReplayedBy(f, s, ops)
           h == [k \in 0 .. Len(ops) |-> g[k]]
<1>1. Replayed(s, ops) = f[Len(ops)]
  BY DEF Replayed, ReplayedBy
<1>2. Len(ops) \in Nat
  OBVIOUS
<1>3. ASSUME NEW k \in 0 .. Len(ops)
      PROVE  h[k] = IF k = 0 THEN s ELSE ReplayOp(h[k - 1], ops[k])
  BY <1>2
<1>4. ReplayedBy(h, s, ops)
  <2> HIDE DEF h
  <2>1. h = [k \in 0 .. Len(ops) |-> h[k]]
    BY DEF h
  <2>2. QED
    BY <1>3, <2>1 DEF ReplayedBy
<1>5. ReplayedBy(f, s, ops)
  BY <1>4
<1> HIDE DEF f, h
<1>6. f[0] = s /\ \A k \in 1 .. Len(ops) : f[k] = ReplayOp(f[k - 1], ops[k])
  <2>1. \A k \in 0 .. Len(ops) : f[k] = IF k = 0 THEN s ELSE ReplayOp(f[k - 1], ops[k])
    BY <1>5, Zenon DEF ReplayedBy
  <2>2. 0 \in 0 .. Len(ops) /\ \A k \in 1 .. Len(ops) : k \in 0 .. Len(ops) /\ k # 0
    BY <1>2
  <2>3. QED
    BY <2>1, <2>2
<1>7. f[0] = g[0] /\ \A k \in 1 .. Len(ops) : f[k - 1] = g[k - 1] => f[k] = g[k]
  BY <1>6
<1>8. \A k \in 0 .. Len(ops) : f[k] = g[k]
  BY ONLY <1>2, <1>7, RecursionUnique
<1>9. QED
  BY <1>1, <1>2, <1>8

\* The replay has such a function.
LEMMA ReplayedSteps ==
    ASSUME NEW s \in Store, NEW ops \in Seq(AllOps)
    PROVE  \E g \in [0 .. Len(ops) -> Store] :
              /\ g[0] = s /\ Replayed(s, ops) = g[Len(ops)]
              /\ \A k \in 1 .. Len(ops) : g[k] = ReplayOp(g[k - 1], ops[k])
<1> DEFINE n == Len(ops)
           V == Store
           base == s
           h == [k \in 1 .. n |-> [v \in V |-> ReplayOp(v, ops[k])]]
<1>1. n \in Nat /\ base \in V /\ \A k \in 1 .. n : ops[k] \in AllOps
  OBVIOUS
<1>2. h \in [1 .. n -> [V -> V]]
  BY <1>1, ReplayType
<1>3. \A k \in 1 .. n, v \in V : h[k][v] = ReplayOp(v, ops[k])
  BY Zenon
<1> HIDE DEF h, n, V, base
<1>4. PICK g : SolvedBy(g, V, base, n, h)
  <2>1. h \in StepsOn(V, n)
    BY <1>2 DEF StepsOn
  <2>2. QED
    BY <1>1, <2>1, Recursion
<1>5. g \in [0 .. n -> V] /\ g[0] = base /\ \A k \in 1 .. n : g[k] = h[k][g[k - 1]]
  BY <1>4 DEF SolvedBy
<1>6. \A k \in 1 .. n : g[k - 1] \in V
  BY <1>1, <1>5
<1>7. \A k \in 1 .. n : g[k] = ReplayOp(g[k - 1], ops[k])
  BY <1>3, <1>5, <1>6
<1>8. Replayed(s, ops) = g[n]
  BY <1>5, <1>7, ReplayedIs DEF n, base
<1>9. QED
  BY <1>5, <1>7, <1>8 DEF n, V, base

\* Replay leaves a store.
LEMMA ReplayedType ==
    ASSUME NEW s \in Store, NEW ops \in Seq(AllOps)
    PROVE  Replayed(s, ops) \in Store
<1>1. PICK g \in [0 .. Len(ops) -> Store] : Replayed(s, ops) = g[Len(ops)]
  BY ReplayedSteps
<1>2. Len(ops) \in 0 .. Len(ops)
  OBVIOUS
<1>3. QED
  BY <1>1, <1>2

\* An empty log brings the snapshot back.
LEMMA ReplayedEmpty ==
    ASSUME NEW s \in Store
    PROVE  Replayed(s, <<>>) = s
<1> DEFINE ops == <<>>
<1>1. ops \in Seq(AllOps) /\ Len(ops) = 0
  OBVIOUS
<1> HIDE DEF ops
<1>2. PICK g \in [0 .. Len(ops) -> Store] : g[0] = s /\ Replayed(s, ops) = g[Len(ops)]
  BY <1>1, ReplayedSteps
<1>3. QED
  BY <1>1, <1>2 DEF ops

\* One more entry is one more step.
LEMMA ReplayedAppend ==
    ASSUME NEW s \in Store, NEW ops \in Seq(AllOps), NEW op \in AllOps
    PROVE  Replayed(s, Append(ops, op)) = ApplyLive(Replayed(s, ops), op)
<1> DEFINE n == Len(ops)
           u == Append(ops, op)
<1>1. /\ n \in Nat /\ u \in Seq(AllOps) /\ Len(u) = n + 1 /\ u[n + 1] = op
      /\ \A k \in 1 .. n : u[k] = ops[k]
  OBVIOUS
<1>2. PICK g \in [0 .. n -> Store] :
              /\ g[0] = s /\ Replayed(s, ops) = g[n]
              /\ \A k \in 1 .. n : g[k] = ReplayOp(g[k - 1], ops[k])
  BY ReplayedSteps
<1> HIDE DEF n, u
<1> DEFINE last == ReplayOp(g[n], op)
           f == [k \in 0 .. n + 1 |-> IF k <= n THEN g[k] ELSE last]
<1> HIDE DEF last
<1>3. f[0] = s /\ f[n + 1] = last /\ \A k \in 0 .. n : f[k] = g[k]
  BY <1>1, <1>2
<1> HIDE DEF f
<1>4. \A k \in 1 .. Len(u) : f[k] = ReplayOp(f[k - 1], u[k])
  <2>1. SUFFICES ASSUME NEW k \in 1 .. n + 1
                 PROVE  f[k] = ReplayOp(f[k - 1], u[k])
    BY <1>1
  <2>2. f[k - 1] = g[k - 1]
    BY <1>1, <1>3
  <2>3. CASE k = n + 1
    <3>1. f[k] = last /\ u[k] = op /\ g[k - 1] = g[n]
      BY <1>1, <1>3, <2>3
    <3>2. QED
      BY <2>2, <3>1 DEF last
  <2>4. CASE k \in 1 .. n
    BY <1>1, <1>2, <1>3, <2>2, <2>4
  <2>5. QED
    BY <1>1, <2>3, <2>4
<1>5. Replayed(s, u) = f[Len(u)]
  BY <1>1, <1>3, <1>4, ReplayedIs
<1>6. g[n] \in Store
  BY <1>1, <1>2
<1>7. ReplayOp(g[n], op) = ApplyLive(g[n], op)
  BY <1>6, ReplayAgrees
<1>8. QED
  BY <1>1, <1>2, <1>3, <1>5, <1>7 DEF last, u

----------------------------------------------------------------------------
(* Files *)

Inserts == {op \in InsertOps : op.vec # BadVec}

\* A finite set as a sequence: every element once.
LEMMA SetToSeqBijection ==
    ASSUME NEW S, IsFiniteSet(S)
    PROVE  /\ Cardinality(S) \in Nat
           /\ SetToSeq(S) \in [1 .. Cardinality(S) -> S]
           /\ \A a, b \in 1 .. Cardinality(S) : SetToSeq(S)[a] = SetToSeq(S)[b] => a = b
           /\ \A x \in S : \E a \in 1 .. Cardinality(S) : SetToSeq(S)[a] = x
<1> DEFINE n == Cardinality(S)
           f == SetToSeq(S)
<1>1. n \in Nat /\ ExistsBijection(1 .. n, S)
  BY FS_CardinalityType
<1>2. \E g \in [1 .. n -> S] : IsInjective(g)
  BY <1>1 DEF ExistsBijection, Bijection, Injection
<1>3. f \in [1 .. n -> S] /\ IsInjective(f)
  BY <1>2, Zenon DEF SetToSeq
<1> HIDE DEF f
<1>4. f \in Injection(1 .. n, S)
  BY <1>3 DEF Injection
<1>5. IsFiniteSet(1 .. n) /\ Cardinality(1 .. n) = n
  BY <1>1, FS_Interval
<1>6. f \in Surjection(1 .. n, S)
  BY <1>4, <1>5, FS_Injection
<1>7. \A a, b \in 1 .. n : f[a] = f[b] => a = b
  BY <1>3 DEF IsInjective
<1>8. \A x \in S : \E a \in 1 .. n : f[a] = x
  BY <1>6 DEF Surjection
<1>9. QED
  BY <1>1, <1>3, <1>7, <1>8 DEF f

Present(rows) == {i \in Ids : rows[i] # NoRow}

\* What build_payload makes of an exported row: the payload itself, or nothing
\* if the column is not asked for.
LEMMA ExportedPayload ==
    ASSUME NEW i, NEW row \in Row, NEW cols \in SUBSET {"payload"}
    PROVE  BuildPayload(Line(i, row).cells, cols) =
              IF cols = {} THEN NoPayload ELSE row.pay
<1> DEFINE cells == Line(i, row).cells
<1>1. /\ cells["payload"] = IF row.pay = NoPayload THEN NullCell ELSE JsonCell(row.pay)
      /\ NullCell.kind = "null" /\ JsonCell(row.pay).kind = "json"
      /\ JsonCell(row.pay).value = row.pay
  BY DEF Line, NullCell, JsonCell
<1> SUFFICES BuildPayload(cells, cols) = IF cols = {} THEN NoPayload ELSE row.pay
  OBVIOUS
<1> HIDE DEF cells
<1>2. CASE cols = {}
  BY <1>2 DEF BuildPayload
<1>3. CASE cols = {"payload"} /\ row.pay # NoPayload
  BY <1>1, <1>3 DEF BuildPayload
<1>4. CASE cols = {"payload"} /\ row.pay = NoPayload
  <2>1. cells["payload"] = NullCell /\ cells["payload"].kind # "json"
    BY <1>1, <1>4
  <2>2. {n \in cols : cells[n] # NullCell /\ ColValueAt(cells[n]) # NoPayload} = {}
    BY <1>4, <2>1
  <2>3. QED
    BY <1>4, <2>1, <2>2 DEF BuildPayload
<1>5. cols = {} \/ cols = {"payload"}
  OBVIOUS
<1>6. QED
  BY <1>2, <1>3, <1>4, <1>5 DEF cells

\* The inserts an import of an exported file makes: one for every row.
LEMMA ExportedOps ==
    ASSUME NEW rows \in Rows, NEW c \in Collections, NEW cols \in SUBSET {"payload"}
    PROVE  LET ids == SetToSeq(Present(rows))
               n == Cardinality(Present(rows))
               ops == ImportOps(c, ExportFile(rows), cols)
           IN  /\ n \in Nat /\ ids \in [1 .. n -> Present(rows)]
               /\ \A a, b \in 1 .. n : ids[a] = ids[b] => a = b
               /\ \A x \in Present(rows) : \E a \in 1 .. n : ids[a] = x
               /\ ops \in [1 .. n -> Inserts]
               /\ \A k \in 1 .. n :
                     /\ ops[k].id = ids[k] /\ ops[k].vec = rows[ids[k]].vec
                     /\ ops[k].pay = IF cols = {} THEN NoPayload ELSE rows[ids[k]].pay
<1> DEFINE S == Present(rows)
           ids == SetToSeq(S)
           n == Cardinality(S)
           file == ExportFile(rows)
           lines == [k \in DOMAIN ids |-> Line(ids[k], rows[ids[k]])]
           ops == ImportOps(c, file, cols)
<1>1. IsFiniteSet(S)
  BY RequestAssumption, FS_Subset DEF Present
<1>2. /\ n \in Nat /\ ids \in [1 .. n -> S]
      /\ \A a, b \in 1 .. n : ids[a] = ids[b] => a = b
      /\ \A x \in S : \E a \in 1 .. n : ids[a] = x
  BY <1>1, SetToSeqBijection
<1>3. file.lines = lines
  BY DEF ExportFile, File, Present
<1> HIDE DEF ids, n, file
<1>4. DOMAIN lines = 1 .. n /\ \A k \in 1 .. n : lines[k] = Line(ids[k], rows[ids[k]])
  BY <1>2
<1> HIDE DEF lines
<1>5. ops = [k \in 1 .. n |->
                [kind |-> "insert", c |-> c, id |-> lines[k].id, vec |-> lines[k].vec,
                 pay |-> BuildPayload(lines[k].cells, cols)]]
  BY <1>3, <1>4 DEF ImportOps
<1> HIDE DEF ops
<1>6. ASSUME NEW k \in 1 .. n
      PROVE  /\ ops[k] \in Inserts /\ ops[k].id = ids[k] /\ ops[k].vec = rows[ids[k]].vec
             /\ ops[k].pay = IF cols = {} THEN NoPayload ELSE rows[ids[k]].pay
  <2> DEFINE i == ids[k]
             row == rows[i]
             pay == BuildPayload(lines[k].cells, cols)
  <2>1. i \in Ids /\ row \in Row
    BY <1>2 DEF Present, Rows
  <2>2. lines[k] = Line(i, row)
    BY <1>4
  <2> HIDE DEF i, row
  <2>3. lines[k].id = i /\ lines[k].vec = row.vec
    BY <2>2 DEF Line
  <2>4. pay = IF cols = {} THEN NoPayload ELSE row.pay
    BY <2>1, <2>2, ExportedPayload
  <2>5. row.vec \in Vecs /\ row.pay \in Payloads \cup {NoPayload} /\ row.vec # BadVec
    BY <2>1, SentinelAssumption DEF Row
  <2> HIDE DEF pay
  <2>6. ops[k] = [kind |-> "insert", c |-> c, id |-> i, vec |-> row.vec, pay |-> pay]
    BY <1>5, <2>3 DEF pay
  <2>7. pay \in Payloads \cup {NoPayload}
    BY <2>4, <2>5
  <2>8. ops[k] \in Inserts
    BY <2>1, <2>5, <2>6, <2>7 DEF Inserts, InsertOps
  <2>9. QED
    BY <2>4, <2>6, <2>8 DEF i, row
<1>7. ops \in [1 .. n -> Inserts]
  BY <1>5, <1>6
<1>8. QED
  BY <1>2, <1>6, <1>7 DEF ids, n, ops, file

\* An exported file can be imported.
LEMMA ExportImportable ==
    ASSUME NEW rows \in Rows
    PROVE  Importable(ExportFile(rows))
<1> DEFINE file == ExportFile(rows)
<1>1. file.cols = {"payload"}
  BY DEF ExportFile, File
<1>2. ASSUME NEW c \in Collections, NEW cols \in SUBSET {"payload"}
      PROVE  ImportOps(c, file, cols) \in Seq(Inserts)
  <2>1. \E n \in Nat : ImportOps(c, file, cols) \in [1 .. n -> Inserts]
    BY ExportedOps
  <2>2. QED
    BY <2>1
<1> HIDE DEF file
<1>3. QED
  BY <1>1, <1>2 DEF Importable, Inserts, file

\* A file an export was cut off in has no rows.
LEMMA RuinedAtPath ==
    ASSUME NEW by \in SUBSET Collections
    PROVE  AtPath([Ruined EXCEPT !.by = by]) /\ [Ruined EXCEPT !.by = by].by = by
BY DEF AtPath, Ruined, Broken, Importable

\* A finished export is a file with the rows it was written from.
LEMMA ExportedAtPath ==
    ASSUME NEW rows \in Rows
    PROVE  AtPath(Exported(rows))
BY ExportImportable DEF AtPath, Exported

----------------------------------------------------------------------------
(* The calls of a handler *)

CreateOp(r) == Op("create", r.c)
EnableOp(r) == Op("enable_fts", r.c)
BindOp(r) == [kind |-> "bind", c |-> r.c, binding |-> r.binding]

\* The arguments of a create.
LEMMA CreateArguments ==
    ASSUME NEW r \in RequestSet, r.kind = "create"
    PROVE  /\ r.c \in Collections /\ r.fts \in BOOLEAN
           /\ Options(r) = <<r.fts, Options(r)[2]>>
           /\ Options(r)[2] \in Bindings \cup {NoBinding}
           /\ Options(r)[2] # NoBinding => Options(r)[2] = r.binding /\ r.binding \in Bindings
           /\ Options(r) \in BOOLEAN \X (Bindings \cup {NoBinding})
<1>1. /\ r.c \in Collections /\ r.fts \in BOOLEAN /\ r.via \in {"rest", "grpc"}
      /\ r.binding \in Bindings \cup {NoBinding}
  BY RequestAssumption
<1> DEFINE b == IF r.via = "rest" THEN r.binding ELSE NoBinding
<1>2. Options(r) = <<r.fts, b>>
  BY DEF Options
<1>3. b \in Bindings \cup {NoBinding} /\ (b # NoBinding => b = r.binding /\ r.binding \in Bindings)
  BY <1>1
<1> HIDE DEF b
<1>4. QED
  BY <1>1, <1>2, <1>3

\* The calls of a create are operations.
LEMMA CreateOps3 ==
    ASSUME NEW r \in RequestSet, r.kind = "create"
    PROVE  /\ CreateOp(r) \in AllOps /\ CreateOp(r).kind = "create" /\ CreateOp(r).c = r.c
           /\ EnableOp(r) \in AllOps /\ EnableOp(r).kind = "enable_fts" /\ EnableOp(r).c = r.c
           /\ BindOp(r).kind = "bind" /\ BindOp(r).c = r.c /\ BindOp(r).binding = r.binding
           /\ Options(r)[2] # NoBinding => BindOp(r) \in AllOps
<1>1. r.c \in Collections /\ (Options(r)[2] # NoBinding => r.binding \in Bindings)
  BY CreateArguments
<1>2. CreateOp(r) \in CreateOps /\ EnableOp(r) \in EnableOps
  BY <1>1 DEF CreateOp, EnableOp, Op, CreateOps, EnableOps
<1>3. Options(r)[2] # NoBinding => BindOp(r) \in BindOps
  BY <1>1 DEF BindOp, BindOps
<1>4. QED
  BY <1>2, <1>3 DEF AllOps, CreateOp, EnableOp, BindOp, Op

\* The stages of a create as plain sequences.
LEMMA Stages ==
    ASSUME NEW r, NEW t
    PROVE  /\ Fresh(r, t) <=>
                 t = IF r.fts
                     THEN IF Options(r)[2] # NoBinding
                          THEN <<CreateOp(r), EnableOp(r), BindOp(r)>>
                          ELSE <<CreateOp(r), EnableOp(r)>>
                     ELSE IF Options(r)[2] # NoBinding
                          THEN <<CreateOp(r), BindOp(r)>> ELSE <<CreateOp(r)>>
           /\ Created(r, t) <=>
                 r.fts /\ t = IF Options(r)[2] # NoBinding
                              THEN <<EnableOp(r), BindOp(r)>> ELSE <<EnableOp(r)>>
           /\ Searchable(r, t) <=> Options(r)[2] # NoBinding /\ t = <<BindOp(r)>>
<1> DEFINE some == Options(r)[2] # NoBinding
<1>1. /\ EnableCalls(r) = IF r.fts THEN <<EnableOp(r)>> ELSE <<>>
      /\ BindCalls(r) = IF some THEN <<BindOp(r)>> ELSE <<>>
      /\ Op("create", r.c) = CreateOp(r) /\ Op("enable_fts", r.c) = EnableOp(r)
  BY DEF EnableCalls, BindCalls, EnableOp, BindOp, CreateOp
<1>2. ASSUME NEW x, NEW y, NEW z
      PROVE  /\ <<x>> \o <<>> = <<x>> /\ <<x>> \o <<y>> = <<x, y>>
             /\ <<x, y>> \o <<z>> = <<x, y, z>> /\ <<x, y>> \o <<>> = <<x, y>>
  <2> DEFINE S == {x, y, z}
  <2>1. <<x>> \in Seq(S) /\ <<x, y>> \in Seq(S) /\ <<z>> \in Seq(S) /\ <<y>> \in Seq(S)
        /\ <<>> \in Seq(S)
    OBVIOUS
  <2>2. <<x>> \o <<>> = <<x>>
    OBVIOUS
  <2>3. <<x, y>> \o <<>> = <<x, y>>
    OBVIOUS
  <2>4. <<x>> \o <<y>> = <<x, y>>
    <3> DEFINE a == <<x>> \o <<y>>
               b == <<x, y>>
    <3>1. a \in Seq(S) /\ b \in Seq(S) /\ Len(a) = 2 /\ Len(b) = 2
      BY <2>1
    <3>2. a[1] = b[1] /\ a[2] = b[2]
      BY <2>1
    <3> HIDE DEF a, b
    <3>3. \A i \in 1 .. 2 : a[i] = b[i]
      BY <3>2
    <3>4. a = b
      BY <3>1, <3>3, SeqEqual
    <3>5. QED
      BY <3>4 DEF a, b
  <2>5. <<x, y>> \o <<z>> = <<x, y, z>>
    <3> DEFINE a == <<x, y>> \o <<z>>
               b == <<x, y, z>>
    <3>1. a \in Seq(S) /\ b \in Seq(S) /\ Len(a) = 3 /\ Len(b) = 3
      BY <2>1
    <3>2. a[1] = b[1] /\ a[2] = b[2] /\ a[3] = b[3]
      BY <2>1
    <3> HIDE DEF a, b
    <3>3. \A i \in 1 .. 3 : a[i] = b[i]
      BY <3>2
    <3>4. a = b
      BY <3>1, <3>3, SeqEqual
    <3>5. QED
      BY <3>4 DEF a, b
  <2>6. QED
    BY <2>2, <2>3, <2>4, <2>5
<1>3. Created(r, t) <=> r.fts /\ t = IF some THEN <<EnableOp(r), BindOp(r)>> ELSE <<EnableOp(r)>>
  BY <1>1, <1>2, Zenon DEF Created
<1>4. Searchable(r, t) <=> some /\ t = <<BindOp(r)>>
  BY <1>1, Zenon DEF Searchable
<1>5. Fresh(r, t) <=> t = (<<CreateOp(r)>> \o EnableCalls(r)) \o BindCalls(r)
  BY <1>1, Zenon DEF Fresh
<1>6. <<CreateOp(r)>> \o EnableCalls(r) = IF r.fts THEN <<CreateOp(r), EnableOp(r)>> ELSE <<CreateOp(r)>>
  BY <1>1, <1>2, Zenon
<1>7. (<<CreateOp(r)>> \o EnableCalls(r)) \o BindCalls(r) =
         IF r.fts THEN IF some THEN <<CreateOp(r), EnableOp(r), BindOp(r)>>
                       ELSE <<CreateOp(r), EnableOp(r)>>
         ELSE IF some THEN <<CreateOp(r), BindOp(r)>> ELSE <<CreateOp(r)>>
  BY <1>1, <1>2, <1>6, Zenon
<1> HIDE DEF some
<1>8. QED
  BY <1>3, <1>4, <1>5, <1>7, Zenon DEF some

\* Before anything is done: the creation comes first, what is left after it is
\* a create begun, and nothing is left if no options are asked for.
LEMMA FreshCalls ==
    ASSUME NEW r \in RequestSet, r.kind = "create", NEW t, Fresh(r, t)
    PROVE  /\ t \in Seq(AllOps) /\ t # <<>> /\ t[1] = CreateOp(r)
           /\ Len(t) = 1 => Options(r) = NoOptions
           /\ Len(t) # 1 => Begun(r, Tail(t)) /\ SoFar(r, Tail(t)) = NoOptions
<1> DEFINE some == Options(r)[2] # NoBinding
<1>1. /\ r.fts \in BOOLEAN /\ Options(r) = <<r.fts, Options(r)[2]>>
  BY CreateArguments
<1>2. CreateOp(r) \in AllOps /\ EnableOp(r) \in AllOps /\ (some => BindOp(r) \in AllOps)
  BY CreateOps3
<1>3. t = IF r.fts THEN IF some THEN <<CreateOp(r), EnableOp(r), BindOp(r)>>
                        ELSE <<CreateOp(r), EnableOp(r)>>
          ELSE IF some THEN <<CreateOp(r), BindOp(r)>> ELSE <<CreateOp(r)>>
  BY Stages, Zenon
<1>4. ASSUME r.fts, some
      PROVE  /\ t \in Seq(AllOps) /\ t # <<>> /\ t[1] = CreateOp(r) /\ Len(t) # 1
             /\ Tail(t) = <<EnableOp(r), BindOp(r)>>
  <2>1. t = <<CreateOp(r), EnableOp(r), BindOp(r)>>
    BY <1>3, <1>4
  <2>2. QED
    BY <1>2, <1>4, <2>1
<1>5. ASSUME r.fts, ~some
      PROVE  /\ t \in Seq(AllOps) /\ t # <<>> /\ t[1] = CreateOp(r) /\ Len(t) # 1
             /\ Tail(t) = <<EnableOp(r)>>
  <2>1. t = <<CreateOp(r), EnableOp(r)>>
    BY <1>3, <1>5
  <2>2. QED
    BY <1>2, <2>1
<1>6. ASSUME ~r.fts, some
      PROVE  /\ t \in Seq(AllOps) /\ t # <<>> /\ t[1] = CreateOp(r) /\ Len(t) # 1
             /\ Tail(t) = <<BindOp(r)>>
  <2>1. t = <<CreateOp(r), BindOp(r)>>
    BY <1>3, <1>6
  <2>2. QED
    BY <1>2, <1>6, <2>1
<1>7. ASSUME ~r.fts, ~some
      PROVE  t \in Seq(AllOps) /\ t # <<>> /\ t[1] = CreateOp(r) /\ Len(t) = 1
  <2>1. t = <<CreateOp(r)>>
    BY <1>3, <1>7
  <2>2. QED
    BY <1>2, <2>1
<1>8. r.fts => Created(r, IF some THEN <<EnableOp(r), BindOp(r)>> ELSE <<EnableOp(r)>>)
  BY Stages, Zenon
<1>9. some => Searchable(r, <<BindOp(r)>>)
  BY Stages, Zenon
<1>10. CASE r.fts
  <2>1. Created(r, Tail(t)) /\ Len(t) # 1 /\ t \in Seq(AllOps) /\ t # <<>> /\ t[1] = CreateOp(r)
    BY <1>4, <1>5, <1>8, <1>10
  <2>2. QED
    BY <2>1 DEF Begun, SoFar
<1>11. CASE ~r.fts /\ some
  <2>1. r.fts = FALSE
    BY <1>1, <1>11
  <2>2. Searchable(r, Tail(t)) /\ Len(t) # 1 /\ t \in Seq(AllOps) /\ t # <<>> /\ t[1] = CreateOp(r)
    BY <1>6, <1>9, <1>11
  <2>3. SoFar(r, Tail(t)) = NoOptions
    BY <2>1, Zenon DEF SoFar, NoOptions
  <2>4. QED
    BY <2>2, <2>3 DEF Begun
<1>12. CASE ~r.fts /\ ~some
  <2>1. r.fts = FALSE /\ Options(r)[2] = NoBinding
    BY <1>1, <1>12
  <2>2. Options(r) = NoOptions
    BY <1>1, <2>1, Zenon DEF NoOptions
  <2>3. QED
    BY <1>7, <1>12, <2>2
<1>13. QED
  BY <1>10, <1>11, <1>12

\* With the collection created, enable_fts is next.
LEMMA CreatedCalls ==
    ASSUME NEW r \in RequestSet, r.kind = "create", NEW t, Created(r, t)
    PROVE  /\ t \in Seq(AllOps) /\ t # <<>> /\ t[1] = EnableOp(r)
           /\ SoFar(r, t) = NoOptions
           /\ Len(t) = 1 => Options(r) = <<TRUE, NoBinding>>
           /\ Len(t) # 1 => /\ Searchable(r, Tail(t))
                            /\ SoFar(r, Tail(t)) = <<TRUE, NoBinding>>
<1> DEFINE some == Options(r)[2] # NoBinding
<1>1. r.fts = TRUE /\ Options(r) = <<r.fts, Options(r)[2]>>
  BY CreateArguments DEF Created
<1>2. EnableOp(r) \in AllOps /\ (some => BindOp(r) \in AllOps)
      /\ EnableOp(r).kind = "enable_fts" /\ BindOp(r).kind = "bind"
  BY CreateOps3
<1>3. t = IF some THEN <<EnableOp(r), BindOp(r)>> ELSE <<EnableOp(r)>>
  BY Stages, Zenon
<1>4. SoFar(r, t) = NoOptions
  BY DEF SoFar
<1>5. CASE some
  <2>1. t = <<EnableOp(r), BindOp(r)>>
    BY <1>3, <1>5
  <2>2. /\ t \in Seq(AllOps) /\ t # <<>> /\ t[1] = EnableOp(r) /\ Len(t) # 1
        /\ Tail(t) = <<BindOp(r)>>
    BY <1>2, <1>5, <2>1
  <2>3. Searchable(r, Tail(t))
    BY <1>5, <2>2, Stages, Zenon
  <2>4. ~Created(r, Tail(t))
    <3>1. Created(r, Tail(t)) => Tail(t) = <<EnableOp(r), BindOp(r)>>
      BY <1>5, Stages, Zenon
    <3>2. <<BindOp(r)>> # <<EnableOp(r), BindOp(r)>>
      OBVIOUS
    <3>3. QED
      BY <2>2, <3>1, <3>2
  <2>5. SoFar(r, Tail(t)) = <<TRUE, NoBinding>>
    BY <1>1, <2>4, Zenon DEF SoFar
  <2>6. QED
    BY <1>4, <2>2, <2>3, <2>5
<1>6. CASE ~some
  <2>1. t = <<EnableOp(r)>>
    BY <1>3, <1>6
  <2>2. t \in Seq(AllOps) /\ t # <<>> /\ t[1] = EnableOp(r) /\ Len(t) = 1
    BY <1>2, <2>1
  <2>3. Options(r) = <<TRUE, NoBinding>>
    BY <1>1, <1>6, Zenon
  <2>4. QED
    BY <1>4, <2>2, <2>3
<1>7. QED
  BY <1>5, <1>6

\* The binding is the last call.
LEMMA SearchableCalls ==
    ASSUME NEW r \in RequestSet, r.kind = "create", NEW t, Searchable(r, t)
    PROVE  /\ t \in Seq(AllOps) /\ t # <<>> /\ t[1] = BindOp(r) /\ Len(t) = 1
           /\ SoFar(r, t) = <<r.fts, NoBinding>>
           /\ Options(r) = <<r.fts, r.binding>>
<1>1. /\ Options(r) = <<r.fts, Options(r)[2]>> /\ Options(r)[2] # NoBinding
      /\ Options(r)[2] = r.binding
  BY CreateArguments DEF Searchable
<1>2. /\ BindOp(r) \in AllOps /\ BindOp(r).kind = "bind"
      /\ EnableOp(r).kind = "enable_fts"
  BY <1>1, CreateOps3
<1>3. t = <<BindOp(r)>>
  BY Stages, Zenon
<1>4. t \in Seq(AllOps) /\ t # <<>> /\ t[1] = BindOp(r) /\ Len(t) = 1
  BY <1>2, <1>3
<1>5. ~Created(r, t)
  <2>1. Created(r, t) => t = <<EnableOp(r), BindOp(r)>>
    BY <1>1, Stages, Zenon
  <2>2. Len(<<EnableOp(r), BindOp(r)>>) = 2
    OBVIOUS
  <2>3. QED
    BY <1>4, <2>1, <2>2
<1>6. SoFar(r, t) = <<r.fts, NoBinding>>
  BY <1>5 DEF SoFar
<1>7. Options(r) = <<r.fts, r.binding>>
  BY <1>1, Zenon
<1>8. QED
  BY <1>4, <1>6, <1>7

\* What a handler other than import takes into the guard.
LEMMA CallsStart ==
    ASSUME NEW r \in RequestSet, r.kind \in Writers, r.kind # "import"
    PROVE  Calls(r) \in Seq(AllOps) /\ CallsLeft(r, Calls(r)) /\ Calls(r) # <<>>
<1>1. CASE r.kind = "create"
  <2>1. Fresh(r, Calls(r))
    BY <1>1 DEF Calls, Fresh, EnableCalls, BindCalls
  <2>2. QED
    BY <1>1, <2>1, FreshCalls DEF CallsLeft
<1>2. CASE r.kind \in {"drop", "insert", "delete"}
  <2>1. Calls(r) = <<r.op>>
    BY <1>2 DEF Calls
  <2>2. r.op \in AllOps
    BY <1>2, RequestAssumption
  <2>3. QED
    BY <1>2, <2>1, <2>2 DEF CallsLeft
<1>3. QED
  BY <1>1, <1>2 DEF Writers

\* What import takes into it, once its checks have passed.
LEMMA CallsStartImport ==
    ASSUME NEW r \in RequestSet, r.kind = "import", AtPath(files[r.path]), NEW col,
           ImportCheck(col, files[r.path].file, r.cols) = "ok"
    PROVE  Calls(r) \in Seq(AllOps) /\ CallsLeft(r, Calls(r))
<1> DEFINE file == files[r.path].file
           ops == ImportOps(r.c, file, r.cols)
<1>1. Calls(r) = ops
  BY DEF Calls
<1>2. file.parses /\ file.fits /\ (file.lines = <<>> \/ r.cols \in SUBSET file.cols)
  BY DEF ImportCheck
<1>3. Importable(file) /\ r.c \in Collections
  BY RequestAssumption DEF AtPath
<1>4. ops \in Seq(Inserts)
  <2>1. CASE file.lines = <<>>
    <3>1. DOMAIN file.lines = 1 .. 0
      BY <2>1
    <3>2. ops = <<>>
      BY <3>1 DEF ImportOps
    <3>3. QED
      BY <3>2
  <2>2. CASE r.cols \in SUBSET file.cols
    BY <1>2, <1>3, <2>2 DEF Importable, Inserts
  <2>3. QED
    BY <1>2, <2>1, <2>2
<1>5. \A n \in 1 .. Len(ops) : ops[n] \in Inserts
  BY <1>4
<1>6. \A n \in 1 .. Len(ops) : ops[n].kind = "insert" /\ ops[n].c = r.c
  <2>1. Len(ops) \in Nat /\ DOMAIN ops = 1 .. Len(ops)
    BY <1>4
  <2>2. DOMAIN ops = DOMAIN file.lines
    BY DEF ImportOps
  <2>3. ASSUME NEW n \in DOMAIN file.lines
        PROVE  ops[n].kind = "insert" /\ ops[n].c = r.c
    BY <2>3 DEF ImportOps
  <2>4. QED
    BY <2>1, <2>2, <2>3
<1> HIDE DEF ops, file
<1>7. Inserts \subseteq AllOps
  BY DEF Inserts, AllOps
<1>8. ops \in Seq(AllOps)
  BY <1>4, <1>7
<1>9. QED
  BY <1>1, <1>6, <1>8 DEF CallsLeft

\* The next call is on the collection of the request.
LEMMA NextCall ==
    ASSUME NEW r \in RequestSet, r.kind \in Writers,
           NEW t \in Seq(AllOps), t # <<>>, CallsLeft(r, t)
    PROVE  /\ t[1] \in AllOps /\ t[1].c = r.c /\ r.c \in Collections
           /\ Len(t) \in Nat \ {0}
           /\ r.kind # "create" => t[1].kind = IF r.kind = "import" THEN "insert" ELSE r.kind
<1>1. t[1] \in AllOps /\ Len(t) \in Nat \ {0} /\ r.c \in Collections
  BY RequestAssumption
<1>2. CASE r.kind = "create"
  <2>1. t[1] \in {CreateOp(r), EnableOp(r), BindOp(r)}
    BY <1>2, FreshCalls, CreatedCalls, SearchableCalls DEF CallsLeft, Begun
  <2>2. t[1].c = r.c
    BY <1>2, <2>1, CreateOps3
  <2>3. QED
    BY <1>1, <1>2, <2>2
<1>3. CASE r.kind \in {"drop", "insert", "delete"}
  <2>1. t[1] = r.op /\ r.op.c = r.c /\ r.op.kind = r.kind
    BY <1>3, RequestAssumption DEF CallsLeft
  <2>2. QED
    BY <1>1, <1>3, <2>1
<1>4. CASE r.kind = "import"
  <2>1. 1 \in 1 .. Len(t)
    BY <1>1
  <2>2. t[1].c = r.c /\ t[1].kind = "insert"
    BY <1>4, <2>1 DEF CallsLeft
  <2>3. QED
    BY <1>1, <1>4, <2>2
<1>5. QED
  BY <1>2, <1>3, <1>4 DEF Writers

\* Only a create and an import make more than one call.
LEMMA CallsGoOn ==
    ASSUME NEW r \in RequestSet, r.kind \in Writers,
           NEW t \in Seq(AllOps), t # <<>>, CallsLeft(r, t), Len(t) # 1
    PROVE  /\ Tail(t) \in Seq(AllOps) /\ Tail(t) # <<>> /\ CallsLeft(r, Tail(t))
           /\ \/ r.kind = "import"
              \/ r.kind = "create" /\ Begun(r, Tail(t))
<1>1. Len(t) \in Nat \ {0, 1}
  OBVIOUS
<1>2. Tail(t) \in Seq(AllOps) /\ Tail(t) # <<>> /\ Len(Tail(t)) = Len(t) - 1
  <2> DEFINE u == Tail(t)
  <2>1. u \in Seq(AllOps) /\ Len(u) = Len(t) - 1
    BY <1>1
  <2> HIDE DEF u
  <2>2. u # <<>>
    BY <1>1, <2>1
  <2>3. QED
    BY <2>1, <2>2 DEF u
<1>3. CASE r.kind = "create"
  <2>1. Begun(r, Tail(t))
    BY <1>3, FreshCalls, CreatedCalls, SearchableCalls DEF CallsLeft, Begun
  <2>2. QED
    BY <1>2, <1>3, <2>1 DEF CallsLeft
<1>4. CASE r.kind \in {"drop", "insert", "delete"}
  <2>1. t = <<r.op>>
    BY <1>4 DEF CallsLeft
  <2>2. QED
    BY <1>1, <2>1
<1>5. CASE r.kind = "import"
  <2>1. \A n \in 1 .. Len(Tail(t)) : Tail(t)[n] = t[n + 1] /\ n + 1 \in 1 .. Len(t)
    BY <1>1, <1>2
  <2>2. \A n \in 1 .. Len(t) : t[n].kind = "insert" /\ t[n].c = r.c
    BY <1>5 DEF CallsLeft
  <2> DEFINE u == Tail(t)
  <2>3. \A n \in 1 .. Len(u) : u[n].kind = "insert" /\ u[n].c = r.c
    BY <2>1, <2>2
  <2> HIDE DEF u
  <2>4. CallsLeft(r, u)
    BY <1>5, <2>3 DEF CallsLeft
  <2>5. QED
    BY <1>2, <1>5, <2>4 DEF u
<1>6. QED
  BY <1>3, <1>4, <1>5 DEF Writers

----------------------------------------------------------------------------
(* Types *)

HandlerTypes ==
    /\ pc \in [Clients -> {"idle", "sent", "lock", "waiting", "export", "write"}]
    /\ req \in [Clients -> RequestSet \cup {NoRequest}]
    /\ reply \in Answers /\ wrote \subseteq Clients

LockTypes == holder \in Clients \cup {Nobody} /\ todo \in [Clients -> Seq(AllOps)]

StoreTypes == store \in Store /\ snap \in Store /\ log \in Seq(AllOps)

FileTypes ==
    /\ files = [p \in Paths |-> files[p]]
    /\ \A p \in Paths : files[p] = NoFile \/ AtPath(files[p])

ProcessTypes ==
    /\ proc \in {"down", "serving", "drain_grpc", "drain_rest", "final", "exiting"}
    /\ stop \in {"none", "clean", "cut", "failed", "crash"}
    /\ sent \in Nat /\ lives \in Nat /\ faults \in Nat

HistoryTypes ==
    /\ partial \subseteq Collections /\ uncertain \in BOOLEAN
    /\ asked \in [Collections -> BOOLEAN \X (Bindings \cup {NoBinding})]

\* TypeOK by parts.
LEMMA TypeParts ==
    TypeOK <=> /\ HandlerTypes /\ LockTypes /\ StoreTypes
               /\ FileTypes /\ ProcessTypes /\ HistoryTypes
BY Zenon DEF TypeOK, HandlerTypes, LockTypes, StoreTypes, FileTypes, ProcessTypes, HistoryTypes

\* ... and after a step.
LEMMA TypePartsNext ==
    ASSUME HandlerTypes', LockTypes', StoreTypes', FileTypes', ProcessTypes', HistoryTypes'
    PROVE  TypeOK'
BY Zenon DEF TypeOK, HandlerTypes, LockTypes, StoreTypes, FileTypes, ProcessTypes, HistoryTypes

\* A handler that answers.
LEMMA AnswerTypes ==
    ASSUME HandlerTypes, NEW c \in Clients, NEW a \in Answers, Answer(c, a)
    PROVE  HandlerTypes'
BY DEF HandlerTypes, Answer

\* A handler that goes on.
LEMMA GotoTypes ==
    ASSUME HandlerTypes, NEW c \in Clients, NEW l \in {"lock", "waiting", "export", "write"},
           Goto(c, l)
    PROVE  HandlerTypes'
BY DEF HandlerTypes, Goto

\* A handler that leaves the guard.
LEMMA ReleaseTypes ==
    ASSUME HandlerTypes, LockTypes, NEW c \in Clients, NEW a \in Answers, Release(c, a)
    PROVE  HandlerTypes' /\ LockTypes'
<1>1. HandlerTypes'
  BY AnswerTypes DEF Release
<1>2. <<>> \in Seq(AllOps)
  OBVIOUS
<1>3. todo' \in [Clients -> Seq(AllOps)]
  BY <1>2, Zenon DEF Release, LockTypes
<1>4. QED
  BY <1>1, <1>3 DEF Release, LockTypes

\* The call a writer is at.
LEMMA WriterAt ==
    ASSUME TypeOK, GuardInv, NEW c \in Clients, pc[c] = "write"
    PROVE  /\ holder = c /\ Up /\ req[c] \in RequestSet /\ req[c].kind \in Writers
           /\ todo[c] \in Seq(AllOps) /\ todo[c] # <<>> /\ Len(todo[c]) \in Nat \ {0}
           /\ CallsLeft(req[c], todo[c])
           /\ todo[c][1] \in AllOps /\ todo[c][1].c = req[c].c /\ req[c].c \in Collections
           /\ req[c].kind # "create" => todo[c][1].kind # "create"
<1>1. Handler(c) /\ todo[c] \in Seq(AllOps)
  BY DEF GuardInv, TypeOK
<1>2. /\ holder = c /\ Up /\ req[c] \in RequestSet /\ req[c].kind \in Writers
      /\ todo[c] # <<>> /\ CallsLeft(req[c], todo[c])
  BY <1>1, Zenon DEF Handler
<1>3. /\ todo[c][1] \in AllOps /\ todo[c][1].c = req[c].c /\ req[c].c \in Collections
      /\ Len(todo[c]) \in Nat \ {0}
      /\ req[c].kind # "create" =>
            todo[c][1].kind = IF req[c].kind = "import" THEN "insert" ELSE req[c].kind
  BY <1>1, <1>2, NextCall
<1>4. QED
  BY <1>1, <1>2, <1>3

\* A handler that goes on to its next call or leaves.
LEMMA AdvanceTypes ==
    ASSUME TypeOK, GuardInv, NEW c \in Clients, pc[c] = "write", Advance(c)
    PROVE  HandlerTypes' /\ LockTypes'
<1>1. HandlerTypes /\ LockTypes
  BY TypeParts
<1>2. CASE Len(todo[c]) = 1
  <2>1. Release(c, "ok") /\ "ok" \in Answers
    BY <1>2 DEF Advance, Answers
  <2>2. QED
    BY <1>1, <2>1, ReleaseTypes
<1>3. CASE Len(todo[c]) # 1
  <2>1. /\ todo' = [todo EXCEPT ![c] = Tail(todo[c])]
        /\ wrote' = wrote \cup {c} /\ UNCHANGED <<holder, pc, req, reply>>
    BY <1>3 DEF Advance
  <2>2. Tail(todo[c]) \in Seq(AllOps)
    BY <1>3, WriterAt, CallsGoOn
  <2>3. HandlerTypes'
    BY <1>1, <2>1 DEF HandlerTypes
  <2>4. LockTypes'
    BY <1>1, <2>1, <2>2 DEF LockTypes
  <2>5. QED
    BY <2>3, <2>4
<1>4. QED
  BY <1>2, <1>3

\* The answers are HTTP and gRPC statuses.
LEMMA Statuses ==
    /\ \A r : Vetted(r) \in Answers /\ StatusOfIo(r) \in Answers
    /\ \A s, op : StatusOf(s, op) \in Answers
    /\ \A col, file, cols : ImportCheck(col, file, cols) \in Answers
BY DEF Answers, Vetted, StatusOfIo, StatusOf, ImportCheck

\* An export puts a file at its path.
LEMMA FileTypesAt ==
    ASSUME FileTypes, NEW p \in Paths, NEW x, AtPath(x), files' = [files EXCEPT ![p] = x]
    PROVE  FileTypes' /\ \A q \in Paths : AtPath(files[q]) => AtPath(files'[q])
<1>1. files = [q \in Paths |-> files[q]]
  BY DEF FileTypes
<1>2. files' = [q \in Paths |-> IF q = p THEN x ELSE files[q]]
  BY <1>1, Zenon
<1>3. \A q \in Paths : files'[q] = IF q = p THEN x ELSE files[q]
  BY <1>2
<1>4. files' = [q \in Paths |-> files'[q]]
  BY <1>2
<1>5. QED
  BY <1>3, <1>4, Zenon DEF FileTypes

\* The file an export begins with.
LEMMA BeginExportFile ==
    ASSUME TypeOK, GuardInv, ExportInv, NEW c \in Clients, BeginExport(c),
           store[req[c].c] # Absent
    PROVE  /\ Goto(c, "export") /\ req[c].path \in Paths /\ req[c].c \in Collections
           /\ \E by \in SUBSET Collections :
                 /\ files' = [files EXCEPT ![req[c].path] = [Ruined EXCEPT !.by = by]]
                 /\ \A d \in by : store[d] # Absent
<1> DEFINE p == req[c].path
           others == {req[d].c : d \in Exporting(p)}
           by == {req[c].c} \cup IF others = {} THEN {} ELSE files[p].by
<1>1. /\ Goto(c, "export") /\ pc[c] = "lock" /\ req[c].kind = "export"
      /\ files' = [files EXCEPT ![p] = [Ruined EXCEPT !.by = by]]
  BY DEF BeginExport
<1>2. req[c] \in RequestSet /\ p \in Paths
  BY <1>1 DEF GuardInv, Handler
<1>3. req[c].c \in Collections
  BY <1>2, RequestAssumption
<1>4. others # {} => AtPath(files[p]) /\ \A d \in files[p].by : store[d] # Absent
  <2>1. SUFFICES ASSUME NEW d \in Exporting(p)
                 PROVE  AtPath(files[p]) /\ \A e \in files[p].by : store[e] # Absent
    OBVIOUS
  <2>2. d \in Clients /\ pc[d] = "export" /\ req[d].path = p
    BY DEF Exporting
  <2>3. QED
    BY <2>2 DEF ExportInv
<1>5. by \in SUBSET Collections /\ \A d \in by : store[d] # Absent
  BY <1>3, <1>4 DEF AtPath
<1> HIDE DEF by
<1>6. QED
  BY <1>1, <1>2, <1>3, <1>5

\* The file an export ends with.
LEMMA EndExportFile ==
    ASSUME TypeOK, GuardInv, ExportInv, NEW c \in Clients, EndExport(c)
    PROVE  /\ req[c].path \in Paths
           /\ \/ files' = files
              \/ /\ Exporting(req[c].path) = {c}
                 /\ \E x : AtPath(x) /\ files' = [files EXCEPT ![req[c].path] = x]
<1> DEFINE p == req[c].path
           by == files[p].by
<1>1. pc[c] = "export"
  BY DEF EndExport
<1>2. p \in Paths
  BY <1>1 DEF GuardInv, Handler
<1>3. AtPath(files[p]) /\ \A d \in by : store[d] # Absent
  BY <1>1 DEF ExportInv
<1>4. CASE Exporting(p) # {c}
  BY <1>2, <1>4 DEF EndExport
<1>5. CASE Exporting(p) = {c}
  <2>1. PICK f \in {Exported(store[d].rows) : d \in by}
                     \cup IF Cardinality(by) > 1 THEN {Ruined} ELSE {} :
               files' = [files EXCEPT ![p] = f]
    BY <1>5 DEF EndExport
  <2>2. ASSUME NEW d \in by
        PROVE  AtPath(Exported(store[d].rows))
    <3>1. d \in Collections /\ store[d] # Absent
      BY <1>3 DEF AtPath
    <3>2. store[d] \in Collection
      BY <3>1 DEF TypeOK, Store
    <3>3. store[d].rows \in Rows
      BY <3>2 DEF Collection, Rows
    <3>4. QED
      BY <3>3, ExportedAtPath
  <2>3. AtPath(Ruined)
    BY DEF AtPath, Ruined, Broken, Importable
  <2>4. AtPath(f)
    BY <2>1, <2>2, <2>3
  <2>5. QED
    BY <1>2, <1>5, <2>1, <2>4
<1>6. QED
  BY <1>4, <1>5

\* What a write records about its collection.
LEMMA AskedType ==
    ASSUME TypeOK, GuardInv, NEW c \in Clients, pc[c] = "write"
    PROVE  Asked(req[c], todo[c][1]) \in BOOLEAN \X (Bindings \cup {NoBinding})
<1> DEFINE op == todo[c][1]
           T == BOOLEAN \X (Bindings \cup {NoBinding})
<1>1. op.c \in Collections /\ req[c] \in RequestSet /\ (op.kind = "create" => req[c].kind = "create")
  BY WriterAt
<1>2. asked[op.c] \in T
  BY <1>1 DEF TypeOK
<1>3. op.kind = "create" => Options(req[c]) \in T
  BY <1>1, CreateArguments
<1>4. <<FALSE, NoBinding>> \in T
  OBVIOUS
<1> HIDE DEF op, T
<1>5. Asked(req[c], op) \in T
  BY <1>2, <1>3, <1>4 DEF Asked
<1>6. QED
  BY <1>5 DEF op, T

\* The steps of a handler inside the guard keep the types.
LEMMA GuardedTypes ==
    ASSUME TypeOK, GuardInv, NEW c \in Clients,
           Write(c) \/ Refuse(c) \/ WriteFails(c)
    PROVE  TypeOK'
<1> DEFINE op == todo[c][1]
<1>0. /\ HandlerTypes /\ LockTypes /\ StoreTypes /\ FileTypes /\ ProcessTypes /\ HistoryTypes
  BY TypeParts
<1>1. pc[c] = "write" /\ UNCHANGED <<proc, files, stop, sent, lives>>
  BY DEF Write, Refuse, WriteFails, counts
<1>2. op \in AllOps /\ op.c \in Collections /\ req[c].c \in Collections
  BY <1>1, WriterAt
<1>3. Append(log, op) \in Seq(AllOps) /\ <<>> \in Seq(AllOps)
  BY <1>0, <1>2 DEF StoreTypes
<1>4. FileTypes'
  BY <1>0, <1>1 DEF FileTypes
<1>5. CASE Write(c)
  <2>1. store' = ApplyLive(store, op) /\ asked' = [asked EXCEPT ![op.c] = Asked(req[c], op)]
    BY <1>5 DEF Write
  <2>2. store' \in Store
    BY <1>0, <1>2, <2>1, ApplyLiveType DEF StoreTypes
  <2>3. HandlerTypes' /\ LockTypes'
    <3>1. Advance(c) \/ Release(c, StatusOfIo(req[c]))
      BY <1>5 DEF Write
    <3>2. QED
      BY <1>0, <1>1, <3>1, AdvanceTypes, ReleaseTypes, Statuses
  <2>4. log' \in Seq(AllOps) /\ snap' \in Store
    <3>1. (log' = Append(log, op) \/ log' = <<>>) /\ (snap' = snap \/ snap' = store')
      BY <1>5 DEF Write, LogEntry
    <3>2. QED
      BY <1>0, <1>3, <2>2, <3>1 DEF StoreTypes
  <2>5. ProcessTypes'
    <3>1. faults' = faults \/ faults' = faults + 1
      BY <1>5 DEF Write, Fault
    <3>2. QED
      BY <1>0, <1>1, <3>1 DEF ProcessTypes
  <2>6. partial' \subseteq Collections
    <3>1. partial' = Settled(op) \/ partial' = partial \cup {op.c}
      BY <1>5 DEF Write
    <3>2. QED
      BY <1>0, <1>2, <3>1 DEF HistoryTypes, Settled
  <2>7. uncertain' \in BOOLEAN
    <3>1. uncertain' = uncertain \/ uncertain' = FALSE
      BY <1>5 DEF Write
    <3>2. QED
      BY <1>0, <3>1, Zenon DEF HistoryTypes
  <2>8. asked' \in [Collections -> BOOLEAN \X (Bindings \cup {NoBinding})]
    <3>1. Asked(req[c], op) \in BOOLEAN \X (Bindings \cup {NoBinding})
      BY <1>1, AskedType
    <3>2. QED
      BY <1>0, <2>1, <3>1, Zenon DEF HistoryTypes
  <2>9. QED
    BY <1>4, <2>2, <2>3, <2>4, <2>5, <2>6, <2>7, <2>8, TypePartsNext
       DEF StoreTypes, HistoryTypes
<1>6. CASE Refuse(c)
  <2>1. Release(c, StatusOf(store, op)) /\ log' = Append(log, op)
        /\ UNCHANGED <<store, snap, faults, asked, partial, uncertain>>
    BY <1>6 DEF Refuse, LogEntry, counts, ghost
  <2>2. HandlerTypes' /\ LockTypes'
    BY <1>0, <2>1, ReleaseTypes, Statuses
  <2>3. StoreTypes' /\ ProcessTypes' /\ HistoryTypes'
    BY <1>0, <1>1, <1>3, <2>1 DEF StoreTypes, ProcessTypes, HistoryTypes
  <2>4. QED
    BY <1>4, <2>2, <2>3, TypePartsNext
<1>7. CASE WriteFails(c)
  <2>1. /\ Release(c, StatusOfIo(req[c])) /\ log' \in {log, Append(log, op)}
        /\ uncertain' = TRUE /\ partial' = partial \cup {req[c].c}
        /\ UNCHANGED <<store, snap, asked>> /\ faults' = faults + 1
    BY <1>7 DEF WriteFails, LogEntry, Fault
  <2>2. HandlerTypes' /\ LockTypes'
    BY <1>0, <2>1, ReleaseTypes, Statuses
  <2>3. StoreTypes' /\ ProcessTypes'
    <3>1. log' \in Seq(AllOps)
      BY <1>0, <1>3, <2>1 DEF StoreTypes
    <3>2. StoreTypes'
      BY <1>0, <2>1, <3>1 DEF StoreTypes
    <3>3. ProcessTypes'
      BY <1>0, <1>1, <2>1 DEF ProcessTypes
    <3>4. QED
      BY <3>2, <3>3
  <2>4. HistoryTypes'
    BY <1>0, <1>2, <2>1, Zenon DEF HistoryTypes
  <2>5. QED
    BY <1>4, <2>2, <2>3, <2>4, TypePartsNext
<1>8. QED
  BY <1>5, <1>6, <1>7

\* A writer that is answered at once, or gets the guard with its calls.
LEMMA AcquireEffect ==
    ASSUME TypeOK, GuardInv, NEW c \in Clients, Acquire(c)
    PROVE  /\ pc[c] = "lock" /\ Free /\ req[c] \in RequestSet /\ req[c].kind \in Writers
           /\ UNCHANGED <<proc, store, log, snap, files, stop, sent, lives, faults,
                          asked, partial, uncertain>>
           /\ \/ /\ UNCHANGED <<holder, todo>>
                 /\ \E a \in Answers : Answer(c, a) /\ (a = "ok" \/ req[c].kind = "import")
              \/ /\ Goto(c, "write") /\ holder' = c
                 /\ todo' = [todo EXCEPT ![c] = Calls(req[c])]
                 /\ Calls(req[c]) \in Seq(AllOps) /\ Calls(req[c]) # <<>>
                 /\ CallsLeft(req[c], Calls(req[c]))
<1> DEFINE r == req[c]
           found == IF r.kind = "import"
                    THEN ImportCheck(store[r.c], files[r.path].file, r.cols)
                    ELSE "ok"
<1>1. /\ pc[c] = "lock" /\ Free /\ r.kind \in Writers
      /\ UNCHANGED <<proc, store, log, snap, files, stop, sent, lives, faults,
                     asked, partial, uncertain>>
  BY DEF Acquire, Writers, durable, counts, ghost
<1>2. IF found # "ok" \/ Calls(r) = <<>>
      THEN Answer(c, found) /\ UNCHANGED <<holder, todo>>
      ELSE /\ Goto(c, "write") /\ holder' = c /\ todo' = [todo EXCEPT ![c] = Calls(r)]
  BY DEF Acquire
<1>3. Handler(c)
  BY DEF GuardInv
<1>4. r \in RequestSet /\ (r.kind = "import" => AtPath(files[r.path]))
  BY <1>1, <1>3 DEF Handler
<1>5. found \in Answers /\ (found = "ok" \/ r.kind = "import")
  BY Statuses DEF Answers
<1>6. ASSUME found = "ok"
      PROVE  Calls(r) \in Seq(AllOps) /\ CallsLeft(r, Calls(r))
  <2>1. CASE r.kind = "import"
    BY <1>4, <1>6, <2>1, CallsStartImport
  <2>2. CASE r.kind # "import"
    BY <1>1, <1>4, <2>2, CallsStart
  <2>3. QED
    BY <2>1, <2>2
<1> HIDE DEF found, r
<1>7. CASE found # "ok" \/ Calls(r) = <<>>
  BY <1>1, <1>2, <1>4, <1>5, <1>7 DEF r
<1>8. CASE found = "ok" /\ Calls(r) # <<>>
  BY <1>1, <1>2, <1>4, <1>6, <1>8 DEF r
<1>9. QED
  BY <1>7, <1>8

\* Every step keeps the types.
LEMMA TypeStep ==
    ASSUME TypeOK, GuardInv, ExportInv, [Next]_vars
    PROVE  TypeOK'
<1>0. /\ HandlerTypes /\ LockTypes /\ StoreTypes /\ FileTypes /\ ProcessTypes /\ HistoryTypes
  BY TypeParts
<1>1. ASSUME NEW c \in Clients, NEW r \in RequestSet, Submit(c, r)
      PROVE  TypeOK'
  <2>1. HandlerTypes'
    BY <1>0, <1>1 DEF Submit, HandlerTypes
  <2>2. StoreTypes' /\ LockTypes'
    BY <1>0, <1>1 DEF Submit, LockTypes, StoreTypes, durable
  <2>3. FileTypes' /\ HistoryTypes'
    BY <1>0, <1>1 DEF Submit, FileTypes, HistoryTypes, ghost
  <2>4. ProcessTypes'
    BY <1>0, <1>1 DEF Submit, ProcessTypes
  <2>5. QED
    BY <2>1, <2>2, <2>3, <2>4, TypePartsNext
<1>2. ASSUME NEW c \in Clients, Admit(c) \/ ReadStep(c) \/ Respond(c)
      PROVE  TypeOK'
  <2>1. \/ \E a \in Answers : Answer(c, a)
        \/ \E l \in {"lock", "waiting", "export", "write"} : Goto(c, l)
    <3>1. CASE Admit(c)
      BY <3>1, Statuses DEF Admit
    <3>2. CASE ReadStep(c)
      BY <3>2 DEF ReadStep, Answers
    <3>3. CASE Respond(c)
      BY <3>3 DEF Respond, Answers
    <3>4. QED
      BY <1>2, <3>1, <3>2, <3>3
  <2>2. HandlerTypes'
    BY <1>0, <2>1, AnswerTypes, GotoTypes
  <2>3. UNCHANGED <<proc, store, log, snap, holder, todo, files, stop, sent, lives, faults,
                    asked, partial, uncertain>>
    BY <1>2 DEF Admit, ReadStep, Respond, durable, counts, ghost
  <2>4. StoreTypes' /\ LockTypes' /\ FileTypes'
    BY <1>0, <2>3 DEF LockTypes, StoreTypes, FileTypes
  <2>5. ProcessTypes' /\ HistoryTypes'
    BY <1>0, <2>3 DEF ProcessTypes, HistoryTypes
  <2>6. QED
    BY <2>2, <2>4, <2>5, TypePartsNext
<1>3. ASSUME NEW c \in Clients, BeginExport(c) \/ EndExport(c)
      PROVE  TypeOK'
  <2>1. UNCHANGED <<proc, store, log, snap, holder, todo, stop, sent, lives, faults,
                    asked, partial, uncertain>>
    BY <1>3 DEF BeginExport, EndExport, durable, counts, ghost
  <2>2. HandlerTypes' /\ FileTypes'
    <3>1. CASE BeginExport(c) /\ store[req[c].c] = Absent
      <4>1. Answer(c, "not_found") /\ files' = files /\ "not_found" \in Answers
        BY <3>1 DEF BeginExport, Answers
      <4>2. QED
        BY <1>0, <4>1, AnswerTypes DEF FileTypes
    <3>2. CASE BeginExport(c) /\ store[req[c].c] # Absent
      <4>1. PICK by \in SUBSET Collections :
                    files' = [files EXCEPT ![req[c].path] = [Ruined EXCEPT !.by = by]]
        BY <3>2, BeginExportFile
      <4>2. Goto(c, "export") /\ req[c].path \in Paths
        BY <3>2, BeginExportFile
      <4>3. AtPath([Ruined EXCEPT !.by = by])
        BY RuinedAtPath
      <4>4. FileTypes'
        BY <1>0, <4>1, <4>2, <4>3, FileTypesAt
      <4>5. QED
        BY <1>0, <4>2, <4>4, GotoTypes
    <3>3. CASE EndExport(c)
      <4>1. Answer(c, "ok") /\ "ok" \in Answers
        BY <3>3 DEF EndExport, Answers
      <4>2. FileTypes'
        <5>1. req[c].path \in Paths /\ (files' = files \/ \E x : AtPath(x) /\ files' = [files EXCEPT ![req[c].path] = x])
          BY <3>3, EndExportFile
        <5>2. CASE files' = files
          BY <1>0, <5>2 DEF FileTypes
        <5>3. QED
          BY <1>0, <5>1, <5>2, FileTypesAt
      <4>3. QED
        BY <1>0, <4>1, <4>2, AnswerTypes
    <3>4. QED
      BY <1>3, <3>1, <3>2, <3>3
  <2>3. StoreTypes' /\ LockTypes'
    BY <1>0, <2>1 DEF LockTypes, StoreTypes
  <2>4. ProcessTypes' /\ HistoryTypes'
    BY <1>0, <2>1 DEF ProcessTypes, HistoryTypes
  <2>5. QED
    BY <2>2, <2>3, <2>4, TypePartsNext
<1>4. ASSUME NEW c \in Clients, Acquire(c)
      PROVE  TypeOK'
  <2>1. /\ UNCHANGED <<proc, store, log, snap, files, stop, sent, lives, faults,
                       asked, partial, uncertain>>
        /\ \/ UNCHANGED <<holder, todo>> /\ \E a \in Answers : Answer(c, a)
           \/ /\ Goto(c, "write") /\ holder' = c /\ todo' = [todo EXCEPT ![c] = Calls(req[c])]
              /\ Calls(req[c]) \in Seq(AllOps)
    BY <1>4, AcquireEffect
  <2>2. HandlerTypes'
    BY <1>0, <2>1, AnswerTypes, GotoTypes
  <2>3. LockTypes'
    BY <1>0, <2>1 DEF LockTypes
  <2>4. StoreTypes' /\ FileTypes'
    BY <1>0, <2>1 DEF StoreTypes, FileTypes
  <2>5. ProcessTypes' /\ HistoryTypes'
    BY <1>0, <2>1 DEF ProcessTypes, HistoryTypes
  <2>6. QED
    BY <2>2, <2>3, <2>4, <2>5, TypePartsNext
<1>5. CASE Open
  <2>1. Recovered \in Store
    BY <1>0, ReplayedType DEF StoreTypes, Recovered
  <2>2. StoreTypes'
    BY <1>0, <1>5, <2>1 DEF Open, StoreTypes, durable
  <2>3. HandlerTypes' /\ LockTypes' /\ FileTypes'
    BY <1>0, <1>5 DEF Open, HandlerTypes, LockTypes, FileTypes, Answers
  <2>4. ProcessTypes'
    BY <1>0, <1>5 DEF Open, ProcessTypes
  <2>5. HistoryTypes'
    BY <1>0, <1>5, Zenon DEF Open, HistoryTypes
  <2>6. QED
    BY <2>2, <2>3, <2>4, <2>5, TypePartsNext
<1>6. CASE PeriodicCheckpoint \/ FinalCheckpoint
  <2>1. /\ UNCHANGED <<store, holder, pc, req, reply, todo, files, sent, lives,
                       wrote, asked, partial>>
        /\ \/ snap' = store /\ log' = <<>> /\ uncertain' = FALSE
           \/ UNCHANGED <<snap, log, uncertain>>
        /\ proc' \in {proc, "exiting"} /\ stop' \in {stop, "failed"}
        /\ faults' \in {faults, faults + 1}
    BY <1>6 DEF PeriodicCheckpoint, FinalCheckpoint, CheckpointNow, Fault, counts, durable
  <2>2. <<>> \in Seq(AllOps)
    OBVIOUS
  <2>3. StoreTypes'
    BY <1>0, <2>1, <2>2 DEF StoreTypes
  <2>4. HandlerTypes' /\ LockTypes' /\ FileTypes'
    BY <1>0, <2>1 DEF HandlerTypes, LockTypes, FileTypes
  <2>5. ProcessTypes'
    BY <1>0, <2>1 DEF ProcessTypes
  <2>6. uncertain' \in BOOLEAN
    BY <1>0, <2>1, Zenon DEF HistoryTypes
  <2>7. HistoryTypes'
    BY <1>0, <2>1, <2>6, Zenon DEF HistoryTypes
  <2>8. QED
    BY <2>3, <2>4, <2>5, <2>7, TypePartsNext
<1>7. CASE Sigterm \/ Drain
  <2>1. /\ UNCHANGED <<store, log, snap, holder, pc, req, reply, todo, files,
                       sent, lives, faults, wrote, asked, partial, uncertain>>
        /\ proc' \in {"drain_grpc", "drain_rest", "final"} /\ stop' \in {stop, "clean", "cut"}
    BY <1>7 DEF Sigterm, Drain, durable, counts, ghost
  <2>2. StoreTypes' /\ HandlerTypes' /\ LockTypes' /\ FileTypes'
    BY <1>0, <2>1 DEF HandlerTypes, LockTypes, FileTypes, StoreTypes
  <2>3. ProcessTypes' /\ HistoryTypes'
    BY <1>0, <2>1 DEF ProcessTypes, HistoryTypes
  <2>4. QED
    BY <2>2, <2>3, TypePartsNext
<1>8. CASE Exit \/ Crash
  <2>1. Halt /\ UNCHANGED <<log, snap, reply, sent, lives, faults, asked, uncertain>>
    BY <1>8 DEF Exit, Crash, durable, counts, ghost
  <2>2. EmptyStore \in Store /\ <<>> \in Seq(AllOps)
    BY DEF EmptyStore, Store
  <2>3. StoreTypes'
    BY <1>0, <2>1, <2>2 DEF Halt, StoreTypes
  <2>4. HandlerTypes'
    BY <1>0, <2>1 DEF Halt, HandlerTypes
  <2>5. LockTypes'
    BY <2>1, <2>2 DEF Halt, LockTypes
  <2>6. FileTypes'
    <3>1. CASE files' = files
      BY <1>0, <3>1 DEF FileTypes
    <3>2. CASE files' = [p \in Paths |-> IF Exporting(p) = {} THEN files[p] ELSE Ruined]
      <4>1. AtPath(Ruined)
        BY DEF AtPath, Ruined, Broken, Importable
      <4>2. \A p \in Paths : files'[p] \in {files[p], Ruined}
        BY <3>2
      <4>3. files' = [p \in Paths |-> files'[p]]
        BY <3>2
      <4>4. QED
        BY <1>0, <4>1, <4>2, <4>3 DEF FileTypes
    <3>3. QED
      BY <1>8, <3>1, <3>2 DEF Exit, Crash
  <2>7. ProcessTypes'
    BY <1>0, <1>8, <2>1 DEF ProcessTypes, Halt, Exit, Crash
  <2>8. partial' \subseteq Collections
    <3>1. CASE Exit
      BY <1>0, <3>1 DEF Exit, ghost, HistoryTypes
    <3>2. CASE Crash
      <4>1. \A d \in Clients : pc[d] = "write" => req[d].c \in Collections
        BY WriterAt
      <4>2. partial' \subseteq partial \cup {req[d].c : d \in {e \in Clients : pc[e] = "write"}}
        BY <3>2 DEF Crash
      <4>3. QED
        BY <1>0, <4>1, <4>2 DEF HistoryTypes
    <3>3. QED
      BY <1>8, <3>1, <3>2
  <2>9. HistoryTypes'
    BY <1>0, <2>1, <2>8, Zenon DEF HistoryTypes
  <2>10. QED
    BY <2>3, <2>4, <2>5, <2>6, <2>7, <2>9, TypePartsNext
<1>9. CASE UNCHANGED vars
  <2>1. StoreTypes' /\ HandlerTypes' /\ LockTypes' /\ FileTypes'
    BY <1>0, <1>9 DEF vars, durable, HandlerTypes, LockTypes, FileTypes, StoreTypes
  <2>2. ProcessTypes' /\ HistoryTypes'
    BY <1>0, <1>9 DEF vars, counts, ghost, ProcessTypes, HistoryTypes
  <2>3. QED
    BY <2>1, <2>2, TypePartsNext
<1>10. QED
  BY <1>1, <1>2, <1>3, <1>4, <1>5, <1>6, <1>7, <1>8, <1>9, GuardedTypes
     DEF Next, Guarded, Main

----------------------------------------------------------------------------
(* The guard *)

\* A handler the step is not about.
LEMMA HandlerKept ==
    ASSUME NEW d \in Clients, Handler(d),
           pc'[d] = pc[d], req'[d] = req[d], todo'[d] = todo[d],
           d \in wrote' => d \in wrote, pc[d] = "idle" \/ proc' # "down",
           holder' = d <=> holder = d, pc[d] = "export" => holder' = Nobody,
           \A p \in Paths : AtPath(files[p]) => AtPath(files'[p])
    PROVE  Handler(d)'
<1>1. pc[d] # "idle" => Up'
  BY DEF Up
<1>2. pc[d] = "lock" /\ req[d].kind = "import" => AtPath(files'[req[d].path])
  <2>1. pc[d] = "lock" /\ req[d].kind = "import" =>
           req[d].path \in Paths /\ AtPath(files[req[d].path])
    BY DEF Handler
  <2>2. QED
    BY <2>1
<1>3. QED
  BY <1>1, <1>2 DEF Handler

\* A handler that has answered.
LEMMA HandlerIdle ==
    ASSUME NEW c \in Clients, pc'[c] = "idle", todo'[c] = <<>>, holder' # c, c \notin wrote'
    PROVE  Handler(c)'
BY DEF Handler

\* An answer is for one client.
LEMMA AnswerOthers ==
    ASSUME TypeOK, NEW c \in Clients, NEW a, Answer(c, a)
    PROVE  /\ pc'[c] = "idle" /\ c \notin wrote' /\ reply' = a
           /\ \A d \in Clients : d # c => /\ pc'[d] = pc[d] /\ req'[d] = req[d]
                                          /\ d \in wrote' => d \in wrote
BY DEF Answer, TypeOK

\* Somebody who is not a writer has nothing to do and no guard.
LEMMA NotWriting ==
    ASSUME GuardInv, NEW c \in Clients, pc[c] # "write"
    PROVE  todo[c] = <<>> /\ holder # c /\ c \notin wrote
BY DEF GuardInv, Handler

\* Steps outside the guard that answer.
LEMMA AnsweredHandlers ==
    ASSUME TypeOK, GuardInv, NEW c \in Clients, pc[c] \notin {"idle", "write"},
           NEW a, Answer(c, a), UNCHANGED <<proc, holder, todo>>,
           \A p \in Paths : AtPath(files[p]) => AtPath(files'[p])
    PROVE  GuardInv'
<1>1. Handler(c)'
  BY AnswerOthers, NotWriting, HandlerIdle
<1>2. ASSUME NEW d \in Clients, d # c
      PROVE  Handler(d)'
  <2>1. Handler(d)
    BY DEF GuardInv
  <2>2. pc[d] = "idle" \/ proc' # "down"
    BY <2>1 DEF Handler, Up
  <2>3. pc[d] = "export" => holder' = Nobody
    BY <2>1 DEF Handler
  <2>4. /\ pc'[d] = pc[d] /\ req'[d] = req[d] /\ (d \in wrote' => d \in wrote)
    BY <1>2, AnswerOthers
  <2>5. QED
    BY <2>1, <2>2, <2>3, <2>4, HandlerKept
<1>3. Up' \/ holder' = Nobody
  BY DEF GuardInv, Up
<1>4. QED
  BY <1>1, <1>2, <1>3 DEF GuardInv

\* Steps of one handler that go on somewhere outside the guard.
LEMMA MovedHandlers ==
    ASSUME TypeOK, GuardInv, NEW c \in Clients, UNCHANGED <<proc, holder, todo, wrote>>,
           NEW l \in {"sent", "lock", "waiting", "export"}, pc' = [pc EXCEPT ![c] = l],
           \A d \in Clients : d # c => req'[d] = req[d],
           pc[c] # "write", Up, req'[c] \in RequestSet,
           \A p \in Paths : AtPath(files[p]) => AtPath(files'[p]),
           l = "export" => holder = Nobody /\ req'[c].kind = "export",
           l \in {"lock", "export"} /\ req'[c].kind \in {"import", "export"} =>
              req'[c].path \in Paths,
           l = "lock" /\ req'[c].kind = "import" => AtPath(files'[req'[c].path])
    PROVE  GuardInv'
<1>0. pc'[c] = l /\ \A d \in Clients : d # c => pc'[d] = pc[d]
  BY DEF TypeOK
<1>1. Handler(c)'
  <2>1. todo[c] = <<>> /\ holder # c /\ c \notin wrote
    BY NotWriting
  <2>2. Up'
    BY DEF Up
  <2>3. QED
    BY <1>0, <2>1, <2>2 DEF Handler
<1>2. ASSUME NEW d \in Clients, d # c
      PROVE  Handler(d)'
  <2>1. Handler(d)
    BY DEF GuardInv
  <2>2. pc[d] = "idle" \/ proc' # "down"
    BY DEF Up
  <2>3. pc[d] = "export" => holder' = Nobody
    BY <2>1 DEF Handler
  <2>4. /\ pc'[d] = pc[d] /\ req'[d] = req[d] /\ (d \in wrote' => d \in wrote)
    BY <1>0, <1>2
  <2>5. QED
    BY <2>1, <2>2, <2>3, <2>4, HandlerKept
<1>3. Up' \/ holder' = Nobody
  BY DEF GuardInv, Up
<1>4. QED
  BY <1>1, <1>2, <1>3 DEF GuardInv

\* Steps that do not touch a handler.
LEMMA SameHandlers ==
    ASSUME GuardInv, UNCHANGED <<holder, pc, req, todo, wrote, files>>, Up => proc' # "down"
    PROVE  GuardInv'
<1>1. ASSUME NEW d \in Clients
      PROVE  Handler(d)'
  <2>1. Handler(d)
    BY DEF GuardInv
  <2>2. pc[d] = "idle" \/ proc' # "down"
    BY <2>1 DEF Handler
  <2>3. pc[d] = "export" => holder' = Nobody
    BY <2>1 DEF Handler
  <2>4. QED
    BY <2>1, <2>2, <2>3, HandlerKept
<1>2. Up' \/ holder' = Nobody
  BY DEF GuardInv, Up
<1>3. QED
  BY <1>1, <1>2 DEF GuardInv

\* The guard is dropped.
LEMMA ReleasedHandlers ==
    ASSUME TypeOK, GuardInv, NEW c \in Clients, pc[c] = "write", NEW a, Release(c, a),
           UNCHANGED <<proc, files>>
    PROVE  GuardInv' /\ pc'[c] = "idle" /\ \A d \in Clients : pc'[d] # "write"
<1>1. /\ holder' = Nobody /\ todo'[c] = <<>> /\ \A d \in Clients : d # c => todo'[d] = todo[d]
      /\ Answer(c, a)
  BY DEF Release, TypeOK
<1>2. Handler(c)'
  BY <1>1, AnswerOthers, HandlerIdle, RequestAssumption
<1>3. holder = c /\ Nobody \notin Clients
  BY WriterAt, RequestAssumption
<1>4. ASSUME NEW d \in Clients, d # c
      PROVE  Handler(d)' /\ pc'[d] # "write"
  <2>1. Handler(d)
    BY DEF GuardInv
  <2>2. pc[d] = "idle" \/ proc' # "down"
    BY <2>1 DEF Handler, Up
  <2>3. /\ pc'[d] = pc[d] /\ req'[d] = req[d] /\ (d \in wrote' => d \in wrote)
    BY <1>1, <1>4, AnswerOthers
  <2>4. holder' = d <=> holder = d
    BY <1>1, <1>3, <1>4
  <2>5. Handler(d)'
    BY <1>1, <1>4, <2>1, <2>2, <2>3, <2>4, HandlerKept
  <2>6. pc[d] # "write"
    BY <1>3, <1>4, <2>1 DEF Handler
  <2>7. QED
    BY <2>3, <2>5, <2>6
<1>5. pc'[c] = "idle"
  BY <1>1, AnswerOthers
<1>6. QED
  BY <1>1, <1>2, <1>4, <1>5 DEF GuardInv

\* The next call, or the guard is dropped.
LEMMA AdvancedHandlers ==
    ASSUME TypeOK, GuardInv, NEW c \in Clients, pc[c] = "write", Advance(c),
           UNCHANGED <<proc, files>>
    PROVE  GuardInv'
<1>1. CASE Len(todo[c]) = 1
  <2>1. Release(c, "ok")
    BY <1>1 DEF Advance
  <2>2. QED
    BY <2>1, ReleasedHandlers
<1>2. CASE Len(todo[c]) # 1
  <2>1. /\ todo' = [todo EXCEPT ![c] = Tail(todo[c])]
        /\ wrote' = wrote \cup {c} /\ UNCHANGED <<holder, pc, req, reply>>
    BY <1>2 DEF Advance
  <2>2. todo'[c] = Tail(todo[c]) /\ \A d \in Clients : d # c => todo'[d] = todo[d]
    BY <2>1 DEF TypeOK
  <2>3. /\ holder = c /\ Up /\ req[c] \in RequestSet /\ req[c].kind \in Writers
        /\ todo[c] \in Seq(AllOps) /\ todo[c] # <<>> /\ CallsLeft(req[c], todo[c])
    BY WriterAt
  <2>4. /\ Tail(todo[c]) # <<>> /\ CallsLeft(req[c], Tail(todo[c]))
        /\ \/ req[c].kind = "import"
           \/ req[c].kind = "create" /\ Begun(req[c], Tail(todo[c]))
    BY <1>2, <2>3, CallsGoOn
  <2>5. Up'
    BY <2>3 DEF Up
  <2>6. Handler(c)'
    BY <2>1, <2>2, <2>3, <2>4, <2>5 DEF Handler
  <2>7. ASSUME NEW d \in Clients, d # c
        PROVE  Handler(d)'
    <3>1. Handler(d)
      BY DEF GuardInv
    <3>2. pc[d] = "idle" \/ proc' # "down"
      BY <2>3 DEF Up
    <3>3. pc[d] = "export" => holder' = Nobody
      BY <2>1, <3>1 DEF Handler
    <3>4. d \in wrote' => d \in wrote
      BY <2>1, <2>7
    <3>5. QED
      BY <2>1, <2>2, <2>7, <3>1, <3>2, <3>3, <3>4, HandlerKept
  <2>8. QED
    BY <2>5, <2>6, <2>7 DEF GuardInv
<1>3. QED
  BY <1>1, <1>2

\* Every step keeps the guard.
LEMMA GuardStep ==
    ASSUME TypeOK, GuardInv, ExportInv, [Next]_vars
    PROVE  GuardInv'
<1>1. ASSUME NEW c \in Clients, NEW r \in RequestSet, Submit(c, r)
      PROVE  GuardInv'
  <2>1. /\ proc = "serving" /\ pc[c] = "idle" /\ req' = [req EXCEPT ![c] = r]
        /\ pc' = [pc EXCEPT ![c] = "sent"] /\ UNCHANGED <<proc, holder, todo, files, wrote>>
    BY <1>1 DEF Submit
  <2>2. req'[c] = r /\ \A d \in Clients : d # c => req'[d] = req[d]
    BY <2>1 DEF TypeOK
  <2>3. Up
    BY <2>1 DEF Up
  <2>4. QED
    BY <2>1, <2>2, <2>3, MovedHandlers
<1>2. ASSUME NEW c \in Clients, Admit(c)
      PROVE  GuardInv'
  <2>1. pc[c] = "sent" /\ UNCHANGED <<proc, holder, todo, files>>
    BY <1>2 DEF Admit
  <2>2. req[c] \in RequestSet /\ Up
    BY <2>1 DEF GuardInv, Handler
  <2>3. CASE Answer(c, Vetted(req[c]))
    BY <2>1, <2>3, AnsweredHandlers
  <2>4. CASE Goto(c, "lock") /\ Vetted(req[c]) = "ok"
    <3>1. PathAllowed(req[c])
      BY <2>4 DEF Vetted
    <3>2. req[c].kind \in {"import", "export"} => req[c].path \in Paths
      BY <3>1 DEF PathAllowed
    <3>3. req[c].kind = "import" => AtPath(files[req[c].path])
      BY <3>1 DEF PathAllowed, TypeOK
    <3>4. pc' = [pc EXCEPT ![c] = "lock"] /\ UNCHANGED <<req, wrote>>
      BY <2>4 DEF Goto
    <3>5. QED
      BY <2>1, <2>2, <3>2, <3>3, <3>4, MovedHandlers
  <2>5. QED
    BY <1>2, <2>3, <2>4 DEF Admit
<1>3. ASSUME NEW c \in Clients, ReadStep(c)
      PROVE  GuardInv'
  <2>1. pc[c] = "lock" /\ UNCHANGED <<proc, holder, todo, files>>
    BY <1>3 DEF ReadStep
  <2>2. req[c] \in RequestSet /\ Up
    BY <2>1 DEF GuardInv, Handler
  <2>3. CASE \E a : Answer(c, a)
    BY <2>1, <2>3, AnsweredHandlers
  <2>4. CASE Goto(c, "waiting")
    <3>1. pc' = [pc EXCEPT ![c] = "waiting"] /\ UNCHANGED <<req, wrote>>
      BY <2>4 DEF Goto
    <3>2. QED
      BY <2>1, <2>2, <3>1, MovedHandlers
  <2>5. QED
    BY <1>3, <2>3, <2>4 DEF ReadStep
<1>4. ASSUME NEW c \in Clients, Respond(c)
      PROVE  GuardInv'
  <2>1. pc[c] = "waiting" /\ Answer(c, "ok") /\ UNCHANGED <<proc, holder, todo, files>>
    BY <1>4 DEF Respond
  <2>2. QED
    BY <2>1, AnsweredHandlers
<1>5. ASSUME NEW c \in Clients, BeginExport(c)
      PROVE  GuardInv'
  <2>1. /\ pc[c] = "lock" /\ req[c].kind = "export" /\ holder = Nobody
        /\ UNCHANGED <<proc, holder, todo>>
    BY <1>5 DEF BeginExport
  <2>2. req[c] \in RequestSet /\ Up
    BY <2>1 DEF GuardInv, Handler
  <2>3. CASE store[req[c].c] = Absent
    <3>1. Answer(c, "not_found") /\ UNCHANGED files
      BY <1>5, <2>3 DEF BeginExport
    <3>2. QED
      BY <2>1, <3>1, AnsweredHandlers
  <2>4. CASE store[req[c].c] # Absent
    <3>1. PICK by \in SUBSET Collections :
                  files' = [files EXCEPT ![req[c].path] = [Ruined EXCEPT !.by = by]]
      BY <1>5, <2>4, BeginExportFile
    <3>2. Goto(c, "export") /\ req[c].path \in Paths
      BY <1>5, <2>4, BeginExportFile
    <3>3. AtPath([Ruined EXCEPT !.by = by])
      BY RuinedAtPath
    <3>4. \A q \in Paths : AtPath(files[q]) => AtPath(files'[q])
      BY <3>1, <3>2, <3>3, TypeParts, FileTypesAt
    <3>5. pc' = [pc EXCEPT ![c] = "export"] /\ UNCHANGED <<req, wrote>>
      BY <3>2 DEF Goto
    <3>6. QED
      BY <2>1, <2>2, <3>2, <3>4, <3>5, MovedHandlers
  <2>5. QED
    BY <2>3, <2>4
<1>6. ASSUME NEW c \in Clients, EndExport(c)
      PROVE  GuardInv'
  <2>1. pc[c] = "export" /\ Answer(c, "ok") /\ UNCHANGED <<proc, holder, todo>>
    BY <1>6 DEF EndExport
  <2>2. \A q \in Paths : AtPath(files[q]) => AtPath(files'[q])
    BY <1>6, EndExportFile, TypeParts, FileTypesAt
  <2>3. QED
    BY <2>1, <2>2, AnsweredHandlers
<1>7. ASSUME NEW c \in Clients, Acquire(c)
      PROVE  GuardInv'
  <2>1. /\ pc[c] = "lock" /\ Free /\ req[c] \in RequestSet /\ req[c].kind \in Writers
        /\ UNCHANGED <<proc, files>>
    BY <1>7, AcquireEffect
  <2>2. CASE UNCHANGED <<holder, todo>> /\ \E a : Answer(c, a)
    BY <2>1, <2>2, AnsweredHandlers
  <2>3. CASE /\ Goto(c, "write") /\ holder' = c /\ todo' = [todo EXCEPT ![c] = Calls(req[c])]
             /\ Calls(req[c]) # <<>> /\ CallsLeft(req[c], Calls(req[c]))
    <3>1. /\ pc'[c] = "write" /\ todo'[c] = Calls(req[c]) /\ UNCHANGED <<req, wrote>>
          /\ \A d \in Clients : d # c => pc'[d] = pc[d] /\ todo'[d] = todo[d]
      BY <2>3 DEF Goto, TypeOK
    <3>2. Up /\ c \notin wrote
      BY <2>1, NotWriting DEF GuardInv, Handler
    <3>3. Up'
      BY <2>1, <3>2 DEF Up
    <3>4. Handler(c)'
      BY <2>1, <2>3, <3>1, <3>2, <3>3 DEF Handler
    <3>5. ASSUME NEW d \in Clients, d # c
          PROVE  Handler(d)'
      <4>1. Handler(d) /\ pc[d] # "export" /\ holder = Nobody
        BY <2>1 DEF GuardInv, Free
      <4>2. holder' = d <=> holder = d
        BY <2>3, <3>5, <4>1, RequestAssumption
      <4>3. proc' # "down"
        BY <3>3 DEF Up
      <4>4. QED
        BY <2>1, <3>1, <3>5, <4>1, <4>2, <4>3, HandlerKept
    <3>6. QED
      BY <3>3, <3>4, <3>5 DEF GuardInv
  <2>4. QED
    BY <1>7, <2>2, <2>3, AcquireEffect
<1>8. ASSUME NEW c \in Clients, Write(c) \/ Refuse(c) \/ WriteFails(c)
      PROVE  GuardInv'
  <2>1. pc[c] = "write" /\ UNCHANGED <<proc, files>>
    BY <1>8 DEF Write, Refuse, WriteFails
  <2>2. Advance(c) \/ \E a : Release(c, a)
    BY <1>8 DEF Write, Refuse, WriteFails
  <2>3. QED
    BY <2>1, <2>2, AdvancedHandlers, ReleasedHandlers
<1>9. CASE Open \/ PeriodicCheckpoint \/ FinalCheckpoint \/ Sigterm \/ Drain
  <2>1. UNCHANGED <<holder, pc, req, todo, wrote, files>> /\ proc' # "down"
    <3>1. CASE Open
      BY <3>1 DEF Open
    <3>2. CASE PeriodicCheckpoint \/ FinalCheckpoint
      BY <3>2 DEF PeriodicCheckpoint, FinalCheckpoint
    <3>3. CASE Sigterm \/ Drain
      BY <3>3 DEF Sigterm, Drain
    <3>4. QED
      BY <1>9, <3>1, <3>2, <3>3
  <2>2. QED
    BY <2>1, SameHandlers
<1>10. CASE Exit \/ Crash
  <2>1. Halt
    BY <1>10 DEF Exit, Crash
  <2>2. ASSUME NEW d \in Clients
        PROVE  Handler(d)'
    <3>1. pc'[d] = "idle" /\ todo'[d] = <<>> /\ holder' = Nobody /\ d \notin wrote'
      BY <2>1 DEF Halt
    <3>2. QED
      BY <3>1, HandlerIdle, RequestAssumption
  <2>3. QED
    BY <2>1, <2>2 DEF Halt, GuardInv
<1>11. CASE UNCHANGED vars
  <2>1. UNCHANGED <<holder, pc, req, todo, wrote, files, proc>>
    BY <1>11 DEF vars
  <2>2. Up => proc' # "down"
    BY <2>1 DEF Up
  <2>3. QED
    BY <2>1, <2>2, SameHandlers
<1>12. QED
  BY <1>1, <1>2, <1>3, <1>4, <1>5, <1>6, <1>7, <1>8, <1>9, <1>10, <1>11
     DEF Next, Guarded, Main

\* Nothing an export was begun from goes away before it ends: whoever changes
\* the store holds the guard.
LEMMA ExportStep ==
    ASSUME TypeOK, GuardInv, ExportInv, [Next]_vars
    PROVE  ExportInv'
<1>1. ASSUME UNCHANGED <<store, files>>,
             \A c \in Clients : pc'[c] = "export" => pc[c] = "export" /\ req'[c] = req[c]
      PROVE  ExportInv'
  BY <1>1 DEF ExportInv
<1>2. ASSUME \A c \in Clients : pc'[c] # "export"
      PROVE  ExportInv'
  BY <1>2 DEF ExportInv
<1>3. ASSUME NEW c \in Clients, NEW r \in RequestSet, Submit(c, r)
      PROVE  ExportInv'
  <2>1. /\ pc'[c] = "sent" /\ \A d \in Clients : d # c => pc'[d] = pc[d] /\ req'[d] = req[d]
        /\ UNCHANGED <<store, files>>
    BY <1>3 DEF Submit, TypeOK
  <2>2. QED
    BY <1>1, <2>1
<1>4. ASSUME NEW c \in Clients, Admit(c) \/ ReadStep(c) \/ Respond(c)
      PROVE  ExportInv'
  <2>1. UNCHANGED <<store, files>>
    BY <1>4 DEF Admit, ReadStep, Respond
  <2>2. (\E a : Answer(c, a)) \/ Goto(c, "lock") \/ Goto(c, "waiting")
    BY <1>4 DEF Admit, ReadStep, Respond
  <2>3. /\ pc'[c] # "export" /\ \A d \in Clients : d # c => pc'[d] = pc[d] /\ req'[d] = req[d]
    <3>1. CASE \E a : Answer(c, a)
      BY <3>1, AnswerOthers
    <3>2. CASE Goto(c, "lock") \/ Goto(c, "waiting")
      BY <3>2 DEF Goto, TypeOK
    <3>3. QED
      BY <2>2, <3>1, <3>2
  <2>4. QED
    BY <1>1, <2>1, <2>3
<1>5. ASSUME NEW c \in Clients, BeginExport(c)
      PROVE  ExportInv'
  <2>0. store' = store
    BY <1>5 DEF BeginExport
  <2>1. CASE store[req[c].c] = Absent
    <3>1. Answer(c, "not_found") /\ UNCHANGED files
      BY <1>5, <2>1 DEF BeginExport
    <3>2. /\ pc'[c] # "export" /\ \A d \in Clients : d # c => pc'[d] = pc[d] /\ req'[d] = req[d]
      BY <3>1, AnswerOthers
    <3>3. QED
      BY <1>1, <2>0, <3>1, <3>2
  <2>2. CASE store[req[c].c] # Absent
    <3> DEFINE p == req[c].path
    <3>1. PICK by \in SUBSET Collections :
                  /\ files' = [files EXCEPT ![p] = [Ruined EXCEPT !.by = by]]
                  /\ \A d \in by : store[d] # Absent
      BY <1>5, <2>2, BeginExportFile
    <3>2. Goto(c, "export") /\ p \in Paths
      BY <1>5, <2>2, BeginExportFile
    <3> DEFINE x == [Ruined EXCEPT !.by = by]
    <3>3. AtPath(x) /\ x.by = by
      BY RuinedAtPath
    <3>4. files'[p] = x /\ \A q \in Paths : q # p => files'[q] = files[q]
      BY <3>1, <3>2 DEF TypeOK
    <3> HIDE DEF x
    <3>5. ASSUME NEW d \in Clients, pc'[d] = "export"
          PROVE  AtPath(files'[req'[d].path]) /\ \A e \in files'[req'[d].path].by : store'[e] # Absent
      <4>1. req' = req /\ (d # c => pc[d] = "export")
        BY <3>2, <3>5 DEF Goto, TypeOK
      <4>2. CASE req[d].path = p
        BY <2>0, <3>1, <3>3, <3>4, <4>1, <4>2
      <4>3. CASE req[d].path # p
        <5>1. pc[d] = "export" /\ req[d].path \in Paths
          BY <4>1, <4>3 DEF GuardInv, Handler
        <5>2. QED
          BY <2>0, <3>4, <4>1, <4>3, <5>1 DEF ExportInv
      <4>4. QED
        BY <4>2, <4>3
    <3>6. QED
      BY <3>5 DEF ExportInv
  <2>3. QED
    BY <2>1, <2>2
<1>6. ASSUME NEW c \in Clients, EndExport(c)
      PROVE  ExportInv'
  <2>1. store' = store /\ Answer(c, "ok")
    BY <1>6 DEF EndExport
  <2>2. /\ pc'[c] # "export" /\ \A d \in Clients : d # c => pc'[d] = pc[d] /\ req'[d] = req[d]
    BY <2>1, AnswerOthers
  <2>3. CASE files' = files
    BY <1>1, <2>1, <2>2, <2>3
  <2>4. CASE Exporting(req[c].path) = {c} /\ \E x : files' = [files EXCEPT ![req[c].path] = x]
    <3>1. \A q \in Paths : q # req[c].path => files'[q] = files[q]
      BY <2>4 DEF TypeOK
    <3>2. ASSUME NEW d \in Clients, pc'[d] = "export"
          PROVE  AtPath(files'[req'[d].path]) /\ \A e \in files'[req'[d].path].by : store'[e] # Absent
      <4>1. d # c /\ pc[d] = "export" /\ req'[d] = req[d]
        BY <2>2, <3>2
      <4>2. req[d].path # req[c].path
        BY <2>4, <4>1 DEF Exporting
      <4>3. req[d].path \in Paths
        BY <4>1 DEF GuardInv, Handler
      <4>4. QED
        BY <2>1, <3>1, <4>1, <4>2, <4>3 DEF ExportInv
    <3>3. QED
      BY <3>2 DEF ExportInv
  <2>5. QED
    BY <1>6, <2>3, <2>4, EndExportFile
<1>7. ASSUME NEW c \in Clients, Acquire(c)
      PROVE  ExportInv'
  <2>1. UNCHANGED <<store, files>> /\ ((\E a : Answer(c, a)) \/ Goto(c, "write"))
    BY <1>7, AcquireEffect
  <2>2. /\ pc'[c] # "export" /\ \A d \in Clients : d # c => pc'[d] = pc[d] /\ req'[d] = req[d]
    <3>1. CASE \E a : Answer(c, a)
      BY <3>1, AnswerOthers
    <3>2. CASE Goto(c, "write")
      BY <3>2 DEF Goto, TypeOK
    <3>3. QED
      BY <2>1, <3>1, <3>2
  <2>3. QED
    BY <1>1, <2>1, <2>2
<1>8. ASSUME NEW c \in Clients, Write(c) \/ Refuse(c) \/ WriteFails(c)
      PROVE  ExportInv'
  <2>1. pc[c] = "write" /\ (Advance(c) \/ \E a : Release(c, a))
    BY <1>8 DEF Write, Refuse, WriteFails
  <2>2. holder = c /\ Nobody \notin Clients
    BY <2>1, WriterAt, RequestAssumption
  <2>3. \A d \in Clients : pc[d] # "export"
    BY <2>2 DEF GuardInv, Handler
  <2>4. \A d \in Clients : pc'[d] # "export"
    <3>1. CASE \E a : Answer(c, a)
      BY <2>3, <3>1, AnswerOthers
    <3>2. CASE pc' = pc
      BY <2>3, <3>2
    <3>3. QED
      BY <2>1, <3>1, <3>2 DEF Advance, Release
  <2>5. QED
    BY <1>2, <2>4
<1>9. CASE Open
  <2>1. \A d \in Clients : pc[d] = "idle"
    BY <1>9 DEF Open, GuardInv, Handler, Up
  <2>2. \A d \in Clients : pc'[d] # "export"
    BY <1>9, <2>1 DEF Open
  <2>3. QED
    BY <1>2, <2>2
<1>10. CASE PeriodicCheckpoint \/ FinalCheckpoint \/ Sigterm \/ Drain
  <2>1. UNCHANGED <<store, files, pc, req>>
    BY <1>10 DEF PeriodicCheckpoint, FinalCheckpoint, Sigterm, Drain
  <2>2. QED
    BY <1>1, <2>1
<1>11. CASE Exit \/ Crash
  <2>1. \A d \in Clients : pc'[d] # "export"
    BY <1>11 DEF Exit, Crash, Halt
  <2>2. QED
    BY <1>2, <2>1
<1>12. CASE UNCHANGED vars
  BY <1>1, <1>12 DEF vars
<1>13. QED
  BY <1>3, <1>4, <1>5, <1>6, <1>7, <1>8, <1>9, <1>10, <1>11, <1>12
     DEF Next, Guarded, Main

----------------------------------------------------------------------------
(* Memory and disk *)

\* An entry more in the log.
LEMMA LogGrows ==
    ASSUME TypeOK, NEW op \in AllOps, log' = Append(log, op), snap' = snap
    PROVE  Recovered' = ApplyLive(Recovered, op)
<1>1. Replayed(snap, Append(log, op)) = ApplyLive(Replayed(snap, log), op)
  BY ReplayedAppend DEF TypeOK
<1>2. QED
  BY <1>1 DEF Recovered

\* A checkpoint.
LEMMA LogEmptied ==
    ASSUME NEW s \in Store, snap' = s, log' = <<>>
    PROVE  Recovered' = s
BY ReplayedEmpty DEF Recovered

\* What the three steps inside the guard do to memory and disk.
LEMMA GuardedEffect ==
    ASSUME TypeOK, GuardInv, NEW c \in Clients
    PROVE  LET op == todo[c][1]
           IN  /\ Write(c) =>
                     /\ store' = ApplyLive(store, op) /\ store' \in Store
                     /\ \/ Recovered' = ApplyLive(Recovered, op) /\ uncertain' = uncertain
                        \/ Recovered' = store' /\ uncertain' = FALSE
               /\ Refuse(c) => store' = store /\ Recovered' = ApplyLive(Recovered, op)
               /\ WriteFails(c) => /\ store' = store
                                   /\ Recovered' \in {Recovered, ApplyLive(Recovered, op)}
<1> DEFINE op == todo[c][1]
<1>1. SUFFICES ASSUME pc[c] = "write"
               PROVE  /\ Write(c) =>
                            /\ store' = ApplyLive(store, op) /\ store' \in Store
                            /\ \/ Recovered' = ApplyLive(Recovered, op) /\ uncertain' = uncertain
                               \/ Recovered' = store' /\ uncertain' = FALSE
                      /\ Refuse(c) => store' = store /\ Recovered' = ApplyLive(Recovered, op)
                      /\ WriteFails(c) => /\ store' = store
                                          /\ Recovered' \in {Recovered, ApplyLive(Recovered, op)}
  BY DEF Write, Refuse, WriteFails
<1>2. op \in AllOps
  BY <1>1, WriterAt
<1>3. ASSUME Write(c)
      PROVE  /\ store' = ApplyLive(store, op) /\ store' \in Store
             /\ \/ Recovered' = ApplyLive(Recovered, op) /\ uncertain' = uncertain
                \/ Recovered' = store' /\ uncertain' = FALSE
  <2>1. store' = ApplyLive(store, op)
    BY <1>3 DEF Write
  <2>2. store' \in Store
    BY <1>2, <2>1, ApplyLiveType DEF TypeOK
  <2>3. \/ log' = Append(log, op) /\ snap' = snap /\ uncertain' = uncertain
        \/ snap' = store' /\ log' = <<>> /\ uncertain' = FALSE
    BY <1>3 DEF Write, LogEntry
  <2>4. CASE log' = Append(log, op) /\ snap' = snap /\ uncertain' = uncertain
    BY <1>2, <2>1, <2>2, <2>4, LogGrows
  <2>5. CASE snap' = store' /\ log' = <<>> /\ uncertain' = FALSE
    BY <2>1, <2>2, <2>5, LogEmptied
  <2>6. QED
    BY <2>3, <2>4, <2>5
<1>4. ASSUME Refuse(c)
      PROVE  store' = store /\ Recovered' = ApplyLive(Recovered, op)
  <2>1. store' = store /\ log' = Append(log, op) /\ snap' = snap
    BY <1>4 DEF Refuse, LogEntry
  <2>2. QED
    BY <1>2, <2>1, LogGrows
<1>5. ASSUME WriteFails(c)
      PROVE  store' = store /\ Recovered' \in {Recovered, ApplyLive(Recovered, op)}
  <2>1. store' = store /\ log' \in {log, Append(log, op)} /\ snap' = snap
    BY <1>5 DEF WriteFails, LogEntry
  <2>2. CASE log' = log
    BY <2>1, <2>2 DEF Recovered
  <2>3. CASE log' = Append(log, op)
    BY <1>2, <2>1, <2>3, LogGrows
  <2>4. QED
    BY <2>1, <2>2, <2>3
<1>6. QED
  BY <1>3, <1>4, <1>5

\* The steps that touch neither memory nor disk.
Outside ==
    \/ \E c \in Clients, r \in RequestSet : Submit(c, r)
    \/ \E c \in Clients : \/ Admit(c) \/ ReadStep(c) \/ Respond(c) \/ BeginExport(c)
                          \/ Acquire(c) \/ EndExport(c)
    \/ Sigterm \/ Drain

\* ... leave the log, the store and what is known of them alone.
LEMMA OutsideEffect ==
    ASSUME Outside
    PROVE  /\ UNCHANGED <<store, log, snap, asked, partial, uncertain>>
           /\ Recovered' = Recovered /\ (Up' => Up)
<1>1. ASSUME NEW c \in Clients, NEW r \in RequestSet, Submit(c, r)
      PROVE  UNCHANGED <<proc, store, log, snap, asked, partial, uncertain>>
  BY <1>1 DEF Submit, durable, ghost
<1>2. ASSUME NEW c \in Clients,
             Admit(c) \/ ReadStep(c) \/ Respond(c) \/ BeginExport(c) \/ Acquire(c) \/ EndExport(c)
      PROVE  UNCHANGED <<proc, store, log, snap, asked, partial, uncertain>>
  BY <1>2 DEF Admit, ReadStep, Respond, BeginExport, Acquire, EndExport, durable, ghost
<1>3. ASSUME Sigterm \/ Drain
      PROVE  UNCHANGED <<store, log, snap, asked, partial, uncertain>> /\ Up
  BY <1>3 DEF Sigterm, Drain, durable, ghost, Up
<1>4. /\ UNCHANGED <<store, log, snap, asked, partial, uncertain>>
      /\ proc' = proc \/ Up
  BY <1>1, <1>2, <1>3 DEF Outside
<1>5. QED
  BY <1>4 DEF Recovered, Up

\* Memory and disk agree after every call unless one has failed.
LEMMA DiskStep ==
    ASSUME TypeOK, GuardInv, DiskInv, [Next]_vars
    PROVE  DiskInv'
<1>1. CASE Outside
  BY <1>1, OutsideEffect DEF DiskInv
<1>2. ASSUME NEW c \in Clients, Write(c)
      PROVE  DiskInv'
  <2>1. proc' = proc
    BY <1>2 DEF Write
  <2>2. CASE Recovered' = store'
    BY <2>2 DEF DiskInv
  <2>3. CASE Recovered' = ApplyLive(Recovered, todo[c][1]) /\ uncertain' = uncertain
    <3>1. store' = ApplyLive(store, todo[c][1])
      BY <1>2, GuardedEffect
    <3>2. QED
      BY <2>1, <2>3, <3>1 DEF DiskInv, Up
  <2>4. QED
    BY <1>2, <2>2, <2>3, GuardedEffect
<1>3. ASSUME NEW c \in Clients, Refuse(c)
      PROVE  DiskInv'
  <2>1. proc' = proc /\ uncertain' = uncertain /\ ~Accepts(store, todo[c][1])
    BY <1>3 DEF Refuse, ghost
  <2>2. store' = store /\ Recovered' = ApplyLive(Recovered, todo[c][1])
    BY <1>3, GuardedEffect
  <2>3. ApplyLive(store, todo[c][1]) = store
    BY <2>1 DEF ApplyLive
  <2>4. QED
    BY <2>1, <2>2, <2>3 DEF DiskInv, Up
<1>4. ASSUME NEW c \in Clients, WriteFails(c)
      PROVE  DiskInv'
  BY <1>4 DEF WriteFails, DiskInv
<1>5. CASE Open
  BY <1>5 DEF Open, DiskInv, Recovered, durable
<1>6. CASE PeriodicCheckpoint \/ FinalCheckpoint
  <2>1. CASE CheckpointNow /\ store' = store
    <3>1. store \in Store
      BY DEF TypeOK
    <3>2. Recovered' = store
      BY <2>1, <3>1, LogEmptied DEF CheckpointNow
    <3>3. QED
      BY <2>1, <3>2 DEF DiskInv
  <2>2. CASE UNCHANGED <<store, log, snap, uncertain>> /\ Up
    BY <2>2 DEF DiskInv, Recovered
  <2>3. QED
    BY <1>6, <2>1, <2>2 DEF PeriodicCheckpoint, FinalCheckpoint, durable, Up
<1>7. CASE Exit \/ Crash
  BY <1>7 DEF Exit, Crash, Halt, DiskInv, Up
<1>8. CASE UNCHANGED vars
  BY <1>8 DEF vars, durable, ghost, DiskInv, Up, Recovered
<1>9. QED
  BY <1>1, <1>2, <1>3, <1>4, <1>5, <1>6, <1>7, <1>8 DEF Next, Guarded, Main, Outside

----------------------------------------------------------------------------
(* The shutdown *)

\* Whoever is at work is in flight on one of the two servers.
LEMMA InFlightOn ==
    ASSUME GuardInv, NEW c \in Clients, pc[c] # "idle"
    PROVE  c \in InFlight("grpc") \/ c \in InFlight("rest")
<1>1. req[c] \in RequestSet
  BY DEF GuardInv, Handler
<1>2. QED
  BY <1>1, RequestAssumption DEF InFlight

\* With nobody new, nobody is in flight who was not.
LEMMA StillDrained ==
    ASSUME CleanInv, UNCHANGED <<proc, stop>>, proc # "down",
           proc \in {"final", "exiting"} => log' = log \/ \E c \in Clients : pc[c] # "idle",
           \A c \in Clients : pc'[c] # "idle" =>
              \/ pc[c] # "idle" /\ req'[c] = req[c]
              \/ proc = "serving"
    PROVE  CleanInv'
<1>1. SUFFICES ASSUME stop = "clean"
               PROVE  /\ proc = "drain_rest" => InFlight("grpc")' = {}
                      /\ proc \in {"final", "exiting"} => \A c \in Clients : pc'[c] = "idle"
                      /\ proc \in {"exiting", "down"} => log' = <<>>
  BY DEF CleanInv
<1>2. proc = "drain_rest" => InFlight("grpc")' = {}
  BY <1>1 DEF CleanInv, InFlight
<1>3. proc \in {"final", "exiting"} => \A c \in Clients : pc'[c] = "idle"
  BY <1>1 DEF CleanInv
<1>4. proc \in {"exiting", "down"} => log' = <<>>
  BY <1>1 DEF CleanInv
<1>5. QED
  BY <1>2, <1>3, <1>4

\* A clean shutdown stays clean.
LEMMA CleanStep ==
    ASSUME TypeOK, GuardInv, CleanInv, [Next]_vars
    PROVE  CleanInv'
<1>1. ASSUME NEW c \in Clients, NEW r \in RequestSet, Submit(c, r)
      PROVE  CleanInv'
  <2>1. proc = "serving" /\ UNCHANGED <<proc, stop>>
    BY <1>1 DEF Submit
  <2>2. QED
    BY <2>1, StillDrained
<1>2. ASSUME NEW c \in Clients,
             \/ Admit(c) \/ ReadStep(c) \/ Respond(c) \/ BeginExport(c) \/ Acquire(c)
             \/ Write(c) \/ Refuse(c) \/ WriteFails(c) \/ EndExport(c)
      PROVE  CleanInv'
  <2>1. UNCHANGED <<proc, stop>>
    BY <1>2 DEF Admit, ReadStep, Respond, BeginExport, Acquire, Write, Refuse, WriteFails, EndExport
  <2>2. pc[c] # "idle"
    BY <1>2 DEF Admit, ReadStep, Respond, BeginExport, Acquire, Write, Refuse, WriteFails, EndExport
  <2>3. proc # "down"
    BY <2>2 DEF GuardInv, Handler, Up
  <2>4. \/ \E a : Answer(c, a)
        \/ \E l : Goto(c, l)
        \/ UNCHANGED <<pc, req>>
    BY <1>2 DEF Admit, ReadStep, Respond, BeginExport, Acquire, Write, Refuse, WriteFails,
                EndExport, Advance, Release
  <2>5. \A d \in Clients : pc'[d] # "idle" => pc[d] # "idle" /\ req'[d] = req[d]
    <3>1. CASE \E a : Answer(c, a)
      BY <3>1, AnswerOthers
    <3>2. CASE \E l : Goto(c, l)
      BY <2>2, <3>2 DEF Goto, TypeOK
    <3>3. CASE UNCHANGED <<pc, req>>
      BY <3>3
    <3>4. QED
      BY <2>4, <3>1, <3>2, <3>3
  <2>6. QED
    BY <2>1, <2>2, <2>3, <2>5, StillDrained
<1>3. CASE Open
  BY <1>3 DEF Open, CleanInv
<1>4. CASE PeriodicCheckpoint
  <2>1. proc = "serving" /\ UNCHANGED <<proc, stop, pc, req>>
    BY <1>4 DEF PeriodicCheckpoint
  <2>2. QED
    BY <2>1, StillDrained
<1>5. CASE Sigterm
  BY <1>5 DEF Sigterm, CleanInv
<1>6. CASE Drain
  <2>1. SUFFICES ASSUME stop' = "clean"
                 PROVE  CleanInv'
    BY DEF CleanInv
  <2>2. UNCHANGED <<pc, req, stop>>
    BY <1>6, <2>1 DEF Drain
  <2>3. \/ proc' = "drain_rest" /\ InFlight("grpc") = {}
        \/ proc = "drain_rest" /\ proc' = "final" /\ InFlight("rest") = {}
    BY <1>6, <2>1 DEF Drain, Drained
  <2>4. CASE proc' = "drain_rest" /\ InFlight("grpc") = {}
    BY <2>2, <2>4 DEF CleanInv, InFlight
  <2>5. CASE proc = "drain_rest" /\ proc' = "final" /\ InFlight("rest") = {}
    <3>1. InFlight("grpc") = {}
      BY <2>1, <2>2, <2>5 DEF CleanInv
    <3>2. \A c \in Clients : pc[c] = "idle"
      BY <2>5, <3>1, InFlightOn
    <3>3. QED
      BY <2>2, <2>5, <3>2 DEF CleanInv
  <2>6. QED
    BY <2>3, <2>4, <2>5
<1>7. CASE FinalCheckpoint
  <2>1. proc = "final" /\ proc' = "exiting" /\ pc' = pc
    BY <1>7 DEF FinalCheckpoint
  <2>2. (stop' = stop /\ log' = <<>>) \/ stop' = "failed"
    BY <1>7 DEF FinalCheckpoint, CheckpointNow
  <2>3. QED
    BY <2>1, <2>2 DEF CleanInv
<1>8. CASE Exit
  BY <1>8 DEF Exit, Halt, CleanInv, durable
<1>9. CASE Crash
  BY <1>9 DEF Crash, CleanInv
<1>10. CASE UNCHANGED vars
  BY <1>10 DEF vars, durable, CleanInv, InFlight
<1>11. QED
  BY <1>1, <1>2, <1>3, <1>4, <1>5, <1>6, <1>7, <1>8, <1>9, <1>10 DEF Next, Guarded, Main

----------------------------------------------------------------------------
(* The options of a collection *)

AcceptsAt(col, op) ==
    /\ op.kind = "create" <=> col = Absent
    /\ op.kind = "insert" => op.vec # BadVec

\* An operation, as its collection sees it.
After(col, op) == IF AcceptsAt(col, op) THEN CollectionAfter(col, op) ELSE col

\* ApplyLive changes the one collection of the operation.
LEMMA ApplyAt ==
    ASSUME NEW s \in Store, NEW op \in AllOps
    PROVE  /\ Accepts(s, op) <=> AcceptsAt(s[op.c], op)
           /\ ApplyLive(s, op)[op.c] = After(s[op.c], op)
           /\ \A y \in Collections : y # op.c => ApplyLive(s, op)[y] = s[y]
<1>1. op.c \in Collections
  BY OpCollection
<1>2. Accepts(s, op) <=> AcceptsAt(s[op.c], op)
  BY DEF Accepts, AcceptsAt
<1>3. CASE Accepts(s, op)
  <2>1. ApplyLive(s, op) = [s EXCEPT ![op.c] = CollectionAfter(s[op.c], op)]
    BY <1>3 DEF ApplyLive
  <2>2. QED
    BY <1>1, <1>2, <1>3, <2>1 DEF After, Store
<1>4. CASE ~Accepts(s, op)
  BY <1>2, <1>4 DEF ApplyLive, After
<1>5. QED
  BY <1>2, <1>3, <1>4

\* What an accepted operation does to the options.
LEMMA OptionsAfter ==
    ASSUME NEW col \in Collection \cup {Absent}, NEW op \in AllOps, AcceptsAt(col, op)
    PROVE  LET new == After(col, op)
           IN  /\ new = Absent <=> op.kind = "drop"
               /\ op.kind = "create" => OptionsOf(new) = NoOptions
               /\ op.kind = "enable_fts" => OptionsOf(new) = <<TRUE, col.binding>>
               /\ op.kind = "bind" => OptionsOf(new) = <<col.fts, op.binding>>
               /\ op.kind \in {"insert", "delete"} => OptionsOf(new) = OptionsOf(col)
<1> DEFINE new == CollectionAfter(col, op)
<1>0. After(col, op) = new
  BY DEF After
<1>1. Absent \notin Collection
  BY AbsentAssumption
<1>2. CASE op \in CreateOps
  <2>1. new = NewCollection /\ op.kind = "create"
    BY <1>2 DEF CollectionAfter, CreateOps
  <2>2. NewCollection \in Collection
    BY DEF NewCollection, Collection
  <2>3. OptionsOf(NewCollection) = NoOptions /\ NewCollection # Absent
    BY <1>1, <2>2 DEF OptionsOf, NoOptions, NewCollection
  <2> HIDE DEF new
  <2>4. QED
    BY <1>0, <2>1, <2>3
<1>3. CASE op \in DropOps
  <2>1. new = Absent /\ op.kind = "drop"
    BY <1>3 DEF CollectionAfter, DropOps
  <2>2. QED
    BY <1>0, <2>1
<1>4. ASSUME op \notin CreateOps
      PROVE  col \in Collection
  BY <1>4 DEF AllOps, DropOps, InsertOps, DeleteOps, EnableOps, BindOps, AcceptsAt
<1>5. CASE op \in InsertOps
  <2>1. /\ op.kind = "insert" /\ col \in Collection
        /\ new = [col EXCEPT !.rows[op.id] = UpsertRow(col.rows[op.id], op.vec, op.pay)]
    BY <1>4, <1>5 DEF CollectionAfter, InsertOps, CreateOps
  <2>2. new.fts = col.fts /\ new.binding = col.binding
    BY <2>1 DEF Collection
  <2>3. new \in Collection \cup {Absent}
    BY <2>1, CollectionAfterType DEF AcceptsAt
  <2>4. new # Absent
    <3>1. op.vec \in Vecs /\ op.id \in Ids /\ op.pay \in Payloads \cup {NoPayload}
      BY <1>5, <2>1 DEF InsertOps, AcceptsAt
    <3>2. col.rows \in [Ids -> Row \cup {NoRow}] /\ col.rows[op.id] \in Row \cup {NoRow}
      BY <2>1, <3>1 DEF Collection
    <3>3. UpsertRow(col.rows[op.id], op.vec, op.pay) \in Row
      BY <3>1, <3>2 DEF UpsertRow, Row
    <3>4. new \in Collection
      BY <2>1, <3>1, <3>2, <3>3 DEF Collection
    <3>5. QED
      BY <1>1, <3>4
  <2>5. QED
    BY <1>0, <2>1, <2>2, <2>4 DEF OptionsOf
<1>6. CASE op \in DeleteOps
  <2>1. /\ op.kind = "delete" /\ col \in Collection
        /\ new = [col EXCEPT !.rows[op.id] = NoRow]
    BY <1>4, <1>6 DEF CollectionAfter, DeleteOps, CreateOps
  <2>2. new.fts = col.fts /\ new.binding = col.binding /\ new \in Collection
    BY <2>1 DEF Collection
  <2>3. QED
    BY <1>0, <1>1, <2>1, <2>2 DEF OptionsOf
<1>7. CASE op \in EnableOps
  <2>1. op.kind = "enable_fts" /\ col \in Collection /\ new = [col EXCEPT !.fts = TRUE]
    BY <1>4, <1>7 DEF CollectionAfter, EnableOps, CreateOps
  <2>2. new.fts = TRUE /\ new.binding = col.binding
    BY <2>1 DEF Collection
  <2>3. new \in Collection
    BY <2>1 DEF Collection
  <2>4. QED
    BY <1>0, <1>1, <2>1, <2>2, <2>3 DEF OptionsOf
<1>8. CASE op \in BindOps
  <2>1. /\ op.kind = "bind" /\ col \in Collection /\ new = [col EXCEPT !.binding = op.binding]
        /\ op.binding \in Bindings
    BY <1>4, <1>8 DEF CollectionAfter, BindOps, CreateOps
  <2>2. new.fts = col.fts /\ new.binding = op.binding /\ new \in Collection
    BY <2>1 DEF Collection
  <2>3. QED
    BY <1>0, <1>1, <2>1, <2>2 DEF OptionsOf
<1>9. QED
  BY <1>2, <1>3, <1>5, <1>6, <1>7, <1>8 DEF AllOps

\* The six kinds of operation.
LEMMA OpKinds ==
    ASSUME NEW op \in AllOps
    PROVE  op.kind \in {"create", "drop", "insert", "delete", "enable_fts", "bind"}
BY DEF AllOps, CreateOps, DropOps, InsertOps, DeleteOps, EnableOps, BindOps

\* A call memory accepts: a create or a drop settles what was left open.
LEMMA AcceptedStep ==
    ASSUME NEW m \in Collection \cup {Absent}, NEW d \in Collection \cup {Absent},
           NEW op \in AllOps, NEW part \in BOOLEAN, Agree(m, d, part), AcceptsAt(m, op)
    PROVE  Agree(After(m, op), After(d, op), part /\ op.kind \notin {"create", "drop"})
<1> DEFINE m1 == After(m, op)
           d1 == After(d, op)
<1>1. /\ m1 = Absent <=> op.kind = "drop"
      /\ op.kind = "create" => OptionsOf(m1) = NoOptions
      /\ op.kind = "enable_fts" => OptionsOf(m1) = <<TRUE, m.binding>>
      /\ op.kind = "bind" => OptionsOf(m1) = <<m.fts, op.binding>>
      /\ op.kind \in {"insert", "delete"} => OptionsOf(m1) = OptionsOf(m)
  BY OptionsAfter
<1>2. AcceptsAt(d, op) =>
         /\ d1 = Absent <=> op.kind = "drop"
         /\ op.kind = "create" => OptionsOf(d1) = NoOptions
         /\ op.kind = "enable_fts" => OptionsOf(d1) = <<TRUE, d.binding>>
         /\ op.kind = "bind" => OptionsOf(d1) = <<d.fts, op.binding>>
         /\ op.kind \in {"insert", "delete"} => OptionsOf(d1) = OptionsOf(d)
  BY OptionsAfter
<1>3. ~AcceptsAt(d, op) => d1 = d
  BY DEF After
<1>4. /\ op.kind = "create" <=> m = Absent
      /\ AcceptsAt(d, op) <=> (op.kind = "create" <=> d = Absent)
  BY DEF AcceptsAt
<1>5. OptionsOf(m) = OptionsOf(d) => m.fts = d.fts /\ m.binding = d.binding
  BY DEF OptionsOf
<1>6. /\ m = Absent => d = Absent \/ OptionsOf(d) = NoOptions
      /\ ~part => /\ m = Absent <=> d = Absent
                  /\ d # Absent => OptionsOf(m) = OptionsOf(d)
  BY DEF Agree
<1> HIDE DEF m1, d1
<1>7. CASE op.kind = "create"
  <2>1. m1 # Absent /\ OptionsOf(m1) = NoOptions /\ d1 # Absent /\ OptionsOf(d1) = NoOptions
    BY <1>1, <1>2, <1>3, <1>4, <1>6, <1>7
  <2>2. QED
    BY <2>1 DEF Agree, m1, d1
<1>8. CASE op.kind = "drop"
  <2>1. m1 = Absent /\ d1 = Absent
    BY <1>1, <1>2, <1>3, <1>4, <1>8
  <2>2. QED
    BY <2>1 DEF Agree, m1, d1
<1>9. CASE op.kind \in {"insert", "delete", "enable_fts", "bind"}
  <2>1. m # Absent /\ m1 # Absent
    BY <1>1, <1>4, <1>9
  <2>2. ASSUME ~part
        PROVE  d1 # Absent /\ OptionsOf(m1) = OptionsOf(d1)
    <3>1. d # Absent /\ OptionsOf(m) = OptionsOf(d) /\ AcceptsAt(d, op)
      BY <1>4, <1>6, <1>9, <2>1, <2>2
    <3>2. QED
      BY <1>1, <1>2, <1>5, <1>9, <3>1
  <2>3. QED
    BY <1>9, <2>1, <2>2 DEF Agree, m1, d1
<1>10. QED
  BY <1>7, <1>8, <1>9, OpKinds

\* A call memory refuses is in the log all the same.  It brings no options, and
\* nothing at all where memory and disk were known to agree.
LEMMA RefusedStep ==
    ASSUME NEW m \in Collection \cup {Absent}, NEW d \in Collection \cup {Absent},
           NEW op \in AllOps, NEW part \in BOOLEAN, Agree(m, d, part), ~AcceptsAt(m, op),
           op.kind \notin {"enable_fts", "bind"}
    PROVE  Agree(m, After(d, op), part) /\ (~part => After(d, op) = d)
<1> DEFINE d1 == After(d, op)
<1>1. AcceptsAt(d, op) =>
         /\ d1 = Absent <=> op.kind = "drop"
         /\ op.kind = "create" => OptionsOf(d1) = NoOptions
         /\ op.kind \in {"insert", "delete"} => OptionsOf(d1) = OptionsOf(d)
  BY OptionsAfter
<1>2. ~AcceptsAt(d, op) => d1 = d
  BY DEF After
<1>3. /\ m = Absent => d = Absent \/ OptionsOf(d) = NoOptions
      /\ ~part => /\ m = Absent <=> d = Absent
                  /\ d # Absent => OptionsOf(m) = OptionsOf(d)
  BY DEF Agree
<1>4. op.kind \in {"create", "drop", "insert", "delete"}
  BY OpKinds
<1>5. ~part => ~AcceptsAt(d, op)
  BY <1>3 DEF AcceptsAt
<1>6. AcceptsAt(d, op) => (op.kind = "create" <=> d = Absent)
  BY DEF AcceptsAt
<1> HIDE DEF d1
<1>7. m = Absent => d1 = Absent \/ OptionsOf(d1) = NoOptions
  BY <1>1, <1>2, <1>3, <1>4, <1>6
<1>8. QED
  BY <1>2, <1>3, <1>5, <1>7 DEF Agree, d1

\* A call that fails leaves the collection partly done.
LEMMA FailedStep ==
    ASSUME NEW m \in Collection \cup {Absent}, NEW d \in Collection \cup {Absent},
           NEW op \in AllOps, NEW part \in BOOLEAN, Agree(m, d, part),
           op.kind \in {"enable_fts", "bind"} => m # Absent
    PROVE  Agree(m, d, TRUE) /\ Agree(m, After(d, op), TRUE)
<1> DEFINE d1 == After(d, op)
<1>1. AcceptsAt(d, op) =>
         /\ d1 = Absent <=> op.kind = "drop"
         /\ op.kind = "create" => OptionsOf(d1) = NoOptions
         /\ op.kind \in {"insert", "delete"} => OptionsOf(d1) = OptionsOf(d)
  BY OptionsAfter
<1>2. ~AcceptsAt(d, op) => d1 = d
  BY DEF After
<1>3. m = Absent => d = Absent \/ OptionsOf(d) = NoOptions
  BY DEF Agree
<1>4. AcceptsAt(d, op) => (op.kind = "create" <=> d = Absent)
  BY DEF AcceptsAt
<1> HIDE DEF d1
<1>5. m = Absent => d1 = Absent \/ OptionsOf(d1) = NoOptions
  BY <1>1, <1>2, <1>3, <1>4, OpKinds
<1>6. QED
  BY <1>3, <1>5 DEF Agree, d1

\* Whoever is creating holds the guard.
LEMMA Creators ==
    ASSUME TypeOK, GuardInv, NEW d \in Clients, NEW x, Creating(d, x)
    PROVE  holder = d /\ holder # Nobody /\ x = req[d].c /\ pc[d] = "write"
BY RequestAssumption DEF Creating, GuardInv, Handler

\* The call a writer is at tells how far its request has come.
LEMMA CallKinds ==
    ASSUME TypeOK, GuardInv, NEW c \in Clients, pc[c] = "write"
    PROVE  LET r == req[c]
               t == todo[c]
           IN  \/ r.kind # "create" /\ t[1].kind \in {"drop", "insert", "delete"}
               \/ r.kind = "create" /\ Fresh(r, t) /\ t[1].kind = "create" /\ ~Begun(r, t)
               \/ r.kind = "create" /\ Created(r, t) /\ t[1].kind = "enable_fts"
               \/ /\ r.kind = "create" /\ Searchable(r, t)
                  /\ t[1].kind = "bind" /\ t[1].binding = r.binding
<1> DEFINE r == req[c]
           t == todo[c]
<1>1. /\ r \in RequestSet /\ r.kind \in Writers /\ t \in Seq(AllOps) /\ t # <<>>
      /\ CallsLeft(r, t)
  BY WriterAt
<1> HIDE DEF r, t
<1>2. CASE r.kind # "create"
  <2>1. t[1].kind = IF r.kind = "import" THEN "insert" ELSE r.kind
    BY <1>1, <1>2, NextCall
  <2>2. QED
    BY <1>1, <1>2, <2>1 DEF Writers, r, t
<1>3. CASE r.kind = "create"
  <2>1. /\ CreateOp(r).kind = "create" /\ EnableOp(r).kind = "enable_fts"
        /\ BindOp(r).kind = "bind" /\ BindOp(r).binding = r.binding
    BY <1>1, <1>3, CreateOps3
  <2>2. Created(r, t) => t[1] = EnableOp(r)
    BY <1>1, <1>3, CreatedCalls
  <2>3. Searchable(r, t) => t[1] = BindOp(r)
    BY <1>1, <1>3, SearchableCalls
  <2>4. Fresh(r, t) => t[1] = CreateOp(r)
    BY <1>1, <1>3, FreshCalls
  <2>5. Fresh(r, t) \/ Created(r, t) \/ Searchable(r, t)
    BY <1>1, <1>3 DEF CallsLeft, Begun
  <2>6. QED
    BY <1>3, <2>1, <2>2, <2>3, <2>4, <2>5 DEF Begun, r, t
<1>4. QED
  BY <1>2, <1>3

\* What a collection nobody is creating has to satisfy after a step.
LEMMA OptionsKept ==
    ASSUME NEW x \in Collections, \A d \in Clients : ~Creating(d, x)',
           Up' => Agree(store'[x], Recovered'[x], x \in partial'),
           x \notin partial' /\ Recovered'[x] # Absent => OptionsOf(Recovered'[x]) = asked'[x]
    PROVE  CollectionOptions(x)'
BY Zenon DEF CollectionOptions

\* A collection the step is not about: it may be written to the snapshot, read
\* back at the start, or be forgotten with the rest of memory.
LEMMA OptionsCalm ==
    ASSUME NEW x \in Collections, CollectionOptions(x),
           \A d \in Clients : ~Creating(d, x), \A d \in Clients : ~Creating(d, x)',
           asked'[x] = asked[x], x \in partial => x \in partial',
           Recovered'[x] = Recovered[x] \/ (Up /\ Recovered'[x] = store[x]),
           ~Up' \/ (Up /\ store'[x] = store[x]) \/ store'[x] = Recovered'[x]
    PROVE  CollectionOptions(x)'
<1>1. Up => Agree(store[x], Recovered[x], x \in partial)
  BY DEF CollectionOptions
<1>2. Up' => Agree(store'[x], Recovered'[x], x \in partial')
  BY <1>1 DEF Agree
<1>3. ASSUME x \notin partial', Recovered'[x] # Absent
      PROVE  OptionsOf(Recovered'[x]) = asked'[x]
  <2>1. Recovered[x] # Absent /\ OptionsOf(Recovered[x]) = OptionsOf(Recovered'[x])
    BY <1>1, <1>3 DEF Agree
  <2>2. OptionsOf(Recovered[x]) = asked[x]
    BY <1>3, <2>1 DEF CollectionOptions
  <2>3. QED
    BY <2>1, <2>2
<1>4. QED
  BY <1>2, <1>3, OptionsKept

\* What memory says of a collection that is not partly done.
LEMMA MemoryOptions ==
    ASSUME NEW x \in Collections, CollectionOptions(x), Up, x \notin partial, store[x] # Absent
    PROVE  \/ OptionsOf(store[x]) = asked[x] /\ \A d \in Clients : ~Creating(d, x)
           \/ \E d \in Clients : /\ Creating(d, x)
                                 /\ OptionsOf(store[x]) = SoFar(req[d], todo[d])
<1>1. Recovered[x] # Absent /\ OptionsOf(store[x]) = OptionsOf(Recovered[x])
  BY DEF CollectionOptions, Agree
<1>2. QED
  BY <1>1 DEF CollectionOptions

\* The steps outside the guard neither start a creation nor end one.
LEMMA OutsideCreators ==
    ASSUME TypeOK, GuardInv, Outside, NEW d \in Clients, NEW x
    PROVE  /\ Creating(d, x)' <=> Creating(d, x)
           /\ Creating(d, x) => req'[d] = req[d] /\ todo'[d] = todo[d]
<1>1. CASE pc'[d] = pc[d] /\ req'[d] = req[d] /\ todo'[d] = todo[d]
  BY <1>1 DEF Creating
<1>2. CASE pc[d] # "write" /\ pc'[d] # "write"
  BY <1>2 DEF Creating
<1>3. CASE pc[d] # "write" /\ ~Begun(req'[d], todo'[d])
  BY <1>3 DEF Creating
<1>4. CASE pc[d] # "write" /\ req'[d].kind # "create"
  BY <1>4 DEF Creating
<1>5. ASSUME NEW c \in Clients, NEW r \in RequestSet, Submit(c, r)
      PROVE  \/ pc'[d] = pc[d] /\ req'[d] = req[d] /\ todo'[d] = todo[d]
             \/ pc[d] # "write" /\ pc'[d] # "write"
  BY <1>5 DEF Submit, TypeOK
<1>6. ASSUME NEW c \in Clients, Admit(c) \/ ReadStep(c) \/ Respond(c) \/ BeginExport(c) \/ EndExport(c)
      PROVE  \/ pc'[d] = pc[d] /\ req'[d] = req[d] /\ todo'[d] = todo[d]
             \/ pc[d] # "write" /\ pc'[d] # "write"
  <2>1. pc[c] # "write" /\ todo' = todo
    BY <1>6 DEF Admit, ReadStep, Respond, BeginExport, EndExport
  <2>2. (\E a : Answer(c, a)) \/ (\E l \in {"lock", "waiting", "export"} : Goto(c, l))
    BY <1>6 DEF Admit, ReadStep, Respond, BeginExport, EndExport
  <2>3. QED
    BY <2>1, <2>2 DEF Answer, Goto, TypeOK
<1>7. ASSUME NEW c \in Clients, Acquire(c)
      PROVE  \/ pc'[d] = pc[d] /\ req'[d] = req[d] /\ todo'[d] = todo[d]
             \/ pc[d] # "write" /\ pc'[d] # "write"
             \/ pc[d] # "write" /\ ~Begun(req'[d], todo'[d])
             \/ pc[d] # "write" /\ req'[d].kind # "create"
  <2>1. pc[c] = "lock"
    BY <1>7 DEF Acquire
  <2>2. CASE UNCHANGED <<holder, todo>> /\ \E a : Answer(c, a)
    BY <2>1, <2>2 DEF Answer, TypeOK
  <2>3. CASE /\ Goto(c, "write") /\ todo' = [todo EXCEPT ![c] = Calls(req[c])]
             /\ Calls(req[c]) \in Seq(AllOps) /\ req[c] \in RequestSet
    <3>1. req' = req /\ (d # c => pc'[d] = pc[d] /\ todo'[d] = todo[d]) /\ todo'[c] = Calls(req[c])
      BY <2>3 DEF Goto, TypeOK
    <3>2. CASE d = c /\ req[c].kind = "create"
      <4>1. Fresh(req[c], Calls(req[c]))
        BY <3>2 DEF Calls, Fresh, EnableCalls, BindCalls
      <4> DEFINE r == req[c]
                 t == Calls(req[c])
      <4>2. t[1] = CreateOp(r)
        BY <2>3, <3>2, <4>1, FreshCalls
      <4>3. /\ CreateOp(r).kind = "create" /\ EnableOp(r).kind = "enable_fts"
            /\ BindOp(r).kind = "bind"
        BY <2>3, <3>2, CreateOps3
      <4>4. Created(r, t) => t[1] = EnableOp(r)
        BY <2>3, <3>2, CreatedCalls
      <4>5. Searchable(r, t) => t[1] = BindOp(r)
        BY <2>3, <3>2, SearchableCalls
      <4> HIDE DEF r, t
      <4>6. ~Begun(r, t)
        BY <4>2, <4>3, <4>4, <4>5 DEF Begun
      <4>7. QED
        BY <2>1, <3>1, <3>2, <4>6 DEF r, t
    <3>3. CASE d # c
      BY <3>1, <3>3
    <3>4. CASE d = c /\ req[c].kind # "create"
      BY <2>1, <3>1, <3>4
    <3>5. QED
      BY <3>2, <3>3, <3>4
  <2>4. QED
    BY <1>7, <2>2, <2>3, AcquireEffect
<1>8. CASE Sigterm \/ Drain
  BY <1>1, <1>8 DEF Sigterm, Drain
<1>9. QED
  BY <1>1, <1>2, <1>3, <1>4, <1>5, <1>6, <1>7, <1>8 DEF Outside

\* Inside the guard nobody else is creating, and nothing else is touched.
LEMMA OptionsElsewhere ==
    ASSUME TypeOK, GuardInv, NEW c \in Clients, Write(c) \/ Refuse(c) \/ WriteFails(c),
           NEW x \in Collections, x # req[c].c, CollectionOptions(x)
    PROVE  CollectionOptions(x)'
<1> DEFINE op == todo[c][1]
<1>1. pc[c] = "write" /\ proc' = proc
  BY DEF Write, Refuse, WriteFails
<1>2. op \in AllOps /\ op.c = req[c].c /\ holder = c /\ Up /\ req[c].c \in Collections
  BY <1>1, WriterAt
<1> HIDE DEF op
<1>3. store \in Store /\ Recovered \in Store
  BY ReplayedType DEF TypeOK, Recovered
<1>4. ApplyLive(store, op)[x] = store[x] /\ ApplyLive(Recovered, op)[x] = Recovered[x]
  BY <1>2, <1>3, ApplyAt
<1>5. store'[x] = store[x]
  BY <1>4, GuardedEffect DEF op
<1>6. Recovered'[x] = Recovered[x] \/ Recovered'[x] = store[x]
  <2>1. Recovered' \in {Recovered, ApplyLive(Recovered, op), store'}
    BY GuardedEffect DEF op
  <2>2. QED
    BY <1>4, <1>5, <2>1
<1>7. asked'[x] = asked[x]
  <2>1. asked' = asked \/ \E y : asked' = [asked EXCEPT ![op.c] = y]
    BY DEF Write, Refuse, WriteFails, ghost, op
  <2>2. QED
    BY <1>2, <2>1 DEF TypeOK
<1>8. x \in partial => x \in partial'
  BY <1>2 DEF Write, Refuse, WriteFails, ghost, Settled, op
<1>9. \A d \in Clients : ~Creating(d, x)
  BY <1>2, Creators
<1>10. \A d \in Clients : ~Creating(d, x)'
  <2>1. (\A d \in Clients : pc'[d] # "write") \/ UNCHANGED <<pc, req>>
    <3>1. (\E a : Release(c, a)) \/ Advance(c)
      BY DEF Write, Refuse, WriteFails
    <3>2. UNCHANGED <<proc, files>>
      BY DEF Write, Refuse, WriteFails
    <3>3. QED
      BY <1>1, <3>1, <3>2, ReleasedHandlers DEF Advance
  <2>2. ASSUME NEW d \in Clients, pc[d] = "write"
        PROVE  d = c
    BY <1>2, <2>2, WriterAt
  <2>3. QED
    BY <2>1, <2>2 DEF Creating
<1>11. QED
  BY <1>1, <1>2, <1>5, <1>6, <1>7, <1>8, <1>9, <1>10, OptionsCalm DEF Up

\* A call that is accepted, on the collection it is about.
LEMMA OptionsWritten ==
    ASSUME TypeOK, GuardInv, NEW c \in Clients, Write(c),
           NEW x \in Collections, x = req[c].c, CollectionOptions(x)
    PROVE  CollectionOptions(x)'
<1> DEFINE r == req[c]
           t == todo[c]
           op == t[1]
           m == store[x]
           m1 == store'[x]
           d1 == Recovered'[x]
<1>1. pc[c] = "write" /\ proc' = proc /\ files' = files /\ Accepts(store, op)
  BY DEF Write
<1>2. /\ op \in AllOps /\ op.c = x /\ holder = c /\ Up /\ x \in Collections
      /\ r \in RequestSet /\ r.kind \in Writers
      /\ t \in Seq(AllOps) /\ t # <<>> /\ CallsLeft(r, t) /\ Len(t) \in Nat \ {0}
  BY <1>1, WriterAt
<1>3. store \in Store /\ Recovered \in Store
  BY ReplayedType DEF TypeOK, Recovered
<1>4. /\ store' = ApplyLive(store, op)
      /\ Recovered' = ApplyLive(Recovered, op) \/ Recovered' = store'
  BY GuardedEffect
<1>5. \/ /\ Advance(c)
         /\ partial' = Settled(op)
      \/ /\ Release(c, StatusOfIo(r))
         /\ partial' = partial \cup {x}
  BY <1>2 DEF Write
<1>6. asked'[x] = IF op.kind = "create" THEN Options(r)
                  ELSE IF op.kind = "drop" THEN NoOptions ELSE asked[x]
  <2>1. asked' = [asked EXCEPT ![op.c] = Asked(req[c], op)]
    BY DEF Write
  <2>2. asked'[x] = Asked(req[c], op)
    BY <1>2, <2>1 DEF TypeOK
  <2>3. QED
    BY <1>2, <2>2 DEF Asked, NoOptions
<1>7. Agree(m, Recovered[x], x \in partial)
  BY <1>2 DEF CollectionOptions
<1>8. \A d \in Clients : pc[d] = "write" => d = c
  BY <1>2, WriterAt
<1>9. \A d \in Clients : Creating(d, x) => d = c
  BY <1>2, Creators
<1>10. /\ m \in Collection \cup {Absent} /\ Recovered[x] \in Collection \cup {Absent}
       /\ m1 = After(m, op) /\ AcceptsAt(m, op)
       /\ d1 = After(Recovered[x], op) \/ d1 = m1
  <2>1. /\ Accepts(store, op) <=> AcceptsAt(m, op)
        /\ ApplyLive(store, op)[op.c] = After(m, op)
        /\ ApplyLive(Recovered, op)[op.c] = After(Recovered[x], op)
    BY <1>2, <1>3, ApplyAt
  <2>2. m \in Collection \cup {Absent} /\ Recovered[x] \in Collection \cup {Absent}
    BY <1>2, <1>3 DEF Store
  <2>3. QED
    BY <1>1, <1>2, <1>4, <2>1, <2>2
<1>11. /\ m1 = Absent <=> op.kind = "drop"
       /\ op.kind = "create" => OptionsOf(m1) = NoOptions
       /\ op.kind = "enable_fts" => OptionsOf(m1) = <<TRUE, m.binding>>
       /\ op.kind = "bind" => OptionsOf(m1) = <<m.fts, op.binding>>
       /\ op.kind \in {"insert", "delete"} => OptionsOf(m1) = OptionsOf(m)
  BY <1>2, <1>10, OptionsAfter
<1>12. \/ r.kind # "create" /\ op.kind \in {"drop", "insert", "delete"}
       \/ r.kind = "create" /\ Fresh(r, t) /\ op.kind = "create" /\ ~Begun(r, t)
       \/ r.kind = "create" /\ Created(r, t) /\ op.kind = "enable_fts"
       \/ /\ r.kind = "create" /\ Searchable(r, t)
          /\ op.kind = "bind" /\ op.binding = r.binding
  BY <1>1, CallKinds
<1>13. op.kind # "create" => m # Absent
  BY <1>10 DEF AcceptsAt
<1>14. Agree(m1, d1, x \in partial /\ op.kind \notin {"create", "drop"})
  <2>1. Agree(After(m, op), After(Recovered[x], op),
              x \in partial /\ op.kind \notin {"create", "drop"})
    <3>1. (x \in partial) \in BOOLEAN
      OBVIOUS
    <3>2. QED
      BY <1>2, <1>7, <1>10, <3>1, AcceptedStep
  <2>2. CASE d1 = m1
    BY <2>2 DEF Agree
  <2>3. QED
    BY <1>10, <2>1, <2>2
<1>15. CASE Release(c, StatusOfIo(r)) /\ partial' = partial \cup {x}
  <2>1. \A d \in Clients : pc'[d] # "write"
    BY <1>1, <1>15, ReleasedHandlers
  <2>2. \A d \in Clients : ~Creating(d, x)'
    BY <2>1 DEF Creating
  <2>3. Agree(m1, d1, x \in partial')
    BY <1>14, <1>15 DEF Agree
  <2>4. QED
    BY <1>2, <1>15, <2>2, <2>3, OptionsKept
<1>16. CASE Advance(c) /\ partial' = Settled(op)
  <2>1. x \in partial' <=> (x \in partial /\ op.kind \notin {"create", "drop"})
    BY <1>2, <1>16 DEF Settled
  <2>2. Agree(m1, d1, x \in partial')
    BY <1>14, <2>1 DEF Agree
  <2>3. x \notin partial' /\ d1 # Absent => m1 # Absent /\ OptionsOf(d1) = OptionsOf(m1)
    BY <2>2 DEF Agree
  <2>4. CASE Len(t) = 1
    <3>1. \A d \in Clients : pc'[d] # "write"
      BY <1>1, <1>16, <2>4, ReleasedHandlers DEF Advance
    <3>2. \A d \in Clients : ~Creating(d, x)'
      BY <3>1 DEF Creating
    <3>3. ASSUME x \notin partial', m1 # Absent
          PROVE  OptionsOf(m1) = asked'[x]
      <4>1. CASE op.kind = "create"
        <5>1. Options(r) = NoOptions
          BY <1>2, <1>12, <2>4, <4>1, FreshCalls
        <5>2. QED
          BY <1>6, <1>11, <4>1, <5>1
      <4>2. CASE op.kind = "enable_fts"
        <5>1. Created(r, t) /\ r.kind = "create"
          BY <1>12, <4>2
        <5>2. SoFar(r, t) = NoOptions /\ Options(r) = <<TRUE, NoBinding>>
          BY <1>2, <2>4, <5>1, CreatedCalls
        <5>3. Creating(c, x)
          BY <1>1, <5>1 DEF Creating, Begun
        <5>4. OptionsOf(m) = SoFar(r, t)
          BY <1>2, <1>9, <1>13, <2>1, <3>3, <4>2, <5>3, MemoryOptions
        <5>5. asked[x] = Options(r)
          BY <5>3 DEF CollectionOptions
        <5>6. m.binding = NoBinding
          BY <5>2, <5>4 DEF OptionsOf, NoOptions
        <5>7. OptionsOf(m1) = <<TRUE, NoBinding>>
          BY <1>11, <4>2, <5>6
        <5>8. QED
          BY <1>6, <4>2, <5>2, <5>5, <5>7
      <4>3. CASE op.kind = "bind"
        <5>1. Searchable(r, t) /\ r.kind = "create" /\ op.binding = r.binding
          BY <1>12, <4>3
        <5>2. SoFar(r, t) = <<r.fts, NoBinding>> /\ Options(r) = <<r.fts, r.binding>>
          BY <1>2, <5>1, SearchableCalls
        <5>3. Creating(c, x)
          BY <1>1, <5>1 DEF Creating, Begun
        <5>4. OptionsOf(m) = SoFar(r, t)
          BY <1>2, <1>9, <1>13, <2>1, <3>3, <4>3, <5>3, MemoryOptions
        <5>5. asked[x] = Options(r)
          BY <5>3 DEF CollectionOptions
        <5>6. m.fts = r.fts
          BY <5>2, <5>4 DEF OptionsOf
        <5>7. OptionsOf(m1) = <<r.fts, r.binding>>
          BY <1>11, <4>3, <5>1, <5>6
        <5>8. QED
          BY <1>6, <4>3, <5>2, <5>5, <5>7
      <4>4. CASE op.kind \in {"insert", "delete"}
        <5>1. r.kind # "create"
          BY <1>12, <4>4
        <5>2. \A d \in Clients : ~Creating(d, x)
          BY <1>9, <5>1 DEF Creating
        <5>3. OptionsOf(m) = asked[x]
          BY <1>2, <1>13, <2>1, <3>3, <4>4, <5>2, MemoryOptions
        <5>4. QED
          BY <1>6, <1>11, <4>4, <5>3
      <4>5. QED
        BY <1>11, <1>12, <3>3, <4>1, <4>2, <4>3, <4>4
    <3>4. QED
      BY <1>2, <2>2, <2>3, <3>2, <3>3, OptionsKept
  <2>5. CASE Len(t) # 1
    <3> DEFINE u == Tail(t)
    <3>1. todo' = [todo EXCEPT ![c] = Tail(todo[c])] /\ UNCHANGED <<pc, req>>
      BY <1>16, <2>5 DEF Advance
    <3>2. todo'[c] = u
      BY <3>1 DEF TypeOK
    <3>3. \A d \in Clients : Creating(d, x)' => d = c
      BY <1>8, <3>1 DEF Creating
    <3>4. CASE r.kind # "create"
      <4>1. r.kind = "import"
        BY <1>2, <2>5, <3>4, CallsGoOn
      <4>2. op.kind = "insert"
        BY <1>2, <4>1, NextCall
      <4>3. \A d \in Clients : ~Creating(d, x)
        BY <1>9, <3>4 DEF Creating
      <4>4. \A d \in Clients : ~Creating(d, x)'
        BY <3>1, <3>3, <3>4 DEF Creating
      <4>5. x \notin partial' /\ d1 # Absent => OptionsOf(d1) = asked'[x]
        <5>1. ASSUME x \notin partial', d1 # Absent
              PROVE  OptionsOf(m) = asked[x]
          BY <1>2, <1>13, <2>1, <4>2, <4>3, <5>1, MemoryOptions
        <5>2. QED
          BY <1>6, <1>11, <2>3, <4>2, <5>1
      <4>6. QED
        BY <1>2, <2>2, <4>4, <4>5, OptionsKept
    <3>5. CASE r.kind = "create"
      <4>1. Begun(r, u)
        BY <1>2, <2>5, <3>5, CallsGoOn
      <4>2. Creating(c, x)'
        BY <1>1, <3>1, <3>2, <3>5, <4>1 DEF Creating
      <4>3. m1 # Absent
        BY <1>11, <1>12, <3>5
      <4>4. asked'[x] = Options(r)
        <5>1. CASE op.kind = "create"
          BY <1>6, <5>1
        <5>2. CASE op.kind # "create"
          <6>1. Creating(c, x)
            BY <1>1, <1>12, <3>5, <5>2 DEF Creating, Begun
          <6>2. asked[x] = Options(r)
            BY <6>1 DEF CollectionOptions
          <6>3. QED
            BY <1>6, <1>12, <3>5, <5>2, <6>2
        <5>3. QED
          BY <5>1, <5>2
      <4>5. ASSUME x \notin partial'
            PROVE  OptionsOf(m1) = SoFar(r, u)
        <5>1. CASE op.kind = "create"
          <6>1. SoFar(r, u) = NoOptions
            BY <1>2, <1>12, <2>5, <3>5, <5>1, FreshCalls
          <6>2. QED
            BY <1>11, <5>1, <6>1
        <5>2. CASE op.kind = "enable_fts"
          <6>1. Created(r, t)
            BY <1>12, <5>2
          <6>2. SoFar(r, t) = NoOptions /\ SoFar(r, u) = <<TRUE, NoBinding>>
            BY <1>2, <2>5, <3>5, <6>1, CreatedCalls
          <6>3. Creating(c, x)
            BY <1>1, <3>5, <6>1 DEF Creating, Begun
          <6>4. OptionsOf(m) = SoFar(r, t)
            BY <1>2, <1>9, <1>13, <2>1, <4>5, <5>2, <6>3, MemoryOptions
          <6>5. m.binding = NoBinding
            BY <6>2, <6>4 DEF OptionsOf, NoOptions
          <6>6. QED
            BY <1>11, <5>2, <6>2, <6>5
        <5>3. CASE op.kind = "bind"
          <6>1. Searchable(r, t)
            BY <1>12, <5>3
          <6>2. QED
            BY <1>2, <2>5, <3>5, <6>1, SearchableCalls
        <5>4. QED
          BY <1>12, <3>5, <5>1, <5>2, <5>3
      <4>6. x \notin partial' /\ d1 # Absent =>
               OptionsOf(d1) = SoFar(req'[c], todo'[c])
        BY <2>3, <3>1, <3>2, <4>5
      <4>7. \A d \in Clients : Creating(d, x)' => store'[x] # Absent /\ asked'[x] = Options(req'[d])
        BY <3>1, <3>3, <4>3, <4>4
      <4>8. QED
        BY <2>2, <4>2, <4>6, <4>7, Zenon DEF CollectionOptions
    <3>6. QED
      BY <3>4, <3>5
  <2>6. QED
    BY <2>4, <2>5
<1>17. QED
  BY <1>5, <1>15, <1>16

\* A call that is refused or fails, on the collection it is about.
LEMMA OptionsNotWritten ==
    ASSUME TypeOK, GuardInv, NEW c \in Clients, Refuse(c) \/ WriteFails(c),
           NEW x \in Collections, x = req[c].c, CollectionOptions(x)
    PROVE  CollectionOptions(x)'
<1> DEFINE r == req[c]
           op == todo[c][1]
           m == store[x]
           d == Recovered[x]
<1>1. pc[c] = "write" /\ proc' = proc /\ files' = files /\ asked' = asked
  BY DEF Refuse, WriteFails, ghost
<1>2. op \in AllOps /\ op.c = x /\ holder = c /\ Up /\ store' = store
  BY <1>1, WriterAt, GuardedEffect
<1>3. store \in Store /\ Recovered \in Store
  BY ReplayedType DEF TypeOK, Recovered
<1>4. /\ m \in Collection \cup {Absent} /\ d \in Collection \cup {Absent}
      /\ Accepts(store, op) <=> AcceptsAt(m, op)
      /\ ApplyLive(Recovered, op)[x] = After(d, op)
  <2>1. m \in Collection \cup {Absent} /\ d \in Collection \cup {Absent}
    BY <1>2, <1>3 DEF Store
  <2>2. /\ Accepts(store, op) <=> AcceptsAt(store[op.c], op)
        /\ ApplyLive(Recovered, op)[op.c] = After(Recovered[op.c], op)
    BY <1>2, <1>3, ApplyAt
  <2>3. QED
    BY <1>2, <2>1, <2>2
<1>5. Agree(m, d, x \in partial) /\ (x \in partial) \in BOOLEAN
  BY <1>2 DEF CollectionOptions
<1>6. op.kind \in {"enable_fts", "bind"} => Creating(c, x) /\ m # Absent
  <2>1. ASSUME op.kind \in {"enable_fts", "bind"}
        PROVE  Creating(c, x)
    BY <1>1, <2>1, CallKinds DEF Creating, Begun
  <2>2. QED
    BY <2>1 DEF CollectionOptions
<1>7. \A e \in Clients : ~Creating(e, x)'
  <2>1. \E a : Release(c, a)
    BY DEF Refuse, WriteFails
  <2>2. \A e \in Clients : pc'[e] # "write"
    BY <1>1, <2>1, ReleasedHandlers
  <2>3. QED
    BY <2>2 DEF Creating
<1>8. CASE Refuse(c)
  <2>1. ~AcceptsAt(m, op) /\ partial' = partial /\ Recovered'[x] = After(d, op)
    BY <1>4, <1>8, GuardedEffect DEF Refuse, ghost
  <2>2. op.kind \notin {"enable_fts", "bind"}
    BY <1>6, <2>1 DEF AcceptsAt
  <2>3. Agree(m, After(d, op), x \in partial) /\ (x \notin partial => After(d, op) = d)
    BY <1>2, <1>4, <1>5, <2>1, <2>2, RefusedStep
  <2>4. \A e \in Clients : ~Creating(e, x)
    <3>1. ~Begun(r, todo[c]) \/ r.kind # "create"
      BY <1>1, <2>2, CallKinds
    <3>2. QED
      BY <1>2, <3>1, Creators DEF Creating
  <2>5. x \notin partial /\ d # Absent => OptionsOf(d) = asked[x]
    BY <2>4 DEF CollectionOptions
  <2>6. QED
    BY <1>1, <1>2, <1>7, <2>1, <2>3, <2>5, OptionsKept
<1>9. CASE WriteFails(c)
  <2>1. x \in partial' /\ Recovered'[x] \in {d, After(d, op)}
    BY <1>4, <1>9, GuardedEffect DEF WriteFails
  <2>2. Agree(m, d, TRUE) /\ Agree(m, After(d, op), TRUE)
    BY <1>2, <1>4, <1>5, <1>6, FailedStep
  <2>3. Agree(store'[x], Recovered'[x], x \in partial')
    BY <1>2, <2>1, <2>2 DEF Agree
  <2>4. QED
    BY <1>7, <2>1, <2>3, OptionsKept
<1>10. QED
  BY <1>8, <1>9

\* Every step keeps the options a collection was created with.
LEMMA OptionsStep ==
    ASSUME TypeOK, GuardInv, OptionsInv, [Next]_vars
    PROVE  OptionsInv'
<1>1. SUFFICES ASSUME NEW x \in Collections
               PROVE  CollectionOptions(x)'
  BY DEF OptionsInv
<1>2. CollectionOptions(x)
  BY DEF OptionsInv
<1>3. holder = Nobody => \A d \in Clients : ~Creating(d, x)
  BY Creators
<1>4. CASE Outside
  <2>1. /\ UNCHANGED <<store, asked, partial>>
        /\ Recovered' = Recovered /\ (Up' => Up)
    BY <1>4, OutsideEffect
  <2>2. \A d \in Clients : /\ Creating(d, x)' <=> Creating(d, x)
                           /\ Creating(d, x) => req'[d] = req[d] /\ todo'[d] = todo[d]
    BY <1>4, OutsideCreators
  <2>3. Up' => Agree(store'[x], Recovered'[x], x \in partial')
    BY <1>2, <2>1 DEF CollectionOptions
  <2>4. \A d \in Clients : Creating(d, x)' => store'[x] # Absent /\ asked'[x] = Options(req'[d])
    BY <1>2, <2>1, <2>2 DEF CollectionOptions
  <2>5. x \notin partial' /\ Recovered'[x] # Absent =>
          \/ OptionsOf(Recovered'[x]) = asked'[x] /\ \A d \in Clients : ~Creating(d, x)'
          \/ \E d \in Clients : /\ Creating(d, x)'
                                /\ OptionsOf(Recovered'[x]) = SoFar(req'[d], todo'[d])
    BY <1>2, <2>1, <2>2 DEF CollectionOptions
  <2>6. QED
    BY <2>3, <2>4, <2>5, Zenon DEF CollectionOptions
<1>5. ASSUME NEW c \in Clients, Write(c) \/ Refuse(c) \/ WriteFails(c)
      PROVE  CollectionOptions(x)'
  <2>1. CASE x # req[c].c
    BY <1>2, <1>5, <2>1, OptionsElsewhere
  <2>2. CASE x = req[c].c /\ Write(c)
    BY <1>2, <2>2, OptionsWritten
  <2>3. CASE x = req[c].c /\ (Refuse(c) \/ WriteFails(c))
    BY <1>2, <2>3, OptionsNotWritten
  <2>4. QED
    BY <1>5, <2>1, <2>2, <2>3
<1>6. CASE Open
  <2>1. /\ holder = Nobody /\ UNCHANGED <<pc, req, todo, asked, partial, log, snap>>
        /\ store' = Recovered
    BY <1>6 DEF Open, durable, GuardInv, Up
  <2>2. \A d \in Clients : ~Creating(d, x)'
    BY <1>3, <2>1 DEF Creating
  <2>3. Recovered' = Recovered
    BY <2>1 DEF Recovered
  <2>4. QED
    BY <1>2, <1>3, <2>1, <2>2, <2>3, OptionsCalm
<1>7. CASE PeriodicCheckpoint \/ FinalCheckpoint
  <2>1. /\ holder = Nobody /\ UNCHANGED <<pc, req, todo, asked, partial, store>>
        /\ Up
    BY <1>7 DEF PeriodicCheckpoint, FinalCheckpoint, CheckpointNow, Free, Up
  <2>2. \A d \in Clients : ~Creating(d, x)'
    BY <1>3, <2>1 DEF Creating
  <2>3. Recovered' = Recovered \/ Recovered' = store
    <3>1. CASE CheckpointNow
      <4>1. store \in Store
        BY DEF TypeOK
      <4>2. QED
        BY <3>1, <4>1, LogEmptied DEF CheckpointNow
    <3>2. CASE UNCHANGED <<log, snap>>
      BY <3>2 DEF Recovered
    <3>3. QED
      BY <1>7, <3>1, <3>2 DEF PeriodicCheckpoint, FinalCheckpoint, durable
  <2>4. QED
    BY <1>2, <1>3, <2>1, <2>2, <2>3, OptionsCalm
<1>8. CASE Exit \/ Crash
  <2>1. /\ ~Up' /\ UNCHANGED <<log, snap, asked>> /\ partial \subseteq partial'
        /\ \A d \in Clients : pc'[d] = "idle"
    BY <1>8 DEF Exit, Crash, Halt, Up, durable, ghost
  <2>2. \A d \in Clients : ~Creating(d, x)'
    BY <2>1 DEF Creating
  <2>3. Recovered' = Recovered
    BY <2>1 DEF Recovered
  <2>4. CASE \A d \in Clients : ~Creating(d, x)
    BY <1>2, <2>1, <2>2, <2>3, <2>4, OptionsCalm
  <2>5. ASSUME NEW d \in Clients, Creating(d, x)
        PROVE  CollectionOptions(x)'
    <3>1. holder # Nobody /\ pc[d] = "write" /\ x = req[d].c
      BY <2>5, Creators
    <3>2. Crash
      BY <1>8, <3>1 DEF Exit, Free
    <3>3. req[d].kind = "create" /\ todo[d][1].kind # "create"
      BY <2>5, <3>1, CallKinds DEF Creating
    <3>4. x \in partial'
      BY <3>1, <3>2, <3>3 DEF Crash
    <3>5. QED
      BY <2>1, <2>2, <3>4, OptionsKept
  <2>6. QED
    BY <2>4, <2>5
<1>9. CASE UNCHANGED vars
  BY <1>2, <1>9 DEF vars, durable, ghost, CollectionOptions, Creating, Up, Recovered
<1>10. QED
  BY <1>4, <1>5, <1>6, <1>7, <1>8, <1>9 DEF Next, Guarded, Main, Outside

----------------------------------------------------------------------------
(* The theorems *)

\* The directory an earlier life left, and nobody at work.
LEMMA InvInit == Init => Inv
<1> SUFFICES ASSUME Init PROVE Inv
  OBVIOUS
<1>1. SeedStore \in Store /\ EmptyStore \in Store
  BY SeedAssumption DEF EmptyStore, Store
<1>2. <<>> \in Seq(AllOps)
  OBVIOUS
<1>3. Recovered = SeedStore
  BY <1>1, ReplayedEmpty DEF Init, Recovered
<1>4. ASSUME NEW x \in Collections
      PROVE  asked[x] = IF SeedStore[x] = Absent THEN NoOptions ELSE OptionsOf(SeedStore[x])
  BY <1>4 DEF Init, NoOptions, OptionsOf
<1>5. asked \in [Collections -> BOOLEAN \X (Bindings \cup {NoBinding})]
  <2>1. ASSUME NEW x \in Collections
        PROVE  asked[x] \in BOOLEAN \X (Bindings \cup {NoBinding})
    <3>1. CASE SeedStore[x] = Absent
      <4> DEFINE f == FALSE
      <4>1. f \in BOOLEAN /\ NoOptions = <<f, NoBinding>>
        BY DEF NoOptions
      <4> HIDE DEF f
      <4>2. QED
        BY <1>4, <3>1, <4>1
    <3>2. CASE SeedStore[x] # Absent
      <4>1. SeedStore[x] \in Collection
        BY <1>1, <3>2 DEF Store
      <4>2. SeedStore[x].fts \in BOOLEAN /\ SeedStore[x].binding \in Bindings \cup {NoBinding}
        BY <4>1 DEF Collection
      <4> DEFINE f == SeedStore[x].fts
                 b == SeedStore[x].binding
      <4>3. f \in BOOLEAN /\ b \in Bindings \cup {NoBinding} /\ asked[x] = <<f, b>>
        BY <1>4, <3>2, <4>2 DEF OptionsOf
      <4> HIDE DEF f, b
      <4>4. QED
        BY <4>3
    <3>3. QED
      BY <3>1, <3>2
  <2>2. asked = [x \in Collections |-> asked[x]]
    BY DEF Init
  <2>3. QED
    BY <2>1, <2>2
<1>6. TypeOK
  <2>1. HandlerTypes
    BY DEF Init, HandlerTypes, Answers
  <2>2. LockTypes
    BY <1>2 DEF Init, LockTypes
  <2>3. StoreTypes
    BY <1>1, <1>2 DEF Init, StoreTypes
  <2>4. FileTypes
    BY SeedAssumption DEF Init, FileTypes
  <2>5. ProcessTypes
    BY DEF Init, ProcessTypes
  <2>6. HistoryTypes
    BY <1>5 DEF Init, HistoryTypes
  <2>7. QED
    BY <2>1, <2>2, <2>3, <2>4, <2>5, <2>6, TypeParts
<1>7. GuardInv
  <2>1. ASSUME NEW c \in Clients
        PROVE  Handler(c)
    BY RequestAssumption DEF Init, Handler
  <2>2. QED
    BY <2>1 DEF GuardInv, Init
<1>8. ExportInv /\ DiskInv /\ CleanInv
  BY DEF Init, ExportInv, DiskInv, CleanInv, Up
<1>9. OptionsInv
  <2>1. ASSUME NEW x \in Collections
        PROVE  CollectionOptions(x)
    <3>1. ~Up /\ \A d \in Clients : ~Creating(d, x)
      BY DEF Init, Up, Creating
    <3>2. QED
      BY <1>3, <1>4, <3>1 DEF CollectionOptions
  <2>2. QED
    BY <2>1 DEF OptionsInv
<1>10. QED
  BY <1>6, <1>7, <1>8, <1>9 DEF Inv

\* The invariant is inductive.
LEMMA InvStep == Inv /\ [Next]_vars => Inv'
BY TypeStep, GuardStep, ExportStep, DiskStep, CleanStep, OptionsStep DEF Inv

\* It holds in every reachable state.
LEMMA Invariance == Spec => []Inv
BY InvInit, InvStep, PTL DEF Spec

\* Requests of both servers, exports, imports, checkpoints, shutdowns and
\* crashes keep every variable in its type: the handlers only make calls
\* WalManager has, and every file an export leaves can be read or is known bad.
THEOREM ServerTypes == Spec => []TypeOK
<1>1. Inv => TypeOK
  BY DEF Inv
<1>2. QED
  BY <1>1, Invariance, PTL

\* Between two guards opening the directory would give the store clients see,
\* unless a failed call left it open: for any number of clients, requests,
\* lives and faults.
THEOREM RestartsSame == Spec => []RestartSame
<1>1. Inv => RestartSame
  BY DEF Inv, DiskInv, RestartSame
<1>2. QED
  BY <1>1, Invariance, PTL

\* Between two guards a collection has the options its creator asked for,
\* unless a call of a request on it failed or the process died inside its
\* create.
THEOREM CreatorsOptionsKept == Spec => []CreatorsOptions
<1>1. Inv => CreatorsOptions
  <2> SUFFICES ASSUME Inv, Up, holder = Nobody, NEW c \in Collections \ partial, store[c] # Absent
               PROVE  <<store[c].fts, store[c].binding>> = asked[c]
    BY DEF CreatorsOptions
  <2>1. CollectionOptions(c) /\ \A d \in Clients : ~Creating(d, c)
    BY Creators DEF Inv, OptionsInv
  <2>2. OptionsOf(store[c]) = asked[c]
    BY <2>1, MemoryOptions
  <2>3. QED
    BY <2>2 DEF OptionsOf
<1>2. QED
  BY <1>1, Invariance, PTL

\* After a shutdown in which both servers drained in time and the checkpoint
\* succeeded there is nothing to replay.
THEOREM ShutdownIsClean == Spec => []CleanStop
<1>1. Inv => CleanStop
  BY DEF Inv, CleanInv, CleanStop
<1>2. QED
  BY <1>1, Invariance, PTL

\* Who answers with a client error has made no call that counts.
LEMMA RefusalHarmless ==
    ASSUME Inv, NEW c \in Clients, Refuse(c), req[c].kind # "import"
    PROVE  c \notin wrote /\ store' = store /\ (~uncertain => Recovered' = Recovered)
<1> DEFINE op == todo[c][1]
<1>1. pc[c] = "write" /\ ~Accepts(store, op) /\ TypeOK /\ GuardInv
  BY DEF Refuse, Inv
<1>2. /\ op \in AllOps /\ op.c = req[c].c /\ req[c].c \in Collections /\ Up
      /\ store \in Store
  BY <1>1, WriterAt DEF TypeOK
<1>3. ~(req[c].kind = "create" /\ Begun(req[c], todo[c]))
  <2>1. ASSUME req[c].kind = "create", Begun(req[c], todo[c])
        PROVE  FALSE
    <3>1. store[op.c] # Absent
      <4>1. Creating(c, op.c)
        BY <1>1, <1>2, <2>1 DEF Creating
      <4>2. CollectionOptions(op.c)
        BY <1>2 DEF Inv, OptionsInv
      <4>3. QED
        BY <4>1, <4>2 DEF CollectionOptions
    <3>2. op.kind \in {"enable_fts", "bind"}
      BY <1>1, <2>1, CallKinds
    <3>3. AcceptsAt(store[op.c], op)
      BY <3>1, <3>2 DEF AcceptsAt
    <3>4. QED
      BY <1>1, <1>2, <3>3, ApplyAt
  <2>2. QED
    BY <2>1
<1>4. c \notin wrote
  <2>1. Handler(c)
    BY <1>1 DEF GuardInv
  <2>2. QED
    BY <1>3, <2>1 DEF Handler
<1>5. store' = store /\ Recovered' = ApplyLive(Recovered, op)
  BY <1>1, GuardedEffect
<1>6. ~uncertain => Recovered = store
  BY <1>2 DEF Inv, DiskInv
<1>7. ApplyLive(store, op) = store
  BY <1>1 DEF ApplyLive
<1>8. QED
  BY <1>4, <1>5, <1>6, <1>7

\* A write whose append or checkpoint failed is the server's error.
LEMMA IoIsInternal ==
    ASSUME NEW r, r.kind # "import"
    PROVE  StatusOfIo(r) = "internal" /\ StatusOfIo(r) \notin ClientErrors
BY DEF StatusOfIo, ClientErrors

\* A request answered with a client error has changed neither the store nor
\* what a restart would bring back, whatever else runs, fails or restarts: a
\* create that was refused never left a collection without its index or
\* binding.  An import is excepted: the rows before the error stay.
THEOREM ClientErrorsAreHarmless == Spec => ClientErrorsHarmless
<1> DEFINE Harmless(c) ==
              pc[c] # "idle" /\ pc'[c] = "idle" /\ Up' /\ reply' \in ClientErrors =>
                  \/ req[c].kind = "import"
                  \/ /\ c \notin wrote /\ store' = store
                     /\ ~uncertain => Recovered' = Recovered
<1>1. ASSUME Inv, [Next]_vars, NEW c \in Clients
      PROVE  Harmless(c)
  <2>0. TypeOK /\ GuardInv /\ "ok" \notin ClientErrors
    BY <1>1 DEF Inv, ClientErrors
  <2>1. ASSUME pc[c] # "idle", pc'[c] = "idle", Up', reply' \in ClientErrors,
               req[c].kind # "import"
        PROVE  c \notin wrote /\ store' = store /\ (~uncertain => Recovered' = Recovered)
    <3>1. CASE Outside
      <4>1. store' = store /\ Recovered' = Recovered
        BY <3>1, OutsideEffect
      <4>2. CASE pc[c] # "write"
        BY <2>0, <4>1, <4>2, NotWriting
      <4>3. CASE pc[c] = "write"
        <5>1. ASSUME NEW d \in Clients, NEW r \in RequestSet, Submit(d, r)
              PROVE  pc'[c] = pc[c]
          BY <2>0, <4>3, <5>1 DEF Submit, TypeOK
        <5>2. ASSUME NEW d \in Clients,
                     \/ Admit(d) \/ ReadStep(d) \/ Respond(d) \/ BeginExport(d)
                     \/ Acquire(d) \/ EndExport(d)
              PROVE  pc'[c] = pc[c]
          <6>1. pc[d] # "write" /\ ((\E a : Answer(d, a)) \/ (\E l : Goto(d, l)))
            BY <5>2 DEF Admit, ReadStep, Respond, BeginExport, Acquire, EndExport
          <6>2. QED
            BY <2>0, <4>3, <6>1 DEF Answer, Goto, TypeOK
        <5>3. ASSUME Sigterm \/ Drain
              PROVE  pc'[c] = pc[c]
          BY <5>3 DEF Sigterm, Drain
        <5>4. QED
          BY <2>1, <3>1, <5>1, <5>2, <5>3 DEF Outside
      <4>4. QED
        BY <4>2, <4>3
    <3>2. ASSUME NEW d \in Clients, Write(d) \/ Refuse(d) \/ WriteFails(d)
          PROVE  c \notin wrote /\ store' = store /\ (~uncertain => Recovered' = Recovered)
      <4>1. d = c
        <5>1. (\E a : Answer(d, a)) \/ pc' = pc
          BY <3>2 DEF Write, Refuse, WriteFails, Advance, Release
        <5>2. QED
          BY <2>0, <2>1, <5>1, AnswerOthers
      <4>2. StatusOfIo(req[c]) \notin ClientErrors
        BY <2>1, IoIsInternal
      <4>3. (\E a : Release(c, a) /\ a \in {"ok", StatusOfIo(req[c])}) => reply' \notin ClientErrors
        BY <2>0, <4>2 DEF Release, Answer
      <4>4. ~Write(c) /\ ~WriteFails(c)
        BY <2>1, <4>3 DEF Write, WriteFails, Advance
      <4>5. QED
        BY <1>1, <2>1, <3>2, <4>1, <4>4, RefusalHarmless
    <3>3. CASE Open \/ PeriodicCheckpoint \/ FinalCheckpoint
      <4>1. pc' = pc
        BY <3>3 DEF Open, PeriodicCheckpoint, FinalCheckpoint
      <4>2. QED
        BY <2>1, <4>1
    <3>4. CASE Exit \/ Crash
      BY <2>1, <3>4 DEF Exit, Crash, Halt, Up
    <3>5. CASE UNCHANGED vars
      BY <2>1, <3>5 DEF vars
    <3>6. QED
      BY <1>1, <3>1, <3>2, <3>3, <3>4, <3>5 DEF Next, Guarded, Main, Outside
  <2>2. QED
    BY <2>1
<1>2. Inv /\ [Next]_vars => [\A c \in Clients : Harmless(c)]_vars
  BY <1>1
<1>3. Spec => [][\A c \in Clients : Harmless(c)]_vars
  BY <1>2, Invariance, PTL DEF Spec
<1>4. QED
  BY <1>3 DEF ClientErrorsHarmless

----------------------------------------------------------------------------
(* Export and import *)

\* The rows of a collection after the first n inserts of an import.
RowsAfter(rows, ops, n) == [i \in Ids |-> BatchRow(rows[i], ops, n, i)]

\* They are rows, and the ones before it if there was no insert yet.
LEMMA RowsAfterType ==
    ASSUME NEW c, NEW ops, RowsInto(c, ops), NEW rows \in Rows, NEW n \in 0 .. Len(ops)
    PROVE  RowsAfter(rows, ops, n) \in Rows /\ RowsAfter(rows, ops, 0) = rows
<1>1. \A i \in Ids : BatchRow(rows[i], ops, n, i) \in Row \cup {NoRow}
  BY BatchRowType DEF Rows
<1>2. \A i \in Ids : BatchRow(rows[i], ops, 0, i) = rows[i]
  BY DEF BatchRow
<1>3. QED
  BY <1>1, <1>2 DEF RowsAfter, Rows

RowInserted(rows, op) == [rows EXCEPT ![op.id] = UpsertRow(@, op.vec, op.pay)]

\* One insert more.
LEMMA RowsAfterStep ==
    ASSUME NEW c, NEW ops, RowsInto(c, ops), NEW rows \in Rows, NEW n \in 1 .. Len(ops)
    PROVE  RowsAfter(rows, ops, n) = RowInserted(RowsAfter(rows, ops, n - 1), ops[n])
<1>1. ASSUME NEW i \in Ids
      PROVE  BatchRow(rows[i], ops, n, i) =
                IF ops[n].id = i
                THEN UpsertRow(BatchRow(rows[i], ops, n - 1, i), ops[n].vec, ops[n].pay)
                ELSE BatchRow(rows[i], ops, n - 1, i)
  BY BatchRowStep DEF Rows
<1>2. ops[n].id \in Ids
  BY RowFields
<1>3. QED
  BY <1>1, <1>2 DEF RowsAfter, RowInserted

ImportedBy(f, rows, ops, n) ==
    f = [k \in 0 .. n |->
            IF k = 0 THEN rows
            ELSE RowInserted(f[k - 1], ops[k])]

\* WalManager's import, row by row, leaves them.
LEMMA ImportRowsIs ==
    ASSUME NEW c, NEW ops, RowsInto(c, ops), NEW rows \in Rows, NEW n \in 0 .. Len(ops)
    PROVE  ImportRows(rows, ops, n) = RowsAfter(rows, ops, n)
<1> DEFINE f == CHOOSE f : ImportedBy(f, rows, ops, n)
           h == [k \in 0 .. n |-> RowsAfter(rows, ops, k)]
<1>1. ImportRows(rows, ops, n) = f[n]
  BY DEF ImportRows, ImportedBy, RowInserted
<1>2. n \in Nat /\ Len(ops) \in Nat
  BY DEF RowsInto
<1>3. \A k \in 0 .. n : h[k] = RowsAfter(rows, ops, k)
  OBVIOUS
<1>4. h[0] = rows /\ \A k \in 1 .. n : h[k] = RowInserted(h[k - 1], ops[k])
  <2>1. h[0] = rows
    BY <1>2, <1>3, RowsAfterType
  <2>2. ASSUME NEW k \in 1 .. n
        PROVE  h[k] = RowInserted(h[k - 1], ops[k])
    <3>1. k \in 1 .. Len(ops) /\ h[k] = RowsAfter(rows, ops, k)
          /\ h[k - 1] = RowsAfter(rows, ops, k - 1)
      BY <1>2, <1>3
    <3>2. QED
      BY <3>1, RowsAfterStep
  <2>3. QED
    BY <2>1, <2>2
<1>5. ImportedBy(h, rows, ops, n)
  <2>1. h = [k \in 0 .. n |-> h[k]]
    OBVIOUS
  <2> HIDE DEF h
  <2>2. \A k \in 0 .. n : h[k] = IF k = 0 THEN rows ELSE RowInserted(h[k - 1], ops[k])
    BY <1>2, <1>4
  <2>3. QED
    BY <2>1, <2>2 DEF ImportedBy
<1>6. ImportedBy(f, rows, ops, n)
  BY <1>5
<1> HIDE DEF f, h
<1>7. f[0] = rows /\ \A k \in 1 .. n : f[k] = RowInserted(f[k - 1], ops[k])
  <2>1. \A k \in 0 .. n : f[k] = IF k = 0 THEN rows ELSE RowInserted(f[k - 1], ops[k])
    BY <1>6, Zenon DEF ImportedBy
  <2>2. 0 \in 0 .. n /\ \A k \in 1 .. n : k \in 0 .. n /\ k # 0
    BY <1>2
  <2>3. QED
    BY <2>1, <2>2
<1>8. n \in Nat /\ f[0] = h[0]
  BY <1>2, <1>4, <1>7
<1>9. ASSUME NEW k \in 1 .. n, f[k - 1] = h[k - 1]
      PROVE  f[k] = h[k]
  BY <1>4, <1>7, <1>9
<1>10. \A k \in 0 .. n : f[k] = h[k]
  BY ONLY <1>8, <1>9, RecursionUnique
<1>11. QED
  BY <1>1, <1>2, <1>3, <1>10

\* A batch after the first a rows is those rows and the batch's.
LEMMA BatchAfterRows ==
    ASSUME NEW c, NEW ops, RowsInto(c, ops), NEW rows \in Rows,
           NEW a \in 0 .. Len(ops), NEW e \in a .. Len(ops)
    PROVE  LET batch == SubSeq(ops, a + 1, e)
           IN  RowsAfter(RowsAfter(rows, ops, a), batch, Len(batch)) = RowsAfter(rows, ops, e)
<1> DEFINE batch == SubSeq(ops, a + 1, e)
           n == e - a
           before == RowsAfter(rows, ops, a)
<1>1. ops \in Seq(InsertOps) /\ Len(ops) \in Nat /\ a \in Nat /\ e \in Nat /\ a <= e /\ n \in Nat
  BY DEF RowsInto
<1>2. batch \in Seq(InsertOps) /\ Len(batch) = n /\ \A k \in 1 .. n : batch[k] = ops[a + k]
  BY <1>1
<1>3. \A k \in 0 .. n : a + k \in 0 .. Len(ops)
  BY <1>1
<1>4. \A k \in 1 .. n : a + k \in 1 .. Len(ops) /\ (a + k) - 1 = a + (k - 1)
  BY <1>1
<1> HIDE DEF batch
<1>5. RowsInto(c, batch)
  BY <1>2, <1>4 DEF RowsInto
<1>6. before \in Rows
  BY RowsAfterType
<1> HIDE DEF before
<1> DEFINE f == [k \in 0 .. n |-> RowsAfter(before, batch, k)]
           g == [k \in 0 .. n |-> RowsAfter(rows, ops, a + k)]
<1>7. /\ \A k \in 0 .. n : f[k] = RowsAfter(before, batch, k)
      /\ \A k \in 0 .. n : g[k] = RowsAfter(rows, ops, a + k)
  OBVIOUS
<1> HIDE DEF f, g
<1>8. f[0] = g[0]
  <2>1. 0 \in 0 .. n /\ a + 0 = a /\ 0 \in 0 .. Len(batch)
    BY <1>1, <1>2
  <2>2. f[0] = before
    BY <1>5, <1>6, <1>7, <2>1, RowsAfterType
  <2>3. QED
    BY <1>7, <2>1, <2>2 DEF before
<1>9. ASSUME NEW k \in 1 .. n, f[k - 1] = g[k - 1]
      PROVE  f[k] = g[k]
  <2>1. k \in 0 .. n /\ k - 1 \in 0 .. n /\ k \in 1 .. Len(batch) /\ batch[k] = ops[a + k]
    BY <1>1, <1>2
  <2>2. f[k] = RowInserted(f[k - 1], batch[k])
    BY <1>5, <1>6, <1>7, <2>1, RowsAfterStep
  <2>3. g[k] = RowInserted(g[k - 1], ops[a + k])
    <3>1. a + k \in 1 .. Len(ops) /\ g[k - 1] = RowsAfter(rows, ops, (a + k) - 1)
          /\ g[k] = RowsAfter(rows, ops, a + k)
      BY <1>4, <1>7, <2>1
    <3>2. QED
      BY <3>1, RowsAfterStep
  <2>4. QED
    BY <1>9, <2>1, <2>2, <2>3
<1>10. \A k \in 0 .. n : f[k] = g[k]
  BY ONLY <1>1, <1>8, <1>9, RecursionUnique
<1>11. n \in 0 .. n /\ a + n = e
  BY <1>1
<1>12. RowsAfter(before, batch, n) = RowsAfter(rows, ops, e)
  BY <1>7, <1>10, <1>11
<1>13. QED
  BY <1>2, <1>12 DEF batch, before

\* The reader's batches cover the file: all but the last are full.
LEMMA BatchEnds ==
    ASSUME NEW ops, Len(ops) \in Nat
    PROVE  /\ BatchCount(ops) \in Nat
           /\ BatchEnd(ops, 0) = 0 /\ BatchEnd(ops, BatchCount(ops)) = Len(ops)
           /\ \A b \in 1 .. BatchCount(ops) :
                 /\ BatchEnd(ops, b - 1) = (b - 1) * ReaderRows
                 /\ BatchEnd(ops, b - 1) \in 0 .. Len(ops)
                 /\ BatchEnd(ops, b) \in BatchEnd(ops, b - 1) .. Len(ops)
<1> DEFINE L == Len(ops)
           R == ReaderRows
           q == BatchCount(ops)
<1>1. R \in Nat \ {0} /\ L \in Nat
  BY ReaderAssumption
<1> HIDE DEF L, R
<1>2. q \in Nat /\ q * R <= L + R - 1 /\ L + R - 1 < (q + 1) * R
  <2>1. q = (L + R - 1) \div R
    BY DEF BatchCount, L, R
  <2>2. QED
    BY <1>1, <2>1
<1> HIDE DEF q
<1>3. (q + 1) * R = q * R + R /\ q * R \in Nat
  BY <1>1, <1>2
<1>4. L <= q * R /\ q * R < L + R
  BY <1>1, <1>2, <1>3
<1>5. BatchEnd(ops, q) = L
  BY <1>1, <1>3, <1>4 DEF BatchEnd, L, R
<1>6. BatchEnd(ops, 0) = 0
  <2>1. 0 * R = 0
    BY <1>1
  <2>2. QED
    BY <1>1, <2>1 DEF BatchEnd, L, R
<1>7. ASSUME NEW b \in 1 .. q
      PROVE  /\ BatchEnd(ops, b - 1) = (b - 1) * R
             /\ BatchEnd(ops, b - 1) \in 0 .. L
             /\ BatchEnd(ops, b) \in BatchEnd(ops, b - 1) .. L
  <2> DEFINE x == (b - 1) * R
             y == b * R
  <2>1. x \in Nat /\ y \in Nat /\ y = x + R
    BY <1>1, <1>2
  <2>2. y <= q * R
    BY <1>1, <1>2
  <2>3. BatchEnd(ops, b - 1) = IF x < L THEN x ELSE L
    BY DEF BatchEnd, L, R
  <2>4. BatchEnd(ops, b) = IF y < L THEN y ELSE L
    BY DEF BatchEnd, L, R
  <2> HIDE DEF x, y
  <2>5. x < L
    BY <1>1, <1>3, <1>4, <2>1, <2>2
  <2>6. QED
    BY <1>1, <2>1, <2>3, <2>4, <2>5 DEF x
<1>8. QED
  BY <1>2, <1>5, <1>6, <1>7 DEF L, R, q

BatchInserted(rows, batch) == RowsAfter(rows, batch, Len(batch))

BatchedBy(f, rows, ops) ==
    f = [b \in 0 .. BatchCount(ops) |->
            IF b = 0 THEN rows ELSE BatchInserted(f[b - 1], RecordBatch(ops, b))]

\* CollectionManager's import, one insert_batch per record batch, leaves the
\* same rows.
LEMMA ImportBatchesIs ==
    ASSUME NEW c, NEW ops, RowsInto(c, ops), NEW rows \in Rows
    PROVE  ImportBatches(rows, ops) = RowsAfter(rows, ops, Len(ops))
<1> DEFINE n == BatchCount(ops)
           f == CHOOSE f : BatchedBy(f, rows, ops)
           h == [b \in 0 .. n |-> RowsAfter(rows, ops, BatchEnd(ops, b))]
<1>1. ImportBatches(rows, ops) = f[n]
  BY DEF ImportBatches, BatchedBy, BatchInserted, RowsAfter
<1>2. /\ n \in Nat /\ Len(ops) \in Nat
      /\ BatchEnd(ops, 0) = 0 /\ BatchEnd(ops, n) = Len(ops)
      /\ \A b \in 1 .. n :
            /\ BatchEnd(ops, b - 1) = (b - 1) * ReaderRows
            /\ BatchEnd(ops, b - 1) \in 0 .. Len(ops)
            /\ BatchEnd(ops, b) \in BatchEnd(ops, b - 1) .. Len(ops)
  BY BatchEnds DEF RowsInto
<1>3. \A b \in 0 .. n : h[b] = RowsAfter(rows, ops, BatchEnd(ops, b))
  OBVIOUS
<1>4. h = [b \in 0 .. n |-> h[b]]
  OBVIOUS
<1> HIDE DEF n, h
<1>5. h[0] = rows
  <2>1. 0 \in 0 .. n /\ 0 \in 0 .. Len(ops)
    BY <1>2
  <2>2. QED
    BY <1>2, <1>3, <2>1, RowsAfterType
<1>6. ASSUME NEW b \in 1 .. n
      PROVE  h[b] = BatchInserted(h[b - 1], RecordBatch(ops, b))
  <2> DEFINE a == BatchEnd(ops, b - 1)
             e == BatchEnd(ops, b)
  <2>1. b \in 0 .. n /\ b - 1 \in 0 .. n
    BY <1>2
  <2>2. a \in 0 .. Len(ops) /\ e \in a .. Len(ops) /\ a = (b - 1) * ReaderRows
    BY <1>2
  <2>3. h[b] = RowsAfter(rows, ops, e) /\ h[b - 1] = RowsAfter(rows, ops, a)
    BY <1>3, <2>1
  <2>4. RecordBatch(ops, b) = SubSeq(ops, a + 1, e)
    BY <2>2 DEF RecordBatch
  <2> HIDE DEF a, e
  <2>5. RowsAfter(h[b - 1], SubSeq(ops, a + 1, e), Len(SubSeq(ops, a + 1, e))) = h[b]
    BY <2>2, <2>3, BatchAfterRows
  <2>6. QED
    BY <2>4, <2>5 DEF BatchInserted
<1>7. BatchedBy(h, rows, ops)
  <2>1. \A b \in 0 .. n : h[b] = IF b = 0 THEN rows
                                 ELSE BatchInserted(h[b - 1], RecordBatch(ops, b))
    BY <1>2, <1>5, <1>6
  <2>2. QED
    BY <1>4, <2>1 DEF BatchedBy, n
<1>8. BatchedBy(f, rows, ops)
  BY <1>7
<1> HIDE DEF f
<1>9. f[0] = rows /\ \A b \in 1 .. n : f[b] = BatchInserted(f[b - 1], RecordBatch(ops, b))
  <2>1. \A b \in 0 .. n : f[b] = IF b = 0 THEN rows
                                 ELSE BatchInserted(f[b - 1], RecordBatch(ops, b))
    BY <1>8, Zenon DEF BatchedBy, n
  <2>2. 0 \in 0 .. n /\ \A b \in 1 .. n : b \in 0 .. n /\ b # 0
    BY <1>2
  <2>3. QED
    BY <2>1, <2>2
<1>10. n \in Nat /\ f[0] = h[0]
  BY <1>2, <1>5, <1>9
<1>11. ASSUME NEW k \in 1 .. n, f[k - 1] = h[k - 1]
       PROVE  f[k] = h[k]
  BY <1>6, <1>9, <1>11
<1>12. \A k \in 0 .. n : f[k] = h[k]
  BY ONLY <1>10, <1>11, RecursionUnique
<1>13. QED
  BY <1>1, <1>2, <1>3, <1>12

\* A whole import after a partial one of the same file ends where one ends.
LEMMA ImportAgain ==
    ASSUME NEW c, NEW ops, RowsInto(c, ops), NEW rows \in Rows, NEW n \in 0 .. Len(ops)
    PROVE  RowsAfter(RowsAfter(rows, ops, n), ops, Len(ops)) = RowsAfter(rows, ops, Len(ops))
<1> DEFINE L == Len(ops)
<1>1. L \in Nat /\ n \in Nat /\ n <= L /\ L \in 0 .. L
  BY DEF RowsInto
<1> HIDE DEF L
<1>2. ASSUME NEW i \in Ids
      PROVE  BatchRow(BatchRow(rows[i], ops, n, i), ops, L, i) = BatchRow(rows[i], ops, L, i)
  <2> DEFINE old == rows[i]
             half == BatchRow(old, ops, n, i)
             mine(k) == {j \in 1 .. k : ops[j].id = i}
             paid(k) == {j \in mine(k) : ops[j].pay # NoPayload}
             kept(r) == IF r # NoRow THEN r.pay ELSE NoPayload
  <2>1. mine(n) \subseteq mine(L) /\ paid(n) \subseteq paid(L)
    BY <1>1
  <2>2. half \in Row \cup {NoRow} /\ old \in Row \cup {NoRow}
    BY BatchRowType DEF Rows
  <2>3. half = IF mine(n) = {} THEN old
               ELSE [vec |-> ops[LastOf(mine(n))].vec,
                     pay |-> IF paid(n) # {} THEN ops[LastOf(paid(n))].pay ELSE kept(old)]
    BY DEF BatchRow
  <2>4. BatchRow(half, ops, L, i) =
           IF mine(L) = {} THEN half
           ELSE [vec |-> ops[LastOf(mine(L))].vec,
                 pay |-> IF paid(L) # {} THEN ops[LastOf(paid(L))].pay ELSE kept(half)]
    BY DEF BatchRow
  <2>5. BatchRow(old, ops, L, i) =
           IF mine(L) = {} THEN old
           ELSE [vec |-> ops[LastOf(mine(L))].vec,
                 pay |-> IF paid(L) # {} THEN ops[LastOf(paid(L))].pay ELSE kept(old)]
    BY DEF BatchRow
  <2>6. ASSUME paid(L) = {}
        PROVE  kept(half) = kept(old)
    <3>1. paid(n) = {}
      BY <2>1, <2>6
    <3>2. CASE mine(n) = {}
      BY <2>3, <3>2
    <3>3. CASE mine(n) # {}
      <4> DEFINE p == kept(old)
                 v == ops[LastOf(mine(n))].vec
      <4>1. half = [vec |-> v, pay |-> p]
        BY <2>3, <3>1, <3>3
      <4>2. half # NoRow
        <5>1. LastOf(mine(n)) \in 1 .. n
          <6>1. mine(n) \in SUBSET (1 .. n)
            OBVIOUS
          <6>2. QED
            BY <1>1, <3>3, <6>1, LastOfIsIn
        <5>2. v \in Vecs
          <6>1. LastOf(mine(n)) \in 1 .. Len(ops)
            BY <1>1, <5>1 DEF L
          <6>2. QED
            BY <6>1, RowFields
        <5>3. p \in Payloads \cup {NoPayload}
          BY <2>2 DEF Row
        <5> HIDE DEF p, v, half
        <5>4. half \in Row
          BY <4>1, <5>2, <5>3 DEF Row
        <5>5. QED
          BY <5>4, AbsentAssumption
      <4> HIDE DEF p, v, half
      <4>3. half.pay = p
        BY <4>1
      <4>4. kept(half) = half.pay
        BY <4>2
      <4>5. QED
        BY <4>3, <4>4 DEF p
    <3>4. QED
      BY <3>2, <3>3
  <2>7. mine(L) = {} => half = old
    BY <2>1, <2>3
  <2> SUFFICES BatchRow(half, ops, L, i) = BatchRow(old, ops, L, i)
    OBVIOUS
  <2> HIDE DEF half, old, mine, paid, kept
  <2>8. QED
    BY <2>4, <2>5, <2>6, <2>7
<1>3. QED
  BY <1>2 DEF RowsAfter, L

\* The inserts of a file an import takes, with its payload column.
LEMMA ImportInto ==
    ASSUME NEW c \in Collections, NEW file, Importable(file),
           ImportCheck(NewCollection, file, {"payload"}) = "ok"
    PROVE  RowsInto(c, ImportOps(c, file, {"payload"}))
<1> DEFINE ops == ImportOps(c, file, {"payload"})
<1>1. NewCollection \in Collection /\ Absent \notin Collection
  BY AbsentAssumption DEF NewCollection, Collection
<1>2. file.parses /\ file.fits /\ (file.lines = <<>> \/ {"payload"} \subseteq file.cols)
  BY <1>1 DEF ImportCheck
<1>3. ops \in Seq(Inserts)
  <2>1. CASE file.lines = <<>>
    <3>1. DOMAIN file.lines = {}
      BY <2>1
    <3>2. ops = <<>>
      BY <3>1 DEF ImportOps
    <3>3. <<>> \in Seq(Inserts)
      OBVIOUS
    <3>4. QED
      BY <3>2, <3>3
  <2>2. CASE {"payload"} \subseteq file.cols
    BY <1>2, <2>2 DEF Importable, Inserts
  <2>3. QED
    BY <1>2, <2>1, <2>2
<1>4. DOMAIN ops = DOMAIN file.lines /\ \A k \in DOMAIN ops : ops[k].c = c
  BY DEF ImportOps
<1> HIDE DEF ops
<1>5. ops \in Seq(InsertOps) /\ DOMAIN ops = 1 .. Len(ops)
  BY <1>3 DEF Inserts
<1>6. \A k \in 1 .. Len(ops) : ops[k] \in Inserts
  BY <1>3
<1>7. QED
  BY <1>4, <1>5, <1>6 DEF RowsInto, Inserts, ops

\* Imported into an empty collection, an exported file gives the rows it was
\* written from.
LEMMA RoundTrip ==
    ASSUME NEW rows \in Rows, NEW c \in Collections
    PROVE  LET ops == ImportOps(c, ExportFile(rows), {"payload"})
           IN  RowsAfter(NewCollection.rows, ops, Len(ops)) = rows
<1> DEFINE S == Present(rows)
           ids == SetToSeq(S)
           n == Cardinality(S)
           ops == ImportOps(c, ExportFile(rows), {"payload"})
<1>1. /\ n \in Nat /\ ids \in [1 .. n -> S]
      /\ \A a, b \in 1 .. n : ids[a] = ids[b] => a = b
      /\ \A x \in S : \E a \in 1 .. n : ids[a] = x
      /\ ops \in [1 .. n -> Inserts]
      /\ \A k \in 1 .. n : /\ ops[k].id = ids[k] /\ ops[k].vec = rows[ids[k]].vec
                           /\ ops[k].pay = rows[ids[k]].pay
  <2>1. {"payload"} \in SUBSET {"payload"} /\ {"payload"} # {}
    OBVIOUS
  <2>2. QED
    BY <2>1, ExportedOps
<1>2. NewCollection.rows = [i \in Ids |-> NoRow]
  BY DEF NewCollection
<1> SUFFICES RowsAfter(NewCollection.rows, ops, Len(ops)) = rows
  OBVIOUS
<1> HIDE DEF ids, n, ops, S
<1>3. Len(ops) = n
  <2>1. ops \in Seq(Inserts) /\ DOMAIN ops = 1 .. n
    BY <1>1
  <2>2. QED
    BY <1>1, <2>1
<1>4. ASSUME NEW i \in Ids
      PROVE  BatchRow(NoRow, ops, n, i) = rows[i]
  <2> DEFINE mine == {j \in 1 .. n : ops[j].id = i}
             paid == {j \in mine : ops[j].pay # NoPayload}
  <2>1. CASE i \notin S
    <3>1. mine = {}
      BY <1>1, <2>1
    <3>2. rows[i] = NoRow
      BY <2>1 DEF S, Present
    <3>3. QED
      BY <3>1, <3>2 DEF BatchRow
  <2>2. CASE i \in S
    <3>1. PICK a \in 1 .. n : ids[a] = i
      BY <1>1, <2>2
    <3>2. mine = {a}
      BY <1>1, <3>1
    <3>3. ops[a].vec = rows[i].vec /\ ops[a].pay = rows[i].pay
      BY <1>1, <3>1
    <3>4. paid = IF rows[i].pay # NoPayload THEN {a} ELSE {}
      BY <3>2, <3>3
    <3>5. LastOf({a}) = a
      BY DEF LastOf
    <3>6. BatchRow(NoRow, ops, n, i) =
             IF mine = {} THEN NoRow
             ELSE [vec |-> ops[LastOf(mine)].vec,
                   pay |-> IF paid # {} THEN ops[LastOf(paid)].pay ELSE NoPayload]
      BY DEF BatchRow
    <3> HIDE DEF mine, paid
    <3>7. BatchRow(NoRow, ops, n, i) = [vec |-> rows[i].vec, pay |-> rows[i].pay]
      BY <3>2, <3>3, <3>4, <3>5, <3>6
    <3>8. rows[i] \in Row
      BY <2>2 DEF S, Present, Rows
    <3>9. QED
      BY <3>7, <3>8 DEF Row
  <2>3. QED
    BY <2>1, <2>2
<1>5. QED
  BY <1>2, <1>3, <1>4 DEF RowsAfter, Rows

\* Export and import lose nothing, for every file an export or a client left at
\* a path: a finished export gives its rows back, the two import loops agree,
\* and an import that is run again after it broke off ends where one ends.
THEOREM ImportsAreFaithful == Spec => []ImportFaithful
<1>1. ASSUME TypeOK
      PROVE  ImportFaithful
  <2> DEFINE any == CHOOSE c \in Collections : TRUE
             empty == NewCollection.rows
  <2>1. any \in Collections
    BY RequestAssumption
  <2>2. empty \in Rows
    BY DEF NewCollection, Rows
  <2> HIDE DEF any
  <2>3. ASSUME NEW p \in Paths, files[p] # NoFile,
               ImportCheck(NewCollection, files[p].file, {"payload"}) = "ok"
        PROVE  LET ops == ImportOps(any, files[p].file, {"payload"})
                   All(rows) == ImportRows(rows, ops, Len(ops))
                   old == files[p].of
               IN  /\ old # NoFile =>
                         /\ All(empty) = old
                         /\ ImportFromStore(empty, ExportBytes(old), any, {"payload"}) = old
                   /\ \A c \in {d \in Collections : store[d] # Absent} :
                         LET rows == store[c].rows
                         IN  /\ ImportBatches(rows, ops) = All(rows)
                             /\ \A n \in DOMAIN ops :
                                   All(ImportRows(rows, ops, n)) = All(rows)
    <3> DEFINE ops == ImportOps(any, files[p].file, {"payload"})
               All(rows) == ImportRows(rows, ops, Len(ops))
               old == files[p].of
    <3>1. AtPath(files[p])
      BY <1>1, <2>3 DEF TypeOK
    <3>2. RowsInto(any, ops)
      BY <2>1, <2>3, <3>1, ImportInto DEF AtPath
    <3>3. Len(ops) \in 0 .. Len(ops) /\ DOMAIN ops = 1 .. Len(ops) /\ Len(ops) \in Nat
      BY <3>2 DEF RowsInto
    <3>4. ASSUME old # NoFile
          PROVE  /\ All(empty) = old
                 /\ ImportFromStore(empty, ExportBytes(old), any, {"payload"}) = old
      <4>1. old \in Rows /\ files[p].file = ExportFile(old)
        BY <3>1, <3>4 DEF AtPath
      <4>2. RowsAfter(empty, ops, Len(ops)) = old
        BY <2>1, <4>1, RoundTrip
      <4>3. ImportRows(empty, ops, Len(ops)) = old
        BY <2>2, <3>2, <3>3, <4>2, ImportRowsIs
      <4>4. ImportBatches(empty, ops) = old
        BY <2>2, <3>2, <4>2, ImportBatchesIs
      <4>5. ImportFromStore(empty, ExportBytes(old), any, {"payload"}) = ImportBatches(empty, ops)
        BY <4>1 DEF ImportFromStore, ExportBytes
      <4>6. QED
        BY <4>3, <4>4, <4>5
    <3> HIDE DEF ops
    <3>5. ASSUME NEW c \in Collections, store[c] # Absent
          PROVE  /\ ImportBatches(store[c].rows, ops) = All(store[c].rows)
                 /\ \A n \in DOMAIN ops :
                       All(ImportRows(store[c].rows, ops, n)) = All(store[c].rows)
      <4> DEFINE rows == store[c].rows
      <4>1. rows \in Rows
        <5>1. store[c] \in Collection
          BY <1>1, <3>5 DEF TypeOK, Store
        <5>2. QED
          BY <5>1 DEF Collection, Rows
      <4> HIDE DEF rows
      <4>2. All(rows) = RowsAfter(rows, ops, Len(ops))
        BY <3>2, <3>3, <4>1, ImportRowsIs
      <4>3. ImportBatches(rows, ops) = All(rows)
        BY <3>2, <4>1, <4>2, ImportBatchesIs
      <4>4. ASSUME NEW n \in DOMAIN ops
            PROVE  All(ImportRows(rows, ops, n)) = All(rows)
        <5>1. n \in 0 .. Len(ops)
          BY <3>3
        <5>2. ImportRows(rows, ops, n) = RowsAfter(rows, ops, n) /\ RowsAfter(rows, ops, n) \in Rows
          BY <3>2, <4>1, <5>1, ImportRowsIs, RowsAfterType
        <5> DEFINE half == ImportRows(rows, ops, n)
        <5>3. half \in Rows /\ half = RowsAfter(rows, ops, n)
          BY <5>2
        <5> HIDE DEF half
        <5>4. All(half) = RowsAfter(half, ops, Len(ops))
          BY <3>2, <3>3, <5>3, ImportRowsIs
        <5>5. RowsAfter(half, ops, Len(ops)) = RowsAfter(rows, ops, Len(ops))
          BY <3>2, <4>1, <5>1, <5>3, ImportAgain
        <5>6. QED
          BY <4>2, <5>4, <5>5 DEF half
      <4>5. QED
        BY <4>3, <4>4 DEF rows
    <3>6. QED
      BY <3>4, <3>5 DEF ops
  <2>4. QED
    BY <2>3 DEF ImportFaithful, any
<1>2. QED
  BY <1>1, ServerTypes, PTL
=============================================================================
