----------------------- MODULE SourceMaintenanceProofs -----------------------
(***************************************************************************)
(* Proofs about the IndexMaintenanceTask, for every set of source tables   *)
(* and ids and any number of commits, client calls, failing writes and     *)
(* crashes: types, the table a moved watermark belongs to, that a          *)
(* retraining stays due, and that the rows mirror the snapshot the         *)
(* watermark names.                                                        *)
(*                                                                         *)
(* One inductive invariant serves all of them.  Good says what may be      *)
(* under the name, live or in a snapshot; ScanOK what the scan under way   *)
(* does to any rows it may meet, which for a diff is DiffScan, by          *)
(* induction along the commits of its range.                               *)
(***************************************************************************)
EXTENDS SourceMaintenance, DataInduction

Vecs == Nat \cup {NoVec, ClientVec, Torn}

\* Rows with vectors of any dimension: what is applied before it is looked at.
AnyRows == [Ids -> Vecs \cup {BadVec}]

\* The collection in full, with the history fields.
Coll == [kind : {"flat", "ivf"}, rows : [Ids -> Vecs], binding : Tables \cup {NoBinding},
         mark : Mark, atBind : Mark, stale : SUBSET Ids]

\* A watermark moved since the last bind is one of the table bound.
OwnMark(c) == c.mark # c.atBind => c.mark[1] = c.binding

\* A watermark is a snapshot of a table.
Names(tabs, mark) == mark[1] \in Tables /\ mark[2] \in 1 .. Len(tabs[mark[1]].snaps)

\* Rows that are not stale are those of the snapshot the watermark names.
Mirrors(tabs, c) ==
    c.mark # NoMark =>
        /\ Names(tabs, c.mark)
        /\ \A i \in Ids \ c.stale : c.rows[i] = RowsAt(tabs[c.mark[1]], c.mark[2])[i]

\* What can be under the name: nothing, or a collection with its own watermark.
Good(tabs) == {Absent} \cup {c \in Coll : OwnMark(c) /\ Mirrors(tabs, c)}

WalOp == [op : {"create"}, kind : Kinds] \cup [op : {"drop"}]
            \cup [op : {"bind"}, table : Tables]
            \cup [op : {"write"}, id : Ids, vec : {ClientVec, NoVec}]

DeltaRow == [op : {"upsert"}, id : Ids, vec : Nat \cup {BadVec, NoVec}]
               \cup [op : {"delete"}, id : Ids]

----------------------------------------------------------------------------
(* The inductive invariant *)

\* The tables between commits: snapshots descend from older ones.
TableOK(table) ==
    /\ table \in [snaps : Seq(Snapshot), current : Nat, expired : SUBSET Nat]
    /\ table.current <= Len(table.snaps)
    /\ table.expired \subseteq 1 .. Len(table.snaps)
    /\ \A n \in 1 .. Len(table.snaps) : table.snaps[n].parent < n

\* s is a commit of this kind on the row of id i, over the rows before it.
CommitOf(s, kind, i, before) ==
    /\ s.kind = kind /\ s.id = i
    /\ \A j \in Ids : (j # i \/ kind = "manifests") => s.rows[j] = before[j]
    /\ kind \in {"drop", "delete"} => s.rows[i] = NoVec /\ before[i] # NoVec
    /\ kind \in FileAdds => s.rows[i] # NoVec

\* Entries shown as Added or Deleted are of commits that added or dropped a file.
EntriesOf(table, s) ==
    /\ \A n \in s.added : n \in 1 .. Len(table.snaps) /\ table.snaps[n].kind \in FileAdds
    /\ \A n \in s.dropped : n \in 1 .. Len(table.snaps) /\ table.snaps[n].kind \in FileDrops

\* Every commit changes one row at most, and a row it removes was there.
SnapsOK(table) ==
    \A n \in 1 .. Len(table.snaps) :
        LET s == table.snaps[n]
        IN  CommitOf(s, s.kind, s.id, RowsAt(table, s.parent)) /\ EntriesOf(table, s)

TablesOK ==
    /\ commits \in 0 .. MaxCommits
    /\ DOMAIN tables = Tables /\ tables = [t \in Tables |-> tables[t]]
    /\ \A t \in Tables : /\ TableOK(tables[t]) /\ SnapsOK(tables[t])
                         /\ Len(tables[t].snaps) <= commits

\* What applying a scan does to any rows: it brings what it shows, and leaves alone
\* what a full scan does not have and what a diff finds unchanged.
ScanDoes(rows, i, full, shown, hidden, after, src, dst) ==
    /\ i \in shown => after = dst
    /\ i \notin shown /\ full => after = rows /\ dst = NoVec
    /\ i \notin shown /\ i \notin hidden /\ ~full => after = rows /\ dst = src

ScanOK(tabs, tk) ==
    /\ tk.to \in 1 .. Len(tabs[tk.binding].snaps)
    /\ tk.full \in BOOLEAN /\ tk.shown \in SUBSET Ids /\ tk.hidden \in SUBSET Ids
    /\ ~tk.full => /\ tk.from # NoMark /\ tk.from[1] = tk.binding
                   /\ tk.from[2] \in 1 .. Len(tabs[tk.binding].snaps)
    /\ \A rows \in AnyRows, i \in Ids :
           ScanDoes(rows[i], i, tk.full, tk.shown, tk.hidden, ApplyRows(rows, tk.rows)[i],
                    RowsAt(tabs[tk.binding], tk.from[2])[i], RowsAt(tabs[tk.binding], tk.to)[i])

\* What the task carries from step to step.
TaskOK ==
    /\ task.pc \in {"idle", "observed", "scanned", "applied", "compacting"}
    /\ task.pc \in {"observed", "scanned"} => task.binding \in Tables /\ task.from \in Mark
    /\ task.pc = "observed" /\ task.from # NoMark => Names(tables, task.from)
    /\ task.pc = "scanned" => /\ task.to \in 1 .. MaxCommits /\ task.rows \in Seq(DeltaRow)
                              /\ ScanOK(tables, task)
    /\ task.pc = "applied" => task.n \in Nat
    /\ task.pc = "compacting" => EveryNRows <= counter

\* The rows applied and not yet counted are those the task carries.
DueOK ==
    (coll # Absent /\ coll.kind = "ivf" /\ EveryNRows # 0)
        => since <= IF task.pc = "applied" THEN Saturating(counter, task.n) ELSE counter

IInv ==
    /\ TablesOK
    /\ coll \in Good(tables) /\ snap \in Good(tables) /\ wal \in Seq(WalOp)
    /\ counter \in 0 .. MaxCount /\ since \in 0 .. MaxCount
    /\ TaskOK
    /\ DueOK

----------------------------------------------------------------------------
(* Replay *)

\* A client's call keeps the watermark the binding's own, since a rebind starts
\* afresh, and honest, since what a client writes is stale.
LEMMA EffectType ==
    ASSUME NEW tabs, NEW c \in Good(tabs), NEW op \in WalOp
    PROVE  Effect(c, op) \in Good(tabs)
<1>1. CASE op \in [op : {"create"}, kind : Kinds]
  <2>1. op.op = "create" /\ op.kind \in {"flat", "ivf"}
    BY <1>1, SourceAssumption
  <2>2. NewCollection(op.kind) \in Coll
    BY <2>1 DEF NewCollection, Coll, EmptyRows, Vecs, Mark
  <2>3. OwnMark(NewCollection(op.kind)) /\ Mirrors(tabs, NewCollection(op.kind))
    BY DEF NewCollection, OwnMark, Mirrors
  <2>4. QED
    BY <2>1, <2>2, <2>3 DEF Effect, Good
<1>2. CASE op \in [op : {"drop"}]
  BY <1>2 DEF Effect, Good
<1>3. CASE op \in [op : {"bind"}, table : Tables] /\ c # Absent
  <2>1. op.op = "bind" /\ op.table \in Tables /\ c \in Coll /\ Mirrors(tabs, c)
    BY <1>3 DEF Good
  <2> DEFINE d == [c EXCEPT !.binding = op.table, !.atBind = c.mark]
  <2>2. /\ d \in Coll /\ d.mark = d.atBind
        /\ d.mark = c.mark /\ d.rows = c.rows /\ d.stale = c.stale
    BY <2>1 DEF Coll
  <2>3. Effect(c, op) = d
    BY <1>3, <2>1 DEF Effect
  <2> HIDE DEF d
  <2>4. OwnMark(d) /\ Mirrors(tabs, d)
    BY <2>1, <2>2 DEF OwnMark, Mirrors
  <2>5. QED
    BY <2>2, <2>3, <2>4 DEF Good
<1>4. CASE op \in [op : {"write"}, id : Ids, vec : {ClientVec, NoVec}] /\ c # Absent
  <2>1. /\ op.op = "write" /\ op.id \in Ids /\ op.vec \in {ClientVec, NoVec}
        /\ c \in Coll /\ OwnMark(c) /\ Mirrors(tabs, c)
    BY <1>4 DEF Good
  <2> DEFINE stale == c.stale \cup {op.id}
             rows == [c.rows EXCEPT ![op.id] = op.vec]
             d == [c EXCEPT !.rows = rows, !.stale = stale]
  <2>2. rows \in [Ids -> Vecs] /\ \A i \in Ids : i # op.id => rows[i] = c.rows[i]
    BY <2>1 DEF Coll, Vecs
  <2>3. stale \in SUBSET Ids /\ \A i \in Ids \ stale : i \in Ids \ c.stale /\ i # op.id
    BY <2>1 DEF Coll
  <2>4. Effect(c, op) = d
    BY <1>4, <2>1 DEF Effect
  <2> HIDE DEF rows, stale
  <2>5. /\ d \in Coll /\ d.mark = c.mark /\ d.atBind = c.atBind /\ d.binding = c.binding
        /\ d.rows = rows /\ d.stale = stale
    BY <2>1, <2>2, <2>3 DEF Coll
  <2> HIDE DEF d
  <2>6. OwnMark(d) /\ Mirrors(tabs, d)
    BY <2>1, <2>2, <2>3, <2>5 DEF OwnMark, Mirrors
  <2>7. QED
    BY <2>4, <2>5, <2>6 DEF Good
<1>5. CASE op.op \in {"bind", "write"} /\ c = Absent
  BY <1>5 DEF Effect
<1>6. QED
  BY <1>1, <1>2, <1>3, <1>4, <1>5 DEF WalOp


\* f holds what replaying the first k entries leaves under the name.
ReplayBy(f, c, log) ==
    f = [k \in 0 .. Len(log) |-> IF k = 0 THEN c ELSE Effect(f[k - 1], log[k])]

\* A function that replays step by step is the replay.
LEMMA ReplayIs ==
    ASSUME NEW c, NEW log \in Seq(WalOp), NEW g, g[0] = c,
           \A k \in 1 .. Len(log) : g[k] = Effect(g[k - 1], log[k])
    PROVE  Replay(c, log) = g[Len(log)]
<1> DEFINE f == CHOOSE f : ReplayBy(f, c, log)
           h == [k \in 0 .. Len(log) |-> g[k]]
<1>1. Replay(c, log) = f[Len(log)]
  BY DEF Replay, ReplayBy
<1>2. Len(log) \in Nat
  OBVIOUS
<1>3. ASSUME NEW k \in 0 .. Len(log)
      PROVE  h[k] = IF k = 0 THEN c ELSE Effect(h[k - 1], log[k])
  BY <1>2
<1>4. ReplayBy(h, c, log)
  <2> HIDE DEF h
  <2>1. h = [k \in 0 .. Len(log) |-> h[k]]
    BY DEF h
  <2>2. QED
    BY <1>3, <2>1 DEF ReplayBy
<1>5. ReplayBy(f, c, log)
  BY <1>4
<1> HIDE DEF f, h
<1>6. f[0] = c /\ \A k \in 1 .. Len(log) : f[k] = Effect(f[k - 1], log[k])
  <2>1. \A k \in 0 .. Len(log) : f[k] = IF k = 0 THEN c ELSE Effect(f[k - 1], log[k])
    BY <1>5, Zenon DEF ReplayBy
  <2>2. 0 \in 0 .. Len(log) /\ \A k \in 1 .. Len(log) : k \in 0 .. Len(log) /\ k # 0
    BY <1>2
  <2>3. QED
    BY <2>1, <2>2
<1>7. f[0] = g[0] /\ \A k \in 1 .. Len(log) : f[k - 1] = g[k - 1] => f[k] = g[k]
  BY <1>6
<1>8. \A k \in 0 .. Len(log) : f[k] = g[k]
  BY ONLY <1>2, <1>7, RecursionUnique
<1>9. QED
  BY <1>1, <1>2, <1>8

\* Replay stays in every set that one entry stays in.
LEMMA ReplayStays ==
    ASSUME NEW V, \A v \in V, op \in WalOp : Effect(v, op) \in V,
           NEW c \in V, NEW log \in Seq(WalOp)
    PROVE  Replay(c, log) \in V
<1> DEFINE n == Len(log)
           base == c
           h == [k \in 1 .. n |-> [v \in V |-> Effect(v, log[k])]]
<1>1. n \in Nat /\ base \in V /\ \A k \in 1 .. n : log[k] \in WalOp
  OBVIOUS
<1>2. \A k \in 1 .. n, v \in V : Effect(v, log[k]) \in V
  BY <1>1
<1>3. h \in StepsOn(V, n)
  BY <1>2 DEF StepsOn
<1>4. \A k \in 1 .. n, v \in V : h[k][v] = Effect(v, log[k])
  BY Zenon
<1> HIDE DEF h, n, base
<1>5. PICK g : SolvedBy(g, V, base, n, h)
  BY <1>1, <1>3, Recursion
<1>6. g \in [0 .. n -> V] /\ g[0] = base /\ \A k \in 1 .. n : g[k] = h[k][g[k - 1]]
  BY <1>5 DEF SolvedBy
<1>7. \A k \in 1 .. n : g[k - 1] \in V
  BY <1>1, <1>6
<1>8. \A k \in 1 .. n : g[k] = Effect(g[k - 1], log[k])
  BY <1>4, <1>6, <1>7
<1>9. Replay(c, log) = g[n]
  BY <1>6, <1>8, ReplayIs DEF n, base
<1>10. g[n] \in V
  BY <1>1, <1>6
<1>11. QED
  BY <1>9, <1>10

\* Recovery leaves a collection with its own, honest watermark, or none.
LEMMA ReplayType ==
    ASSUME NEW tabs, NEW c \in Good(tabs), NEW log \in Seq(WalOp)
    PROVE  Replay(c, log) \in Good(tabs)
<1> DEFINE V == Good(tabs)
<1>1. \A v \in V, op \in WalOp : Effect(v, op) \in V
  BY EffectType
<1>2. c \in V
  OBVIOUS
<1> HIDE DEF V
<1>3. Replay(c, log) \in V
  BY <1>1, <1>2, ReplayStays
<1>4. QED
  BY <1>3 DEF V

\* A call with one entry is the effect of the entry.
LEMMA ReplayOne ==
    ASSUME NEW c, NEW op \in WalOp
    PROVE  Replay(c, <<op>>) = Effect(c, op)
<1> DEFINE log == <<op>>
           d == Effect(c, op)
           g == [k \in 0 .. 1 |-> IF k = 0 THEN c ELSE d]
<1>1. log \in Seq(WalOp) /\ Len(log) = 1 /\ log[1] = op
  OBVIOUS
<1> HIDE DEF d
<1>2. g[0] = c /\ g[1] = d
  OBVIOUS
<1> HIDE DEF log, g
<1>3. \A k \in 1 .. Len(log) : g[k] = Effect(g[k - 1], log[k])
  <2>1. \A k \in 1 .. Len(log) : k = 1 /\ k - 1 = 0
    BY <1>1
  <2>2. QED
    BY <1>1, <1>2, <2>1 DEF d
<1>4. Replay(c, log) = g[Len(log)]
  BY <1>1, <1>2, <1>3, ReplayIs
<1>5. QED
  BY <1>1, <1>2, <1>4 DEF log, d

----------------------------------------------------------------------------
(* apply_delta_row *)

Refused(r) == r.op = "upsert" /\ r.vec = BadVec

TakenRow == {r \in DeltaRow : ~Refused(r)}

\* A row that is not refused leaves rows of the right dimension.
LEMMA ApplyRowType ==
    ASSUME NEW rows \in [Ids -> Vecs], NEW r \in TakenRow
    PROVE  ApplyRow(rows, r) \in [Ids -> Vecs]
<1>1. CASE r \in [op : {"upsert"}, id : Ids, vec : Nat \cup {BadVec, NoVec}]
  <2>1. r.op = "upsert" /\ r.id \in Ids /\ r.vec \in Vecs
    BY <1>1 DEF TakenRow, Refused, Vecs
  <2>2. QED
    BY <2>1 DEF ApplyRow
<1>2. CASE r \in [op : {"delete"}, id : Ids]
  <2>1. r.op = "delete" /\ r.id \in Ids /\ NoVec \in Vecs
    BY <1>2 DEF Vecs
  <2>2. QED
    BY <2>1 DEF ApplyRow
<1>3. QED
  BY <1>1, <1>2 DEF TakenRow, DeltaRow

\* f holds the rows after the first k rows of the scan.
AppliedBy(f, rows, rs) ==
    f = [k \in 0 .. Len(rs) |-> IF k = 0 THEN rows ELSE ApplyRow(f[k - 1], rs[k])]

\* A function that holds the rows after each row of the scan.
Applies(g, V, rows, rs) ==
    /\ g \in [0 .. Len(rs) -> V] /\ g[0] = rows
    /\ \A k \in 1 .. Len(rs) : g[k] = ApplyRow(g[k - 1], rs[k])

\* Rows applied one after the other, in every set that one row stays in.
LEMMA ApplyRowsIs ==
    ASSUME NEW V, NEW R, \A v \in V, r \in R : ApplyRow(v, r) \in V,
           NEW rows \in V, NEW rs \in Seq(R)
    PROVE  \E g : Applies(g, V, rows, rs) /\ ApplyRows(rows, rs) = g[Len(rs)]
<1> DEFINE n == Len(rs)
           base == rows
           h == [k \in 1 .. n |-> [v \in V |-> ApplyRow(v, rs[k])]]
<1>1. n \in Nat /\ base \in V /\ \A k \in 1 .. n : rs[k] \in R
  OBVIOUS
<1>2. \A k \in 1 .. n, v \in V : ApplyRow(v, rs[k]) \in V
  BY <1>1
<1>3. h \in StepsOn(V, n)
  BY <1>2 DEF StepsOn
<1>4. \A k \in 1 .. n, v \in V : h[k][v] = ApplyRow(v, rs[k])
  BY Zenon
<1> HIDE DEF h, n, base
<1>5. PICK g : SolvedBy(g, V, base, n, h)
  BY <1>1, <1>3, Recursion
<1>6. g \in [0 .. n -> V] /\ g[0] = base /\ \A k \in 1 .. n : g[k] = h[k][g[k - 1]]
  BY <1>5 DEF SolvedBy
<1>7. \A k \in 1 .. n : g[k - 1] \in V
  BY <1>1, <1>6
<1>8. \A k \in 1 .. n : g[k] = ApplyRow(g[k - 1], rs[k])
  BY <1>4, <1>6, <1>7
<1>9. AppliedBy(g, rows, rs)
  <2>1. g = [k \in 0 .. Len(rs) |-> g[k]]
    BY <1>6 DEF n
  <2>2. \A k \in 0 .. n : g[k] = IF k = 0 THEN rows ELSE ApplyRow(g[k - 1], rs[k])
    BY <1>1, <1>6, <1>8 DEF base
  <2>3. QED
    BY <2>1, <2>2 DEF AppliedBy, n
<1> DEFINE f == CHOOSE f : AppliedBy(f, rows, rs)
<1>10. ApplyRows(rows, rs) = f[n]
  BY DEF ApplyRows, AppliedBy, n
<1>11. AppliedBy(f, rows, rs)
  BY <1>9
<1> HIDE DEF f
<1>12. f[0] = rows /\ \A k \in 1 .. n : f[k] = ApplyRow(f[k - 1], rs[k])
  <2>1. \A k \in 0 .. n : f[k] = IF k = 0 THEN rows ELSE ApplyRow(f[k - 1], rs[k])
    BY <1>11, Zenon DEF AppliedBy, n
  <2>2. 0 \in 0 .. n /\ \A k \in 1 .. n : k \in 0 .. n /\ k # 0
    BY <1>1
  <2>3. QED
    BY <2>1, <2>2
<1>13. f[0] = g[0] /\ \A k \in 1 .. n : f[k - 1] = g[k - 1] => f[k] = g[k]
  BY <1>6, <1>8, <1>12 DEF base
<1>14. \A k \in 0 .. n : f[k] = g[k]
  BY ONLY <1>1, <1>13, RecursionUnique
<1>15. ApplyRows(rows, rs) = g[n]
  BY <1>1, <1>10, <1>14
<1>16. QED
  BY <1>6, <1>8, <1>15 DEF n, base, Applies

\* Rows that are taken leave rows of the right dimension.
LEMMA ApplyRowsType ==
    ASSUME NEW rows \in [Ids -> Vecs], NEW rs \in Seq(TakenRow)
    PROVE  ApplyRows(rows, rs) \in [Ids -> Vecs]
<1> DEFINE V == [Ids -> Vecs]
<1>1. rows \in V /\ \A v \in V, r \in TakenRow : ApplyRow(v, r) \in V
  BY ApplyRowType
<1> HIDE DEF V
<1>2. PICK g : Applies(g, V, rows, rs) /\ ApplyRows(rows, rs) = g[Len(rs)]
  BY <1>1, ApplyRowsIs
<1>3. Len(rs) \in 0 .. Len(rs)
  OBVIOUS
<1>4. QED
  BY <1>2, <1>3 DEF V, Applies

\* FirstBad is the first row refused, if any.
LEMMA FirstBadIs ==
    ASSUME NEW rs \in Seq(DeltaRow)
    PROVE  /\ FirstBad(rs) = 0 => rs \in Seq(TakenRow)
           /\ FirstBad(rs) # 0 => /\ FirstBad(rs) \in 1 .. Len(rs)
                                  /\ SubSeq(rs, 1, FirstBad(rs) - 1) \in Seq(TakenRow)
<1> DEFINE I == {i \in 1 .. Len(rs) : Refused(rs[i])}
<1>1. FirstBad(rs) = IF I # {} THEN Min(I) ELSE 0
  BY DEF FirstBad, SelectInSeq, Refused
<1>2. \A i \in 1 .. Len(rs) : rs[i] \in DeltaRow
  OBVIOUS
<1>3. CASE I = {}
  <2>1. \A i \in 1 .. Len(rs) : rs[i] \in TakenRow
    BY <1>2, <1>3 DEF TakenRow
  <2>2. rs \in Seq(TakenRow)
    BY <2>1
  <2>3. QED
    BY <1>1, <1>3, <2>2
<1>4. CASE I # {}
  <2>1. \E m \in I : \A y \in I : m <= y
    <3>1. I \in SUBSET Nat
      OBVIOUS
    <3> HIDE DEF I
    <3>2. QED
      BY <1>4, <3>1, LeastNatural
  <2> DEFINE m == Min(I)
  <2>2. m \in I /\ \A y \in I : m <= y
    BY <2>1 DEF Min
  <2>3. m \in 1 .. Len(rs)
    BY <2>2
  <2> HIDE DEF m
  <2> DEFINE q == SubSeq(rs, 1, m - 1)
  <2>4. Len(q) = m - 1 /\ q \in Seq(DeltaRow) /\ \A i \in 1 .. m - 1 : q[i] = rs[i]
    BY <2>3
  <2>5. \A i \in 1 .. m - 1 : rs[i] \in TakenRow
    <3>1. \A i \in 1 .. m - 1 : i \in 1 .. Len(rs) /\ i \notin I
      BY <2>2, <2>3
    <3>2. QED
      BY <1>2, <3>1 DEF TakenRow
  <2> HIDE DEF q
  <2>6. q \in Seq(TakenRow)
    BY <2>3, <2>4, <2>5
  <2>7. FirstBad(rs) = m /\ m # 0
    BY <1>1, <1>4, <2>3 DEF m
  <2>8. QED
    BY <2>3, <2>6, <2>7 DEF q
<1>5. QED
  BY <1>3, <1>4

\* What comes before row k, if no row up to it is refused.
LEMMA TakenBefore ==
    ASSUME NEW rs \in Seq(DeltaRow), NEW k \in 1 .. Len(rs), FirstBad(SubSeq(rs, 1, k)) = 0
    PROVE  SubSeq(rs, 1, k - 1) \in Seq(TakenRow)
<1> DEFINE q == SubSeq(rs, 1, k)
           p == SubSeq(rs, 1, k - 1)
<1>1. q \in Seq(DeltaRow) /\ Len(q) = k /\ \A j \in 1 .. k : q[j] = rs[j]
  OBVIOUS
<1>2. Len(p) = k - 1 /\ p \in Seq(DeltaRow) /\ \A j \in 1 .. k - 1 : p[j] = rs[j]
  OBVIOUS
<1> HIDE DEF p
<1>3. q \in Seq(TakenRow)
  <2> HIDE DEF q
  <2>1. QED
    BY <1>1, FirstBadIs DEF q
<1> HIDE DEF q
<1>4. \A j \in 1 .. k - 1 : p[j] \in TakenRow
  <2>1. \A j \in 1 .. k - 1 : j \in 1 .. k
    OBVIOUS
  <2>2. QED
    BY <1>1, <1>2, <1>3, <2>1
<1>5. p \in Seq(TakenRow)
  BY <1>2, <1>4
<1>6. QED
  BY <1>5 DEF p

\* A row whose full-text write fails touches its own id only.
LEMMA HalfApplyRowType ==
    ASSUME NEW rows \in [Ids -> Vecs], NEW r \in DeltaRow
    PROVE  /\ HalfApplyRow(rows, r) \in [Ids -> Vecs]
           /\ \A i \in Ids : i # r.id => HalfApplyRow(rows, r)[i] = rows[i]
<1> DEFINE v == IF r.op = "delete" THEN NoVec ELSE Torn
<1>1. v \in Vecs
  BY DEF Vecs
<1>2. HalfApplyRow(rows, r) = [rows EXCEPT ![r.id] = v]
  BY DEF HalfApplyRow
<1> HIDE DEF v
<1>3. QED
  BY <1>1, <1>2

----------------------------------------------------------------------------
(* scan_delta *)

\* f holds the snapshots from n back to where the walk ends, oldest first.
WalkedBy(f, table, from) ==
    f = [n \in 0 .. Len(table.snaps) |->
            IF n \in {0, from} \cup table.expired THEN <<>>
            ELSE Append(f[table.snaps[n].parent], n)]

\* The walk through the parents ends, meets snapshots of the table, and goes on
\* from every snapshot to its parent.
LEMMA CommitRangeIs ==
    ASSUME NEW table, TableOK(table), NEW from, NEW to \in 0 .. Len(table.snaps)
    PROVE  /\ CommitRange(table, from, to) \in Seq(1 .. Len(table.snaps))
           /\ CommitRange(table, from, to) =
                 IF to \in {0, from} \cup table.expired THEN <<>>
                 ELSE Append(CommitRange(table, from, table.snaps[to].parent), to)
<1> DEFINE n == Len(table.snaps)
           V == Seq(1 .. n)
           base == <<>>
           Stop == {0, from} \cup table.expired
           p == [k \in 1 .. n |-> table.snaps[k].parent]
           h == [k \in 1 .. n |-> [v \in V |-> IF k \in Stop THEN base ELSE Append(v, k)]]
<1>1. /\ n \in Nat /\ table.snaps \in Seq(Snapshot)
      /\ \A k \in 1 .. n : table.snaps[k] \in Snapshot /\ table.snaps[k].parent < k
  BY DEF TableOK
<1>2. \A k \in 1 .. n : table.snaps[k].parent \in Nat
  BY <1>1 DEF Snapshot
<1>3. p \in Parents(n) /\ \A k \in 1 .. n : p[k] = table.snaps[k].parent
  BY <1>1, <1>2 DEF Parents
<1>4. base \in V /\ \A k \in 1 .. n, v \in V : Append(v, k) \in V
  OBVIOUS
<1> HIDE DEF V, Stop, base
<1>5. h \in StepsOn(V, n)
  BY <1>4 DEF StepsOn
<1>6. \A k \in 1 .. n, v \in V : h[k][v] = IF k \in Stop THEN base ELSE Append(v, k)
  BY Zenon
<1> HIDE DEF h, n, p
<1>7. PICK g : ParentSolved(g, V, base, n, p, h)
  BY <1>1, <1>3, <1>4, <1>5, ParentRecursion
<1>8. g \in [0 .. n -> V] /\ g[0] = base /\ \A k \in 1 .. n : g[k] = h[k][g[p[k]]]
  BY <1>7 DEF ParentSolved
<1>9. \A k \in 1 .. n : p[k] \in 0 .. n
  BY <1>1, <1>2, <1>3
<1>10. \A k \in 1 .. n : g[k] = IF k \in Stop THEN base ELSE Append(g[table.snaps[k].parent], k)
  BY <1>3, <1>6, <1>8, <1>9
<1>11. WalkedBy(g, table, from)
  <2>1. g = [k \in 0 .. Len(table.snaps) |-> g[k]]
    BY <1>8 DEF n
  <2>2. \A k \in 0 .. n : g[k] = IF k \in {0, from} \cup table.expired THEN <<>>
                                 ELSE Append(g[table.snaps[k].parent], k)
    <3>1. \A k \in 0 .. n : k = 0 \/ k \in 1 .. n
      BY <1>1
    <3>2. QED
      BY <1>8, <1>10, <3>1 DEF Stop, base
  <2>3. QED
    BY <2>1, <2>2 DEF WalkedBy, n
<1> DEFINE f == CHOOSE f : WalkedBy(f, table, from)
<1>12. \A k : CommitRange(table, from, k) = f[k]
  BY DEF CommitRange, WalkedBy
<1>13. WalkedBy(f, table, from)
  BY <1>11
<1> HIDE DEF f
<1>14. /\ f[0] = base
       /\ \A k \in 1 .. n : f[k] = IF k \in Stop THEN base ELSE Append(f[table.snaps[k].parent], k)
  <2>1. \A k \in 0 .. n : f[k] = IF k \in {0, from} \cup table.expired THEN <<>>
                                 ELSE Append(f[table.snaps[k].parent], k)
    BY <1>13, Zenon DEF WalkedBy, n
  <2>2. 0 \in 0 .. n /\ \A k \in 1 .. n : k \in 0 .. n
    BY <1>1
  <2>3. QED
    BY <2>1, <2>2 DEF Stop, base
<1>15. f[0] = g[0] /\ \A k \in 1 .. n : f[p[k]] = g[p[k]] => f[k] = g[k]
  BY <1>3, <1>8, <1>10, <1>14
<1>16. \A k \in 0 .. n : f[k] = g[k]
  BY ONLY <1>1, <1>3, <1>15, ParentUnique
<1>17. f[to] \in V
  BY <1>8, <1>16 DEF n
<1>18. f[to] = IF to \in {0, from} \cup table.expired THEN <<>>
               ELSE Append(f[table.snaps[to].parent], to)
  <2>1. to = 0 \/ to \in 1 .. n
    BY <1>1 DEF n
  <2>2. QED
    BY <1>14, <2>1 DEF Stop, base
<1>19. QED
  BY <1>12, <1>17, <1>18 DEF V, n

\* Its type alone.
LEMMA CommitRangeType ==
    ASSUME NEW table, TableOK(table), NEW from, NEW to \in 0 .. Len(table.snaps)
    PROVE  CommitRange(table, from, to) \in Seq(1 .. Len(table.snaps))
  BY CommitRangeIs

\* As many different elements of a finite set as it has are all of them.
LEMMA AllElements ==
    ASSUME NEW S, IsFiniteSet(S), NEW f \in [1 .. Cardinality(S) -> S],
           \A a, b \in 1 .. Cardinality(S) : f[a] = f[b] => a = b
    PROVE  \A x \in S : \E k \in 1 .. Cardinality(S) : f[k] = x
<1> DEFINE n == Cardinality(S)
<1>1. n \in Nat
  BY FS_CardinalityType
<1>2. Cardinality(1 .. n) = n
  BY <1>1, FS_Interval
<1>3. f \in Injection(1 .. n, S)
  BY Zenon DEF Injection, IsInjective
<1>4. f \in Surjection(1 .. n, S)
  BY <1>2, <1>3, FS_Injection
<1>5. QED
  BY <1>4, Zenon DEF Surjection

\* The elements of a finite set in some order.
LEMMA SetToSeqType ==
    ASSUME NEW T, NEW S \in SUBSET T, IsFiniteSet(S)
    PROVE  /\ SetToSeq(S) \in Seq(T)
           /\ \A k \in 1 .. Len(SetToSeq(S)) : SetToSeq(S)[k] \in S
           /\ \A x \in S : \E k \in 1 .. Len(SetToSeq(S)) : SetToSeq(S)[k] = x
<1> DEFINE q == SetToSeq(S)
           n == Cardinality(S)
<1>1. n \in Nat /\ ExistsBijection(1 .. n, S)
  BY FS_CardinalityType
<1>2. \E f \in [1 .. n -> S] : IsInjective(f)
  BY <1>1, Zenon DEF ExistsBijection, Bijection, Injection
<1>3. q \in [1 .. n -> S] /\ IsInjective(q)
  BY <1>2, Zenon DEF SetToSeq
<1> HIDE DEF q
<1>4. \A a, b \in 1 .. n : q[a] = q[b] => a = b
  BY <1>3 DEF IsInjective
<1>5. \A x \in S : \E k \in 1 .. n : q[k] = x
  BY <1>3, <1>4, AllElements
<1>6. q \in Seq(T) /\ Len(q) = n
  BY <1>1, <1>3
<1>7. QED
  BY <1>3, <1>5, <1>6 DEF q

\* f holds what the first i sequences make in a row.
FlattenedBy(f, seqs) ==
    f = [i \in 1 .. Len(seqs) |-> IF i = 1 THEN seqs[i] ELSE f[i - 1] \o seqs[i]]

\* g holds what the first k sequences make, from none on.
Flattens(g, V, seqs) ==
    /\ g \in [0 .. Len(seqs) -> V] /\ g[0] = <<>>
    /\ \A k \in 1 .. Len(seqs) : g[k] = g[k - 1] \o seqs[k]

\* Sequences in a row are put together one after the other.
LEMMA FlattenSeqIs ==
    ASSUME NEW S, NEW seqs \in Seq(Seq(S))
    PROVE  \E g : Flattens(g, Seq(S), seqs) /\ FlattenSeq(seqs) = g[Len(seqs)]
<1> DEFINE n == Len(seqs)
           V == Seq(S)
           base == <<>>
           h == [k \in 1 .. n |-> [v \in V |-> IF k = 1 THEN seqs[k] ELSE v \o seqs[k]]]
<1>1. n \in Nat /\ base \in V /\ \A k \in 1 .. n : seqs[k] \in V
  OBVIOUS
<1>2. \A k \in 1 .. n, v \in V : v \o seqs[k] \in V
  BY <1>1
<1>3. CASE n = 0
  <2>1. seqs = <<>> /\ FlattenSeq(seqs) = seqs
    BY <1>3 DEF FlattenSeq
  <2> DEFINE g == [k \in 0 .. 0 |-> base]
  <2>2. Flattens(g, V, seqs) /\ g[n] = base
    BY <1>1, <1>3 DEF Flattens
  <2>3. QED
    BY <2>1, <2>2
<1>4. CASE n # 0
  <2> HIDE DEF V, base
  <2>1. h \in StepsOn(V, n)
    BY <1>1, <1>2 DEF StepsOn
  <2>2. \A k \in 1 .. n, v \in V : h[k][v] = IF k = 1 THEN seqs[k] ELSE v \o seqs[k]
    BY Zenon
  <2> HIDE DEF h, n
  <2>3. PICK g : SolvedBy(g, V, base, n, h)
    BY <1>1, <2>1, Recursion
  <2>4. g \in [0 .. n -> V] /\ g[0] = base /\ \A k \in 1 .. n : g[k] = h[k][g[k - 1]]
    BY <2>3 DEF SolvedBy
  <2>5. \A k \in 1 .. n : g[k - 1] \in V
    BY <1>1, <2>4
  <2>6. \A k \in 1 .. n : g[k] = IF k = 1 THEN seqs[k] ELSE g[k - 1] \o seqs[k]
    BY <2>2, <2>4, <2>5
  <2> DEFINE d == [k \in 1 .. n |-> g[k]]
  <2>7. FlattenedBy(d, seqs)
    <3>1. \A k \in 1 .. n : d[k] = IF k = 1 THEN seqs[k] ELSE d[k - 1] \o seqs[k]
      <4>1. \A k \in 1 .. n : k # 1 => k - 1 \in 1 .. n
        BY <1>1
      <4>2. QED
        BY <2>6, <4>1
    <3>2. d = [k \in 1 .. Len(seqs) |-> d[k]]
      BY DEF n
    <3> HIDE DEF d
    <3>3. QED
      BY <3>1, <3>2 DEF FlattenedBy, n
  <2> DEFINE f == CHOOSE f : FlattenedBy(f, seqs)
             e == [k \in 0 .. n |-> IF k = 0 THEN base ELSE f[k]]
  <2>8. FlattenSeq(seqs) = f[n]
    BY <1>4 DEF FlattenSeq, FlattenedBy, n
  <2>9. FlattenedBy(f, seqs)
    BY <2>7
  <2> HIDE DEF f, d
  <2>10. \A k \in 1 .. n : f[k] = IF k = 1 THEN seqs[k] ELSE f[k - 1] \o seqs[k]
    BY <2>9, Zenon DEF FlattenedBy, n
  <2>11. e[0] = base /\ \A k \in 1 .. n : e[k] = f[k] /\ (k # 1 => e[k - 1] = f[k - 1])
    BY <1>1
  <2> HIDE DEF e
  <2>12. e[0] = g[0] /\ \A k \in 1 .. n : e[k - 1] = g[k - 1] => e[k] = g[k]
    BY <2>4, <2>6, <2>10, <2>11
  <2>13. \A k \in 0 .. n : e[k] = g[k]
    BY ONLY <1>1, <2>12, RecursionUnique
  <2>14. n \in 1 .. n /\ n \in 0 .. n
    BY <1>1, <1>4
  <2>15. f[n] = g[n]
    BY <2>11, <2>13, <2>14
  <2>16. \A k \in 1 .. n : g[k] = g[k - 1] \o seqs[k]
    <3>1. ASSUME NEW q \in Seq(S)
          PROVE  <<>> \o q = q
      OBVIOUS
    <3>2. \A k \in 1 .. n : k = 1 => g[k - 1] = <<>>
      BY <2>4 DEF base
    <3>3. QED
      BY <1>1, <2>6, <3>1, <3>2 DEF V
  <2>17. Flattens(g, V, seqs)
    BY <2>4, <2>16 DEF Flattens, n, base
  <2>18. QED
    BY <2>8, <2>15, <2>17 DEF V, n
<1>5. QED
  BY <1>3, <1>4

\* No sequence makes the empty one; one more is put behind the others.
LEMMA FlattenOneMore ==
    ASSUME NEW S, NEW seqs \in Seq(Seq(S)), NEW q \in Seq(S)
    PROVE  /\ FlattenSeq(seqs) \in Seq(S)
           /\ FlattenSeq(<<>>) = <<>>
           /\ FlattenSeq(Append(seqs, q)) = FlattenSeq(seqs) \o q
<1> DEFINE n == Len(seqs)
           more == Append(seqs, q)
<1>1. PICK f : Flattens(f, Seq(S), seqs) /\ FlattenSeq(seqs) = f[n]
  BY FlattenSeqIs
<1>2. /\ more \in Seq(Seq(S)) /\ Len(more) = n + 1 /\ n \in Nat
      /\ more[n + 1] = q /\ \A k \in 1 .. n : more[k] = seqs[k]
  OBVIOUS
<1> HIDE DEF more, n
<1>3. PICK g : Flattens(g, Seq(S), more) /\ FlattenSeq(more) = g[n + 1]
  BY <1>2, FlattenSeqIs
<1>4. f[0] = g[0] /\ \A k \in 1 .. n : f[k - 1] = g[k - 1] => f[k] = g[k]
  <2>1. \A k \in 1 .. n : k \in 1 .. n + 1
    BY <1>2
  <2>2. QED
    BY <1>1, <1>2, <1>3, <2>1 DEF Flattens, n
<1>5. \A k \in 0 .. n : f[k] = g[k]
  <2>1. n \in Nat
    BY <1>2
  <2>2. QED
    BY ONLY <1>4, <2>1, RecursionUnique
<1>6. g[n + 1] = g[n] \o q
  <2>1. n + 1 \in 1 .. n + 1 /\ (n + 1) - 1 = n
    BY <1>2
  <2>2. g[n + 1] = g[(n + 1) - 1] \o more[n + 1]
    BY <1>2, <1>3, <2>1 DEF Flattens
  <2>3. QED
    BY <1>2, <2>1, <2>2
<1>7. f[n] = g[n] /\ f[n] \in Seq(S)
  <2>1. f \in [0 .. n -> Seq(S)] /\ n \in 0 .. n
    BY <1>1, <1>2 DEF Flattens, n
  <2>2. QED
    BY <1>5, <2>1
<1>8. FlattenSeq(<<>>) = <<>>
  <2>1. Len(<<>>) = 0
    OBVIOUS
  <2>2. QED
    BY <2>1, Zenon DEF FlattenSeq
<1>9. QED
  BY <1>1, <1>3, <1>6, <1>7, <1>8 DEF more, n

\* Sequences in a row make a sequence.
LEMMA FlattenSeqType ==
    ASSUME NEW S, NEW seqs \in Seq(Seq(S))
    PROVE  FlattenSeq(seqs) \in Seq(S)
<1>1. <<>> \in Seq(S)
  OBVIOUS
<1>2. QED
  BY <1>1, FlattenOneMore

\* The rows of a snapshot the table has.
LEMMA RowsAtType ==
    ASSUME NEW table, TableOK(table), NEW n \in 0 .. Len(table.snaps)
    PROVE  RowsAt(table, n) \in Rows
<1>1. CASE n = 0
  BY <1>1 DEF RowsAt, EmptyRows, Rows
<1>2. CASE n # 0
  <2>1. n \in 1 .. Len(table.snaps) /\ table.snaps \in Seq(Snapshot)
    BY <1>2 DEF TableOK
  <2>2. table.snaps[n] \in Snapshot
    BY <2>1
  <2>3. QED
    BY <1>2, <2>2 DEF RowsAt, Snapshot
<1>3. QED
  BY <1>1, <1>2

\* What a row leaves under its id.
Brought(r) == IF r.op = "delete" THEN NoVec ELSE r.vec

\* q has rows for the ids in S and no others, which bring what f has.
RowsOf(q, S, f) ==
    /\ q \in Seq(DeltaRow)
    /\ \A k \in 1 .. Len(q) : q[k].id \in S /\ Brought(q[k]) = f[q[k].id]
    /\ \A i \in S : \E k \in 1 .. Len(q) : q[k].id = i

\* The rows of a commit: deletions of what is gone, then what was added.
LEMMA CommitRowsIs ==
    ASSUME NEW table, TableOK(table), NEW to, NEW n \in 1 .. Len(table.snaps)
    PROVE  \E d, u : /\ CommitRows(table, to, n) = d \o u
                     /\ RowsOf(d, Gone(table, to, n), EmptyRows)
                     /\ RowsOf(u, Added(table, to, n), table.snaps[n].rows)
<1> DEFINE s == table.snaps[n]
           G == Gone(table, to, n)
           A == Added(table, to, n)
           dels == {Delete(i) : i \in G}
           ups == {Upsert(i, s.rows[i]) : i \in A}
<1>1. s \in Snapshot
  BY DEF TableOK
<1>2. s.id \in Ids /\ s.rows \in [Ids -> Nat \cup {BadVec, NoVec}]
  BY <1>1 DEF Snapshot, Rows
<1>3. G \in SUBSET Ids /\ A \in SUBSET Ids
  BY <1>2 DEF Gone, Added, ResolvedDeletes
<1>4. IsFiniteSet(G) /\ IsFiniteSet(A)
  BY <1>3, SourceAssumption, FS_Subset
<1> HIDE DEF G, A, s
<1>5. dels \in SUBSET DeltaRow /\ ups \in SUBSET DeltaRow
  BY <1>2, <1>3 DEF DeltaRow, Delete, Upsert
<1>6. IsFiniteSet(dels)
  <2> DEFINE f == [i \in G |-> Delete(i)]
  <2>1. f = [i \in G |-> f[i]] /\ dels = {f[i] : i \in G}
    OBVIOUS
  <2> HIDE DEF f, dels
  <2>2. QED
    BY <1>4, <2>1, FiniteImage
<1>7. IsFiniteSet(ups)
  <2> DEFINE f == [i \in A |-> Upsert(i, s.rows[i])]
  <2>1. f = [i \in A |-> f[i]] /\ ups = {f[i] : i \in A}
    OBVIOUS
  <2> HIDE DEF f, ups
  <2>2. QED
    BY <1>4, <2>1, FiniteImage
<1>8. CommitRows(table, to, n) = SetToSeq(dels) \o SetToSeq(ups)
  BY DEF CommitRows, G, A, s
<1> HIDE DEF dels, ups
<1>9. /\ SetToSeq(dels) \in Seq(DeltaRow)
      /\ \A k \in 1 .. Len(SetToSeq(dels)) : SetToSeq(dels)[k] \in dels
      /\ \A x \in dels : \E k \in 1 .. Len(SetToSeq(dels)) : SetToSeq(dels)[k] = x
  BY <1>5, <1>6, SetToSeqType
<1>10. RowsOf(SetToSeq(dels), G, EmptyRows)
  <2>1. \A x \in dels : x.id \in G /\ Brought(x) = EmptyRows[x.id]
    BY <1>3 DEF dels, Delete, Brought, EmptyRows
  <2>2. \A i \in G : \E x \in dels : x.id = i
    <3>1. \A i \in G : Delete(i) \in dels
      BY DEF dels
    <3>2. \A i \in G : Delete(i).id = i
      BY DEF Delete
    <3>3. QED
      BY <3>1, <3>2
  <2>3. QED
    <3> DEFINE q == SetToSeq(dels)
    <3>1. /\ q \in Seq(DeltaRow) /\ \A k \in 1 .. Len(q) : q[k] \in dels
          /\ \A x \in dels : \E k \in 1 .. Len(q) : q[k] = x
      BY <1>9
    <3> HIDE DEF q
    <3>2. \A k \in 1 .. Len(q) : q[k].id \in G /\ Brought(q[k]) = EmptyRows[q[k].id]
      BY <2>1, <3>1
    <3>3. \A i \in G : \E k \in 1 .. Len(q) : q[k].id = i
      BY <2>2, <3>1
    <3>4. RowsOf(q, G, EmptyRows)
      BY <3>1, <3>2, <3>3 DEF RowsOf
    <3>5. QED
      BY <3>4 DEF q
<1>11. /\ SetToSeq(ups) \in Seq(DeltaRow)
       /\ \A k \in 1 .. Len(SetToSeq(ups)) : SetToSeq(ups)[k] \in ups
       /\ \A x \in ups : \E k \in 1 .. Len(SetToSeq(ups)) : SetToSeq(ups)[k] = x
  BY <1>5, <1>7, SetToSeqType
<1>12. RowsOf(SetToSeq(ups), A, s.rows)
  <2>1. \A x \in ups : x.id \in A /\ Brought(x) = s.rows[x.id]
    BY DEF ups, Upsert, Brought
  <2>2. \A i \in A : \E x \in ups : x.id = i
    <3>1. \A i \in A : Upsert(i, s.rows[i]) \in ups
      BY DEF ups
    <3>2. \A i \in A : Upsert(i, s.rows[i]).id = i
      BY DEF Upsert
    <3>3. QED
      BY <3>1, <3>2
  <2>3. QED
    <3> DEFINE q == SetToSeq(ups)
    <3>1. /\ q \in Seq(DeltaRow) /\ \A k \in 1 .. Len(q) : q[k] \in ups
          /\ \A x \in ups : \E k \in 1 .. Len(q) : q[k] = x
      BY <1>11
    <3> HIDE DEF q
    <3>2. \A k \in 1 .. Len(q) : q[k].id \in A /\ Brought(q[k]) = s.rows[q[k].id]
      BY <2>1, <3>1
    <3>3. \A i \in A : \E k \in 1 .. Len(q) : q[k].id = i
      BY <2>2, <3>1
    <3>4. RowsOf(q, A, s.rows)
      BY <3>1, <3>2, <3>3 DEF RowsOf
    <3>5. QED
      BY <3>4 DEF q
<1>13. QED
  BY <1>8, <1>10, <1>12 DEF G, A, s

\* Their type alone.
LEMMA CommitRowsType ==
    ASSUME NEW table, TableOK(table), NEW to, NEW n \in 1 .. Len(table.snaps)
    PROVE  CommitRows(table, to, n) \in Seq(DeltaRow)
<1>1. PICK d, u : /\ CommitRows(table, to, n) = d \o u
                  /\ RowsOf(d, Gone(table, to, n), EmptyRows)
                  /\ RowsOf(u, Added(table, to, n), table.snaps[n].rows)
  BY CommitRowsIs
<1>2. QED
  BY <1>1 DEF RowsOf

\* The incremental diff is a sequence of rows, in the order of commits.
LEMMA DeltaRowsType ==
    ASSUME NEW table, TableOK(table), NEW from, NEW to \in 0 .. Len(table.snaps)
    PROVE  DeltaRows(table, from, to) \in Seq(DeltaRow)
<1> DEFINE r == CommitRange(table, from, to)
           seqs == [k \in DOMAIN r |-> CommitRows(table, to, r[k])]
<1>1. r \in Seq(1 .. Len(table.snaps))
  BY CommitRangeType
<1>2. DeltaRows(table, from, to) = FlattenSeq(seqs)
  BY DEF DeltaRows
<1> HIDE DEF r
<1>3. DOMAIN r = 1 .. Len(r) /\ Len(r) \in Nat /\ \A k \in 1 .. Len(r) : r[k] \in 1 .. Len(table.snaps)
  BY <1>1
<1>4. \A k \in 1 .. Len(r) : CommitRows(table, to, r[k]) \in Seq(DeltaRow)
  BY <1>3, CommitRowsType
<1>5. seqs \in [1 .. Len(r) -> Seq(DeltaRow)]
  BY <1>3, <1>4
<1> HIDE DEF seqs
<1>6. seqs \in Seq(Seq(DeltaRow))
  BY <1>3, <1>5
<1>7. QED
  BY <1>2, <1>6, FlattenSeqType

\* So is a full scan, in whichever order files are read.
LEMMA FullScansIs ==
    ASSUME NEW table, TableOK(table), NEW to \in 0 .. Len(table.snaps),
           NEW rows \in FullScans(table, to)
    PROVE  RowsOf(rows, {i \in Ids : RowsAt(table, to)[i] # NoVec}, RowsAt(table, to))
<1> DEFINE at == RowsAt(table, to)
           live == {i \in Ids : at[i] # NoVec}
<1>1. at \in [Ids -> Nat \cup {BadVec, NoVec}]
  BY RowsAtType DEF Rows
<1>2. PICK order \in SetToSeqs(live) : rows = [k \in DOMAIN order |-> Upsert(order[k], at[order[k]])]
  BY DEF FullScans
<1> HIDE DEF at
<1>3. live \in SUBSET Ids
  OBVIOUS
<1> HIDE DEF live
<1>4. IsFiniteSet(live)
  BY <1>3, SourceAssumption, FS_Subset
<1>5. Cardinality(live) \in Nat
  BY <1>4, FS_CardinalityType
<1>6. /\ order \in [1 .. Cardinality(live) -> live]
      /\ \A a, b \in 1 .. Cardinality(live) : order[a] = order[b] => a = b
  BY <1>2 DEF SetToSeqs
<1>7. \A k \in 1 .. Cardinality(live) : Upsert(order[k], at[order[k]]) \in DeltaRow
  <2>1. \A k \in 1 .. Cardinality(live) : order[k] \in Ids
    BY <1>3, <1>6
  <2>2. QED
    BY <1>1, <2>1 DEF Upsert, DeltaRow
<1>8. rows \in [1 .. Cardinality(live) -> DeltaRow]
  BY <1>2, <1>6, <1>7
<1>9. rows \in Seq(DeltaRow) /\ Len(rows) = Cardinality(live)
  BY <1>5, <1>8
<1>10. \A k \in 1 .. Len(rows) : rows[k].id = order[k] /\ Brought(rows[k]) = at[order[k]]
  BY <1>2, <1>6, <1>9 DEF Upsert, Brought
<1>11. \A i \in live : \E k \in 1 .. Len(rows) : order[k] = i
  BY <1>4, <1>6, <1>9, AllElements
<1>12. RowsOf(rows, live, at)
  BY <1>6, <1>9, <1>10, <1>11 DEF RowsOf
<1>13. QED
  BY <1>12 DEF live, at

\* Its type alone.
LEMMA FullScansType ==
    ASSUME NEW table, TableOK(table), NEW to \in 0 .. Len(table.snaps),
           NEW rows \in FullScans(table, to)
    PROVE  rows \in Seq(DeltaRow)
  BY FullScansIs DEF RowsOf


----------------------------------------------------------------------------
(* Walks along the parents *)

\* The snapshots of a walk, without their order.
Walk(table, from, to) == ToSet(CommitRange(table, from, to))

\* A parent is older.
LEMMA ParentFacts ==
    ASSUME NEW table, TableOK(table), NEW n \in 1 .. Len(table.snaps)
    PROVE  /\ table.snaps[n].parent \in 0 .. Len(table.snaps)
           /\ table.snaps[n].parent < n
           /\ table.snaps[n] \in Snapshot
<1>1. /\ table.snaps \in Seq(Snapshot) /\ table.snaps[n].parent < n
  BY DEF TableOK
<1>2. table.snaps[n] \in Snapshot
  BY <1>1
<1>3. table.snaps[n].parent \in Nat
  BY <1>2 DEF Snapshot
<1>4. QED
  BY <1>1, <1>2, <1>3

\* What holds of no snapshot and passes from a parent to its children holds of all.
LEMMA AlongParents ==
    ASSUME NEW table, TableOK(table), NEW G, 0 \in G,
           \A k \in 1 .. Len(table.snaps) : table.snaps[k].parent \in G => k \in G
    PROVE  \A k \in 0 .. Len(table.snaps) : k \in G
<1> DEFINE D == {k \in 0 .. Len(table.snaps) : k \notin G}
<1>1. SUFFICES ASSUME D # {}
               PROVE  FALSE
  OBVIOUS
<1>2. PICK d \in D : \A y \in D : d <= y
  <2>1. D \in SUBSET Nat
    OBVIOUS
  <2> HIDE DEF D
  <2>2. QED
    BY <1>1, <2>1, LeastNatural
<1>3. d \in 1 .. Len(table.snaps) /\ d \notin G
  BY <1>2
<1>4. table.snaps[d].parent \in Nat /\ table.snaps[d].parent < d
  BY <1>3, ParentFacts
<1>5. QED
  BY <1>2, <1>3, <1>4

\* A walk has the snapshot it starts with, and the walk from its parent.
LEMMA WalkStep ==
    ASSUME NEW table, TableOK(table), NEW from, NEW n \in 0 .. Len(table.snaps)
    PROVE  Walk(table, from, n) = IF n \in {0, from} \cup table.expired THEN {}
                                  ELSE Walk(table, from, table.snaps[n].parent) \cup {n}
<1>1. CASE n \in {0, from} \cup table.expired
  <2>1. CommitRange(table, from, n) = <<>>
    BY <1>1, CommitRangeIs
  <2>2. QED
    BY <1>1, <2>1 DEF Walk, ToSet
<1>2. CASE n \notin {0, from} \cup table.expired
  <2> DEFINE r == CommitRange(table, from, table.snaps[n].parent)
  <2>1. n \in 1 .. Len(table.snaps)
    BY <1>2
  <2>2. r \in Seq(1 .. Len(table.snaps))
    BY <2>1, ParentFacts, CommitRangeIs
  <2>3. CommitRange(table, from, n) = Append(r, n)
    BY <1>2, CommitRangeIs
  <2> HIDE DEF r
  <2>4. {Append(r, n)[k] : k \in DOMAIN Append(r, n)} = {r[k] : k \in DOMAIN r} \cup {n}
    <3>1. /\ DOMAIN Append(r, n) = 1 .. Len(r) + 1 /\ DOMAIN r = 1 .. Len(r) /\ Len(r) \in Nat
          /\ Append(r, n)[Len(r) + 1] = n /\ \A k \in 1 .. Len(r) : Append(r, n)[k] = r[k]
      BY <2>2
    <3>2. QED
      BY <3>1
  <2>5. QED
    BY <1>2, <2>3, <2>4 DEF Walk, ToSet, r
<1>3. QED
  BY <1>1, <1>2

\* A walk goes back to older snapshots, none of them expired.
LEMMA WalkOlder ==
    ASSUME NEW table, TableOK(table), NEW from, NEW n \in 0 .. Len(table.snaps)
    PROVE  Walk(table, from, n) \subseteq (1 .. n) \ table.expired
<1> DEFINE G == {k \in 0 .. Len(table.snaps) : Walk(table, from, k) \subseteq (1 .. k) \ table.expired}
<1>1. 0 \in G
  <2>1. 0 \in 0 .. Len(table.snaps)
    BY DEF TableOK
  <2>2. Walk(table, from, 0) = {}
    BY <2>1, WalkStep
  <2>3. QED
    BY <2>1, <2>2
<1>2. ASSUME NEW k \in 1 .. Len(table.snaps), table.snaps[k].parent \in G
      PROVE  k \in G
  <2>1. Walk(table, from, k) = IF k \in {0, from} \cup table.expired THEN {}
                               ELSE Walk(table, from, table.snaps[k].parent) \cup {k}
    BY WalkStep
  <2>2. table.snaps[k].parent \in Nat /\ table.snaps[k].parent < k
    BY ParentFacts
  <2>3. QED
    BY <1>2, <2>1, <2>2
<1> HIDE DEF G
<1>3. n \in G
  BY <1>1, <1>2, AlongParents
<1>4. QED
  BY <1>3 DEF G


----------------------------------------------------------------------------
(* What a run of rows leaves *)

\* A row of a scan changes its own id.
LEMMA ApplyRowAt ==
    ASSUME NEW rows \in AnyRows, NEW r \in DeltaRow
    PROVE  /\ ApplyRow(rows, r) \in AnyRows /\ r.id \in Ids
           /\ \A i \in Ids : ApplyRow(rows, r)[i] = IF i = r.id THEN Brought(r) ELSE rows[i]
<1>1. r.id \in Ids /\ Brought(r) \in Vecs \cup {BadVec}
  <2>1. CASE r \in [op : {"upsert"}, id : Ids, vec : Nat \cup {BadVec, NoVec}]
    BY <2>1 DEF Brought, Vecs
  <2>2. CASE r \in [op : {"delete"}, id : Ids]
    BY <2>2 DEF Brought, Vecs
  <2>3. QED
    BY <2>1, <2>2 DEF DeltaRow
<1>2. ApplyRow(rows, r) = [rows EXCEPT ![r.id] = Brought(r)]
  BY DEF ApplyRow, Brought
<1>3. QED
  BY <1>1, <1>2 DEF AnyRows

\* There is one, and every one ends with what ApplyRows gives.
LEMMA ApplyRowsEnd ==
    ASSUME NEW rows \in AnyRows, NEW rs \in Seq(DeltaRow)
    PROVE  /\ \E g : Applies(g, AnyRows, rows, rs)
           /\ \A g : Applies(g, AnyRows, rows, rs) => ApplyRows(rows, rs) = g[Len(rs)]
           /\ ApplyRows(rows, rs) \in AnyRows
<1>1. \A v \in AnyRows, r \in DeltaRow : ApplyRow(v, r) \in AnyRows
  BY ApplyRowAt
<1>2. PICK f : Applies(f, AnyRows, rows, rs) /\ ApplyRows(rows, rs) = f[Len(rs)]
  BY <1>1, ApplyRowsIs
<1>3. /\ f \in [0 .. Len(rs) -> AnyRows] /\ f[0] = rows
      /\ \A k \in 1 .. Len(rs) : f[k] = ApplyRow(f[k - 1], rs[k])
  BY <1>2 DEF Applies
<1>4. Len(rs) \in Nat /\ Len(rs) \in 0 .. Len(rs)
  OBVIOUS
<1>5. ASSUME NEW g, Applies(g, AnyRows, rows, rs)
      PROVE  ApplyRows(rows, rs) = g[Len(rs)]
  <2>1. f[0] = g[0] /\ \A k \in 1 .. Len(rs) : f[k - 1] = g[k - 1] => f[k] = g[k]
    BY <1>3, <1>5 DEF Applies
  <2>2. \A k \in 0 .. Len(rs) : f[k] = g[k]
    BY ONLY <1>4, <2>1, RecursionUnique
  <2>3. QED
    BY <1>2, <1>4, <2>2
<1>6. QED
  BY <1>2, <1>3, <1>4, <1>5

\* No row changes nothing.
LEMMA ApplyNone ==
    ASSUME NEW rows \in AnyRows
    PROVE  ApplyRows(rows, <<>>) = rows
<1>1. <<>> \in Seq(DeltaRow) /\ Len(<<>>) = 0
  OBVIOUS
<1>2. PICK g : Applies(g, AnyRows, rows, <<>>)
  BY <1>1, ApplyRowsEnd
<1>3. ApplyRows(rows, <<>>) = g[Len(<<>>)]
  BY <1>1, <1>2, ApplyRowsEnd
<1>4. QED
  BY <1>1, <1>2, <1>3 DEF Applies

\* One row more is applied after the others.
LEMMA ApplyOneMore ==
    ASSUME NEW rows \in AnyRows, NEW rs \in Seq(DeltaRow), NEW r \in DeltaRow
    PROVE  ApplyRows(rows, Append(rs, r)) = ApplyRow(ApplyRows(rows, rs), r)
<1> DEFINE more == Append(rs, r)
           n == Len(rs)
<1>1. PICK g : Applies(g, AnyRows, rows, rs)
  BY ApplyRowsEnd
<1>2. ApplyRows(rows, rs) = g[n] /\ ApplyRows(rows, rs) \in AnyRows
  BY <1>1, ApplyRowsEnd
<1> DEFINE last == ApplyRow(g[n], r)
           f == [k \in 0 .. n + 1 |-> IF k = n + 1 THEN last ELSE g[k]]
<1>3. /\ more \in Seq(DeltaRow) /\ Len(more) = n + 1 /\ n \in Nat
      /\ more[n + 1] = r /\ \A k \in 1 .. n : more[k] = rs[k]
  OBVIOUS
<1>4. last \in AnyRows
  BY <1>2, ApplyRowAt
<1>5. /\ g \in [0 .. n -> AnyRows] /\ g[0] = rows
      /\ \A k \in 1 .. n : g[k] = ApplyRow(g[k - 1], rs[k])
  BY <1>1 DEF Applies
<1>6. last = ApplyRow(g[n], r)
  OBVIOUS
<1> HIDE DEF last, n, more
<1>7. f \in [0 .. n + 1 -> AnyRows] /\ f[n + 1] = last /\ \A k \in 0 .. n : f[k] = g[k]
  BY <1>3, <1>4, <1>5
<1> HIDE DEF f
<1>8. Applies(f, AnyRows, rows, more)
  <2>1. f[0] = rows
    BY <1>3, <1>5, <1>7
  <2>2. ASSUME NEW k \in 1 .. n + 1
        PROVE  f[k] = ApplyRow(f[k - 1], more[k])
    <3>1. CASE k = n + 1
      <4>1. k - 1 = n /\ f[k - 1] = g[n]
        BY <1>3, <1>7, <3>1
      <4>2. QED
        BY <1>3, <1>6, <1>7, <3>1, <4>1
    <3>2. CASE k # n + 1
      <4>1. k \in 1 .. n /\ k \in 0 .. n /\ k - 1 \in 0 .. n
        BY <1>3, <3>2
      <4>2. QED
        BY <1>3, <1>5, <1>7, <4>1
    <3>3. QED
      BY <3>1, <3>2
  <2>3. QED
    BY <1>3, <1>7, <2>1, <2>2 DEF Applies
<1>9. ApplyRows(rows, more) = f[n + 1]
  BY <1>3, <1>8, ApplyRowsEnd
<1>10. QED
  BY <1>2, <1>6, <1>7, <1>9 DEF more, n

\* Two runs of rows one after the other.
LEMMA ApplyInTurn ==
    ASSUME NEW rows \in AnyRows, NEW a \in Seq(DeltaRow), NEW b \in Seq(DeltaRow)
    PROVE  ApplyRows(rows, a \o b) = ApplyRows(ApplyRows(rows, a), b)
<1> DEFINE mid == ApplyRows(rows, a)
           G == {s \in Seq(DeltaRow) : ApplyRows(rows, a \o s) = ApplyRows(mid, s)}
<1>1. mid \in AnyRows
  BY ApplyRowsEnd
<1>2. <<>> \in G
  <2>1. <<>> \in Seq(DeltaRow)
    OBVIOUS
  <2>2. a \o <<>> = a
    OBVIOUS
  <2>3. QED
    BY <1>1, <2>1, <2>2, ApplyNone
<1> HIDE DEF mid
<1>3. ASSUME NEW s \in Seq(DeltaRow), NEW r \in DeltaRow, s \in G
      PROVE  Append(s, r) \in G
  <2>1. Append(s, r) \in Seq(DeltaRow) /\ a \o s \in Seq(DeltaRow) /\ a \o Append(s, r) = Append(a \o s, r)
    OBVIOUS
  <2>2. ApplyRows(rows, Append(a \o s, r)) = ApplyRow(ApplyRows(rows, a \o s), r)
    BY <2>1, ApplyOneMore
  <2>3. ApplyRows(mid, Append(s, r)) = ApplyRow(ApplyRows(mid, s), r)
    BY <1>1, ApplyOneMore
  <2>4. QED
    BY <1>3, <2>1, <2>2, <2>3
<1> HIDE DEF G
<1>4. b \in G
  BY <1>2, <1>3, SeqInduction
<1>5. QED
  BY <1>4 DEF G, mid

\* Some row is about i; every row about i brings v.
Meets(rs, i) == \E k \in 1 .. Len(rs) : rs[k].id = i

Brings(rs, i, v) == \A k \in 1 .. Len(rs) : rs[k].id = i => Brought(rs[k]) = v

\* When every row of an id brings the same, so do all of them.
LEMMA ApplyRowsAt ==
    ASSUME NEW rows \in AnyRows, NEW rs \in Seq(DeltaRow), NEW i \in Ids, NEW v, Brings(rs, i, v)
    PROVE  ApplyRows(rows, rs)[i] = IF Meets(rs, i) THEN v ELSE rows[i]
<1> DEFINE G == {s \in Seq(DeltaRow) :
                    Brings(s, i, v) => ApplyRows(rows, s)[i] = IF Meets(s, i) THEN v ELSE rows[i]}
<1>1. <<>> \in G
  <2>1. <<>> \in Seq(DeltaRow) /\ ~Meets(<<>>, i)
    BY DEF Meets
  <2>2. ApplyRows(rows, <<>>) = rows
    BY ApplyNone
  <2>3. QED
    BY <2>1, <2>2
<1>2. ASSUME NEW s \in Seq(DeltaRow), NEW r \in DeltaRow, s \in G
      PROVE  Append(s, r) \in G
  <2> DEFINE more == Append(s, r)
  <2>0. more \in Seq(DeltaRow)
    OBVIOUS
  <2> HIDE DEF more
  <2>1. SUFFICES ASSUME Brings(more, i, v)
                 PROVE  ApplyRows(rows, more)[i] = IF Meets(more, i) THEN v ELSE rows[i]
    BY <2>0 DEF more
  <2>2. /\ Len(more) = Len(s) + 1 /\ Len(s) \in Nat
        /\ more[Len(s) + 1] = r /\ \A k \in 1 .. Len(s) : more[k] = s[k]
    BY DEF more
  <2>3. Brings(s, i, v) /\ (r.id = i => Brought(r) = v)
    BY <2>1, <2>2 DEF Brings
  <2>4. Meets(more, i) <=> Meets(s, i) \/ r.id = i
    BY <2>2 DEF Meets
  <2>5. ApplyRows(rows, more) = ApplyRow(ApplyRows(rows, s), r) /\ ApplyRows(rows, s) \in AnyRows
    BY ApplyOneMore, ApplyRowsEnd DEF more
  <2>6. ApplyRows(rows, more)[i] = IF i = r.id THEN Brought(r) ELSE ApplyRows(rows, s)[i]
    BY <2>5, ApplyRowAt
  <2>7. ApplyRows(rows, s)[i] = IF Meets(s, i) THEN v ELSE rows[i]
    BY <1>2, <2>3
  <2>8. QED
    BY <2>3, <2>4, <2>6, <2>7
<1> HIDE DEF G
<1>3. rs \in G
  BY <1>1, <1>2, SeqInduction
<1>4. QED
  BY <1>3 DEF G

----------------------------------------------------------------------------
(* What a diff leaves *)

\* Rows for the ids in S that bring what f has.
LEMMA RowsOfAt ==
    ASSUME NEW rows \in AnyRows, NEW q, NEW S, NEW f, RowsOf(q, S, f), NEW i \in Ids
    PROVE  ApplyRows(rows, q)[i] = IF i \in S THEN f[i] ELSE rows[i]
<1> DEFINE v == f[i]
<1>1. q \in Seq(DeltaRow) /\ Brings(q, i, v)
  BY DEF RowsOf, Brings
<1>2. Meets(q, i) <=> i \in S
  BY DEF RowsOf, Meets
<1> HIDE DEF v
<1>3. ApplyRows(rows, q)[i] = IF Meets(q, i) THEN v ELSE rows[i]
  BY <1>1, ApplyRowsAt
<1>4. QED
  BY <1>2, <1>3 DEF v

\* The id whose row a commit changes.
ChangedBy(table, n) == IF table.snaps[n].kind = "manifests" THEN {} ELSE {table.snaps[n].id}

\* The rows of a commit are about the id it changes, and a commit that is still
\* shown brings what its snapshot has there.
LEMMA CommitRowsAt ==
    ASSUME NEW table, TableOK(table), SnapsOK(table), NEW to \in 1 .. Len(table.snaps),
           NEW n \in 1 .. Len(table.snaps)
    PROVE  /\ CommitRows(table, to, n) \in Seq(DeltaRow)
           /\ \A k \in 1 .. Len(CommitRows(table, to, n)) :
                  CommitRows(table, to, n)[k].id \in ChangedBy(table, n)
           /\ StillShown(table, to, n) =>
                  \A rows \in AnyRows, i \in Ids :
                      ApplyRows(rows, CommitRows(table, to, n))[i]
                         = IF i \in ChangedBy(table, n) THEN table.snaps[n].rows[i] ELSE rows[i]
<1> DEFINE s == table.snaps[n]
           G == Gone(table, to, n)
           A == Added(table, to, n)
           C == ChangedBy(table, n)
           before == RowsAt(table, s.parent)
           isAdded == n \in table.snaps[to].added
           isDropped == n \in table.snaps[to].dropped
<1>1. s \in Snapshot /\ s.kind \in CommitKinds /\ s.id \in Ids
  BY ParentFacts DEF Snapshot
<1>2. CommitOf(s, s.kind, s.id, before) /\ EntriesOf(table, table.snaps[to])
  BY DEF SnapsOK
<1>3. (isAdded => s.kind \in FileAdds) /\ (isDropped => s.kind \in FileDrops)
  BY <1>2, Zenon DEF EntriesOf
<1>4. \A j \in Ids : (before[j] # NoVec /\ s.rows[j] = NoVec) =>
          (j = s.id /\ s.kind # "manifests" /\ before[j] # NoVec /\ s.rows[j] = NoVec)
  <2> HIDE DEF s, before
  <2>1. QED
    BY <1>2 DEF CommitOf
<1>5. /\ G = (IF isDropped THEN {s.id} ELSE {})
             \cup (IF s.kind \in RowDeletes
                   THEN {j \in Ids : before[j] # NoVec /\ s.rows[j] = NoVec} ELSE {})
      /\ A = (IF isAdded THEN {s.id} ELSE {})
      /\ C = IF s.kind = "manifests" THEN {} ELSE {s.id}
  BY DEF Gone, Added, ChangedBy, ResolvedDeletes
<1>6. StillShown(table, to, n) <=> (s.kind \in FileAdds => isAdded) /\ (s.kind = "drop" => isDropped)
  BY DEF StillShown
<1>7. PICK d, u : /\ CommitRows(table, to, n) = d \o u
                  /\ RowsOf(d, G, EmptyRows) /\ RowsOf(u, A, s.rows)
  BY CommitRowsIs
<1> HIDE DEF s, G, A, C, before, isAdded, isDropped
<1>8. G \subseteq C /\ A \subseteq C
  BY <1>1, <1>3, <1>4, <1>5 DEF FileAdds, FileDrops
<1>9. /\ d \in Seq(DeltaRow) /\ \A k \in 1 .. Len(d) : d[k].id \in G
      /\ u \in Seq(DeltaRow) /\ \A k \in 1 .. Len(u) : u[k].id \in A
  BY <1>7 DEF RowsOf
<1>10. d \o u \in Seq(DeltaRow) /\ \A k \in 1 .. Len(d \o u) : (d \o u)[k].id \in C
  BY <1>8, <1>9
<1>11. ASSUME StillShown(table, to, n), NEW rows \in AnyRows, NEW i \in Ids
       PROVE  ApplyRows(rows, d \o u)[i] = IF i \in C THEN s.rows[i] ELSE rows[i]
  <2> DEFINE mid == ApplyRows(rows, d)
  <2>1. mid \in AnyRows /\ ApplyRows(rows, d \o u) = ApplyRows(mid, u)
    BY <1>9, ApplyInTurn, ApplyRowsEnd
  <2>2. mid[i] = IF i \in G THEN NoVec ELSE rows[i]
    BY <1>7, RowsOfAt DEF EmptyRows
  <2> HIDE DEF mid
  <2>3. ApplyRows(mid, u)[i] = IF i \in A THEN s.rows[i] ELSE mid[i]
    BY <1>7, <2>1, RowsOfAt
  <2>4. i \in C => i \in A \/ (i \in G /\ s.rows[i] = NoVec)
    <3>1. SUFFICES ASSUME i = s.id, s.kind # "manifests"
                   PROVE  i \in A \/ (i \in G /\ s.rows[i] = NoVec)
      BY <1>5
    <3>2. CASE s.kind \in FileAdds
      BY <1>5, <1>6, <1>11, <3>1, <3>2
    <3>3. CASE s.kind = "drop"
      BY <1>2, <1>5, <1>6, <1>11, <3>1, <3>3 DEF CommitOf
    <3>4. CASE s.kind = "delete"
      BY <1>2, <1>5, <3>1, <3>4 DEF CommitOf, RowDeletes
    <3>5. QED
      BY <1>1, <3>1, <3>2, <3>3, <3>4 DEF CommitKinds, FileAdds
  <2>5. QED
    BY <1>8, <2>1, <2>2, <2>3, <2>4
<1>12. QED
  BY <1>7, <1>10, <1>11 DEF C, s

\* The rows of the commits from from to n, as a diff up to `to` sees them.
DeltaUpTo(table, to, from, n) ==
    FlattenSeq([k \in DOMAIN CommitRange(table, from, n) |->
                   CommitRows(table, to, CommitRange(table, from, n)[k])])

\* A commit's rows come behind those of its parent.
LEMMA DeltaStep ==
    ASSUME NEW table, TableOK(table), NEW to, NEW from, NEW n \in 0 .. Len(table.snaps)
    PROVE  DeltaUpTo(table, to, from, n) =
              IF n \in {0, from} \cup table.expired THEN <<>>
              ELSE DeltaUpTo(table, to, from, table.snaps[n].parent) \o CommitRows(table, to, n)
<1>1. CASE n \in {0, from} \cup table.expired
  <2>1. CommitRange(table, from, n) = <<>>
    BY <1>1, CommitRangeIs
  <2>2. [k \in DOMAIN <<>> |-> CommitRows(table, to, <<>>[k])] = <<>>
    OBVIOUS
  <2>3. FlattenSeq(<<>>) = <<>>
    <3>1. <<>> \in Seq(Seq({})) /\ <<>> \in Seq({})
      OBVIOUS
    <3>2. QED
      BY <3>1, FlattenOneMore
  <2>4. QED
    BY <1>1, <2>1, <2>2, <2>3 DEF DeltaUpTo
<1>2. CASE n \notin {0, from} \cup table.expired
  <2> DEFINE r == CommitRange(table, from, table.snaps[n].parent)
             all == Append(r, n)
             seqs == [k \in DOMAIN r |-> CommitRows(table, to, r[k])]
             more == [k \in DOMAIN all |-> CommitRows(table, to, all[k])]
             q == CommitRows(table, to, n)
  <2>1. n \in 1 .. Len(table.snaps)
    BY <1>2
  <2>2. r \in Seq(1 .. Len(table.snaps)) /\ CommitRange(table, from, n) = all
    <3>1. table.snaps[n].parent \in 0 .. Len(table.snaps)
      BY <2>1, ParentFacts
    <3>2. r \in Seq(1 .. Len(table.snaps))
      BY <3>1, CommitRangeIs
    <3>3. CommitRange(table, from, n) = all
      BY <1>2, CommitRangeIs
    <3>4. QED
      BY <3>2, <3>3
  <2>3. DeltaUpTo(table, to, from, n) = FlattenSeq(more)
    BY <2>2 DEF DeltaUpTo
  <2>4. DeltaUpTo(table, to, from, table.snaps[n].parent) = FlattenSeq(seqs)
    BY DEF DeltaUpTo
  <2> HIDE DEF r
  <2>5. /\ DOMAIN r = 1 .. Len(r) /\ Len(r) \in Nat /\ DOMAIN all = 1 .. Len(r) + 1
        /\ all[Len(r) + 1] = n /\ \A k \in 1 .. Len(r) : all[k] = r[k] /\ r[k] \in 1 .. Len(table.snaps)
    BY <2>2
  <2> HIDE DEF all
  <2>6. q \in Seq(DeltaRow) /\ \A k \in 1 .. Len(r) : CommitRows(table, to, r[k]) \in Seq(DeltaRow)
    BY <2>1, <2>5, CommitRowsType
  <2>7. seqs \in Seq(Seq(DeltaRow)) /\ Len(seqs) = Len(r)
    <3>1. seqs \in [1 .. Len(r) -> Seq(DeltaRow)]
      BY <2>5, <2>6
    <3> HIDE DEF seqs
    <3>2. QED
      BY <2>5, <3>1
  <2>8. /\ more = [k \in 1 .. Len(r) + 1 |-> more[k]]
        /\ more[Len(r) + 1] = q /\ \A k \in 1 .. Len(r) : more[k] = seqs[k]
    BY <2>5
  <2> HIDE DEF seqs, q, more
  <2>9. more = Append(seqs, q)
    <3> DEFINE a == Append(seqs, q)
    <3>0. a \in Seq(Seq(DeltaRow)) /\ Len(a) = Len(r) + 1
      BY <2>5, <2>6, <2>7
    <3>1. a = [k \in 1 .. Len(r) + 1 |-> a[k]]
      <4> HIDE DEF a
      <4>1. QED
        BY <3>0
    <3>2. a[Len(r) + 1] = q /\ \A k \in 1 .. Len(r) : a[k] = seqs[k]
      BY <2>5, <2>6, <2>7
    <3> HIDE DEF a
    <3>3. \A k \in 1 .. Len(r) + 1 : a[k] = more[k]
      <4>1. \A k \in 1 .. Len(r) + 1 : k = Len(r) + 1 \/ k \in 1 .. Len(r)
        BY <2>5
      <4>2. QED
        BY <2>8, <3>2, <4>1
    <3>4. QED
      BY <2>8, <3>1, <3>3 DEF a
  <2>10. FlattenSeq(Append(seqs, q)) = FlattenSeq(seqs) \o q
    BY <2>6, <2>7, FlattenOneMore
  <2>11. QED
    BY <1>2, <2>3, <2>4, <2>9, <2>10 DEF q
<1>3. QED
  BY <1>1, <1>2


\* The commits after from and up to n that changed row i.
Changes(table, from, n, i) == {k \in Walk(table, from, n) : i \in ChangedBy(table, k)}

\* What the commits after from and up to n bring, as a diff up to `to` sees them: the
\* last change of a row if it is still shown, and nothing for a row without change.
DiffIs(table, to, from, n) ==
    /\ DeltaUpTo(table, to, from, n) \in Seq(DeltaRow)
    /\ \A rows \in AnyRows, i \in Ids :
           LET after == ApplyRows(rows, DeltaUpTo(table, to, from, n))[i]
           IN  /\ Changes(table, from, n, i) = {} =>
                      after = rows[i] /\ RowsAt(table, n)[i] = RowsAt(table, from)[i]
               /\ \A k \in LastChange(table, from, n, i) :
                      StillShown(table, to, k) => after = RowsAt(table, n)[i]

\* LastChange is the last of the changes.
LEMMA LastChangeIs ==
    ASSUME NEW table, TableOK(table), NEW from, NEW n \in 0 .. Len(table.snaps), NEW i \in Ids
    PROVE  /\ LastChange(table, from, n, i)
                 = {k \in Changes(table, from, n, i) : \A m \in Changes(table, from, n, i) : m <= k}
           /\ LastChange(table, from, n, i) = {} => Changes(table, from, n, i) = {}
<1> DEFINE S == Changes(table, from, n, i)
           R == {k \in Walk(table, from, n) : table.snaps[k].id = i /\ table.snaps[k].kind # "manifests"}
<1>1. S = R
  BY DEF Changes, ChangedBy
<1>2. LastChange(table, from, n, i) = {k \in R : \A m \in R : m <= k}
  BY Zenon DEF LastChange, Walk
<1>3. S \in SUBSET (1 .. n) /\ n \in Nat
  BY WalkOlder DEF Changes
<1> HIDE DEF S, R
<1>4. IsFiniteSet(S)
  <2>1. n \in Int /\ 1 \in Int
    BY <1>3
  <2>2. IsFiniteSet(1 .. n)
    BY <2>1, FS_Interval
  <2>3. QED
    BY <1>3, <2>2, FS_Subset
<1>5. S \in SUBSET Nat
  BY <1>3
<1>6. S # {} => \E k \in S : \A m \in S : m <= k
  BY <1>4, <1>5, LargestNatural
<1>7. QED
  BY <1>1, <1>2, <1>6 DEF S

\* With no commit to look at there is nothing to bring.
LEMMA DiffNone ==
    ASSUME NEW table, TableOK(table), NEW to, NEW n \in 1 .. Len(table.snaps)
    PROVE  DiffIs(table, to, n, n)
<1>1. n \in 0 .. Len(table.snaps)
  OBVIOUS
<1>2. DeltaUpTo(table, to, n, n) = <<>>
  BY <1>1, DeltaStep
<1>3. Walk(table, n, n) = {}
  BY <1>1, WalkStep
<1>4. \A i \in Ids : Changes(table, n, n, i) = {} /\ LastChange(table, n, n, i) = {}
  <2>1. \A i : Changes(table, n, n, i) = {}
    BY <1>3 DEF Changes
  <2>2. ASSUME NEW i \in Ids
        PROVE  LastChange(table, n, n, i) = {}
    <3>1. LastChange(table, n, n, i)
             = {k \in Changes(table, n, n, i) : \A m \in Changes(table, n, n, i) : m <= k}
      BY <1>1, LastChangeIs
    <3>2. QED
      BY <2>1, <3>1
  <2>3. QED
    BY <2>1, <2>2
<1>5. <<>> \in Seq(DeltaRow) /\ \A rows \in AnyRows : ApplyRows(rows, <<>>) = rows
  BY ApplyNone
<1>6. QED
  BY <1>2, <1>4, <1>5 DEF DiffIs

\* A commit more: the row it changes is as its snapshot has it, if it is still shown,
\* and the others are as they were.
LEMMA DiffMore ==
    ASSUME NEW table, TableOK(table), SnapsOK(table), NEW to \in 1 .. Len(table.snaps),
           NEW from, NEW n \in 1 .. Len(table.snaps), n \notin {0, from} \cup table.expired,
           DiffIs(table, to, from, table.snaps[n].parent)
    PROVE  DiffIs(table, to, from, n)
<1> DEFINE p == table.snaps[n].parent
           q == CommitRows(table, to, n)
           a == DeltaUpTo(table, to, from, p)
           b == DeltaUpTo(table, to, from, n)
           C == ChangedBy(table, n)
<1>1. p \in 0 .. Len(table.snaps) /\ p < n /\ n \in 0 .. Len(table.snaps)
  BY ParentFacts
<1>2. b = a \o q
  BY <1>1, DeltaStep
<1>3. Walk(table, from, n) = Walk(table, from, p) \cup {n}
  BY <1>1, WalkStep
<1>4. Walk(table, from, p) \subseteq 1 .. p
  BY <1>1, WalkOlder
<1>5. q \in Seq(DeltaRow) /\ \A k \in 1 .. Len(q) : q[k].id \in C
  BY CommitRowsAt
<1>6. StillShown(table, to, n) =>
          \A rows \in AnyRows, i \in Ids :
              ApplyRows(rows, q)[i] = IF i \in C THEN RowsAt(table, n)[i] ELSE rows[i]
  BY CommitRowsAt DEF RowsAt
<1>7. a \in Seq(DeltaRow) /\ b \in Seq(DeltaRow)
  <2>1. a \in Seq(DeltaRow)
    BY DEF DiffIs
  <2> HIDE DEF a, b, q
  <2>2. QED
    BY <1>2, <1>5, <2>1
<1>8. \A i \in Ids : i \notin C => RowsAt(table, n)[i] = RowsAt(table, p)[i]
  <2> DEFINE s == table.snaps[n]
             before == RowsAt(table, p)
  <2>1. CommitOf(s, s.kind, s.id, before) /\ RowsAt(table, n) = s.rows
    BY DEF SnapsOK, RowsAt
  <2>2. C = IF s.kind = "manifests" THEN {} ELSE {s.id}
    BY DEF ChangedBy
  <2> HIDE DEF s, before, C
  <2>3. \A i \in Ids : i \notin C => s.rows[i] = before[i]
    BY <2>1, <2>2 DEF CommitOf
  <2>4. QED
    BY <2>1, <2>3 DEF before
<1>9. \A rows \in AnyRows, i \in Ids :
          /\ Changes(table, from, p, i) = {} =>
                 ApplyRows(rows, a)[i] = rows[i] /\ RowsAt(table, p)[i] = RowsAt(table, from)[i]
          /\ \A k \in LastChange(table, from, p, i) :
                 StillShown(table, to, k) => ApplyRows(rows, a)[i] = RowsAt(table, p)[i]
  BY Zenon DEF DiffIs
<1> HIDE DEF p, q, a, b, C
<1>10. ASSUME NEW rows \in AnyRows, NEW i \in Ids
       PROVE  /\ Changes(table, from, n, i) = {} =>
                     ApplyRows(rows, b)[i] = rows[i] /\ RowsAt(table, n)[i] = RowsAt(table, from)[i]
              /\ \A k \in LastChange(table, from, n, i) :
                     StillShown(table, to, k) => ApplyRows(rows, b)[i] = RowsAt(table, n)[i]
  <2> DEFINE mid == ApplyRows(rows, a)
  <2>1. mid \in AnyRows /\ ApplyRows(rows, b) = ApplyRows(mid, q)
    BY <1>2, <1>5, <1>7, ApplyInTurn, ApplyRowsEnd
  <2>2. Changes(table, from, n, i) = Changes(table, from, p, i) \cup (IF i \in C THEN {n} ELSE {})
    BY <1>3 DEF Changes, C
  <2>3. Changes(table, from, p, i) \subseteq 1 .. p
    BY <1>4 DEF Changes
  <2>4. LastChange(table, from, n, i)
            = {k \in Changes(table, from, n, i) : \A m \in Changes(table, from, n, i) : m <= k}
    BY <1>1, LastChangeIs
  <2>5. LastChange(table, from, p, i)
            = {k \in Changes(table, from, p, i) : \A m \in Changes(table, from, p, i) : m <= k}
    BY <1>1, LastChangeIs
  <2>6. CASE i \in C
    <3>1. n \in Changes(table, from, n, i)
      BY <2>2, <2>6
    <3>2. \A k \in LastChange(table, from, n, i) : k = n
      <4>1. ASSUME NEW k \in LastChange(table, from, n, i)
            PROVE  k = n
        <5>1. k \in Changes(table, from, n, i) /\ n <= k
          BY <2>4, <3>1
        <5>2. k = n \/ k \in 1 .. p
          BY <2>2, <2>3, <2>6, <5>1
        <5>3. QED
          BY <1>1, <5>1, <5>2
      <4>2. QED
        BY <4>1
    <3>3. StillShown(table, to, n) => ApplyRows(mid, q)[i] = RowsAt(table, n)[i]
      BY <1>6, <2>1, <2>6
    <3>4. QED
      BY <2>1, <3>1, <3>2, <3>3
  <2>7. CASE i \notin C
    <3>1. Changes(table, from, n, i) = Changes(table, from, p, i)
      BY <2>2, <2>7
    <3>2. LastChange(table, from, n, i) = LastChange(table, from, p, i)
      BY <2>4, <2>5, <3>1
    <3>3. ApplyRows(mid, q)[i] = mid[i]
      <4> DEFINE v == mid[i]
      <4>1. Brings(q, i, v) /\ ~Meets(q, i)
        BY <1>5, <2>7 DEF Brings, Meets
      <4> HIDE DEF v, mid
      <4>2. ApplyRows(mid, q)[i] = IF Meets(q, i) THEN v ELSE mid[i]
        BY <1>5, <2>1, <4>1, ApplyRowsAt
      <4>3. QED
        BY <4>1, <4>2
    <3>4. RowsAt(table, n)[i] = RowsAt(table, p)[i]
      BY <1>8, <2>7
    <3>5. QED
      BY <1>9, <2>1, <3>1, <3>2, <3>3, <3>4
  <2>8. QED
    BY <2>6, <2>7
<1>11. QED
  BY <1>7, <1>10, Zenon DEF DiffIs, b

\* From every ancestor, by induction along the parents.
LEMMA DiffFromAncestor ==
    ASSUME NEW table, TableOK(table), SnapsOK(table), NEW to \in 1 .. Len(table.snaps),
           NEW from \in Walk(table, 0, to)
    PROVE  DiffIs(table, to, from, to)
<1> DEFINE G == {k \in 0 .. Len(table.snaps) : from \in Walk(table, 0, k) => DiffIs(table, to, from, k)}
<1>1. 0 \in G
  <2>1. 0 \in 0 .. Len(table.snaps)
    BY DEF TableOK
  <2>2. Walk(table, 0, 0) = {}
    BY <2>1, WalkStep
  <2>3. QED
    BY <2>1, <2>2
<1>2. ASSUME NEW k \in 1 .. Len(table.snaps), table.snaps[k].parent \in G
      PROVE  k \in G
  <2>1. SUFFICES ASSUME from \in Walk(table, 0, k)
                 PROVE  DiffIs(table, to, from, k)
    OBVIOUS
  <2>2. k \in 0 .. Len(table.snaps)
    OBVIOUS
  <2>3. k \notin {0} \cup table.expired /\ Walk(table, 0, k) = Walk(table, 0, table.snaps[k].parent) \cup {k}
    BY <2>1, <2>2, WalkStep
  <2>4. CASE from = k
    BY <2>4, DiffNone
  <2>5. CASE from # k
    <3>1. DiffIs(table, to, from, table.snaps[k].parent)
      BY <1>2, <2>1, <2>3, <2>5
    <3>2. k \notin {0, from} \cup table.expired
      BY <2>3, <2>5
    <3>3. QED
      BY <3>1, <3>2, DiffMore
  <2>6. QED
    BY <2>4, <2>5
<1> HIDE DEF G
<1>3. to \in 0 .. Len(table.snaps)
  OBVIOUS
<1>4. to \in G
  BY <1>1, <1>2, <1>3, AlongParents
<1>5. QED
  BY <1>4 DEF G

\* What scan_delta gives for a watermark that is an ancestor.
LEMMA DiffScan ==
    ASSUME NEW table, TableOK(table), SnapsOK(table), NEW to \in 1 .. Len(table.snaps),
           NEW from \in Walk(table, 0, to), NEW rows \in AnyRows, NEW i \in Ids
    PROVE  ScanDoes(rows[i], i, FALSE, ShownIn(table, from, to), HiddenIn(table, from, to),
                    ApplyRows(rows, DeltaRows(table, from, to))[i],
                    RowsAt(table, from)[i], RowsAt(table, to)[i])
<1> DEFINE after == ApplyRows(rows, DeltaRows(table, from, to))[i]
           shown == ShownIn(table, from, to)
           hidden == HiddenIn(table, from, to)
<1>1. DiffIs(table, to, from, to)
  BY DiffFromAncestor
<1>2. DeltaUpTo(table, to, from, to) = DeltaRows(table, from, to)
  BY DEF DeltaUpTo, DeltaRows
<1>3. /\ Changes(table, from, to, i) = {} =>
             after = rows[i] /\ RowsAt(table, to)[i] = RowsAt(table, from)[i]
      /\ \A k \in LastChange(table, from, to, i) :
             StillShown(table, to, k) => after = RowsAt(table, to)[i]
  BY <1>1, <1>2, Zenon DEF DiffIs
<1>4. to \in 0 .. Len(table.snaps)
  OBVIOUS
<1>5. LastChange(table, from, to, i) = {} => Changes(table, from, to, i) = {}
  BY <1>4, LastChangeIs
<1>6. i \in shown => \E k \in LastChange(table, from, to, i) : StillShown(table, to, k)
  BY Zenon DEF ShownIn
<1>7. i \notin shown /\ i \notin hidden => LastChange(table, from, to, i) = {}
  BY Zenon DEF ShownIn, HiddenIn
<1> HIDE DEF after, shown, hidden
<1>8. ScanDoes(rows[i], i, FALSE, shown, hidden, after, RowsAt(table, from)[i], RowsAt(table, to)[i])
  BY <1>3, <1>5, <1>6, <1>7 DEF ScanDoes
<1>9. QED
  BY <1>8 DEF after, shown, hidden

\* And what it gives when it is none: an upsert for each live row and nothing else.
LEMMA FullScan ==
    ASSUME NEW table, TableOK(table), NEW to \in 0 .. Len(table.snaps),
           NEW rs \in FullScans(table, to), NEW rows \in AnyRows, NEW i \in Ids, NEW hidden, NEW src
    PROVE  ScanDoes(rows[i], i, TRUE, {j \in Ids : RowsAt(table, to)[j] # NoVec}, hidden,
                    ApplyRows(rows, rs)[i], src, RowsAt(table, to)[i])
<1> DEFINE at == RowsAt(table, to)
           live == {j \in Ids : at[j] # NoVec}
<1>1. RowsOf(rs, live, at)
  BY FullScansIs
<1>2. i \in live <=> at[i] # NoVec
  OBVIOUS
<1> HIDE DEF live
<1>3. ApplyRows(rows, rs)[i] = IF i \in live THEN at[i] ELSE rows[i]
  BY <1>1, RowsOfAt
<1>4. ScanDoes(rows[i], i, TRUE, live, hidden, ApplyRows(rows, rs)[i], src, at[i])
  BY <1>2, <1>3 DEF ScanDoes
<1>5. QED
  BY <1>4 DEF live

----------------------------------------------------------------------------
(* The source *)

\* Every snapshot of the old table is one of the new.
Longer(old, new) ==
    /\ TableOK(old) /\ TableOK(new) /\ Len(old.snaps) <= Len(new.snaps)
    /\ \A n \in 1 .. Len(old.snaps) : new.snaps[n] = old.snaps[n]

\* Snapshots keep their rows.
LEMMA LongerRows ==
    ASSUME NEW old, NEW new, Longer(old, new), NEW n \in 0 .. Len(old.snaps)
    PROVE  RowsAt(new, n) = RowsAt(old, n)
<1>1. n = 0 \/ n \in 1 .. Len(old.snaps)
  BY DEF Longer, TableOK
<1>2. QED
  BY <1>1 DEF Longer, RowsAt

\* Snapshots that are right stay right.
LEMMA LongerSnaps ==
    ASSUME NEW old, NEW new, Longer(old, new), SnapsOK(old),
           \A n \in 1 .. Len(new.snaps) : n \notin 1 .. Len(old.snaps) =>
               /\ CommitOf(new.snaps[n], new.snaps[n].kind, new.snaps[n].id,
                           RowsAt(new, new.snaps[n].parent))
               /\ EntriesOf(new, new.snaps[n])
    PROVE  SnapsOK(new)
<1>1. SUFFICES ASSUME NEW n \in 1 .. Len(new.snaps), n \in 1 .. Len(old.snaps)
               PROVE  /\ CommitOf(new.snaps[n], new.snaps[n].kind, new.snaps[n].id,
                                  RowsAt(new, new.snaps[n].parent))
                      /\ EntriesOf(new, new.snaps[n])
  BY DEF SnapsOK
<1>2. /\ TableOK(old) /\ new.snaps[n] = old.snaps[n]
  BY <1>1 DEF Longer
<1>3. old.snaps[n].parent \in 0 .. Len(old.snaps)
  BY <1>1, <1>2, ParentFacts
<1>4. RowsAt(new, old.snaps[n].parent) = RowsAt(old, old.snaps[n].parent)
  BY <1>3, LongerRows
<1>5. CommitOf(old.snaps[n], old.snaps[n].kind, old.snaps[n].id, RowsAt(old, old.snaps[n].parent))
  BY <1>1 DEF SnapsOK
<1>6. EntriesOf(new, old.snaps[n])
  <2>1. EntriesOf(old, old.snaps[n])
    BY <1>1 DEF SnapsOK
  <2>2. \A k \in 1 .. Len(old.snaps) : k \in 1 .. Len(new.snaps) /\ new.snaps[k] = old.snaps[k]
    BY DEF Longer, TableOK
  <2>3. QED
    BY <2>1, <2>2 DEF EntriesOf
<1>7. QED
  BY <1>2, <1>4, <1>5, <1>6

\* Entries that are kept are those of the current snapshot, and the commit's own.
LEMMA NextEntries ==
    ASSUME NEW table, NEW kind, NEW i, NEW n, NEW keep \in BOOLEAN
    PROVE  /\ \A k \in NextAdded(table, kind, i, n) :
                  \/ k = n /\ kind \in FileAdds
                  \/ table.current # 0 /\ k \in table.snaps[table.current].added
           /\ \A k \in NextDropped(table, kind, n, keep) :
                  \/ k = n /\ kind \in FileDrops
                  \/ table.current # 0 /\ k \in table.snaps[table.current].dropped
<1> DEFINE was == table.snaps[table.current].added
           wasDropped == table.snaps[table.current].dropped
           lost == IF kind \in FileDrops THEN Holder(table, i) ELSE {}
           kept == IF table.current = 0 \/ kind = "manifests" THEN {} ELSE was \ lost
           keptDropped == IF table.current = 0 \/ kind = "manifests" \/ ~keep THEN {} ELSE wasDropped
           own == IF kind \in FileAdds THEN {n} ELSE {}
           ownDropped == IF kind \in FileDrops THEN {n} ELSE {}
<1>1. kept = {} \/ (table.current # 0 /\ kept \subseteq was)
  <2> HIDE DEF was, lost
  <2>1. QED
    OBVIOUS
<1>2. keptDropped = {} \/ (table.current # 0 /\ keptDropped \subseteq wasDropped)
  BY Zenon
<1>3. NextAdded(table, kind, i, n) = kept \cup own
  BY DEF NextAdded
<1>4. NextDropped(table, kind, n, keep) = keptDropped \cup ownDropped
  BY DEF NextDropped
<1> HIDE DEF was, wasDropped, kept, keptDropped
<1>5. QED
  BY <1>1, <1>2, <1>3, <1>4 DEF was, wasDropped

\* A commit descends from the current snapshot and changes one row at most.
LEMMA CommittedOK ==
    ASSUME NEW table, TableOK(table), SnapsOK(table),
           NEW kind \in CommitKinds, NEW i \in Ids, NEW bad \in BOOLEAN, NEW keep \in BOOLEAN,
           CanCommit(table, kind, i), NEW new, new = Committed(table, kind, i, bad, keep)
    PROVE  SnapsOK(new) /\ Longer(table, new) /\ Len(new.snaps) = Len(table.snaps) + 1
<1> DEFINE n == Len(table.snaps) + 1
           before == RowsAt(table, table.current)
           v == IF bad THEN BadVec ELSE n
           row == CASE kind = "manifests" -> before[i]
                    [] kind \in FileAdds -> v
                    [] OTHER -> NoVec
           rows == [before EXCEPT ![i] = row]
           added == NextAdded(table, kind, i, n)
           dropped == NextDropped(table, kind, n, keep)
           s == [kind |-> kind, id |-> i, parent |-> table.current, rows |-> rows,
                 added |-> added, dropped |-> dropped]
<1>1. /\ table \in [snaps : Seq(Snapshot), current : Nat, expired : SUBSET Nat]
      /\ table.current <= Len(table.snaps) /\ table.expired \subseteq 1 .. Len(table.snaps)
      /\ \A k \in 1 .. Len(table.snaps) : table.snaps[k].parent < k
  BY DEF TableOK
<1>2. table.snaps \in Seq(Snapshot) /\ table.current \in 0 .. Len(table.snaps) /\ n \in Nat
  BY <1>1
<1>3. before \in [Ids -> Nat \cup {BadVec, NoVec}]
  BY <1>2, RowsAtType DEF Rows
<1>4. v \in Nat \cup {BadVec, NoVec} /\ v # NoVec
  BY <1>2, SourceAssumption
<1>5. kind \in {"drop", "delete"} => before[i] # NoVec
  BY DEF CanCommit
<1>6. new = [table EXCEPT !.current = n, !.snaps = Append(@, s)]
  BY DEF Committed
<1> HIDE DEF v, before
<1>7. /\ kind = "manifests" => row = before[i]
      /\ kind \in FileAdds => row = v
      /\ kind \in {"drop", "delete"} => row = NoVec
  BY DEF FileAdds
<1>8. kind = "manifests" \/ kind \in FileAdds \/ kind \in {"drop", "delete"}
  BY DEF CommitKinds, FileAdds
<1> HIDE DEF row
<1>9. row \in Nat \cup {BadVec, NoVec}
  BY <1>3, <1>4, <1>7, <1>8
<1>10. rows \in Rows /\ rows[i] = row /\ \A j \in Ids : j # i => rows[j] = before[j]
  BY <1>3, <1>9 DEF Rows
<1> HIDE DEF rows
<1>11. CommitOf(s, kind, i, before) /\ s.kind = kind /\ s.id = i
  <2>1. /\ s.kind = kind /\ s.id = i /\ s.rows = rows
    OBVIOUS
  <2> HIDE DEF s
  <2>2. \A j \in Ids : (j # i \/ kind = "manifests") => rows[j] = before[j]
    BY <1>7, <1>10
  <2>3. QED
    BY <1>4, <1>5, <1>7, <1>10, <2>1, <2>2 DEF CommitOf
<1>12. /\ \A k \in added : \/ k = n /\ kind \in FileAdds
                           \/ table.current # 0 /\ k \in table.snaps[table.current].added
       /\ \A k \in dropped : \/ k = n /\ kind \in FileDrops
                             \/ table.current # 0 /\ k \in table.snaps[table.current].dropped
  BY NextEntries
<1> HIDE DEF added, dropped
<1>13. table.current # 0 => EntriesOf(table, table.snaps[table.current])
  BY <1>2 DEF SnapsOK
<1>14. /\ \A k \in added : \/ k = n /\ kind \in FileAdds
                           \/ k \in 1 .. Len(table.snaps) /\ table.snaps[k].kind \in FileAdds
       /\ \A k \in dropped : \/ k = n /\ kind \in FileDrops
                             \/ k \in 1 .. Len(table.snaps) /\ table.snaps[k].kind \in FileDrops
  BY <1>12, <1>13 DEF EntriesOf
<1>15. added \in SUBSET Nat /\ dropped \in SUBSET Nat
  BY <1>2, <1>14
<1>16. s \in Snapshot /\ s.parent = table.current /\ s.added = added /\ s.dropped = dropped
  BY <1>2, <1>10, <1>15 DEF Snapshot
<1> HIDE DEF s
<1>17. /\ new.snaps = Append(table.snaps, s) /\ new.current = n /\ new.expired = table.expired
       /\ new \in [snaps : Seq(Snapshot), current : Nat, expired : SUBSET Nat]
  <2> DEFINE a == Append(table.snaps, s)
  <2>1. a \in Seq(Snapshot)
    BY <1>2, <1>16
  <2>2. new = [table EXCEPT !.current = n, !.snaps = a]
    BY <1>1, <1>6
  <2> HIDE DEF a
  <2>3. new.snaps = a /\ new.current = n /\ new.expired = table.expired
    BY <1>1, <2>2
  <2>4. new \in [snaps : Seq(Snapshot), current : Nat, expired : SUBSET Nat]
    BY <1>1, <1>2, <2>1, <2>2
  <2>5. QED
    BY <2>3, <2>4 DEF a
<1>18. Len(new.snaps) = n /\ \A k \in 1 .. n : new.snaps[k] = IF k = n THEN s ELSE table.snaps[k]
  BY <1>2, <1>16, <1>17
<1>19. \A k \in 1 .. n : new.snaps[k].parent < k
  BY <1>1, <1>2, <1>16, <1>18
<1>20. new.expired \subseteq 1 .. n
  BY <1>1, <1>17
<1>21. TableOK(new)
  BY <1>2, <1>17, <1>18, <1>19, <1>20 DEF TableOK
<1>22. \A k \in 1 .. Len(table.snaps) : k \in 1 .. n /\ k # n
  BY <1>2
<1>23. Longer(table, new)
  BY <1>2, <1>18, <1>21, <1>22 DEF Longer
<1>24. new.snaps[n] = s /\ RowsAt(new, table.current) = before
  BY <1>2, <1>18, <1>23, LongerRows DEF before
<1>25. EntriesOf(new, s)
  BY <1>2, <1>11, <1>14, <1>16, <1>18, <1>22, <1>24 DEF EntriesOf
<1>26. SnapsOK(new)
  <2>1. \A k \in 1 .. Len(new.snaps) : k \notin 1 .. Len(table.snaps) => k = n
    BY <1>2, <1>18
  <2>2. CommitOf(new.snaps[n], new.snaps[n].kind, new.snaps[n].id, RowsAt(new, new.snaps[n].parent))
    BY <1>11, <1>16, <1>24
  <2>3. QED
    BY <1>23, <1>24, <1>25, <2>1, <2>2, LongerSnaps
<1>27. QED
  BY <1>18, <1>23, <1>26

\* All tables of the new state have the snapshots of the old.
Grown(old, new) == \A t \in Tables : Longer(old[t], new[t])

\* A watermark still names a snapshot, with the same rows.
LEMMA NamesGrown ==
    ASSUME NEW old, NEW new, Grown(old, new), NEW mark, Names(old, mark)
    PROVE  Names(new, mark) /\ RowsAt(new[mark[1]], mark[2]) = RowsAt(old[mark[1]], mark[2])
<1>1. mark[1] \in Tables /\ mark[2] \in 1 .. Len(old[mark[1]].snaps)
  BY DEF Names
<1>2. Longer(old[mark[1]], new[mark[1]])
  BY <1>1 DEF Grown
<1>3. mark[2] \in 1 .. Len(new[mark[1]].snaps) /\ mark[2] \in 0 .. Len(old[mark[1]].snaps)
  BY <1>1, <1>2 DEF Longer, TableOK
<1>4. QED
  BY <1>1, <1>2, <1>3, LongerRows DEF Names

\* An honest watermark stays honest, whatever the source does.
LEMMA GoodGrown ==
    ASSUME NEW old, NEW new, Grown(old, new), NEW c \in Good(old)
    PROVE  c \in Good(new)
<1>1. CASE c = Absent
  BY <1>1 DEF Good
<1>2. CASE c # Absent
  <2>1. c \in Coll /\ OwnMark(c) /\ Mirrors(old, c)
    BY <1>2 DEF Good
  <2>2. c.mark # NoMark =>
            Names(new, c.mark) /\ RowsAt(new[c.mark[1]], c.mark[2]) = RowsAt(old[c.mark[1]], c.mark[2])
    BY <2>1, NamesGrown DEF Mirrors
  <2>3. Mirrors(new, c)
    BY <2>1, <2>2 DEF Mirrors
  <2>4. QED
    BY <2>1, <2>3 DEF Good
<1>3. QED
  BY <1>1, <1>2

\* A full scan does the same whatever the rows of the watermark are.
LEMMA FullDoes ==
    ASSUME NEW rows, NEW i, NEW shown, NEW hidden, NEW after, NEW src, NEW other, NEW dst,
           ScanDoes(rows, i, TRUE, shown, hidden, after, src, dst)
    PROVE  ScanDoes(rows, i, TRUE, shown, hidden, after, other, dst)
  BY DEF ScanDoes

\* So does a scan made before the source moved on.
LEMMA ScanGrown ==
    ASSUME NEW old, NEW new, Grown(old, new), NEW tk, tk.binding \in Tables, ScanOK(old, tk)
    PROVE  ScanOK(new, tk)
<1> DEFINE t == tk.binding
<1>1. Longer(old[t], new[t])
  BY DEF Grown
<1>2. Len(old[t].snaps) \in Nat /\ Len(new[t].snaps) \in Nat /\ Len(old[t].snaps) <= Len(new[t].snaps)
  BY <1>1 DEF Longer, TableOK
<1>3. /\ tk.to \in 1 .. Len(old[t].snaps)
      /\ tk.full \in BOOLEAN /\ tk.shown \in SUBSET Ids /\ tk.hidden \in SUBSET Ids
      /\ ~tk.full => /\ tk.from # NoMark /\ tk.from[1] = t
                     /\ tk.from[2] \in 1 .. Len(old[t].snaps)
  BY DEF ScanOK
<1>4. \A rows \in AnyRows, i \in Ids :
          ScanDoes(rows[i], i, tk.full, tk.shown, tk.hidden, ApplyRows(rows, tk.rows)[i],
                   RowsAt(old[t], tk.from[2])[i], RowsAt(old[t], tk.to)[i])
  BY Zenon DEF ScanOK
<1>5. /\ tk.to \in 1 .. Len(new[t].snaps)
      /\ ~tk.full => tk.from[2] \in 1 .. Len(new[t].snaps)
  BY <1>2, <1>3
<1>6. RowsAt(new[t], tk.to) = RowsAt(old[t], tk.to)
  <2>1. tk.to \in 0 .. Len(old[t].snaps)
    BY <1>2, <1>3
  <2>2. QED
    BY <1>1, <2>1, LongerRows
<1> HIDE DEF t
<1>7. ASSUME NEW rows \in AnyRows, NEW i \in Ids
      PROVE  ScanDoes(rows[i], i, tk.full, tk.shown, tk.hidden, ApplyRows(rows, tk.rows)[i],
                      RowsAt(new[t], tk.from[2])[i], RowsAt(new[t], tk.to)[i])
  <2>1. ScanDoes(rows[i], i, tk.full, tk.shown, tk.hidden, ApplyRows(rows, tk.rows)[i],
                 RowsAt(old[t], tk.from[2])[i], RowsAt(new[t], tk.to)[i])
    BY <1>4, <1>6
  <2>2. CASE tk.full = TRUE
    BY <2>1, <2>2, FullDoes
  <2>3. CASE ~tk.full
    <3>1. tk.from[2] \in 0 .. Len(old[t].snaps)
      BY <1>2, <1>3, <2>3
    <3>2. RowsAt(new[t], tk.from[2]) = RowsAt(old[t], tk.from[2])
      BY <1>1, <3>1, LongerRows
    <3>3. QED
      BY <2>1, <3>2
  <2>4. QED
    BY <1>3, <2>2, <2>3
<1>8. QED
  BY <1>3, <1>5, <1>7, Zenon DEF ScanOK, t

----------------------------------------------------------------------------
(* The invariant is inductive *)

\* It holds before the first commit.
LEMMA InitInv == Init => IInv
<1> SUFFICES ASSUME Init
             PROVE  IInv
  OBVIOUS
<1>1. TableOK(NewTable) /\ SnapsOK(NewTable) /\ Len(NewTable.snaps) = 0
  <2>1. <<>> \in Seq(Snapshot) /\ Len(<<>>) = 0
    OBVIOUS
  <2>2. NewTable.snaps = <<>> /\ NewTable.current = 0 /\ NewTable.expired = {}
    BY DEF NewTable
  <2>3. TableOK(NewTable)
    BY <2>1 DEF TableOK, NewTable
  <2>4. \A n \in 1 .. Len(NewTable.snaps) : FALSE
    BY <2>1, <2>2
  <2>5. QED
    BY <2>1, <2>2, <2>3, <2>4 DEF SnapsOK
<1>2. TablesOK
  BY <1>1, SourceAssumption DEF Init, TablesOK
<1>3. coll \in Good(tables) /\ snap \in Good(tables)
  <2>1. ASSUME NEW k \in Kinds, NEW t \in Tables
        PROVE  [NewCollection(k) EXCEPT !.binding = t] \in Good(tables)
    <3> DEFINE c == [NewCollection(k) EXCEPT !.binding = t]
    <3>1. k \in {"flat", "ivf"}
      BY SourceAssumption
    <3>2. c \in Coll /\ c.mark = NoMark /\ c.atBind = NoMark
      BY <3>1 DEF NewCollection, Coll, EmptyRows, Vecs, Mark
    <3> HIDE DEF c
    <3>3. c \in Good(tables)
      BY <3>2 DEF Good, OwnMark, Mirrors
    <3>4. QED
      BY <3>3 DEF c
  <2>2. Absent \in Good(tables)
    BY DEF Good
  <2>3. QED
    BY <2>1, <2>2 DEF Init
<1>4. wal \in Seq(WalOp)
  <2>1. <<>> \in Seq(WalOp)
    OBVIOUS
  <2>2. QED
    BY <2>1, Zenon DEF Init
<1>5. TaskOK /\ DueOK /\ counter \in 0 .. MaxCount /\ since \in 0 .. MaxCount
  BY SourceAssumption DEF Init, TaskOK, DueOK, Idle
<1>6. QED
  BY <1>2, <1>3, <1>4, <1>5 DEF IInv

\* What the source does moves one table only, and every snapshot stays.
LEMMA SourceStep ==
    ASSUME IInv, NEW t \in Tables, NEW table, Longer(tables[t], table), SnapsOK(table),
           Source(t, table),
           commits' \in 0 .. MaxCommits, commits <= commits', Len(table.snaps) <= commits'
    PROVE  IInv'
<1>1. /\ commits \in Nat /\ tables = [u \in Tables |-> tables[u]]
      /\ \A u \in Tables : TableOK(tables[u]) /\ SnapsOK(tables[u]) /\ Len(tables[u].snaps) <= commits
  BY DEF IInv, TablesOK
<1>2. tables' = [u \in Tables |-> IF u = t THEN table ELSE tables[u]]
  BY <1>1 DEF Source
<1>3. \A u \in Tables : Len(tables[u].snaps) \in Nat
  BY <1>1 DEF TableOK
<1>4. TablesOK'
  <2>1. \A u \in Tables : /\ TableOK(tables'[u]) /\ SnapsOK(tables'[u])
                          /\ Len(tables'[u].snaps) <= commits'
    BY <1>1, <1>2, <1>3 DEF Longer
  <2>2. DOMAIN tables' = Tables /\ tables' = [u \in Tables |-> tables'[u]]
    BY <1>2
  <2>3. QED
    BY <2>1, <2>2 DEF TablesOK
<1>5. Grown(tables, tables')
  <2>1. \A u \in Tables : Longer(tables[u], tables[u])
    BY <1>1, <1>3 DEF Longer
  <2>2. \A u \in Tables : tables'[u] = IF u = t THEN table ELSE tables[u]
    BY <1>2
  <2>3. QED
    BY <2>1, <2>2 DEF Grown
<1>6. UNCHANGED <<coll, wal, snap, task, counter, since>>
  BY DEF Source
<1>7. coll' \in Good(tables)' /\ snap' \in Good(tables)'
  <2>1. coll \in Good(tables') /\ snap \in Good(tables')
    BY <1>5, GoodGrown DEF IInv
  <2>2. QED
    BY <1>6, <2>1
<1>8. TaskOK'
  <2>1. TaskOK
    BY DEF IInv
  <2>2. task.pc = "observed" /\ task.from # NoMark => Names(tables', task.from)
    BY <1>5, <2>1, NamesGrown DEF TaskOK
  <2>3. task.pc = "scanned" => ScanOK(tables', task)
    BY <1>5, <2>1, ScanGrown DEF TaskOK
  <2>4. QED
    BY <1>6, <2>1, <2>2, <2>3 DEF TaskOK
<1>9. QED
  BY <1>4, <1>6, <1>7, <1>8 DEF IInv, DueOK

\* The bounds of one table, in one place.
LEMMA TableFacts ==
    ASSUME IInv, NEW t \in Tables
    PROVE  /\ TableOK(tables[t]) /\ SnapsOK(tables[t])
           /\ Len(tables[t].snaps) \in Nat
           /\ Len(tables[t].snaps) <= commits
           /\ commits \in 0 .. MaxCommits
           /\ tables[t].current \in 0 .. Len(tables[t].snaps)
BY DEF IInv, TablesOK, TableOK

\* A commit keeps the invariant, at whatever point the task is.
LEMMA CommitInv ==
    ASSUME IInv, NEW t \in Tables, Commit(t)
    PROVE  IInv'
<1>1. PICK kind \in CommitKinds, i \in Ids, bad \in BOOLEAN, keep \in BOOLEAN :
          CanCommit(tables[t], kind, i) /\ Source(t, Committed(tables[t], kind, i, bad, keep))
  BY DEF Commit
<1> DEFINE new == Committed(tables[t], kind, i, bad, keep)
<1>2. TableOK(tables[t]) /\ SnapsOK(tables[t])
  BY TableFacts
<1>3. SnapsOK(new) /\ Longer(tables[t], new) /\ Len(new.snaps) = Len(tables[t].snaps) + 1
  BY <1>1, <1>2, CommittedOK
<1>4. commits' \in 0 .. MaxCommits /\ commits' = commits + 1
  BY TableFacts, SourceAssumption DEF Commit
<1>5. Len(new.snaps) <= commits' /\ commits <= commits'
  BY <1>3, <1>4, TableFacts
<1> HIDE DEF new
<1>6. Source(t, new)
  BY <1>1 DEF new
<1>7. QED
  BY <1>3, <1>4, <1>5, <1>6, SourceStep

\* The same snapshots are as many and as right.
LEMMA SameSnaps ==
    ASSUME NEW old, NEW new, TableOK(old), TableOK(new), SnapsOK(old), new.snaps = old.snaps
    PROVE  Longer(old, new) /\ SnapsOK(new)
<1>1. Longer(old, new)
  BY DEF Longer, TableOK
<1>2. QED
  BY <1>1, LongerSnaps

\* So does a rollback to an ancestor.
LEMMA RollbackInv ==
    ASSUME IInv, NEW t \in Tables, Rollback(t)
    PROVE  IInv'
<1> DEFINE table == tables[t]
           r == Lineage(table, table.current)
<1>1. r \in Seq(1 .. Len(table.snaps))
  BY TableFacts, CommitRangeType DEF Lineage
<1>2. PICK n \in ToSet(r) : Source(t, [table EXCEPT !.current = n]) /\ UNCHANGED commits
  BY DEF Rollback
<1>3. n \in 1 .. Len(table.snaps)
  <2> HIDE DEF r
  <2>1. n \in {r[k] : k \in DOMAIN r}
    BY <1>2 DEF ToSet
  <2>2. QED
    BY <1>1, <2>1
<1> DEFINE new == [table EXCEPT !.current = n]
<1> HIDE DEF r
<1>4. /\ TableOK(table) /\ SnapsOK(table) /\ Len(table.snaps) \in Nat
      /\ Len(table.snaps) <= commits /\ commits \in 0 .. MaxCommits
  BY TableFacts
<1> HIDE DEF table
<1>5. TableOK(new) /\ new.snaps = table.snaps
  BY <1>3, <1>4 DEF TableOK
<1>6. Source(t, new) /\ commits' = commits
  BY <1>2
<1> HIDE DEF new
<1>7. Longer(table, new) /\ SnapsOK(new)
  BY <1>4, <1>5, SameSnaps
<1>8. QED
  BY <1>4, <1>5, <1>6, <1>7, SourceStep DEF table

\* So does expiry.
LEMMA ExpireInv ==
    ASSUME IInv, NEW t \in Tables, Expire(t)
    PROVE  IInv'
<1> DEFINE table == tables[t]
<1>1. PICK n \in DOMAIN table.snaps :
          Source(t, [table EXCEPT !.expired = @ \cup {n}]) /\ UNCHANGED commits
  BY DEF Expire
<1> DEFINE new == [table EXCEPT !.expired = @ \cup {n}]
<1>2. /\ TableOK(table) /\ SnapsOK(table) /\ Len(table.snaps) \in Nat
      /\ Len(table.snaps) <= commits /\ commits \in 0 .. MaxCommits
  BY TableFacts
<1> HIDE DEF table
<1>3. n \in 1 .. Len(table.snaps)
  BY <1>1, <1>2 DEF TableOK
<1>4. TableOK(new) /\ new.snaps = table.snaps
  <2>1. table.expired \cup {n} \subseteq 1 .. Len(table.snaps)
    BY <1>2, <1>3 DEF TableOK
  <2>2. /\ new \in [snaps : Seq(Snapshot), current : Nat, expired : SUBSET Nat]
        /\ new.snaps = table.snaps /\ new.current = table.current
        /\ new.expired = table.expired \cup {n}
    BY <1>2, <1>3 DEF TableOK
  <2>3. QED
    BY <1>2, <2>1, <2>2 DEF TableOK
<1>5. Source(t, new) /\ commits' = commits
  BY <1>1
<1> HIDE DEF new
<1>6. Longer(table, new) /\ SnapsOK(new)
  BY <1>2, <1>4, SameSnaps
<1>7. QED
  BY <1>2, <1>4, <1>5, <1>6, SourceStep DEF table

\* So does a client's call: only create and drop start the count of rows over.
LEMMA ClientInv ==
    ASSUME IInv, Client
    PROVE  IInv'
<1>1. PICK call \in Calls : /\ coll' = Replay(coll, call)
                            /\ wal' = wal \o call
                            /\ since' = IF Head(call).op \in {"create", "drop"} THEN 0 ELSE since
  BY DEF Client
<1>2. UNCHANGED <<tables, snap, task, counter, commits>>
  BY DEF Client
<1>3. coll \in Good(tables) /\ wal \in Seq(WalOp) /\ counter \in 0 .. MaxCount /\ since \in 0 .. MaxCount
  BY DEF IInv
<1>4. call \in Seq(WalOp) /\ since' \in 0 .. MaxCount /\ DueOK'
  <2>1. CASE coll = Absent
    <3>1. PICK k \in Kinds, t \in Tables : call = <<[op |-> "create", kind |-> k], BindTo(t)>>
      BY <1>1, <2>1 DEF Calls
    <3> DEFINE c == [op |-> "create", kind |-> k]
    <3>2. c \in WalOp /\ BindTo(t) \in WalOp /\ c.op = "create"
      BY DEF WalOp, BindTo
    <3> HIDE DEF c
    <3>3. call = <<c, BindTo(t)>>
      BY <3>1 DEF c
    <3>4. call \in Seq(WalOp) /\ Head(call) = c
      BY <3>2, <3>3
    <3>5. since' = 0
      BY <1>1, <3>2, <3>4
    <3>6. DueOK'
      <4>1. 0 <= counter' /\ (task'.pc = "applied" => 0 <= Saturating(counter', task'.n))
        BY <1>2, <1>3, SourceAssumption DEF IInv, TaskOK, Saturating
      <4>2. QED
        BY <3>5, <4>1 DEF DueOK
    <3>7. QED
      BY <3>4, <3>5, <3>6, SourceAssumption
  <2>2. CASE coll # Absent
    <3>1. PICK op \in WalOp : /\ call = <<op>>
                              /\ op.op \in {"drop", "bind", "write"}
                              /\ op.op = "bind" => op.table \in Tables
                              /\ op.op = "write" => op.id \in Ids
      <4>1. CASE call = <<[op |-> "drop"]>>
        BY <4>1 DEF WalOp
      <4>2. CASE \E t \in Tables : call = <<BindTo(t)>>
        BY <4>2 DEF WalOp, BindTo
      <4>3. CASE \E i \in Ids, v \in {ClientVec, NoVec} :
                     call = <<[op |-> "write", id |-> i, vec |-> v]>>
        <5>1. PICK i \in Ids, v \in {ClientVec, NoVec} :
                  call = <<[op |-> "write", id |-> i, vec |-> v]>>
          BY <4>3
        <5>2. [op |-> "write", id |-> i, vec |-> v] \in WalOp
          BY DEF WalOp
        <5>3. QED
          BY <5>1, <5>2
      <4>4. QED
        BY <1>1, <2>2, <4>1, <4>2, <4>3 DEF Calls
    <3>2. call \in Seq(WalOp) /\ Head(call) = op
      BY <3>1
    <3>3. coll' = Effect(coll, op)
      BY <1>1, <3>1, ReplayOne
    <3>4. coll \in Coll
      BY <1>3, <2>2 DEF Good
    <3>5. CASE op.op = "drop"
      <4>1. coll' = Absent /\ since' = 0
        BY <1>1, <3>2, <3>3, <3>5 DEF Effect
      <4>2. QED
        BY <3>2, <4>1, SourceAssumption DEF DueOK
    <3>6. CASE op.op # "drop"
      <4>1. since' = since
        BY <1>1, <3>1, <3>2, <3>6
      <4>2. coll'.kind = coll.kind
        BY <2>2, <3>1, <3>3, <3>4, <3>6 DEF Effect, Coll
      <4>3. DueOK'
        BY <1>2, <2>2, <4>1, <4>2 DEF IInv, DueOK
      <4>4. QED
        BY <1>3, <3>2, <4>1, <4>3
    <3>7. QED
      BY <3>5, <3>6
  <2>3. QED
    BY <2>1, <2>2
<1>5. coll' \in Good(tables)
  BY <1>1, <1>3, <1>4, ReplayType
<1>6. wal' \in Seq(WalOp)
  BY <1>1, <1>3, <1>4
<1>7. QED
  BY <1>2, <1>4, <1>5, <1>6 DEF IInv, TablesOK, TaskOK


\* So does a checkpoint.
LEMMA CheckpointInv ==
    ASSUME IInv, Checkpoint
    PROVE  IInv'
<1>1. <<>> \in Seq(WalOp)
  OBVIOUS
<1>2. wal' = <<>> /\ snap' = coll /\ UNCHANGED <<tables, coll, task, counter, since, commits>>
  BY DEF Checkpoint
<1>3. wal' \in Seq(WalOp)
  BY <1>1, <1>2, Zenon
<1>4. QED
  BY <1>2, <1>3 DEF IInv, TablesOK, TaskOK, DueOK

\* So does a crash, after which task and counters start over.
LEMMA CrashInv ==
    ASSUME IInv, Crash
    PROVE  IInv'
<1>1. coll' \in Good(tables)
  BY ReplayType DEF IInv, Crash
<1>2. UNCHANGED <<tables, wal, snap, commits>> /\ task' = Idle /\ counter' = 0 /\ since' = 0
  BY DEF Crash
<1>3. TaskOK' /\ DueOK'
  BY <1>2 DEF TaskOK, DueOK, Idle
<1>4. QED
  BY <1>1, <1>2, <1>3, SourceAssumption DEF IInv, TablesOK

\* A step of the task that leaves collection and counters alone.
LEMMA TaskStep ==
    ASSUME IInv, NEW next, Step(next), UNCHANGED <<coll, counter, since>>, TaskOK',
           task.pc # "applied", next.pc # "applied"
    PROVE  IInv'
<1>1. task' = next /\ UNCHANGED <<tables, wal, snap, commits>>
  BY DEF Step, Moves
<1>2. DueOK'
  BY <1>1 DEF IInv, DueOK
<1>3. QED
  BY <1>1, <1>2 DEF IInv, TablesOK

\* Giving up keeps it, unless rows are still to be counted.
LEMMA ToIdle ==
    ASSUME IInv, Step(Idle), UNCHANGED <<coll, counter, since>>, task.pc # "applied"
    PROVE  IInv'
<1>1. TaskOK' /\ Idle.pc # "applied"
  BY DEF Step, Moves, TaskOK, Idle
<1>2. QED
  BY <1>1, TaskStep

\* bound_collections keeps the invariant.
LEMMA ObserveInv ==
    ASSUME IInv, Observe
    PROVE  IInv'
<1> DEFINE next == [pc |-> "observed", binding |-> coll.binding, from |-> coll.mark]
<1>1. Step(next) /\ UNCHANGED <<coll, counter, since>> /\ task.pc = "idle"
  BY DEF Observe
<1>2. coll.binding \in Tables /\ coll.mark \in Mark /\ Mirrors(tables, coll)
  BY DEF IInv, Good, Coll, Observe, Bound
<1>3. task' = next /\ tables' = tables
  BY <1>1 DEF Step, Moves
<1>4. TaskOK' /\ next.pc # "applied"
  BY <1>2, <1>3 DEF TaskOK, Mirrors
<1> HIDE DEF next
<1>5. QED
  BY <1>1, <1>4, TaskStep

\* So does a scan, of a table that may have changed since.
LEMMA ScanRowsInv ==
    ASSUME IInv, ScanRows
    PROVE  IInv'
<1> DEFINE t == task.binding
           from == task.from
           to == tables[t].current
           table == tables[t]
<1>1. task.pc = "observed" /\ t \in Tables /\ from \in Mark /\ (from # NoMark => Names(tables, from))
  BY DEF ScanRows, IInv, TaskOK
<1>2. TableOK(table) /\ SnapsOK(table) /\ to \in 1 .. Len(table.snaps) /\ to \in 1 .. MaxCommits
  <2>1. /\ TableOK(table) /\ SnapsOK(table) /\ Len(table.snaps) \in Nat
        /\ Len(table.snaps) <= commits /\ commits \in 0 .. MaxCommits
        /\ to \in 0 .. Len(table.snaps)
    BY <1>1, TableFacts
  <2>2. to # 0
    BY DEF ScanRows
  <2> HIDE DEF to, table
  <2>3. QED
    BY <2>1, <2>2, SourceAssumption
<1>3. PICK rows \in (IF Reaches(t, from, to) THEN {DeltaRows(table, from[2], to)}
                     ELSE FullScans(table, to)) :
          Step(Scanned(t, from, to, rows))
  BY DEF ScanRows
<1>4. UNCHANGED <<coll, counter, since>>
  BY DEF ScanRows
<1>5. Reaches(t, from, to) <=> from # NoMark /\ from[1] = t /\ from[2] \in Walk(table, 0, to)
  BY DEF Reaches, IsAncestor, Lineage, Walk
<1> DEFINE next == Scanned(t, from, to, rows)
           live == {i \in Ids : RowsAt(table, to)[i] # NoVec}
<1>6. /\ next.pc = "scanned" /\ next.binding = t /\ next.from = from
      /\ next.to = to /\ next.rows = rows
      /\ next.full = ~Reaches(t, from, to)
      /\ next.shown = (IF Reaches(t, from, to) THEN ShownIn(table, from[2], to) ELSE live)
      /\ next.hidden = (IF Reaches(t, from, to) THEN HiddenIn(table, from[2], to) ELSE {})
  BY DEF Scanned
<1>7. live \in SUBSET Ids
  OBVIOUS
<1> HIDE DEF next, live
<1>8. task' = next /\ tables' = tables /\ Step(next)
  BY <1>3 DEF Step, Moves, next
<1>9. to \in 0 .. Len(table.snaps)
  BY <1>2
<1>10. rows \in Seq(DeltaRow) /\ ScanOK(tables, next)
  <2>1. CASE ~Reaches(t, from, to)
    <3>1. rows \in FullScans(table, to)
      BY <1>3, <2>1
    <3>2. rows \in Seq(DeltaRow)
      BY <1>2, <1>9, <3>1, FullScansType
    <3>3. next.full = TRUE /\ next.shown = live /\ next.hidden = {}
      BY <1>6, <2>1
    <3>4. \A before \in AnyRows, i \in Ids :
              ScanDoes(before[i], i, TRUE, live, {}, ApplyRows(before, rows)[i],
                       RowsAt(table, from[2])[i], RowsAt(table, to)[i])
      BY <1>2, <1>9, <3>1, FullScan DEF live
    <3> HIDE DEF t, to, from, table
    <3>5. ScanOK(tables, next)
      BY <1>2, <1>6, <1>7, <3>3, <3>4, Zenon DEF ScanOK, table
    <3>6. QED
      BY <3>2, <3>5
  <2>2. CASE Reaches(t, from, to)
    <3>1. from # NoMark /\ from[1] = t /\ from[2] \in Walk(table, 0, to)
      BY <1>5, <2>2
    <3>2. from[2] \in 1 .. Len(table.snaps)
      BY <1>1, <3>1 DEF Names
    <3>3. rows = DeltaRows(table, from[2], to)
      BY <1>3, <2>2
    <3>4. rows \in Seq(DeltaRow)
      BY <1>2, <1>9, <3>3, DeltaRowsType
    <3> DEFINE shown == ShownIn(table, from[2], to)
               hidden == HiddenIn(table, from[2], to)
    <3>5. next.full = FALSE /\ next.shown = shown /\ next.hidden = hidden
      BY <1>6, <2>2
    <3>6. \A before \in AnyRows, i \in Ids :
              ScanDoes(before[i], i, FALSE, shown, hidden, ApplyRows(before, rows)[i],
                       RowsAt(table, from[2])[i], RowsAt(table, to)[i])
      BY <1>2, <3>1, <3>3, DiffScan
    <3>7. shown \in SUBSET Ids /\ hidden \in SUBSET Ids
      BY DEF ShownIn, HiddenIn
    <3> HIDE DEF t, to, from, table, shown, hidden
    <3>8. ScanOK(tables, next)
      BY <1>2, <1>6, <3>1, <3>2, <3>5, <3>6, <3>7, Zenon DEF ScanOK, table
    <3>9. QED
      BY <3>4, <3>8
  <2>3. QED
    BY <2>1, <2>2
<1> HIDE DEF t, to, from, table
<1>11. TaskOK' /\ next.pc # "applied"
  BY <1>1, <1>2, <1>6, <1>8, <1>10 DEF TaskOK
<1>12. QED
  BY <1>1, <1>4, <1>8, <1>11, TaskStep

\* What the task finds when the scan is still current.
LEMMA CurrentFacts ==
    ASSUME IInv, task.pc = "scanned", Current
    PROVE  /\ coll \in Coll /\ OwnMark(coll) /\ Mirrors(tables, coll) /\ coll # Absent
           /\ coll.binding = task.binding /\ task.binding \in Tables /\ coll.mark = task.from
           /\ task.to \in 1 .. MaxCommits /\ task.rows \in Seq(DeltaRow) /\ ScanOK(tables, task)
           /\ coll.rows \in [Ids -> Vecs] /\ coll.rows \in AnyRows /\ coll.stale \in SUBSET Ids
<1>1. coll \in Coll /\ OwnMark(coll) /\ Mirrors(tables, coll) /\ coll # Absent
  BY DEF IInv, Good, Current
<1>2. coll.rows \in [Ids -> Vecs] /\ coll.stale \in SUBSET Ids
  BY <1>1 DEF Coll
<1>3. coll.rows \in AnyRows
  BY <1>2 DEF AnyRows
<1>4. QED
  BY <1>1, <1>2, <1>3 DEF IInv, TaskOK, Current

\* A scan applied whole to the collection it was made for: what it shows is right, and
\* what it is silent about was right before and has not changed, or was not there.
LEMMA ApplyMirrors ==
    ASSUME NEW tabs, NEW c, c.rows \in AnyRows, c.stale \in SUBSET Ids, Mirrors(tabs, c),
           NEW tk, tk.binding \in Tables, ScanOK(tabs, tk), c.mark = tk.from,
           NEW d, d.mark = <<tk.binding, tk.to>>, d.rows = ApplyRows(c.rows, tk.rows),
           d.stale = (IF tk.full THEN {i \in Ids \ tk.shown : c.rows[i] # NoVec}
                      ELSE (c.stale \cup tk.hidden) \ tk.shown)
    PROVE  Mirrors(tabs, d)
<1>1. /\ tk.to \in 1 .. Len(tabs[tk.binding].snaps) /\ tk.full \in BOOLEAN
      /\ ~tk.full => tk.from # NoMark /\ tk.from[1] = tk.binding
  BY DEF ScanOK
<1>2. d.mark[1] = tk.binding /\ d.mark[2] = tk.to
  OBVIOUS
<1>3. Names(tabs, d.mark)
  BY <1>1, <1>2 DEF Names
<1>4. ASSUME NEW i \in Ids, i \notin d.stale
      PROVE  d.rows[i] = RowsAt(tabs[tk.binding], tk.to)[i]
  <2> DEFINE after == ApplyRows(c.rows, tk.rows)[i]
             src == RowsAt(tabs[tk.binding], tk.from[2])[i]
             dst == RowsAt(tabs[tk.binding], tk.to)[i]
  <2>1. ScanDoes(c.rows[i], i, tk.full, tk.shown, tk.hidden, after, src, dst)
    BY Zenon DEF ScanOK
  <2>2. d.rows[i] = after
    OBVIOUS
  <2>3. (~tk.full /\ i \notin c.stale) => c.rows[i] = src
    BY <1>1 DEF Mirrors
  <2> HIDE DEF after, src, dst
  <2>4. CASE i \in tk.shown
    BY <2>1, <2>2, <2>4 DEF ScanDoes, dst
  <2>5. CASE i \notin tk.shown /\ tk.full
    <3>1. c.rows[i] = NoVec
      BY <1>4, <2>5
    <3>2. QED
      BY <2>1, <2>2, <2>5, <3>1 DEF ScanDoes, dst
  <2>6. CASE i \notin tk.shown /\ ~tk.full
    <3>1. i \notin c.stale /\ i \notin tk.hidden
      BY <1>4, <2>6
    <3>2. QED
      BY <2>1, <2>2, <2>3, <2>6, <3>1 DEF ScanDoes, dst
  <2>7. QED
    BY <2>4, <2>5, <2>6
<1>5. QED
  BY <1>2, <1>3, <1>4 DEF Mirrors

\* So does apply_source_delta: binding and watermark are compared under its lock.
LEMMA ApplyInv ==
    ASSUME IInv, Apply
    PROVE  IInv'
<1>1. task.pc = "scanned" /\ Current /\ FirstBad(task.rows) = 0
  BY DEF Apply
<1>2. /\ coll \in Coll /\ OwnMark(coll) /\ Mirrors(tables, coll) /\ coll # Absent
      /\ coll.binding = task.binding /\ task.binding \in Tables /\ coll.mark = task.from
      /\ task.to \in 1 .. MaxCommits /\ task.rows \in Seq(DeltaRow) /\ ScanOK(tables, task)
      /\ coll.rows \in [Ids -> Vecs] /\ coll.rows \in AnyRows /\ coll.stale \in SUBSET Ids
  BY <1>1, CurrentFacts
<1> DEFINE rows == ApplyRows(coll.rows, task.rows)
           mark == <<task.binding, task.to>>
           stale == StaleAfter
           n == Len(task.rows)
           next == [pc |-> "applied", n |-> n]
<1>3. /\ coll' = [coll EXCEPT !.rows = rows, !.mark = mark, !.stale = stale]
      /\ since' = Saturating(since, n) /\ counter' = counter
      /\ task' = next /\ UNCHANGED <<tables, wal, snap, commits>>
  BY DEF Apply, Step, Moves
<1>4. rows \in [Ids -> Vecs]
  <2>1. task.rows \in Seq(TakenRow)
    BY <1>1, <1>2, FirstBadIs
  <2>2. QED
    BY <1>2, <2>1, ApplyRowsType
<1>5. mark \in Mark /\ mark[1] = coll.binding
  BY <1>2 DEF Mark
<1>6. stale = (IF task.full THEN {i \in Ids \ task.shown : coll.rows[i] # NoVec}
               ELSE (coll.stale \cup task.hidden) \ task.shown)
  BY Zenon DEF StaleAfter
<1>7. stale \in SUBSET Ids
  <2>1. task.hidden \in SUBSET Ids
    BY <1>2 DEF ScanOK
  <2>2. QED
    BY <1>2, <1>6, <2>1
<1>8. n \in Nat
  BY <1>2
<1>9. mark = <<task.binding, task.to>> /\ rows = ApplyRows(coll.rows, task.rows)
  OBVIOUS
<1> HIDE DEF rows, mark, stale, n
<1>10. /\ coll' \in Coll /\ coll'.kind = coll.kind /\ coll'.mark = mark
       /\ coll'.binding = coll.binding /\ coll'.rows = rows /\ coll'.stale = stale
  BY <1>2, <1>3, <1>4, <1>5, <1>7 DEF Coll
<1>11. Mirrors(tables, coll')
  BY <1>2, <1>6, <1>9, <1>10, ApplyMirrors
<1>12. coll' \in Good(tables)
  BY <1>5, <1>10, <1>11 DEF Good, OwnMark
<1>13. counter \in 0 .. MaxCount /\ since \in 0 .. MaxCount
  BY DEF IInv
<1>14. since' \in 0 .. MaxCount
  BY <1>3, <1>8, <1>13, SourceAssumption DEF Saturating
<1>15. task'.pc = "applied" /\ task'.n = n
  BY <1>3
<1>16. TaskOK'
  BY <1>8, <1>15 DEF TaskOK
<1>17. DueOK'
  <2>1. (coll.kind = "ivf" /\ EveryNRows # 0) => since <= counter
    BY <1>1, <1>2 DEF IInv, DueOK
  <2>2. since <= counter => Saturating(since, n) <= Saturating(counter, n)
    BY <1>8, <1>13, SourceAssumption DEF Saturating
  <2>3. QED
    BY <1>3, <1>10, <1>15, <2>1, <2>2 DEF DueOK
<1>18. QED
  BY <1>3, <1>12, <1>13, <1>14, <1>16, <1>17 DEF IInv, TablesOK

\* The rows before row k leave alone what no row up to it is about.
LEMMA BeforeUntouched ==
    ASSUME NEW rows \in AnyRows, NEW rs \in Seq(DeltaRow), NEW k \in 1 .. Len(rs),
           NEW i \in Ids, \A j \in 1 .. k : rs[j].id # i
    PROVE  ApplyRows(rows, SubSeq(rs, 1, k - 1))[i] = rows[i]
<1> DEFINE p == SubSeq(rs, 1, k - 1)
           v == rows[i]
<1>1. Len(p) = k - 1 /\ p \in Seq(DeltaRow) /\ \A j \in 1 .. k - 1 : p[j] = rs[j]
  OBVIOUS
<1> HIDE DEF p, v
<1>2. \A j \in 1 .. Len(p) : p[j].id # i
  BY <1>1
<1>3. Brings(p, i, v) /\ ~Meets(p, i)
  BY <1>2 DEF Brings, Meets
<1>4. ApplyRows(rows, p)[i] = IF Meets(p, i) THEN v ELSE rows[i]
  BY <1>1, <1>3, ApplyRowsAt
<1>5. QED
  BY <1>3, <1>4 DEF p

\* So does a delta that fails in some row: what it touched is stale.
LEMMA ApplyFailsInv ==
    ASSUME IInv, ApplyFails
    PROVE  IInv'
<1>1. task.pc = "scanned" /\ Current
  BY DEF ApplyFails
<1>2. /\ coll \in Coll /\ OwnMark(coll) /\ Mirrors(tables, coll) /\ coll # Absent
      /\ coll.binding = task.binding /\ task.binding \in Tables /\ coll.mark = task.from
      /\ task.to \in 1 .. MaxCommits /\ task.rows \in Seq(DeltaRow) /\ ScanOK(tables, task)
      /\ coll.rows \in [Ids -> Vecs] /\ coll.rows \in AnyRows /\ coll.stale \in SUBSET Ids
  BY <1>1, CurrentFacts
<1> DEFINE Before(k) == ApplyRows(coll.rows, SubSeq(task.rows, 1, k - 1))
<1>3. PICK k \in DOMAIN task.rows :
          \/ k = FirstBad(task.rows) /\ FailsAt(k, Before(k))
          \/ /\ FirstBad(SubSeq(task.rows, 1, k)) = 0
             /\ FailsAt(k, HalfApplyRow(Before(k), task.rows[k]))
  BY DEF ApplyFails
<1>4. k \in 1 .. Len(task.rows) /\ k # 0 /\ task.rows[k] \in DeltaRow
  BY <1>2
<1>5. Before(k) \in [Ids -> Vecs]
  <2>1. SubSeq(task.rows, 1, k - 1) \in Seq(TakenRow)
    BY <1>2, <1>3, <1>4, FirstBadIs, TakenBefore
  <2>2. QED
    BY <1>2, <2>1, ApplyRowsType
<1>6. \A i \in Ids : (\A j \in 1 .. k : task.rows[j].id # i) => Before(k)[i] = coll.rows[i]
  BY <1>2, <1>4, BeforeUntouched
<1> DEFINE b == Before(k)
<1>7. \E rows \in [Ids -> Vecs] :
          /\ FailsAt(k, rows)
          /\ \A i \in Ids : (\A j \in 1 .. k : task.rows[j].id # i) => rows[i] = coll.rows[i]
  <2>1. CASE FailsAt(k, b)
    BY <1>5, <1>6, <2>1
  <2>2. CASE FailsAt(k, HalfApplyRow(b, task.rows[k]))
    <3>1. b \in [Ids -> Vecs] /\ \A i \in Ids : (\A j \in 1 .. k : task.rows[j].id # i) => b[i] = coll.rows[i]
      BY <1>5, <1>6
    <3> HIDE DEF b
    <3> DEFINE h == HalfApplyRow(b, task.rows[k])
    <3>2. h \in [Ids -> Vecs] /\ \A i \in Ids : i # task.rows[k].id => h[i] = b[i]
      BY <1>4, <3>1, HalfApplyRowType
    <3>3. FailsAt(k, h)
      BY <2>2
    <3> HIDE DEF h
    <3>4. k \in 1 .. k
      BY <1>4
    <3>5. \A i \in Ids : (\A j \in 1 .. k : task.rows[j].id # i) => h[i] = coll.rows[i]
      BY <3>1, <3>2, <3>4
    <3>6. QED
      BY <3>2, <3>3, <3>5
  <2>3. QED
    BY <1>3, <2>1, <2>2
<1> HIDE DEF Before
<1>8. PICK rows \in [Ids -> Vecs] :
          /\ FailsAt(k, rows)
          /\ \A i \in Ids : (\A j \in 1 .. k : task.rows[j].id # i) => rows[i] = coll.rows[i]
  BY <1>7
<1> DEFINE stale == coll.stale \cup {task.rows[j].id : j \in 1 .. k}
<1>9. /\ coll' = [coll EXCEPT !.rows = rows, !.stale = stale]
      /\ UNCHANGED <<counter, since, tables, wal, snap, commits>> /\ task' = Idle
  BY <1>8 DEF FailsAt, Moves
<1>10. stale \in SUBSET Ids
  <2>1. \A r \in DeltaRow : r.id \in Ids
    BY DEF DeltaRow
  <2>2. \A j \in 1 .. k : task.rows[j] \in DeltaRow
    BY <1>2, <1>4
  <2>3. QED
    BY <1>2, <2>1, <2>2
<1>11. \A i \in Ids : i \notin stale => i \notin coll.stale /\ rows[i] = coll.rows[i]
  BY <1>8
<1> HIDE DEF stale
<1>12. /\ coll' \in Coll /\ coll'.kind = coll.kind /\ coll'.mark = coll.mark
       /\ coll'.atBind = coll.atBind /\ coll'.binding = coll.binding
       /\ coll'.rows = rows /\ coll'.stale = stale
  BY <1>2, <1>9, <1>10 DEF Coll
<1>13. Mirrors(tables, coll')
  BY <1>2, <1>11, <1>12 DEF Mirrors
<1>14. coll' \in Good(tables)
  BY <1>2, <1>12, <1>13 DEF Good, OwnMark
<1>15. TaskOK'
  BY <1>9 DEF TaskOK, Idle
<1>16. DueOK'
  BY <1>1, <1>2, <1>9, <1>12 DEF IInv, DueOK, Idle
<1>17. QED
  BY <1>9, <1>14, <1>15, <1>16 DEF IInv, TablesOK

\* So does counting: the rows the task carried are in the counter after it.
LEMMA CountRowsInv ==
    ASSUME IInv, CountRows
    PROVE  IInv'
<1>1. /\ task.pc = "applied" /\ task.n \in Nat
      /\ counter \in 0 .. MaxCount /\ since \in 0 .. MaxCount
      /\ EveryNRows \in Nat /\ MaxCount \in Nat
  BY SourceAssumption DEF CountRows, IInv, TaskOK
<1>2. UNCHANGED <<coll, since, tables, wal, snap, commits>>
  BY DEF CountRows, Step, Moves
<1>3. (coll # Absent /\ coll.kind = "ivf" /\ EveryNRows # 0)
         => since <= Saturating(counter, task.n)
  BY <1>1 DEF IInv, DueOK
<1>4. counter' \in 0 .. MaxCount /\ TaskOK' /\ DueOK'
  <2>1. CASE (EveryNRows = 0 \/ task.n = 0) \/ coll = Absent
    <3>1. task' = Idle /\ counter' = counter
      BY <2>1 DEF CountRows, Step, Moves
    <3>2. (coll # Absent /\ coll.kind = "ivf" /\ EveryNRows # 0) => since <= counter
      BY <1>1, <1>3, <2>1 DEF Saturating
    <3>3. QED
      BY <1>1, <1>2, <3>1, <3>2 DEF TaskOK, DueOK, Idle
  <2>2. CASE /\ ~((EveryNRows = 0 \/ task.n = 0) \/ coll = Absent)
             /\ coll.kind # "ivf"
    <3>1. task' = Idle /\ counter' = 0
      BY <2>2 DEF CountRows, Step, Moves
    <3>2. QED
      BY <1>1, <1>2, <2>2, <3>1 DEF TaskOK, DueOK, Idle
  <2>3. CASE /\ ~((EveryNRows = 0 \/ task.n = 0) \/ coll = Absent)
             /\ coll.kind = "ivf"
    <3>1. /\ counter' = Saturating(counter, task.n)
          /\ task' = IF counter' < EveryNRows THEN Idle ELSE [pc |-> "compacting"]
      BY <2>3 DEF CountRows, Step, Moves
    <3>2. counter' \in 0 .. MaxCount
      BY <1>1, <3>1 DEF Saturating
    <3>3. /\ task'.pc \in {"idle", "compacting"}
          /\ task'.pc = "compacting" => EveryNRows <= counter'
      BY <1>1, <3>1, <3>2 DEF Idle
    <3>4. TaskOK'
      BY <3>3 DEF TaskOK
    <3>5. DueOK'
      BY <1>2, <1>3, <3>1, <3>3 DEF DueOK
    <3>6. QED
      BY <3>2, <3>4, <3>5
  <2>4. QED
    BY <2>1, <2>2, <2>3
<1>5. QED
  BY <1>1, <1>2, <1>4 DEF IInv, TablesOK

\* So does retraining, done or not: only a training takes from the counter.
LEMMA CompactIvfInv ==
    ASSUME IInv, CompactIvf
    PROVE  IInv'
<1>1. /\ task.pc = "compacting" /\ EveryNRows <= counter
      /\ counter \in 0 .. MaxCount /\ since \in 0 .. MaxCount
      /\ EveryNRows \in Nat /\ MaxCount \in Nat
  BY SourceAssumption DEF CompactIvf, IInv, TaskOK
<1>2. UNCHANGED <<coll, tables, wal, snap, commits>> /\ task' = Idle
  BY DEF CompactIvf, Step, Moves
<1>3. counter' \in 0 .. MaxCount /\ since' \in 0 .. MaxCount /\ TaskOK' /\ DueOK'
  <2>1. CASE UNCHANGED <<counter, since>>
    BY <1>1, <1>2, <2>1 DEF IInv, TaskOK, DueOK, Idle
  <2>2. CASE counter' = counter - EveryNRows /\ since' = 0
    BY <1>1, <1>2, <2>2 DEF TaskOK, DueOK, Idle
  <2>3. QED
    BY <2>1, <2>2 DEF CompactIvf
<1>4. QED
  BY <1>2, <1>3 DEF IInv, TablesOK

\* So does every step of the task.
LEMMA MaintainInv ==
    ASSUME IInv, Maintain
    PROVE  IInv'
<1>1. CASE QuietTick
  BY <1>1 DEF QuietTick, vars, IInv, TablesOK, TaskOK, DueOK
<1>2. CASE ScanEnds
  BY <1>2, ToIdle DEF ScanEnds
<1>3. CASE Discard
  BY <1>3, ToIdle DEF Discard
<1>4. QED
  BY <1>1, <1>2, <1>3, ObserveInv, ScanRowsInv, ApplyInv, ApplyFailsInv, CountRowsInv,
     CompactIvfInv DEF Maintain

\* The invariant is inductive.
LEMMA StepInv ==
    ASSUME IInv, [Next]_vars
    PROVE  IInv'
<1>1. CASE \E t \in Tables : Commit(t) \/ Rollback(t) \/ Expire(t)
  BY <1>1, CommitInv, RollbackInv, ExpireInv
<1>2. CASE UNCHANGED vars
  BY <1>2 DEF vars, IInv, TablesOK, TaskOK, DueOK
<1>3. QED
  BY <1>1, <1>2, ClientInv, CheckpointInv, CrashInv, MaintainInv DEF Next


----------------------------------------------------------------------------
(* Theorems *)

\* Every variable keeps its type: a tick applies only rows of the dimension the
\* collection takes, and counters stay within their width.
THEOREM SourceTypes == Spec => []TypeOK
<1>1. IInv => TypeOK
  <2> SUFFICES ASSUME IInv
               PROVE  TypeOK
    OBVIOUS
  <2>1. tables \in [Tables -> [snaps : Seq(Snapshot), current : 0 .. MaxCommits,
                               expired : SUBSET (1 .. MaxCommits)]]
    <3>1. ASSUME NEW t \in Tables
          PROVE  tables[t] \in [snaps : Seq(Snapshot), current : 0 .. MaxCommits,
                                expired : SUBSET (1 .. MaxCommits)]
      <4>1. /\ Len(tables[t].snaps) \in Nat /\ Len(tables[t].snaps) <= commits
            /\ commits \in 0 .. MaxCommits /\ MaxCommits \in Nat
            /\ tables[t].current \in 0 .. Len(tables[t].snaps) /\ TableOK(tables[t])
        BY TableFacts, SourceAssumption
      <4>2. tables[t].current \in 0 .. MaxCommits
        BY <4>1
      <4>3. tables[t].expired \in SUBSET (1 .. MaxCommits)
        BY <4>1 DEF TableOK
      <4>4. QED
        BY <4>1, <4>2, <4>3 DEF TableOK
    <3>2. tables = [t \in Tables |-> tables[t]]
      BY DEF IInv, TablesOK
    <3>3. QED
      BY <3>1, <3>2, Zenon
  <2>2. \A c \in {coll, snap} \ {Absent} : c \in Coll
    BY DEF IInv, Good
  <2>3. \A c \in Coll : /\ c.rows \in [Ids -> Vecs]
                        /\ c.binding \in Tables \cup {NoBinding} /\ c.mark \in Mark
                        /\ c.stale \subseteq Ids
    BY DEF Coll
  <2>4. QED
    BY <2>1, <2>2, <2>3 DEF TypeOK, IInv, TaskOK, Vecs
<1>2. QED
  BY <1>1, InitInv, StepInv, PTL DEF Spec

\* Rows of another table are never taken for the binding's own: a scan begun
\* before a rebind is discarded by apply_source_delta, whatever the interleaving
\* with clients, checkpoints, crashes and the source.
THEOREM OwnTablesWatermark == Spec => []OwnWatermark
<1>1. IInv => OwnWatermark
  BY DEF IInv, Good, OwnMark, OwnWatermark
<1>2. QED
  BY <1>1, InitInv, StepInv, PTL DEF Spec

\* A retraining that could not be done stays due: between ticks the counter of an
\* IVF collection covers every row applied since it was last trained, also where
\* the counter saturates.
THEOREM RetrainingStaysDue == Spec => []RetrainingDue
<1>1. IInv => RetrainingDue
  BY DEF IInv, DueOK, RetrainingDue
<1>2. QED
  BY <1>1, InitInv, StepInv, PTL DEF Spec

\* The watermark is honest, for every history of the source (commits of any kind,
\* whatever later commits leave in the manifests, rollbacks, expiry), every
\* interleaving of ticks with it, with clients, rebinds, re-creations, checkpoints and
\* crashes, and every number of ticks that fail in any row: the rows that are not
\* stale are those of the snapshot the watermark names.
THEOREM WatermarkIsHonest == Spec => []MirrorsSource
<1>1. IInv => MirrorsSource
  BY DEF IInv, Good, Mirrors, MirrorsSource
<1>2. QED
  BY <1>1, InitInv, StepInv, PTL DEF Spec
=============================================================================
