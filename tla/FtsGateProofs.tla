--------------------------- MODULE FtsGateProofs ---------------------------
(***************************************************************************)
(* Proofs about the full-text gate, for every set of ids and texts and any *)
(* number of calls, crashes and failures: the watermark stays behind the   *)
(* log, and between two calls a search agrees with the rows.               *)
(***************************************************************************)
EXTENDS FtsGate, TLAPS

----------------------------------------------------------------------------
(* What is on disk, seen from a position of the log *)

Entry == [lsn : 1 .. MaxLsn, op : Ops]
Doc == {<<>>} \cup {<<t>> : t \in Texts}
RowValue == Payload \cup {NoPayload, NoRow}
Col == [exists : BOOLEAN, fts : BOOLEAN, rows : [Ids -> RowValue]]

\* An operation that writes the document of i, and the document it writes.
IsDocOp(op, i) ==
    \/ op.kind = "delete" /\ op.id = i
    \/ op.kind = "insert" /\ op.id = i /\ op.pay \in Texts
DocOf(op) == IF op.kind = "insert" THEN <<op.pay>> ELSE <<>>

\* An operation after which the document of i is DocOf(op), or i is excused.
Setter(op, i) == op.kind = "drop" \/ IsDocOp(op, i)

\* A row and the document of its id are in step.
Agree(row, doc) == (row \in Texts => doc = <<row>>) /\ (row = NoRow => doc = <<>>)

\* The entries of log behind position p up to LSN w decide the document d of
\* i: it is that of the last of them that sets it, or, if none does, it is in
\* step with the row r at position p.
Settled(log, p, r, d, i, w) ==
    \/ \E k \in p + 1 .. Len(log) :
          /\ log[k].lsn <= w /\ Setter(log[k].op, i) /\ d = DocOf(log[k].op)
          /\ \A j \in k + 1 .. Len(log) : Setter(log[j].op, i) => log[j].lsn > w
    \/ /\ \A k \in p + 1 .. Len(log) : Setter(log[k].op, i) => log[k].lsn > w
       /\ Agree(r, d)

\* Or replay has yet to come to a drop, or to an entry above w whose document
\* was committed before its watermark was.
Claim(log, p, r, d, i, w) ==
    \/ Settled(log, p, r, d, i, w)
    \/ \E k \in p + 1 .. Len(log) :
          /\ log[k].lsn > w
          /\ log[k].op.kind = "drop" \/ (IsDocOp(log[k].op, i) /\ d = DocOf(log[k].op))

\* A log whose LSNs count up from base.
Counted(log, base) ==
    /\ log \in Seq(Entry) /\ base \in Nat
    /\ \A k \in 1 .. Len(log) : log[k].lsn = base + k

\* A log without gaps: entry k has the LSN k above the snapshot's.
LEMMA CountedFacts ==
    ASSUME NEW log, NEW base, Counted(log, base)
    PROVE  /\ Len(log) \in Nat /\ base \in Nat
           /\ \A k \in 1 .. Len(log) : log[k] \in Entry /\ log[k].lsn = base + k
                                       /\ log[k].op \in Ops
<1>1. log \in Seq(Entry) /\ base \in Nat
  BY DEF Counted
<1>2. \A k \in 1 .. Len(log) : log[k] \in Entry
  BY <1>1
<1>3. \A k \in 1 .. Len(log) : log[k].op \in Ops
  BY <1>2 DEF Entry
<1>4. QED
  BY <1>1, <1>2, <1>3 DEF Counted

\* Nothing is said of entries the log gains above w.
LEMMA ClaimAppend ==
    ASSUME NEW log, NEW base, Counted(log, base), NEW e \in Entry,
           NEW p \in 0 .. Len(log), NEW r, NEW d, NEW i, NEW w \in Nat, e.lsn > w,
           Claim(log, p, r, d, i, w)
    PROVE  Claim(Append(log, e), p, r, d, i, w)
<1> DEFINE new == Append(log, e)
<1>1. /\ Len(log) \in Nat /\ Len(new) = Len(log) + 1 /\ new[Len(log) + 1] = e
      /\ \A k \in 1 .. Len(log) : new[k] = log[k]
  BY DEF Counted
<1> HIDE DEF new
<1>2. ASSUME NEW k \in p + 1 .. Len(new)
      PROVE  (k \in p + 1 .. Len(log) /\ new[k] = log[k]) \/ new[k] = e
  BY <1>1
<1>3. ASSUME NEW k \in p + 1 .. Len(log)
      PROVE  k \in p + 1 .. Len(new) /\ new[k] = log[k] /\ k \in Nat
  BY <1>1
<1>4. CASE Settled(log, p, r, d, i, w)
  <2>1. CASE \E k \in p + 1 .. Len(log) :
                /\ log[k].lsn <= w /\ Setter(log[k].op, i) /\ d = DocOf(log[k].op)
                /\ \A j \in k + 1 .. Len(log) : Setter(log[j].op, i) => log[j].lsn > w
    <3>1. PICK k \in p + 1 .. Len(log) :
                /\ log[k].lsn <= w /\ Setter(log[k].op, i) /\ d = DocOf(log[k].op)
                /\ \A j \in k + 1 .. Len(log) : Setter(log[j].op, i) => log[j].lsn > w
      BY <2>1
    <3>2. \A j \in k + 1 .. Len(new) : Setter(new[j].op, i) => new[j].lsn > w
      BY <1>1, <3>1
    <3>3. QED
      BY <1>3, <3>1, <3>2 DEF Claim, Settled, new
  <2>2. CASE /\ \A k \in p + 1 .. Len(log) : Setter(log[k].op, i) => log[k].lsn > w
             /\ Agree(r, d)
    BY <1>2, <2>2 DEF Claim, Settled, new
  <2>3. QED
    BY <1>4, <2>1, <2>2 DEF Settled
<1>5. CASE ~Settled(log, p, r, d, i, w)
  BY <1>3, <1>5 DEF Claim, new
<1>6. QED
  BY <1>4, <1>5

\* Replay passes an entry that does not set the document of i.
LEMMA ClaimSkip ==
    ASSUME NEW log, NEW base, Counted(log, base), NEW p \in 0 .. Len(log) - 1,
           NEW r, NEW s, NEW d, NEW i, NEW w \in Nat,
           ~Setter(log[p + 1].op, i), Agree(r, d) => Agree(s, d),
           Claim(log, p, r, d, i, w)
    PROVE  Claim(log, p + 1, s, d, i, w)
<1>1. Len(log) \in Nat
  BY DEF Counted
<1>2. \A k \in p + 1 .. Len(log) : k = p + 1 \/ k \in (p + 1) + 1 .. Len(log)
  BY <1>1
<1>3. \A k \in (p + 1) + 1 .. Len(log) : k \in p + 1 .. Len(log)
  BY <1>1
<1>4. \A k : log[k].op.kind = "drop" \/ IsDocOp(log[k].op, i) => Setter(log[k].op, i)
  BY DEF Setter
<1>5. CASE Settled(log, p, r, d, i, w)
  BY <1>2, <1>3, <1>5 DEF Settled, Claim
<1>6. CASE ~Settled(log, p, r, d, i, w)
  BY <1>2, <1>4, <1>6 DEF Claim
<1>7. QED
  BY <1>5, <1>6

\* Replay passes an entry at or below w that does, without writing it again.
LEMMA ClaimPassOld ==
    ASSUME NEW log, NEW base, Counted(log, base), NEW p \in 0 .. Len(log) - 1,
           NEW r, NEW s, NEW d, NEW i, NEW w \in Nat,
           Setter(log[p + 1].op, i), log[p + 1].lsn <= w,
           Agree(s, DocOf(log[p + 1].op)),
           Claim(log, p, r, d, i, w)
    PROVE  Claim(log, p + 1, s, d, i, w)
<1>1. Len(log) \in Nat /\ p + 1 \in 1 .. Len(log)
  BY DEF Counted
<1>2. \A k \in p + 1 .. Len(log) : k = p + 1 \/ k \in (p + 1) + 1 .. Len(log)
  BY <1>1
<1>3. ~(log[p + 1].lsn > w)
  BY <1>1, CountedFacts
<1>4. CASE Settled(log, p, r, d, i, w)
  <2>1. PICK k \in p + 1 .. Len(log) :
              /\ log[k].lsn <= w /\ Setter(log[k].op, i) /\ d = DocOf(log[k].op)
              /\ \A j \in k + 1 .. Len(log) : Setter(log[j].op, i) => log[j].lsn > w
    BY <1>1, <1>3, <1>4 DEF Settled
  <2>2. CASE k = p + 1
    BY <2>1, <2>2 DEF Settled, Claim
  <2>3. CASE k # p + 1
    BY <1>2, <2>1, <2>3 DEF Settled, Claim
  <2>4. QED
    BY <2>2, <2>3
<1>5. CASE ~Settled(log, p, r, d, i, w)
  BY <1>2, <1>3, <1>5 DEF Claim
<1>6. QED
  BY <1>4, <1>5

\* Behind the entries up to w it is enough that row and document agree.
LEMMA ClaimAgree ==
    ASSUME NEW log, NEW base, Counted(log, base), NEW p \in 0 .. Len(log),
           NEW r, NEW d, NEW i, NEW w \in Nat, w <= base + p, Agree(r, d)
    PROVE  Claim(log, p, r, d, i, w)
<1>1. \A k \in p + 1 .. Len(log) : log[k].lsn > w
  BY CountedFacts
<1>2. QED
  BY <1>1 DEF Claim, Settled

\* ... and there it makes no difference what w is.
LEMMA ClaimBehind ==
    ASSUME NEW log, NEW base, Counted(log, base), NEW p \in 0 .. Len(log),
           NEW r, NEW d, NEW i, NEW w \in Nat, w <= base + p, NEW x \in Nat, x <= base + p,
           Claim(log, p, r, d, i, w)
    PROVE  Claim(log, p, r, d, i, x)
<1>1. \A k \in p + 1 .. Len(log) : log[k].lsn > w /\ log[k].lsn > x /\ ~(log[k].lsn <= w)
  BY CountedFacts
<1>2. QED
  BY <1>1 DEF Claim, Settled

\* Replay skips an insert of the text the row already holds.
LEMMA ClaimIdentical ==
    ASSUME NEW log, NEW base, Counted(log, base), NEW p \in 0 .. Len(log) - 1,
           NEW r \in Texts, NEW d, NEW i, NEW w \in Nat,
           log[p + 1].lsn > w, DocOf(log[p + 1].op) = <<r>>,
           log[p + 1].op.kind # "drop",
           Claim(log, p, r, d, i, w)
    PROVE  \/ d = <<r>>
           \/ \E k \in (p + 1) + 1 .. Len(log) :
                 /\ log[k].lsn > w
                 /\ log[k].op.kind = "drop" \/ (IsDocOp(log[k].op, i) /\ d = DocOf(log[k].op))
<1>1. Len(log) \in Nat /\ p + 1 \in 1 .. Len(log)
  BY DEF Counted
<1>2. \A k \in p + 1 .. Len(log) : k = p + 1 \/ k \in (p + 1) + 1 .. Len(log)
  BY <1>1
<1>3. \A k \in p + 1 .. Len(log) : ~(log[k].lsn <= w)
  <2>1. base \in Nat /\ \A k \in 1 .. Len(log) : log[k].lsn = base + k
    BY CountedFacts
  <2>2. base + (p + 1) > w
    BY <1>1, <2>1
  <2>3. QED
    BY <1>1, <2>1, <2>2
<1>4. CASE Settled(log, p, r, d, i, w)
  BY <1>3, <1>4 DEF Settled, Agree
<1>5. CASE ~Settled(log, p, r, d, i, w)
  BY <1>2, <1>5 DEF Claim
<1>6. QED
  BY <1>4, <1>5

\* The watermark moves from the entry before q to q, which does not set the
\* document of i.
LEMMA MarkSkip ==
    ASSUME NEW log, NEW base, Counted(log, base), NEW q \in 1 .. Len(log),
           NEW r, NEW d, NEW i, NEW w \in Nat, w = base + q - 1,
           ~Setter(log[q].op, i), Claim(log, 0, r, d, i, w)
    PROVE  Claim(log, 0, r, d, i, base + q)
<1>1. Len(log) \in Nat /\ base \in Nat /\ \A k \in 1 .. Len(log) : log[k].lsn = base + k
  BY CountedFacts
<1>2. \A k \in 0 + 1 .. Len(log) :
         k # q => /\ log[k].lsn > w <=> log[k].lsn > base + q
                  /\ log[k].lsn <= w <=> log[k].lsn <= base + q
  BY <1>1
<1>3. \A k \in 0 + 1 .. Len(log) : Setter(log[k].op, i) => k # q
  OBVIOUS
<1>4. \A k : log[k].op.kind = "drop" \/ IsDocOp(log[k].op, i) => Setter(log[k].op, i)
  BY DEF Setter
<1>5. \A k \in 0 + 1 .. Len(log) : \A j \in k + 1 .. Len(log) : j \in 0 + 1 .. Len(log)
  BY <1>1
<1>6. CASE Settled(log, 0, r, d, i, w)
  BY <1>2, <1>3, <1>5, <1>6 DEF Claim, Settled
<1>7. CASE ~Settled(log, 0, r, d, i, w)
  BY <1>2, <1>3, <1>4, <1>7 DEF Claim
<1>8. QED
  BY <1>6, <1>7

\* The watermark comes to q, which left the document as it is.
LEMMA MarkSet ==
    ASSUME NEW log, NEW base, Counted(log, base), NEW q \in 1 .. Len(log),
           NEW r, NEW d, NEW i, Setter(log[q].op, i), d = DocOf(log[q].op)
    PROVE  Claim(log, 0, r, d, i, base + q)
<1>1. Len(log) \in Nat /\ base \in Nat /\ \A k \in 1 .. Len(log) : log[k].lsn = base + k
  BY CountedFacts
<1>2. \A j \in q + 1 .. Len(log) : log[j].lsn > base + q
  BY <1>1
<1>3. q \in 0 + 1 .. Len(log) /\ log[q].lsn <= base + q
  BY <1>1
<1>4. QED
  BY <1>2, <1>3 DEF Claim, Settled

----------------------------------------------------------------------------
(* The inductive invariant *)

\* How far the rows in memory have come in the log.
Reached == IF phase = "replaying" THEN pos ELSE Len(wal)

\* Does the collection exist after the first k entries of log?
ExistsAt(log, before, k) ==
    \/ \E c \in 1 .. k : log[c].op.kind = "create"
                         /\ \A j \in c + 1 .. k : log[j].op.kind # "drop"
    \/ before /\ \A j \in 1 .. k : log[j].op.kind # "drop"

LogOK ==
    /\ snap \in [lsn : 0 .. MaxLsn, col : Col]
    /\ \A k \in 1 .. Len(wal) : wal[k].lsn = snap.lsn + k
    /\ fts_lsn <= snap.lsn + Len(wal)
    /\ phase = "replaying" \/ pos = 0

\* Rows exist only in a collection that does.
ExistsOK ==
    /\ \A k \in 1 .. Len(wal) : wal[k].op.kind = "create" <=> ~ExistsAt(wal, snap.col.exists, k - 1)
    /\ phase # "down" => (col.exists <=> ExistsAt(wal, snap.col.exists, Reached))
    /\ ~col.exists => col.rows = NoRows
    /\ ~snap.col.exists => snap.col.rows = NoRows

\* A call under way writes a document, that of the entry reached or of an
\* out-of-band row.
CallOK ==
    call # NoCall =>
        /\ phase # "down" /\ col.exists
        /\ call.op.id \in Ids /\ IsDocOp(call.op, call.op.id)
        /\ call.stage = "watermark" => docs[call.op.id] = DocOf(call.op)
        /\ \/ /\ call.lsn = OutOfBand /\ phase = "serving" /\ call.stage = "document"
              /\ call.op.id \in unsaved
           \/ /\ call.lsn > fts_lsn /\ Reached \in 1 .. Len(wal)
              /\ wal[Reached] = [lsn |-> call.lsn, op |-> call.op]

Busy == IF call = NoCall THEN {} ELSE {call.op.id}

Higher(m, n) == IF m < n THEN n ELSE m

\* A recovery that starts now ends with documents and rows in step.
DiskOK ==
    \A i \in Ids \ (excused \cup unsaved) :
        Claim(wal, 0, snap.col.rows[i], docs[i], i, fts_lsn)

\* It would also with the watermark at the entry reached.
MarkOK ==
    phase # "down" => \A i \in Ids \ (excused \cup unsaved \cup Busy) :
        Claim(wal, 0, snap.col.rows[i], docs[i], i, Higher(fts_lsn, snap.lsn + Reached))

\* So does the rest of the replay from the rows in memory.
MemOK ==
    phase # "down" => \A i \in Ids \ (excused \cup Busy) :
        Claim(wal, Reached, col.rows[i], docs[i], i, fts_lsn)

UnsavedOK == phase # "serving" => unsaved = {}

Basic == TypeOK /\ LogOK /\ ExistsOK /\ CallOK /\ UnsavedOK

IInv == Basic /\ DiskOK /\ MarkOK /\ MemOK

----------------------------------------------------------------------------
(* Operations *)

\* The fields of the logged operations.
LEMMA OpKinds ==
    ASSUME NEW op \in Ops
    PROVE  /\ op.kind \in {"create", "drop", "enable_fts", "insert", "delete"}
           /\ op.kind \in {"insert", "delete"} => op.id \in Ids
           /\ op.kind = "insert" => op.pay \in Payload \cup {NoPayload}
BY DEF Ops

\* What a payload or its absence leaves in a row is a row.
LEMMA StoredType ==
    ASSUME NEW old \in RowValue, NEW op \in Ops
    PROVE  StoredAs(old, op) \in RowValue /\ HalfStored(old, op) \in RowValue
BY OpKinds DEF StoredAs, HalfStored, RowValue

\* Collection::insert and delete: only the row of the id changes, and unless a
\* document has to be written first, to what the operation stores.
LEMMA StartRowEffect ==
    ASSUME col \in Col, NEW op \in Ops, op.kind \in {"insert", "delete"},
           NEW lsn \in 1 .. OutOfBand, StartRow(op, lsn)
    PROVE  /\ col' \in Col /\ col'.exists = col.exists /\ col'.fts = col.fts
           /\ call' \in {NoCall} \cup Calls
           /\ \A i \in Ids : i # op.id => col'.rows[i] = col.rows[i]
           /\ call' = NoCall => /\ ~WritesDocument(op, lsn)
                                /\ col'.rows[op.id] = StoredAs(col.rows[op.id], op)
           /\ call' # NoCall => /\ WritesDocument(op, lsn)
                                /\ call' = [op |-> op, lsn |-> lsn, stage |-> "document"]
<1>1. op.id \in Ids /\ col.rows \in [Ids -> RowValue]
  BY OpKinds DEF Col
<1>2. /\ StoredAs(col.rows[op.id], op) \in RowValue
      /\ HalfStored(col.rows[op.id], op) \in RowValue
  BY <1>1, StoredType
<1>3. CASE WritesDocument(op, lsn)
  <2> DEFINE h == HalfStored(col.rows[op.id], op)
             c == [op |-> op, lsn |-> lsn, stage |-> "document"]
  <2>1. c \in Calls
    BY DEF Calls
  <2>2. call' = c /\ c # NoCall
    BY <1>3, <2>1, CallAssumption DEF StartRow
  <2>3. col' = [col EXCEPT !.rows = [col.rows EXCEPT ![op.id] = h]]
    BY <1>3 DEF StartRow
  <2> HIDE DEF h, c
  <2>4. /\ col' \in Col /\ col'.exists = col.exists /\ col'.fts = col.fts
        /\ \A i \in Ids : i # op.id => col'.rows[i] = col.rows[i]
    BY <1>1, <1>2, <2>3 DEF Col, h
  <2>5. QED
    BY <1>3, <2>1, <2>2, <2>4 DEF c
<1>4. CASE ~WritesDocument(op, lsn)
  <2> DEFINE h == StoredAs(col.rows[op.id], op)
  <2>1. call' = NoCall
    BY <1>4 DEF StartRow
  <2>2. col' = [col EXCEPT !.rows = [col.rows EXCEPT ![op.id] = h]]
    BY <1>4 DEF StartRow
  <2> HIDE DEF h
  <2>3. /\ col' \in Col /\ col'.exists = col.exists /\ col'.fts = col.fts
        /\ \A i \in Ids : i # op.id => col'.rows[i] = col.rows[i]
        /\ col'.rows[op.id] = h
    BY <1>1, <1>2, <2>2 DEF Col, h
  <2>4. QED
    BY <1>4, <2>1, <2>3 DEF h
<1>5. QED
  BY <1>3, <1>4

\* The empty collection and the missing one are collections.
LEMMA NoRowsType == NoRows \in [Ids -> RowValue] /\ Missing \in Col
BY DEF NoRows, Missing, RowValue, Col

\* What create, drop and enable_fts do at once.
LEMMA StartDdlEffect ==
    ASSUME col \in Col, NEW op \in Ops, op.kind \notin {"insert", "delete"}, StartDdl(op)
    PROVE  /\ col' \in Col /\ call' = NoCall
           /\ op.kind = "create" => col'.exists /\ col'.rows = NoRows
           /\ op.kind = "drop" => ~col'.exists /\ col'.rows = NoRows
           /\ op.kind = "enable_fts" => col'.exists = col.exists /\ col'.rows = col.rows
<1>1. CASE op.kind = "create"
  BY <1>1, NoRowsType DEF StartDdl, Missing, Col
<1>2. CASE op.kind = "drop"
  BY <1>2, NoRowsType DEF StartDdl, Missing, Col
<1>3. CASE op.kind = "enable_fts"
  BY <1>3 DEF StartDdl, Col
<1>4. QED
  BY <1>1, <1>2, <1>3, OpKinds

\* Whether the collection exists after k entries, from what it did before the last.
LEMMA ExistsStep ==
    ASSUME NEW log, NEW before, NEW k \in Nat \ {0}
    PROVE  ExistsAt(log, before, k) <=>
              \/ log[k].op.kind = "create"
              \/ log[k].op.kind # "drop" /\ ExistsAt(log, before, k - 1)
<1>1. \A j \in 1 .. k : j = k \/ j \in 1 .. k - 1
  OBVIOUS
<1>2. \A j \in 1 .. k - 1 : j \in 1 .. k
  OBVIOUS
<1>3. \A c \in 1 .. k - 1 : \A j \in c + 1 .. k : j = k \/ j \in c + 1 .. k - 1
  OBVIOUS
<1>4. \A c \in 1 .. k - 1 : k \in c + 1 .. k /\ \A j \in c + 1 .. k - 1 : j \in c + 1 .. k
  OBVIOUS
<1>5. k \in 1 .. k /\ \A j \in k + 1 .. k : FALSE
  OBVIOUS
<1>6. ASSUME ExistsAt(log, before, k), log[k].op.kind # "create"
      PROVE  log[k].op.kind # "drop" /\ ExistsAt(log, before, k - 1)
  BY <1>1, <1>2, <1>4, <1>5, <1>6 DEF ExistsAt
<1>7. ASSUME log[k].op.kind # "drop", ExistsAt(log, before, k - 1)
      PROVE  ExistsAt(log, before, k)
  BY <1>1, <1>2, <1>3, <1>7 DEF ExistsAt
<1>8. log[k].op.kind = "create" => ExistsAt(log, before, k)
  BY <1>5 DEF ExistsAt
<1>9. QED
  BY <1>6, <1>7, <1>8

\* Appending does not change the past.
LEMMA ExistsAppend ==
    ASSUME NEW log \in Seq(Entry), NEW e \in Entry, NEW before, NEW k \in 0 .. Len(log)
    PROVE  ExistsAt(Append(log, e), before, k) <=> ExistsAt(log, before, k)
<1>1. \A j \in 1 .. k : Append(log, e)[j] = log[j]
  OBVIOUS
<1>2. \A c \in 1 .. k : \A j \in c + 1 .. k : j \in 1 .. k
  OBVIOUS
<1> DEFINE new == Append(log, e)
<1> HIDE DEF new
<1>3. \A j \in 1 .. k : new[j] = log[j]
  BY <1>1 DEF new
<1>4. ExistsAt(new, before, k) <=> ExistsAt(log, before, k)
  BY <1>2, <1>3 DEF ExistsAt
<1>5. QED
  BY <1>4 DEF new

\* The types and bounds used below, in one place.
LEMMA BasicFacts ==
    ASSUME Basic
    PROVE  /\ Counted(wal, snap.lsn) /\ wal \in Seq(Entry) /\ Len(wal) \in Nat
           /\ LastLsn = snap.lsn + Len(wal)
           /\ snap.lsn \in 0 .. MaxLsn /\ snap.lsn \in Nat /\ snap.col \in Col
           /\ col \in Col /\ docs \in [Ids -> Doc]
           /\ fts_lsn \in Nat /\ fts_lsn <= snap.lsn + Len(wal)
           /\ pos \in 0 .. Len(wal) /\ Reached \in 0 .. Len(wal)
<1>1. wal \in Seq(Entry) /\ Len(wal) \in Nat
  BY DEF Basic, TypeOK, Entry
<1>2. snap \in [lsn : 0 .. MaxLsn, col : Col]
  BY DEF Basic, LogOK
<1>3. snap.lsn \in 0 .. MaxLsn /\ snap.lsn \in Nat /\ snap.col \in Col
  BY <1>2, FtsAssumption
<1>4. Counted(wal, snap.lsn)
  BY <1>1, <1>3 DEF Counted, Basic, LogOK
<1>5. LastLsn = snap.lsn + Len(wal)
  <2>1. CASE wal = <<>>
    BY <1>3, <2>1 DEF LastLsn
  <2>2. CASE wal # <<>>
    <3>1. Len(wal) \in 1 .. Len(wal)
      BY <1>1, <2>2
    <3>2. QED
      BY <2>2, <3>1 DEF LastLsn, Basic, LogOK
  <2>3. QED
    BY <2>1, <2>2
<1>6. pos \in 0 .. Len(wal) /\ Reached \in 0 .. Len(wal)
  BY <1>1 DEF Reached, Basic, TypeOK
<1>7. col \in Col /\ docs \in [Ids -> Doc] /\ fts_lsn \in Nat /\ fts_lsn <= snap.lsn + Len(wal)
  BY FtsAssumption DEF Basic, TypeOK, LogOK, Col, RowValue, Doc, OutOfBand
<1>8. QED
  BY <1>1, <1>3, <1>4, <1>5, <1>6, <1>7

\* At the end of the log no entry is left to repair a difference.
LEMMA ClaimEnd ==
    ASSUME NEW log, NEW base, Counted(log, base), NEW r, NEW d, NEW i, NEW w,
           Claim(log, Len(log), r, d, i, w)
    PROVE  Agree(r, d)
<1>1. \A k \in Len(log) + 1 .. Len(log) : FALSE
  BY CountedFacts
<1>2. QED
  BY <1>1 DEF Claim, Settled

\* The text rows of an operation are those of its document.
LEMMA StoredAgree ==
    ASSUME NEW op \in Ops, op.kind \in {"insert", "delete"}, NEW old \in RowValue, NEW d
    PROVE  /\ IsDocOp(op, op.id) => Agree(StoredAs(old, op), DocOf(op))
           /\ ~IsDocOp(op, op.id) /\ Agree(old, d) => Agree(StoredAs(old, op), d)
<1>1. CASE op.kind = "delete"
  BY <1>1, FtsAssumption DEF IsDocOp, StoredAs, DocOf, Agree
<1>2. CASE op.kind = "insert"
  <2>1. op.pay \in Payload \cup {NoPayload}
    BY <1>2, OpKinds
  <2>2. CASE op.pay \in Texts
    BY <1>2, <2>2, FtsAssumption DEF IsDocOp, StoredAs, DocOf, Agree
  <2>3. CASE op.pay = Blank
    BY <1>2, <2>3, FtsAssumption DEF IsDocOp, StoredAs, Agree
  <2>4. CASE op.pay = NoPayload
    BY <1>2, <2>4, FtsAssumption DEF IsDocOp, StoredAs, Agree
  <2>5. QED
    BY <2>1, <2>2, <2>3, <2>4 DEF Payload
<1>3. QED
  BY <1>1, <1>2

\* An operation that sets no document of i keeps row and document in step.
LEMMA StartAgree ==
    ASSUME Basic, NEW op \in Ops, NEW lsn \in 1 .. OutOfBand, Start(op, lsn),
           op.kind = "create" => col.rows = NoRows,
           NEW i \in Ids, ~Setter(op, i), NEW d, Agree(col.rows[i], d)
    PROVE  Agree(col'.rows[i], d)
<1>1. col \in Col
  BY BasicFacts
<1>2. CASE op.kind \in {"insert", "delete"}
  <2>1. StartRow(op, lsn)
    BY <1>2 DEF Start
  <2>2. CASE i # op.id
    BY <1>1, <1>2, <2>1, <2>2, StartRowEffect
  <2>3. CASE i = op.id
    <3>1. ~WritesDocument(op, lsn) /\ ~IsDocOp(op, op.id)
      BY <1>2, <2>3 DEF WritesDocument, Setter, IsDocOp
    <3>2. col'.rows[i] = StoredAs(col.rows[i], op)
      BY <1>1, <1>2, <2>1, <2>3, <3>1, StartRowEffect
    <3>3. col.rows[i] \in RowValue
      BY <1>1 DEF Col
    <3>4. QED
      BY <1>2, <3>1, <3>2, <3>3, StoredAgree
  <2>4. QED
    BY <2>2, <2>3
<1>3. CASE op.kind \notin {"insert", "delete"}
  <2>1. StartDdl(op)
    BY <1>3 DEF Start
  <2>2. op.kind \in {"create", "enable_fts"}
    BY <1>3, OpKinds DEF Setter
  <2>3. col'.rows = col.rows
    BY <1>1, <1>3, <2>1, <2>2, StartDdlEffect
  <2>4. QED
    BY <2>3
<1>4. QED
  BY <1>2, <1>3

\* What an operation leaves out of step are ids.
LEMMA LeftBehindType ==
    ASSUME NEW op \in Ops
    PROVE  LeftBehind(op) \subseteq Ids
<1>1. op.kind \in {"insert", "delete"} => op.id \in Ids
  BY OpKinds
<1>2. QED
  BY <1>1 DEF LeftBehind

\* Of the ids whose document an operation should set, those it does not write
\* are left behind.
LEMMA SetterLeft ==
    ASSUME NEW op \in Ops, NEW lsn, lsn = OutOfBand \/ lsn > fts_lsn,
           NEW i \in Ids, i \notin LeftBehind(op), Setter(op, i)
    PROVE  \/ op.kind = "drop" /\ docs[i] = <<>> /\ DocOf(op) = <<>>
           \/ op.kind \in {"insert", "delete"} /\ i = op.id /\ WritesDocument(op, lsn)
<1>1. CASE op.kind = "drop"
  BY <1>1 DEF LeftBehind, DocOf
<1>2. CASE op.kind = "delete"
  BY <1>2 DEF LeftBehind, Setter, IsDocOp, WritesDocument
<1>3. CASE op.kind = "insert"
  BY <1>3 DEF LeftBehind, Setter, IsDocOp, WritesDocument
<1>4. QED
  BY <1>1, <1>2, <1>3, OpKinds DEF Setter, IsDocOp

----------------------------------------------------------------------------
(* Calls *)

\* The log with the entry of a call behind it.
LEMMA CallLog ==
    ASSUME Basic, NEW op \in Ops, Call(op)
    PROVE  LET e == [lsn |-> snap.lsn + Len(wal) + 1, op |-> op]
               q == Len(wal) + 1
           IN  /\ e \in Entry /\ e.lsn > fts_lsn /\ e.lsn \in 1 .. OutOfBand
               /\ LastLsn + 1 = e.lsn
               /\ wal' = Append(wal, e) /\ wal' \in Seq(Entry) /\ Len(wal') = q
               /\ wal'[q] = e /\ \A k \in 1 .. Len(wal) : wal'[k] = wal[k]
               /\ Counted(wal', snap.lsn) /\ Reached = Len(wal) /\ Reached' = q
<1> DEFINE e == [lsn |-> snap.lsn + Len(wal) + 1, op |-> op]
<1>1. /\ Counted(wal, snap.lsn) /\ wal \in Seq(Entry) /\ Len(wal) \in Nat
      /\ LastLsn = snap.lsn + Len(wal) /\ snap.lsn \in Nat
      /\ fts_lsn \in Nat /\ fts_lsn <= snap.lsn + Len(wal)
  BY BasicFacts
<1>2. LastLsn < MaxLsn /\ wal' = Append(wal, e) /\ phase = "serving" /\ phase' = phase
  BY <1>1 DEF Call
<1>3. snap.lsn + Len(wal) + 1 \in 1 .. MaxLsn /\ MaxLsn \in Nat
  BY <1>1, <1>2, FtsAssumption
<1>4. e \in Entry /\ e.lsn > fts_lsn /\ e.lsn \in 1 .. OutOfBand /\ LastLsn + 1 = e.lsn
  BY <1>1, <1>3 DEF Entry, OutOfBand
<1>5. e.lsn = snap.lsn + (Len(wal) + 1)
  BY <1>1
<1> HIDE DEF e
<1>6. /\ wal' \in Seq(Entry) /\ Len(wal') = Len(wal) + 1
      /\ wal'[Len(wal) + 1] = e /\ \A k \in 1 .. Len(wal) : wal'[k] = wal[k]
  BY <1>1, <1>2, <1>4
<1>7. Counted(wal', snap.lsn)
  <2>1. \A k \in 1 .. Len(wal') : k = Len(wal) + 1 \/ k \in 1 .. Len(wal)
    BY <1>1, <1>6
  <2>2. QED
    BY <1>1, <1>5, <1>6, <2>1 DEF Counted
<1>8. Reached = Len(wal) /\ Reached' = Len(wal) + 1
  BY <1>2, <1>6 DEF Reached
<1>9. QED
  BY <1>2, <1>4, <1>6, <1>7, <1>8 DEF e

\* What an operation starts in a collection that exists if it has to.
LEMMA StartEffect ==
    ASSUME Basic, NEW op \in Ops, NEW lsn \in 1 .. OutOfBand, Start(op, lsn),
           op.kind = "create" <=> ~col.exists
    PROVE  /\ col' \in Col /\ call' \in {NoCall} \cup Calls
           /\ col'.exists <=> \/ op.kind = "create"
                              \/ op.kind # "drop" /\ col.exists
           /\ ~col'.exists => col'.rows = NoRows
           /\ call' # NoCall => /\ op.kind \in {"insert", "delete"} /\ op.id \in Ids
                                /\ IsDocOp(op, op.id) /\ WritesDocument(op, lsn)
                                /\ call' = [op |-> op, lsn |-> lsn, stage |-> "document"]
           /\ op.kind \in {"insert", "delete"} /\ call' = NoCall => ~WritesDocument(op, lsn)
<1>1. col \in Col
  BY BasicFacts
<1>2. CASE op.kind \in {"insert", "delete"}
  <2>1. StartRow(op, lsn)
    BY <1>2 DEF Start
  <2>2. op.kind \notin {"create", "drop"} /\ col.exists /\ op.id \in Ids
    BY <1>1, <1>2, OpKinds
  <2>3. /\ col' \in Col /\ col'.exists = col.exists
        /\ call' \in {NoCall} \cup Calls
        /\ call' = NoCall => ~WritesDocument(op, lsn)
        /\ call' # NoCall => /\ WritesDocument(op, lsn)
                             /\ call' = [op |-> op, lsn |-> lsn, stage |-> "document"]
    BY <1>1, <1>2, <2>1, StartRowEffect
  <2>4. WritesDocument(op, lsn) => IsDocOp(op, op.id)
    BY <1>2 DEF WritesDocument, IsDocOp
  <2>5. QED
    BY <1>2, <2>2, <2>3, <2>4
<1>3. CASE op.kind \notin {"insert", "delete"}
  <2>1. StartDdl(op)
    BY <1>3 DEF Start
  <2>2. /\ col' \in Col /\ call' = NoCall
        /\ op.kind = "create" => col'.exists /\ col'.rows = NoRows
        /\ op.kind = "drop" => ~col'.exists /\ col'.rows = NoRows
        /\ op.kind = "enable_fts" => col'.exists = col.exists /\ col'.rows = col.rows
    BY <1>1, <1>3, <2>1, StartDdlEffect
  <2>3. op.kind \in {"create", "drop", "enable_fts"}
    BY <1>3, OpKinds
  <2>4. QED
    BY <1>1, <1>3, <2>2, <2>3
<1>4. QED
  BY <1>2, <1>3

\* enable_fts failed; or replay finds that the entry is stored already.
Kept(op) == op.kind = "enable_fts" /\ UNCHANGED <<col, call>>
Passed(op) ==
    (op.kind = "enable_fts" \/ Identical(op)) /\ UNCHANGED <<col, call, excused>>

\* An entry starts as Start says, or is an enable_fts that fails.
LEMMA ApplyCases ==
    ASSUME NEW op, NEW lsn, Apply(op, lsn)
    PROVE  Kept(op) \/ Start(op, lsn)
BY DEF Apply, EnableFails, Kept

\* A call starts as Start says, or is an enable_fts that fails.
LEMMA CallEffect ==
    ASSUME Basic, NEW op \in Ops, Call(op)
    PROVE  /\ col' \in Col /\ call' \in {NoCall} \cup Calls
           /\ col'.exists <=> \/ op.kind = "create"
                              \/ op.kind # "drop" /\ col.exists
           /\ ~col'.exists => col'.rows = NoRows
           /\ call' # NoCall => /\ op.kind \in {"insert", "delete"} /\ op.id \in Ids
                                /\ IsDocOp(op, op.id)
                                /\ call' = [op |-> op, lsn |-> LastLsn + 1, stage |-> "document"]
           /\ op.kind \in {"insert", "delete"} /\ call' = NoCall => ~WritesDocument(op, LastLsn + 1)
<1>1. col \in Col /\ call = NoCall /\ (op.kind = "create" <=> ~col.exists)
  BY BasicFacts DEF Call
<1>2. LastLsn + 1 \in 1 .. OutOfBand
  BY CallLog
<1>3. CASE Kept(op)
  <2>1. op.kind = "enable_fts" /\ col' = col /\ call' = call
    BY <1>3 DEF Kept
  <2>2. QED
    BY <1>1, <2>1
<1>4. CASE Start(op, LastLsn + 1)
  BY <1>1, <1>2, <1>4, StartEffect
<1>5. QED
  BY <1>3, <1>4, ApplyCases DEF Call

\* Logging a call keeps types and bounds.
LEMMA CallBasic ==
    ASSUME Basic, NEW op \in Ops, Call(op)
    PROVE  Basic'
<1> DEFINE e == [lsn |-> snap.lsn + Len(wal) + 1, op |-> op]
           q == Len(wal) + 1
<1>1. /\ e \in Entry /\ e.lsn > fts_lsn /\ LastLsn + 1 = e.lsn
      /\ wal' = Append(wal, e) /\ wal' \in Seq(Entry) /\ Len(wal') = q
      /\ wal'[q] = e /\ \A k \in 1 .. Len(wal) : wal'[k] = wal[k]
      /\ Counted(wal', snap.lsn) /\ Reached = Len(wal) /\ Reached' = q
  BY CallLog
<1>2. /\ Len(wal) \in Nat /\ wal \in Seq(Entry) /\ snap.lsn \in Nat
      /\ fts_lsn \in Nat /\ fts_lsn <= snap.lsn + Len(wal)
  BY BasicFacts
<1>3. UNCHANGED <<phase, pos, disk, snap>> /\ phase = "serving" /\ call = NoCall
      /\ (op.kind = "create" <=> ~col.exists)
  BY DEF Call
<1>4. /\ col' \in Col /\ call' \in {NoCall} \cup Calls
      /\ col'.exists <=> \/ op.kind = "create"
                         \/ op.kind # "drop" /\ col.exists
      /\ ~col'.exists => col'.rows = NoRows
      /\ call' # NoCall => /\ op.kind \in {"insert", "delete"} /\ op.id \in Ids
                           /\ IsDocOp(op, op.id)
                           /\ call' = [op |-> op, lsn |-> LastLsn + 1, stage |-> "document"]
  BY CallEffect
<1>5. e.op = op /\ q = Len(wal) + 1
  OBVIOUS
<1> HIDE DEF e, q
<1>6. TypeOK'
  <2>1. excused' \subseteq Ids /\ unsaved' \subseteq Ids
    BY LeftBehindType DEF Call, Basic, TypeOK
  <2>2. pos' \in 0 .. Len(wal')
    BY <1>1, <1>2, <1>3, <1>5 DEF Basic, TypeOK
  <2>3. QED
    BY <1>1, <1>3, <1>4, <2>1, <2>2 DEF Basic, TypeOK, Entry, Col, RowValue, disk
<1>7. LogOK'
  BY <1>1, <1>2, <1>3, <1>5, CountedFacts DEF Basic, LogOK, Counted, disk
<1>8. ExistsOK'
  <2> DEFINE ex == snap.col.exists
  <2>1. \A k \in 0 .. Len(wal) : ExistsAt(wal', ex, k) <=> ExistsAt(wal, ex, k)
    BY <1>1, <1>2, ExistsAppend
  <2>2. col.exists <=> ExistsAt(wal, ex, Len(wal))
    BY <1>1, <1>3 DEF Basic, ExistsOK
  <2>3. q \in Nat \ {0} /\ q - 1 = Len(wal) /\ Len(wal) \in 0 .. Len(wal)
    BY <1>2, <1>5
  <2>4. op.kind = "create" <=> ~ExistsAt(wal', ex, q - 1)
    BY <1>3, <2>1, <2>2, <2>3
  <2>5. ExistsAt(wal', ex, q) <=> \/ op.kind = "create"
                                  \/ op.kind # "drop" /\ col.exists
    <3>1. ExistsAt(wal', ex, q) <=> \/ wal'[q].op.kind = "create"
                                    \/ wal'[q].op.kind # "drop" /\ ExistsAt(wal', ex, q - 1)
      BY <2>3, ExistsStep
    <3>2. ExistsAt(wal', ex, q - 1) <=> col.exists
      BY <2>1, <2>2, <2>3
    <3>3. wal'[q].op.kind = op.kind
      BY <1>1, <1>5
    <3>4. QED
      BY <3>1, <3>2, <3>3
  <2>6. ASSUME NEW k \in 1 .. Len(wal')
        PROVE  wal'[k].op.kind = "create" <=> ~ExistsAt(wal', ex, k - 1)
    <3>1. CASE k = q
      BY <1>1, <1>5, <2>4, <3>1
    <3>2. CASE k # q
      <4>1. k \in 1 .. Len(wal) /\ k - 1 \in 0 .. Len(wal)
        BY <1>1, <1>2, <1>5, <3>2
      <4>2. QED
        BY <1>1, <2>1, <4>1 DEF Basic, ExistsOK
    <3>3. QED
      BY <3>1, <3>2
  <2> HIDE DEF ex
  <2>7. ex' = ex
    BY <1>3 DEF ex
  <2>8. QED
    BY <1>1, <1>3, <1>4, <2>5, <2>6, <2>7 DEF Basic, ExistsOK, ex
<1>9. CallOK'
  <2>1. q \in 1 .. Len(wal')
    BY <1>1, <1>2, <1>5
  <2>2. call' # NoCall => wal'[q] = [lsn |-> call'.lsn, op |-> call'.op]
    BY <1>1, <1>4 DEF e
  <2>3. QED
    BY <1>1, <1>3, <1>4, <2>1, <2>2 DEF CallOK, disk
<1>10. UnsavedOK'
  BY <1>3 DEF UnsavedOK
<1>11. QED
  BY <1>6, <1>7, <1>8, <1>9, <1>10 DEF Basic

\* Logging a call keeps the invariant: its entry is above the watermark.
LEMMA CallIInv ==
    ASSUME IInv, NEW op \in Ops, Call(op)
    PROVE  IInv'
<1> DEFINE e == [lsn |-> snap.lsn + Len(wal) + 1, op |-> op]
           q == Len(wal) + 1
           w == snap.lsn + Len(wal)
<1>0. Basic /\ Basic'
  BY CallBasic DEF IInv
<1>1. /\ e \in Entry /\ e.lsn > fts_lsn /\ LastLsn + 1 = e.lsn /\ e.lsn \in 1 .. OutOfBand
      /\ wal' = Append(wal, e) /\ Len(wal') = q
      /\ wal'[q] = e /\ Counted(wal', snap.lsn)
      /\ Reached = Len(wal) /\ Reached' = q
  BY <1>0, CallLog
<1>2. /\ Counted(wal, snap.lsn) /\ Len(wal) \in Nat /\ snap.lsn \in Nat
      /\ fts_lsn \in Nat /\ fts_lsn <= w /\ w \in Nat
      /\ 0 \in 0 .. Len(wal) /\ Len(wal) \in 0 .. Len(wal)
      /\ q \in 1 .. q /\ q \in 0 .. q /\ q \in 0 + 1 .. q
      /\ w = snap.lsn + q - 1 /\ e.lsn > w /\ fts_lsn <= snap.lsn + q
  BY <1>0, BasicFacts
<1>3. /\ UNCHANGED <<phase, pos, disk, snap>> /\ phase = "serving" /\ call = NoCall
      /\ (op.kind = "create" <=> ~col.exists)
      /\ Kept(op) \/ Start(op, LastLsn + 1)
      /\ excused' = excused \cup LeftBehind(op)
      /\ unsaved' = IF op.kind = "drop" THEN {} ELSE unsaved
  BY ApplyCases DEF Call
<1>4. e.op = op /\ docs' = docs /\ fts_lsn' = fts_lsn /\ Busy = {}
  BY <1>3 DEF disk, Busy
<1>5. /\ Higher(fts_lsn, snap.lsn + Reached) = w
      /\ Higher(fts_lsn', snap'.lsn + Reached') = snap.lsn + q
  BY <1>1, <1>2, <1>3, <1>4 DEF Higher
<1> HIDE DEF e, q, w
<1>6. ASSUME NEW i \in Ids \ excused', Setter(op, i), i \notin Busy'
      PROVE  op.kind = "drop" /\ docs[i] = <<>> /\ DocOf(op) = <<>>
  <2>1. LastLsn + 1 > fts_lsn /\ i \notin LeftBehind(op)
    BY <1>1, <1>3
  <2>2. CASE op.kind \in {"insert", "delete"} /\ i = op.id /\ WritesDocument(op, LastLsn + 1)
    <3>1. call' # NoCall /\ call'.op = op
      BY <1>0, <2>2, CallEffect
    <3>2. QED
      BY <1>6, <2>2, <3>1 DEF Busy
  <2>3. QED
    BY <1>6, <2>1, <2>2, SetterLeft
<1>7. DiskOK'
  <2> SUFFICES ASSUME NEW i \in Ids \ (excused' \cup unsaved')
               PROVE  Claim(wal', 0, snap.col.rows[i], docs[i], i, fts_lsn)
    BY <1>3, <1>4 DEF DiskOK
  <2>1. CASE op.kind = "drop"
    BY <1>1, <1>2, <1>4, <2>1 DEF Claim
  <2>2. CASE op.kind # "drop"
    <3>1. Claim(wal, 0, snap.col.rows[i], docs[i], i, fts_lsn)
      BY <1>3, <2>2 DEF IInv, DiskOK
    <3>2. QED
      BY <1>1, <1>2, <3>1, ClaimAppend
  <2>3. QED
    BY <2>1, <2>2
<1>8. MarkOK'
  <2> SUFFICES ASSUME NEW i \in Ids \ (excused' \cup unsaved' \cup Busy')
               PROVE  Claim(wal', 0, snap.col.rows[i], docs[i], i, snap.lsn + q)
    BY <1>3, <1>4, <1>5 DEF MarkOK
  <2>1. CASE Setter(op, i)
    BY <1>1, <1>2, <1>4, <1>6, <2>1, MarkSet
  <2>2. CASE ~Setter(op, i)
    <3>1. op.kind # "drop"
      BY <2>2 DEF Setter
    <3>2. Claim(wal, 0, snap.col.rows[i], docs[i], i, w)
      BY <1>3, <1>4, <1>5, <3>1 DEF IInv, MarkOK
    <3>3. Claim(wal', 0, snap.col.rows[i], docs[i], i, w)
      BY <1>1, <1>2, <3>2, ClaimAppend
    <3>4. QED
      BY <1>1, <1>2, <1>4, <2>2, <3>3, MarkSkip
  <2>3. QED
    BY <2>1, <2>2
<1>9. MemOK'
  <2> SUFFICES ASSUME NEW i \in Ids \ (excused' \cup Busy')
               PROVE  Claim(wal', q, col'.rows[i], docs[i], i, fts_lsn)
    BY <1>1, <1>4 DEF MemOK
  <2>1. Agree(col.rows[i], docs[i])
    <3>1. Claim(wal, Len(wal), col.rows[i], docs[i], i, fts_lsn)
      BY <1>1, <1>3, <1>4 DEF IInv, MemOK
    <3>2. QED
      BY <1>2, <3>1, ClaimEnd
  <2>2. Agree(col'.rows[i], docs[i])
    <3>1. CASE Kept(op)
      BY <2>1, <3>1 DEF Kept
    <3>2. CASE ~Kept(op) /\ Setter(op, i)
      <4>1. op.kind = "drop" /\ docs[i] = <<>>
        BY <1>6, <3>2
      <4>2. StartDdl(op) /\ col \in Col
        BY <1>0, <1>3, <3>2, <4>1, BasicFacts DEF Start
      <4>3. col'.rows = NoRows
        BY <4>1, <4>2, StartDdlEffect
      <4>4. QED
        BY <4>1, <4>3, FtsAssumption DEF Agree, NoRows
    <3>3. CASE ~Kept(op) /\ ~Setter(op, i)
      <4>1. op.kind = "create" => col.rows = NoRows
        BY <1>0, <1>3 DEF Basic, ExistsOK
      <4>2. LastLsn + 1 \in 1 .. OutOfBand
        BY <1>1
      <4>3. QED
        BY <1>0, <1>3, <2>1, <3>3, <4>1, <4>2, StartAgree
    <3>4. QED
      BY <3>1, <3>2, <3>3
  <2>3. QED
    BY <1>1, <1>2, <2>2, ClaimAgree
<1>10. QED
  BY <1>0, <1>7, <1>8, <1>9 DEF IInv

\* So does a row outside the log.
LEMMA SourceRowIInv ==
    ASSUME IInv, NEW op \in Ops, SourceRow(op)
    PROVE  IInv'
<1>0. Basic
  BY DEF IInv
<1>1. /\ UNCHANGED <<phase, pos, disk, wal, snap>> /\ phase = "serving" /\ call = NoCall
      /\ col.exists /\ op.kind \in {"insert", "delete"} /\ StartRow(op, OutOfBand)
      /\ excused' = excused \cup LeftBehind(op) /\ unsaved' = unsaved \cup {op.id}
  BY DEF SourceRow, Start
<1>2. docs' = docs /\ fts_lsn' = fts_lsn /\ Busy = {} /\ Reached' = Reached
      /\ Reached = Len(wal)
  BY <1>1 DEF disk, Busy, Reached
<1>3. /\ Counted(wal, snap.lsn) /\ Len(wal) \in 0 .. Len(wal) /\ col \in Col
      /\ fts_lsn \in Nat /\ fts_lsn <= snap.lsn + Len(wal)
  BY <1>0, BasicFacts
<1>4. OutOfBand \in 1 .. OutOfBand /\ op.id \in Ids
  BY <1>1, FtsAssumption, OpKinds DEF OutOfBand
<1>5. /\ col' \in Col /\ col'.exists = col.exists
      /\ call' \in {NoCall} \cup Calls
      /\ call' = NoCall => ~WritesDocument(op, OutOfBand)
      /\ call' # NoCall => /\ WritesDocument(op, OutOfBand)
                           /\ call' = [op |-> op, lsn |-> OutOfBand, stage |-> "document"]
  BY <1>1, <1>3, <1>4, StartRowEffect
<1>6. Basic'
  <2>1. TypeOK'
    <3>1. excused' \subseteq Ids /\ unsaved' \subseteq Ids
      BY <1>0, <1>1, <1>4, LeftBehindType DEF Basic, TypeOK
    <3>2. QED
      BY <1>0, <1>1, <1>5, <3>1 DEF Basic, TypeOK, Col, RowValue, disk
  <2>2. LogOK'
    BY <1>0, <1>1, <1>2 DEF Basic, LogOK
  <2>3. ExistsOK'
    BY <1>0, <1>1, <1>2, <1>5 DEF Basic, ExistsOK
  <2>4. CallOK'
    <3>1. WritesDocument(op, OutOfBand) => IsDocOp(op, op.id)
      BY <1>1 DEF WritesDocument, IsDocOp
    <3>2. QED
      BY <1>1, <1>4, <1>5, <3>1 DEF CallOK
  <2>5. QED
    BY <1>1, <2>1, <2>2, <2>3, <2>4 DEF Basic, UnsavedOK
<1>7. DiskOK'
  BY <1>1, <1>2 DEF IInv, DiskOK
<1>8. MarkOK'
  BY <1>1, <1>2 DEF IInv, MarkOK
<1>9. MemOK'
  <2> SUFFICES ASSUME NEW i \in Ids \ (excused' \cup Busy')
               PROVE  Claim(wal, Len(wal), col'.rows[i], docs[i], i, fts_lsn)
    BY <1>1, <1>2 DEF MemOK
  <2>1. Agree(col.rows[i], docs[i])
    <3>1. Claim(wal, Len(wal), col.rows[i], docs[i], i, fts_lsn)
      BY <1>1, <1>2 DEF IInv, MemOK
    <3>2. QED
      BY <1>3, <3>1, ClaimEnd
  <2>2. ~Setter(op, i)
    <3>1. SUFFICES ASSUME Setter(op, i)
                   PROVE  FALSE
      OBVIOUS
    <3>2. i = op.id /\ WritesDocument(op, OutOfBand)
      BY <1>1, <3>1, SetterLeft
    <3>3. call' # NoCall /\ call'.op = op
      BY <1>5, <3>2
    <3>4. QED
      BY <3>2, <3>3 DEF Busy
  <2>3. Agree(col'.rows[i], docs[i])
    <3>1. Start(op, OutOfBand) /\ op.kind # "create"
      BY <1>1 DEF Start
    <3>2. QED
      BY <1>0, <1>4, <2>1, <2>2, <3>1, StartAgree
  <2>4. QED
    BY <1>3, <2>3, ClaimAgree
<1>10. QED
  BY <1>6, <1>7, <1>8, <1>9 DEF IInv

\* The document a call commits.
LEMMA CommittedDoc ==
    ASSUME Basic, call # NoCall
    PROVE  /\ Committed = [docs EXCEPT ![call.op.id] = DocOf(call.op)]
           /\ Committed \in [Ids -> Doc] /\ call.op.id \in Ids /\ call.op \in Ops
           /\ call \in Calls /\ call.op.kind \in {"insert", "delete"}
           /\ IsDocOp(call.op, call.op.id) /\ Busy = {call.op.id}
<1>1. call \in Calls /\ call.op \in Ops
  BY DEF Basic, TypeOK, Calls
<1>2. call.op.id \in Ids /\ IsDocOp(call.op, call.op.id)
  BY DEF Basic, CallOK
<1>3. Committed = [docs EXCEPT ![call.op.id] = DocOf(call.op)]
  BY <1>2 DEF Committed, DeleteDocument, IndexDocument, DocOf, IsDocOp
<1>4. DocOf(call.op) \in Doc
  BY <1>2 DEF DocOf, IsDocOp, Doc
<1>5. QED
  BY <1>1, <1>2, <1>3, <1>4, BasicFacts DEF IsDocOp, Busy

\* The end of a call: row and document are in step.
LEMMA FinishEffect ==
    ASSUME Basic, call # NoCall, NEW lsn, Finish(call.op, lsn)
    PROVE  /\ col' \in Col /\ col'.exists = col.exists /\ call' = NoCall /\ Busy' = {}
           /\ \A i \in Ids : i # call.op.id => col'.rows[i] = col.rows[i]
           /\ Agree(col'.rows[call.op.id], DocOf(call.op))
           /\ excused' = excused \ {call.op.id}
           /\ unsaved' = IF lsn = OutOfBand THEN unsaved ELSE unsaved \ {call.op.id}
<1> DEFINE op == call.op
           h == StoredAs(col.rows[op.id], op)
<1>1. op.id \in Ids /\ op \in Ops /\ op.kind \in {"insert", "delete"} /\ IsDocOp(op, op.id)
  BY CommittedDoc
<1>2. col \in Col /\ col.rows[op.id] \in RowValue
  BY <1>1, BasicFacts DEF Col
<1>3. h \in RowValue /\ Agree(h, DocOf(op))
  BY <1>1, <1>2, StoredType, StoredAgree
<1>4. col' = [col EXCEPT !.rows = [col.rows EXCEPT ![op.id] = h]]
  BY DEF Finish
<1>5. /\ call' = NoCall /\ excused' = excused \ {op.id}
      /\ unsaved' = IF lsn = OutOfBand THEN unsaved ELSE unsaved \ {op.id}
  BY DEF Finish
<1> HIDE DEF h
<1>6. /\ col' \in Col /\ col'.exists = col.exists /\ col'.rows[op.id] = h
      /\ \A i \in Ids : i # op.id => col'.rows[i] = col.rows[i]
  BY <1>1, <1>2, <1>3, <1>4 DEF Col
<1>7. QED
  BY <1>3, <1>5, <1>6 DEF Busy

\* So does the commit to Tantivy.
LEMMA WriteDocumentIInv ==
    ASSUME IInv, WriteDocument
    PROVE  IInv'
<1> DEFINE c == call.op.id
<1>0. Basic
  BY DEF IInv
<1>1. /\ phase # "down" /\ call # NoCall /\ call.stage = "document" /\ docs' = Committed
      /\ UNCHANGED <<phase, pos, fts_lsn, wal, snap, events>>
  BY DEF WriteDocument
<1>2. /\ docs' = [docs EXCEPT ![c] = DocOf(call.op)] /\ docs' \in [Ids -> Doc]
      /\ c \in Ids /\ call \in Calls /\ IsDocOp(call.op, c) /\ Busy = {c}
      /\ docs \in [Ids -> Doc]
  BY <1>0, <1>1, CommittedDoc, BasicFacts
<1>3. /\ Counted(wal, snap.lsn) /\ Reached \in 0 .. Len(wal) /\ Reached' = Reached
      /\ fts_lsn \in Nat /\ fts_lsn <= snap.lsn + Len(wal)
      /\ Len(wal) \in Nat /\ Len(wal) \in 0 .. Len(wal) /\ col.exists
  BY <1>0, <1>1, BasicFacts DEF Reached, Basic, CallOK
<1>4. docs'[c] = DocOf(call.op) /\ \A i \in Ids : i # c => docs'[i] = docs[i]
  BY <1>2
<1>5. LogOK'
  BY <1>0, <1>1, <1>3 DEF Basic, LogOK
<1>6. CASE call.lsn = OutOfBand
  <2>1. Finish(call.op, call.lsn)
    BY <1>6 DEF WriteDocument
  <2>2. /\ col' \in Col /\ col'.exists = col.exists /\ call' = NoCall /\ Busy' = {}
        /\ \A i \in Ids : i # c => col'.rows[i] = col.rows[i]
        /\ Agree(col'.rows[c], DocOf(call.op))
        /\ excused' = excused \ {c} /\ unsaved' = unsaved
    BY <1>0, <1>1, <1>6, <2>1, FinishEffect
  <2>3. phase = "serving" /\ c \in unsaved
    <3>1. ~(call.lsn \in 1 .. MaxLsn)
      BY <1>6, FtsAssumption DEF OutOfBand
    <3>2. \A k \in 1 .. Len(wal) : wal[k].lsn \in 1 .. MaxLsn
      BY <1>3, CountedFacts DEF Entry
    <3>3. ~(Reached \in 1 .. Len(wal) /\ wal[Reached] = [lsn |-> call.lsn, op |-> call.op])
      BY <3>1, <3>2
    <3>4. QED
      BY <1>0, <1>1, <3>3 DEF Basic, CallOK
  <2> HIDE DEF c
  <2>4. Basic'
    <3>1. TypeOK'
      BY <1>0, <1>1, <1>2, <2>2 DEF Basic, TypeOK, Col, RowValue, Doc
    <3>2. ExistsOK'
      BY <1>0, <1>1, <1>3, <2>2 DEF Basic, ExistsOK
    <3>3. CallOK' /\ UnsavedOK'
      BY <1>1, <2>2, <2>3 DEF CallOK, UnsavedOK
    <3>4. QED
      BY <1>5, <3>1, <3>2, <3>3 DEF Basic
  <2>5. DiskOK'
    BY <1>1, <1>4, <2>2, <2>3 DEF IInv, DiskOK
  <2>6. MarkOK'
    BY <1>1, <1>2, <1>3, <1>4, <2>2, <2>3 DEF IInv, MarkOK
  <2>7. MemOK'
    <3> SUFFICES ASSUME NEW i \in Ids \ excused'
                 PROVE  Claim(wal, Reached, col'.rows[i], docs'[i], i, fts_lsn)
      BY <1>1, <1>3 DEF MemOK
    <3>1. CASE i = c
      <4>1. Reached = Len(wal)
        BY <2>3 DEF Reached
      <4>2. QED
        BY <1>3, <1>4, <2>2, <3>1, <4>1, ClaimAgree
    <3>2. CASE i # c
      BY <1>1, <1>2, <1>4, <2>2, <3>2 DEF IInv, MemOK
    <3>3. QED
      BY <3>1, <3>2
  <2>8. QED
    BY <2>4, <2>5, <2>6, <2>7 DEF IInv
<1>7. CASE call.lsn # OutOfBand
  <2>1. /\ call' = [call EXCEPT !.stage = "watermark"]
        /\ UNCHANGED <<col, excused, unsaved>>
    BY <1>7 DEF WriteDocument, history
  <2>2. /\ call' \in Calls /\ call'.op = call.op /\ call'.lsn = call.lsn
        /\ call'.stage = "watermark"
    BY <1>2, <2>1 DEF Calls
  <2>3. call' # NoCall
    BY <2>2, CallAssumption
  <2>4. /\ call.lsn > fts_lsn /\ Reached \in 1 .. Len(wal)
        /\ wal[Reached] = [lsn |-> call.lsn, op |-> call.op]
    BY <1>0, <1>1, <1>7 DEF Basic, CallOK
  <2>5. Busy' = Busy
    BY <1>1, <2>2, <2>3 DEF Busy
  <2>6. wal[Reached].lsn = call.lsn /\ wal[Reached].op = call.op
    BY <2>4
  <2>7. Reached \in 0 + 1 .. Len(wal)
    BY <1>3, <2>4
  <2>8. Basic'
    <3>1. TypeOK'
      BY <1>0, <1>1, <1>2, <2>1, <2>2 DEF Basic, TypeOK, Doc
    <3>2. ExistsOK'
      BY <1>0, <1>1, <1>3, <2>1 DEF Basic, ExistsOK
    <3>3. CallOK'
      BY <1>1, <1>2, <1>3, <1>4, <2>1, <2>2, <2>4 DEF CallOK
    <3>4. UnsavedOK'
      BY <1>0, <1>1, <2>1 DEF Basic, UnsavedOK
    <3>5. QED
      BY <1>5, <3>1, <3>2, <3>3, <3>4 DEF Basic
  <2> HIDE DEF c
  <2>9. DiskOK'
    <3> SUFFICES ASSUME NEW i \in Ids \ (excused \cup unsaved)
                 PROVE  Claim(wal, 0, snap.col.rows[i], docs'[i], i, fts_lsn)
      BY <1>1, <2>1 DEF DiskOK
    <3>1. CASE i = c
      BY <1>2, <1>4, <2>4, <2>6, <2>7, <3>1 DEF Claim
    <3>2. CASE i # c
      BY <1>4, <3>2 DEF IInv, DiskOK
    <3>3. QED
      BY <3>1, <3>2
  <2>10. MarkOK'
    BY <1>1, <1>2, <1>3, <1>4, <2>1, <2>5 DEF IInv, MarkOK
  <2>11. MemOK'
    BY <1>1, <1>2, <1>3, <1>4, <2>1, <2>5 DEF IInv, MemOK
  <2>12. QED
    BY <2>8, <2>9, <2>10, <2>11 DEF IInv
<1>8. QED
  BY <1>6, <1>7

\* So does the rename of the watermark file, with the payload stored after it.
LEMMA SetLsnIInv ==
    ASSUME IInv, SetLsn
    PROVE  IInv'
<1> DEFINE c == call.op.id
           P == Reached
           w == snap.lsn + Reached
<1>0. Basic
  BY DEF IInv
<1>1. /\ phase # "down" /\ call # NoCall /\ call.stage = "watermark" /\ fts_lsn' = call.lsn
      /\ UNCHANGED <<phase, pos, docs, wal, snap, events>> /\ Finish(call.op, call.lsn)
  BY DEF SetLsn
<1>2. /\ c \in Ids /\ call \in Calls /\ IsDocOp(call.op, c) /\ Busy = {c}
  BY <1>0, <1>1, CommittedDoc
<1>3. /\ Counted(wal, snap.lsn) /\ P \in 0 .. Len(wal) /\ Reached' = P /\ P \in Nat
      /\ fts_lsn \in Nat /\ Len(wal) \in Nat /\ snap.lsn \in Nat
  BY <1>0, <1>1, BasicFacts DEF Reached
<1>4. /\ docs[c] = DocOf(call.op) /\ call.lsn > fts_lsn /\ P \in 1 .. Len(wal)
      /\ wal[P] = [lsn |-> call.lsn, op |-> call.op] /\ col.exists
  BY <1>0, <1>1 DEF Basic, CallOK
<1>5. wal[P].lsn = call.lsn /\ wal[P].op = call.op
  BY <1>4
<1>6. call.lsn = w /\ w \in Nat /\ w > fts_lsn /\ w \in 1 .. MaxLsn
  BY <1>3, <1>4, <1>5, CountedFacts DEF Entry
<1>7. /\ Higher(fts_lsn, w) = w /\ Higher(fts_lsn', snap'.lsn + Reached') = w
      /\ fts_lsn <= w /\ w <= snap.lsn + Len(wal)
  BY <1>1, <1>3, <1>6 DEF Higher
<1>8. call.lsn # OutOfBand /\ call.lsn \in 0 .. OutOfBand
  BY <1>6, FtsAssumption DEF OutOfBand
<1>9. /\ col' \in Col /\ col'.exists = col.exists /\ call' = NoCall /\ Busy' = {}
      /\ \A i \in Ids : i # c => col'.rows[i] = col.rows[i]
      /\ Agree(col'.rows[c], DocOf(call.op))
      /\ excused' = excused \ {c} /\ unsaved' = unsaved \ {c}
  BY <1>0, <1>1, <1>8, FinishEffect
<1> HIDE DEF c, P, w
<1>10. Basic'
  <2>1. TypeOK'
    BY <1>0, <1>1, <1>8, <1>9 DEF Basic, TypeOK, Col, RowValue
  <2>2. LogOK'
    BY <1>0, <1>1, <1>6, <1>7 DEF Basic, LogOK
  <2>3. ExistsOK'
    BY <1>0, <1>1, <1>3, <1>4, <1>9 DEF Basic, ExistsOK, P
  <2>4. CallOK' /\ UnsavedOK'
    BY <1>0, <1>1, <1>9 DEF Basic, CallOK, UnsavedOK
  <2>5. QED
    BY <2>1, <2>2, <2>3, <2>4 DEF Basic
<1>11. ASSUME NEW i \in Ids \ (excused' \cup unsaved')
       PROVE  Claim(wal, 0, snap.col.rows[i], docs[i], i, w)
  <2>1. CASE i = c
    <3>1. Setter(wal[P].op, i) /\ docs[i] = DocOf(wal[P].op)
      BY <1>2, <1>4, <1>5, <2>1 DEF Setter
    <3>2. Claim(wal, 0, snap.col.rows[i], docs[i], i, snap.lsn + P)
      BY <1>3, <1>4, <3>1, MarkSet
    <3>3. QED
      BY <3>2 DEF w, P
  <2>2. CASE i # c
    BY <1>1, <1>2, <1>7, <1>9, <2>2 DEF IInv, MarkOK, w
  <2>3. QED
    BY <2>1, <2>2
<1>12. DiskOK'
  BY <1>1, <1>6, <1>11 DEF DiskOK
<1>13. MarkOK'
  BY <1>1, <1>7, <1>9, <1>11 DEF MarkOK
<1>14. MemOK'
  <2> SUFFICES ASSUME NEW i \in Ids \ excused'
               PROVE  Claim(wal, P, col'.rows[i], docs[i], i, w)
    BY <1>1, <1>3, <1>6 DEF MemOK
  <2>1. w <= snap.lsn + P /\ fts_lsn <= snap.lsn + P
    BY <1>3, <1>6 DEF w, P
  <2>2. CASE i = c
    BY <1>3, <1>4, <1>6, <1>9, <2>1, <2>2, ClaimAgree
  <2>3. CASE i # c
    <3>1. Claim(wal, P, col'.rows[i], docs[i], i, fts_lsn)
      BY <1>1, <1>2, <1>9, <2>3 DEF IInv, MemOK, P
    <3>2. QED
      BY <1>3, <1>6, <2>1, <3>1, ClaimBehind
  <2>4. QED
    BY <2>2, <2>3
<1>15. QED
  BY <1>10, <1>12, <1>13, <1>14 DEF IInv

----------------------------------------------------------------------------
(* Failures, checkpoint and recovery *)

\* The process ends: what is excused afterwards covers all that differs.
LEMMA DownIInv ==
    ASSUME IInv, phase' = "down", col' = Missing, call' = NoCall, pos' = 0,
           UNCHANGED <<fts_lsn, wal, snap>>, docs' \in [Ids -> Doc],
           excused \cup unsaved \subseteq excused', excused' \subseteq Ids, unsaved' = {},
           \A i \in Ids \ excused' : docs'[i] = docs[i]
    PROVE  IInv'
<1>0. Basic /\ Len(wal) \in Nat
  BY BasicFacts DEF IInv
<1>1. TypeOK'
  BY <1>0, NoRowsType DEF Basic, TypeOK, Col, RowValue, Doc
<1>2. LogOK'
  BY <1>0 DEF Basic, LogOK
<1>3. ExistsOK'
  <2>1. col'.rows = NoRows
    BY DEF Missing
  <2>2. QED
    BY <1>0, <2>1 DEF Basic, ExistsOK
<1>4. CallOK' /\ UnsavedOK'
  BY DEF CallOK, UnsavedOK
<1>5. DiskOK'
  BY DEF IInv, DiskOK
<1>6. MarkOK' /\ MemOK'
  BY DEF MarkOK, MemOK
<1>7. QED
  BY <1>1, <1>2, <1>3, <1>4, <1>5, <1>6 DEF IInv, Basic

\* So does an error of the index, whose id is excused.
LEMMA FtsFailsIInv ==
    ASSUME IInv, FtsFails
    PROVE  IInv'
<1> DEFINE c == call.op.id
<1>0. Basic
  BY DEF IInv
<1>1. /\ call # NoCall /\ call' = NoCall /\ excused' = excused \cup {c}
      /\ docs' \in {docs, Committed}
      /\ UNCHANGED <<fts_lsn, wal, snap, unsaved>>
  BY DEF FtsFails
<1>2. /\ Committed = [docs EXCEPT ![c] = DocOf(call.op)] /\ Committed \in [Ids -> Doc]
      /\ c \in Ids /\ Busy = {c} /\ docs \in [Ids -> Doc]
  BY <1>0, <1>1, CommittedDoc, BasicFacts
<1>3. docs' \in [Ids -> Doc] /\ \A i \in Ids : i # c => docs'[i] = docs[i]
  BY <1>1, <1>2
<1>4. UNCHANGED <<phase, col, pos>> /\ phase # "down" /\ excused' \subseteq Ids
  BY <1>0, <1>1, <1>2 DEF Basic, FtsFails, TypeOK
<1> HIDE DEF c
<1>5. Busy' = {} /\ Reached' = Reached
  BY <1>1, <1>4 DEF Busy, Reached
<1>6. Basic'
  <2>1. TypeOK'
    BY <1>0, <1>1, <1>3, <1>4 DEF Basic, TypeOK, Doc
  <2>2. LogOK'
    BY <1>0, <1>1, <1>4 DEF Basic, LogOK
  <2>3. ExistsOK'
    BY <1>0, <1>1, <1>4, <1>5 DEF Basic, ExistsOK
  <2>4. CallOK' /\ UnsavedOK'
    BY <1>0, <1>1, <1>4 DEF Basic, CallOK, UnsavedOK
  <2>5. QED
    BY <2>1, <2>2, <2>3, <2>4 DEF Basic
<1>7. DiskOK'
  BY <1>1, <1>3 DEF IInv, DiskOK
<1>8. MarkOK'
  BY <1>1, <1>2, <1>3, <1>4, <1>5 DEF IInv, MarkOK
<1>9. MemOK'
  BY <1>1, <1>2, <1>3, <1>4, <1>5 DEF IInv, MemOK
<1>10. QED
  BY <1>6, <1>7, <1>8, <1>9 DEF IInv

\* So does a crash at any of these points: what memory loses, the log repeats.
LEMMA CrashIInv ==
    ASSUME IInv, Crash
    PROVE  IInv'
<1>1. docs \in [Ids -> Doc] /\ excused \subseteq Ids /\ unsaved \subseteq Ids
  BY BasicFacts DEF IInv, Basic, TypeOK
<1>2. QED
  BY <1>1, DownIInv DEF Crash, disk

\* So does a checkpoint between two calls.
LEMMA CheckpointIInv ==
    ASSUME IInv, Checkpoint
    PROVE  IInv'
<1> DEFINE n == snap.lsn + Len(wal)
<1>0. Basic
  BY DEF IInv
<1>1. /\ phase = "serving" /\ call = NoCall /\ snap' = [lsn |-> LastLsn, col |-> col]
      /\ wal' = <<>> /\ unsaved' = {}
      /\ UNCHANGED <<phase, col, call, pos, docs, fts_lsn, excused, events>>
  BY DEF Checkpoint, disk
<1>2. /\ Counted(wal, snap.lsn) /\ Len(wal) \in Nat /\ LastLsn = n /\ snap.lsn \in 0 .. MaxLsn
      /\ col \in Col /\ fts_lsn \in Nat /\ fts_lsn <= n /\ n \in Nat
  BY <1>0, BasicFacts
<1>3. n \in 0 .. MaxLsn
  <2>1. CASE Len(wal) = 0
    BY <1>2, <2>1
  <2>2. CASE Len(wal) # 0
    <3>1. Len(wal) \in 1 .. Len(wal)
      BY <1>2, <2>2
    <3>2. wal[Len(wal)].lsn = n /\ wal[Len(wal)].lsn \in 1 .. MaxLsn
      BY <1>2, <3>1, CountedFacts DEF Entry
    <3>3. QED
      BY <3>2
  <2>3. QED
    BY <2>1, <2>2
<1> HIDE DEF n
<1>4. /\ Len(wal') = 0 /\ wal' \in Seq(Entry) /\ pos = 0 /\ snap'.lsn = n /\ snap'.col = col
      /\ Reached = Len(wal) /\ Reached' = 0 /\ Busy = {}
  BY <1>0, <1>1, <1>2 DEF Reached, Basic, LogOK, Busy
<1>5. Counted(wal', n)
  BY <1>2, <1>4 DEF Counted
<1>6. \A i \in Ids \ excused : Agree(col.rows[i], docs[i])
  <2>1. ASSUME NEW i \in Ids \ excused
        PROVE  Agree(col.rows[i], docs[i])
    <3>1. Claim(wal, Len(wal), col.rows[i], docs[i], i, fts_lsn)
      BY <1>1, <1>4 DEF IInv, MemOK
    <3>2. QED
      BY <1>2, <3>1, ClaimEnd
  <2>2. QED
    BY <2>1
<1>7. Basic'
  <2>1. TypeOK'
    BY <1>0, <1>1, <1>3, <1>4 DEF Basic, TypeOK, Entry
  <2>2. LogOK'
    BY <1>1, <1>2, <1>3, <1>4 DEF LogOK
  <2>3. ExistsOK'
    <3>1. ExistsAt(wal', col.exists, 0) <=> col.exists
      BY DEF ExistsAt
    <3>2. QED
      BY <1>0, <1>1, <1>4, <3>1 DEF Basic, ExistsOK
  <2>4. CallOK' /\ UnsavedOK'
    BY <1>1 DEF CallOK, UnsavedOK
  <2>5. QED
    BY <2>1, <2>2, <2>3, <2>4 DEF Basic
<1>8. ASSUME NEW i \in Ids \ excused, NEW w \in Nat, w <= n
      PROVE  Claim(wal', 0, col.rows[i], docs[i], i, w)
  BY <1>2, <1>4, <1>5, <1>6, <1>8, ClaimAgree
<1>9. DiskOK'
  BY <1>1, <1>2, <1>4, <1>8 DEF DiskOK
<1>10. MarkOK'
  <2>1. Higher(fts_lsn', snap'.lsn + Reached') = n /\ n <= n
    BY <1>1, <1>2, <1>4 DEF Higher
  <2>2. QED
    BY <1>1, <1>2, <1>4, <1>8, <2>1 DEF MarkOK
<1>11. MemOK'
  BY <1>1, <1>2, <1>4, <1>8 DEF MemOK
<1>12. QED
  BY <1>7, <1>9, <1>10, <1>11 DEF IInv

\* So does the start of a recovery, from the snapshot.
LEMMA OpenIInv ==
    ASSUME IInv, Open
    PROVE  IInv'
<1>0. Basic
  BY DEF IInv
<1>1. /\ phase = "down" /\ phase' = "replaying"
      /\ UNCHANGED <<call, pos, docs, fts_lsn, wal, snap, excused, unsaved>>
  BY DEF Open, disk, history
<1>2. /\ Counted(wal, snap.lsn) /\ Len(wal) \in Nat /\ snap.lsn \in Nat
      /\ snap.col \in Col /\ fts_lsn \in Nat
  BY <1>0, BasicFacts
<1>3. call = NoCall /\ pos = 0 /\ unsaved = {} /\ Reached' = 0 /\ Busy' = {}
  BY <1>0, <1>1 DEF Basic, CallOK, LogOK, UnsavedOK, Reached, Busy
<1>4. col' \in Col /\ col'.exists = snap.col.exists /\ col'.rows = snap.col.rows
  <2>1. CASE col' = snap.col
    BY <1>2, <2>1
  <2>2. CASE col' = [snap.col EXCEPT !.fts = FALSE]
    BY <1>2, <2>2 DEF Col
  <2>3. QED
    BY <2>1, <2>2 DEF Open
<1>5. Basic'
  <2>1. TypeOK'
    BY <1>0, <1>1, <1>4 DEF Basic, TypeOK, Col, RowValue
  <2>2. LogOK'
    BY <1>0, <1>1 DEF Basic, LogOK
  <2>3. ExistsOK'
    <3>1. ExistsAt(wal, snap.col.exists, 0) <=> snap.col.exists
      BY DEF ExistsAt
    <3>2. QED
      BY <1>0, <1>1, <1>3, <1>4, <3>1 DEF Basic, ExistsOK
  <2>4. CallOK' /\ UnsavedOK'
    BY <1>1, <1>3 DEF CallOK, UnsavedOK
  <2>5. QED
    BY <2>1, <2>2, <2>3, <2>4 DEF Basic
<1>6. \A i \in Ids \ excused : Claim(wal, 0, snap.col.rows[i], docs[i], i, fts_lsn)
  BY <1>3 DEF IInv, DiskOK
<1>7. DiskOK'
  BY <1>1, <1>6 DEF DiskOK
<1>8. MarkOK'
  <2> SUFFICES ASSUME NEW i \in Ids \ excused
               PROVE  Claim(wal, 0, snap.col.rows[i], docs[i], i, Higher(fts_lsn, snap.lsn + 0))
    BY <1>1, <1>3 DEF MarkOK
  <2>1. CASE fts_lsn < snap.lsn
    <3>1. Higher(fts_lsn, snap.lsn + 0) = snap.lsn
      BY <1>2, <2>1 DEF Higher
    <3>2. 0 \in 0 .. Len(wal) /\ fts_lsn <= snap.lsn + 0 /\ snap.lsn <= snap.lsn + 0
      BY <1>2, <2>1
    <3>3. QED
      BY <1>2, <1>6, <3>1, <3>2, ClaimBehind
  <2>2. CASE ~(fts_lsn < snap.lsn)
    <3>1. Higher(fts_lsn, snap.lsn + 0) = fts_lsn
      BY <1>2, <2>2 DEF Higher
    <3>2. QED
      BY <1>6, <3>1
  <2>3. QED
    BY <2>1, <2>2
<1>9. MemOK'
  BY <1>1, <1>3, <1>4, <1>6 DEF MemOK
<1>10. QED
  BY <1>5, <1>7, <1>8, <1>9 DEF IInv

\* So does its end.
LEMMA OpenFinishIInv ==
    ASSUME IInv, OpenFinish
    PROVE  IInv'
<1>0. Basic
  BY DEF IInv
<1>1. /\ phase = "replaying" /\ phase' = "serving" /\ call = NoCall /\ pos = Len(wal) /\ pos' = 0
      /\ UNCHANGED <<col, call, docs, fts_lsn, wal, snap, excused, unsaved>>
  BY DEF OpenFinish, disk, history
<1>2. Reached' = Reached /\ Busy' = Busy /\ Len(wal) \in Nat
  BY <1>0, <1>1, BasicFacts DEF Reached, Busy
<1>3. Basic'
  BY <1>0, <1>1, <1>2 DEF Basic, TypeOK, LogOK, ExistsOK, CallOK, UnsavedOK
<1>4. DiskOK' /\ MarkOK' /\ MemOK'
  BY <1>1, <1>2 DEF IInv, DiskOK, MarkOK, MemOK
<1>5. QED
  BY <1>3, <1>4 DEF IInv

\* The entry replay reads next.
LEMMA ReplayFacts ==
    ASSUME IInv, ReplayEntry
    PROVE  LET q == pos + 1
               e == wal[pos + 1]
           IN  /\ phase = "replaying" /\ call = NoCall /\ pos' = q /\ Busy = {}
               /\ UNCHANGED <<phase, docs, fts_lsn, wal, snap, unsaved>> /\ unsaved = {}
               /\ q \in 1 .. Len(wal) /\ pos \in 0 .. Len(wal) - 1 /\ Reached = pos /\ Reached' = q
               /\ q - 1 = pos
               /\ e \in Entry /\ e.op \in Ops /\ e.lsn = snap.lsn + q /\ e.lsn \in 1 .. MaxLsn
               /\ e.lsn \in 1 .. OutOfBand /\ e.lsn # OutOfBand
               /\ e.op.kind = "create" <=> ~col.exists
               /\ \/ Passed(e.op)
                  \/ /\ Start(e.op, e.lsn)
                     /\ excused' = excused \cup
                            IF e.lsn > fts_lsn THEN LeftBehind(e.op) ELSE {}
<1> DEFINE q == pos + 1
           e == wal[pos + 1]
<1>1. Basic
  BY DEF IInv
<1>2. Counted(wal, snap.lsn) /\ Len(wal) \in Nat /\ pos \in 0 .. Len(wal) /\ snap.lsn \in Nat
  BY <1>1, BasicFacts
<1>3. /\ phase = "replaying" /\ call = NoCall /\ pos < Len(wal) /\ pos' = q
      /\ UNCHANGED <<phase, docs, fts_lsn, wal, snap, unsaved>>
  BY DEF ReplayEntry, disk
<1>4. q \in 1 .. Len(wal) /\ pos \in 0 .. Len(wal) - 1 /\ q - 1 = pos
  BY <1>2, <1>3
<1>5. e \in Entry /\ e.op \in Ops /\ e.lsn = snap.lsn + q
  BY <1>2, <1>4, CountedFacts
<1>6. e.lsn \in 1 .. MaxLsn /\ e.lsn \in 1 .. OutOfBand /\ e.lsn # OutOfBand
  BY <1>5, FtsAssumption DEF Entry, OutOfBand
<1>7. ~(e.lsn <= snap.lsn)
  BY <1>2, <1>4, <1>5
<1>8. Reached = pos /\ Reached' = q /\ Busy = {} /\ unsaved = {}
  BY <1>1, <1>3 DEF Reached, Busy, Basic, UnsavedOK
<1>9. e.op.kind = "create" <=> ~col.exists
  BY <1>1, <1>3, <1>4, <1>8 DEF Basic, ExistsOK
<1>10. \/ Passed(e.op)
       \/ /\ Start(e.op, e.lsn)
          /\ excused' = excused \cup
                 IF e.lsn > fts_lsn THEN LeftBehind(e.op) ELSE {}
  <2>1. CASE Identical(e.op)
    BY <1>7, <2>1 DEF ReplayEntry, Passed
  <2>2. CASE ~Identical(e.op)
    <3>1. /\ Apply(e.op, e.lsn)
          /\ excused' = excused \cup
                 IF e.lsn > fts_lsn THEN LeftBehind(e.op) ELSE {}
      BY <1>7, <2>2 DEF ReplayEntry
    <3>2. e.op.kind = "enable_fts" => LeftBehind(e.op) = {}
      BY DEF LeftBehind
    <3>3. Kept(e.op) \/ Start(e.op, e.lsn)
      BY <3>1, ApplyCases
    <3>4. CASE Kept(e.op)
      BY <3>1, <3>2, <3>4 DEF Kept, Passed
    <3>5. QED
      BY <3>1, <3>3, <3>4
  <2>3. QED
    BY <2>1, <2>2
<1>11. QED
  BY <1>3, <1>4, <1>5, <1>6, <1>8, <1>9, <1>10

\* Replaying an entry keeps types and bounds.
LEMMA ReplayBasic ==
    ASSUME IInv, ReplayEntry
    PROVE  Basic'
<1> DEFINE q == pos + 1
           e == wal[pos + 1]
           ex == snap.col.exists
<1>0. Basic /\ Len(wal) \in Nat /\ col \in Col /\ fts_lsn \in Nat
  BY BasicFacts DEF IInv
<1>1. /\ phase = "replaying" /\ call = NoCall /\ pos' = q /\ q - 1 = pos
      /\ UNCHANGED <<phase, docs, fts_lsn, wal, snap, unsaved>> /\ unsaved = {}
      /\ q \in 1 .. Len(wal) /\ Reached = pos /\ Reached' = q
      /\ e \in Entry /\ e.op \in Ops /\ e.lsn \in 1 .. OutOfBand /\ e.lsn # OutOfBand
      /\ e.op.kind = "create" <=> ~col.exists
      /\ \/ Passed(e.op)
         \/ /\ Start(e.op, e.lsn)
            /\ excused' = excused \cup
                   IF e.lsn > fts_lsn THEN LeftBehind(e.op) ELSE {}
  BY ReplayFacts
<1>2. /\ col' \in Col /\ call' \in {NoCall} \cup Calls
      /\ col'.exists <=> \/ e.op.kind = "create"
                         \/ e.op.kind # "drop" /\ col.exists
      /\ ~col'.exists => col'.rows = NoRows
      /\ call' # NoCall => /\ e.op.kind \in {"insert", "delete"} /\ e.op.id \in Ids
                           /\ IsDocOp(e.op, e.op.id) /\ WritesDocument(e.op, e.lsn)
                           /\ call' = [op |-> e.op, lsn |-> e.lsn, stage |-> "document"]
  <2>1. CASE Passed(e.op)
    <3>1. e.op.kind \in {"insert", "enable_fts"} /\ UNCHANGED <<col, call>>
      BY <2>1 DEF Passed, Identical
    <3>2. QED
      BY <1>0, <1>1, <3>1
  <2>2. CASE Start(e.op, e.lsn)
    BY <1>0, <1>1, <2>2, StartEffect
  <2>3. QED
    BY <1>1, <2>1, <2>2
<1>3. excused' \subseteq Ids
  BY <1>0, <1>1, LeftBehindType DEF Basic, TypeOK, Passed
<1> HIDE DEF q, e
<1>4. TypeOK'
  <2>1. pos' \in 0 .. Len(wal')
    BY <1>0, <1>1
  <2>2. QED
    BY <1>0, <1>1, <1>2, <1>3, <2>1 DEF Basic, TypeOK, Col, RowValue
<1>5. LogOK'
  BY <1>0, <1>1 DEF Basic, LogOK
<1>6. ExistsOK'
  <2>1. q \in Nat \ {0} /\ wal[q] = e
    BY <1>0, <1>1 DEF q, e
  <2>2. ExistsAt(wal, ex, q) <=> \/ e.op.kind = "create"
                                 \/ e.op.kind # "drop" /\ ExistsAt(wal, ex, pos)
    BY <1>1, <2>1, ExistsStep
  <2>3. col.exists <=> ExistsAt(wal, ex, pos)
    BY <1>0, <1>1 DEF Basic, ExistsOK
  <2>4. col'.exists <=> ExistsAt(wal, ex, q)
    BY <1>2, <2>2, <2>3
  <2>5. QED
    BY <1>0, <1>1, <1>2, <2>4 DEF Basic, ExistsOK
<1>7. CallOK'
  <2>1. SUFFICES ASSUME call' # NoCall
                 PROVE  CallOK'
    BY DEF CallOK
  <2>2. /\ call'.op = e.op /\ call'.lsn = e.lsn /\ call'.stage = "document"
        /\ IsDocOp(e.op, e.op.id) /\ e.op.id \in Ids /\ e.op.kind \in {"insert", "delete"}
    BY <1>2, <2>1
  <2>3. e.lsn > fts_lsn
    BY <1>1, <1>2, <2>1 DEF WritesDocument
  <2>4. wal[q] = [lsn |-> call'.lsn, op |-> call'.op]
    BY <1>1, <2>2 DEF Entry, e, q
  <2>5. col'.exists
    BY <1>1, <1>2, <2>2
  <2>6. QED
    BY <1>1, <2>2, <2>3, <2>4, <2>5 DEF CallOK
<1>8. UnsavedOK'
  BY <1>1 DEF UnsavedOK
<1>9. QED
  BY <1>4, <1>5, <1>6, <1>7, <1>8 DEF Basic

\* What replay of an entry above the watermark does to the document it should
\* set: it is written, or is already right, or i is excused.
LEMMA ReplayAhead ==
    ASSUME IInv, ReplayEntry, NEW i \in Ids \ (excused' \cup Busy'),
           wal[pos + 1].lsn > fts_lsn, Setter(wal[pos + 1].op, i)
    PROVE  \/ docs[i] = DocOf(wal[pos + 1].op) /\ Agree(col'.rows[i], docs[i])
           \/ \E k \in (pos + 1) + 1 .. Len(wal) :
                 /\ wal[k].lsn > fts_lsn
                 /\ \/ wal[k].op.kind = "drop"
                    \/ IsDocOp(wal[k].op, i) /\ docs[i] = DocOf(wal[k].op)
<1> DEFINE e == wal[pos + 1]
<1>0. Basic /\ col \in Col /\ fts_lsn \in Nat /\ Counted(wal, snap.lsn)
  BY BasicFacts DEF IInv
<1>1. /\ phase = "replaying" /\ Busy = {} /\ Reached = pos
      /\ pos \in 0 .. Len(wal) - 1 /\ e.op \in Ops /\ e.lsn \in 1 .. OutOfBand
      /\ e.op.kind = "create" <=> ~col.exists
      /\ \/ Passed(e.op)
         \/ /\ Start(e.op, e.lsn)
            /\ excused' = excused \cup
                   IF e.lsn > fts_lsn THEN LeftBehind(e.op) ELSE {}
  BY ReplayFacts
<1>2. CASE Passed(e.op)
  <2> DEFINE r == col.rows[i]
  <2>1. e.op.kind = "insert" /\ e.op.id = i /\ e.op.pay \in Texts /\ r = e.op.pay
    BY <1>2 DEF Passed, Identical, Setter, IsDocOp
  <2>2. Claim(wal, pos, r, docs[i], i, fts_lsn)
    BY <1>1, <1>2 DEF IInv, MemOK, Passed
  <2>3. r \in Texts /\ DocOf(e.op) = <<r>> /\ e.op.kind # "drop"
    BY <2>1 DEF DocOf
  <2>4. Agree(r, <<r>>)
    BY <2>3, FtsAssumption DEF Agree
  <2> HIDE DEF r
  <2>5. \/ docs[i] = <<r>>
        \/ \E k \in (pos + 1) + 1 .. Len(wal) :
              /\ wal[k].lsn > fts_lsn
              /\ \/ wal[k].op.kind = "drop"
                 \/ IsDocOp(wal[k].op, i) /\ docs[i] = DocOf(wal[k].op)
    <3>1. pos \in 0 .. Len(wal) - 1 /\ fts_lsn \in Nat /\ Counted(wal, snap.lsn)
      BY <1>0, <1>1
    <3>2. /\ wal[pos + 1].lsn > fts_lsn /\ DocOf(wal[pos + 1].op) = <<r>>
          /\ wal[pos + 1].op.kind # "drop"
      BY <2>3
    <3>3. QED
      BY ONLY <2>2, <2>3, <3>1, <3>2, ClaimIdentical
  <2>6. col'.rows[i] = r
    BY <1>2 DEF r, Passed
  <2>7. QED
    BY <2>3, <2>4, <2>5, <2>6
<1>3. CASE /\ Start(e.op, e.lsn)
           /\ excused' = excused \cup IF e.lsn > fts_lsn THEN LeftBehind(e.op) ELSE {}
  <2>1. i \notin LeftBehind(e.op)
    BY <1>3
  <2>2. CASE e.op.kind \in {"insert", "delete"} /\ i = e.op.id /\ WritesDocument(e.op, e.lsn)
    <3>1. call' # NoCall /\ call'.op = e.op
      BY <1>0, <1>1, <1>3, <2>2, StartEffect
    <3>2. QED
      BY <2>2, <3>1 DEF Busy
  <2>3. CASE e.op.kind = "drop" /\ docs[i] = <<>> /\ DocOf(e.op) = <<>>
    <3>1. StartDdl(e.op)
      BY <1>3, <2>3 DEF Start
    <3>2. col'.rows = NoRows
      BY <1>0, <1>1, <2>3, <3>1, StartDdlEffect
    <3>3. QED
      BY <2>3, <3>2, FtsAssumption DEF NoRows, Agree
  <2>4. QED
    BY <1>1, <2>1, <2>2, <2>3, SetterLeft
<1>4. QED
  BY <1>1, <1>2, <1>3

\* Rows and documents after one more entry: they agree, or a later entry is let through.
LEMMA ReplayMem ==
    ASSUME IInv, ReplayEntry, NEW i \in Ids \ (excused' \cup Busy')
    PROVE  Claim(wal, pos + 1, col'.rows[i], docs[i], i, fts_lsn)
<1> DEFINE e == wal[pos + 1]
           q == pos + 1
<1>0. Basic /\ col \in Col /\ fts_lsn \in Nat /\ Counted(wal, snap.lsn) /\ Len(wal) \in Nat
      /\ snap.lsn \in Nat
  BY BasicFacts DEF IInv
<1>1. /\ phase = "replaying" /\ Busy = {} /\ Reached = pos
      /\ pos \in 0 .. Len(wal) - 1 /\ e.op \in Ops /\ e.lsn \in 1 .. OutOfBand
      /\ e.lsn = snap.lsn + q /\ e.lsn # OutOfBand
      /\ e.op.kind = "create" <=> ~col.exists
      /\ \/ Passed(e.op)
         \/ /\ Start(e.op, e.lsn)
            /\ excused' = excused \cup
                   IF e.lsn > fts_lsn THEN LeftBehind(e.op) ELSE {}
  BY ReplayFacts
<1>2. Claim(wal, pos, col.rows[i], docs[i], i, fts_lsn)
  BY <1>1 DEF IInv, MemOK, Passed
<1>3. CASE ~Setter(e.op, i)
  <2>1. ASSUME Agree(col.rows[i], docs[i])
        PROVE  Agree(col'.rows[i], docs[i])
    <3>1. CASE Passed(e.op)
      BY <2>1, <3>1 DEF Passed
    <3>2. CASE Start(e.op, e.lsn)
      <4>1. e.op.kind = "create" => col.rows = NoRows
        BY <1>0, <1>1 DEF Basic, ExistsOK
      <4>2. QED
        BY <1>0, <1>1, <1>3, <2>1, <3>2, <4>1, StartAgree
    <3>3. QED
      BY <1>1, <3>1, <3>2
  <2>2. QED
    BY <1>0, <1>1, <1>2, <1>3, <2>1, ClaimSkip
<1>4. CASE Setter(e.op, i) /\ e.lsn <= fts_lsn
  <2>1. Agree(col'.rows[i], DocOf(e.op))
    <3>1. CASE Passed(e.op)
      <4>1. e.op.kind = "insert" /\ e.op.pay \in Texts /\ col'.rows[i] = e.op.pay
        BY <1>4, <3>1 DEF Passed, Identical, Setter, IsDocOp
      <4>2. QED
        BY <4>1, FtsAssumption DEF DocOf, Agree
    <3>2. CASE Start(e.op, e.lsn) /\ e.op.kind = "drop"
      <4>1. StartDdl(e.op)
        BY <3>2 DEF Start
      <4>2. col'.rows = NoRows
        BY <1>0, <1>1, <3>2, <4>1, StartDdlEffect
      <4>3. QED
        BY <3>2, <4>2, FtsAssumption DEF NoRows, Agree, DocOf
    <3>3. CASE Start(e.op, e.lsn) /\ e.op.kind # "drop"
      <4>1. e.op.kind \in {"insert", "delete"} /\ i = e.op.id /\ IsDocOp(e.op, e.op.id)
        BY <1>4, <3>3 DEF Setter, IsDocOp
      <4>2. ~WritesDocument(e.op, e.lsn)
        BY <1>0, <1>1, <1>4 DEF WritesDocument
      <4>3. StartRow(e.op, e.lsn)
        BY <3>3, <4>1 DEF Start
      <4>4. col'.rows[i] = StoredAs(col.rows[i], e.op)
        BY <1>0, <1>1, <4>1, <4>2, <4>3, StartRowEffect
      <4>5. col.rows[i] \in RowValue
        BY <1>0 DEF Col
      <4>6. QED
        BY <1>1, <4>1, <4>4, <4>5, StoredAgree
    <3>4. QED
      BY <1>1, <3>1, <3>2, <3>3
  <2>2. QED
    BY <1>0, <1>1, <1>2, <1>4, <2>1, ClaimPassOld
<1>5. CASE Setter(e.op, i) /\ ~(e.lsn <= fts_lsn)
  <2>1. e.lsn > fts_lsn /\ fts_lsn <= snap.lsn + q /\ q \in 0 .. Len(wal)
    BY <1>0, <1>1, <1>5
  <2>2. CASE Agree(col'.rows[i], docs[i])
    BY <1>0, <2>1, <2>2, ClaimAgree
  <2>3. CASE \E k \in q + 1 .. Len(wal) :
                /\ wal[k].lsn > fts_lsn
                /\ \/ wal[k].op.kind = "drop"
                   \/ IsDocOp(wal[k].op, i) /\ docs[i] = DocOf(wal[k].op)
    BY <2>3 DEF Claim
  <2>4. QED
    BY <1>5, <2>1, <2>2, <2>3, ReplayAhead
<1>6. QED
  BY <1>3, <1>4, <1>5

\* The same for a crash after the entry, which starts again with a higher watermark.
LEMMA ReplayMark ==
    ASSUME IInv, ReplayEntry, NEW i \in Ids \ (excused' \cup Busy')
    PROVE  Claim(wal, 0, snap.col.rows[i], docs[i], i, Higher(fts_lsn, snap.lsn + (pos + 1)))
<1> DEFINE e == wal[pos + 1]
           q == pos + 1
           r == snap.col.rows[i]
<1>0. Basic /\ fts_lsn \in Nat /\ Counted(wal, snap.lsn) /\ Len(wal) \in Nat
      /\ snap.lsn \in Nat
  BY BasicFacts DEF IInv
<1>1. /\ phase = "replaying" /\ Busy = {} /\ Reached = pos /\ unsaved = {}
      /\ pos \in 0 .. Len(wal) - 1 /\ q \in 1 .. Len(wal)
      /\ e.lsn = snap.lsn + q /\ excused \subseteq excused'
  BY ReplayFacts DEF Passed
<1>2. Claim(wal, 0, r, docs[i], i, Higher(fts_lsn, snap.lsn + pos))
  BY <1>1 DEF IInv, MarkOK
<1>3. CASE e.lsn <= fts_lsn
  <2>1. Higher(fts_lsn, snap.lsn + pos) = fts_lsn /\ Higher(fts_lsn, snap.lsn + q) = fts_lsn
    BY <1>0, <1>1, <1>3 DEF Higher
  <2>2. QED
    BY <1>2, <2>1
<1>4. CASE ~(e.lsn <= fts_lsn)
  <2>1. /\ Higher(fts_lsn, snap.lsn + pos) = snap.lsn + pos
        /\ Higher(fts_lsn, snap.lsn + q) = snap.lsn + q
        /\ snap.lsn + pos \in Nat /\ snap.lsn + pos = snap.lsn + q - 1 /\ e.lsn > fts_lsn
    BY <1>0, <1>1, <1>4 DEF Higher
  <2> HIDE DEF r
  <2>2. CASE ~Setter(e.op, i)
    <3>1. Claim(wal, 0, r, docs[i], i, snap.lsn + pos) /\ ~Setter(wal[q].op, i)
      BY <1>2, <2>1, <2>2
    <3> HIDE DEF q, e
    <3>2. Claim(wal, 0, r, docs[i], i, snap.lsn + q)
      BY <1>0, <1>1, <2>1, <3>1, MarkSkip
    <3>3. QED
      BY <2>1, <3>2 DEF r, q
  <2>3. CASE Setter(e.op, i) /\ docs[i] = DocOf(e.op)
    <3>1. Claim(wal, 0, r, docs[i], i, snap.lsn + q)
      BY <1>0, <1>1, <2>3, MarkSet
    <3>2. QED
      BY <2>1, <3>1 DEF r
  <2>4. CASE \E k \in q + 1 .. Len(wal) :
                /\ wal[k].lsn > fts_lsn
                /\ \/ wal[k].op.kind = "drop"
                   \/ IsDocOp(wal[k].op, i) /\ docs[i] = DocOf(wal[k].op)
    <3>1. \A k \in q + 1 .. Len(wal) : k \in 0 + 1 .. Len(wal) /\ wal[k].lsn > snap.lsn + q
      BY <1>0, <1>1, CountedFacts
    <3>2. Claim(wal, 0, r, docs[i], i, snap.lsn + q)
      BY <2>4, <3>1 DEF Claim
    <3>3. QED
      BY <2>1, <3>2 DEF r
  <2>5. QED
    BY <2>1, <2>2, <2>3, <2>4, ReplayAhead
<1>5. QED
  BY <1>3, <1>4

\* Replaying an entry keeps the invariant, let through the gate or not.
LEMMA ReplayEntryIInv ==
    ASSUME IInv, ReplayEntry
    PROVE  IInv'
<1>1. /\ phase' = "replaying" /\ Reached' = pos + 1 /\ unsaved' = {}
      /\ UNCHANGED <<docs, fts_lsn, wal, snap, unsaved>> /\ excused \subseteq excused'
  BY ReplayFacts DEF Passed
<1>2. Basic'
  BY ReplayBasic
<1>3. DiskOK'
  BY <1>1 DEF IInv, DiskOK
<1>4. MarkOK'
  BY <1>1, ReplayMark DEF MarkOK
<1>5. MemOK'
  BY <1>1, ReplayMem DEF MemOK
<1>6. QED
  BY <1>2, <1>3, <1>4, <1>5 DEF IInv

----------------------------------------------------------------------------
(* Theorems *)

\* The invariant holds before the first call.
LEMMA InitIInv == Init => IInv
<1> SUFFICES ASSUME Init
             PROVE  IInv
  OBVIOUS
<1>1. /\ phase = "serving" /\ call = NoCall /\ pos = 0
      /\ docs = [i \in Ids |-> <<>>] /\ fts_lsn = 0
      /\ wal = <<>> /\ snap = [lsn |-> 0, col |-> col]
      /\ excused = {} /\ unsaved = {}
  BY DEF Init
<1>2. col \in Col /\ col.rows = NoRows
  <2>1. CASE col = Missing
    BY <2>1, NoRowsType DEF Missing
  <2>2. CASE col = [Missing EXCEPT !.exists = TRUE, !.fts = TRUE]
    BY <2>2, NoRowsType DEF Missing, Col
  <2>3. QED
    BY <2>1, <2>2 DEF Init
<1>3. /\ Len(wal) = 0 /\ wal \in Seq(Entry) /\ snap.lsn = 0 /\ snap.col = col
      /\ Reached = 0 /\ Busy = {} /\ MaxLsn \in Nat
  BY <1>1, FtsAssumption DEF Reached, Busy
<1>4. TypeOK
  BY <1>1, <1>2, <1>3 DEF TypeOK, Entry, Col, RowValue, OutOfBand
<1>5. LogOK
  BY <1>1, <1>2, <1>3 DEF LogOK
<1>6. ExistsOK
  <2>1. ExistsAt(wal, col.exists, 0) <=> col.exists
    BY DEF ExistsAt
  <2>2. QED
    BY <1>1, <1>2, <1>3, <2>1 DEF ExistsOK
<1>7. CallOK /\ UnsavedOK
  BY <1>1 DEF CallOK, UnsavedOK
<1>8. Counted(wal, 0)
  BY <1>3 DEF Counted
<1>9. \A i \in Ids : Agree(col.rows[i], docs[i])
  BY <1>1, <1>2, FtsAssumption DEF Agree, NoRows
<1>10. \A i \in Ids : Claim(wal, 0, col.rows[i], docs[i], i, 0)
  BY <1>3, <1>8, <1>9, ClaimAgree
<1>11. DiskOK /\ MemOK
  BY <1>1, <1>3, <1>10 DEF DiskOK, MemOK
<1>12. MarkOK
  <2>1. Higher(fts_lsn, snap.lsn + Reached) = 0
    BY <1>1, <1>3 DEF Higher
  <2>2. QED
    BY <1>3, <1>10, <2>1 DEF MarkOK
<1>13. QED
  BY <1>4, <1>5, <1>6, <1>7, <1>11, <1>12 DEF IInv, Basic

\* Nothing happens, nothing changes.
LEMMA StutterIInv ==
    ASSUME IInv, UNCHANGED vars
    PROVE  IInv'
<1>1. UNCHANGED <<phase, col, call, pos, docs, fts_lsn, wal, snap, excused, unsaved>>
  BY DEF vars, disk, history
<1>2. Basic'
  BY <1>1 DEF IInv, Basic, TypeOK, LogOK, ExistsOK, CallOK, UnsavedOK, Reached
<1>3. Reached' = Reached /\ Busy' = Busy
  BY <1>1 DEF Reached, Busy
<1>4. QED
  BY <1>1, <1>2, <1>3 DEF IInv, DiskOK, MarkOK, MemOK

\* The invariant is inductive.
LEMMA NextIInv == IInv /\ [Next]_vars => IInv'
<1> SUFFICES ASSUME IInv, [Next]_vars
             PROVE  IInv'
  OBVIOUS
<1>1. ASSUME NEW op \in Ops, Call(op)
      PROVE  IInv'
  BY <1>1, CallIInv
<1>2. ASSUME NEW op \in Ops, SourceRow(op)
      PROVE  IInv'
  BY <1>2, SourceRowIInv
<1>3. CASE WriteDocument
  BY <1>3, WriteDocumentIInv
<1>4. CASE SetLsn
  BY <1>4, SetLsnIInv
<1>5. CASE FtsFails
  BY <1>5, FtsFailsIInv
<1>6. CASE Checkpoint
  BY <1>6, CheckpointIInv
<1>7. CASE Crash
  BY <1>7, CrashIInv
<1>8. CASE Open
  BY <1>8, OpenIInv
<1>9. CASE ReplayEntry
  BY <1>9, ReplayEntryIInv
<1>10. CASE OpenFinish
  BY <1>10, OpenFinishIInv
<1>11. CASE UNCHANGED vars
  BY <1>11, StutterIInv
<1>12. QED
  BY <1>1, <1>2, <1>3, <1>4, <1>5, <1>6, <1>7, <1>8, <1>9, <1>10, <1>11 DEF Next

\* The invariant holds in every reachable state.
LEMMA Invariant == Spec => []IInv
BY InitIInv, NextIInv, PTL DEF Spec

\* An id never has two documents, and the other variables keep their types,
\* through calls, failures, crashes and replay.
THEOREM GateTypes == Spec => []TypeOK
<1>1. IInv => TypeOK
  BY DEF IInv, Basic
<1>2. QED
  BY <1>1, Invariant, PTL

\* The watermark in the file fts_lsn never passes the last LSN of the log, so
\* that `lsn > last_lsn` lets every new call through to the index.
THEOREM FreshLsnsPassGate == Spec => []FreshLsnsPass
<1>1. IInv => FreshLsnsPass
  BY BasicFacts DEF IInv, FreshLsnsPass
<1>2. QED
  BY <1>1, Invariant, PTL

\* Between two calls the invariant is the agreement of search and rows.
LEMMA SearchFacts ==
    ASSUME IInv
    PROVE  SearchAgrees
<1> SUFFICES ASSUME phase = "serving", call = NoCall, NEW i \in Ids \ excused
             PROVE  /\ col.rows[i] \in Texts => i \in FtsSearch(col.rows[i])
                    /\ \A t \in Texts : i \in FtsSearch(t) =>
                          col.rows[i] \in {t, Blank, NoPayload}
  BY DEF SearchAgrees
<1>1. Counted(wal, snap.lsn) /\ col \in Col /\ docs \in [Ids -> Doc]
  BY BasicFacts DEF IInv
<1>2. Claim(wal, Len(wal), col.rows[i], docs[i], i, fts_lsn)
  BY DEF IInv, MemOK, Reached, Busy
<1>3. Agree(col.rows[i], docs[i])
  BY <1>1, <1>2, ClaimEnd
<1>4. col.rows[i] \in Texts \cup {Blank, NoPayload, NoRow}
  BY <1>1 DEF Col, RowValue, Payload
<1>5. CASE col.rows[i] \in Texts
  <2>1. docs[i] = <<col.rows[i]>>
    BY <1>3, <1>5 DEF Agree
  <2>2. DOMAIN docs[i] = {1} /\ docs[i][1] = col.rows[i]
    BY <2>1
  <2>3. QED
    BY <1>5, <2>2 DEF FtsSearch
<1>6. CASE col.rows[i] = NoRow
  <2>1. docs[i] = <<>>
    BY <1>3, <1>6 DEF Agree
  <2>2. DOMAIN docs[i] = {}
    BY <2>1
  <2>3. QED
    BY <1>6, <2>2, FtsAssumption DEF FtsSearch
<1>7. CASE col.rows[i] \in {Blank, NoPayload}
  BY <1>7, FtsAssumption
<1>8. QED
  BY <1>4, <1>5, <1>6, <1>7

\* Between two calls a text search agrees with the rows, for every number of
\* ids, texts, log entries, crashes and failing index calls.
THEOREM SearchesAgree == Spec => []SearchAgrees
<1>1. IInv => SearchAgrees
  BY SearchFacts
<1>2. QED
  BY <1>1, Invariant, PTL
=============================================================================
