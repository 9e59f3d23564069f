------------------------- MODULE IcebergFlushProofs -------------------------
(***************************************************************************)
(* Proofs about the Iceberg flusher, for every set of collections and any  *)
(* number of writes, batches, failing tables and crashes: the watermark is *)
(* honest, cutting the log keeps a copy of every row operation, and with   *)
(* nothing cut a restart brings the promised store back.                   *)
(***************************************************************************)
EXTENDS IcebergFlush, CollectionStoreProofs, FiniteSetTheorems

----------------------------------------------------------------------------
(* The recursive operators *)

\* f holds what Above keeps of the first k entries of s.
KeptBy(f, s, lsn) ==
    f = [k \in 0 .. Len(s) |-> IF k = 0 THEN <<>>
            ELSE IF s[k].lsn > lsn THEN Append(f[k - 1], s[k]) ELSE f[k - 1]]

\* A function that filters step by step is the filter.
LEMMA AboveIs ==
    ASSUME NEW s \in Seq(Entry), NEW lsn, NEW g, g[0] = <<>>,
           \A k \in 1 .. Len(s) :
              g[k] = IF s[k].lsn > lsn THEN Append(g[k - 1], s[k]) ELSE g[k - 1]
    PROVE  Above(s, lsn) = g[Len(s)]
<1> DEFINE f == CHOOSE f : KeptBy(f, s, lsn)
           h == [k \in 0 .. Len(s) |-> g[k]]
<1>1. Above(s, lsn) = f[Len(s)]
  BY DEF Above, KeptBy
<1>2. Len(s) \in Nat
  OBVIOUS
<1>3. ASSUME NEW k \in 0 .. Len(s)
      PROVE  h[k] = IF k = 0 THEN <<>>
                    ELSE IF s[k].lsn > lsn THEN Append(h[k - 1], s[k]) ELSE h[k - 1]
  BY <1>2
<1>4. KeptBy(h, s, lsn)
  <2> HIDE DEF h
  <2>1. h = [k \in 0 .. Len(s) |-> h[k]]
    BY DEF h
  <2>2. QED
    BY <1>3, <2>1 DEF KeptBy
<1>5. KeptBy(f, s, lsn)
  BY <1>4
<1> HIDE DEF f, h
<1>6. /\ f[0] = <<>>
      /\ \A k \in 1 .. Len(s) :
            f[k] = IF s[k].lsn > lsn THEN Append(f[k - 1], s[k]) ELSE f[k - 1]
  <2>1. \A k \in 0 .. Len(s) :
           f[k] = IF k = 0 THEN <<>>
                  ELSE IF s[k].lsn > lsn THEN Append(f[k - 1], s[k]) ELSE f[k - 1]
    BY <1>5, Zenon DEF KeptBy
  <2>2. 0 \in 0 .. Len(s) /\ \A k \in 1 .. Len(s) : k \in 0 .. Len(s) /\ k # 0
    BY <1>2
  <2>3. QED
    BY <2>1, <2>2
<1>7. f[0] = g[0] /\ \A k \in 1 .. Len(s) : f[k - 1] = g[k - 1] => f[k] = g[k]
  BY <1>6
<1>8. \A k \in 0 .. Len(s) : f[k] = g[k]
  BY ONLY <1>2, <1>7, RecursionUnique
<1>9. QED
  BY <1>1, <1>2, <1>8

\* The filter has such a function.
LEMMA AboveSteps ==
    ASSUME NEW s \in Seq(Entry), NEW lsn
    PROVE  \E g \in [0 .. Len(s) -> Seq(Entry)] :
              /\ g[0] = <<>> /\ Above(s, lsn) = g[Len(s)]
              /\ \A k \in 1 .. Len(s) :
                    g[k] = IF s[k].lsn > lsn THEN Append(g[k - 1], s[k]) ELSE g[k - 1]
<1> DEFINE n == Len(s)
           V == Seq(Entry)
           base == <<>>
           h == [k \in 1 .. n |-> [v \in V |-> IF s[k].lsn > lsn THEN Append(v, s[k]) ELSE v]]
<1>1. n \in Nat /\ base \in V /\ \A k \in 1 .. n : s[k] \in Entry
  OBVIOUS
<1>2. h \in [1 .. n -> [V -> V]]
  BY <1>1
<1>3. \A k \in 1 .. n, v \in V : h[k][v] = IF s[k].lsn > lsn THEN Append(v, s[k]) ELSE v
  OBVIOUS
<1> HIDE DEF h, V, n, base
<1>4. PICK g : SolvedBy(g, V, base, n, h)
  <2>1. h \in StepsOn(V, n)
    BY <1>2 DEF StepsOn
  <2>2. QED
    BY <1>1, <2>1, Recursion
<1>5. g \in [0 .. n -> V] /\ g[0] = base /\ \A k \in 1 .. n : g[k] = h[k][g[k - 1]]
  BY <1>4 DEF SolvedBy
<1>6. \A k \in 1 .. n : g[k - 1] \in V
  BY <1>1, <1>5
<1>7. \A k \in 1 .. n :
         g[k] = IF s[k].lsn > lsn THEN Append(g[k - 1], s[k]) ELSE g[k - 1]
  BY <1>3, <1>5, <1>6
<1>8. Above(s, lsn) = g[n]
  BY <1>5, <1>7, AboveIs DEF n, base
<1>9. QED
  BY <1>5, <1>7, <1>8 DEF V, n, base

\* Nothing is above any LSN in an empty log.
LEMMA AboveEmpty ==
    ASSUME NEW lsn
    PROVE  Above(<<>>, lsn) = <<>>
<1> DEFINE g == [k \in 0 .. 0 |-> <<>>]
           s == <<>>
<1>1. s \in Seq(Entry) /\ Len(s) = 0 /\ g[0] = <<>>
  OBVIOUS
<1> HIDE DEF g, s
<1>2. \A k \in 1 .. Len(s) :
         g[k] = IF s[k].lsn > lsn THEN Append(g[k - 1], s[k]) ELSE g[k - 1]
  BY <1>1
<1>3. Above(s, lsn) = g[Len(s)]
  BY <1>1, <1>2, AboveIs
<1>4. QED
  BY <1>1, <1>3 DEF s

\* An appended entry is kept if it is above.
LEMMA AboveAppend ==
    ASSUME NEW s \in Seq(Entry), NEW e \in Entry, NEW lsn
    PROVE  Above(Append(s, e), lsn) = IF e.lsn > lsn THEN Append(Above(s, lsn), e)
                                      ELSE Above(s, lsn)
<1> DEFINE n == Len(s)
           t == Append(s, e)
<1>1. PICK g \in [0 .. n -> Seq(Entry)] :
              /\ g[0] = <<>> /\ Above(s, lsn) = g[n]
              /\ \A k \in 1 .. n :
                    g[k] = IF s[k].lsn > lsn THEN Append(g[k - 1], s[k]) ELSE g[k - 1]
  BY AboveSteps
<1>2. /\ n \in Nat /\ t \in Seq(Entry) /\ Len(t) = n + 1 /\ t[n + 1] = e
      /\ \A k \in 1 .. n : t[k] = s[k]
  OBVIOUS
<1> HIDE DEF n, t
<1> DEFINE last == IF e.lsn > lsn THEN Append(g[n], e) ELSE g[n]
           f == [k \in 0 .. n + 1 |-> IF k = n + 1 THEN last ELSE g[k]]
<1>3. /\ f[0] = <<>> /\ f[n + 1] = last /\ \A k \in 0 .. n : f[k] = g[k]
  BY <1>1, <1>2
<1> HIDE DEF f
<1>4. ASSUME NEW k \in 1 .. n + 1
      PROVE  f[k] = IF t[k].lsn > lsn THEN Append(f[k - 1], t[k]) ELSE f[k - 1]
  <2>1. CASE k = n + 1
    BY <1>2, <1>3, <2>1
  <2>2. CASE k # n + 1
    <3>1. k \in 1 .. n /\ k \in 0 .. n /\ k - 1 \in 0 .. n
      BY <1>2, <2>2
    <3>2. QED
      BY <1>1, <1>2, <1>3, <3>1
  <2>3. QED
    BY <2>1, <2>2
<1> HIDE DEF last
<1>5. Above(t, lsn) = f[n + 1]
  BY <1>2, <1>3, <1>4, AboveIs
<1>6. QED
  BY <1>1, <1>3, <1>5 DEF t, last

\* LSNs go up along a sequence of entries.
Ordered(s) == \A i, j \in 1 .. Len(s) : i < j => s[i].lsn < s[j].lsn

Below(es, n) == \A e \in es : e.lsn < n

\* The fields of an entry.
LEMMA EntryType ==
    ASSUME NEW e \in Entry
    PROVE  e.lsn \in Nat /\ e.op \in AllOps /\ e.op.c \in Collections
BY OpCollection DEF Entry

\* An empty log has no entries.
LEMMA ToSetEmpty == ToSet(<<>>) = {}
BY DEF ToSet

\* The entries of a log, of an extended one and of two in a row.
LEMMA ToSetFacts ==
    ASSUME NEW s \in Seq(Entry)
    PROVE  /\ ToSet(s) = {s[k] : k \in 1 .. Len(s)} /\ ToSet(s) \in SUBSET Entry
           /\ IsFiniteSet(ToSet(s))
           /\ \A e \in Entry : ToSet(Append(s, e)) = ToSet(s) \cup {e}
           /\ \A t \in Seq(Entry) : ToSet(s \o t) = ToSet(s) \cup ToSet(t)
<1>1. ToSet(s) = {s[k] : k \in 1 .. Len(s)} /\ ToSet(s) \in SUBSET Entry
  BY DEF ToSet
<1>2. IsFiniteSet(ToSet(s))
  <2>1. 1 \in Int /\ Len(s) \in Int
    OBVIOUS
  <2>2. IsFiniteSet(1 .. Len(s))
    BY ONLY <2>1, FS_Interval
  <2>3. s = [k \in 1 .. Len(s) |-> s[k]]
    OBVIOUS
  <2>4. IsFiniteSet({s[k] : k \in 1 .. Len(s)})
    BY ONLY <2>2, <2>3, FiniteImage
  <2>5. QED
    BY <1>1, <2>4
<1>3. ASSUME NEW t \in Seq(Entry)
      PROVE  ToSet(s \o t) = ToSet(s) \cup ToSet(t)
  <2> DEFINE u == s \o t
  <2>1. /\ Len(s) \in Nat /\ Len(t) \in Nat /\ Len(u) = Len(s) + Len(t) /\ u \in Seq(Entry)
        /\ \A k \in 1 .. Len(s) : u[k] = s[k]
        /\ \A k \in 1 .. Len(t) : u[Len(s) + k] = t[k]
    OBVIOUS
  <2>2. ToSet(u) = {u[k] : k \in 1 .. Len(u)} /\ ToSet(t) = {t[k] : k \in 1 .. Len(t)}
    BY DEF ToSet
  <2> HIDE DEF u
  <2>3. ASSUME NEW x \in ToSet(u)
        PROVE  x \in ToSet(s) \cup ToSet(t)
    <3>1. PICK k \in 1 .. Len(u) : x = u[k]
      BY <2>2
    <3>2. CASE k <= Len(s)
      BY <1>1, <2>1, <3>1, <3>2
    <3>3. CASE ~(k <= Len(s))
      <4>1. k - Len(s) \in 1 .. Len(t) /\ k = Len(s) + (k - Len(s))
        BY <2>1, <3>3
      <4>2. QED
        BY <2>1, <2>2, <3>1, <4>1
    <3>4. QED
      BY <3>2, <3>3
  <2>4. ASSUME NEW x \in ToSet(s)
        PROVE  x \in ToSet(u)
    BY <1>1, <2>1, <2>2
  <2>5. ASSUME NEW x \in ToSet(t)
        PROVE  x \in ToSet(u)
    <3>1. PICK k \in 1 .. Len(t) : x = t[k]
      BY <2>2
    <3>2. Len(s) + k \in 1 .. Len(u)
      BY <2>1
    <3>3. QED
      BY <2>1, <2>2, <3>1, <3>2
  <2>6. QED
    BY <2>3, <2>4, <2>5 DEF u
<1>4. ASSUME NEW e \in Entry
      PROVE  ToSet(Append(s, e)) = ToSet(s) \cup {e}
  <2>1. Append(s, e) = s \o <<e>> /\ <<e>> \in Seq(Entry)
    OBVIOUS
  <2>2. ToSet(<<e>>) = {e}
    BY DEF ToSet
  <2>3. QED
    BY <1>3, <2>1, <2>2
<1>5. QED
  BY <1>1, <1>2, <1>3, <1>4

\* Above keeps the entries above lsn and their order.
LEMMA AboveFacts ==
    ASSUME NEW s \in Seq(Entry), NEW lsn \in Nat
    PROVE  /\ Above(s, lsn) \in Seq(Entry)
           /\ ToSet(Above(s, lsn)) = {e \in ToSet(s) : e.lsn > lsn}
           /\ Ordered(s) => Ordered(Above(s, lsn))
<1> DEFINE G == {t \in Seq(Entry) :
                    /\ Above(t, lsn) \in Seq(Entry)
                    /\ ToSet(Above(t, lsn)) = {e \in ToSet(t) : e.lsn > lsn}
                    /\ Ordered(t) => Ordered(Above(t, lsn))}
<1>1. <<>> \in G
  <2>1. Above(<<>>, lsn) = <<>> /\ ToSet(<<>>) = {}
    BY AboveEmpty, ToSetEmpty
  <2>2. Ordered(<<>>) /\ <<>> \in Seq(Entry)
    BY DEF Ordered
  <2>3. {e \in ToSet(<<>>) : e.lsn > lsn} = {}
    BY <2>1
  <2>4. QED
    BY <2>1, <2>2, <2>3, Zenon
<1>2. ASSUME NEW t \in Seq(Entry), NEW e \in Entry, t \in G
      PROVE  Append(t, e) \in G
  <2> DEFINE u == Append(t, e)
             a == Above(t, lsn)
  <2>1. /\ a \in Seq(Entry) /\ ToSet(a) = {x \in ToSet(t) : x.lsn > lsn}
        /\ Ordered(t) => Ordered(a)
    BY <1>2
  <2>2. /\ u \in Seq(Entry) /\ Len(u) = Len(t) + 1 /\ Len(t) \in Nat /\ u[Len(t) + 1] = e
        /\ \A k \in 1 .. Len(t) : u[k] = t[k]
    OBVIOUS
  <2>3. Above(u, lsn) = IF e.lsn > lsn THEN Append(a, e) ELSE a
    BY AboveAppend
  <2>4. ToSet(u) = ToSet(t) \cup {e} /\ ToSet(Append(a, e)) = ToSet(a) \cup {e}
    BY <2>1, ToSetFacts
  <2>5. ToSet(t) = {t[k] : k \in 1 .. Len(t)} /\ ToSet(a) = {a[k] : k \in 1 .. Len(a)}
    BY <2>1, ToSetFacts
  <2> HIDE DEF u, a
  <2>6. ASSUME Ordered(u)
        PROVE  Ordered(t) /\ \A x \in ToSet(t) : x.lsn < e.lsn
    <3>1. \A i, j \in 1 .. Len(t) : i < j => t[i].lsn < t[j].lsn
      BY <2>2, <2>6 DEF Ordered
    <3>2. \A k \in 1 .. Len(t) : t[k].lsn < e.lsn
      BY <2>2, <2>6 DEF Ordered
    <3>3. QED
      BY <2>5, <3>1, <3>2 DEF Ordered
  <2>7. ASSUME Ordered(u), e.lsn > lsn
        PROVE  Ordered(Append(a, e))
    <3>1. Ordered(a) /\ \A k \in 1 .. Len(a) : a[k].lsn < e.lsn
      BY <2>1, <2>5, <2>6, <2>7
    <3>2. /\ Len(a) \in Nat /\ Len(Append(a, e)) = Len(a) + 1 /\ Append(a, e)[Len(a) + 1] = e
          /\ \A k \in 1 .. Len(a) : Append(a, e)[k] = a[k]
      BY <2>1
    <3> DEFINE b == Append(a, e)
    <3> HIDE DEF b
    <3>3. /\ Len(a) \in Nat /\ Len(b) = Len(a) + 1 /\ b[Len(a) + 1] = e
          /\ \A k \in 1 .. Len(a) : b[k] = a[k]
      BY <3>2 DEF b
    <3>4. ASSUME NEW i \in 1 .. Len(b), NEW j \in 1 .. Len(b), i < j
          PROVE  b[i].lsn < b[j].lsn
      <4>1. i \in 1 .. Len(a) /\ (j = Len(a) + 1 \/ j \in 1 .. Len(a))
        BY <3>3, <3>4
      <4>2. QED
        BY <3>1, <3>3, <3>4, <4>1 DEF Ordered
    <3>5. QED
      BY <3>4 DEF Ordered, b
  <2>8. CASE e.lsn > lsn
    <3>1. Append(a, e) \in Seq(Entry)
      BY <2>1
    <3>2. QED
      BY <2>1, <2>2, <2>3, <2>4, <2>7, <2>8, <3>1 DEF u
  <2>9. CASE ~(e.lsn > lsn)
    BY <2>1, <2>2, <2>3, <2>4, <2>6, <2>9 DEF u
  <2>10. QED
    BY <2>8, <2>9
<1> HIDE DEF G
<1>3. s \in G
  BY <1>1, <1>2, SeqInduction
<1>4. QED
  BY <1>3 DEF G

\* What the entries of t add when all of them are above lsn.
LEMMA AboveConcat ==
    ASSUME NEW s \in Seq(Entry), NEW t \in Seq(Entry), NEW lsn \in Nat,
           \A e \in ToSet(t) : e.lsn > lsn
    PROVE  Above(s \o t, lsn) = Above(s, lsn) \o t
<1> DEFINE G == {u \in Seq(Entry) : (\A e \in ToSet(u) : e.lsn > lsn)
                                       => Above(s \o u, lsn) = Above(s, lsn) \o u}
<1>0. Above(s, lsn) \in Seq(Entry)
  BY AboveFacts
<1>1. <<>> \in G
  <2>1. s \o <<>> = s /\ Above(s, lsn) \o <<>> = Above(s, lsn) /\ <<>> \in Seq(Entry)
    BY <1>0
  <2>2. QED
    BY <2>1, Zenon
<1>2. ASSUME NEW u \in Seq(Entry), NEW e \in Entry, u \in G
      PROVE  Append(u, e) \in G
  <2>0. Append(u, e) \in Seq(Entry)
    OBVIOUS
  <2> SUFFICES ASSUME \A x \in ToSet(Append(u, e)) : x.lsn > lsn
               PROVE  Above(s \o Append(u, e), lsn) = Above(s, lsn) \o Append(u, e)
    BY <2>0, Zenon
  <2>1. ToSet(Append(u, e)) = ToSet(u) \cup {e}
    BY ToSetFacts
  <2>2. e.lsn > lsn /\ Above(s \o u, lsn) = Above(s, lsn) \o u
    BY <1>2, <2>1
  <2>3. s \o Append(u, e) = Append(s \o u, e) /\ s \o u \in Seq(Entry)
    OBVIOUS
  <2>4. Above(s, lsn) \o Append(u, e) = Append(Above(s, lsn) \o u, e)
    BY <1>0
  <2>5. Above(Append(s \o u, e), lsn) = Append(Above(s \o u, lsn), e)
    BY <2>2, <2>3, AboveAppend
  <2>6. QED
    BY <2>2, <2>3, <2>4, <2>5
<1> HIDE DEF G
<1>3. t \in G
  BY <1>1, <1>2, SeqInduction
<1>4. QED
  BY <1>3 DEF G

\* Dropping the entries up to b first makes no difference when none of them
\* is above a.
LEMMA AboveAbove ==
    ASSUME NEW s \in Seq(Entry), NEW a \in Nat, NEW b \in Nat,
           \A e \in ToSet(s) : e.lsn <= b => e.lsn <= a
    PROVE  Above(Above(s, b), a) = Above(s, a)
<1> DEFINE G == {u \in Seq(Entry) : (\A e \in ToSet(u) : e.lsn <= b => e.lsn <= a)
                                       => Above(Above(u, b), a) = Above(u, a)}
<1>1. <<>> \in G
  <2>1. Above(<<>>, b) = <<>> /\ Above(<<>>, a) = <<>> /\ <<>> \in Seq(Entry)
    BY AboveEmpty
  <2>2. QED
    BY <2>1, Zenon
<1>2. ASSUME NEW u \in Seq(Entry), NEW e \in Entry, u \in G
      PROVE  Append(u, e) \in G
  <2> SUFFICES ASSUME \A x \in ToSet(Append(u, e)) : x.lsn <= b => x.lsn <= a
               PROVE  Above(Above(Append(u, e), b), a) = Above(Append(u, e), a)
    OBVIOUS
  <2>1. ToSet(Append(u, e)) = ToSet(u) \cup {e}
    BY ToSetFacts
  <2>2. /\ e.lsn <= b => e.lsn <= a
        /\ Above(Above(u, b), a) = Above(u, a)
    BY <1>2, <2>1
  <2>3. Above(u, b) \in Seq(Entry) /\ e.lsn \in Nat
    BY AboveFacts, EntryType
  <2>4. /\ Above(Append(u, e), b) = IF e.lsn > b THEN Append(Above(u, b), e) ELSE Above(u, b)
        /\ Above(Append(u, e), a) = IF e.lsn > a THEN Append(Above(u, a), e) ELSE Above(u, a)
    BY AboveAppend
  <2>5. Above(Append(Above(u, b), e), a)
           = IF e.lsn > a THEN Append(Above(Above(u, b), a), e) ELSE Above(Above(u, b), a)
    BY <2>3, AboveAppend
  <2>6. CASE e.lsn > b
    BY <2>2, <2>4, <2>5, <2>6
  <2>7. CASE ~(e.lsn > b)
    BY <2>2, <2>3, <2>4, <2>7
  <2>8. QED
    BY <2>6, <2>7
<1> HIDE DEF G
<1>3. s \in G
  BY <1>1, <1>2, SeqInduction
<1>4. QED
  BY <1>3 DEF G

\* f holds the stores that replaying the entries of es goes through.
ReplayedBy(f, store, es) ==
    f = [k \in 0 .. Len(es) |-> IF k = 0 THEN store ELSE ReplayOp(f[k - 1], es[k].op)]

\* A function that replays step by step is the replay.
LEMMA ReplayedIs ==
    ASSUME NEW store, NEW es \in Seq(Entry), NEW g, g[0] = store,
           \A k \in 1 .. Len(es) : g[k] = ReplayOp(g[k - 1], es[k].op)
    PROVE  Replayed(store, es) = g[Len(es)]
<1> DEFINE f == CHOOSE f : ReplayedBy(f, store, es)
           h == [k \in 0 .. Len(es) |-> g[k]]
<1>1. Replayed(store, es) = f[Len(es)]
  BY DEF Replayed, ReplayedBy
<1>2. Len(es) \in Nat
  OBVIOUS
<1>3. ASSUME NEW k \in 0 .. Len(es)
      PROVE  h[k] = IF k = 0 THEN store ELSE ReplayOp(h[k - 1], es[k].op)
  BY <1>2
<1>4. ReplayedBy(h, store, es)
  <2> HIDE DEF h
  <2>1. h = [k \in 0 .. Len(es) |-> h[k]]
    BY DEF h
  <2>2. QED
    BY <1>3, <2>1 DEF ReplayedBy
<1>5. ReplayedBy(f, store, es)
  BY <1>4
<1> HIDE DEF f, h
<1>6. f[0] = store /\ \A k \in 1 .. Len(es) : f[k] = ReplayOp(f[k - 1], es[k].op)
  <2>1. \A k \in 0 .. Len(es) : f[k] = IF k = 0 THEN store ELSE ReplayOp(f[k - 1], es[k].op)
    BY <1>5, Zenon DEF ReplayedBy
  <2>2. 0 \in 0 .. Len(es) /\ \A k \in 1 .. Len(es) : k \in 0 .. Len(es) /\ k # 0
    BY <1>2
  <2>3. QED
    BY <2>1, <2>2
<1>7. f[0] = g[0] /\ \A k \in 1 .. Len(es) : f[k - 1] = g[k - 1] => f[k] = g[k]
  BY <1>6
<1>8. \A k \in 0 .. Len(es) : f[k] = g[k]
  BY ONLY <1>2, <1>7, RecursionUnique
<1>9. QED
  BY <1>1, <1>2, <1>8

\* The replay has such a function.
LEMMA ReplayedSteps ==
    ASSUME NEW store \in Store, NEW es \in Seq(Entry)
    PROVE  \E g \in [0 .. Len(es) -> Store] :
              /\ g[0] = store /\ Replayed(store, es) = g[Len(es)]
              /\ \A k \in 1 .. Len(es) : g[k] = ReplayOp(g[k - 1], es[k].op)
<1> DEFINE n == Len(es)
           V == Store
           base == store
           h == [k \in 1 .. n |-> [v \in V |-> ReplayOp(v, es[k].op)]]
<1>1. n \in Nat /\ base \in V /\ \A k \in 1 .. n : es[k] \in Entry
  OBVIOUS
<1>2. h \in [1 .. n -> [V -> V]]
  BY <1>1, EntryType, ReplayType
<1>3. \A k \in 1 .. n, v \in V : h[k][v] = ReplayOp(v, es[k].op)
  BY Zenon
<1> HIDE DEF h, n, V, base
<1>4. PICK g : SolvedBy(g, V, base, n, h)
  <2>1. h \in StepsOn(V, n)
    BY <1>2 DEF StepsOn
  <2>2. QED
    BY <1>1, <2>1, Recursion
<1>5. g \in [0 .. n -> V] /\ g[0] = base /\ \A k \in 1 .. n : g[k] = h[k][g[k - 1]]
  BY <1>4 DEF SolvedBy
<1>6. \A k \in 1 .. n : g[k - 1] \in V
  BY <1>1, <1>5
<1>7. \A k \in 1 .. n : g[k] = ReplayOp(g[k - 1], es[k].op)
  BY <1>3, <1>5, <1>6
<1>8. Replayed(store, es) = g[n]
  BY <1>5, <1>7, ReplayedIs DEF n, base
<1>9. QED
  BY <1>5, <1>7, <1>8 DEF n, V, base

\* Replay leaves a store.
LEMMA ReplayedType ==
    ASSUME NEW store \in Store, NEW es \in Seq(Entry)
    PROVE  Replayed(store, es) \in Store
<1>1. PICK g \in [0 .. Len(es) -> Store] : Replayed(store, es) = g[Len(es)]
  BY ReplayedSteps
<1>2. Len(es) \in 0 .. Len(es)
  OBVIOUS
<1>3. QED
  BY <1>1, <1>2

\* Nothing to replay changes nothing.
LEMMA ReplayedEmpty ==
    ASSUME NEW store \in Store
    PROVE  Replayed(store, <<>>) = store
<1> DEFINE es == <<>>
<1>1. es \in Seq(Entry) /\ Len(es) = 0
  OBVIOUS
<1> HIDE DEF es
<1>2. PICK g \in [0 .. Len(es) -> Store] : g[0] = store /\ Replayed(store, es) = g[Len(es)]
  BY <1>1, ReplayedSteps
<1>3. QED
  BY <1>1, <1>2 DEF es

\* Replaying t after s is going on from where s leaves the store.
LEMMA ReplayedConcat ==
    ASSUME NEW store \in Store, NEW s \in Seq(Entry), NEW t \in Seq(Entry)
    PROVE  Replayed(store, s \o t) = Replayed(Replayed(store, s), t)
<1> DEFINE n == Len(s)
           m == Len(t)
           u == s \o t
           mid == Replayed(store, s)
<1>1. /\ n \in Nat /\ m \in Nat /\ u \in Seq(Entry) /\ Len(u) = n + m
      /\ \A k \in 1 .. n : u[k] = s[k]
      /\ \A k \in n + 1 .. n + m : u[k] = t[k - n]
  OBVIOUS
<1>2. mid \in Store
  BY ReplayedType
<1>3. PICK g \in [0 .. n -> Store] :
              /\ g[0] = store /\ mid = g[n]
              /\ \A k \in 1 .. n : g[k] = ReplayOp(g[k - 1], s[k].op)
  BY ReplayedSteps
<1> HIDE DEF mid
<1>4. PICK h \in [0 .. m -> Store] :
              /\ h[0] = mid /\ Replayed(mid, t) = h[m]
              /\ \A k \in 1 .. m : h[k] = ReplayOp(h[k - 1], t[k].op)
  BY <1>2, ReplayedSteps
<1> HIDE DEF n, m, u
<1> DEFINE f == [k \in 0 .. n + m |-> IF k <= n THEN g[k] ELSE h[k - n]]
<1>5. /\ f[0] = store /\ f[n + m] = h[m]
      /\ \A k \in 0 .. n : f[k] = g[k]
      /\ \A k \in n .. n + m : f[k] = h[k - n]
  BY <1>1, <1>3, <1>4
<1> HIDE DEF f
<1>6. ASSUME NEW k \in 1 .. n + m
      PROVE  f[k] = ReplayOp(f[k - 1], u[k].op)
  <2>1. CASE k <= n
    <3>1. k \in 1 .. n /\ k \in 0 .. n /\ k - 1 \in 0 .. n
      BY <1>1, <2>1
    <3>2. QED
      BY <1>1, <1>3, <1>5, <3>1
  <2>2. CASE ~(k <= n)
    <3>1. /\ k \in n + 1 .. n + m /\ k \in n .. n + m /\ k - 1 \in n .. n + m
          /\ k - n \in 1 .. m /\ (k - 1) - n = (k - n) - 1
      BY <1>1, <2>2
    <3>2. u[k] = t[k - n]
      BY <1>1, <3>1
    <3>3. f[k] = h[k - n] /\ f[k - 1] = h[(k - n) - 1]
      BY <1>5, <3>1
    <3>4. h[k - n] = ReplayOp(h[(k - n) - 1], t[k - n].op)
      BY <1>4, <3>1
    <3>5. QED
      BY <3>2, <3>3, <3>4
  <2>3. QED
    BY <2>1, <2>2
<1>7. Replayed(store, u) = f[n + m]
  <2>1. \A k \in 1 .. Len(u) : f[k] = ReplayOp(f[k - 1], u[k].op)
    BY <1>1, <1>6
  <2>2. Replayed(store, u) = f[Len(u)]
    BY <1>1, <1>5, <2>1, ReplayedIs
  <2>3. QED
    BY <1>1, <2>2
<1>8. QED
  BY <1>4, <1>5, <1>7 DEF mid, u, m

\* The entries of a request are in order and take the LSNs from `first' on.
LEMMA EntriesFacts ==
    ASSUME NEW first \in Nat, NEW ops \in Singles \cup Batches
    PROVE  /\ Entries(first, ops) \in Seq(Entry) /\ Len(Entries(first, ops)) = Len(ops)
           /\ Len(ops) \in Nat /\ Len(ops) > 0
           /\ Ordered(Entries(first, ops))
           /\ \A e \in ToSet(Entries(first, ops)) : first <= e.lsn /\ e.lsn < first + Len(ops)
           /\ \A k \in 1 .. Len(ops) : Entries(first, ops)[k].op = ops[k]
<1> DEFINE es == Entries(first, ops)
           n == Len(ops)
<1>1. ops \in Seq(AllOps) /\ n \in Nat \ {0} /\ \A k \in 1 .. n : ops[k] \in AllOps
  BY RequestType
<1>2. es = [k \in 1 .. n |-> [lsn |-> first + k - 1, op |-> ops[k]]]
  BY DEF Entries
<1> HIDE DEF es, n
<1>3. \A k \in 1 .. n : first + k - 1 \in Nat
  BY <1>1
<1>4. \A k \in 1 .. n : es[k] = [lsn |-> first + k - 1, op |-> ops[k]]
  BY <1>2
<1>5. ASSUME NEW k \in 1 .. n
      PROVE  es[k] \in Entry
  <2>1. \A i \in Nat, op \in AllOps : [lsn |-> i, op |-> op] \in Entry
    BY DEF Entry
  <2>2. QED
    BY <1>1, <1>3, <1>4, <2>1
<1>6. es \in Seq(Entry) /\ Len(es) = n
  BY <1>1, <1>2, <1>5
<1>7. ASSUME NEW k \in 1 .. n
      PROVE  es[k].lsn = first + k - 1 /\ es[k].op = ops[k]
  <2> DEFINE i == first + k - 1
             o == ops[k]
             e == es[k]
  <2>1. e = [lsn |-> i, op |-> o]
    BY <1>4
  <2> HIDE DEF i, o, e
  <2>2. e.lsn = i /\ e.op = o
    BY <2>1
  <2>3. QED
    BY <2>2 DEF e, i, o
<1>8. Ordered(es)
  BY <1>1, <1>6, <1>7 DEF Ordered
<1>9. ToSet(es) = {es[k] : k \in 1 .. n}
  BY <1>6, ToSetFacts
<1>10. \A e \in ToSet(es) : first <= e.lsn /\ e.lsn < first + n
  BY <1>1, <1>7, <1>9
<1>11. QED
  BY <1>1, <1>6, <1>7, <1>8, <1>10 DEF es, n

\* Replaying the entries of a request does what the request did.
LEMMA ReplayedRequest ==
    ASSUME NEW store \in Store, NEW first \in Nat, NEW ops \in Singles \cup Batches
    PROVE  Replayed(store, Entries(first, ops)) = Upto(store, ops, Len(ops))
<1> DEFINE es == Entries(first, ops)
           n == Len(ops)
<1>1. /\ es \in Seq(Entry) /\ Len(es) = n /\ n \in Nat /\ n > 0
      /\ \A k \in 1 .. n : es[k].op = ops[k]
  BY EntriesFacts
<1>2. PICK g : Walk(ops, g, n) /\ g[0] = store /\ (n > 0 => g[n] = Upto(store, ops, n))
  BY <1>1, RequestWalk
<1> HIDE DEF es, n
<1>3. \A k \in 1 .. n : g[k] = ReplayOp(g[k - 1], es[k].op)
  BY <1>1, <1>2 DEF Walk
<1>4. Replayed(store, es) = g[n]
  BY <1>1, <1>2, <1>3, ReplayedIs
<1>5. QED
  BY <1>1, <1>2, <1>4 DEF es, n

\* The row operations keep a collection a collection.
LEMMA RowAfterType ==
    ASSUME NEW col \in Collection, NEW op \in AllOps, IsRowOp(op),
           op.kind = "insert" => op.vec # BadVec
    PROVE  CollectionAfter(col, op) \in Collection
<1>1. CASE op \in InsertOps
  <2>1. op.id \in Ids /\ op.vec \in Vecs /\ op.kind = "insert"
    BY <1>1 DEF InsertOps
  <2>2. UpsertRow(col.rows[op.id], op.vec, op.pay) \in Row
    BY <1>1, <2>1 DEF UpsertRow, Row, Collection, InsertOps
  <2>3. QED
    BY <2>1, <2>2 DEF CollectionAfter, Collection
<1>2. CASE op \in DeleteOps
  BY <1>2 DEF CollectionAfter, DeleteOps, Collection
<1>3. QED
  BY <1>1, <1>2 DEF AllOps, IsRowOp, CreateOps, DropOps, EnableOps, BindOps

\* f holds what the rows applied so far make of the collection.
StagedBy(f, col, rows) ==
    f = [k \in 0 .. Len(rows) |-> IF k = 0 THEN col
            ELSE IF rows[k].op.kind = "insert" /\ rows[k].op.vec = BadVec THEN f[k - 1]
            ELSE CollectionAfter(f[k - 1], rows[k].op)]

\* Staged rows applied to a collection leave a collection.
LEMMA StagedType ==
    ASSUME NEW col \in Collection, NEW rows \in Seq(Entry),
           \A k \in 1 .. Len(rows) : IsRowOp(rows[k].op)
    PROVE  Staged(col, rows) \in Collection
<1> DEFINE n == Len(rows)
           V == Collection
           base == col
           Applied(k, v) == IF rows[k].op.kind = "insert" /\ rows[k].op.vec = BadVec THEN v
                            ELSE CollectionAfter(v, rows[k].op)
           h == [k \in 1 .. n |-> [v \in V |-> Applied(k, v)]]
           f == CHOOSE f : StagedBy(f, col, rows)
<1>1. n \in Nat /\ base \in V /\ \A k \in 1 .. n : rows[k].op \in AllOps
  BY EntryType
<1>2. \A k \in 1 .. n, v \in V : Applied(k, v) \in V
  BY <1>1, RowAfterType
<1>3. h \in StepsOn(V, n)
  <2> HIDE DEF Applied
  <2>1. QED
    BY <1>2 DEF StepsOn
<1>4. \A k \in 1 .. n, v \in V : h[k][v] = Applied(k, v)
  BY Zenon
<1>5. Staged(col, rows) = f[n]
  BY DEF Staged, StagedBy
<1> HIDE DEF h, n, V, base, Applied
<1>6. PICK g : SolvedBy(g, V, base, n, h)
  BY <1>1, <1>3, Recursion
<1>7. /\ g \in [0 .. n -> V] /\ g[0] = base
      /\ \A k \in 1 .. n : g[k] = Applied(k, g[k - 1])
  <2>1. g \in [0 .. n -> V] /\ g[0] = base /\ \A k \in 1 .. n : g[k] = h[k][g[k - 1]]
    BY <1>6 DEF SolvedBy
  <2>2. \A k \in 1 .. n : g[k - 1] \in V
    BY <1>1, <2>1
  <2>3. QED
    BY <1>4, <2>1, <2>2
<1>8. g = [k \in 0 .. n |-> IF k = 0 THEN base ELSE Applied(k, g[k - 1])]
  <2>1. \A k \in 0 .. n : k = 0 \/ k \in 1 .. n
    BY <1>1
  <2>2. \A k \in 0 .. n : g[k] = IF k = 0 THEN base ELSE Applied(k, g[k - 1])
    BY <1>7, <2>1
  <2>3. QED
    BY <1>7, <2>2
<1>9. StagedBy(g, col, rows)
  BY <1>8 DEF StagedBy, Applied, base, n
<1>10. StagedBy(f, col, rows)
  BY <1>9
<1> HIDE DEF f
<1>11. f = [k \in 0 .. n |-> IF k = 0 THEN base ELSE Applied(k, f[k - 1])]
  BY <1>10 DEF StagedBy, Applied, base, n
<1>12. f[0] = base /\ \A k \in 1 .. n : f[k] = Applied(k, f[k - 1])
  <2>1. \A k \in 0 .. n : f[k] = IF k = 0 THEN base ELSE Applied(k, f[k - 1])
    BY <1>11, Zenon
  <2>2. 0 \in 0 .. n /\ \A k \in 1 .. n : k \in 0 .. n /\ k # 0
    BY <1>1
  <2>3. QED
    BY <2>1, <2>2
<1>13. f[0] = g[0] /\ \A k \in 1 .. n : f[k - 1] = g[k - 1] => f[k] = g[k]
  BY <1>7, <1>12
<1>14. \A k \in 0 .. n : f[k] = g[k]
  <2>1. n \in Nat
    BY <1>1
  <2>2. QED
    BY ONLY <2>1, <1>13, RecursionUnique
<1>15. f[n] \in V
  BY <1>1, <1>7, <1>14
<1>16. QED
  BY <1>5, <1>15 DEF V

\* The largest LSN of a finite set of entries.
LEMMA MaxLsnFacts ==
    ASSUME NEW es \in SUBSET Entry, IsFiniteSet(es), NEW least \in Nat
    PROVE  /\ MaxLsnOf(es, least) \in Nat
           /\ \A e \in es : e.lsn <= MaxLsnOf(es, least)
           /\ MaxLsnOf(es, least) = least \/ \E e \in es : e.lsn = MaxLsnOf(es, least)
<1> DEFINE f == [e \in es |-> e.lsn]
           T == {e.lsn : e \in es}
           S == T \cup {least}
<1>1. \A e \in es : e.lsn \in Nat
  BY EntryType
<1>2. IsFiniteSet(T)
  <2>1. T = {f[e] : e \in es} /\ f = [e \in es |-> f[e]]
    OBVIOUS
  <2> HIDE DEF f, T
  <2>2. IsFiniteSet({f[e] : e \in es})
    BY <2>1, FiniteImage
  <2>3. QED
    BY <2>1, <2>2
<1>3. S \in SUBSET Nat /\ S # {}
  BY <1>1
<1>4. IsFiniteSet(S)
  <2> HIDE DEF T
  <2>1. QED
    BY <1>2, FS_AddElement
<1>5. MaxLsnOf(es, least) = CHOOSE n \in S : \A m \in S : m <= n
  BY DEF MaxLsnOf
<1>6. MaxLsnOf(es, least) \in S /\ \A m \in S : m <= MaxLsnOf(es, least)
  <2> HIDE DEF S
  <2>1. \E n \in S : \A m \in S : m <= n
    BY <1>3, <1>4, LargestNatural
  <2>2. QED
    BY <1>5, <2>1
<1>7. QED
  BY <1>3, <1>6

\* Two ordered logs in a row are ordered when the LSNs of the second are higher.
LEMMA OrderedConcat ==
    ASSUME NEW s \in Seq(Entry), NEW t \in Seq(Entry), Ordered(s), Ordered(t),
           \A x \in ToSet(s), y \in ToSet(t) : x.lsn < y.lsn
    PROVE  Ordered(s \o t)
<1> DEFINE n == Len(s)
           m == Len(t)
           u == s \o t
<1>1. /\ n \in Nat /\ m \in Nat /\ Len(u) = n + m
      /\ \A k \in 1 .. n : u[k] = s[k]
      /\ \A k \in n + 1 .. n + m : u[k] = t[k - n]
  OBVIOUS
<1>2. ToSet(s) = {s[k] : k \in 1 .. n} /\ ToSet(t) = {t[k] : k \in 1 .. m}
  BY ToSetFacts
<1>3. /\ \A i, j \in 1 .. n : i < j => s[i].lsn < s[j].lsn
      /\ \A i, j \in 1 .. m : i < j => t[i].lsn < t[j].lsn
      /\ \A i \in 1 .. n, j \in 1 .. m : s[i].lsn < t[j].lsn
  BY <1>2 DEF Ordered
<1> HIDE DEF n, m, u
<1>4. ASSUME NEW i \in 1 .. Len(u), NEW j \in 1 .. Len(u), i < j
      PROVE  u[i].lsn < u[j].lsn
  <2>1. CASE j <= n
    <3>1. i \in 1 .. n /\ j \in 1 .. n
      BY <1>1, <1>4, <2>1
    <3>2. QED
      BY <1>1, <1>3, <1>4, <3>1
  <2>2. CASE i <= n /\ ~(j <= n)
    <3>1. i \in 1 .. n /\ j \in n + 1 .. n + m /\ j - n \in 1 .. m
      BY <1>1, <1>4, <2>2
    <3>2. QED
      BY <1>1, <1>3, <3>1
  <2>3. CASE ~(i <= n)
    <3>1. /\ i \in n + 1 .. n + m /\ j \in n + 1 .. n + m
          /\ i - n \in 1 .. m /\ j - n \in 1 .. m /\ i - n < j - n
      BY <1>1, <1>4, <2>3
    <3>2. QED
      BY <1>1, <1>3, <3>1
  <2>4. QED
    BY <1>1, <1>4, <2>1, <2>2, <2>3
<1>5. QED
  BY <1>4 DEF Ordered, u

\* A prefix of an ordered sequence has everything up to its largest LSN.
LEMMA PrefixFacts ==
    ASSUME NEW s \in Seq(Entry), Ordered(s), NEW n \in 1 .. Len(s)
    PROVE  /\ SubSeq(s, 1, n) \in Seq(Entry)
           /\ ToSet(SubSeq(s, 1, n)) \in SUBSET ToSet(s)
           /\ \A x \in ToSet(s), y \in ToSet(SubSeq(s, 1, n)) :
                 x.lsn <= y.lsn => x \in ToSet(SubSeq(s, 1, n))
<1> DEFINE t == SubSeq(s, 1, n)
           m == Len(s)
<1>1. t \in Seq(Entry) /\ Len(t) = n /\ m \in Nat /\ n \in Nat /\ n <= m
      /\ \A k \in 1 .. n : t[k] = s[k]
  OBVIOUS
<1>2. ToSet(s) = {s[k] : k \in 1 .. m} /\ ToSet(t) = {t[k] : k \in 1 .. n}
  BY <1>1, ToSetFacts
<1>3. \A k \in 1 .. m : s[k].lsn \in Nat
  BY EntryType
<1> HIDE DEF t, m
<1>4. \A k \in 1 .. n : k \in 1 .. m
  BY <1>1
<1>5. ASSUME NEW x \in ToSet(s), NEW y \in ToSet(t), x.lsn <= y.lsn
      PROVE  x \in ToSet(t)
  <2>1. PICK i \in 1 .. m : x = s[i]
    BY <1>2
  <2>2. PICK j \in 1 .. n : y = t[j]
    BY <1>2
  <2>3. y = s[j] /\ j \in 1 .. m
    BY <1>1, <1>4, <2>2
  <2>4. ~(j < i)
    BY <1>3, <1>5, <2>1, <2>3 DEF Ordered, m
  <2>5. i \in 1 .. n
    BY <1>1, <2>4
  <2>6. QED
    BY <1>1, <1>2, <2>1, <2>5
<1>6. ToSet(t) \in SUBSET ToSet(s)
  BY <1>1, <1>2, <1>4
<1>7. QED
  BY <1>1, <1>5, <1>6 DEF t

----------------------------------------------------------------------------
(* The inductive invariant *)

\* A process that is down holds nothing.
DownOK == ~up => unflushed = <<>> /\ pc = "idle" /\ acked = {}

\* The queue holds, in order, what is above the watermark and was appended.
QueueOK ==
    /\ Ordered(unflushed) /\ Below(ToSet(unflushed), next_lsn)
    /\ Below(acked, next_lsn) /\ opened_at <= iceberg_watermark
    /\ iceberg_watermark = opened_at \/ iceberg_watermark < next_lsn
    /\ \A e \in OwnRows : e.lsn > iceberg_watermark => e \in ToSet(unflushed)

\* A batch is all of the queue up to its largest LSN, and what no table has
\* refused of it so far is staged or still to come.
BatchOK ==
    pc # "idle" =>
        /\ Below(ToSet(batch), next_lsn)
        /\ \A e \in ToSet(unflushed) :
              e.lsn > iceberg_watermark /\ e.lsn <= BatchMaxLsn => e \in ToSet(batch)
        /\ ~flush_errors => \A e \in ToSet(batch) :
              IsRowOp(e.op) => e.op.c \in todo \/ e \in staging[e.op.c]

StagingOK ==
    \A c \in Collections : /\ IsFiniteSet(staging[c])
                           /\ \A e \in staging[c] : IsRowOp(e.op) /\ e.op.c = c

FlushInv == /\ TypeOK /\ DownOK /\ QueueOK /\ BatchOK /\ StagingOK
            /\ WatermarkHonest /\ RowsKept

\* As long as recovery is local, wal.log is in order and replays to the promise.
LocalOK ==
    index_snapshot = EmptyStore =>
        /\ Ordered(log)
        /\ up => /\ snapshot_lsn = snap.lsn /\ snap.lsn < next_lsn
                 /\ Below(ToSet(log), next_lsn)
        /\ ~hole => Replay(snap.store, snap.lsn) = promised
        /\ ~hole /\ up => mem = promised

IInv == FlushInv /\ LocalOK

----------------------------------------------------------------------------
(* Types *)

\* The store before the first call is one.
LEMMA EmptyStoreType == EmptyStore \in Store
BY DEF EmptyStore, Store

\* What flush_once collected, and its highest LSN.
LEMMA BatchFacts ==
    ASSUME TypeOK
    PROVE  /\ ToSet(batch) \in SUBSET Entry /\ IsFiniteSet(ToSet(batch))
           /\ BatchMaxLsn \in Nat /\ \A e \in ToSet(batch) : e.lsn <= BatchMaxLsn
           /\ BatchMaxLsn = 0 \/ \E e \in ToSet(batch) : e.lsn = BatchMaxLsn
<1>1. batch \in Seq(Entry)
  BY DEF TypeOK
<1>2. ToSet(batch) \in SUBSET Entry /\ IsFiniteSet(ToSet(batch))
  BY <1>1, ToSetFacts
<1>3. QED
  BY <1>2, MaxLsnFacts DEF BatchMaxLsn

\* The rows of a batch that go to one staging table.
LEMMA RowsForFacts ==
    ASSUME TypeOK, NEW c \in Collections
    PROVE  /\ RowsFor(c) \in SUBSET Entry /\ IsFiniteSet(RowsFor(c))
           /\ MaxLsnOf(RowsFor(c), 0) \in Nat
           /\ \A e \in RowsFor(c) : IsRowOp(e.op) /\ e.op.c = c
<1>1. RowsFor(c) \in SUBSET ToSet(batch)
  BY DEF RowsFor
<1>2. RowsFor(c) \in SUBSET Entry /\ IsFiniteSet(RowsFor(c))
  BY <1>1, BatchFacts, FS_Subset
<1>3. MaxLsnOf(RowsFor(c), 0) \in Nat
  BY <1>2, MaxLsnFacts
<1>4. QED
  BY <1>2, <1>3 DEF RowsFor

\* What a reopened manager takes from wal.log.
LEMMA OpenedType ==
    ASSUME TypeOK, NEW store \in Store, NEW above \in Nat
    PROVE  Replay(store, above) \in Store /\ NextLsn(above) \in Nat \ {0}
<1> DEFINE es == Above(log, above)
<1>1. es \in Seq(Entry)
  BY AboveFacts DEF TypeOK
<1>2. Replay(store, above) \in Store
  BY <1>1, ReplayedType DEF Replay
<1>3. NextLsn(above) = IF es = <<>> THEN above + 1 ELSE es[Len(es)].lsn + 1
  BY DEF NextLsn, Last
<1> HIDE DEF es
<1>4. ASSUME es # <<>>
      PROVE  es[Len(es)].lsn \in Nat
  <2>1. Len(es) \in 1 .. Len(es)
    BY <1>1, <1>4
  <2>2. es[Len(es)] \in Entry
    BY <1>1, <2>1
  <2>3. QED
    BY <2>2, EntryType
<1>5. QED
  BY <1>2, <1>3, <1>4

\* The rows read back for a collection that has an index snapshot.
LEMMA PendingType ==
    ASSUME TypeOK, StagingOK, NEW c \in Collections, NEW s \in PendingOrders(c)
    PROVE  s \in Seq(Entry) /\ \A k \in 1 .. Len(s) : IsRowOp(s[k].op)
<1> DEFINE S == staging[c]
           n == Cardinality(S)
<1>1. S \in SUBSET Entry /\ IsFiniteSet(S) /\ \A e \in S : IsRowOp(e.op)
  BY DEF TypeOK, StagingOK
<1>2. n \in Nat
  BY <1>1, FS_CardinalityType
<1>3. s \in [1 .. n -> S]
  BY DEF PendingOrders, SetToSeqs
<1> HIDE DEF S, n
<1>4. s \in Seq(Entry) /\ Len(s) = n
  BY <1>1, <1>2, <1>3
<1>5. QED
  BY <1>1, <1>3, <1>4

\* What open_with_iceberg starts from.
LEMMA IcebergStart ==
    ASSUME TypeOK, StagingOK, index_snapshot # EmptyStore,
           NEW names, names = {c \in Collections : index_snapshot[c] # Absent},
           NEW order, \A c \in names : order[c] \in PendingOrders(c),
           NEW wms, wms = {last_wal_lsn[c] : c \in names}
    PROVE  /\ [c \in Collections |-> IF c \in names
                  THEN Staged(index_snapshot[c], order[c]) ELSE Absent] \in Store
           /\ (CHOOSE n \in wms : \A m \in wms : m <= n) \in Nat
<1>1. \A c \in names : c \in Collections /\ index_snapshot[c] \in Collection
  BY DEF TypeOK, Store
<1>2. \A c \in names : Staged(index_snapshot[c], order[c]) \in Collection
  BY <1>1, PendingType, StagedType
<1>3. names # {}
  <2>1. SUFFICES ASSUME \A c \in Collections : index_snapshot[c] = Absent
                 PROVE  FALSE
    OBVIOUS
  <2>2. index_snapshot = [c \in Collections |-> Absent]
    BY <2>1 DEF TypeOK, Store
  <2>3. QED
    BY <2>2 DEF EmptyStore
<1>4. wms \in SUBSET Nat /\ wms # {}
  BY <1>1, <1>3 DEF TypeOK
<1>5. IsFiniteSet(names)
  BY FlushAssumption, FS_Subset
<1>6. IsFiniteSet(wms)
  <2> DEFINE f == [c \in names |-> last_wal_lsn[c]]
  <2>1. f = [c \in names |-> f[c]] /\ wms = {f[c] : c \in names}
    OBVIOUS
  <2> HIDE DEF f
  <2>2. IsFiniteSet({f[c] : c \in names})
    BY ONLY <1>5, <2>1, FiniteImage
  <2>3. QED
    BY <2>1, <2>2
<1>7. \E n \in wms : \A m \in wms : m <= n
  BY <1>4, <1>6, LargestNatural
<1>8. (CHOOSE n \in wms : \A m \in wms : m <= n) \in wms
  BY <1>7
<1>9. QED
  BY <1>2, <1>4, <1>8 DEF Store

\* No step leaves the types.
LEMMA TypeStep ==
    ASSUME TypeOK, StagingOK, [Next]_vars
    PROVE  TypeOK'
<1> USE DEF TypeOK
<1>0. ASSUME FlusherIdle
      PROVE  /\ pc' \in {"idle", "catalog", "staging", "finish"} /\ batch' \in Seq(Entry)
             /\ todo' \in SUBSET Collections /\ flush_errors' \in BOOLEAN
  <2>1. flush_errors' \in BOOLEAN
    BY <1>0, Zenon DEF FlusherIdle
  <2>2. QED
    BY <1>0, <2>1 DEF FlusherIdle
<1>1. CASE UNCHANGED vars
  BY <1>1 DEF vars, manager, dir, catalog, flusher, history
<1>2. ASSUME NEW ops \in Singles \cup Batches, Write(ops)
      PROVE  TypeOK'
  <2> DEFINE es == Entries(next_lsn, ops)
  <2>1. es \in Seq(Entry) /\ Len(ops) \in Nat /\ Len(ops) > 0
    BY EntriesFacts
  <2>2. ToSet(es) \in SUBSET Entry
    BY <2>1, ToSetFacts
  <2>3. Upto(mem, ops, Len(ops)) \in Store /\ Upto(promised, ops, Len(ops)) \in Store
    BY <2>1, UptoType
  <2> HIDE DEF es
  <2>4. unflushed' = unflushed \o es
    BY <1>2 DEF Write, es
  <2>5. \/ log' = log /\ acked' = acked /\ hole' = TRUE
        \/ log' = log \o es /\ acked' = acked \cup ToSet(es) /\ hole' = hole
    BY <1>2 DEF Write, es
  <2>6. unflushed' \in Seq(Entry) /\ log \o es \in Seq(Entry)
    BY <2>1, <2>4
  <2>7. log' \in Seq(Entry) /\ acked' \in SUBSET Entry
    <3>1. CASE log' = log /\ acked' = acked
      BY <3>1
    <3>2. CASE log' = log \o es /\ acked' = acked \cup ToSet(es)
      <4>1. acked' \in SUBSET Entry
        BY <2>2, <3>2
      <4>2. QED
        BY <2>6, <3>2, <4>1
    <3>3. QED
      BY <2>5, <3>1, <3>2
  <2>8. hole' \in BOOLEAN
    BY <2>5, Zenon
  <2>9. next_lsn' \in Nat \ {0} /\ mem' \in Store /\ promised' \in Store
    BY <1>2, <2>1, <2>3 DEF Write
  <2>10. QED
    BY <1>2, <2>6, <2>7, <2>8, <2>9 DEF Write, catalog, flusher
<1>3. CASE Checkpoint
  <2>1. log' = log \/ log' = <<>>
    BY <1>3 DEF Checkpoint, CheckpointAt
  <2>2. next_lsn - 1 \in Nat
    OBVIOUS
  <2>3. snap' \in [lsn : Nat, store : Store] /\ snapshot_lsn' \in Nat /\ log' \in Seq(Entry)
    <3>1. snap' = [lsn |-> next_lsn - 1, store |-> mem] /\ snapshot_lsn' = next_lsn - 1
      BY <1>3 DEF Checkpoint, CheckpointAt
    <3>2. log' \in Seq(Entry)
      <4>1. <<>> \in Seq(Entry)
        OBVIOUS
      <4>2. QED
        BY <2>1, <4>1, Zenon
    <3>3. \A n \in Nat, s \in Store : [lsn |-> n, store |-> s] \in [lsn : Nat, store : Store]
      OBVIOUS
    <3>4. mem \in Store
      OBVIOUS
    <3> HIDE DEF TypeOK
    <3>5. QED
      BY <2>2, <3>1, <3>2, <3>3, <3>4
  <2>4. hole' \in BOOLEAN
    BY <1>3, Zenon DEF Checkpoint, CheckpointAt
  <2>5. QED
    BY <1>3, <2>3, <2>4 DEF Checkpoint, CheckpointAt, catalog, flusher
<1>4. ASSUME NEW c \in Collections, WriteIndexSnapshot(c)
      PROVE  TypeOK'
  <2>1. index_snapshot' \in Store
    BY <1>4 DEF WriteIndexSnapshot, Store
  <2>2. QED
    BY <1>4, <2>1 DEF WriteIndexSnapshot, manager, dir, flusher, history
<1>5. CASE Collect
  <2> DEFINE pending == Above(unflushed, iceberg_watermark)
             n == IF Len(pending) < MaxBatchEntries THEN Len(pending) ELSE MaxBatchEntries
             es == SubSeq(pending, 1, n)
  <2>1. pending \in Seq(Entry)
    BY AboveFacts
  <2>2. n > 0 /\ batch' = es /\ todo' = {e.op.c : e \in {x \in ToSet(es) : IsRowOp(x.op)}}
    BY <1>5 DEF Collect
  <2> HIDE DEF pending
  <2>3. n \in 1 .. Len(pending)
    BY <2>1, <2>2, FlushAssumption
  <2> HIDE DEF n
  <2>4. es \in Seq(Entry)
    BY <2>1, <2>3
  <2> HIDE DEF es
  <2>5. ToSet(es) \in SUBSET Entry
    BY <2>4, ToSetFacts
  <2>6. todo' \in SUBSET Collections
    BY <2>2, <2>5, EntryType
  <2>7. pc' \in {"idle", "catalog", "staging", "finish"}
    BY <1>5 DEF Collect
  <2>8. QED
    BY <1>5, <2>2, <2>4, <2>6, <2>7 DEF Collect, manager, dir, catalog, history
<1>6. CASE CatalogBuilt
  BY <1>6 DEF CatalogBuilt, manager, dir, catalog, history
<1>7. CASE CatalogFails
  BY <1>0, <1>7 DEF CatalogFails, manager, dir, catalog, history
<1>8. ASSUME NEW c \in Collections, StageCollection(c) \/ StageFails(c)
      PROVE  TypeOK'
  <2>1. RowsFor(c) \in SUBSET Entry /\ MaxLsnOf(RowsFor(c), 0) \in Nat
    BY RowsForFacts
  <2>2. CommitRows(c) \/ UNCHANGED <<staging, last_wal_lsn>>
    BY <1>8 DEF StageCollection, StageFails
  <2>3. /\ staging' \in [Collections -> SUBSET Entry]
        /\ last_wal_lsn' \in [Collections -> Nat]
    BY <2>1, <2>2 DEF CommitRows
  <2>4. todo' \in SUBSET Collections /\ flush_errors' \in BOOLEAN
    BY <1>8 DEF StageCollection, StageFails
  <2>5. QED
    BY <1>8, <2>3, <2>4 DEF StageCollection, StageFails, manager, dir, history
<1>9. CASE Finish
  <2>1. BatchMaxLsn \in Nat
    BY BatchFacts
  <2>2. Above(unflushed, BatchMaxLsn) \in Seq(Entry) /\ Above(log, BatchMaxLsn) \in Seq(Entry)
    BY <2>1, AboveFacts
  <2>3. iceberg_watermark' \in Nat /\ unflushed' \in Seq(Entry)
    BY <1>9, <2>1, <2>2 DEF Finish, FinishUpTo, SetIcebergWatermark
  <2>4. log' \in Seq(Entry) /\ hole' \in BOOLEAN /\ detached' \in BOOLEAN
    BY <1>9, <2>2 DEF Finish, FinishUpTo, TruncateWalUpTo
  <2>5. QED
    BY <1>0, <1>9, <2>3, <2>4 DEF Finish, FinishUpTo, catalog
<1>10. CASE GiveUp
  BY <1>0, <1>10 DEF GiveUp, manager, dir, catalog, history
<1>11. CASE Crash
  <2>1. up' \in BOOLEAN /\ detached' \in BOOLEAN
    BY <1>11, Zenon DEF Crash
  <2>2. acked' \in SUBSET Entry /\ unflushed' \in Seq(Entry)
    BY <1>11 DEF Crash
  <2>3. QED
    BY <1>0, <1>11, <2>1, <2>2, EmptyStoreType DEF Crash, dir, catalog
<1>12. CASE OpenLocal
  <2>1. snap.store \in Store /\ snap.lsn \in Nat
    OBVIOUS
  <2>2. Replay(snap.store, snap.lsn) \in Store /\ NextLsn(snap.lsn) \in Nat \ {0}
    BY <2>1, OpenedType
  <2>3. QED
    BY <1>12, <2>1, <2>2 DEF OpenLocal, Opened, dir, catalog, flusher
<1>13. CASE OpenIceberg
  <2> DEFINE names == {c \in Collections : index_snapshot[c] # Absent}
             wms == {last_wal_lsn[c] : c \in names}
             wm == CHOOSE n \in wms : \A m \in wms : m <= n
  <2>1. PICK order : /\ \A c \in names : order[c] \in PendingOrders(c)
                     /\ Opened([c \in Collections |-> IF c \in names
                                   THEN Staged(index_snapshot[c], order[c]) ELSE Absent], 0, wm)
    BY <1>13 DEF OpenIceberg
  <2> DEFINE store == [c \in Collections |-> IF c \in names
                          THEN Staged(index_snapshot[c], order[c]) ELSE Absent]
  <2>2. store \in Store /\ wm \in Nat
    <3>1. index_snapshot # EmptyStore
      BY <1>13 DEF OpenIceberg
    <3> HIDE DEF names, TypeOK
    <3>2. names = {c \in Collections : index_snapshot[c] # Absent}
      BY DEF names
    <3>3. wms = {last_wal_lsn[c] : c \in names}
      OBVIOUS
    <3> HIDE DEF wms
    <3>4. QED
      BY <2>1, <3>1, <3>2, <3>3, IcebergStart
  <2> HIDE DEF store, wm
  <2>3. Replay(store, 0) \in Store /\ NextLsn(0) \in Nat \ {0}
    BY <2>2, OpenedType
  <2>4. Opened(store, 0, wm)
    BY <2>1 DEF store
  <2>5. QED
    BY <2>2, <2>3, <2>4 DEF Opened, dir, catalog, flusher
<1>14. QED
  BY <1>1, <1>2, <1>3, <1>4, <1>5, <1>6, <1>7, <1>8, <1>9, <1>10, <1>11, <1>12, <1>13
     DEF Next

----------------------------------------------------------------------------
(* The steps of the manager and of the flusher *)

\* The invariant of the flusher holds before the first call.
LEMMA FlushInit ==
    ASSUME Init
    PROVE  FlushInv
<1> USE DEF Init
<1>1. TypeOK
  <2>1. <<>> \in Seq(Entry) /\ EmptyStore \in Store
    BY EmptyStoreType
  <2>2. snap \in [lsn : Nat, store : Store]
    BY <2>1
  <2>3. /\ staging \in [Collections -> SUBSET Entry]
        /\ last_wal_lsn \in [Collections -> Nat]
    OBVIOUS
  <2>4. up \in BOOLEAN /\ detached \in BOOLEAN /\ flush_errors \in BOOLEAN /\ hole \in BOOLEAN
    BY Zenon
  <2>5. QED
    BY <2>1, <2>2, <2>3, <2>4 DEF TypeOK
<1>2. OwnRows = {}
  BY DEF OwnRows
<1>3. DownOK /\ BatchOK
  BY DEF DownOK, BatchOK
<1>4. QueueOK
  BY <1>2, ToSetEmpty DEF QueueOK, Ordered, Below
<1>5. StagingOK
  BY FS_EmptySet DEF StagingOK
<1>6. WatermarkHonest /\ RowsKept
  BY <1>2 DEF WatermarkHonest, RowsKept
<1>7. QED
  BY <1>1, <1>3, <1>4, <1>5, <1>6 DEF FlushInv

\* New entries take LSNs that no batch and no watermark of this process has
\* reached.
LEMMA WriteKeeps ==
    ASSUME FlushInv, NEW ops \in Singles \cup Batches, Write(ops)
    PROVE  DownOK' /\ QueueOK' /\ BatchOK' /\ StagingOK' /\ WatermarkHonest' /\ RowsKept'
<1> DEFINE es == Entries(next_lsn, ops)
           n == Len(ops)
<1>1. TypeOK /\ QueueOK /\ BatchOK /\ StagingOK /\ WatermarkHonest /\ RowsKept
  BY DEF FlushInv
<1>2. next_lsn \in Nat \ {0} /\ iceberg_watermark \in Nat /\ opened_at \in Nat
        /\ unflushed \in Seq(Entry) /\ log \in Seq(Entry) /\ acked \in SUBSET Entry
  BY <1>1 DEF TypeOK
<1>3. /\ es \in Seq(Entry) /\ n \in Nat /\ n > 0 /\ Ordered(es)
      /\ \A e \in ToSet(es) : next_lsn <= e.lsn /\ e.lsn < next_lsn + n
  BY <1>2, EntriesFacts
<1>4. ToSet(es) \in SUBSET Entry /\ \A e \in ToSet(es) : e.lsn \in Nat
  BY <1>3, ToSetFacts, EntryType
<1> HIDE DEF es
<1>5. /\ unflushed' = unflushed \o es /\ next_lsn' = next_lsn + n /\ up' = up /\ up
      /\ \/ log' = log /\ acked' = acked
         \/ log' = log \o es /\ acked' = acked \cup ToSet(es)
  BY DEF Write, es
<1>6. UNCHANGED <<iceberg_watermark, opened_at, snapshot_lsn, staging, pc, batch, todo,
                  flush_errors>>
  BY DEF Write, catalog, flusher
<1> HIDE DEF n
<1>7. ToSet(unflushed') = ToSet(unflushed) \cup ToSet(es)
  BY <1>2, <1>3, <1>5, ToSetFacts
<1>8. \A e \in ToSet(unflushed) \cup acked : e.lsn \in Nat /\ e.lsn < next_lsn
  <2>1. ToSet(unflushed) \in SUBSET Entry
    BY <1>2, ToSetFacts
  <2>2. QED
    BY <1>1, <1>2, <2>1, EntryType DEF QueueOK, Below
<1>9. DownOK'
  BY <1>5 DEF DownOK
<1>10. StagingOK'
  BY <1>1, <1>6 DEF StagingOK
<1>11. \A e \in OwnRows' : e \in OwnRows \/ (e \in ToSet(es) /\ e.lsn > opened_at)
  BY <1>5, <1>6 DEF OwnRows
<1>12. QueueOK'
  <2>1. Ordered(unflushed')
    <3>1. \A x \in ToSet(unflushed), y \in ToSet(es) : x.lsn < y.lsn
      BY <1>2, <1>3, <1>4, <1>8
    <3>2. QED
      BY <1>1, <1>2, <1>3, <1>5, <3>1, OrderedConcat DEF QueueOK
  <2>2. Below(ToSet(unflushed'), next_lsn')
    BY <1>2, <1>3, <1>4, <1>5, <1>7, <1>8 DEF Below
  <2>3. Below(acked', next_lsn')
    BY <1>2, <1>3, <1>4, <1>5, <1>8 DEF Below
  <2>4. /\ opened_at' <= iceberg_watermark'
        /\ iceberg_watermark' = opened_at' \/ iceberg_watermark' < next_lsn'
    BY <1>1, <1>2, <1>3, <1>5, <1>6 DEF QueueOK
  <2>5. \A e \in OwnRows' : e.lsn > iceberg_watermark' => e \in ToSet(unflushed')
    BY <1>1, <1>6, <1>7, <1>11 DEF QueueOK
  <2>6. QED
    BY <2>1, <2>2, <2>3, <2>4, <2>5 DEF QueueOK
<1>13. BatchOK'
  <2>1. SUFFICES ASSUME pc # "idle"
                 PROVE  BatchOK'
    BY <1>6 DEF BatchOK
  <2>2. /\ BatchMaxLsn \in Nat /\ BatchMaxLsn' = BatchMaxLsn
        /\ BatchMaxLsn = 0 \/ \E e \in ToSet(batch) : e.lsn = BatchMaxLsn
    BY <1>1, <1>6, BatchFacts DEF BatchMaxLsn
  <2>3. /\ ToSet(batch) \in SUBSET Entry /\ \A e \in ToSet(batch) : e.lsn \in Nat
    BY <1>1, BatchFacts, EntryType
  <2>4. Below(ToSet(batch), next_lsn)
    BY <1>1, <2>1 DEF BatchOK
  <2>5. BatchMaxLsn < next_lsn
    BY <1>2, <2>2, <2>4 DEF Below
  <2>6. Below(ToSet(batch'), next_lsn')
    BY <1>2, <1>3, <1>5, <1>6, <2>3, <2>4 DEF Below
  <2>7. \A e \in ToSet(unflushed') :
           e.lsn > iceberg_watermark' /\ e.lsn <= BatchMaxLsn' => e \in ToSet(batch')
    <3>1. \A e \in ToSet(es) : ~(e.lsn <= BatchMaxLsn)
      BY <1>2, <1>3, <1>4, <2>2, <2>5
    <3>2. \A e \in ToSet(unflushed) :
             e.lsn > iceberg_watermark /\ e.lsn <= BatchMaxLsn => e \in ToSet(batch)
      BY <1>1, <2>1 DEF BatchOK
    <3>3. QED
      BY <1>6, <1>7, <2>2, <3>1, <3>2
  <2>8. ~flush_errors' => \A e \in ToSet(batch') :
           IsRowOp(e.op) => e.op.c \in todo' \/ e \in staging'[e.op.c]
    BY <1>1, <1>6, <2>1 DEF BatchOK
  <2>9. QED
    BY <2>6, <2>7, <2>8 DEF BatchOK
<1>14. WatermarkHonest'
  <2>1. \A e \in ToSet(es) : e.lsn > opened_at => ~(e.lsn <= iceberg_watermark)
    BY <1>1, <1>2, <1>3, <1>4 DEF QueueOK
  <2>2. QED
    BY <1>1, <1>6, <1>11, <2>1 DEF WatermarkHonest
<1>15. RowsKept'
  <2>1. CASE log' = log /\ acked' = acked
    BY <1>1, <1>6, <2>1 DEF RowsKept, OwnRows
  <2>2. CASE log' = log \o es
    <3>1. ToSet(log') = ToSet(log) \cup ToSet(es)
      BY <1>2, <1>3, <2>2, ToSetFacts
    <3>2. QED
      BY <1>1, <1>6, <1>11, <3>1 DEF RowsKept
  <2>3. QED
    BY <1>5, <2>1, <2>2
<1>16. QED
  BY <1>9, <1>10, <1>12, <1>13, <1>14, <1>15

\* A step that leaves the queue, the watermark and the staging tables alone.
LEMMA QueueFrame ==
    ASSUME FlushInv, pc' = "idle" \/ UNCHANGED <<pc, batch, todo, flush_errors>>,
           UNCHANGED <<up, next_lsn, iceberg_watermark, unflushed, staging, acked, opened_at>>
    PROVE  QueueOK' /\ BatchOK' /\ StagingOK' /\ WatermarkHonest'
<1>1. QueueOK /\ BatchOK /\ StagingOK /\ WatermarkHonest
  BY DEF FlushInv
<1>2. OwnRows' = OwnRows
  BY DEF OwnRows
<1>3. QueueOK' /\ WatermarkHonest'
  BY <1>1, <1>2 DEF QueueOK, WatermarkHonest
<1>4. StagingOK'
  BY <1>1 DEF StagingOK
<1>5. BatchOK'
  BY <1>1 DEF BatchOK, BatchMaxLsn
<1>6. QED
  BY <1>3, <1>4, <1>5

\* A checkpoint removes from the log only what the snapshot holds.
LEMMA CheckpointKeeps ==
    ASSUME FlushInv, Checkpoint
    PROVE  DownOK' /\ QueueOK' /\ BatchOK' /\ StagingOK' /\ WatermarkHonest' /\ RowsKept'
<1>1. /\ up /\ snapshot_lsn' = next_lsn - 1
      /\ UNCHANGED <<up, next_lsn, iceberg_watermark, unflushed, staging, acked, opened_at,
                     pc, batch, todo, flush_errors>>
  BY DEF Checkpoint, CheckpointAt, catalog, flusher
<1>2. QueueOK' /\ BatchOK' /\ StagingOK' /\ WatermarkHonest'
  BY <1>1, QueueFrame
<1>3. DownOK'
  BY <1>1 DEF DownOK
<1>4. \A e \in OwnRows' : e.lsn <= snapshot_lsn'
  <2>1. \A e \in acked : e.lsn \in Nat /\ e.lsn < next_lsn /\ next_lsn \in Nat
    BY EntryType DEF FlushInv, TypeOK, QueueOK, Below
  <2>2. QED
    BY <1>1, <2>1 DEF OwnRows
<1>5. QED
  BY <1>2, <1>3, <1>4 DEF RowsKept

\* The steps that change neither the tables' rows nor the manager's queue.
LEMMA QuietKeeps ==
    ASSUME FlushInv,
           \/ \E c \in Collections : WriteIndexSnapshot(c)
           \/ CatalogBuilt \/ CatalogFails \/ GiveUp \/ UNCHANGED vars
    PROVE  DownOK' /\ QueueOK' /\ BatchOK' /\ StagingOK' /\ WatermarkHonest' /\ RowsKept'
<1>1. UNCHANGED <<up, next_lsn, iceberg_watermark, unflushed, staging, acked, opened_at,
                  snapshot_lsn, log>>
  BY DEF WriteIndexSnapshot, CatalogBuilt, CatalogFails, GiveUp, vars,
         manager, dir, catalog, history
<1>2. RowsKept'
  BY <1>1 DEF FlushInv, RowsKept, OwnRows
<1>3. CASE CatalogBuilt
  <2>1. pc = "catalog" /\ pc' = "staging" /\ UNCHANGED <<batch, todo, flush_errors>>
    BY <1>3 DEF CatalogBuilt
  <2>2. OwnRows' = OwnRows
    BY <1>1 DEF OwnRows
  <2>3. DownOK' /\ QueueOK' /\ StagingOK' /\ WatermarkHonest'
    BY <1>1, <2>1, <2>2 DEF FlushInv, DownOK, QueueOK, StagingOK, WatermarkHonest
  <2>4. BatchOK'
    BY <1>1, <2>1 DEF FlushInv, BatchOK, BatchMaxLsn
  <2>5. QED
    BY <1>2, <2>3, <2>4
<1>4. CASE ~CatalogBuilt
  <2>1. pc' = "idle" \/ UNCHANGED <<pc, batch, todo, flush_errors>>
    BY <1>4 DEF WriteIndexSnapshot, CatalogFails, GiveUp, FlusherIdle, vars, flusher
  <2>2. DownOK'
    BY <1>1, <2>1 DEF FlushInv, DownOK
  <2>3. QED
    BY <1>1, <1>2, <2>1, <2>2, QueueFrame
<1>5. QED
  BY <1>3, <1>4

\* A batch is collected: a prefix of the ordered queue above the watermark.
LEMMA CollectKeeps ==
    ASSUME FlushInv, Collect
    PROVE  DownOK' /\ QueueOK' /\ BatchOK' /\ StagingOK' /\ WatermarkHonest' /\ RowsKept'
<1> DEFINE pending == Above(unflushed, iceberg_watermark)
           n == IF Len(pending) < MaxBatchEntries THEN Len(pending) ELSE MaxBatchEntries
           es == SubSeq(pending, 1, n)
<1>1. TypeOK /\ QueueOK /\ BatchOK /\ StagingOK /\ WatermarkHonest /\ RowsKept
  BY DEF FlushInv
<1>2. unflushed \in Seq(Entry) /\ iceberg_watermark \in Nat /\ next_lsn \in Nat
  BY <1>1 DEF TypeOK
<1>3. /\ pending \in Seq(Entry) /\ Ordered(pending)
      /\ ToSet(pending) = {e \in ToSet(unflushed) : e.lsn > iceberg_watermark}
  BY <1>1, <1>2, AboveFacts DEF QueueOK
<1>4. /\ n > 0 /\ batch' = es
      /\ todo' = {e.op.c : e \in {x \in ToSet(es) : IsRowOp(x.op)}}
  BY DEF Collect
<1> HIDE DEF pending
<1>5. n \in 1 .. Len(pending)
  BY <1>3, <1>4, FlushAssumption
<1> HIDE DEF n
<1>6. /\ es \in Seq(Entry) /\ ToSet(es) \in SUBSET ToSet(pending)
      /\ \A x \in ToSet(pending), y \in ToSet(es) : x.lsn <= y.lsn => x \in ToSet(es)
  BY <1>3, <1>5, PrefixFacts
<1> HIDE DEF es
<1>7. up /\ UNCHANGED <<up, next_lsn, iceberg_watermark, unflushed, staging, acked, opened_at,
                        snapshot_lsn, log>>
  BY DEF Collect, manager, dir, catalog, history
<1>8. OwnRows' = OwnRows
  BY <1>7 DEF OwnRows
<1>9. DownOK' /\ QueueOK' /\ StagingOK' /\ WatermarkHonest' /\ RowsKept'
  BY <1>1, <1>7, <1>8 DEF DownOK, QueueOK, StagingOK, WatermarkHonest, RowsKept
<1>10. /\ ToSet(es) \in SUBSET Entry /\ IsFiniteSet(ToSet(es))
       /\ \A e \in ToSet(unflushed) : e.lsn \in Nat
  BY <1>2, <1>6, ToSetFacts, EntryType
<1>11. /\ BatchMaxLsn' \in Nat
       /\ BatchMaxLsn' = 0 \/ \E e \in ToSet(es) : e.lsn = BatchMaxLsn'
  <2>1. BatchMaxLsn' = MaxLsnOf(ToSet(es), 0)
    BY <1>4 DEF BatchMaxLsn
  <2>2. QED
    BY <1>10, <2>1, MaxLsnFacts
<1>12. Below(ToSet(batch'), next_lsn')
  BY <1>1, <1>3, <1>4, <1>6, <1>7 DEF QueueOK, Below
<1>13. \A e \in ToSet(unflushed') :
          e.lsn > iceberg_watermark' /\ e.lsn <= BatchMaxLsn' => e \in ToSet(batch')
  <2>1. SUFFICES ASSUME NEW e \in ToSet(unflushed), e.lsn > iceberg_watermark,
                        e.lsn <= BatchMaxLsn'
                 PROVE  e \in ToSet(es)
    BY <1>4, <1>7
  <2>2. e \in ToSet(pending)
    BY <1>3, <2>1
  <2>3. PICK y \in ToSet(es) : y.lsn = BatchMaxLsn'
    BY <1>2, <1>10, <1>11, <2>1
  <2>4. QED
    BY <1>6, <2>1, <2>2, <2>3
<1>14. \A e \in ToSet(batch') : IsRowOp(e.op) => e.op.c \in todo'
  BY <1>4
<1>15. BatchOK'
  BY <1>12, <1>13, <1>14 DEF BatchOK
<1>16. QED
  BY <1>9, <1>15

\* One table is done, committed or not: the tables only grow.
LEMMA StageKeeps ==
    ASSUME FlushInv, NEW c \in Collections, StageCollection(c) \/ StageFails(c)
    PROVE  DownOK' /\ QueueOK' /\ BatchOK' /\ StagingOK' /\ WatermarkHonest' /\ RowsKept'
<1>1. TypeOK /\ DownOK /\ QueueOK /\ BatchOK /\ StagingOK /\ WatermarkHonest /\ RowsKept
  BY DEF FlushInv
<1>2. /\ pc = "staging" /\ todo' = todo \ {c}
      /\ UNCHANGED <<up, next_lsn, iceberg_watermark, unflushed, acked, opened_at,
                     snapshot_lsn, log, pc, batch>>
  BY DEF StageCollection, StageFails, manager, dir, history
<1>3. staging' = staging \/ staging' = [staging EXCEPT ![c] = @ \cup RowsFor(c)]
  BY DEF StageCollection, StageFails, CommitRows
<1>4. /\ \A d \in Collections : staging[d] \in SUBSET staging'[d]
      /\ \A d \in Collections : \/ staging'[d] = staging[d]
                                \/ d = c /\ staging'[d] = staging[d] \cup RowsFor(c)
  BY <1>1, <1>3 DEF TypeOK
<1>5. /\ IsFiniteSet(RowsFor(c))
      /\ \A e \in RowsFor(c) : IsRowOp(e.op) /\ e.op.c = c
  BY <1>1, RowsForFacts
<1>6. StagingOK'
  <2>1. ASSUME NEW d \in Collections
        PROVE  /\ IsFiniteSet(staging'[d])
               /\ \A e \in staging'[d] : IsRowOp(e.op) /\ e.op.c = d
    <3>1. IsFiniteSet(staging[d]) /\ \A e \in staging[d] : IsRowOp(e.op) /\ e.op.c = d
      BY <1>1 DEF StagingOK
    <3>2. IsFiniteSet(staging[d] \cup RowsFor(c))
      BY <1>5, <3>1, FS_Union
    <3>3. QED
      BY <1>4, <1>5, <3>1, <3>2
  <2>2. QED
    BY <2>1 DEF StagingOK
<1>7. OwnRows' = OwnRows /\ \A e \in OwnRows : e.op.c \in Collections
  BY <1>1, <1>2, EntryType DEF OwnRows, TypeOK
<1>8. DownOK' /\ QueueOK'
  BY <1>1, <1>2, <1>7 DEF DownOK, QueueOK
<1>9. WatermarkHonest' /\ RowsKept'
  BY <1>1, <1>2, <1>4, <1>7 DEF WatermarkHonest, RowsKept
<1>10. BatchOK'
  <2>1. BatchMaxLsn' = BatchMaxLsn
    BY <1>2 DEF BatchMaxLsn
  <2>2. ASSUME ~flush_errors', NEW e \in ToSet(batch), IsRowOp(e.op)
        PROVE  e.op.c \in todo' \/ e \in staging'[e.op.c]
    <3>1. StageCollection(c) /\ ~flush_errors
      BY <2>2 DEF StageCollection, StageFails
    <3>2. staging' = [staging EXCEPT ![c] = @ \cup RowsFor(c)]
      BY <3>1 DEF StageCollection, CommitRows
    <3>3. e.op.c \in Collections
      BY <1>1, BatchFacts, EntryType
    <3>4. CASE e.op.c = c
      BY <1>1, <2>2, <3>2, <3>4 DEF RowsFor, TypeOK
    <3>5. CASE e.op.c # c
      BY <1>1, <1>2, <1>4, <2>2, <3>1, <3>3, <3>5 DEF BatchOK
    <3>6. QED
      BY <3>4, <3>5
  <2>3. QED
    BY <1>1, <1>2, <2>1, <2>2 DEF BatchOK
<1>11. QED
  BY <1>6, <1>8, <1>9, <1>10

\* Every table has its rows of the batch, so moving the watermark up to the
\* batch's largest LSN, and cutting the log there, loses none of them.
LEMMA FinishKeeps ==
    ASSUME FlushInv, Finish
    PROVE  DownOK' /\ QueueOK' /\ BatchOK' /\ StagingOK' /\ WatermarkHonest' /\ RowsKept'
<1> DEFINE top == BatchMaxLsn
<1>1. TypeOK /\ DownOK /\ QueueOK /\ BatchOK /\ StagingOK /\ WatermarkHonest /\ RowsKept
  BY DEF FlushInv
<1>2. /\ unflushed \in Seq(Entry) /\ log \in Seq(Entry) /\ iceberg_watermark \in Nat
      /\ next_lsn \in Nat \ {0} /\ opened_at \in Nat
  BY <1>1 DEF TypeOK
<1>3. /\ pc # "idle" /\ todo = {} /\ ~flush_errors /\ pc' = "idle"
      /\ UNCHANGED <<up, next_lsn, snapshot_lsn, staging, acked, opened_at>>
  BY DEF Finish, FinishUpTo, FlusherIdle, catalog
<1>4. top \in Nat /\ (top = 0 \/ \E e \in ToSet(batch) : e.lsn = top)
  BY <1>1, BatchFacts
<1>5. \/ /\ top > iceberg_watermark /\ iceberg_watermark' = top
         /\ unflushed' = Above(unflushed, top)
      \/ ~(top > iceberg_watermark) /\ UNCHANGED <<iceberg_watermark, unflushed>>
  BY DEF Finish, FinishUpTo, SetIcebergWatermark
<1>6. log' = log \/ log' = Above(log, top)
  BY DEF Finish, FinishUpTo, TruncateWalUpTo
<1>7. top < next_lsn
  BY <1>1, <1>2, <1>3, <1>4 DEF BatchOK, Below
<1>8. \A e \in ToSet(unflushed) : e.lsn > iceberg_watermark /\ e.lsn <= top => e \in ToSet(batch)
  BY <1>1, <1>3 DEF BatchOK
<1>9. \A e \in ToSet(batch) : IsRowOp(e.op) => e \in staging[e.op.c]
  BY <1>1, <1>3 DEF BatchOK
<1> HIDE DEF top
<1>10. /\ iceberg_watermark' \in Nat /\ top <= iceberg_watermark'
       /\ iceberg_watermark <= iceberg_watermark'
       /\ iceberg_watermark' = iceberg_watermark \/ iceberg_watermark' = top
  BY <1>2, <1>4, <1>5
<1>11. /\ OwnRows' = OwnRows /\ \A e \in OwnRows : e.lsn \in Nat /\ IsRowOp(e.op)
  BY <1>1, <1>3, EntryType DEF OwnRows, TypeOK
<1>12. WatermarkHonest'
  <2>1. SUFFICES ASSUME NEW e \in OwnRows, e.lsn <= iceberg_watermark'
                 PROVE  e \in staging[e.op.c]
    BY <1>3, <1>11 DEF WatermarkHonest
  <2>2. CASE e.lsn <= iceberg_watermark
    BY <1>1, <2>1, <2>2 DEF WatermarkHonest
  <2>3. CASE ~(e.lsn <= iceberg_watermark)
    <3>1. e.lsn > iceberg_watermark /\ e.lsn <= top
      BY <1>2, <1>10, <1>11, <2>1, <2>3
    <3>2. e \in ToSet(unflushed)
      BY <1>1, <3>1 DEF QueueOK
    <3>3. QED
      BY <1>8, <1>9, <1>11, <3>1, <3>2
  <2>4. QED
    BY <2>2, <2>3
<1>13. RowsKept'
  <2>1. ToSet(Above(log, top)) = {e \in ToSet(log) : e.lsn > top}
    BY <1>2, <1>4, AboveFacts
  <2>2. ASSUME NEW e \in OwnRows', e \in ToSet(log), e \notin ToSet(log')
        PROVE  e \in staging'[e.op.c]
    <3>1. e.lsn <= top
      BY <1>4, <1>6, <1>11, <2>1, <2>2
    <3>2. e.lsn <= iceberg_watermark'
      BY <1>4, <1>10, <1>11, <3>1
    <3>3. QED
      BY <1>12, <3>2 DEF WatermarkHonest
  <2>3. QED
    BY <1>1, <1>3, <1>11, <2>2 DEF RowsKept
<1>14. QueueOK'
  <2>1. /\ Ordered(unflushed')
        /\ ToSet(unflushed') \in SUBSET ToSet(unflushed)
        /\ \A e \in ToSet(unflushed) : e.lsn > iceberg_watermark' => e \in ToSet(unflushed')
    <3>1. /\ ToSet(Above(unflushed, top)) = {e \in ToSet(unflushed) : e.lsn > top}
          /\ Ordered(Above(unflushed, top))
      BY <1>1, <1>2, <1>4, AboveFacts DEF QueueOK
    <3>2. QED
      BY <1>1, <1>5, <3>1 DEF QueueOK
  <2>2. Below(ToSet(unflushed'), next_lsn') /\ Below(acked', next_lsn')
    BY <1>1, <1>3, <2>1 DEF QueueOK, Below
  <2>3. /\ opened_at' <= iceberg_watermark'
        /\ iceberg_watermark' = opened_at' \/ iceberg_watermark' < next_lsn'
    BY <1>1, <1>2, <1>3, <1>7, <1>10 DEF QueueOK
  <2>4. \A e \in OwnRows' : e.lsn > iceberg_watermark' => e \in ToSet(unflushed')
    <3>1. SUFFICES ASSUME NEW e \in OwnRows, e.lsn > iceberg_watermark'
                   PROVE  e \in ToSet(unflushed')
      BY <1>11
    <3>2. e.lsn > iceberg_watermark
      BY <1>2, <1>10, <1>11, <3>1
    <3>3. QED
      BY <1>1, <2>1, <3>1, <3>2 DEF QueueOK
  <2>5. QED
    BY <2>1, <2>2, <2>3, <2>4 DEF QueueOK
<1>15. DownOK' /\ BatchOK' /\ StagingOK'
  BY <1>1, <1>3 DEF DownOK, BatchOK, StagingOK
<1>16. QED
  BY <1>12, <1>13, <1>14, <1>15

\* A process that dies or starts has nothing of its own yet.
LEMMA RestartKeeps ==
    ASSUME FlushInv, Crash \/ OpenLocal \/ OpenIceberg
    PROVE  DownOK' /\ QueueOK' /\ BatchOK' /\ StagingOK' /\ WatermarkHonest' /\ RowsKept'
<1>1. TypeOK /\ DownOK /\ StagingOK
  BY DEF FlushInv
<1>2. TypeOK'
  BY <1>1, TypeStep DEF Next
<1>3. /\ acked' = {} /\ unflushed' = <<>> /\ pc' = "idle" /\ staging' = staging
      /\ opened_at' = iceberg_watermark'
  <2>1. CASE Crash
    BY <2>1 DEF Crash, FlusherIdle, catalog
  <2>2. ASSUME NEW store, NEW above, NEW wm, Opened(store, above, wm)
        PROVE  /\ acked' = {} /\ unflushed' = <<>> /\ pc' = "idle" /\ staging' = staging
               /\ opened_at' = iceberg_watermark'
    BY <1>1, <2>2 DEF DownOK, Opened, catalog, flusher
  <2>3. QED
    BY <2>1, <2>2 DEF OpenLocal, OpenIceberg
<1>4. iceberg_watermark' \in Nat
  BY <1>2 DEF TypeOK
<1>5. OwnRows' = {}
  BY <1>3 DEF OwnRows
<1>6. QueueOK'
  <2>1. ToSet(unflushed') = {} /\ Ordered(unflushed')
    BY <1>3, ToSetEmpty DEF Ordered
  <2>2. QED
    BY <1>3, <1>4, <1>5, <2>1 DEF QueueOK, Below
<1>7. DownOK' /\ BatchOK' /\ StagingOK'
  BY <1>1, <1>3 DEF DownOK, BatchOK, StagingOK
<1>8. WatermarkHonest' /\ RowsKept'
  BY <1>5 DEF WatermarkHonest, RowsKept
<1>9. QED
  BY <1>6, <1>7, <1>8

\* The invariant of the flusher is inductive.
LEMMA FlushStep ==
    ASSUME FlushInv, [Next]_vars
    PROVE  FlushInv'
<1>1. TypeOK'
  BY TypeStep DEF FlushInv
<1>2. DownOK' /\ QueueOK' /\ BatchOK' /\ StagingOK' /\ WatermarkHonest' /\ RowsKept'
  BY WriteKeeps, CheckpointKeeps, QuietKeeps, CollectKeeps, StageKeeps, FinishKeeps,
     RestartKeeps DEF Next
<1>3. QED
  BY <1>1, <1>2 DEF FlushInv

\* The manager, the data directory, the catalog and the flusher keep to their
\* types, for any sets of collections, ids and values, any batch size and any
\* number of writes and crashes.
THEOREM FlushTypes == Spec => []TypeOK
<1>1. Init => FlushInv
  BY FlushInit
<1>2. FlushInv /\ [Next]_vars => FlushInv'
  BY FlushStep
<1>3. FlushInv => TypeOK
  BY DEF FlushInv
<1>4. QED
  BY <1>1, <1>2, <1>3, PTL DEF Spec

\* set_iceberg_watermark never runs ahead of the staging tables: whatever the
\* catalog refuses, answers late or is asked again, and whatever is written
\* between the two locks of flush_once, an own row at or below the watermark
\* is in its table.
THEOREM WatermarkStaged == Spec => []WatermarkHonest
<1>1. Init => FlushInv
  BY FlushInit
<1>2. FlushInv /\ [Next]_vars => FlushInv'
  BY FlushStep
<1>3. FlushInv => WatermarkHonest
  BY DEF FlushInv
<1>4. QED
  BY <1>1, <1>2, <1>3, PTL DEF Spec

\* truncate_wal_up_to and checkpoint never drop the last copy of a row
\* operation that this process logged.
THEOREM CutKeepsRows == Spec => []RowsKept
<1>1. Init => FlushInv
  BY FlushInit
<1>2. FlushInv /\ [Next]_vars => FlushInv'
  BY FlushStep
<1>3. FlushInv => RowsKept
  BY DEF FlushInv
<1>4. QED
  BY <1>1, <1>2, <1>3, PTL DEF Spec

----------------------------------------------------------------------------
(* Durability while recovery is local *)

\* Before the first call a restart comes back empty.
LEMMA LocalInit ==
    ASSUME Init
    PROVE  LocalOK
<1>1. log = <<>> /\ snap.store = EmptyStore /\ promised = EmptyStore /\ ~up
  BY DEF Init
<1>2. Ordered(log)
  BY <1>1 DEF Ordered
<1>3. Replay(snap.store, snap.lsn) = promised
  BY <1>1, AboveEmpty, ReplayedEmpty, EmptyStoreType DEF Replay
<1>4. QED
  BY <1>1, <1>2, <1>3 DEF LocalOK

\* What LocalOK says while the process is up.
LEMMA LocalUp ==
    ASSUME FlushInv, LocalOK, index_snapshot = EmptyStore, up
    PROVE  /\ Ordered(log) /\ snapshot_lsn = snap.lsn /\ snap.lsn < next_lsn
           /\ Below(ToSet(log), next_lsn)
           /\ ~hole => mem = promised /\ Replayed(snap.store, Above(log, snap.lsn)) = promised
           /\ log \in Seq(Entry) /\ snap.lsn \in Nat /\ snap.store \in Store
           /\ next_lsn \in Nat \ {0} /\ \A e \in ToSet(log) : e.lsn \in Nat
<1>1. /\ log \in Seq(Entry) /\ snap.lsn \in Nat /\ snap.store \in Store
      /\ next_lsn \in Nat \ {0}
  BY DEF FlushInv, TypeOK
<1>2. \A e \in ToSet(log) : e.lsn \in Nat
  BY <1>1, ToSetFacts, EntryType
<1>3. QED
  BY <1>1, <1>2 DEF LocalOK, Replay

\* A write extends what a restart replays by its own entries.
LEMMA LocalWrite ==
    ASSUME FlushInv, LocalOK, NEW ops \in Singles \cup Batches, Write(ops)
    PROVE  LocalOK'
<1> DEFINE es == Entries(next_lsn, ops)
           n == Len(ops)
<1>1. SUFFICES ASSUME index_snapshot = EmptyStore
               PROVE  LocalOK'
  BY DEF Write, catalog, LocalOK
<1>2. up
  BY DEF Write
<1>3. /\ Ordered(log) /\ snapshot_lsn = snap.lsn /\ snap.lsn < next_lsn
      /\ Below(ToSet(log), next_lsn)
      /\ ~hole => mem = promised /\ Replayed(snap.store, Above(log, snap.lsn)) = promised
      /\ log \in Seq(Entry) /\ snap.lsn \in Nat /\ snap.store \in Store
      /\ next_lsn \in Nat \ {0} /\ \A e \in ToSet(log) : e.lsn \in Nat
  BY <1>1, <1>2, LocalUp
<1>4. /\ es \in Seq(Entry) /\ n \in Nat /\ n > 0 /\ Ordered(es)
      /\ \A e \in ToSet(es) : next_lsn <= e.lsn /\ e.lsn < next_lsn + n
  BY <1>3, EntriesFacts
<1>5. \A e \in ToSet(es) : e.lsn \in Nat
  BY <1>4, ToSetFacts, EntryType
<1>6. promised \in Store
  BY DEF FlushInv, TypeOK
<1>7. Replayed(promised, es) = Upto(promised, ops, n)
  BY <1>3, <1>6, ReplayedRequest
<1> HIDE DEF es
<1>8. /\ next_lsn' = next_lsn + n /\ up' = up
      /\ mem' = Upto(mem, ops, n) /\ promised' = Upto(promised, ops, n)
      /\ snapshot_lsn' = snapshot_lsn /\ snap' = snap
      /\ \/ log' = log /\ hole'
         \/ log' = log \o es /\ hole' = hole
  BY DEF Write, es
<1> HIDE DEF n
<1>9. CASE log' = log /\ hole'
  <2>1. Below(ToSet(log'), next_lsn') /\ snap.lsn < next_lsn'
    BY <1>3, <1>4, <1>8, <1>9 DEF Below
  <2>2. QED
    BY <1>3, <1>8, <1>9, <2>1 DEF LocalOK
<1>10. CASE log' = log \o es /\ hole' = hole
  <2>1. ToSet(log') = ToSet(log) \cup ToSet(es)
    BY <1>3, <1>4, <1>10, ToSetFacts
  <2>2. Below(ToSet(log'), next_lsn') /\ snap.lsn < next_lsn'
    BY <1>3, <1>4, <1>5, <1>8, <2>1 DEF Below
  <2>3. Ordered(log')
    <3>1. \A x \in ToSet(log), y \in ToSet(es) : x.lsn < y.lsn
      BY <1>3, <1>4, <1>5 DEF Below
    <3>2. QED
      BY <1>3, <1>4, <1>10, <3>1, OrderedConcat
  <2>4. Above(log', snap.lsn) = Above(log, snap.lsn) \o es
    <3>1. \A e \in ToSet(es) : e.lsn > snap.lsn
      BY <1>3, <1>4, <1>5
    <3>2. QED
      BY <1>3, <1>4, <1>10, <3>1, AboveConcat
  <2>5. ASSUME ~hole
        PROVE  Replayed(snap.store, Above(log', snap.lsn)) = promised' /\ mem' = promised'
    <3>1. Above(log, snap.lsn) \in Seq(Entry)
      BY <1>3, AboveFacts
    <3>2. Replayed(snap.store, Above(log', snap.lsn))
             = Replayed(Replayed(snap.store, Above(log, snap.lsn)), es)
      BY <1>3, <1>4, <2>4, <3>1, ReplayedConcat
    <3>3. QED
      BY <1>3, <1>7, <1>8, <2>5, <3>2
  <2>6. QED
    BY <1>3, <1>8, <1>10, <2>2, <2>3, <2>5 DEF LocalOK, Replay
<1>11. QED
  BY <1>8, <1>9, <1>10

\* A checkpoint moves the start of the replay, not its end.
LEMMA LocalCheckpoint ==
    ASSUME FlushInv, LocalOK, Checkpoint
    PROVE  LocalOK'
<1>1. SUFFICES ASSUME index_snapshot = EmptyStore
               PROVE  LocalOK'
  BY DEF Checkpoint, CheckpointAt, catalog, LocalOK
<1>2. up
  BY DEF Checkpoint, CheckpointAt
<1>3. /\ Ordered(log) /\ Below(ToSet(log), next_lsn) /\ log \in Seq(Entry)
      /\ next_lsn \in Nat \ {0} /\ \A e \in ToSet(log) : e.lsn \in Nat
  BY <1>1, <1>2, LocalUp
<1>4. /\ snap'.lsn = next_lsn - 1 /\ snap'.store = mem /\ snapshot_lsn' = next_lsn - 1
      /\ promised' = mem /\ mem' = mem /\ next_lsn' = next_lsn
      /\ log' = log \/ log' = <<>>
  BY DEF Checkpoint, CheckpointAt
<1>5. mem \in Store
  BY DEF FlushInv, TypeOK
<1>6. Ordered(<<>>) /\ ToSet(<<>>) = {} /\ <<>> \in Seq(Entry)
  BY ToSetEmpty DEF Ordered
<1>7. Ordered(log') /\ Below(ToSet(log'), next_lsn) /\ log' \in Seq(Entry)
  <2>1. CASE log' = <<>>
    BY <1>6, <2>1 DEF Below
  <2>2. QED
    BY <1>3, <1>4, <2>1
<1>8. Above(log', next_lsn - 1) = <<>>
  <2> DEFINE a == Above(log', next_lsn - 1)
  <2>0. next_lsn - 1 \in Nat
    BY <1>3
  <2>1. a \in Seq(Entry) /\ ToSet(a) = {e \in ToSet(log') : e.lsn > next_lsn - 1}
    BY <1>7, <2>0, AboveFacts
  <2>2. \A e \in ToSet(log') : e.lsn \in Nat
    BY <1>7, ToSetFacts, EntryType
  <2>3. ToSet(a) = {}
    BY <1>3, <1>7, <2>1, <2>2 DEF Below
  <2> HIDE DEF a
  <2>4. ToSet(a) = {a[k] : k \in 1 .. Len(a)}
    BY <2>1, ToSetFacts
  <2>5. Len(a) = 0
    BY <2>1, <2>3, <2>4
  <2>6. a = <<>>
    BY <2>1, <2>5
  <2>7. QED
    BY <2>6 DEF a
<1>9. Replayed(snap'.store, Above(log', snap'.lsn)) = promised'
  BY <1>4, <1>5, <1>8, ReplayedEmpty
<1>10. snap'.lsn < next_lsn
  BY <1>3, <1>4
<1>11. QED
  BY <1>4, <1>7, <1>9, <1>10 DEF LocalOK, Replay

\* Cutting the log drops nothing recovery needs, or leaves a hole.
LEMMA LocalFinish ==
    ASSUME FlushInv, LocalOK, Finish
    PROVE  LocalOK'
<1> DEFINE top == BatchMaxLsn
           cut == \E e \in ToSet(log) : e.lsn <= top /\ e.lsn > snapshot_lsn
<1>1. SUFFICES ASSUME index_snapshot = EmptyStore
               PROVE  LocalOK'
  BY DEF Finish, FinishUpTo, catalog, LocalOK
<1>2. up
  BY DEF Finish, FinishUpTo, FlushInv, DownOK
<1>3. /\ Ordered(log) /\ snapshot_lsn = snap.lsn /\ snap.lsn < next_lsn
      /\ Below(ToSet(log), next_lsn)
      /\ ~hole => mem = promised /\ Replayed(snap.store, Above(log, snap.lsn)) = promised
      /\ log \in Seq(Entry) /\ snap.lsn \in Nat /\ \A e \in ToSet(log) : e.lsn \in Nat
  BY <1>1, <1>2, LocalUp
<1>4. top \in Nat
  BY BatchFacts DEF FlushInv
<1>5. UNCHANGED <<up, mem, next_lsn, snapshot_lsn, snap, promised>>
  BY DEF Finish, FinishUpTo
<1>6. \/ log' = log /\ hole' = hole
      \/ log' = Above(log, top) /\ hole' = (hole \/ cut)
  BY DEF Finish, FinishUpTo, TruncateWalUpTo
<1>7. CASE log' = log /\ hole' = hole
  BY <1>3, <1>5, <1>7 DEF LocalOK, Replay
<1>8. CASE log' = Above(log, top) /\ hole' = (hole \/ cut)
  <2>1. Ordered(log') /\ ToSet(log') \in SUBSET ToSet(log)
    BY <1>3, <1>4, <1>8, AboveFacts
  <2>2. Below(ToSet(log'), next_lsn)
    BY <1>3, <2>1 DEF Below
  <2>3. ASSUME ~hole'
        PROVE  /\ ~hole /\ Above(log', snap.lsn) = Above(log, snap.lsn)
    <3>1. ~hole /\ ~cut
      BY <1>8, <2>3
    <3>2. \A e \in ToSet(log) : e.lsn <= top => e.lsn <= snap.lsn
      BY <1>3, <3>1
    <3> HIDE DEF top
    <3>3. QED
      BY <1>3, <1>4, <1>8, <3>1, <3>2, AboveAbove
  <2>4. QED
    BY <1>3, <1>5, <2>1, <2>2, <2>3 DEF LocalOK, Replay
<1>9. QED
  BY <1>6, <1>7, <1>8

\* A local recovery comes back with what the disk holds.
LEMMA LocalOpen ==
    ASSUME FlushInv, LocalOK, OpenLocal
    PROVE  LocalOK'
<1> DEFINE es == Above(log, snap.lsn)
<1>1. /\ index_snapshot = EmptyStore /\ mem' = Replay(snap.store, snap.lsn)
      /\ next_lsn' = NextLsn(snap.lsn) /\ snapshot_lsn' = snap.lsn
      /\ UNCHANGED <<log, snap, promised, hole, index_snapshot>>
  BY DEF OpenLocal, Opened, dir, catalog
<1>2. Ordered(log) /\ (~hole => Replay(snap.store, snap.lsn) = promised)
  BY <1>1 DEF LocalOK
<1>3. log \in Seq(Entry) /\ snap.lsn \in Nat
  BY DEF FlushInv, TypeOK
<1>4. \A e \in ToSet(log) : e.lsn \in Nat
  BY <1>3, ToSetFacts, EntryType
<1>5. /\ es \in Seq(Entry) /\ Ordered(es) /\ ToSet(es) = {e \in ToSet(log) : e.lsn > snap.lsn}
      /\ ToSet(es) = {es[k] : k \in 1 .. Len(es)}
  BY <1>2, <1>3, AboveFacts, ToSetFacts
<1>6. next_lsn' = IF es = <<>> THEN snap.lsn + 1 ELSE es[Len(es)].lsn + 1
  BY <1>1 DEF NextLsn, Last
<1> HIDE DEF es
<1>7. snap.lsn < next_lsn' /\ Below(ToSet(log), next_lsn')
  <2>1. CASE es = <<>>
    <3>1. ToSet(es) = {}
      BY <2>1, ToSetEmpty
    <3>2. QED
      BY <1>3, <1>4, <1>5, <1>6, <2>1, <3>1 DEF Below
  <2>2. CASE es # <<>>
    <3> DEFINE m == Len(es)
    <3>1. m \in Nat /\ m \in 1 .. m
      BY <1>5, <2>2
    <3>2. es[m] \in ToSet(es)
      BY <1>5, <3>1
    <3>3. es[m].lsn \in Nat /\ es[m].lsn > snap.lsn
      BY <1>4, <1>5, <3>2
    <3>4. ASSUME NEW e \in ToSet(es)
          PROVE  e.lsn <= es[m].lsn
      <4>1. PICK k \in 1 .. m : e = es[k]
        BY <1>5
      <4>2. e.lsn \in Nat
        BY <1>4, <1>5
      <4>3. k = m \/ k < m
        BY <3>1
      <4>4. QED
        BY <1>5, <3>1, <3>3, <4>1, <4>2, <4>3 DEF Ordered
    <3> HIDE DEF m
    <3>5. next_lsn' = es[m].lsn + 1
      BY <1>6, <2>2 DEF m
    <3>6. \A e \in ToSet(log) : e.lsn < next_lsn'
      BY <1>3, <1>4, <1>5, <3>3, <3>4, <3>5
    <3>7. QED
      BY <1>3, <3>3, <3>5, <3>6 DEF Below
  <2>3. QED
    BY <2>1, <2>2
<1>8. QED
  BY <1>1, <1>2, <1>7 DEF LocalOK, Replay

\* The steps that leave the directory, the store and the promise alone.
LEMMA LocalFrame ==
    ASSUME LocalOK,
           \/ Collect \/ CatalogBuilt \/ CatalogFails \/ GiveUp \/ Crash \/ UNCHANGED vars
           \/ \E c \in Collections : StageCollection(c) \/ StageFails(c)
    PROVE  LocalOK'
<1>1. UNCHANGED <<log, snap, promised, hole, index_snapshot>>
  BY DEF Collect, CatalogBuilt, CatalogFails, GiveUp, Crash, StageCollection, StageFails,
         vars, manager, dir, catalog, history
<1>2. ~up' \/ UNCHANGED <<up, mem, next_lsn, snapshot_lsn>>
  BY DEF Collect, CatalogBuilt, CatalogFails, GiveUp, Crash, StageCollection, StageFails,
         vars, manager
<1>3. QED
  BY <1>1, <1>2 DEF LocalOK, Replay

\* From the first index snapshot on, recovery is no longer local.
LEMMA NoLongerLocal ==
    ASSUME TypeOK, OpenIceberg \/ \E c \in Collections : WriteIndexSnapshot(c)
    PROVE  LocalOK'
<1>1. CASE OpenIceberg
  BY <1>1 DEF OpenIceberg, Opened, catalog, LocalOK
<1>2. ASSUME NEW c \in Collections, WriteIndexSnapshot(c)
      PROVE  LocalOK'
  <2>1. index_snapshot'[c] # Absent
    BY <1>2 DEF WriteIndexSnapshot, TypeOK, Store
  <2>2. index_snapshot' # EmptyStore
    BY <2>1 DEF EmptyStore
  <2>3. EmptyStore' = EmptyStore
    BY DEF EmptyStore
  <2>4. QED
    BY <2>2, <2>3 DEF LocalOK
<1>3. QED
  BY <1>1, <1>2

\* What a restart comes back with is inductive, the flusher's steps included.
LEMMA LocalStep ==
    ASSUME FlushInv, LocalOK, [Next]_vars
    PROVE  LocalOK'
BY LocalWrite, LocalCheckpoint, LocalFinish, LocalOpen, LocalFrame, NoLongerLocal
   DEF Next, FlushInv

\* As long as no index snapshot was written and the flusher has cut nothing
\* that snapshot.bin lacks, the store a process works on, after any number of
\* crashes and restarts, is the one its clients were promised.
THEOREM RestartKeepsPromise == Spec => []DurableUnlessCut
<1>1. Init => IInv
  BY FlushInit, LocalInit DEF IInv
<1>2. IInv /\ [Next]_vars => IInv'
  BY FlushStep, LocalStep DEF IInv
<1>3. IInv => DurableUnlessCut
  BY DEF IInv, LocalOK, DurableUnlessCut
<1>4. QED
  BY <1>1, <1>2, <1>3, PTL DEF Spec
=============================================================================
