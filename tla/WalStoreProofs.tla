--------------------------- MODULE WalStoreProofs ---------------------------
(***************************************************************************)
(* Theorems about WalStore for every set of operations, every checkpoint   *)
(* threshold and logs of any length.                                       *)
(***************************************************************************)
EXTENDS WalStore, CollectionStoreProofs, SequenceTheorems

----------------------------------------------------------------------------
(* Frames *)

\* What append_batch writes: one whole frame for each operation, LSNs in a row.
LEMMA FramesType ==
    ASSUME NEW first \in Nat, NEW ops \in Seq(AllOps)
    PROVE  /\ Frames(first, ops) \in Seq(Frame)
           /\ Len(Frames(first, ops)) = Len(ops)
           /\ \A j \in 1 .. Len(ops) :
                 Frames(first, ops)[j] = [lsn |-> first + j - 1, op |-> ops[j], st |-> "ok"]
<1>1. Len(ops) \in Nat
  OBVIOUS
<1>2. \A j \in 1 .. Len(ops) :
         [lsn |-> first + j - 1, op |-> ops[j], st |-> "ok"] \in Frame
  BY <1>1 DEF Frame
<1>3. Frames(first, ops) \in [1 .. Len(ops) -> Frame]
  BY <1>2, Zenon DEF Frames
<1>4. Frames(first, ops) \in Seq(Frame) /\ Len(Frames(first, ops)) = Len(ops)
  BY <1>1, <1>3
<1>5. \A j \in 1 .. Len(ops) :
         Frames(first, ops)[j] = [lsn |-> first + j - 1, op |-> ops[j], st |-> "ok"]
  BY Zenon DEF Frames
<1>6. QED
  BY <1>4, <1>5

\* An interrupted write leaves a prefix of the frames, of which at most the
\* last one is torn.
LEMMA PartialWriteShape ==
    ASSUME NEW fs \in Seq(Frame), NEW p \in PartialWrites(fs)
    PROVE  /\ p \in Seq(Frame) /\ Len(p) <= Len(fs)
           /\ \A j \in 1 .. Len(p) : /\ p[j].lsn = fs[j].lsn /\ p[j].op = fs[j].op
                                     /\ j < Len(p) => p[j].st = fs[j].st
<1>1. CASE \E k \in 0 .. Len(fs) : p = SubSeq(fs, 1, k)
  <2>1. PICK k \in 0 .. Len(fs) : p = SubSeq(fs, 1, k)
    BY <1>1
  <2>2. p \in Seq(Frame) /\ Len(p) = k /\ \A j \in 1 .. k : p[j] = fs[j]
    BY <2>1
  <2>3. QED
    BY <2>2
<1>2. CASE \E k \in 1 .. Len(fs), t \in {"short", "bad"} :
              p = Append(SubSeq(fs, 1, k - 1), [fs[k] EXCEPT !.st = t])
  <2>1. PICK k \in 1 .. Len(fs), t \in {"short", "bad"} :
              p = Append(SubSeq(fs, 1, k - 1), [fs[k] EXCEPT !.st = t])
    BY <1>2
  <2> DEFINE q == SubSeq(fs, 1, k - 1)
             torn == [fs[k] EXCEPT !.st = t]
  <2>2. q \in Seq(Frame) /\ Len(q) = k - 1 /\ \A j \in 1 .. k - 1 : q[j] = fs[j]
    OBVIOUS
  <2>3. torn \in Frame /\ torn.lsn = fs[k].lsn /\ torn.op = fs[k].op
    <3>1. fs[k] \in Frame
      OBVIOUS
    <3>2. QED
      BY <3>1 DEF Frame
  <2> HIDE DEF q, torn
  <2>4. /\ Append(q, torn) \in Seq(Frame) /\ Len(Append(q, torn)) = k
        /\ \A j \in 1 .. k - 1 : Append(q, torn)[j] = fs[j]
        /\ Append(q, torn)[k] = torn
    BY <2>2, <2>3
  <2>5. p = Append(q, torn)
    BY <2>1 DEF q, torn
  <2>6. QED
    BY <2>3, <2>4, <2>5
<1>3. QED
  BY <1>1, <1>2 DEF PartialWrites

----------------------------------------------------------------------------
(* Types *)

\* A call that was cut off may have left a store for every prefix.
LEMMA UncertainType ==
    ASSUME worlds \in SUBSET Store, NEW ops \in Singles \cup Batches
    PROVE  Uncertain(ops) \in SUBSET Store
BY UptoType DEF Uncertain

\* Every variable of WalManager, of its files and of the promise keeps its
\* type, at any size of the instance.
THEOREM TypeCorrect == Spec => []TypeOK
<1>1. Init => TypeOK
  BY DEF Init, TypeOK, Phases, EmptyStore, Store
<1>2. TypeOK /\ [Next]_vars => TypeOK'
  <2> SUFFICES ASSUME TypeOK, [Next]_vars PROVE TypeOK'
    OBVIOUS
  <2> USE DEF TypeOK
  <2>0. EmptyStore \in Store
    BY DEF EmptyStore, Store
  <2>1. ASSUME NEW op \in Ops, LogAndApply(op) PROVE TypeOK'
    <3>1. op \in AllOps /\ <<op>> \in Seq(AllOps)
      BY OpsAssumption
    <3>2. log' \in Seq(Frame) /\ wbuf' \in Seq(Frame)
      <4>1. Frames(next_lsn, <<op>>) \in Seq(Frame)
        BY <3>1, FramesType
      <4>2. QED
        BY <2>1, <4>1 DEF LogAndApply, AppendToLog
    <3>3. mem' \in Store /\ worlds' \in SUBSET Store
      BY <2>1, <3>1, ApplyLiveType DEF LogAndApply
    <3>4. phase' \in Phases /\ phase = "serving" /\ phase' # "replaying"
      BY <2>1 DEF LogAndApply, Phases
    <3>5. pos' = 0 /\ pos' \in 0 .. Len(log')
      BY <2>1, <3>2, <3>4 DEF LogAndApply
    <3>6. next_lsn' \in Nat \ {0} /\ bytes_written' \in Nat
      BY <2>1, <3>1 DEF LogAndApply, AppendToLog
    <3>7. /\ wal_entries' \in Nat /\ entries_written' \in Nat
          /\ entries_since_checkpoint' \in Nat
      BY <2>1 DEF LogAndApply
    <3>8. snapshot_lsn' \in Nat /\ snap' \in [lsn : Nat, store : Store]
      BY <2>1 DEF LogAndApply
    <3>9. QED
      BY ONLY <3>2, <3>3, <3>4, <3>5, <3>6, <3>7, <3>8 DEF TypeOK
  <2>2. ASSUME NEW ops \in AcceptedBatches, InsertBatch(ops) PROVE TypeOK'
    <3>1. ops \in Batches
      BY DEF AcceptedBatches
    <3>2. /\ RowsInto(ops[1].c, ops) /\ ops[1].c \in Collections
          /\ Len(ops) \in Nat \ {0} /\ ops \in Seq(AllOps)
      BY <3>1, BatchRowsInto
    <3>3. log' \in Seq(Frame) /\ wbuf' \in Seq(Frame)
      <4>1. Frames(next_lsn, ops) \in Seq(Frame)
        BY <3>2, FramesType
      <4>2. QED
        BY <2>2, <4>1 DEF InsertBatch, AppendToLog
    <3>4. mem' \in Store /\ worlds' \in SUBSET Store
      BY <2>2, <3>2, ApplyBatchType DEF InsertBatch
    <3>5. next_lsn' \in Nat \ {0} /\ bytes_written' \in Nat
      BY <2>2, <3>2 DEF InsertBatch, AppendToLog
    <3>6. pos' = 0 /\ phase' \in Phases
      BY <2>2 DEF InsertBatch
    <3>7. QED
      BY <2>2, <3>3, <3>4, <3>5, <3>6 DEF InsertBatch
  <2>3. ASSUME NEW ops \in Requests, AppendFails(ops) PROVE TypeOK'
    <3>1. ops \in Singles \cup Batches
      BY DEF Requests, AcceptedBatches
    <3>2. wbuf \o Frames(next_lsn, ops) \in Seq(Frame)
      <4>1. ops \in Seq(AllOps)
        BY <3>1, RequestType
      <4>2. Frames(next_lsn, ops) \in Seq(Frame)
        BY <4>1, FramesType
      <4>3. QED
        BY <4>2
    <3>3. log' \in Seq(Frame) /\ wbuf' \in Seq(Frame)
      <4>1. \A p \in PartialWrites(wbuf \o Frames(next_lsn, ops)) : p \in Seq(Frame)
        BY <3>2, PartialWriteShape
      <4>2. \A p \in PartialWrites(wbuf \o Frames(next_lsn, ops)) : log \o p \in Seq(Frame)
        BY <4>1
      <4>3. CASE wbuf' = wbuf \o Frames(next_lsn, ops) /\ log' = log
        BY <3>2, <4>3
      <4>4. CASE /\ wbuf' = <<>>
                 /\ \E p \in PartialWrites(wbuf \o Frames(next_lsn, ops)) : log' = log \o p
        BY <4>2, <4>4
      <4>5. QED
        BY <2>3, <4>3, <4>4 DEF AppendFails
    <3>4. worlds' \in SUBSET Store
      BY <2>3, <3>1, UncertainType DEF AppendFails
    <3>5. pos' = 0
      BY <2>3 DEF AppendFails
    <3>6. QED
      BY <2>3, <3>3, <3>4, <3>5 DEF AppendFails, counters
  <2>4. ASSUME NEW ops \in Requests, CrashInAppend(ops) PROVE TypeOK'
    <3>1. ops \in Singles \cup Batches
      BY DEF Requests, AcceptedBatches
    <3>2. wbuf \o Frames(next_lsn, ops) \in Seq(Frame)
      <4>1. ops \in Seq(AllOps)
        BY <3>1, RequestType
      <4>2. Frames(next_lsn, ops) \in Seq(Frame)
        BY <4>1, FramesType
      <4>3. QED
        BY <4>2
    <3>3. log' \in Seq(Frame) /\ wbuf' \in Seq(Frame)
      <4>1. \A p \in PartialWrites(wbuf \o Frames(next_lsn, ops)) : p \in Seq(Frame)
        BY <3>2, PartialWriteShape
      <4>2. \A p \in PartialWrites(wbuf \o Frames(next_lsn, ops)) : log \o p \in Seq(Frame)
        BY <4>1
      <4>3. QED
        BY <2>4, <3>2, <4>2 DEF CrashInAppend
    <3>4. worlds' \in SUBSET Store
      BY <2>4, <3>1, UncertainType DEF CrashInAppend
    <3>5. QED
      BY <2>0, <2>4, <3>3, <3>4 DEF CrashInAppend, Volatile, Phases
  <2>5. CASE Checkpoint
    BY <2>5 DEF Checkpoint, Phases, counters, disk
  <2>6. CASE CheckpointRename
    BY <2>6 DEF CheckpointRename, RenameAt, Phases
  <2>7. CASE CheckpointTruncate
    BY <2>7 DEF CheckpointTruncate, Phases
  <2>8. CASE CheckpointFails
    <3>1. log \o wbuf \in Seq(Frame)
      OBVIOUS
    <3>2. log' \in Seq(Frame) /\ wbuf' \in Seq(Frame)
      <4>1. CASE UNCHANGED <<wbuf, log>>
        BY <4>1
      <4>2. CASE log' = log \o wbuf /\ wbuf' = <<>>
        BY <3>1, <4>2
      <4>3. QED
        BY <2>8, <4>1, <4>2 DEF CheckpointFails
    <3>3. pos' = 0 /\ phase' \in Phases
      BY <2>8 DEF CheckpointFails, Phases
    <3>4. QED
      BY <2>8, <3>2, <3>3 DEF CheckpointFails, counters
  <2>9. CASE Crash
    <3>1. log' \in Seq(Frame) /\ wbuf' \in Seq(Frame)
      <4>1. \A p \in PartialWrites(wbuf) : p \in Seq(Frame)
        BY PartialWriteShape
      <4>2. QED
        BY <2>9, <4>1 DEF Crash
    <3>2. QED
      BY <2>0, <2>9, <3>1 DEF Crash, Volatile, Phases
  <2>10. CASE Open
    BY <2>10 DEF Open, Volatile, Phases, disk
  <2>11. CASE ReplayEntry
    <3>1. log[pos + 1] \in Frame /\ pos + 1 \in 0 .. Len(log)
      BY <2>11 DEF ReplayEntry
    <3>2. log[pos + 1].lsn \in Nat /\ log[pos + 1].op \in AllOps
      BY <3>1 DEF Frame
    <3>3. mem' \in Store
      BY <2>11, <3>2, ReplayType DEF ReplayEntry
    <3>4. next_lsn' \in Nat \ {0} /\ entries_since_checkpoint' \in Nat
      <4>1. CASE log[pos + 1].lsn <= snapshot_lsn
        BY <2>11, <4>1 DEF ReplayEntry
      <4>2. CASE ~(log[pos + 1].lsn <= snapshot_lsn)
        BY <2>11, <3>2, <4>2 DEF ReplayEntry
      <4>3. QED
        BY <4>1, <4>2
    <3>5. QED
      BY <2>11, <3>1, <3>3, <3>4 DEF ReplayEntry, disk
  <2>12. CASE OpenFinish
    BY <2>12 DEF OpenFinish, Phases, disk
  <2>13. CASE OpenFails
    BY <2>0, <2>13 DEF OpenFails, Volatile, Phases, disk
  <2>14. CASE UNCHANGED vars
    BY <2>14 DEF vars, counters, disk
  <2>15. QED
    BY <2>1, <2>2, <2>3, <2>4, <2>5, <2>6, <2>7, <2>8, <2>9, <2>10, <2>11,
       <2>12, <2>13, <2>14 DEF Next
<1>3. QED
  BY <1>1, <1>2, PTL DEF Spec

----------------------------------------------------------------------------
(* The snapshot *)

\* While a process runs, the snapshot is below the next LSN.
SnapBelow ==
    /\ phase # "down" => snap.lsn < next_lsn
    /\ phase = "replaying" => snapshot_lsn = snap.lsn

\* No step brings the snapshot's LSN up to the next one to be used.
LEMMA SnapBelowStep ==
    ASSUME TypeOK, SnapBelow, [Next]_vars
    PROVE  SnapBelow'
<1> USE DEF SnapBelow
<1>0. snap.lsn \in Nat /\ next_lsn \in Nat \ {0} /\ snapshot_lsn \in Nat
  BY DEF TypeOK
<1>1. ASSUME NEW ops \in Singles \cup Batches, phase = "serving", AppendToLog(ops),
             phase' # "replaying", snap' = snap
      PROVE  SnapBelow'
  <2>1. Len(ops) \in Nat
    BY RequestType
  <2>2. QED
    BY <1>0, <1>1, <2>1 DEF AppendToLog
<1>2. ASSUME NEW op \in Ops, LogAndApply(op)
      PROVE  SnapBelow'
  BY <1>1, <1>2 DEF LogAndApply, Singles
<1>3. ASSUME NEW ops \in AcceptedBatches, InsertBatch(ops)
      PROVE  SnapBelow'
  BY <1>1, <1>3 DEF InsertBatch, AcceptedBatches
<1>4. CASE Open
  BY <1>0, <1>4 DEF Open, Volatile, disk
<1>5. CASE ReplayEntry
  <2>1. phase = "replaying" /\ phase' = "replaying" /\ snap' = snap
          /\ snapshot_lsn' = snapshot_lsn
    BY <1>5 DEF ReplayEntry, disk
  <2>2. log[pos + 1] \in Frame
    BY <1>5 DEF ReplayEntry, TypeOK
  <2>3. log[pos + 1].lsn \in Nat
    BY <2>2 DEF Frame
  <2>4. CASE log[pos + 1].lsn <= snapshot_lsn
    BY <1>5, <2>1, <2>4 DEF ReplayEntry
  <2>5. CASE ~(log[pos + 1].lsn <= snapshot_lsn)
    <3>1. next_lsn' = log[pos + 1].lsn + 1
      BY <1>5, <2>5 DEF ReplayEntry
    <3>2. QED
      BY <1>0, <2>1, <2>3, <2>5, <3>1
  <2>6. QED
    BY <2>4, <2>5
<1>6. CASE CheckpointRename
  BY <1>0, <1>6 DEF CheckpointRename, RenameAt
<1>7. CASE \/ Checkpoint \/ CheckpointTruncate \/ CheckpointFails \/ Crash
           \/ OpenFinish \/ OpenFails \/ UNCHANGED vars
  BY <1>7 DEF Checkpoint, CheckpointTruncate, CheckpointFails, Crash, OpenFinish,
              OpenFails, counters, disk, vars
<1>8. CASE \E ops \in Requests : AppendFails(ops) \/ CrashInAppend(ops)
  BY <1>8 DEF AppendFails, CrashInAppend, counters
<1>9. QED
  BY <1>2, <1>3, <1>4, <1>5, <1>6, <1>7, <1>8 DEF Next

\* Whatever fails, a checkpoint never puts an older snapshot in place of a
\* newer one.
THEOREM SnapshotNeverGoesBack == Spec => SnapshotAdvances
<1>1. Init => SnapBelow
  BY DEF Init, SnapBelow
<1>2. TypeOK /\ SnapBelow /\ [Next]_vars => SnapBelow'
  BY SnapBelowStep
<1>3. TypeOK /\ SnapBelow /\ [Next]_vars => [snap'.lsn >= snap.lsn]_snap
  <2> SUFFICES ASSUME TypeOK, SnapBelow, [Next]_vars, snap' # snap
               PROVE  snap'.lsn >= snap.lsn
    OBVIOUS
  <2>1. CheckpointRename
    BY DEF Next, LogAndApply, InsertBatch, AppendFails, CrashInAppend, Checkpoint,
           CheckpointTruncate, CheckpointFails, Crash, Open, ReplayEntry, OpenFinish,
           OpenFails, disk, vars
  <2>2. QED
    BY <2>1 DEF CheckpointRename, RenameAt, SnapBelow, TypeOK
<1>4. QED
  BY <1>1, <1>2, <1>3, TypeCorrect, PTL DEF Spec, SnapshotAdvances

----------------------------------------------------------------------------
(* LSN order, for every instance in which an append or a checkpoint that   *)
(* returns did what it says (AppendMayFail = FALSE): a failed append that  *)
(* left frames behind is followed by an entry that reuses their LSNs.      *)

Read(lg, i) == i \in 1 .. Len(lg) /\ \A j \in 1 .. i : lg[j].st = "ok"

Ordered(lg) == \A i, j \in 1 .. Len(lg) : i < j /\ Read(lg, j) => lg[i].lsn < lg[j].lsn

Below(lg, n) == \A i \in 1 .. Len(lg) : Read(lg, i) => lg[i].lsn < n

Up == phase \in {"serving", "ckpt", "ckpt_trunc"}

\* The invariant behind LsnOrder.
LsnInv ==
    /\ wbuf = <<>>
    /\ Ordered(log)
    /\ Up => snap.lsn < next_lsn /\ Below(log, next_lsn)
    /\ phase = "replaying" =>
          /\ snapshot_lsn = snap.lsn /\ snap.lsn < next_lsn
          /\ \A i \in 1 .. pos : log[i].st = "ok" /\ log[i].lsn < next_lsn

\* Frames numbered from a fresh LSN keep the order, torn or not.
LEMMA AppendOrdered ==
    ASSUME NEW lg \in Seq(Frame), NEW p \in Seq(Frame), NEW n \in Nat,
           Ordered(lg), Below(lg, n),
           \A j \in 1 .. Len(p) : p[j].lsn = n + j - 1
    PROVE  Ordered(lg \o p) /\ Below(lg \o p, n + Len(p))
<1> DEFINE q == lg \o p
<1>0. Len(lg) \in Nat /\ Len(p) \in Nat
  OBVIOUS
<1>1. q \in Seq(Frame) /\ Len(q) = Len(lg) + Len(p)
  OBVIOUS
<1>2. \A i \in 1 .. Len(lg) : q[i] = lg[i]
  OBVIOUS
<1>3. \A i \in 1 .. Len(q) : i > Len(lg) => q[i] = p[i - Len(lg)]
  OBVIOUS
<1>4. \A i \in 1 .. Len(q) : q[i].lsn \in Nat
  <2>1. \A i \in 1 .. Len(q) : q[i] \in Frame
    BY <1>1
  <2>2. QED
    BY <2>1 DEF Frame
<1> HIDE DEF q
<1>5. ASSUME NEW i \in 1 .. Len(q), i > Len(lg)
      PROVE  q[i].lsn = n + i - Len(lg) - 1
  BY <1>0, <1>1, <1>3, <1>5
<1>6. ASSUME NEW i \in 1 .. Len(lg), NEW j \in i .. Len(q), Read(q, j)
      PROVE  Read(lg, i)
  <2>1. \A k \in 1 .. j : q[k].st = "ok"
    BY <1>6 DEF Read
  <2>2. \A k \in 1 .. i : k \in 1 .. j /\ k \in 1 .. Len(lg)
    BY <1>0, <1>1
  <2>3. \A k \in 1 .. i : lg[k].st = "ok"
    BY <1>2, <2>1, <2>2
  <2>4. QED
    BY <2>3 DEF Read
<1>7. ASSUME NEW i \in 1 .. Len(q), NEW j \in 1 .. Len(q), i < j, Read(q, j)
      PROVE  q[i].lsn < q[j].lsn
  <2>1. CASE j <= Len(lg)
    <3>1. i \in 1 .. Len(lg) /\ j \in 1 .. Len(lg) /\ Read(lg, j)
      BY <1>0, <1>1, <1>6, <1>7, <2>1
    <3>2. QED
      BY <1>2, <1>7, <3>1 DEF Ordered
  <2>2. CASE i > Len(lg)
    <3>1. j > Len(lg) /\ i < j
      BY <1>0, <1>1, <1>7, <2>2
    <3>2. q[i].lsn = n + i - Len(lg) - 1
      BY <1>5, <2>2
    <3>3. q[j].lsn = n + j - Len(lg) - 1
      BY <1>5, <3>1
    <3>4. QED
      BY <1>0, <1>1, <3>1, <3>2, <3>3
  <2>3. CASE i <= Len(lg) /\ j > Len(lg)
    <3>1. i \in 1 .. Len(lg) /\ Read(lg, i)
      BY <1>0, <1>1, <1>6, <1>7, <2>3
    <3>2. q[i].lsn < n
      BY <1>2, <3>1 DEF Below
    <3>3. q[j].lsn >= n
      BY <1>0, <1>1, <1>5, <2>3
    <3>4. QED
      BY <1>4, <3>2, <3>3
  <2>4. QED
    BY <1>0, <1>1, <2>1, <2>2, <2>3
<1>8. ASSUME NEW i \in 1 .. Len(q), Read(q, i)
      PROVE  q[i].lsn < n + Len(p)
  <2>1. CASE i <= Len(lg)
    <3>1. i \in 1 .. Len(lg) /\ Read(lg, i)
      BY <1>0, <1>1, <1>6, <1>8, <2>1
    <3>2. q[i].lsn < n
      BY <1>2, <3>1 DEF Below
    <3>3. QED
      BY <1>0, <1>4, <3>2
  <2>2. CASE i > Len(lg)
    BY <1>0, <1>1, <1>5, <2>2
  <2>3. QED
    BY <1>0, <1>1, <2>1, <2>2
<1>9. QED
  BY <1>7, <1>8 DEF Ordered, Below, q

\* What an append left of the frames of a request, complete or not.
LEMMA PartialFrames ==
    ASSUME NEW n \in Nat \ {0}, NEW ops \in Singles \cup Batches,
           NEW p \in PartialWrites(Frames(n, ops))
    PROVE  /\ p \in Seq(Frame) /\ Len(p) <= Len(ops)
           /\ \A j \in 1 .. Len(p) : /\ p[j].lsn = n + j - 1 /\ p[j].op = ops[j]
                                     /\ j < Len(p) => p[j].st = "ok"
<1>1. ops \in Seq(AllOps) /\ Len(ops) \in Nat
  BY RequestType
<1> DEFINE fs == Frames(n, ops)
<1>2. /\ fs \in Seq(Frame) /\ Len(fs) = Len(ops)
      /\ \A j \in 1 .. Len(ops) : fs[j] = [lsn |-> n + j - 1, op |-> ops[j], st |-> "ok"]
  BY <1>1, FramesType
<1> HIDE DEF fs
<1>3. p \in PartialWrites(fs)
  BY DEF fs
<1>4. /\ p \in Seq(Frame) /\ Len(p) <= Len(fs)
      /\ \A j \in 1 .. Len(p) : /\ p[j].lsn = fs[j].lsn /\ p[j].op = fs[j].op
                                /\ j < Len(p) => p[j].st = fs[j].st
  BY <1>2, <1>3, PartialWriteShape
<1>5. \A j \in 1 .. Len(p) : j \in 1 .. Len(ops)
  BY <1>1, <1>2, <1>4
<1>6. ASSUME NEW j \in 1 .. Len(p)
      PROVE  fs[j].lsn = n + j - 1 /\ fs[j].op = ops[j] /\ fs[j].st = "ok"
  <2>1. fs[j] = [lsn |-> n + j - 1, op |-> ops[j], st |-> "ok"]
    BY <1>2, <1>5
  <2>2. QED
    BY <2>1
<1>7. QED
  BY <1>2, <1>4, <1>6

\* A crash with nothing in the buffer leaves the log as it is.
LEMMA NothingBuffered ==
    ASSUME NEW p \in PartialWrites(<<>>)
    PROVE  p = <<>>
BY DEF PartialWrites

\* Under reliable appends, the LSN invariant is inductive.
LEMMA LsnInvStep ==
    ASSUME AppendMayFail = FALSE, TypeOK, TypeOK', LsnInv, [Next]_vars
    PROVE  LsnInv'
<1> USE DEF LsnInv
<1>0. log \in Seq(Frame) /\ next_lsn \in Nat \ {0} /\ snap.lsn \in Nat
        /\ snapshot_lsn \in Nat /\ pos \in 0 .. Len(log)
  BY DEF TypeOK
<1>1. ASSUME NEW ops \in Singles \cup Batches, phase = "serving", AppendToLog(ops),
             phase' # "replaying", snap' = snap
      PROVE  LsnInv'
  <2>1. ops \in Seq(AllOps) /\ Len(ops) \in Nat \ {0}
    BY RequestType
  <2> DEFINE fs == Frames(next_lsn, ops)
  <2>2. /\ fs \in Seq(Frame) /\ Len(fs) = Len(ops)
        /\ \A j \in 1 .. Len(ops) : fs[j] = [lsn |-> next_lsn + j - 1, op |-> ops[j], st |-> "ok"]
    BY <1>0, <2>1, FramesType
  <2>3. log' = log \o fs /\ wbuf' = <<>> /\ next_lsn' = next_lsn + Len(ops)
    BY <1>0, <1>1 DEF AppendToLog
  <2> HIDE DEF fs
  <2>4. ASSUME NEW j \in 1 .. Len(fs) PROVE fs[j].lsn = next_lsn + j - 1
    <3>1. fs[j] = [lsn |-> next_lsn + j - 1, op |-> ops[j], st |-> "ok"]
      BY <2>2
    <3>2. QED
      BY <3>1
  <2>5. Ordered(log) /\ Below(log, next_lsn) /\ snap.lsn < next_lsn
    BY <1>1 DEF Up
  <2>6. Ordered(log \o fs) /\ Below(log \o fs, next_lsn + Len(fs))
    BY <1>0, <2>2, <2>4, <2>5, AppendOrdered
  <2>7. Ordered(log') /\ Below(log', next_lsn')
    BY <2>2, <2>3, <2>6
  <2>8. snap'.lsn < next_lsn'
    BY <1>0, <1>1, <2>1, <2>3, <2>5
  <2>9. QED
    BY <1>1, <2>3, <2>7, <2>8 DEF Ordered, Below
<1>2. ASSUME NEW op \in Ops, LogAndApply(op)
      PROVE  LsnInv'
  <2>1. <<op>> \in Singles
    BY DEF Singles
  <2>2. phase = "serving" /\ AppendToLog(<<op>>) /\ phase' # "replaying" /\ snap' = snap
    BY <1>2 DEF LogAndApply
  <2>3. QED
    BY <1>1, <2>1, <2>2
<1>3. ASSUME NEW ops \in AcceptedBatches, InsertBatch(ops)
      PROVE  LsnInv'
  <2>1. ops \in Batches
    BY DEF AcceptedBatches
  <2>2. phase = "serving" /\ AppendToLog(ops) /\ phase' # "replaying" /\ snap' = snap
    BY <1>3 DEF InsertBatch
  <2>3. QED
    BY <1>1, <2>1, <2>2
<1>4. ASSUME NEW ops \in Requests, AppendFails(ops)
      PROVE  LsnInv'
  BY <1>4 DEF AppendFails
<1>5. ASSUME NEW ops \in Requests, CrashInAppend(ops)
      PROVE  LsnInv'
  <2>1. ops \in Singles \cup Batches
    BY DEF Requests, AcceptedBatches
  <2>2. wbuf \o Frames(next_lsn, ops) = Frames(next_lsn, ops)
    <3>1. ops \in Seq(AllOps)
      BY <2>1, RequestType
    <3>2. Frames(next_lsn, ops) \in Seq(Frame)
      BY <1>0, <3>1, FramesType
    <3>3. QED
      BY <3>2
  <2>3. PICK p \in PartialWrites(Frames(next_lsn, ops)) : log' = log \o p
    BY <1>5, <2>2 DEF CrashInAppend
  <2>4. p \in Seq(Frame) /\ \A j \in 1 .. Len(p) : p[j].lsn = next_lsn + j - 1
    BY <1>0, <2>1, <2>3, PartialFrames
  <2>5. Ordered(log) /\ Below(log, next_lsn)
    BY <1>5 DEF CrashInAppend, Up
  <2>6. Ordered(log')
    BY <1>0, <2>3, <2>4, <2>5, AppendOrdered
  <2>7. wbuf' = <<>> /\ phase' = "down"
    BY <1>5 DEF CrashInAppend
  <2>8. QED
    BY <2>6, <2>7 DEF Up
<1>6. CASE Checkpoint
  BY <1>6 DEF Checkpoint, Up, counters, disk
<1>7. CASE CheckpointRename
  BY <1>0, <1>7 DEF CheckpointRename, RenameAt, Up
<1>8. CASE CheckpointTruncate
  <2>1. log' = <<>> /\ wbuf' = <<>> /\ phase' = "serving" /\ phase = "ckpt_trunc"
          /\ next_lsn' = next_lsn /\ snap' = snap
    BY <1>8 DEF CheckpointTruncate
  <2>2. Ordered(log') /\ Below(log', next_lsn')
    BY <2>1 DEF Ordered, Below
  <2>3. QED
    BY <2>1, <2>2 DEF Up
<1>9. CASE CheckpointFails
  BY <1>9 DEF CheckpointFails
<1>10. CASE Crash
  <2>1. log' = log /\ wbuf' = <<>> /\ phase' = "down"
    BY <1>0, <1>10, NothingBuffered DEF Crash
  <2>2. QED
    BY <2>1 DEF Up
<1>11. CASE Open
  <2>1. log' = log /\ wbuf' = wbuf /\ phase' = "replaying" /\ snap' = snap
         /\ pos' = 0 /\ snapshot_lsn' = snap.lsn /\ next_lsn' = snap.lsn + 1
    BY <1>11 DEF Open, Volatile, disk
  <2>2. QED
    BY <1>0, <2>1 DEF Up
<1>12. CASE ReplayEntry
  <2>1. /\ phase = "replaying" /\ phase' = "replaying" /\ pos < Len(log)
        /\ log[pos + 1].st = "ok" /\ pos' = pos + 1
        /\ log' = log /\ snap' = snap /\ wbuf' = wbuf /\ snapshot_lsn' = snapshot_lsn
    BY <1>12 DEF ReplayEntry, disk
  <2>2. \A i \in 1 .. pos + 1 : i \in 1 .. pos \/ i = pos + 1
    BY <1>0
  <2>3. \A i \in 1 .. pos + 1 : log[i].st = "ok"
    BY <2>1, <2>2
  <2>4. pos + 1 \in 1 .. Len(log) /\ Read(log, pos + 1)
    BY <1>0, <2>1, <2>3 DEF Read
  <2>5. \A i \in 1 .. pos + 1 : log[i] \in Frame
    BY <1>0, <2>1
  <2>6. \A i \in 1 .. pos + 1 : log[i].lsn \in Nat
    BY <2>5 DEF Frame
  <2>7. snap.lsn < next_lsn' /\ \A i \in 1 .. pos + 1 : log[i].lsn < next_lsn'
    <3>1. CASE log[pos + 1].lsn <= snapshot_lsn
      <4>1. next_lsn' = next_lsn
        BY <1>12, <3>1 DEF ReplayEntry
      <4>2. QED
        BY <1>0, <2>1, <2>2, <2>6, <3>1, <4>1
    <3>2. CASE ~(log[pos + 1].lsn <= snapshot_lsn)
      <4>1. next_lsn' = log[pos + 1].lsn + 1
        BY <1>12, <3>2 DEF ReplayEntry
      <4>2. pos + 1 \in 1 .. pos + 1
        BY <1>0
      <4>3. snap.lsn < next_lsn'
        BY <1>0, <2>1, <2>6, <3>2, <4>1, <4>2
      <4>4. \A i \in 1 .. pos : i \in 1 .. Len(log) /\ i < pos + 1
        BY <1>0
      <4>5. \A i \in 1 .. pos : log[i].lsn < log[pos + 1].lsn
        BY <2>4, <4>4 DEF Ordered
      <4>6. \A i \in 1 .. pos + 1 : log[i].lsn <= log[pos + 1].lsn
        BY <2>2, <2>6, <4>2, <4>5
      <4>7. QED
        BY <2>6, <4>1, <4>2, <4>3, <4>6
    <3>3. QED
      BY <3>1, <3>2
  <2>8. QED
    BY <2>1, <2>3, <2>7 DEF Up
<1>13. CASE OpenFinish
  <2>1. /\ phase = "replaying" /\ phase' = "serving" /\ EndOfLog
        /\ log' = log /\ snap' = snap /\ wbuf' = wbuf /\ next_lsn' = next_lsn
    BY <1>13 DEF OpenFinish, disk
  <2>2. ASSUME NEW i \in 1 .. Len(log), Read(log, i)
        PROVE  i \in 1 .. pos
    <3>1. i > pos => log[pos + 1].st = "ok"
      BY <1>0, <2>2 DEF Read
    <3>2. QED
      BY <1>0, <2>1, <3>1 DEF EndOfLog
  <2>3. Below(log, next_lsn)
    BY <2>1, <2>2 DEF Below
  <2>4. QED
    BY <2>1, <2>3
<1>14. CASE OpenFails
  BY <1>14 DEF OpenFails, Up, disk
<1>15. CASE UNCHANGED vars
  BY <1>15 DEF vars, counters, disk, Up
<1>16. QED
  BY <1>2, <1>3, <1>4, <1>5, <1>6, <1>7, <1>8, <1>9, <1>10, <1>11, <1>12,
     <1>13, <1>14, <1>15 DEF Next

\* The order of LSNs is an invariant without I/O errors.
LEMMA LsnInvAlways ==
    ASSUME AppendMayFail = FALSE
    PROVE  Spec => []LsnInv
<1>1. Init => LsnInv
  BY DEF Init, LsnInv, Ordered, Up
<1>2. TypeOK /\ TypeOK' /\ LsnInv /\ [Next]_vars => LsnInv'
  BY LsnInvStep
<1>3. QED
  BY <1>1, <1>2, TypeCorrect, PTL DEF Spec

\* The LSNs recovery reads increase, and the server never hands out one that
\* is in the log or covered by the snapshot, whatever crashes came before.
THEOREM LsnsOrdered ==
    ASSUME AppendMayFail = FALSE
    PROVE  Spec => []LsnOrder
<1>1. TypeOK /\ LsnInv => LsnOrder
  <2> SUFFICES ASSUME TypeOK, LsnInv PROVE LsnOrder
    OBVIOUS
  <2>1. \A i : Readable(i) <=> Read(log, i)
    BY DEF Readable, Read
  <2>2. phase \notin {"down", "replaying"} => Up
    BY DEF TypeOK, Phases, Up
  <2>3. QED
    BY <2>1, <2>2 DEF LsnOrder, LsnInv, Ordered, Below
<1>2. QED
  BY <1>1, TypeCorrect, LsnInvAlways, PTL

----------------------------------------------------------------------------
(* The image of the disk *)

\* Replaying the readable frames 1 .. n of lg over the snapshot sn passes
\* through the stores img[0], img[1], ... img[n].
Image(sn, lg, img, n) ==
    /\ n \in 0 .. Len(lg)
    /\ \A i \in 1 .. n : lg[i].st = "ok"
    /\ n < Len(lg) => lg[n + 1].st # "ok"
    /\ img \in [0 .. n -> Store]
    /\ img[0] = sn.store
    /\ \A j \in 1 .. n :
          img[j] = IF lg[j].lsn <= sn.lsn THEN img[j - 1]
                   ELSE ReplayOp(img[j - 1], lg[j].op)

\* The frames p are those of the operations ops, above the snapshot, and
\* exactly the first k of them read back.
Grows(sn, p, ops, k) ==
    /\ k \in 0 .. Len(p)
    /\ \A j \in 1 .. k : p[j].st = "ok" /\ p[j].lsn > sn.lsn /\ p[j].op = ops[j]
    /\ k < Len(p) => p[k + 1].st # "ok"

\* Frames behind a torn one are never read.
LEMMA ImageKeeps ==
    ASSUME NEW sn, NEW lg \in Seq(Frame), NEW p \in Seq(Frame), NEW img, NEW n,
           Image(sn, lg, img, n), n < Len(lg)
    PROVE  Image(sn, lg \o p, img, n)
<1>1. n \in 0 .. Len(lg) /\ Len(lg) \in Nat /\ Len(p) \in Nat
  BY DEF Image
<1>2. Len(lg \o p) = Len(lg) + Len(p) /\ \A i \in 1 .. Len(lg) : (lg \o p)[i] = lg[i]
  OBVIOUS
<1>3. \A i \in 1 .. n : i \in 1 .. Len(lg)
  BY <1>1
<1>4. n + 1 \in 1 .. Len(lg)
  BY <1>1
<1>5. QED
  BY <1>1, <1>2, <1>3, <1>4 DEF Image

\* Frames behind the readable end of the log extend the image.
LEMMA ImageExtends ==
    ASSUME NEW sn, NEW lg \in Seq(Frame), NEW p \in Seq(Frame), NEW img,
           Image(sn, lg, img, Len(lg)), sn.lsn \in Nat,
           NEW ops, NEW k, Grows(sn, p, ops, k),
           NEW g, Walk(ops, g, k), g[0] = img[Len(lg)]
    PROVE  \E im : Image(sn, lg \o p, im, Len(lg) + k) /\ im[Len(lg) + k] = g[k]
<1> DEFINE n == Len(lg)
           q == lg \o p
           im == [j \in 0 .. n + k |-> IF j <= n THEN img[j] ELSE g[j - n]]
<1>1. n \in Nat /\ Len(p) \in Nat /\ k \in Nat /\ k \in 0 .. Len(p)
  BY DEF Grows
<1>2. /\ Len(q) = n + Len(p)
      /\ \A i \in 1 .. n : q[i] = lg[i]
      /\ \A i \in 1 .. Len(p) : q[n + i] = p[i]
  BY <1>1
<1> HIDE DEF q
<1> SUFFICES Image(sn, q, im, n + k) /\ im[n + k] = g[k]
  BY DEF q
<1>3. \A j \in 0 .. n : im[j] = img[j]
  BY <1>1
<1>4. \A j \in 0 .. k : im[n + j] = g[j]
  <2>1. im[n + 0] = g[0]
    BY <1>1
  <2>2. \A j \in 1 .. k : im[n + j] = g[j]
    BY <1>1
  <2>3. \A j \in 0 .. k : j = 0 \/ j \in 1 .. k
    BY <1>1
  <2> HIDE DEF im
  <2>4. QED
    BY <2>1, <2>2, <2>3
<1>5. im \in [0 .. n + k -> Store]
  <2>1. \A j \in 0 .. n : img[j] \in Store
    BY DEF Image
  <2>2. \A j \in 0 .. k : g[j] \in Store
    BY DEF Walk
  <2>3. QED
    BY <1>1, <2>1, <2>2
<1> HIDE DEF im
<1>6. ASSUME NEW j \in 1 .. n + k
      PROVE  /\ q[j].st = "ok"
             /\ im[j] = IF q[j].lsn <= sn.lsn THEN im[j - 1]
                        ELSE ReplayOp(im[j - 1], q[j].op)
  <2>1. CASE j <= n
    <3>1. j \in 1 .. n /\ j - 1 \in 0 .. n /\ j \in 0 .. n
      BY <1>1, <2>1
    <3>2. q[j] = lg[j] /\ im[j] = img[j] /\ im[j - 1] = img[j - 1]
      BY <1>2, <1>3, <3>1
    <3>3. QED
      BY <3>1, <3>2 DEF Image
  <2>2. CASE j > n
    <3> DEFINE h == j - n
    <3>1. h \in 1 .. k /\ h - 1 \in 0 .. k /\ h \in 0 .. k /\ h \in 1 .. Len(p)
            /\ j = n + h /\ j - 1 = n + (h - 1)
      <4> HIDE DEF n
      <4>1. j \in Nat /\ j <= n + k /\ k <= Len(p)
        BY <1>1
      <4>2. QED
        BY <1>1, <2>2, <4>1
    <3> HIDE DEF h
    <3>2. q[j] = p[h] /\ im[j] = g[h] /\ im[j - 1] = g[h - 1]
      BY <1>2, <1>4, <3>1
    <3>3. q[j].st = "ok" /\ q[j].lsn > sn.lsn /\ q[j].op = ops[h]
      BY <3>1, <3>2 DEF Grows
    <3>4. q[j].lsn \in Nat
      <4>1. p[h] \in Frame
        BY <3>1
      <4>2. QED
        BY <3>2, <4>1 DEF Frame
    <3>5. g[h] = ReplayOp(g[h - 1], ops[h])
      BY <3>1 DEF Walk
    <3>6. ~(q[j].lsn <= sn.lsn)
      BY <3>3, <3>4
    <3>7. QED
      BY <3>2, <3>3, <3>5, <3>6
  <2>3. QED
    BY <1>1, <2>1, <2>2
<1>7. n + k < Len(q) => q[n + k + 1].st # "ok"
  <2> SUFFICES ASSUME n + k < Len(q) PROVE q[n + k + 1].st # "ok"
    OBVIOUS
  <2>1. k < Len(p) /\ k + 1 \in 1 .. Len(p) /\ n + k + 1 = n + (k + 1)
    BY <1>1, <1>2
  <2>2. QED
    BY <1>2, <2>1 DEF Grows
<1>8. im[0] = sn.store
  BY <1>1, <1>3 DEF Image
<1>9. n + k \in 0 .. Len(q)
  BY <1>1, <1>2
<1>10. im[n + k] = g[k]
  BY <1>1, <1>4
<1>11. QED
  BY <1>5, <1>6, <1>7, <1>8, <1>9, <1>10 DEF Image

----------------------------------------------------------------------------
(***************************************************************************)
(* Durability, with crashes anywhere, torn frames, batches cut off in the  *)
(* middle and I/O errors.                                                  *)
(*                                                                         *)
(* The argument: replaying the log over the snapshot passes through a      *)
(* sequence of stores, the image of the disk, and recovery walks along it. *)
(* Unless the log is spoilt, its last store is a promised one (worlds) in  *)
(* every state, whatever prefix of the write buffer reaches the file.  The *)
(* same holds with the snapshot a checkpoint would take now in the place   *)
(* of the one on the disk, so a checkpoint may be renamed at any moment    *)
(* and be cut off before the truncate.  A completed append restores that:  *)
(* unless the log is spoilt, its LSNs are the highest in the log, and the  *)
(* new snapshot covers every frame recovery would read.                    *)
(***************************************************************************)

\* The two kinds of log DurableRecovery excepts: TearBuried and LsnStraddle.
Spoilt(lg) ==
    \/ \E i \in 1 .. Len(lg) - 1 : lg[i].st # "ok"
    \/ \E i, j \in 1 .. Len(lg) : i < j /\ lg[j].lsn < lg[i].lsn

\* Replaying lg over the snapshot sn ends in one of the stores W.
Ends(sn, lg, W) ==
    Spoilt(lg) \/ \E img, n : Image(sn, lg, img, n) /\ img[n] \in W

\* The same, whatever prefix of the write buffer reaches the file.
AllEnd(sn, lg, buf, W) ==
    \A k \in 0 .. Len(buf) : Ends(sn, lg \o SubSeq(buf, 1, k), W)

\* Nothing written behind a spoilt log repairs it.
LEMMA SpoiltStays ==
    ASSUME NEW lg \in Seq(Frame), NEW p \in Seq(Frame), Spoilt(lg)
    PROVE  Spoilt(lg \o p)
<1>1. Len(lg) \in Nat /\ Len(p) \in Nat /\ Len(lg \o p) = Len(lg) + Len(p)
        /\ \A i \in 1 .. Len(lg) : (lg \o p)[i] = lg[i]
  OBVIOUS
<1>2. CASE \E i \in 1 .. Len(lg) - 1 : lg[i].st # "ok"
  <2>1. PICK i \in 1 .. Len(lg) - 1 : lg[i].st # "ok"
    BY <1>2
  <2>2. i \in 1 .. Len(lg \o p) - 1 /\ i \in 1 .. Len(lg)
    BY <1>1
  <2>3. (lg \o p)[i].st # "ok"
    BY <1>1, <2>1, <2>2
  <2>4. QED
    BY <2>2, <2>3 DEF Spoilt
<1>3. CASE \E i, j \in 1 .. Len(lg) : i < j /\ lg[j].lsn < lg[i].lsn
  <2>1. PICK i \in 1 .. Len(lg), j \in 1 .. Len(lg) : i < j /\ lg[j].lsn < lg[i].lsn
    BY <1>3
  <2>2. i \in 1 .. Len(lg \o p) /\ j \in 1 .. Len(lg \o p)
    BY <1>1
  <2>3. (lg \o p)[j].lsn < (lg \o p)[i].lsn
    BY <1>1, <2>1
  <2>4. QED
    BY <2>1, <2>2, <2>3 DEF Spoilt
<1>4. QED
  BY <1>2, <1>3 DEF Spoilt

\* A frame behind a torn one buries it.
LEMMA Buries ==
    ASSUME NEW sn, NEW img, NEW n, NEW lg \in Seq(Frame), NEW p \in Seq(Frame),
           Image(sn, lg, img, n), n < Len(lg), p # <<>>
    PROVE  Spoilt(lg \o p)
<1>1. n + 1 \in 1 .. Len(lg) /\ lg[n + 1].st # "ok" /\ Len(lg) \in Nat
  BY DEF Image
<1>2. Len(p) \in Nat \ {0}
  BY EmptySeq
<1>3. n + 1 \in 1 .. Len(lg \o p) - 1 /\ (lg \o p)[n + 1] = lg[n + 1]
  BY <1>1, <1>2
<1>4. (lg \o p)[n + 1].st # "ok"
  BY <1>1, <1>3
<1>5. QED
  BY <1>3, <1>4 DEF Spoilt

\* The more stores are promised, the easier it is to end in one.
LEMMA EndsInMore ==
    ASSUME NEW sn, NEW lg, NEW W, NEW V, W \subseteq V, Ends(sn, lg, W)
    PROVE  Ends(sn, lg, V)
BY DEF Ends

\* A torn frame at the end is as good as none.
LEMMA TornEnds ==
    ASSUME NEW sn, NEW lg \in Seq(Frame), NEW f \in Frame, f.st # "ok", NEW W,
           Ends(sn, lg, W)
    PROVE  Ends(sn, Append(lg, f), W)
<1>1. Len(lg) \in Nat /\ <<f>> \in Seq(Frame) /\ <<f>> # <<>> /\ Append(lg, f) = lg \o <<f>>
  OBVIOUS
<1>2. CASE Spoilt(lg)
  BY <1>1, <1>2, SpoiltStays DEF Ends
<1>3. CASE ~Spoilt(lg)
  <2>1. PICK img, n : Image(sn, lg, img, n) /\ img[n] \in W
    BY <1>3 DEF Ends
  <2>2. CASE n < Len(lg)
    <3>1. Spoilt(lg \o <<f>>)
      BY <1>1, <2>1, <2>2, Buries
    <3>2. QED
      BY <1>1, <3>1 DEF Ends
  <2>3. CASE n = Len(lg)
    <3>1. Len(Append(lg, f)) = n + 1 /\ Append(lg, f)[n + 1] = f
            /\ \A i \in 1 .. n : Append(lg, f)[i] = lg[i]
      BY <1>1, <2>3
    <3>2. n \in 0 .. Len(Append(lg, f))
      BY <1>1, <2>3, <3>1
    <3>3. Image(sn, Append(lg, f), img, n)
      BY <2>1, <3>1, <3>2 DEF Image
    <3>4. QED
      BY <2>1, <3>3 DEF Ends
  <2>4. n \in 0 .. Len(lg)
    BY <2>1 DEF Image
  <2>5. QED
    BY <1>1, <2>2, <2>3, <2>4
<1>4. QED
  BY <1>2, <1>3

\* Whole frames at the end of the log take each store the log could end in
\* through their operations.
LEMMA ExtendEnds ==
    ASSUME NEW sn, sn.lsn \in Nat, NEW lg \in Seq(Frame), NEW p \in Seq(Frame),
           p # <<>>, NEW ops, NEW k, Grows(sn, p, ops, k), NEW W, NEW V,
           \A s \in W : \E g : Walk(ops, g, k) /\ g[0] = s /\ g[k] \in V,
           Ends(sn, lg, W)
    PROVE  Ends(sn, lg \o p, V)
<1>1. CASE Spoilt(lg)
  BY <1>1, SpoiltStays DEF Ends
<1>2. CASE ~Spoilt(lg)
  <2>1. PICK img, n : Image(sn, lg, img, n) /\ img[n] \in W
    BY <1>2 DEF Ends
  <2>2. CASE n < Len(lg)
    BY <2>1, <2>2, Buries DEF Ends
  <2>3. CASE n = Len(lg)
    <3>1. PICK g : Walk(ops, g, k) /\ g[0] = img[n] /\ g[k] \in V
      BY <2>1
    <3>2. Image(sn, lg, img, Len(lg)) /\ g[0] = img[Len(lg)] /\ Walk(ops, g, k)
      BY <2>1, <2>3, <3>1
    <3>3. \E im : Image(sn, lg \o p, im, Len(lg) + k) /\ im[Len(lg) + k] = g[k]
      BY <3>2, ImageExtends
    <3>4. QED
      BY <3>1, <3>3 DEF Ends
  <2>4. n \in 0 .. Len(lg) /\ Len(lg) \in Nat
    BY <2>1 DEF Image
  <2>5. QED
    BY <2>2, <2>3, <2>4
<1>3. QED
  BY <1>1, <1>2

\* The same, when older frames are still in the buffer: they go out first.
LEMMA ExtendBuffered ==
    ASSUME NEW sn, sn.lsn \in Nat, NEW lg \in Seq(Frame), NEW buf \in Seq(Frame),
           NEW p \in Seq(Frame), p # <<>>, NEW ops, NEW k, Grows(sn, p, ops, k),
           NEW W, NEW V,
           \A s \in W : \E g : Walk(ops, g, k) /\ g[0] = s /\ g[k] \in V,
           AllEnd(sn, lg, buf, W)
    PROVE  Ends(sn, lg \o (buf \o p), V)
<1>1. Len(buf) \in 0 .. Len(buf) /\ SubSeq(buf, 1, Len(buf)) = buf
  OBVIOUS
<1>2. Ends(sn, lg \o buf, W)
  BY <1>1 DEF AllEnd
<1>3. lg \o buf \in Seq(Frame)
  OBVIOUS
<1>4. Ends(sn, (lg \o buf) \o p, V)
  BY <1>2, <1>3, ExtendEnds
<1>5. (lg \o buf) \o p = lg \o (buf \o p)
  OBVIOUS
<1>6. QED
  BY <1>4, <1>5

\* A snapshot that covers every frame recovery reads decides alone.
LEMMA QuietEnds ==
    ASSUME NEW sn, sn.store \in Store, NEW lg \in Seq(Frame), NEW n \in 0 .. Len(lg),
           \A i \in 1 .. n : lg[i].st = "ok" /\ lg[i].lsn <= sn.lsn,
           n < Len(lg) => lg[n + 1].st # "ok",
           NEW W, sn.store \in W
    PROVE  Ends(sn, lg, W)
<1>1. PICK im : im = [j \in 0 .. n |-> sn.store]
  OBVIOUS
<1>2. im \in [0 .. n -> Store] /\ \A j \in 0 .. n : im[j] = sn.store
  BY <1>1
<1>3. 0 \in 0 .. n /\ n \in 0 .. n /\ \A j \in 1 .. n : j \in 0 .. n /\ j - 1 \in 0 .. n
  OBVIOUS
<1>4. \A j \in 1 .. n : im[j] = im[j - 1]
  BY <1>2, <1>3
<1>5. Image(sn, lg, im, n)
  BY <1>2, <1>3, <1>4 DEF Image
<1>6. QED
  BY <1>2, <1>3, <1>5 DEF Ends

\* With an empty log the snapshot decides alone.
LEMMA EmptyEnds ==
    ASSUME NEW sn, sn.store \in Store
    PROVE  Ends(sn, <<>>, {sn.store})
<1>1. Len(<<>>) = 0 /\ 0 \in 0 .. 0 /\ 1 .. 0 = {}
  OBVIOUS
<1>2. PICK im : im = [j \in 0 .. 0 |-> sn.store]
  OBVIOUS
<1>3. im \in [0 .. 0 -> Store] /\ im[0] = sn.store
  BY <1>2
<1>4. Image(sn, <<>>, im, 0)
  BY <1>1, <1>3 DEF Image
<1>5. QED
  BY <1>3, <1>4 DEF Ends

\* Whatever an interrupted write of the buffer left, torn or not, recovery
\* ends in a promised store.
LEMMA PartialEnds ==
    ASSUME NEW sn, NEW lg \in Seq(Frame), NEW buf \in Seq(Frame), NEW W,
           AllEnd(sn, lg, buf, W), NEW p \in PartialWrites(buf)
    PROVE  Ends(sn, lg \o p, W)
<1>1. CASE \E k \in 0 .. Len(buf) : p = SubSeq(buf, 1, k)
  BY <1>1 DEF AllEnd
<1>2. CASE \E k \in 1 .. Len(buf), t \in {"short", "bad"} :
              p = Append(SubSeq(buf, 1, k - 1), [buf[k] EXCEPT !.st = t])
  <2>1. PICK k \in 1 .. Len(buf), t \in {"short", "bad"} :
              p = Append(SubSeq(buf, 1, k - 1), [buf[k] EXCEPT !.st = t])
    BY <1>2
  <2> DEFINE q == SubSeq(buf, 1, k - 1)
             torn == [buf[k] EXCEPT !.st = t]
  <2>2. k - 1 \in 0 .. Len(buf) /\ q \in Seq(Frame)
    OBVIOUS
  <2>3. torn \in Frame /\ torn.st # "ok"
    <3>1. buf[k] \in Frame
      OBVIOUS
    <3>2. QED
      BY <3>1 DEF Frame
  <2>4. Ends(sn, lg \o q, W)
    BY <2>2 DEF AllEnd
  <2>5. p = Append(q, torn)
    BY <2>1
  <2> HIDE DEF q, torn
  <2>6. lg \o q \in Seq(Frame) /\ lg \o p = Append(lg \o q, torn)
    <3>1. lg \o q \in Seq(Frame)
      BY <2>2
    <3>2. lg \o Append(q, torn) = Append(lg \o q, torn)
      BY <2>2, <2>3
    <3>3. QED
      BY <2>5, <3>1, <3>2
  <2>7. QED
    BY <2>3, <2>4, <2>6, TornEnds
<1>3. \/ \E k \in 0 .. Len(buf) : p = SubSeq(buf, 1, k)
      \/ \E k \in 1 .. Len(buf), t \in {"short", "bad"} :
            p = Append(SubSeq(buf, 1, k - 1), [buf[k] EXCEPT !.st = t])
  BY DEF PartialWrites
<1>4. QED
  BY <1>1, <1>2, <1>3

\* Frames of ops behind everything buffered: the log may end where it could,
\* or after some of ops.
LEMMA BufferedEnds ==
    ASSUME NEW sn, sn.lsn \in Nat, NEW first \in Nat \ {0}, sn.lsn < first,
           NEW lg \in Seq(Frame), NEW buf \in Seq(Frame), NEW W \in SUBSET Store,
           NEW ops \in Singles \cup Batches, AllEnd(sn, lg, buf, W)
    PROVE  AllEnd(sn, lg, buf \o Frames(first, ops),
                  W \cup {Upto(w, ops, k) : w \in W, k \in 1 .. Len(ops)})
<1> DEFINE fs == Frames(first, ops)
           V == W \cup {Upto(w, ops, k) : w \in W, k \in 1 .. Len(ops)}
<1>1. ops \in Seq(AllOps) /\ Len(ops) \in Nat \ {0}
  BY RequestType
<1>2. fs \in Seq(Frame) /\ Len(fs) = Len(ops)
  BY <1>1, FramesType
<1>3. \A j \in 1 .. Len(ops) : fs[j] = [lsn |-> first + j - 1, op |-> ops[j], st |-> "ok"]
  BY <1>1, FramesType
<1>4. W \subseteq V /\ \A w \in W, k \in 1 .. Len(ops) : Upto(w, ops, k) \in V
  OBVIOUS
<1> HIDE DEF fs, V
<1>5. Len(buf) \in Nat /\ Len(buf \o fs) = Len(buf) + Len(ops)
  BY <1>2
<1> SUFFICES ASSUME NEW k \in 0 .. Len(buf) + Len(ops)
             PROVE  Ends(sn, lg \o SubSeq(buf \o fs, 1, k), V)
  BY <1>5 DEF AllEnd, fs, V
<1>6. CASE k <= Len(buf)
  <2>1. k \in 0 .. Len(buf)
    BY <1>5, <1>6
  <2>2. SubSeq(buf \o fs, 1, k) = SubSeq(buf, 1, k)
    BY <1>2, <2>1
  <2>3. Ends(sn, lg \o SubSeq(buf, 1, k), W)
    BY <2>1 DEF AllEnd
  <2>4. QED
    BY <1>4, <2>2, <2>3, EndsInMore
<1>7. CASE k > Len(buf)
  <2> DEFINE h == k - Len(buf)
             p == SubSeq(fs, 1, h)
  <2>1. h \in 1 .. Len(ops) /\ h \in 0 .. Len(ops) /\ k = Len(buf) + h
    BY <1>1, <1>5, <1>7
  <2> HIDE DEF h
  <2>2. p \in Seq(Frame) /\ Len(p) = h
    BY <1>1, <1>2, <2>1
  <2>3. \A j \in 1 .. h : p[j] = fs[j]
    BY <1>1, <1>2, <2>1
  <2>4. SubSeq(buf \o fs, 1, k) = buf \o p
    BY <1>1, <1>2, <1>5, <2>1
  <2> HIDE DEF p
  <2>5. p # <<>>
    BY <1>1, <2>1, <2>2
  <2>6. ASSUME NEW j \in 1 .. h
        PROVE  p[j].st = "ok" /\ p[j].lsn > sn.lsn /\ p[j].op = ops[j]
    <3>1. j \in 1 .. Len(ops)
      BY <1>1, <2>1
    <3>2. p[j] = [lsn |-> first + j - 1, op |-> ops[j], st |-> "ok"]
      BY <1>3, <2>3, <3>1
    <3>3. first + j - 1 > sn.lsn
      BY <3>1
    <3>4. QED
      BY <3>2, <3>3
  <2>7. Grows(sn, p, ops, h)
    BY <2>1, <2>2, <2>6 DEF Grows
  <2>8. ASSUME NEW s \in W
        PROVE  \E g : Walk(ops, g, h) /\ g[0] = s /\ g[h] \in V
    <3>1. s \in Store /\ h > 0
      BY <1>1, <2>1
    <3>2. PICK g : Walk(ops, g, h) /\ g[0] = s /\ (h > 0 => g[h] = Upto(s, ops, h))
      BY <2>1, <3>1, RequestWalk
    <3>3. QED
      BY <1>4, <2>1, <3>1, <3>2
  <2>9. Ends(sn, lg \o (buf \o p), V)
    BY <2>2, <2>5, <2>7, <2>8, ExtendBuffered
  <2>10. QED
    BY <2>4, <2>9
<1>8. QED
  BY <1>1, <1>5, <1>6, <1>7

\* An append that completed can be read back whole.
LEMMA FramesGrow ==
    ASSUME NEW sn, sn.lsn \in Nat, NEW n \in Nat \ {0}, sn.lsn < n,
           NEW ops \in Singles \cup Batches
    PROVE  /\ Grows(sn, Frames(n, ops), ops, Len(ops))
           /\ Frames(n, ops) \in Seq(Frame) /\ Frames(n, ops) # <<>>
<1> DEFINE fs == Frames(n, ops)
<1>1. ops \in Seq(AllOps) /\ Len(ops) \in Nat \ {0}
  BY RequestType
<1>2. /\ fs \in Seq(Frame) /\ Len(fs) = Len(ops)
      /\ \A j \in 1 .. Len(ops) : fs[j] = [lsn |-> n + j - 1, op |-> ops[j], st |-> "ok"]
  BY <1>1, FramesType
<1> HIDE DEF fs
<1>3. ASSUME NEW j \in 1 .. Len(ops)
      PROVE  fs[j].st = "ok" /\ fs[j].lsn > sn.lsn /\ fs[j].op = ops[j]
  <2>1. fs[j] = [lsn |-> n + j - 1, op |-> ops[j], st |-> "ok"]
    BY <1>2
  <2>2. n + j - 1 > sn.lsn
    BY <1>1
  <2>3. QED
    BY <2>1, <2>2
<1>4. Grows(sn, fs, ops, Len(ops))
  BY <1>1, <1>2, <1>3 DEF Grows
<1>5. fs # <<>>
  BY <1>1, <1>2
<1>6. QED
  BY <1>2, <1>4, <1>5 DEF fs

\* The snapshot a checkpoint would write now.
Live == [lsn |-> next_lsn - 1, store |-> mem]

\* Recovery has walked along the image img up to pos.
Replayed(img, n) ==
    /\ Image(snap, log, img, n) /\ img[n] \in worlds
    /\ pos <= n /\ mem = img[pos]
    /\ \A i \in 1 .. pos : log[i].lsn < next_lsn

\* The invariant behind DurableRecovery.  The third part is what makes a
\* checkpoint sound: its snapshot may replace the one on the disk at any time.
DurableInv ==
    /\ AllEnd(snap, log, wbuf, worlds)
    /\ Up => mem \in worlds
    /\ Up => AllEnd(Live, log, wbuf, worlds)
    /\ phase = "ckpt_trunc" => snap.store = mem
    /\ ~Up => wbuf = <<>>
    /\ phase = "replaying" => Spoilt(log) \/ \E img, n : Replayed(img, n)

\* With nothing buffered, only the log itself counts.
LEMMA UnbufferedEnds ==
    ASSUME NEW sn, NEW lg \in Seq(Frame), NEW W
    PROVE  AllEnd(sn, lg, <<>>, W) <=> Ends(sn, lg, W)
<1>1. Len(<<>>) = 0 /\ 0 .. 0 = {0}
  OBVIOUS
<1>2. lg \o SubSeq(<<>>, 1, 0) = lg
  OBVIOUS
<1>3. QED
  BY <1>1, <1>2 DEF AllEnd

\* A completed append covers the log: unless it is spoilt, no frame recovery
\* reads is above the last LSN handed out.
LEMMA LastIsHighest ==
    ASSUME NEW lg \in Seq(Frame), NEW fs \in Seq(Frame), fs # <<>>,
           fs[Len(fs)].st = "ok", ~Spoilt(lg \o fs)
    PROVE  \A i \in 1 .. Len(lg \o fs) :
              (lg \o fs)[i].st = "ok" /\ (lg \o fs)[i].lsn <= fs[Len(fs)].lsn
<1> DEFINE q == lg \o fs
           n == Len(q)
<1>1. Len(lg) \in Nat /\ Len(fs) \in Nat \ {0}
  BY EmptySeq
<1>2. q \in Seq(Frame) /\ n \in Nat \ {0} /\ n \in 1 .. n /\ q[n] = fs[Len(fs)]
  BY <1>1
<1> HIDE DEF q
<1> SUFFICES ASSUME NEW i \in 1 .. n
             PROVE  q[i].st = "ok" /\ q[i].lsn <= fs[Len(fs)].lsn
  BY DEF q
<1>3. CASE i = n
  <2>1. q[n] \in Frame
    BY <1>2
  <2>2. q[n].lsn \in Nat
    BY <2>1 DEF Frame
  <2>3. QED
    BY <1>2, <1>3, <2>2
<1>4. CASE i # n
  <2>1. i \in 1 .. n - 1 /\ i < n
    BY <1>2, <1>4
  <2>2. q[i] \in Frame /\ q[n] \in Frame
    BY <1>2
  <2>3. q[i].lsn \in Nat /\ q[n].lsn \in Nat
    BY <2>2 DEF Frame
  <2>4. q[i].st = "ok" /\ ~(q[n].lsn < q[i].lsn)
    BY <1>2, <2>1 DEF Spoilt, q
  <2>5. QED
    BY <1>2, <2>3, <2>4
<1>5. QED
  BY <1>3, <1>4

\* A request that returned keeps the invariant: the promised stores go
\* through its operations, and so does memory.
LEMMA AppendKeeps ==
    ASSUME TypeOK, TypeOK', SnapBelow, DurableInv, phase = "serving",
           NEW ops \in Singles \cup Batches, AppendToLog(ops), snap' = snap,
           \A s \in worlds : \E g : Walk(ops, g, Len(ops)) /\ g[0] = s /\ g[Len(ops)] \in worlds',
           mem' \in worlds', phase' \in {"serving", "ckpt"}
    PROVE  DurableInv'
<1> DEFINE fs == Frames(next_lsn, ops)
           k == Len(ops)
<1>0. /\ log \in Seq(Frame) /\ wbuf \in Seq(Frame) /\ next_lsn \in Nat \ {0}
      /\ snap.lsn \in Nat /\ snap.lsn < next_lsn
  BY DEF TypeOK, SnapBelow
<1>1. ops \in Seq(AllOps) /\ k \in Nat \ {0}
  BY RequestType
<1>2. Grows(snap, fs, ops, k) /\ fs \in Seq(Frame) /\ fs # <<>>
  BY <1>0, FramesGrow
<1>3. Len(fs) = k /\ fs[k] = [lsn |-> next_lsn + k - 1, op |-> ops[k], st |-> "ok"]
  BY <1>0, <1>1, FramesType
<1>4. log' = log \o wbuf \o fs /\ wbuf' = <<>> /\ next_lsn' = next_lsn + k
  BY DEF AppendToLog
<1> HIDE DEF fs, k
<1>5. log \o wbuf \in Seq(Frame) /\ log \o wbuf \o fs = log \o (wbuf \o fs)
  BY <1>0, <1>2
<1>6. Ends(snap, log', worlds')
  <2>1. AllEnd(snap, log, wbuf, worlds)
    BY DEF DurableInv
  <2>2. \A s \in worlds : \E g : Walk(ops, g, k) /\ g[0] = s /\ g[k] \in worlds'
    BY DEF k
  <2>3. Ends(snap, log \o (wbuf \o fs), worlds')
    BY <1>0, <1>2, <2>1, <2>2, ExtendBuffered
  <2>4. QED
    BY <1>4, <1>5, <2>3
<1>7. Ends(Live', log', worlds')
  <2>1. CASE Spoilt(log')
    BY <2>1 DEF Ends
  <2>2. CASE ~Spoilt(log')
    <3>1. Live'.lsn = next_lsn' - 1 /\ Live'.store = mem' /\ mem' \in Store
      BY DEF Live, TypeOK
    <3>2. fs[Len(fs)].st = "ok" /\ fs[Len(fs)].lsn = next_lsn' - 1
      BY <1>0, <1>1, <1>3, <1>4
    <3>3. \A i \in 1 .. Len(log') : log'[i].st = "ok" /\ log'[i].lsn <= fs[Len(fs)].lsn
      BY <1>2, <1>4, <1>5, <2>2, <3>2, LastIsHighest
    <3>4. log' \in Seq(Frame) /\ Len(log') \in 0 .. Len(log')
      BY DEF TypeOK
    <3>5. \A i \in 1 .. Len(log') : log'[i].st = "ok" /\ log'[i].lsn <= Live'.lsn
      BY <3>1, <3>2, <3>3
    <3>6. QED
      BY <3>1, <3>4, <3>5, QuietEnds
  <2>3. QED
    BY <2>1, <2>2
<1>8. AllEnd(snap', log', wbuf', worlds') /\ AllEnd(Live', log', wbuf', worlds')
  BY <1>4, <1>6, <1>7, UnbufferedEnds DEF TypeOK
<1>9. Up'
  BY DEF Up
<1>10. QED
  BY <1>8, <1>9 DEF DurableInv

\* The durability invariant is inductive.
LEMMA DurableStep ==
    ASSUME TypeOK, TypeOK', SnapBelow, DurableInv, [Next]_vars
    PROVE  DurableInv'
<1>0. /\ log \in Seq(Frame) /\ wbuf \in Seq(Frame) /\ next_lsn \in Nat \ {0}
      /\ snap.lsn \in Nat /\ snap.store \in Store /\ mem \in Store
      /\ worlds \in SUBSET Store /\ Len(log) \in Nat /\ pos \in 0 .. Len(log)
  BY DEF TypeOK
<1>1. /\ AllEnd(snap, log, wbuf, worlds)
      /\ Up => mem \in worlds
      /\ Up => AllEnd(Live, log, wbuf, worlds)
      /\ phase = "ckpt_trunc" => snap.store = mem
      /\ ~Up => wbuf = <<>>
      /\ phase = "replaying" => Spoilt(log) \/ \E img, n : Replayed(img, n)
  BY DEF DurableInv
<1>2. Live.lsn = next_lsn - 1 /\ Live.store = mem
  BY DEF Live
<1>3. ASSUME NEW op \in Ops, LogAndApply(op)
      PROVE  DurableInv'
  <2> DEFINE ops == <<op>>
  <2>1. ops \in Singles /\ Len(ops) = 1 /\ ops[1] = op
    BY DEF Singles
  <2>2. AppendToLog(ops) /\ phase = "serving" /\ Up /\ snap' = snap
          /\ phase' \in {"serving", "ckpt"}
    BY <1>3 DEF LogAndApply, Up
  <2>3. mem' = ApplyLive(mem, op) /\ worlds' = {ApplyLive(w, op) : w \in worlds}
    BY <1>3 DEF LogAndApply
  <2> HIDE DEF ops
  <2>4. ASSUME NEW s \in worlds
        PROVE  \E g : Walk(ops, g, Len(ops)) /\ g[0] = s /\ g[Len(ops)] \in worlds'
    <3>1. PICK g : Walk(ops, g, 1) /\ g[0] = s /\ g[1] = Upto(s, ops, 1)
      BY <1>0, <2>1, RequestWalk
    <3>2. Upto(s, ops, 1) = ApplyLive(s, op)
      BY <2>1 DEF Upto
    <3>3. QED
      BY <2>1, <2>3, <3>1, <3>2
  <2>5. mem' \in worlds'
    BY <1>1, <2>2, <2>3
  <2>6. QED
    BY <2>1, <2>2, <2>4, <2>5, AppendKeeps
<1>4. ASSUME NEW ops \in AcceptedBatches, InsertBatch(ops)
      PROVE  DurableInv'
  <2>1. ops \in Batches /\ Len(ops) \in Nat \ {0} /\ Len(ops) \in 0 .. Len(ops)
    BY BatchRowsInto DEF AcceptedBatches
  <2>2. AppendToLog(ops) /\ phase = "serving" /\ Up /\ snap' = snap
          /\ phase' \in {"serving", "ckpt"}
    BY <1>4 DEF InsertBatch, Up
  <2>3. /\ mem' = ApplyBatch(mem, ops[1].c, ops, Len(ops))
        /\ worlds' = {ApplyBatch(w, ops[1].c, ops, Len(ops)) : w \in worlds}
    BY <1>4 DEF InsertBatch
  <2>4. ASSUME NEW s \in worlds
        PROVE  \E g : Walk(ops, g, Len(ops)) /\ g[0] = s /\ g[Len(ops)] \in worlds'
    <3>1. PICK g : /\ Walk(ops, g, Len(ops)) /\ g[0] = s
                   /\ g[Len(ops)] = ApplyBatch(s, ops[1].c, ops, Len(ops))
      BY <1>0, <2>1, BatchWalk
    <3>2. QED
      BY <2>3, <3>1
  <2>5. mem' \in worlds'
    BY <1>1, <2>2, <2>3
  <2>6. QED
    BY <2>1, <2>2, <2>4, <2>5, AppendKeeps
<1>5. ASSUME NEW ops \in Requests, phase = "serving", worlds' = Uncertain(ops),
             NEW sn, sn.lsn \in Nat, sn.lsn < next_lsn, AllEnd(sn, log, wbuf, worlds)
      PROVE  /\ AllEnd(sn, log, wbuf \o Frames(next_lsn, ops), worlds')
             /\ \A p \in PartialWrites(wbuf \o Frames(next_lsn, ops)) :
                   Ends(sn, log \o p, worlds')
  <2>1. ops \in Singles \cup Batches
    BY DEF Requests, AcceptedBatches
  <2>2. ops \in Seq(AllOps)
    BY <2>1, RequestType
  <2>3. Frames(next_lsn, ops) \in Seq(Frame)
    BY <1>0, <2>2, FramesType
  <2>4. AllEnd(sn, log, wbuf \o Frames(next_lsn, ops), worlds')
    BY <1>0, <1>5, <2>1, BufferedEnds DEF Uncertain
  <2>5. wbuf \o Frames(next_lsn, ops) \in Seq(Frame)
    BY <1>0, <2>3
  <2>6. QED
    BY <1>0, <2>4, <2>5, PartialEnds
<1>6. ASSUME NEW ops \in Requests, AppendFails(ops)
      PROVE  DurableInv'
  <2> DEFINE fs == wbuf \o Frames(next_lsn, ops)
  <2>1. phase = "serving" /\ phase' = "serving" /\ Up /\ Up' /\ snap' = snap
          /\ mem' = mem /\ next_lsn' = next_lsn /\ worlds' = Uncertain(ops) /\ Live' = Live
    BY <1>6 DEF AppendFails, Up, counters, Live
  <2>2. mem' \in worlds'
    BY <1>1, <2>1 DEF Uncertain
  <2>3. /\ AllEnd(snap, log, fs, worlds')
        /\ \A p \in PartialWrites(fs) : Ends(snap, log \o p, worlds')
    BY <1>0, <1>1, <1>5, <2>1 DEF SnapBelow
  <2>4. /\ AllEnd(Live, log, fs, worlds')
        /\ \A p \in PartialWrites(fs) : Ends(Live, log \o p, worlds')
    <3>1. Live.lsn \in Nat /\ Live.lsn < next_lsn
      BY <1>0, <1>2
    <3>2. QED
      BY <1>1, <1>5, <2>1, <3>1
  <2> HIDE DEF fs
  <2>5. \/ wbuf' = fs /\ log' = log
        \/ wbuf' = <<>> /\ \E p \in PartialWrites(fs) : log' = log \o p
    BY <1>6 DEF AppendFails, fs
  <2>6. AllEnd(snap', log', wbuf', worlds') /\ AllEnd(Live', log', wbuf', worlds')
    <3>1. CASE wbuf' = fs /\ log' = log
      BY <2>1, <2>3, <2>4, <3>1
    <3>2. CASE wbuf' = <<>> /\ \E p \in PartialWrites(fs) : log' = log \o p
      <4>1. Ends(snap, log', worlds') /\ Ends(Live, log', worlds')
        BY <2>3, <2>4, <3>2
      <4>2. log' \in Seq(Frame)
        BY DEF TypeOK
      <4>3. QED
        BY <2>1, <3>2, <4>1, <4>2, UnbufferedEnds
    <3>3. QED
      BY <2>5, <3>1, <3>2
  <2>7. QED
    BY <2>1, <2>2, <2>6 DEF DurableInv
<1>7. ASSUME NEW ops \in Requests, CrashInAppend(ops)
      PROVE  DurableInv'
  <2> DEFINE fs == wbuf \o Frames(next_lsn, ops)
  <2>1. phase = "serving" /\ phase' = "down" /\ ~Up' /\ snap' = snap
          /\ wbuf' = <<>> /\ worlds' = Uncertain(ops)
    BY <1>7 DEF CrashInAppend, Up
  <2>2. PICK p \in PartialWrites(fs) : log' = log \o p
    BY <1>7 DEF CrashInAppend
  <2>3. Ends(snap, log', worlds')
    BY <1>0, <1>1, <1>5, <2>1, <2>2 DEF SnapBelow
  <2>4. AllEnd(snap', log', wbuf', worlds')
    <3>1. log' \in Seq(Frame)
      BY DEF TypeOK
    <3>2. QED
      BY <2>1, <2>3, <3>1, UnbufferedEnds
  <2>5. QED
    BY <2>1, <2>4 DEF DurableInv
<1>8. CASE Checkpoint
  <2>1. phase = "serving" /\ phase' = "ckpt" /\ Up /\ Up' /\ mem' = mem
          /\ worlds' = worlds /\ log' = log /\ snap' = snap /\ wbuf' = wbuf
          /\ next_lsn' = next_lsn
    BY <1>8 DEF Checkpoint, disk, counters, Up
  <2>2. Live' = Live
    BY <2>1 DEF Live
  <2>3. QED
    BY <1>1, <2>1, <2>2 DEF DurableInv
<1>9. CASE CheckpointRename
  <2>1. phase = "ckpt" /\ phase' = "ckpt_trunc" /\ Up /\ Up' /\ mem' = mem
          /\ worlds' = worlds /\ log' = log /\ wbuf' = wbuf /\ next_lsn' = next_lsn
          /\ snap' = [lsn |-> next_lsn - 1, store |-> mem]
    BY <1>9 DEF CheckpointRename, RenameAt, Up
  <2>2. Live' = Live /\ snap' = Live /\ snap'.store = mem
    BY <2>1 DEF Live
  <2>3. QED
    BY <1>1, <2>1, <2>2 DEF DurableInv
<1>10. CASE CheckpointTruncate
  <2>1. phase = "ckpt_trunc" /\ phase' = "serving" /\ Up' /\ mem' = mem
          /\ worlds' = {mem} /\ log' = <<>> /\ wbuf' = <<>> /\ snap' = snap
          /\ next_lsn' = next_lsn
    BY <1>10 DEF CheckpointTruncate, Up
  <2>2. <<>> \in Seq(Frame) /\ Len(<<>>) = 0 /\ 0 \in 0 .. 0
    OBVIOUS
  <2>3. ASSUME NEW sn, sn.store = mem
        PROVE  AllEnd(sn, <<>>, <<>>, {mem})
    <3>1. Ends(sn, <<>>, {mem})
      BY <1>0, <2>3, EmptyEnds
    <3>2. QED
      BY <2>2, <3>1, UnbufferedEnds
  <2>4. snap.store = mem /\ Live'.store = mem
    BY <1>1, <2>1 DEF Live
  <2>5. QED
    BY <2>1, <2>3, <2>4 DEF DurableInv
<1>11. CASE CheckpointFails
  <2>1. phase \in {"ckpt", "ckpt_trunc"} /\ phase' = "serving" /\ Up /\ Up'
          /\ mem' = mem /\ worlds' = worlds /\ snap' = snap /\ next_lsn' = next_lsn
    BY <1>11 DEF CheckpointFails, counters, Up
  <2>2. Live' = Live
    BY <2>1 DEF Live
  <2>3. CASE UNCHANGED <<wbuf, log>>
    BY <1>1, <2>1, <2>2, <2>3 DEF DurableInv
  <2>4. CASE log' = log \o wbuf /\ wbuf' = <<>>
    <3>1. ASSUME NEW sn, AllEnd(sn, log, wbuf, worlds)
          PROVE  AllEnd(sn, log', wbuf', worlds')
      <4>1. Len(wbuf) \in 0 .. Len(wbuf) /\ SubSeq(wbuf, 1, Len(wbuf)) = wbuf
        BY <1>0
      <4>2. Ends(sn, log', worlds')
        BY <2>1, <2>4, <3>1, <4>1 DEF AllEnd
      <4>3. log' \in Seq(Frame)
        BY DEF TypeOK
      <4>4. QED
        BY <2>4, <4>2, <4>3, UnbufferedEnds
    <3>2. AllEnd(snap', log', wbuf', worlds') /\ AllEnd(Live', log', wbuf', worlds')
      BY <1>1, <2>1, <2>2, <3>1
    <3>3. QED
      BY <1>1, <2>1, <3>2 DEF DurableInv
  <2>5. QED
    BY <1>11, <2>3, <2>4 DEF CheckpointFails
<1>12. CASE Crash
  <2>1. phase' = "down" /\ ~Up' /\ snap' = snap /\ wbuf' = <<>> /\ worlds' = worlds
    BY <1>12 DEF Crash, Up
  <2>2. PICK p \in PartialWrites(wbuf) : log' = log \o p
    BY <1>12 DEF Crash
  <2>3. Ends(snap, log', worlds')
    BY <1>0, <1>1, <2>1, <2>2, PartialEnds
  <2>4. AllEnd(snap', log', wbuf', worlds')
    <3>1. log' \in Seq(Frame)
      BY DEF TypeOK
    <3>2. QED
      BY <2>1, <2>3, <3>1, UnbufferedEnds
  <2>5. QED
    BY <2>1, <2>4 DEF DurableInv
<1>13. CASE Open
  <2>1. phase = "down" /\ phase' = "replaying" /\ ~Up /\ ~Up' /\ mem' = snap.store
          /\ pos' = 0 /\ worlds' = worlds /\ log' = log /\ snap' = snap /\ wbuf' = wbuf
    BY <1>13 DEF Open, Volatile, disk, Up
  <2>2. Ends(snap, log, worlds)
    BY <1>0, <1>1, <2>1, UnbufferedEnds
  <2>3. ASSUME ~Spoilt(log)
        PROVE  \E img, n : Replayed(img, n)'
    <3>1. PICK img, n : Image(snap, log, img, n) /\ img[n] \in worlds
      BY <2>2, <2>3 DEF Ends
    <3>2. n \in 0 .. Len(log) /\ img[0] = snap.store
      BY <3>1 DEF Image
    <3>3. Image(snap, log, img, n)'
      BY <2>1, <3>1 DEF Image
    <3>4. Replayed(img, n)'
      BY <2>1, <3>1, <3>2, <3>3 DEF Replayed
    <3>5. QED
      BY <3>4
  <2>4. QED
    BY <1>1, <2>1, <2>3 DEF DurableInv
<1>14. CASE ReplayEntry
  <2>1. phase = "replaying" /\ phase' = "replaying" /\ ~Up /\ ~Up' /\ pos < Len(log)
          /\ log[pos + 1].st = "ok" /\ pos' = pos + 1 /\ worlds' = worlds
          /\ log' = log /\ snap' = snap /\ wbuf' = wbuf /\ snapshot_lsn = snap.lsn
          /\ snap.lsn < next_lsn
    BY <1>14 DEF ReplayEntry, disk, Up, SnapBelow
  <2>2. ASSUME ~Spoilt(log)
        PROVE  \E img, n : Replayed(img, n)'
    <3>1. PICK img, n : Replayed(img, n)
      BY <1>1, <2>1, <2>2
    <3>2. /\ Image(snap, log, img, n) /\ img[n] \in worlds
          /\ pos <= n /\ mem = img[pos] /\ n \in 0 .. Len(log)
          /\ \A i \in 1 .. pos : log[i].lsn < next_lsn
      BY <3>1 DEF Replayed, Image
    <3>3. pos # n
      BY <2>1, <3>2 DEF Image
    <3>4. pos + 1 <= n /\ pos + 1 \in 1 .. n /\ (pos + 1) - 1 = pos
      BY <1>0, <3>2, <3>3
    <3>5. img[pos + 1] = IF log[pos + 1].lsn <= snap.lsn THEN img[pos]
                         ELSE ReplayOp(img[pos], log[pos + 1].op)
      BY <3>2, <3>4 DEF Image
    <3>6. mem' = IF log[pos + 1].lsn <= snap.lsn THEN mem
                 ELSE ReplayOp(mem, log[pos + 1].op)
      BY <1>14, <2>1 DEF ReplayEntry
    <3>7. mem' = img[pos']
      BY <2>1, <3>2, <3>5, <3>6
    <3>8. ASSUME NEW i \in 1 .. pos + 1
          PROVE  log[i].lsn < next_lsn'
      <4>1. i \in 1 .. Len(log) /\ pos + 1 \in 1 .. Len(log) /\ (i \in 1 .. pos \/ i = pos + 1)
        BY <1>0, <2>1
      <4>2. log[i] \in Frame /\ log[pos + 1] \in Frame
        BY <1>0, <4>1
      <4>3. log[i].lsn \in Nat /\ log[pos + 1].lsn \in Nat
        BY <4>2 DEF Frame
      <4>4. CASE log[pos + 1].lsn <= snapshot_lsn
        <5>1. next_lsn' = next_lsn
          BY <1>14, <4>4 DEF ReplayEntry
        <5>2. QED
          BY <1>0, <2>1, <3>2, <4>1, <4>3, <4>4, <5>1
      <4>5. CASE ~(log[pos + 1].lsn <= snapshot_lsn)
        <5>1. next_lsn' = log[pos + 1].lsn + 1
          BY <1>14, <4>5 DEF ReplayEntry
        <5>2. i < pos + 1 => ~(log[pos + 1].lsn < log[i].lsn)
          BY <2>2, <4>1 DEF Spoilt
        <5>3. i < pos + 1 \/ i = pos + 1
          BY <1>0, <4>1
        <5>4. QED
          BY <4>3, <5>1, <5>2, <5>3
      <4>6. QED
        BY <4>4, <4>5
    <3>9. Image(snap, log, img, n)'
      BY <2>1, <3>2 DEF Image
    <3>10. Replayed(img, n)'
      BY <2>1, <3>2, <3>4, <3>7, <3>8, <3>9 DEF Replayed
    <3>11. QED
      BY <3>10
  <2>3. QED
    BY <1>1, <2>1, <2>2 DEF DurableInv
<1>15. CASE OpenFinish
  <2>1. phase = "replaying" /\ phase' = "serving" /\ ~Up /\ Up' /\ EndOfLog /\ mem' = mem
          /\ worlds' = {mem} /\ log' = log /\ snap' = snap /\ wbuf' = wbuf
          /\ next_lsn' = next_lsn
    BY <1>15 DEF OpenFinish, disk, Up
  <2>2. Live' = Live
    BY <2>1 DEF Live
  <2>3. Ends(snap, log, {mem}) /\ Ends(Live, log, {mem})
    <3>1. CASE Spoilt(log)
      BY <3>1 DEF Ends
    <3>2. CASE ~Spoilt(log)
      <4>1. PICK img, n : Replayed(img, n)
        BY <1>1, <2>1, <3>2
      <4>2. /\ Image(snap, log, img, n)
            /\ pos <= n /\ mem = img[pos] /\ n \in 0 .. Len(log)
            /\ \A i \in 1 .. pos : log[i].lsn < next_lsn
            /\ \A i \in 1 .. n : log[i].st = "ok"
            /\ n < Len(log) => log[n + 1].st # "ok"
        BY <4>1 DEF Replayed, Image
      <4>3. pos = n
        <5>1. pos < n => pos + 1 \in 1 .. n /\ pos # Len(log)
          BY <1>0, <4>2
        <5>2. pos < n => log[pos + 1].st = "ok"
          BY <4>2, <5>1
        <5>3. QED
          BY <1>0, <2>1, <4>2, <5>1, <5>2 DEF EndOfLog
      <4>4. Ends(snap, log, {mem})
        BY <4>2, <4>3 DEF Ends
      <4>5. \A i \in 1 .. n : log[i].lsn <= Live.lsn
        <5>1. \A i \in 1 .. n : log[i] \in Frame
          BY <1>0, <4>2
        <5>2. \A i \in 1 .. n : log[i].lsn \in Nat
          BY <5>1 DEF Frame
        <5>3. QED
          BY <1>0, <1>2, <4>2, <4>3, <5>2
      <4>6. Ends(Live, log, {mem})
        BY <1>0, <1>2, <4>2, <4>5, QuietEnds
      <4>7. QED
        BY <4>4, <4>6
    <3>3. QED
      BY <3>1, <3>2
  <2>4. AllEnd(snap', log', wbuf', worlds') /\ AllEnd(Live', log', wbuf', worlds')
    BY <1>0, <1>1, <2>1, <2>2, <2>3, UnbufferedEnds
  <2>5. QED
    BY <2>1, <2>4 DEF DurableInv
<1>16. CASE OpenFails
  <2>1. phase = "replaying" /\ log' = log /\ snap' = snap /\ worlds' = worlds
          /\ wbuf' = wbuf /\ phase' = "down" /\ ~Up /\ ~Up'
    BY <1>16 DEF OpenFails, disk, Up
  <2>2. QED
    BY <1>1, <2>1 DEF DurableInv
<1>17. CASE UNCHANGED vars
  <2>1. log' = log /\ snap' = snap /\ worlds' = worlds /\ phase' = phase
          /\ mem' = mem /\ pos' = pos /\ wbuf' = wbuf /\ next_lsn' = next_lsn
    BY <1>17 DEF vars, disk, counters
  <2>2. Live' = Live /\ (Up' <=> Up)
    BY <2>1 DEF Live, Up
  <2>3. ASSUME NEW img, NEW n, Replayed(img, n)
        PROVE  Replayed(img, n)'
    BY <2>1, <2>3 DEF Replayed, Image
  <2>4. QED
    BY <1>1, <2>1, <2>2, <2>3 DEF DurableInv
<1>18. QED
  BY <1>3, <1>4, <1>6, <1>7, <1>8, <1>9, <1>10, <1>11, <1>12, <1>13, <1>14,
     <1>15, <1>16, <1>17 DEF Next

\* The image of the disk always ends in a promised store.
LEMMA DurableInvAlways == Spec => []DurableInv
<1>1. Init => SnapBelow /\ DurableInv
  <2> SUFFICES ASSUME Init PROVE SnapBelow /\ DurableInv
    OBVIOUS
  <2>1. EmptyStore \in Store
    BY DEF EmptyStore, Store
  <2>2. <<>> \in Seq(Frame) /\ Len(<<>>) = 0 /\ 0 \in 0 .. 0
    OBVIOUS
  <2>3. snap.store = EmptyStore /\ worlds = {EmptyStore} /\ log = <<>> /\ wbuf = <<>>
          /\ phase = "down"
    BY DEF Init
  <2>4. Ends(snap, <<>>, {EmptyStore})
    BY <2>1, <2>3, EmptyEnds
  <2>5. AllEnd(snap, log, wbuf, worlds)
    BY <2>2, <2>3, <2>4, UnbufferedEnds
  <2>6. QED
    BY <2>3, <2>5 DEF DurableInv, SnapBelow, Up
<1>2. TypeOK /\ TypeOK' /\ SnapBelow /\ DurableInv /\ [Next]_vars => SnapBelow' /\ DurableInv'
  BY SnapBelowStep, DurableStep
<1>3. QED
  BY <1>1, <1>2, TypeCorrect, PTL DEF Spec

\* No acknowledged operation is lost and none is applied twice or out of
\* order, whatever crashes, torn writes, I/O errors, checkpoints and
\* half-finished recoveries came before: recovery arrives at a promised store,
\* except over the two kinds of log DurableRecovery names.
THEOREM RecoveryIsDurable == Spec => []DurableRecovery
<1>1. TypeOK /\ DurableInv => DurableRecovery
  <2> SUFFICES ASSUME TypeOK, DurableInv, phase = "replaying", EndOfLog, ~TearBuried,
                      ~LsnStraddle
               PROVE  mem \in worlds
    BY DEF DurableRecovery
  <2>1. ~Spoilt(log)
    BY DEF Spoilt, TearBuried, LsnStraddle
  <2>2. PICK img, n : Replayed(img, n)
    BY <2>1 DEF DurableInv
  <2>3. n \in 0 .. Len(log) /\ Len(log) \in Nat /\ pos \in 0 .. Len(log)
          /\ pos <= n /\ mem = img[pos] /\ img[n] \in worlds
    BY <2>2 DEF Replayed, Image, TypeOK
  <2>4. pos < n => pos + 1 \in 1 .. n /\ pos # Len(log)
    BY <2>3
  <2>5. pos < n => log[pos + 1].st = "ok"
    BY <2>2, <2>4 DEF Replayed, Image
  <2>6. pos = n
    BY <2>3, <2>4, <2>5 DEF EndOfLog
  <2>7. QED
    BY <2>3, <2>6
<1>2. QED
  BY <1>1, TypeCorrect, DurableInvAlways, PTL

----------------------------------------------------------------------------
(* WalManager implements DurableStore: every step of the detailed          *)
(* specification is a step of the promise or leaves it unchanged, for      *)
(* instances without I/O errors and without torn frames (both break the    *)
(* promise, see DurableAlways).                                            *)

\* No frame in the file is torn.
WholeFrames == \A i \in 1 .. Len(log) : log[i].st = "ok"

\* Without I/O errors and tears every frame in file and buffer stays whole.
LEMMA WholeFramesStep ==
    ASSUME AppendMayFail = FALSE, TearMayHappen = FALSE,
           TypeOK, LsnInv, WholeFrames, [Next]_vars
    PROVE  WholeFrames'
<1>0. log \in Seq(Frame) /\ Len(log) \in Nat /\ next_lsn \in Nat \ {0}
        /\ wbuf = <<>>
  BY DEF TypeOK, LsnInv
<1>1. ASSUME NEW p \in Seq(Frame), \A j \in 1 .. Len(p) : p[j].st = "ok", log' = log \o p
      PROVE  WholeFrames'
  <2>1. Len(log') = Len(log) + Len(p) /\ Len(p) \in Nat
    BY <1>0, <1>1
  <2>2. ASSUME NEW i \in 1 .. Len(log')
        PROVE  log'[i].st = "ok"
    <3>1. CASE i <= Len(log)
      BY <1>0, <1>1, <3>1 DEF WholeFrames
    <3>2. CASE i > Len(log)
      <4>1. i - Len(log) \in 1 .. Len(p)
        BY <1>0, <2>1, <3>2
      <4>2. log'[i] = p[i - Len(log)]
        BY <1>0, <1>1, <2>1, <3>2
      <4>3. QED
        BY <1>1, <4>1, <4>2
    <3>3. QED
      BY <1>0, <2>1, <3>1, <3>2
  <2>3. QED
    BY <2>2 DEF WholeFrames
<1>2. ASSUME NEW ops \in Singles \cup Batches
      PROVE  /\ Frames(next_lsn, ops) \in Seq(Frame)
             /\ \A j \in 1 .. Len(Frames(next_lsn, ops)) : Frames(next_lsn, ops)[j].st = "ok"
  <2> DEFINE fs == Frames(next_lsn, ops)
  <2>1. ops \in Seq(AllOps)
    BY RequestType
  <2>2. /\ fs \in Seq(Frame) /\ Len(fs) = Len(ops)
        /\ \A j \in 1 .. Len(ops) : fs[j] = [lsn |-> next_lsn + j - 1, op |-> ops[j], st |-> "ok"]
    BY <1>0, <2>1, FramesType
  <2> HIDE DEF fs
  <2>3. ASSUME NEW j \in 1 .. Len(fs) PROVE fs[j].st = "ok"
    <3>1. fs[j] = [lsn |-> next_lsn + j - 1, op |-> ops[j], st |-> "ok"]
      BY <2>2
    <3>2. QED
      BY <3>1
  <2>4. QED
    BY <2>2, <2>3 DEF fs
<1>3. ASSUME NEW ops \in Singles \cup Batches, AppendToLog(ops)
      PROVE  WholeFrames'
  <2> DEFINE fs == Frames(next_lsn, ops)
  <2>1. fs \in Seq(Frame) /\ \A j \in 1 .. Len(fs) : fs[j].st = "ok"
    BY <1>2
  <2>2. log' = log \o fs
    BY <1>0, <1>3 DEF AppendToLog
  <2> HIDE DEF fs
  <2>3. QED
    BY <1>1, <2>1, <2>2
<1>4. ASSUME NEW op \in Ops, LogAndApply(op)
      PROVE  WholeFrames'
  BY <1>3, <1>4 DEF LogAndApply, Singles
<1>5. ASSUME NEW ops \in AcceptedBatches, InsertBatch(ops)
      PROVE  WholeFrames'
  BY <1>3, <1>5 DEF InsertBatch, AcceptedBatches
<1>6. ASSUME NEW ops \in Requests, AppendFails(ops)
      PROVE  WholeFrames'
  BY <1>6 DEF AppendFails
<1>7. ASSUME NEW ops \in Requests, CrashInAppend(ops)
      PROVE  WholeFrames'
  <2>1. ops \in Singles \cup Batches
    BY DEF Requests, AcceptedBatches
  <2> DEFINE fs == Frames(next_lsn, ops)
  <2>2. fs \in Seq(Frame) /\ \A j \in 1 .. Len(fs) : fs[j].st = "ok"
    BY <1>2, <2>1
  <2>3. wbuf \o fs = fs
    BY <1>0, <2>2
  <2>4. PICK p \in PartialWrites(fs) : log' = log \o p
    BY <1>7, <2>3 DEF CrashInAppend
  <2> HIDE DEF fs
  <2>5. PICK k \in 0 .. Len(fs) : p = SubSeq(fs, 1, k)
    BY <2>4 DEF PartialWrites
  <2>6. p \in Seq(Frame) /\ Len(p) = k /\ \A j \in 1 .. k : p[j] = fs[j]
    BY <2>2, <2>5
  <2>7. \A j \in 1 .. Len(p) : p[j].st = "ok"
    BY <2>2, <2>6
  <2>8. QED
    BY <1>1, <2>4, <2>6, <2>7
<1>8. CASE CheckpointTruncate
  BY <1>8 DEF CheckpointTruncate, WholeFrames
<1>9. CASE Crash
  <2>1. log' = log
    BY <1>0, <1>9, NothingBuffered DEF Crash
  <2>2. QED
    BY <2>1 DEF WholeFrames
<1>10. CASE log' = log
  BY <1>10 DEF WholeFrames
<1>11. QED
  BY <1>4, <1>5, <1>6, <1>7, <1>8, <1>9, <1>10 DEF Next, Checkpoint, CheckpointRename, RenameAt,
     CheckpointFails, Open, ReplayEntry, OpenFinish, OpenFails, disk, vars

----------------------------------------------------------------------------
(* The operators of the promise are the operators of WalStore. *)

\* The abstract specification applies requests with the same operators.
LEMMA SameOperators ==
    /\ \A s, op : Promise!ApplyLive(s, op) = ApplyLive(s, op)
    /\ \A s, c, ops, n : Promise!ApplyBatch(s, c, ops, n) = ApplyBatch(s, c, ops, n)
    /\ Promise!Singles = Singles /\ Promise!Batches = Batches
    /\ Promise!EmptyStore = EmptyStore
    /\ \A ops : Promise!Uncertain(worlds, ops) = Uncertain(ops)
<1>1. ASSUME NEW s, NEW op PROVE Promise!ApplyLive(s, op) = ApplyLive(s, op)
  BY DEF Promise!ApplyLive, ApplyLive, Promise!Accepts, Accepts,
         Promise!CollectionAfter, CollectionAfter, Promise!UpsertRow, UpsertRow,
         Promise!NewCollection, NewCollection
<1>2. ASSUME NEW s, NEW c, NEW ops, NEW n
      PROVE  Promise!ApplyBatch(s, c, ops, n) = ApplyBatch(s, c, ops, n)
  BY DEF Promise!ApplyBatch, ApplyBatch, Promise!BatchRow, BatchRow,
         Promise!LastOf, LastOf
<1>3. Promise!Singles = Singles
  BY DEF Promise!Singles, Singles
<1>4. Promise!Batches = Batches
  BY DEF Promise!Batches, Batches, Promise!BatchRows, BatchRows
<1>5. ASSUME NEW ops PROVE Promise!Uncertain(worlds, ops) = Uncertain(ops)
  BY <1>1, <1>2, <1>3 DEF Promise!Uncertain, Uncertain, Promise!Upto, Upto
<1>6. Promise!EmptyStore = EmptyStore
  BY DEF Promise!EmptyStore, EmptyStore
<1>7. QED
  BY <1>1, <1>2, <1>3, <1>4, <1>5, <1>6

----------------------------------------------------------------------------
(* The refinement *)

Seen == IF Up THEN mem ELSE EmptyStore

\* Every step of WalStore is a step of the promise, or changes nothing it sees.
LEMMA PromiseStep ==
    ASSUME AppendMayFail = FALSE, TypeOK, TypeOK', DurableRecovery, WholeFrames, LsnInv,
           [Next]_vars
    PROVE  [Promise!Next]_(Promise!vars)
<1> USE DEF Up
<1>T. log \in Seq(Frame) /\ Len(log) \in Nat
  BY DEF TypeOK
<1>0. ~TearBuried
  BY <1>T DEF TearBuried, WholeFrames
<1>1. ASSUME UNCHANGED <<Up, Seen, worlds>>
      PROVE  UNCHANGED Promise!vars
  BY <1>1 DEF Promise!vars, Seen
<1>2. ASSUME NEW op \in Ops, LogAndApply(op)
      PROVE  Promise!Commit(op)
  BY <1>2, SameOperators DEF Promise!Commit, LogAndApply
<1>3. ASSUME NEW ops \in AcceptedBatches, InsertBatch(ops)
      PROVE  Promise!CommitBatch(ops)
  BY <1>3, SameOperators DEF Promise!CommitBatch, InsertBatch
<1>4. ASSUME NEW ops \in Requests, AppendFails(ops)
      PROVE  FALSE
  BY <1>4 DEF AppendFails
<1>5. ASSUME NEW ops \in Requests, CrashInAppend(ops)
      PROVE  Promise!Die
  <2>1. ops \in Promise!Singles \cup Promise!Batches
    BY SameOperators DEF Requests, AcceptedBatches
  <2>2. worlds' = Promise!Uncertain(worlds, ops) /\ phase' = "down"
    BY <1>5, SameOperators DEF CrashInAppend
  <2>3. QED
    BY <2>1, <2>2, SameOperators DEF Promise!Die
<1>6. CASE Checkpoint \/ CheckpointRename
  <2>1. UNCHANGED <<Up, Seen, worlds>>
    BY <1>6 DEF Checkpoint, CheckpointRename, RenameAt, Seen
  <2>2. QED
    BY <1>1, <2>1
<1>7. CASE CheckpointTruncate
  <2>1. Promise!Settle
    BY <1>7 DEF CheckpointTruncate, Promise!Settle
  <2>2. QED
    BY <2>1 DEF Promise!Next
<1>8. CASE CheckpointFails
  BY <1>8 DEF CheckpointFails
<1>9. CASE Crash
  <2>1. Promise!Die
    BY <1>9, SameOperators DEF Crash, Promise!Die
  <2>2. QED
    BY <2>1 DEF Promise!Next
<1>10. CASE Open \/ ReplayEntry \/ OpenFails
  <2>1. UNCHANGED <<Up, Seen, worlds>>
    BY <1>10 DEF Open, ReplayEntry, OpenFails, Seen
  <2>2. QED
    BY <1>1, <2>1
<1>11. CASE OpenFinish
  <2>1. ~LsnStraddle
    <3> SUFFICES ASSUME NEW i \in 1 .. Len(log), NEW j \in 1 .. Len(log),
                        i < j, log[j].lsn < log[i].lsn
                 PROVE  FALSE
      BY DEF LsnStraddle
    <3>1. Read(log, j)
      BY <1>T DEF Read, WholeFrames
    <3>2. log[i].lsn < log[j].lsn
      BY <3>1 DEF LsnInv, Ordered
    <3>3. log[i] \in Frame /\ log[j] \in Frame
      BY <1>T
    <3>4. log[i].lsn \in Nat /\ log[j].lsn \in Nat
      BY <3>3 DEF Frame
    <3>5. QED
      BY <3>2, <3>4
  <2>2. mem \in worlds
    BY <1>0, <1>11, <2>1 DEF DurableRecovery, OpenFinish
  <2>3. Promise!Restart
    BY <1>11, <2>2 DEF OpenFinish, Promise!Restart
  <2>4. QED
    BY <2>3 DEF Promise!Next
<1>12. CASE UNCHANGED vars
  <2>1. UNCHANGED <<Up, Seen, worlds>>
    BY <1>12 DEF vars, Seen
  <2>2. QED
    BY <1>1, <2>1
<1>13. CASE \E op \in Ops : LogAndApply(op)
  BY <1>2, <1>13 DEF Promise!Next
<1>14. CASE \E ops \in AcceptedBatches : InsertBatch(ops)
  <2>1. PICK ops \in AcceptedBatches : InsertBatch(ops)
    BY <1>14
  <2>2. Promise!CommitBatch(ops) /\ ops \in Promise!Batches
    BY <1>3, <2>1, SameOperators DEF AcceptedBatches
  <2>3. QED
    BY <2>2 DEF Promise!Next
<1>15. CASE \E ops \in Requests : CrashInAppend(ops)
  BY <1>5, <1>15 DEF Promise!Next
<1>16. QED
  BY <1>4, <1>6, <1>7, <1>8, <1>9, <1>10, <1>11, <1>12, <1>13, <1>14, <1>15 DEF Next

\* WalManager keeps the promise of DurableStore: through any number of
\* crashes, checkpoints and interrupted batches, a restart returns to a store
\* the acknowledged operations allow, and nothing else ever changes it.
THEOREM PromiseIsKept ==
    ASSUME AppendMayFail = FALSE, TearMayHappen = FALSE
    PROVE  Spec => PromiseKept
<1>1. Init => Promise!Init
  BY SameOperators DEF Init, Promise!Init
<1>2. Init => WholeFrames
  BY DEF Init, WholeFrames
<1>3. TypeOK /\ LsnInv /\ WholeFrames /\ [Next]_vars => WholeFrames'
  BY WholeFramesStep
<1>4. TypeOK /\ TypeOK' /\ DurableRecovery /\ WholeFrames /\ LsnInv /\ [Next]_vars
        => [Promise!Next]_(Promise!vars)
  BY PromiseStep
<1>5. QED
  BY <1>1, <1>2, <1>3, <1>4, TypeCorrect, LsnInvAlways, RecoveryIsDurable, PTL
     DEF Spec, PromiseKept, Promise!Spec
=============================================================================
