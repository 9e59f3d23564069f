----------------------------- MODULE VectorTable -----------------------------
(***************************************************************************)
(* What the VectorIndex trait promises of every index: a table from ids to *)
(* vectors.  insert writes a row or overwrites it, delete empties it, and  *)
(* no other operation (compaction, training, snapshots) changes the table. *)
(***************************************************************************)
CONSTANTS Ids, Vecs, NoVec

VARIABLE rows

Init == rows = [i \in Ids |-> NoVec]

Insert(i, v) == rows' = [rows EXCEPT ![i] = v]

Delete(i) == rows' = [rows EXCEPT ![i] = NoVec]

Next == \E i \in Ids : Delete(i) \/ \E v \in Vecs : Insert(i, v)

Spec == Init /\ [][Next]_rows

=============================================================================
