-------------------------- MODULE MCIndexCompaction --------------------------
(***************************************************************************)
(* The instance of IndexCompaction for TLC.                                *)
(***************************************************************************)
EXTENDS IndexCompaction

CONSTANTS i1, i2, v1, v2, w1

TwoIds == {i1, i2}
TwoVecs == {v1, v2}
OneWorker == {w1}
=============================================================================
