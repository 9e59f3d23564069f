------------------------- MODULE MCSourceMaintenance -------------------------
(***************************************************************************)
(* SourceMaintenance for TLC: one table and two ids, so that one row can   *)
(* be applied before another is refused, or two tables and one id, where a *)
(* collection is rebound.                                                  *)
(***************************************************************************)
EXTENDS SourceMaintenance, TLC

CONSTANTS i1, i2, t1, t2

OneId == {i1}
TwoIds == {i1, i2}
OneTable == {t1}
TwoTables == {t1, t2}

Symmetric == Permutations(TwoIds)

=============================================================================
