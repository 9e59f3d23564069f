--------------------------- MODULE MCVectorIndexes ---------------------------
(***************************************************************************)
(* Three IVF indexes of two lists over three vectors, four units apart at  *)
(* least: one that probes a single list, one that probes both, and one     *)
(* that probes both and quantizes.                                         *)
(***************************************************************************)
EXTENDS VectorIndexes

ThreeKinds == {<<1, FALSE>>, <<2, FALSE>>, <<2, TRUE>>}

=============================================================================
