----------------------------- MODULE MCFtsGate -----------------------------
(* FtsGate for TLC: two ids, two texts. *)
EXTENDS FtsGate, TLC

Symmetry == Permutations(Ids) \cup Permutations(Texts)
=============================================================================
