----------------------------- MODULE MCHaCommit -----------------------------
(* Model-checking instance of HaCommit: the interchangeable constants. *)
EXTENDS HaCommit, TLC

Symmetry ==
  Permutations(Owners) \cup Permutations(Writers) \cup Permutations(Txs)

=============================================================================
