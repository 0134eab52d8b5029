---------------------------- MODULE MCStateCache ----------------------------
(* Instances of StateCache.tla for TLC. *)
EXTENDS StateCache, TLC

Symmetry == Permutations(Calls) \cup Permutations(Entries) \cup Permutations(Roots)
=============================================================================
