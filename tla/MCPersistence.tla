---------------------------- MODULE MCPersistence ----------------------------
(***************************************************************************)
(* Instances of the persistence of sidecars and envelopes for TLC.         *)
(***************************************************************************)
EXTENDS Persistence, TLC

Symmetry == Permutations(Workers)
=============================================================================
