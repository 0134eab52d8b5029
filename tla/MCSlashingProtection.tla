------------------------- MODULE MCSlashingProtection -------------------------
(* A small instance of SlashingProtection: one epoch of history is kept, so that *)
(* in epoch 3 the attestations for epochs 0 and 1 and the first slot can be      *)
(* pruned.  An attestation from 0 to 3 surrounds one from 1 to 1.  Three records *)
(* are the fewest that need the search for surround votes: with one record       *)
(* besides, the lowest epochs decide.                                            *)
EXTENDS SlashingProtection, TLC

MCEpochs == {0, 1, 3}
MCSlots == {1, 4}
MCSymmetry == Permutations(Roots)
=============================================================================
