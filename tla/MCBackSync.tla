----------------------------- MODULE MCBackSync -----------------------------
(***************************************************************************)
(* A chain of five blocks with an empty slot, a fork from its second block *)
(* that an earlier life of the node may have finalized, and a block of slot*)
(* 0 that is not our genesis block.                                        *)
(***************************************************************************)
EXTENDS BackSync, TLC

CONSTANTS b0, b1, b2, b4, b5, f2, g0

MCBlocks == {b0, b1, b2, b4, b5, f2, g0}
MCChain == MCBlocks \ {f2, g0}
MCSlotOf == [b \in MCBlocks |-> CASE b \in {b0, g0} -> 0 [] b = b1 -> 1 [] b \in {b2, f2} -> 2
                                   [] b = b4 -> 4 [] b = b5 -> 5]
MCParent == [b \in MCBlocks |-> CASE b \in {b0, g0} -> None [] b = b1 -> b0
                                   [] b \in {b2, f2} -> b1 [] b = b4 -> b2 [] b = b5 -> b4]

\* Up to two blocks before the last checkpoint, with or without sidecars.
MCBadAnswers ==
  {a \in [blocks : SUBSET (MCBlocks \ {b5}), data : {{}, {b4}}] :
     /\ a.data \subseteq a.blocks
     /\ Cardinality(a.blocks) < 3 /\ a.blocks \notin {{b0, g0}, {b2, f2}}}
=============================================================================
