------------------------- MODULE MCExecutionProofs -------------------------
(***************************************************************************)
(* Finalizing block 1 retires the anchor, which the proofs are about.  Two *)
(* deliveries bring different payloads for it, the second by back-sync.    *)
(* The first two submissions share a proof, the first and the third a      *)
(* prover, the second and the third neither.  All prove the first payload; *)
(* the signature of the second may turn out to be wrong.                   *)
(***************************************************************************)
EXTENDS ExecutionProofs, TLC

CONSTANTS p1, p2, d1, d2, o1, o2, o3

MCBlocks == 0..1
MCParent == (1 :> 0)
MCSlotOf == (0 :> 0) @@ (1 :> 1)
MCEpochStarts == {1}
MCPayloads == {p1, p2}
MCDeliveries == {d1, d2}
MCEnvelope ==
    (d1 :> [block |-> 0, payload |-> p1, backSync |-> FALSE]) @@
    (d2 :> [block |-> 0, payload |-> p2, backSync |-> TRUE])
MCSubmissions == {o1, o2, o3}

Submitted(data, prover, claims) ==
    [block |-> 0, type |-> "zk", data |-> data, prover |-> prover,
     claims |-> claims]

MCProof ==
    (o1 :> Submitted("x", "v", p1)) @@
    (o2 :> Submitted("x", "w", p1)) @@
    (o3 :> Submitted("y", "v", p1))

MCFaults ==
    (o1 :> {"none"}) @@ (o2 :> {"none", "inauthentic"}) @@ (o3 :> {"none"})
=============================================================================
