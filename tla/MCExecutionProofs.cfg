SPECIFICATION FairSpec
CONSTANTS
    p1 = p1
    p2 = p2
    d1 = d1
    d2 = d2
    o1 = o1
    o2 = o2
    o3 = o3
    None = None
    Blocks <- MCBlocks
    Anchor = 0
    Parent <- MCParent
    SlotOf <- MCSlotOf
    EpochStarts <- MCEpochStarts
    Payloads <- MCPayloads
    Deliveries <- MCDeliveries
    Envelope <- MCEnvelope
    Submissions <- MCSubmissions
    Proof <- MCProof
    Faults <- MCFaults
INVARIANTS
    VerifiedOnce
    ContextIsSelected
PROPERTIES
    StoredProofsAreSound
    RejectedForCause
    EveryProofIsAnswered
    AdmittedProofCounts
CHECK_DEADLOCK FALSE
