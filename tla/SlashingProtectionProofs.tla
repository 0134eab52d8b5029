----------------------- MODULE SlashingProtectionProofs -----------------------
(***************************************************************************)
(* Proofs about the slashing protection database, for any keys, epochs,    *)
(* slots, history limit and number of records.                             *)
(*                                                                         *)
(* The idea: a record leaves the database only when it is older, at the    *)
(* stored epoch, than the history that is kept.  That is Kept; the other   *)
(* conjuncts of the invariant are what it needs.  The stored epoch then    *)
(* keeps away every proposal that could contradict the record, and every   *)
(* attestation for the current epoch whose source lies within the history. *)
(***************************************************************************)
EXTENDS SlashingProtection, TLAPS

\* A pruner prunes up to an epoch that has been stored.
PrunerOK ==
    \A epoch \in Epochs, step \in {"attestations", "blocks"} :
        lock = Pruner(epoch, step) => HistoryLimit <= epoch /\ epoch <= storedEpoch

\* The tables hold only what was recorded or imported, and only what was
\* recorded is signed.
Traced ==
    /\ attestations \union blocks \subseteq history
    /\ signed \subseteq recorded
    /\ \A x \in Signable, now \in Nat : lock = Signer(x, now) => x \in recorded

OldAttestation(y, epoch) == y.target + HistoryLimit < epoch
OldBlock(y, epoch) == \E p \in Nat : p + HistoryLimit <= epoch /\ y.slot < StartOf(p)

\* What is no longer in the tables is older than the stored epoch allows.
Kept ==
    /\ \A y \in history \intersect Attestation :
           y \in attestations \/ OldAttestation(y, storedEpoch)
    /\ \A y \in history \intersect Proposal : y \in blocks \/ OldBlock(y, storedEpoch)

\* What was recorded here and not imported is slashable only after one of the
\* messages has outlived the history.
OwnSafe ==
    \A x, y \in recorded \ imported : Slashable(x, y) => Outlived(x) \/ Outlived(y)

IInv == TypeOK /\ PrunerOK /\ Traced /\ Kept /\ OwnSafe

-----------------------------------------------------------------------------
\* A slot of a later epoch is not before the start of an earlier one: the epoch
\* check of validate_and_store_proposal against the slot prune deletes up to.
LEMMA NotBeforeStart ==
    ASSUME NEW p \in Nat, NEW slot \in Nat, p <= EpochAt(slot)
    PROVE  StartOf(p) <= slot
<1> DEFINE n == SlotsPerEpoch
           q == slot \div n
<1>1. n \in Nat /\ n > 0
  BY ConstantsAssumption
<1>2. q \in Nat /\ q * n <= slot
  BY <1>1, Z3
<1>3. p * n <= q * n
  BY <1>1, <1>2, Z3 DEF EpochAt
<1>4. p * n \in Nat /\ q * n \in Nat
  BY <1>1, <1>2
<1> QED
  BY <1>2, <1>3, <1>4 DEF StartOf

\* The two kinds of messages are different: their kind is part of the record.
LEMMA KindsDiffer ==
    /\ \A x \in Attestation : x.kind = "attestation" /\ x \notin Proposal
    /\ \A x \in Proposal : x.kind = "block" /\ x \notin Attestation
BY DEF Attestation, Proposal

\* Being slashable is symmetric.
LEMMA SlashableSymmetric ==
    ASSUME NEW x, NEW y, Slashable(x, y)
    PROVE  Slashable(y, x)
BY DEF Slashable

\* The three states of the mutex are different.
LEMMA LocksDiffer ==
    /\ \A x, n : /\ Signer(x, n) # Free /\ Signer(x, n).by = "signer"
                 /\ Signer(x, n).message = x /\ Signer(x, n).epoch = n
    /\ \A e, s : Pruner(e, s) # Free /\ Pruner(e, s).by = "pruner"
                 /\ Pruner(e, s).epoch = e /\ Pruner(e, s).step = s
    /\ \A x, n, e, s : Signer(x, n) # Pruner(e, s)
    /\ \A x, n, y, k : Signer(x, n) = Signer(y, k) => x = y
    /\ Free.by = "nobody"
BY DEF Signer, Pruner, Free

-----------------------------------------------------------------------------
\* What contradicts an old record although it passes the epoch check is an
\* attestation that is not for the current epoch or surrounds the record with a
\* source older than the history: no proposal does.
LEMMA OldIsHarmless ==
    ASSUME NEW epoch \in Nat, NEW now \in Nat, epoch <= now,
           NEW x \in Signable, NEW y \in Attestation \union Proposal,
           IF x.kind = "block" THEN now = EpochAt(x.slot) ELSE x.target <= now,
           IF y.kind = "block" THEN OldBlock(y, epoch) ELSE OldAttestation(y, epoch),
           Slashable(x, y)
    PROVE  /\ x.kind = "attestation" /\ y.kind = "attestation"
           /\ \/ x.target < now
              \/ Surrounds(x, y) /\ x.source + HistoryLimit < x.target
<1>1. CASE x.kind # y.kind
  BY <1>1 DEF Slashable
<1>2. CASE x \in Attestation /\ y \in Attestation
  <2>1. x.source \in Nat /\ x.target \in Nat /\ y.source \in Nat /\ y.target \in Nat
    BY Zenon, <1>2, ConstantsAssumption DEF Attestation
  <2>2. y.source <= y.target
    BY <1>2 DEF Attestation
  <2>3. y.target + HistoryLimit < epoch /\ x.target <= now
    BY <1>2, KindsDiffer DEF OldAttestation
  <2>4. x.target = y.target \/ Surrounds(x, y) \/ Surrounds(y, x)
    BY <1>2, KindsDiffer DEF Slashable
  <2>5. CASE x.target = now
    <3>1. y.target < x.target
      BY <2>1, <2>3, <2>5, ConstantsAssumption
    <3>2. Surrounds(x, y)
      BY <2>1, <2>4, <3>1 DEF Surrounds
    <3>3. x.source + HistoryLimit < x.target
      BY <2>1, <2>2, <2>3, <2>5, <3>2, ConstantsAssumption DEF Surrounds
    <3> QED
      BY <1>2, <3>2, <3>3, KindsDiffer
  <2> QED
    BY <1>2, <2>1, <2>3, <2>5, KindsDiffer
<1>3. CASE x \in Proposal /\ y \in Proposal
  <2>1. x.slot \in Nat /\ y.slot \in Nat
    BY Zenon, <1>3, ConstantsAssumption DEF Proposal
  <2>2. PICK p \in Nat : p + HistoryLimit <= epoch /\ y.slot < StartOf(p)
    BY <1>3, KindsDiffer DEF OldBlock
  <2>3. p <= EpochAt(x.slot)
    BY <1>3, <2>2, KindsDiffer, ConstantsAssumption
  <2>4. StartOf(p) \in Nat
    BY ConstantsAssumption DEF StartOf
  <2>5. StartOf(p) <= x.slot
    BY <2>1, <2>3, NotBeforeStart
  <2>6. x.slot # y.slot
    BY <2>1, <2>2, <2>4, <2>5
  <2> QED
    BY <1>3, <2>6, KindsDiffer DEF Slashable
<1> QED
  BY <1>1, <1>2, <1>3, KindsDiffer DEF Signable

\* An attestation that is recorded for the first time contradicts nothing in the
\* table, by the query, and of the rest only what the epoch check lets through.
LEMMA FreshAttestation ==
    ASSUME IInv, NEW now \in Epochs, NEW a \in AttestationsAt(now),
           ValidateAttestation(a, now), a \notin history, NEW y \in history, Slashable(a, y)
    PROVE  /\ y.kind = "attestation" /\ y \notin attestations /\ Outlived(y)
           /\ \/ a.target < now
              \/ Surrounds(a, y) /\ a.source + HistoryLimit < a.target
<1>1. storedEpoch \in Nat /\ now \in Nat /\ storedEpoch <= now
  BY ConstantsAssumption DEF IInv, TypeOK, ValidateAttestation
<1>2. y \in Attestation \union Proposal
  BY DEF IInv, TypeOK
<1>3. a \in Attestation /\ a \in Signable /\ a.target <= now /\ a.kind = "attestation"
  BY KindsDiffer DEF AttestationsAt
<1>4. CASE y \in attestations
  <2>1. a \notin attestations
    BY DEF IInv, Traced
  <2>2. Matching(a) = {}
    BY <2>1 DEF ValidateAttestation, PassesMatching, Matching, AttestationsOf
  <2>3. a.key = y.key => ~(y.target = a.target \/ Surrounds(y, a) \/ Surrounds(a, y))
    BY <1>4, <2>2 DEF Matching, AttestationsOf
  <2> QED
    BY <1>3, <2>3 DEF Slashable
<1>5. CASE y \in Attestation /\ y \notin attestations
  <2>1. OldAttestation(y, storedEpoch) /\ y.kind = "attestation"
    BY <1>5, KindsDiffer DEF IInv, Kept
  <2>2. Outlived(y)
    BY <2>1 DEF OldAttestation, Outlived
  <2> QED
    BY <1>1, <1>2, <1>3, <1>5, <2>1, <2>2, OldIsHarmless
<1>6. CASE y \in Proposal
  BY <1>3, <1>6, KindsDiffer DEF Slashable
<1> QED
  BY <1>2, <1>4, <1>5, <1>6

\* A proposal contradicts nothing at all.
LEMMA FreshProposal ==
    ASSUME IInv, NEW b \in Proposal \intersect Signable, ValidateProposal(b), NEW y \in history
    PROVE  ~Slashable(b, y)
<1>1. storedEpoch \in Nat /\ EpochAt(b.slot) \in Nat /\ storedEpoch <= EpochAt(b.slot)
  <2>1. b.slot \in Nat
    BY Zenon, ConstantsAssumption DEF Proposal
  <2>2. EpochAt(b.slot) \in Nat
    BY <2>1, ConstantsAssumption, Z3 DEF EpochAt
  <2> QED
    BY <2>2, ConstantsAssumption DEF IInv, TypeOK, ValidateProposal
<1>2. y \in Attestation \union Proposal
  BY DEF IInv, TypeOK
<1>3. CASE y \in blocks
  <2>1. b.key = y.key => y.slot # b.slot
    BY <1>3 DEF ValidateProposal, BlocksOf
  <2> QED
    BY <2>1, KindsDiffer DEF Slashable
<1>4. CASE y \in Proposal /\ y \notin blocks
  <2>1. OldBlock(y, storedEpoch)
    BY <1>4 DEF IInv, Kept
  <2> QED
    BY <1>1, <1>2, <1>4, <2>1, KindsDiffer, OldIsHarmless
<1>5. CASE y \in Attestation
  BY <1>5, KindsDiffer DEF Slashable
<1> QED
  BY <1>2, <1>3, <1>4, <1>5

-----------------------------------------------------------------------------
\* Recording an attestation replaces only an identical one.
LEMMA ReplacesOnlyItself ==
    ASSUME IInv, NEW now \in Epochs, NEW a \in AttestationsAt(now),
           ValidateAttestation(a, now)
    PROVE  attestations' = attestations \union {a}
<1>1. ASSUME NEW r \in attestations, r.key = a.key, r.target = a.target
      PROVE  r = a
  <2>1. r \in Matching(a)
    BY <1>1 DEF Matching, AttestationsOf
  <2>2. a \in attestations
    BY <2>1 DEF ValidateAttestation, PassesMatching, Matching, AttestationsOf
  <2> QED
    BY <1>1, <2>2 DEF IInv, TypeOK
<1> QED
  BY <1>1 DEF ValidateAttestation

\* Recording an attestation (validate_attestation) preserves the invariant.
LEMMA ValidateAttestationPreserves ==
    ASSUME IInv, NEW now \in Epochs, NEW a \in AttestationsAt(now),
           ValidateAttestation(a, now)
    PROVE  IInv'
<1>1. attestations' = attestations \union {a}
  BY ReplacesOnlyItself
<1>2. /\ recorded' = recorded \union {a} /\ lock' = Signer(a, now)
      /\ UNCHANGED <<validators, blocks, storedEpoch, imported, signed>>
      /\ a \in Attestation \intersect Signable /\ now \in Nat
  BY ConstantsAssumption DEF ValidateAttestation, AttestationsAt
<1>3. TypeOK'
  <2>1. \A r, s \in attestations' : r.key = s.key /\ r.target = s.target => r = s
    BY DEF ValidateAttestation, IInv, TypeOK
  <2>2. \E x \in Signable, n \in Nat : lock' = Signer(x, n)
    BY <1>2
  <2> QED
    BY <1>1, <1>2, <2>1, <2>2 DEF IInv, TypeOK, history
<1>4. PrunerOK'
  BY <1>2 DEF PrunerOK, Signer, Pruner
<1>5. Traced'
  BY <1>1, <1>2, LocksDiffer DEF IInv, Traced, history
<1>6. Kept'
  BY <1>1, <1>2, KindsDiffer DEF IInv, Kept, history
<1>7. OwnSafe'
  <2>1. CASE a \in history
    <3>1. recorded' \ imported' = recorded \ imported
      BY <1>2, <2>1 DEF history
    <3> QED
      BY <1>2, <3>1 DEF IInv, OwnSafe, Outlived
  <2>2. CASE a \notin history
    <3>1. ~Slashable(a, a)
      BY DEF Slashable
    <3>2. \A y \in history : Slashable(a, y) \/ Slashable(y, a) => Outlived(y)
      BY <2>2, FreshAttestation, SlashableSymmetric
    <3> QED
      BY <1>2, <3>1, <3>2 DEF IInv, OwnSafe, Outlived, history
  <2> QED
    BY <2>1, <2>2
<1> QED
  BY <1>3, <1>4, <1>5, <1>6, <1>7 DEF IInv

\* Recording a proposal (validate_and_store_proposal) preserves the invariant.
LEMMA ValidateProposalPreserves ==
    ASSUME IInv, NEW b \in Proposal \intersect Signable, ValidateProposal(b)
    PROVE  IInv'
<1>1. /\ blocks' = blocks \union {b} /\ validators' = validators \union {b.key}
      /\ recorded' = recorded \union {b} /\ lock' = Signer(b, EpochAt(b.slot))
      /\ UNCHANGED <<attestations, storedEpoch, imported, signed>>
  BY DEF ValidateProposal
<1>2. TypeOK'
  <2>1. \A r, s \in blocks' : r.key = s.key /\ r.slot = s.slot => r = s
    BY DEF ValidateProposal, BlocksOf, IInv, TypeOK
  <2>2. \E x \in Signable, n \in Nat : lock' = Signer(x, n)
    <3>1. b.slot \in Nat
      BY Zenon, ConstantsAssumption DEF Proposal
    <3>2. EpochAt(b.slot) \in Nat
      BY <3>1, ConstantsAssumption, Z3 DEF EpochAt
    <3> QED
      BY <1>1, <3>2
  <2>3. b.key \in Keys
    BY DEF Proposal
  <2> QED
    BY <1>1, <2>1, <2>2, <2>3 DEF IInv, TypeOK, history
<1>3. PrunerOK'
  BY <1>1 DEF PrunerOK, Signer, Pruner
<1>4. Traced'
  BY <1>1, LocksDiffer DEF IInv, Traced, history
<1>5. Kept'
  BY <1>1, KindsDiffer DEF IInv, Kept, history
<1>6. OwnSafe'
  <2>1. ~Slashable(b, b)
    BY DEF Slashable
  <2>2. \A y \in history : ~Slashable(b, y) /\ ~Slashable(y, b)
    BY FreshProposal, SlashableSymmetric
  <2> QED
    BY <1>1, <2>1, <2>2 DEF IInv, OwnSafe, Outlived, history
<1> QED
  BY <1>2, <1>3, <1>4, <1>5, <1>6 DEF IInv

\* Signing what was recorded preserves the invariant.
LEMMA SignPreserves ==
    ASSUME IInv, Sign
    PROVE  IInv'
<1>1. /\ lock' = Free /\ signed' = signed \union {lock.message}
      /\ UNCHANGED <<validators, attestations, blocks, storedEpoch, recorded, imported>>
  BY DEF Sign, database
<1>2. PICK x \in Signable, n \in Nat : lock = Signer(x, n)
  BY LocksDiffer DEF Sign, IInv, TypeOK
<1>3. lock.message = x /\ x \in recorded
  BY <1>2, LocksDiffer DEF IInv, Traced
<1>4. signed' \subseteq recorded
  BY <1>1, <1>3 DEF IInv, Traced
<1>5. TypeOK'
  BY <1>1, <1>4 DEF IInv, TypeOK, history
<1>6. PrunerOK' /\ Traced'
  BY <1>1, <1>4, LocksDiffer DEF IInv, PrunerOK, Traced, history
<1>7. Kept' /\ OwnSafe'
  BY <1>1 DEF IInv, Kept, OwnSafe, Outlived, history
<1> QED
  BY <1>5, <1>6, <1>7 DEF IInv

\* So does a failure or a crash while the mutex is held.
LEMMA InterruptPreserves ==
    ASSUME IInv, Interrupt
    PROVE  IInv'
<1>1. /\ lock' = Free
      /\ UNCHANGED <<validators, attestations, blocks, storedEpoch, recorded, imported, signed>>
  BY DEF Interrupt, database
<1>2. TypeOK'
  BY <1>1 DEF IInv, TypeOK, history
<1>3. PrunerOK' /\ Traced'
  BY <1>1, LocksDiffer DEF IInv, PrunerOK, Traced, history
<1>4. Kept' /\ OwnSafe'
  BY <1>1 DEF IInv, Kept, OwnSafe, Outlived, history
<1> QED
  BY <1>2, <1>3, <1>4 DEF IInv

-----------------------------------------------------------------------------
\* Storing the epoch (prune) preserves it: old records stay old.
LEMMA StartPruningPreserves ==
    ASSUME IInv, NEW epoch \in Epochs, StartPruning(epoch)
    PROVE  IInv'
<1>1. /\ storedEpoch' = (IF epoch > storedEpoch THEN epoch ELSE storedEpoch)
      /\ lock' = (IF epoch < HistoryLimit THEN Free ELSE Pruner(epoch, "attestations"))
      /\ UNCHANGED <<validators, attestations, blocks, recorded, imported, signed>>
  BY DEF StartPruning
<1>2. epoch \in Nat /\ storedEpoch \in Nat /\ HistoryLimit \in Nat
  BY ConstantsAssumption DEF IInv, TypeOK
<1>3. storedEpoch' \in Nat /\ storedEpoch' \in Epochs \union {0}
      /\ storedEpoch <= storedEpoch' /\ epoch <= storedEpoch'
  BY <1>1, <1>2 DEF IInv, TypeOK
<1>4. TypeOK'
  <2>1. lock' = Free
        \/ \E e \in Epochs, step \in {"attestations", "blocks"} : lock' = Pruner(e, step)
    BY <1>1
  <2> QED
    BY <1>1, <1>3, <2>1 DEF IInv, TypeOK, history
<1>5. PrunerOK'
  <2> SUFFICES ASSUME NEW e \in Epochs, NEW step \in {"attestations", "blocks"},
                      lock' = Pruner(e, step)
               PROVE  HistoryLimit <= e /\ e <= storedEpoch'
    BY Zenon DEF PrunerOK, Pruner
  <2>1. ~(epoch < HistoryLimit)
    BY <1>1 DEF Pruner, Free
  <2>2. e = epoch
    BY <1>1, <2>1 DEF Pruner
  <2> QED
    BY <1>2, <1>3, <2>1, <2>2
<1>6. Traced'
  <2>1. \A x \in Signable, n \in Nat : lock' # Signer(x, n)
    BY <1>1, LocksDiffer
  <2> QED
    BY <1>1, <2>1 DEF IInv, Traced, history
<1>7. Kept'
  <2>1. ASSUME NEW y \in history \intersect Attestation, OldAttestation(y, storedEpoch)
        PROVE  OldAttestation(y, storedEpoch')
    <3>1. y.target \in Nat
      BY Zenon, ConstantsAssumption DEF Attestation
    <3> QED
      BY <1>2, <1>3, <2>1, <3>1 DEF OldAttestation
  <2>2. ASSUME NEW y \in history \intersect Proposal, OldBlock(y, storedEpoch)
        PROVE  OldBlock(y, storedEpoch')
    BY <1>2, <1>3, <2>2 DEF OldBlock
  <2> QED
    BY <1>1, <2>1, <2>2 DEF IInv, Kept, history
<1>8. OwnSafe'
  <2>1. ASSUME NEW y \in recorded, Outlived(y)
        PROVE  Outlived(y)'
    <3>1. y \in Attestation
      BY <2>1, KindsDiffer DEF Outlived, IInv, TypeOK, history
    <3>2. y.target \in Nat
      BY Zenon, <3>1, ConstantsAssumption DEF Attestation
    <3> QED
      BY <1>2, <1>3, <2>1, <3>2 DEF Outlived
  <2> QED
    BY <1>1, <2>1 DEF IInv, OwnSafe
<1> QED
  BY <1>4, <1>5, <1>6, <1>7, <1>8 DEF IInv

\* The pruner that holds the mutex, and what is known of its epoch.
LEMMA PrunerIs ==
    ASSUME IInv, lock.by = "pruner"
    PROVE  \E epoch \in Epochs, step \in {"attestations", "blocks"} :
               lock = Pruner(epoch, step) /\ HistoryLimit <= epoch /\ epoch <= storedEpoch
BY LocksDiffer DEF IInv, TypeOK, PrunerOK

\* What prune_attestations deletes is old at the stored epoch.
LEMMA PruneAttestationsPreserves ==
    ASSUME IInv, PruneAttestations
    PROVE  IInv'
<1>1. PICK epoch \in Epochs, step \in {"attestations", "blocks"} :
          lock = Pruner(epoch, step) /\ HistoryLimit <= epoch /\ epoch <= storedEpoch
  BY PrunerIs DEF PruneAttestations
<1>2. epoch \in Nat /\ storedEpoch \in Nat /\ HistoryLimit \in Nat
  BY ConstantsAssumption DEF IInv, TypeOK
<1>3. lock.epoch = epoch
  BY <1>1, LocksDiffer
<1>4. /\ attestations' = {r \in attestations : r.target >= epoch - HistoryLimit}
      /\ lock' = Pruner(epoch, "blocks")
      /\ UNCHANGED <<validators, blocks, storedEpoch, recorded, imported, signed>>
  BY <1>3 DEF PruneAttestations
<1>5. TypeOK'
  <2>1. \E e \in Epochs, s \in {"attestations", "blocks"} : lock' = Pruner(e, s)
    BY <1>4
  <2> QED
    BY <1>4, <2>1 DEF IInv, TypeOK, history
<1>6. PrunerOK'
  <2> SUFFICES ASSUME NEW e \in Epochs, NEW s \in {"attestations", "blocks"},
                      lock' = Pruner(e, s)
               PROVE  HistoryLimit <= e /\ e <= storedEpoch'
    BY Zenon DEF PrunerOK, Pruner
  <2>1. e = epoch
    BY <1>4 DEF Pruner
  <2> QED
    BY <1>1, <1>4, <2>1
<1>7. Traced'
  <2>1. \A x \in Signable, n \in Nat : lock' # Signer(x, n)
    BY <1>4, LocksDiffer
  <2> QED
    BY <1>4, <2>1 DEF IInv, Traced, history
<1>8. Kept'
  <2>1. ASSUME NEW y \in attestations, y \notin attestations'
        PROVE  OldAttestation(y, storedEpoch')
    <3>1. y.target \in Nat
      BY Zenon, ConstantsAssumption DEF IInv, TypeOK, Attestation
    <3>2. ~(y.target >= epoch - HistoryLimit)
      BY <1>4, <2>1
    <3> QED
      BY <1>1, <1>2, <1>4, <3>1, <3>2 DEF OldAttestation
  <2> QED
    BY <1>4, <2>1 DEF IInv, Kept, history
<1>9. OwnSafe'
  BY <1>4 DEF IInv, OwnSafe, Outlived
<1> QED
  BY <1>5, <1>6, <1>7, <1>8, <1>9 DEF IInv

\* What prune_blocks deletes is old at the stored epoch.
LEMMA PruneBlocksPreserves ==
    ASSUME IInv, PruneBlocks
    PROVE  IInv'
<1>1. PICK epoch \in Epochs, step \in {"attestations", "blocks"} :
          lock = Pruner(epoch, step) /\ HistoryLimit <= epoch /\ epoch <= storedEpoch
  BY PrunerIs DEF PruneBlocks
<1>2. epoch \in Nat /\ storedEpoch \in Nat /\ HistoryLimit \in Nat
  BY ConstantsAssumption DEF IInv, TypeOK
<1>3. lock.epoch = epoch
  BY <1>1, LocksDiffer
<1>4. /\ blocks' = {r \in blocks : r.slot >= StartOf(epoch - HistoryLimit)}
      /\ lock' = Free
      /\ UNCHANGED <<validators, attestations, storedEpoch, recorded, imported, signed>>
  BY <1>3 DEF PruneBlocks
<1>5. TypeOK'
  BY <1>4 DEF IInv, TypeOK, history
<1>6. PrunerOK' /\ Traced'
  BY <1>4, LocksDiffer DEF IInv, PrunerOK, Traced, history
<1>7. Kept'
  <2>1. epoch - HistoryLimit \in Nat /\ (epoch - HistoryLimit) + HistoryLimit <= storedEpoch
    BY <1>1, <1>2
  <2>2. ASSUME NEW y \in blocks, y \notin blocks'
        PROVE  OldBlock(y, storedEpoch')
    <3>1. y.slot \in Nat
      BY Zenon, ConstantsAssumption DEF IInv, TypeOK, Proposal
    <3>2. StartOf(epoch - HistoryLimit) \in Nat
      BY <2>1, ConstantsAssumption DEF StartOf
    <3>3. y.slot < StartOf(epoch - HistoryLimit)
      BY <1>4, <2>2, <3>1, <3>2
    <3>4. storedEpoch' = storedEpoch
      BY <1>4
    <3> QED
      BY <2>1, <3>3, <3>4 DEF OldBlock
  <2> QED
    BY <1>4, <2>2 DEF IInv, Kept, history
<1>8. OwnSafe'
  BY <1>4 DEF IInv, OwnSafe, Outlived
<1> QED
  BY <1>5, <1>6, <1>7, <1>8 DEF IInv

\* Registering a key (register_validators) preserves the invariant.
LEMMA RegisterValidatorPreserves ==
    ASSUME IInv, NEW key \in Keys, RegisterValidator(key)
    PROVE  IInv'
<1>1. /\ validators' = validators \union {key}
      /\ UNCHANGED <<attestations, blocks, storedEpoch, lock, recorded, imported, signed>>
  BY DEF RegisterValidator
<1>2. TypeOK'
  BY <1>1 DEF IInv, TypeOK, history
<1>3. PrunerOK'
  BY Zenon, <1>1 DEF IInv, PrunerOK, Pruner
<1>4. Traced'
  BY <1>1 DEF IInv, Traced, history, Signer
<1>5. Kept' /\ OwnSafe'
  BY <1>1 DEF IInv, Kept, OwnSafe, Outlived, history
<1> QED
  BY <1>2, <1>3, <1>4, <1>5 DEF IInv

\* Importing a record (import), or leaving it out, preserves the invariant.
LEMMA ImportPreserves ==
    ASSUME IInv, NEW r \in Attestation \union Proposal, Import(r)
    PROVE  IInv'
<1>1. lock = Free /\ UNCHANGED <<storedEpoch, lock, recorded, signed>>
      /\ validators' = validators \union {r.key} /\ r.key \in Keys
  BY DEF Import, Attestation, Proposal
<1>2. \/ UNCHANGED <<attestations, blocks, imported>>
      \/ /\ r \in Attestation /\ imported' = imported \union {r}
         /\ \A x \in attestations : x.key = r.key => x.target # r.target
         /\ attestations' = attestations \union {r} /\ blocks' = blocks
      \/ /\ r \in Proposal /\ imported' = imported \union {r}
         /\ \A x \in blocks : x.key = r.key => x.slot # r.slot
         /\ blocks' = blocks \union {r} /\ attestations' = attestations
  <2>1. CASE r \in Attestation
    BY <2>1, KindsDiffer DEF Import, AttestationsOf
  <2>2. CASE r \in Proposal
    BY <2>2, KindsDiffer DEF Import, BlocksOf
  <2> QED
    BY <2>1, <2>2
<1>3. TypeOK'
  <2>1. \A q, s \in attestations' : q.key = s.key /\ q.target = s.target => q = s
    BY <1>2 DEF IInv, TypeOK
  <2>2. \A q, s \in blocks' : q.key = s.key /\ q.slot = s.slot => q = s
    BY <1>2 DEF IInv, TypeOK
  <2>3. attestations' \subseteq Attestation /\ blocks' \subseteq Proposal
        /\ imported' \subseteq Attestation \union Proposal
    BY <1>2 DEF IInv, TypeOK, history
  <2> QED
    BY <1>1, <2>1, <2>2, <2>3 DEF IInv, TypeOK, history
<1>4. PrunerOK' /\ Traced'
  <2>1. attestations' \union blocks' \subseteq recorded' \union imported'
    BY <1>1, <1>2 DEF IInv, Traced, history
  <2> QED
    BY <1>1, <2>1, LocksDiffer DEF IInv, PrunerOK, Traced, history
<1>5. Kept'
  BY <1>1, <1>2, KindsDiffer DEF IInv, Kept, history
<1>6. OwnSafe'
  BY <1>1, <1>2 DEF IInv, OwnSafe, Outlived
<1> QED
  BY <1>3, <1>4, <1>5, <1>6 DEF IInv

-----------------------------------------------------------------------------
\* The invariant holds initially and is preserved by every step.
LEMMA Inductive ==
    /\ Init => IInv
    /\ IInv /\ [Next]_vars => IInv'
<1>1. Init => IInv
  BY LocksDiffer DEF Init, IInv, TypeOK, PrunerOK, Traced, Kept, OwnSafe, history
<1>2. ASSUME IInv, UNCHANGED vars
      PROVE  IInv'
  <2>1. UNCHANGED <<validators, attestations, blocks, storedEpoch, lock, recorded, imported, signed>>
    BY <1>2 DEF vars, database
  <2>2. PrunerOK'
    BY Zenon, <1>2, <2>1 DEF IInv, PrunerOK, Pruner
  <2>3. Traced'
    BY <1>2, <2>1 DEF IInv, Traced, history, Signer
  <2> QED
    BY <1>2, <2>1, <2>2, <2>3 DEF IInv, TypeOK, Kept, OwnSafe, Outlived, history
<1>3. ASSUME IInv, Next
      PROVE  IInv'
  BY <1>3, ValidateAttestationPreserves, ValidateProposalPreserves, SignPreserves,
     InterruptPreserves, StartPruningPreserves, PruneAttestationsPreserves,
     PruneBlocksPreserves, RegisterValidatorPreserves, ImportPreserves DEF Next
<1> QED
  BY <1>1, <1>2, <1>3

\* The tables keep their UNIQUE constraints.
THEOREM TypeCorrect == Spec => []TypeOK
<1>1. IInv => TypeOK
  BY DEF IInv
<1> QED
  BY <1>1, Inductive, PTL DEF Spec

\* Whatever is pruned or interrupted and whatever the clock shows, two messages
\* that are signed, and were not imported, contradict each other only if they are
\* attestations of which one has outlived the history that is kept.
THEOREM NoSlashing == Spec => []NeverSlashable
<1>1. IInv => NeverSlashable
  BY DEF IInv, Traced, OwnSafe, NeverSlashable
<1> QED
  BY <1>1, Inductive, PTL DEF Spec

\* A message that is recorded contradicts nothing that was ever recorded or
\* imported, unless it is an attestation that is not for the current epoch, or
\* one that spans more epochs than are kept and surrounds a pruned one.
THEOREM HistoryRespected == Spec => RespectsHistory
<1> DEFINE Respects ==
      \A x \in recorded' \ history : \A y \in history :
        Slashable(x, y) =>
            /\ y.kind = "attestation" /\ y \notin attestations
            /\ \/ x.target < lock'.epoch
               \/ Surrounds(x, y) /\ x.source + HistoryLimit < x.target
<1>1. ASSUME IInv, [Next]_vars
      PROVE  [Respects]_vars
  <2>1. CASE UNCHANGED vars
    BY <2>1
  <2>2. ASSUME NEW now \in Epochs, NEW a \in AttestationsAt(now), ValidateAttestation(a, now)
        PROVE  Respects
    <3>1. recorded' = recorded \union {a} /\ lock'.epoch = now
      BY <2>2, LocksDiffer DEF ValidateAttestation
    <3> QED
      BY <1>1, <2>2, <3>1, FreshAttestation DEF history
  <2>3. ASSUME NEW b \in Proposal \intersect Signable, ValidateProposal(b)
        PROVE  Respects
    <3>1. recorded' = recorded \union {b}
      BY <2>3 DEF ValidateProposal
    <3> QED
      BY <1>1, <2>3, <3>1, FreshProposal DEF history
  <2>4. CASE recorded' = recorded
    BY <2>4 DEF history
  <2> QED
    BY <1>1, <2>1, <2>2, <2>3, <2>4
    DEF Next, Sign, Interrupt, StartPruning, PruneAttestations, PruneBlocks,
        RegisterValidator, Import
<1> QED
  BY <1>1, Inductive, PTL DEF Spec, RespectsHistory
=============================================================================
