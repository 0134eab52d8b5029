-------------------------- MODULE SlashingProtection --------------------------
(***************************************************************************)
(* The database that keeps validators from signing what they can be        *)
(* slashed for.  A message is recorded in a transaction before it is       *)
(* signed, and refused when it contradicts a record; old records are       *)
(* pruned, and the epoch they were pruned in takes their place.            *)
(*                                                                         *)
(* One mutex guards the database.  It is held from the check of a message  *)
(* until its signature is there, and throughout pruning, which takes three *)
(* transactions; a crash may come between any two steps and leaves what    *)
(* was committed.  A message is made before the mutex is taken, in what    *)
(* its maker takes for the current epoch, so any message may turn up at    *)
(* any time.  Messages of one batch are for different keys and do not      *)
(* affect each other: they are taken one by one.  A refusal changes        *)
(* nothing and is not a step.                                              *)
(*                                                                         *)
(* A signing root stands for all of a message.  Records from an            *)
(* interchange file may come without one (NoRoot).                         *)
(***************************************************************************)
EXTENDS Naturals, FiniteSets

CONSTANTS
    Keys,
    Epochs,
    Slots,
    Roots,          \* what messages vote for or propose
    NoRoot,
    SlotsPerEpoch,
    HistoryLimit,   \* in epochs
    MaxRecords      \* bound: how many messages are ever recorded

ASSUME ConstantsAssumption ==
    /\ Epochs \subseteq Nat
    /\ Slots \subseteq Nat
    /\ NoRoot \notin Roots
    /\ SlotsPerEpoch \in Nat \ {0}
    /\ HistoryLimit \in Nat

VARIABLES
    validators,     \* the tables of the database
    attestations,
    blocks,
    storedEpoch,    \* 0 stands for an epoch that has not been stored, too
    lock,           \* the mutex, and how far its holder has come
    recorded,       \* what has been recorded in order to be signed
    imported,       \* what has been imported
    signed

database == <<validators, attestations, blocks, storedEpoch>>
history == recorded \union imported
vars == <<database, lock, recorded, imported, signed>>

Attestation ==
    {a \in [kind : {"attestation"}, key : Keys, source : Epochs, target : Epochs,
            root : Roots \union {NoRoot}] : a.source <= a.target}
Proposal == [kind : {"block"}, key : Keys, slot : Slots, root : Roots \union {NoRoot}]

EpochAt(slot) == slot \div SlotsPerEpoch
StartOf(epoch) == epoch * SlotsPerEpoch

Signable == {x \in Attestation \union Proposal : x.root # NoRoot}

\* What a beacon node may answer to a validator in epoch now.  The node in the same
\* process makes attestations for the current epoch; of another node only a
\* target in the future, or before the source, is refused.
AttestationsAt(now) == {a \in Attestation \intersect Signable : a.target <= now}

-----------------------------------------------------------------------------
(* Slashing conditions. *)

Surrounds(a, b) == a.source < b.source /\ b.target < a.target

Slashable(x, y) ==
    /\ x # y
    /\ x.kind = y.kind
    /\ x.key = y.key
    /\ IF x.kind = "block" THEN x.slot = y.slot
       ELSE x.target = y.target \/ Surrounds(x, y) \/ Surrounds(y, x)

-----------------------------------------------------------------------------
(* Checking, recording and signing. *)

Free == [by |-> "nobody"]
Signer(x, now) == [by |-> "signer", message |-> x, epoch |-> now]
Pruner(epoch, step) == [by |-> "pruner", epoch |-> epoch, step |-> step]

Room == Cardinality(history) < MaxRecords

AttestationsOf(key) == {r \in attestations : r.key = key}
BlocksOf(key) == {r \in blocks : r.key = key}

Matching_NotSurrounding(a) ==
    {r \in AttestationsOf(a.key) : r.target = a.target \/ Surrounds(r, a)}

Matching(a) ==
    {r \in AttestationsOf(a.key) :
        r.target = a.target \/ Surrounds(r, a) \/ Surrounds(a, r)}

\* None matches, or the one that the query comes upon has the same signing root.
PassesMatching(a) == Matching(a) = {} \/ a \in Matching(a)

\* The source and the target are at least the lowest ones in the table.
PassesMinima(a) ==
    AttestationsOf(a.key) # {} =>
        /\ \E r \in AttestationsOf(a.key) : r.source <= a.source
        /\ \E r \in AttestationsOf(a.key) : r.target <= a.target

ValidateAttestation(a, now) ==
    /\ lock = Free
    /\ storedEpoch <= now
    /\ a.key \in validators
    /\ PassesMatching(a)
    /\ PassesMinima(a)
    /\ Room \/ a \in history
    /\ attestations' = {r \in attestations : r.key # a.key \/ r.target # a.target} \union {a}
    /\ recorded' = recorded \union {a}
    /\ lock' = Signer(a, now)
    /\ UNCHANGED <<validators, blocks, storedEpoch, imported, signed>>

\* An identical proposal is not signed again.
ValidateProposal(b) ==
    /\ lock = Free
    /\ storedEpoch <= EpochAt(b.slot)
    /\ \A r \in BlocksOf(b.key) : r.slot # b.slot
    /\ BlocksOf(b.key) # {} => \E r \in BlocksOf(b.key) : r.slot <= b.slot
    /\ Room \/ b \in history
    /\ validators' = validators \union {b.key}
    /\ blocks' = blocks \union {b}
    /\ recorded' = recorded \union {b}
    /\ lock' = Signer(b, EpochAt(b.slot))
    /\ UNCHANGED <<attestations, storedEpoch, imported, signed>>

Sign ==
    /\ lock.by = "signer"
    /\ signed' = signed \union {lock.message}
    /\ lock' = Free
    /\ UNCHANGED <<database, recorded, imported>>

\* The signer fails, pruning fails, or the process ends.
Interrupt ==
    /\ lock # Free
    /\ lock' = Free
    /\ UNCHANGED <<database, recorded, imported, signed>>

-----------------------------------------------------------------------------
(* Pruning, with the epoch the clock shows. *)

StartPruning_Lowers(epoch) ==
    /\ lock = Free
    /\ storedEpoch' = epoch
    /\ lock' = IF epoch < HistoryLimit THEN Free ELSE Pruner(epoch, "attestations")
    /\ UNCHANGED <<validators, attestations, blocks, recorded, imported, signed>>

\* The epoch is stored first and never lowered.
StartPruning(epoch) ==
    /\ lock = Free
    /\ storedEpoch' = IF epoch > storedEpoch THEN epoch ELSE storedEpoch
    /\ lock' = IF epoch < HistoryLimit THEN Free ELSE Pruner(epoch, "attestations")
    /\ UNCHANGED <<validators, attestations, blocks, recorded, imported, signed>>

PruneAttestations ==
    /\ lock.by = "pruner"
    /\ lock.step = "attestations"
    /\ attestations' = {r \in attestations : r.target >= lock.epoch - HistoryLimit}
    /\ lock' = Pruner(lock.epoch, "blocks")
    /\ UNCHANGED <<validators, blocks, storedEpoch, recorded, imported, signed>>

PruneBlocks ==
    /\ lock.by = "pruner"
    /\ lock.step = "blocks"
    /\ blocks' = {r \in blocks : r.slot >= StartOf(lock.epoch - HistoryLimit)}
    /\ lock' = Free
    /\ UNCHANGED <<validators, attestations, storedEpoch, recorded, imported, signed>>

-----------------------------------------------------------------------------
(* Keys and records from elsewhere. *)

RegisterValidator(key) ==
    /\ lock = Free
    /\ key \notin validators
    /\ validators' = validators \union {key}
    /\ UNCHANGED <<attestations, blocks, storedEpoch, lock, recorded, imported, signed>>

\* A record for a target or a slot that already has one is left out and reported.
Import(r) ==
    /\ lock = Free
    /\ Room \/ r \in history
    /\ validators' = validators \union {r.key}
    /\ LET taken == IF r.kind = "block"
                    THEN \E x \in BlocksOf(r.key) : x.slot = r.slot
                    ELSE \E x \in AttestationsOf(r.key) : x.target = r.target IN
       /\ attestations' = IF r.kind = "attestation" /\ ~taken
                          THEN attestations \union {r} ELSE attestations
       /\ blocks' = IF r.kind = "block" /\ ~taken THEN blocks \union {r} ELSE blocks
       /\ imported' = IF taken THEN imported ELSE imported \union {r}
    /\ UNCHANGED <<storedEpoch, lock, recorded, signed>>

-----------------------------------------------------------------------------
Init ==
    /\ validators = {} /\ attestations = {} /\ blocks = {} /\ storedEpoch = 0
    /\ lock = Free
    /\ recorded = {} /\ imported = {} /\ signed = {}

Next ==
    \/ \E now \in Epochs : \E a \in AttestationsAt(now) : ValidateAttestation(a, now)
    \/ \E b \in Proposal \intersect Signable : ValidateProposal(b)
    \/ Sign
    \/ Interrupt
    \/ \E epoch \in Epochs : StartPruning(epoch)
    \/ PruneAttestations
    \/ PruneBlocks
    \/ \E key \in Keys : RegisterValidator(key)
    \/ \E r \in Attestation \union Proposal : Import(r)

Spec == Init /\ [][Next]_vars

-----------------------------------------------------------------------------
\* The tables hold records, with one attestation per target and one block per
\* slot of a key (the UNIQUE constraints), and the mutex has a holder or none.
TypeOK ==
    /\ validators \subseteq Keys
    /\ attestations \subseteq Attestation
    /\ blocks \subseteq Proposal
    /\ storedEpoch \in Epochs \union {0}
    /\ history \union signed \subseteq Attestation \union Proposal
    /\ \A r, s \in attestations : r.key = s.key /\ r.target = s.target => r = s
    /\ \A r, s \in blocks : r.key = s.key /\ r.slot = s.slot => r = s
    /\ \/ lock = Free
       \/ \E x \in Signable, now \in Nat : lock = Signer(x, now)
       \/ \E epoch \in Epochs, step \in {"attestations", "blocks"} : lock = Pruner(epoch, step)

Outlived(y) == y.kind = "attestation" /\ y.target + HistoryLimit < storedEpoch

\* Two messages that this signer has signed contradict each other only if they are
\* attestations and one of them is older than the history that is kept, whatever
\* has been pruned or interrupted meanwhile and whatever the clock has shown.
\* No slot ever has two proposals.  (Messages that were signed elsewhere, and
\* contradicted others there, may be signed again.)
NeverSlashable ==
    \A x, y \in signed \ imported : Slashable(x, y) => Outlived(x) \/ Outlived(y)

\* A message that is recorded for the first time, to be signed, contradicts
\* nothing that was ever recorded or imported (validate_attestation,
\* validate_and_store_proposal), with one exception: a pruned attestation is
\* contradicted by one for an earlier epoch than the current one, or surrounded
\* by one that spans more epochs than are kept.
RespectsHistory ==
    [][\A x \in recorded' \ history : \A y \in history :
         Slashable(x, y) =>
             /\ y.kind = "attestation" /\ y \notin attestations
             /\ \/ x.target < lock'.epoch
                \/ Surrounds(x, y) /\ x.source + HistoryLimit < x.target]_vars
=============================================================================
