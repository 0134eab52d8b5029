--------------------------- MODULE ExecutionProofs ---------------------------
(***************************************************************************)
(* Execution proofs (EIP-8025): a proof is prepared by a task against a    *)
(* snapshot of the store, admitted by the mutator against the live store,  *)
(* verified by another task, and completed by the mutator, which looks at  *)
(* the live store again.  Meanwhile the payload of the block may be        *)
(* replaced and the block finalized or orphaned.                           *)
(*                                                                         *)
(* A task reads nothing but the snapshot it was spawned with.  Preparing a *)
(* proof or validating an envelope is therefore one step, and its message  *)
(* may be handled at any time later.  The statement to be proved (the      *)
(* public input) is determined by the payload and stands for it.           *)
(*                                                                         *)
(* The proof engine is enabled: without one no statement is captured and   *)
(* every proof is ignored.                                                 *)
(***************************************************************************)
EXTENDS Naturals

CONSTANTS
    Blocks,
    Anchor,
    Parent,         \* of each block but the anchor
    SlotOf,         \* of each block
    EpochStarts,    \* the slots that may become the finalized one
    Payloads,
    None,
    Deliveries,     \* of payload envelopes
    Envelope,       \* [block, payload, backSync] of each delivery
    Submissions,    \* of proofs, each with an origin that waits for an answer
    Proof,          \* [block, type, data, prover, claims] of each submission
    Faults          \* what may be wrong with it besides

\* The root of an unsigned proof, and what a prover may do only once.
Root(o) == <<Proof[o].block, Proof[o].type, Proof[o].data>>
Prover(o) == <<Proof[o].block, Proof[o].type, Proof[o].prover>>
Target(o) == <<Proof[o].block, Proof[o].type>>
Targets == {Target(o) : o \in Submissions}

\* What a proof proves (the payload in claims, if any) is part of its data.
ASSUME ProofsAssumption ==
    /\ None \notin Payloads
    /\ SlotOf \in [Blocks -> Nat] /\ EpochStarts \subseteq Nat
    /\ Anchor \in Blocks
    /\ Envelope \in [Deliveries -> [block : Blocks, payload : Payloads, backSync : BOOLEAN]]
    /\ Proof \in [Submissions -> [block : Blocks, type : {Proof[o].type : o \in Submissions},
                                  data : {Proof[o].data : o \in Submissions} \ {None},
                                  prover : {Proof[o].prover : o \in Submissions},
                                  claims : Payloads \union {None}]]
    /\ Faults \in [Submissions -> SUBSET {"none", "malformed", "inauthentic"}]
    /\ \A o, q \in Submissions : Root(o) = Root(q) => Proof[o].claims = Proof[q].claims

VARIABLES
    store,
    snapshot,       \* the store as published last
    envelopes,      \* how far each delivery has come
    stage,          \* of each submission
    fault,          \* it turned out to have
    statement,      \* it has been prepared with
    outcome,        \* of its preparation or verification
    answer,
    admitted,       \* history: the submissions that were ever admitted
    stopped         \* whether the pool has stopped

proofState == <<stage, fault, statement, outcome, answer, admitted>>
vars == <<store, snapshot, envelopes, proofState, stopped>>

-----------------------------------------------------------------------------
(* The store. *)

AncestorsOf[b \in Blocks] ==
    IF b = Anchor THEN {b} ELSE {b} \union AncestorsOf[Parent[b]]

IsRetained(s, b) == b = s.last \/ b \in s.unfinalized
Contains(s, b) == b \in s.finalized \union s.unfinalized

IsApplicable(s, b, input) ==
    IsRetained(s, b) /\ b \in s.payloads /\ s.contexts[b] = input

Verified(s, o) == s.proofs[Target(o)] # None

\* The mutator handles one message at a time.
Idle == \A o \in Submissions : stage[o] \notin {"admitted", "published"}

Publish(s) == store' = s /\ snapshot' = s

ApplyBlock(b) ==
    /\ Idle
    /\ ~Contains(store, b)
    /\ store.finalizedSlot < SlotOf[b]
    /\ IsRetained(store, Parent[b])
    /\ Publish([store EXCEPT !.unfinalized = @ \union {b}])
    /\ UNCHANGED <<envelopes, proofState, stopped>>

\* The start of the finalized epoch may come after the finalized block.
\* Statements, seen proofs and verified proofs are not pruned.
Finalize(b, slot) ==
    /\ Idle
    /\ b \in store.unfinalized
    /\ store.finalizedSlot <= slot /\ SlotOf[b] <= slot
    /\ LET kept == {c \in store.unfinalized : b \in AncestorsOf[c]} \ {b} IN
       Publish([store EXCEPT !.last = b,
                             !.finalized = @ \union (AncestorsOf[b] \intersect store.unfinalized),
                             !.unfinalized = kept,
                             !.finalizedSlot = slot,
                             !.payloads = @ \intersect (kept \union {b}),
                             !.accepted = {c \in @ : slot <= SlotOf[c]},
                             !.cache = [c \in Blocks |->
                                           IF slot <= SlotOf[c] THEN @[c] ELSE None]])
    /\ UNCHANGED <<envelopes, proofState, stopped>>

-----------------------------------------------------------------------------
(* Payload envelopes. *)

\* Two deliveries may both pass against old snapshots, also with different
\* payloads, whose block hash is not recomputed.  Capturing the statement may fail.
ValidateEnvelope(d, captured) ==
    LET b == Envelope[d].block IN
    /\ envelopes[d] = "new"
    /\ Envelope[d].backSync \/ snapshot.finalizedSlot <= SlotOf[b]
    /\ b \notin snapshot.accepted
    /\ Contains(snapshot, b)
    /\ envelopes' = [envelopes EXCEPT ![d] = IF captured THEN "captured" ELSE "uncaptured"]
    /\ UNCHANGED <<store, snapshot, proofState, stopped>>

WithEnvelope_KeepsContext(s, d) ==
    LET b == Envelope[d].block IN
    [s EXCEPT !.payloads = @ \union {b},
              !.accepted = @ \union {b},
              !.cache[b] = Envelope[d].payload,
              !.contexts[b] = IF IsRetained(s, b) /\ envelopes[d] = "captured"
                              THEN Envelope[d].payload ELSE @]

\* Without a statement of its own an envelope takes away that of the one before.
WithEnvelope(s, d) ==
    LET b == Envelope[d].block IN
    [s EXCEPT !.payloads = @ \union {b},
              !.accepted = @ \union {b},
              !.cache[b] = Envelope[d].payload,
              !.contexts[b] = IF IsRetained(s, b) /\ envelopes[d] = "captured"
                              THEN Envelope[d].payload ELSE None]

AcceptEnvelope(d) ==
    /\ Idle
    /\ envelopes[d] \in {"captured", "uncaptured"}
    /\ Publish(WithEnvelope(store, d))
    /\ envelopes' = [envelopes EXCEPT ![d] = "accepted"]
    /\ UNCHANGED <<proofState, stopped>>

-----------------------------------------------------------------------------
(* Proofs. *)

\* Whether a proof comes from a peer at fault, is of no use, or may go on.
Precheck(s, o, f) ==
    CASE f = "malformed" -> "reject"
      [] \/ ~Contains(s, Proof[o].block)
         \/ Verified(s, o)
         \/ Root(o) \in s.roots
         \/ Prover(o) \in s.provers -> "ignore"
      [] OTHER -> "continue"

\* The statement is made from the cached envelope; the state may be unavailable.
Preparation(s, o, f, available) ==
    LET b == Proof[o].block IN
    CASE Precheck(s, o, f) # "continue" -> Precheck(s, o, f)
      [] b \notin s.payloads \/ s.cache[b] = None \/ ~available -> "ignore"
      [] f = "inauthentic" -> "reject"
      [] ~IsApplicable(s, b, s.cache[b]) -> "ignore"
      [] OTHER -> "prepared"

Prepare(o, f, available) ==
    /\ stage[o] = "new"
    /\ ~stopped
    /\ stage' = [stage EXCEPT ![o] = "prepared"]
    /\ fault' = [fault EXCEPT ![o] = f]
    /\ outcome' = [outcome EXCEPT ![o] = Preparation(snapshot, o, f, available)]
    /\ statement' = [statement EXCEPT ![o] = IF Preparation(snapshot, o, f, available) = "prepared"
                                            THEN snapshot.cache[Proof[o].block] ELSE None]
    /\ UNCHANGED <<store, snapshot, envelopes, answer, admitted, stopped>>

Answer(o, verdict) ==
    /\ stage' = [stage EXCEPT ![o] = "answered"]
    /\ answer' = [answer EXCEPT ![o] = verdict]

MayAdmit_ByRoot(o) ==
    /\ IsApplicable(store, Proof[o].block, statement[o])
    /\ ~Verified(store, o)
    /\ Root(o) \notin store.roots

\* Admission checks everything again that may have changed since the snapshot.
MayAdmit(o) ==
    /\ IsApplicable(store, Proof[o].block, statement[o])
    /\ ~Verified(store, o)
    /\ Root(o) \notin store.roots
    /\ Prover(o) \notin store.provers

Decline(o) ==
    /\ Idle
    /\ stage[o] = "prepared"
    /\ outcome[o] = "prepared" => ~MayAdmit(o)
    /\ Answer(o, IF outcome[o] = "reject" THEN "reject" ELSE "ignore")
    /\ UNCHANGED <<store, snapshot, envelopes, fault, statement, outcome, admitted, stopped>>

Admit(o) ==
    /\ Idle
    /\ stage[o] = "prepared"
    /\ outcome[o] = "prepared"
    /\ MayAdmit(o)
    /\ store' = [store EXCEPT !.roots = @ \union {Root(o)}, !.provers = @ \union {Prover(o)}]
    /\ admitted' = admitted \union {o}
    /\ stage' = [stage EXCEPT ![o] = "admitted"]
    /\ UNCHANGED <<snapshot, envelopes, fault, statement, outcome, answer, stopped>>

PublishSeen(o) ==
    /\ stage[o] = "admitted"
    /\ snapshot' = store
    /\ stage' = [stage EXCEPT ![o] = "published"]
    /\ UNCHANGED <<store, envelopes, fault, statement, outcome, answer, admitted, stopped>>

Completion_Late(o, verdict) ==
    IF Verified(store, o) THEN "ignore"
    ELSE CASE verdict = "valid" -> "accept"
           [] verdict = "invalid" -> "reject"
           [] verdict = "fault" -> "ignore"

Completion_Seen(o, verdict) ==
    IF \/ ~IsApplicable(store, Proof[o].block, statement[o])
       \/ Verified(store, o)
       \/ Root(o) \in store.roots
    THEN "ignore"
    ELSE CASE verdict = "valid" -> "accept"
           [] verdict = "invalid" -> "reject"
           [] verdict = "fault" -> "ignore"

\* A proof that came too late, or is no longer needed, is ignored whatever the
\* verdict.  The first valid one is stored.
Completion(o, verdict) ==
    IF ~IsApplicable(store, Proof[o].block, statement[o]) \/ Verified(store, o)
    THEN "ignore"
    ELSE CASE verdict = "valid" -> "accept"
           [] verdict = "invalid" -> "reject"
           [] verdict = "fault" -> "ignore"

Dispatch_Lost(o) ==
    /\ stage[o] = "published"
    /\ stage' = [stage EXCEPT ![o] = "verifying"]
    /\ UNCHANGED <<store, snapshot, envelopes, fault, statement, outcome, answer, admitted, stopped>>

\* The task is given back when the pool has stopped.
Dispatch(o) ==
    /\ stage[o] = "published"
    /\ IF stopped
       THEN /\ outcome' = [outcome EXCEPT ![o] = "fault"]
            /\ Answer(o, Completion(o, "fault"))
       ELSE /\ stage' = [stage EXCEPT ![o] = "verifying"]
            /\ UNCHANGED <<outcome, answer>>
    /\ UNCHANGED <<store, snapshot, envelopes, fault, statement, admitted, stopped>>

Verdicts_Blame(o) ==
    {IF Proof[o].claims = statement[o] THEN "valid" ELSE "invalid", "invalid"}

\* The engine reaches no verdict without a backend or when it panics.
Verdicts(o) ==
    {IF Proof[o].claims = statement[o] THEN "valid" ELSE "invalid", "fault"}

Verify(o) ==
    /\ stage[o] = "verifying"
    /\ stage' = [stage EXCEPT ![o] = "completed"]
    /\ \E verdict \in Verdicts(o) : outcome' = [outcome EXCEPT ![o] = verdict]
    /\ UNCHANGED <<store, snapshot, envelopes, fault, statement, answer, admitted, stopped>>

Complete(o) ==
    /\ Idle
    /\ stage[o] = "completed"
    /\ Answer(o, Completion(o, outcome[o]))
    /\ IF Completion(o, outcome[o]) = "accept"
       THEN Publish([store EXCEPT !.proofs[Target(o)] = Proof[o].data])
       ELSE UNCHANGED <<store, snapshot>>
    /\ UNCHANGED <<envelopes, fault, statement, outcome, admitted, stopped>>

\* The controller is dropped and the pool stops; tasks that run go on.
StopPool ==
    /\ ~stopped
    /\ stopped' = TRUE
    /\ UNCHANGED <<store, snapshot, envelopes, proofState>>

-----------------------------------------------------------------------------
Init ==
    /\ store = [last |-> Anchor, finalized |-> {Anchor}, unfinalized |-> {},
                finalizedSlot |-> SlotOf[Anchor], payloads |-> {}, accepted |-> {},
                cache |-> [b \in Blocks |-> None], contexts |-> [b \in Blocks |-> None],
                roots |-> {}, provers |-> {}, proofs |-> [t \in Targets |-> None]]
    /\ snapshot = store
    /\ envelopes = [d \in Deliveries |-> "new"]
    /\ stage = [o \in Submissions |-> "new"]
    /\ fault = [o \in Submissions |-> "none"]
    /\ statement = [o \in Submissions |-> None]
    /\ outcome = [o \in Submissions |-> "none"]
    /\ answer = [o \in Submissions |-> "none"]
    /\ admitted = {}
    /\ stopped = FALSE

Next ==
    \/ \E b \in Blocks \ {Anchor} : ApplyBlock(b)
    \/ \E b \in Blocks, slot \in EpochStarts : Finalize(b, slot)
    \/ \E d \in Deliveries : (\E captured \in BOOLEAN : ValidateEnvelope(d, captured)) \/ AcceptEnvelope(d)
    \/ \E o \in Submissions :
          \/ \E f \in Faults[o], available \in BOOLEAN : Prepare(o, f, available)
          \/ Decline(o) \/ Admit(o) \/ PublishSeen(o) \/ Dispatch(o)
          \/ Verify(o) \/ Complete(o)
    \/ StopPool

Spec == Init /\ [][Next]_vars

\* The mutator takes its messages in order, and a worker takes the tasks of a
\* pool that has not stopped.
Fairness ==
    \A o \in Submissions :
        /\ WF_vars(Decline(o)) /\ WF_vars(Admit(o)) /\ WF_vars(PublishSeen(o))
        /\ WF_vars(Dispatch(o)) /\ WF_vars(Complete(o))
        /\ WF_vars(~stopped /\ Verify(o))

FairSpec == Spec /\ Fairness

-----------------------------------------------------------------------------
(* Properties. *)

Maybe(S) == S \union {None}

StoreType ==
    [last : Blocks, finalized : SUBSET Blocks, unfinalized : SUBSET Blocks,
     finalizedSlot : Nat, payloads : SUBSET Blocks, accepted : SUBSET Blocks,
     cache : [Blocks -> Maybe(Payloads)], contexts : [Blocks -> Maybe(Payloads)],
     roots : SUBSET {Root(o) : o \in Submissions},
     provers : SUBSET {Prover(o) : o \in Submissions},
     proofs : [Targets -> Maybe({Proof[o].data : o \in Submissions})]]

\* The store, its snapshot and the bookkeeping of deliveries and submissions
\* have their types.
TypeOK ==
    /\ store \in StoreType
    /\ snapshot \in StoreType
    /\ envelopes \in [Deliveries -> {"new", "captured", "uncaptured", "accepted"}]
    /\ stage \in [Submissions -> {"new", "prepared", "admitted", "published", "verifying",
                                  "completed", "answered"}]
    /\ fault \in [Submissions -> {"none", "malformed", "inauthentic"}]
    /\ statement \in [Submissions -> Maybe(Payloads)]
    /\ outcome \in [Submissions -> {"none", "reject", "ignore", "prepared", "valid",
                                    "invalid", "fault"}]
    /\ answer \in [Submissions -> {"none", "accept", "reject", "ignore"}]
    /\ admitted \subseteq Submissions
    /\ stopped \in BOOLEAN

\* However stale the snapshots they were prepared with, no two submissions with
\* the same proof, and no two of one prover for one block and type, are both
\* admitted to verification.
VerifiedOnce ==
    \A o, q \in admitted : o # q => Root(o) # Root(q) /\ Prover(o) # Prover(q)

\* "Publish BOTH Seen writes before any verifier can enter": while a proof is
\* with a verifier, a new submission of it is already turned away by its task.
SeenIsPublished ==
    \A o \in Submissions :
        stage[o] \in {"verifying", "completed"} =>
            Root(o) \in snapshot.roots /\ Prover(o) \in snapshot.provers

\* "Any selection without paired evidence revokes old authority": a statement
\* that proofs are checked against is that of the payload selected last, whatever
\* the order in which racing envelopes were validated and applied.
ContextIsSelected ==
    \A b \in Blocks : None \notin {store.contexts[b], store.cache[b]} =>
        store.contexts[b] = store.cache[b]

\* A proof enters the store only once for its block and type, while the block
\* is retained, and only when it proves the statement of the payload that the
\* store holds at that moment, not that of a payload replaced since.
StoredProofsAreSound ==
    [][\A t \in Targets : store'.proofs[t] # store.proofs[t] =>
          /\ store.proofs[t] = None
          /\ IsRetained(store, t[1])
          /\ \E o \in Submissions : /\ Target(o) = t
                                    /\ Proof[o].data = store'.proofs[t]
                                    /\ fault[o] = "none"
                                    /\ Proof[o].claims = store.contexts[t[1]]
                                    /\ Proof[o].claims # None]_vars

\* A peer is blamed only for a malformed or unauthenticated proof, or for one
\* that does not prove the statement the store holds when it answers: never for
\* a local fault, a stopped pool, a replaced payload or a retired block.
RejectedForCause ==
    [][\A o \in Submissions : answer'[o] = "reject" /\ answer[o] # "reject" =>
          \/ fault[o] # "none"
          \/ /\ IsRetained(store, Proof[o].block)
             /\ store.contexts[Proof[o].block] \notin {None, Proof[o].claims}]_vars

\* A submission is accepted only if it is the one that is stored, and it alone.
AcceptedIsStored ==
    \A o \in Submissions : answer[o] = "accept" =>
        /\ store.proofs[Target(o)] = Proof[o].data
        /\ \A q \in Submissions \ {o} : Target(q) = Target(o) => answer[q] # "accept"

\* Every submission whose task has run is answered, unless the pool stops while
\* a verifier has it.  One that is admitted after the pool stopped is answered.
EveryProofIsAnswered ==
    \A o \in Submissions :
        /\ stage[o] = "prepared" ~> \/ stage[o] = "answered"
                                    \/ stopped /\ stage[o] = "verifying"
        /\ stage[o] = "published" /\ stopped ~> stage[o] = "answered"

\* An admitted proof of the statement it was prepared with ends in a verified
\* proof for its block and type, unless the statement was replaced or retired
\* meanwhile, the verification failed locally, or the pool stopped.
AdmittedProofCounts ==
    \A o \in Submissions :
        stage[o] = "admitted" /\ Proof[o].claims = statement[o] ~>
            \/ Verified(store, o)
            \/ ~IsApplicable(store, Proof[o].block, statement[o])
            \/ outcome[o] = "fault"
            \/ stopped
=============================================================================
