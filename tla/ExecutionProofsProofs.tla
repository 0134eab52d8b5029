------------------------ MODULE ExecutionProofsProofs ------------------------
(***************************************************************************)
(* The safety of ExecutionProofs for any number of blocks, payloads,       *)
(* envelopes and submissions.  The properties need three facts beside      *)
(* themselves: what has been admitted stays seen in the live store, what   *)
(* has passed the publication is seen in the snapshot, and the outcome of  *)
(* a submission says what its proof really proves.                         *)
(***************************************************************************)
EXTENDS ExecutionProofs, TLAPS

Past == {"published", "verifying", "completed"}

\* Admitted submissions are seen, and only they go on to a verifier.
AdmittedAreSeen ==
    /\ \A o \in admitted : Root(o) \in store.roots /\ Prover(o) \in store.provers
    /\ \A o \in Submissions : stage[o] \in Past \union {"admitted"} => o \in admitted

\* What has passed the publication is in the snapshot.
PastIsPublished ==
    \A o \in Submissions : stage[o] \in Past =>
        Root(o) \in snapshot.roots /\ Prover(o) \in snapshot.provers

\* The outcome tells what is wrong with a submission or what its proof proves.
OutcomesAreTrue ==
    \A o \in Submissions :
        /\ stage[o] = "prepared" /\ outcome[o] = "reject" => fault[o] # "none"
        /\ stage[o] = "prepared" /\ outcome[o] = "prepared" =>
               fault[o] = "none" /\ statement[o] # None
        /\ stage[o] \in Past \union {"admitted"} => fault[o] = "none" /\ statement[o] # None
        /\ stage[o] = "completed" =>
               \/ outcome[o] = "valid" /\ Proof[o].claims = statement[o]
               \/ outcome[o] = "invalid" /\ Proof[o].claims # statement[o]
               \/ outcome[o] = "fault"

\* Only an answered submission has an answer.
AnswersAreFinal ==
    \A o \in Submissions : answer[o] # "none" => stage[o] = "answered"

IInv ==
    /\ TypeOK
    /\ AdmittedAreSeen
    /\ VerifiedOnce
    /\ PastIsPublished
    /\ OutcomesAreTrue
    /\ AnswersAreFinal
    /\ AcceptedIsStored

\* A step of the mutator that changes the chain or a payload: it publishes the
\* store and leaves everything about proofs alone.
ChainStep ==
    /\ store' \in StoreType
    /\ snapshot' = store'
    /\ store'.roots = store.roots
    /\ store'.provers = store.provers
    /\ store'.proofs = store.proofs
    /\ UNCHANGED <<proofState, stopped>>

-----------------------------------------------------------------------------
\* A block that is applied, a finalized block and an accepted envelope change
\* nothing about proofs and publish the store.
LEMMA ChainSteps ==
    ASSUME TypeOK,
           \/ \E b \in Blocks \ {Anchor} : ApplyBlock(b)
           \/ \E b \in Blocks, slot \in EpochStarts : Finalize(b, slot)
           \/ \E d \in Deliveries : AcceptEnvelope(d)
    PROVE  ChainStep
<1>1. ASSUME NEW b \in Blocks \ {Anchor}, ApplyBlock(b) PROVE ChainStep
  <2> DEFINE s == [store EXCEPT !.unfinalized = @ \union {b}]
  <2>1. store \in StoreType
    BY Zenon DEF TypeOK
  <2>2. s \in StoreType
    BY Zenon, <2>1 DEF StoreType
  <2>3. s.roots = store.roots /\ s.provers = store.provers /\ s.proofs = store.proofs
    BY Zenon, <2>1 DEF StoreType
  <2>4. store' = s /\ snapshot' = s /\ UNCHANGED <<proofState, stopped>>
    BY Zenon, <1>1 DEF ApplyBlock, Publish
  <2> HIDE DEF s
  <2> QED
    BY Zenon, <2>2, <2>3, <2>4 DEF ChainStep
<1>2. ASSUME NEW b \in Blocks, NEW slot \in EpochStarts, Finalize(b, slot) PROVE ChainStep
  <2>1. store \in StoreType /\ slot \in Nat
    BY Zenon, ProofsAssumption DEF TypeOK
  <2>2. /\ store' \in StoreType
        /\ store'.roots = store.roots /\ store'.provers = store.provers
        /\ store'.proofs = store.proofs
    BY Zenon, <1>2, <2>1 DEF StoreType, Finalize, Publish, Maybe
  <2>3. snapshot' = store' /\ UNCHANGED <<proofState, stopped>>
    BY Zenon, <1>2 DEF Finalize, Publish
  <2> QED
    BY Zenon, <2>2, <2>3 DEF ChainStep
<1>3. ASSUME NEW d \in Deliveries, AcceptEnvelope(d) PROVE ChainStep
  <2> DEFINE b == Envelope[d].block
             s == WithEnvelope(store, d)
             c == [store.cache EXCEPT ![b] = Envelope[d].payload]
             x == [store.contexts EXCEPT ![b] = IF IsRetained(store, b) /\ envelopes[d] = "captured"
                                                THEN Envelope[d].payload ELSE None]
  <2>1. b \in Blocks /\ Envelope[d].payload \in Payloads
    BY ProofsAssumption
  <2>2. c \in [Blocks -> Maybe(Payloads)] /\ x \in [Blocks -> Maybe(Payloads)]
    BY <2>1 DEF TypeOK, StoreType, Maybe
  <2>3. s = [store EXCEPT !.payloads = @ \union {b}, !.accepted = @ \union {b},
                          !.cache = c, !.contexts = x]
    BY DEF WithEnvelope, TypeOK, StoreType
  <2>4. /\ s \in StoreType
        /\ s.roots = store.roots /\ s.provers = store.provers /\ s.proofs = store.proofs
    <3> HIDE DEF c, x, b, s
    <3>1. store \in StoreType
      BY Zenon DEF TypeOK
    <3>2. s \in StoreType
      BY Zenon, <2>1, <2>2, <2>3, <3>1 DEF StoreType
    <3>3. s.roots = store.roots /\ s.provers = store.provers /\ s.proofs = store.proofs
      BY Zenon, <2>3, <3>1 DEF StoreType
    <3> QED
      BY Zenon, <3>2, <3>3
  <2> QED
    BY <1>3, <2>4 DEF AcceptEnvelope, Publish, ChainStep
<1> QED
  BY <1>1, <1>2, <1>3

\* Preparation answers for a fault, or prepares a faultless proof.
LEMMA PreparationIsTrue ==
    ASSUME NEW s \in StoreType, NEW o \in Submissions, NEW f \in Faults[o], NEW available \in BOOLEAN
    PROVE  /\ Preparation(s, o, f, available) \in {"reject", "ignore", "prepared"}
           /\ Preparation(s, o, f, available) = "reject" => f # "none"
           /\ Preparation(s, o, f, available) = "prepared" =>
                  f = "none" /\ s.cache[Proof[o].block] \in Payloads
<1>1. f \in {"none", "malformed", "inauthentic"} /\ Proof[o].block \in Blocks
  BY Zenon, ProofsAssumption
<1>2. /\ Precheck(s, o, f) \in {"reject", "ignore", "continue"}
      /\ Precheck(s, o, f) = "reject" => f # "none"
      /\ Precheck(s, o, f) = "continue" => f # "malformed"
  BY <1>1 DEF Precheck
<1>3. s.cache[Proof[o].block] \in Payloads \union {None}
  BY <1>1 DEF StoreType, Maybe
<1> QED
  BY <1>1, <1>2, <1>3 DEF Preparation

\* A completion accepts only a valid proof of the statement that still applies,
\* for a block and type without one, and rejects only one that does not prove it.
LEMMA CompletionIsTrue ==
    ASSUME NEW o \in Submissions, NEW v \in {"valid", "invalid", "fault"}
    PROVE  /\ Completion(o, v) \in {"accept", "reject", "ignore"}
           /\ Completion(o, v) = "accept" => v = "valid"
           /\ Completion(o, v) = "reject" => v = "invalid"
           /\ Completion(o, v) # "ignore" =>
                  /\ IsApplicable(store, Proof[o].block, statement[o])
                  /\ ~Verified(store, o)
  BY DEF Completion

-----------------------------------------------------------------------------
\* The chain and the envelopes leave the invariant alone.
LEMMA ChainPreserves ==
    ASSUME IInv,
           \/ \E b \in Blocks \ {Anchor} : ApplyBlock(b)
           \/ \E b \in Blocks, slot \in EpochStarts : Finalize(b, slot)
           \/ \E d \in Deliveries : AcceptEnvelope(d)
    PROVE  IInv'
<1>1. ChainStep
  BY ChainSteps DEF IInv
<1>2. TypeOK'
  <2>1. envelopes' \in [Deliveries -> {"new", "captured", "uncaptured", "accepted"}]
    <3>1. UNCHANGED envelopes \/ \E d \in Deliveries : AcceptEnvelope(d)
      BY Zenon DEF ApplyBlock, Finalize
    <3>2. ASSUME NEW d \in Deliveries, AcceptEnvelope(d)
          PROVE  envelopes' = [envelopes EXCEPT ![d] = "accepted"]
      BY <3>2 DEF AcceptEnvelope
    <3> QED
      BY <3>1, <3>2 DEF IInv, TypeOK
  <2>2. store' \in StoreType /\ snapshot' \in StoreType
    BY <1>1 DEF ChainStep
  <2>3. UNCHANGED <<stage, fault, statement, outcome, answer, admitted, stopped>>
    BY <1>1 DEF ChainStep, proofState
  <2> QED
    BY <2>1, <2>2, <2>3 DEF IInv, TypeOK, Maybe
<1>3. AdmittedAreSeen' /\ VerifiedOnce'
  BY <1>1 DEF IInv, ChainStep, proofState, AdmittedAreSeen, VerifiedOnce, Root, Prover, Past
<1>4. PastIsPublished'
  BY <1>1 DEF IInv, TypeOK, ChainStep, proofState, AdmittedAreSeen, PastIsPublished, Root, Prover, Past
<1>5. OutcomesAreTrue' /\ AnswersAreFinal'
  BY <1>1 DEF IInv, ChainStep, proofState, OutcomesAreTrue, AnswersAreFinal, Past
<1>6. AcceptedIsStored'
  BY <1>1 DEF IInv, ChainStep, proofState, AcceptedIsStored, Target
<1> QED
  BY <1>2, <1>3, <1>4, <1>5, <1>6 DEF IInv

\* So do validations and the stop of the pool.
LEMMA OutsidePreserves ==
    ASSUME IInv,
           \/ \E d \in Deliveries, captured \in BOOLEAN : ValidateEnvelope(d, captured)
           \/ StopPool
           \/ UNCHANGED vars
    PROVE  IInv'
<1>1. UNCHANGED <<store, snapshot, stage, fault, statement, outcome, answer, admitted>>
  BY DEF ValidateEnvelope, StopPool, vars, proofState
<1>2. /\ envelopes' \in [Deliveries -> {"new", "captured", "uncaptured", "accepted"}]
      /\ stopped' \in BOOLEAN
  BY Zenon DEF IInv, TypeOK, ValidateEnvelope, StopPool, vars
<1>3. TypeOK'
  BY Zenon, <1>1, <1>2 DEF IInv, TypeOK, StoreType, Maybe, Root, Prover, Targets, Target
<1>4. AdmittedAreSeen' /\ VerifiedOnce' /\ PastIsPublished'
  BY <1>1 DEF IInv, AdmittedAreSeen, VerifiedOnce, PastIsPublished, Root, Prover, Past
<1>5. OutcomesAreTrue' /\ AnswersAreFinal' /\ AcceptedIsStored'
  BY <1>1 DEF IInv, OutcomesAreTrue, AnswersAreFinal, AcceptedIsStored, Target, Past
<1> QED
  BY <1>3, <1>4, <1>5 DEF IInv

\* A prepared submission has the outcome its fault or its faultlessness calls for.
LEMMA PreparePreserves ==
    ASSUME IInv, NEW o \in Submissions, NEW f \in Faults[o], NEW available \in BOOLEAN,
           Prepare(o, f, available)
    PROVE  IInv'
<1> DEFINE p == Preparation(snapshot, o, f, available)
<1>1. /\ p \in {"reject", "ignore", "prepared"}
      /\ p = "reject" => f # "none"
      /\ p = "prepared" => f = "none" /\ snapshot.cache[Proof[o].block] \in Payloads
  BY PreparationIsTrue DEF IInv, TypeOK
<1>2. f \in {"none", "malformed", "inauthentic"} /\ None \notin Payloads
  BY ProofsAssumption
<1>3. /\ stage[o] = "new"
      /\ stage' = [stage EXCEPT ![o] = "prepared"]
      /\ fault' = [fault EXCEPT ![o] = f]
      /\ outcome' = [outcome EXCEPT ![o] = p]
      /\ statement' = [statement EXCEPT ![o] = IF p = "prepared"
                                               THEN snapshot.cache[Proof[o].block] ELSE None]
      /\ UNCHANGED <<store, snapshot, envelopes, answer, admitted, stopped>>
  BY DEF Prepare
<1> HIDE DEF p
<1>4. TypeOK'
  BY Zenon, <1>1, <1>2, <1>3 DEF IInv, TypeOK, StoreType, Maybe, Root, Prover, Targets, Target
<1>5. AdmittedAreSeen' /\ VerifiedOnce' /\ PastIsPublished'
  BY <1>3 DEF IInv, TypeOK, AdmittedAreSeen, VerifiedOnce, PastIsPublished, Root, Prover, Past
<1>6. OutcomesAreTrue'
  BY <1>1, <1>2, <1>3 DEF IInv, TypeOK, OutcomesAreTrue, Past
<1>7. AnswersAreFinal' /\ AcceptedIsStored'
  BY <1>3 DEF IInv, TypeOK, AnswersAreFinal, AcceptedIsStored, Target
<1> QED
  BY <1>4, <1>5, <1>6, <1>7 DEF IInv

\* An answer other than acceptance, with the store left alone.
LEMMA AnswerPreserves ==
    ASSUME IInv, NEW o \in Submissions, NEW v \in {"reject", "ignore"}, Answer(o, v),
           outcome' \in [Submissions -> {"none", "reject", "ignore", "prepared", "valid",
                                         "invalid", "fault"}],
           \A q \in Submissions \ {o} : outcome'[q] = outcome[q],
           UNCHANGED <<store, snapshot, envelopes, fault, statement, admitted, stopped>>
    PROVE  IInv'
<1>1. /\ stage' = [stage EXCEPT ![o] = "answered"]
      /\ answer' = [answer EXCEPT ![o] = v]
  BY DEF Answer
<1>2. TypeOK'
  BY Zenon, <1>1 DEF IInv, TypeOK, StoreType, Maybe, Root, Prover, Targets, Target
<1>3. AdmittedAreSeen' /\ VerifiedOnce' /\ PastIsPublished'
  BY <1>1 DEF IInv, TypeOK, AdmittedAreSeen, VerifiedOnce, PastIsPublished, Root, Prover, Past
<1>4. OutcomesAreTrue'
  BY <1>1 DEF IInv, TypeOK, OutcomesAreTrue, Past
<1>5. AnswersAreFinal' /\ AcceptedIsStored'
  BY <1>1 DEF IInv, TypeOK, AnswersAreFinal, AcceptedIsStored, Target
<1> QED
  BY <1>2, <1>3, <1>4, <1>5 DEF IInv

\* An admitted submission was not seen, so that it shares nothing with the ones
\* admitted before.
LEMMA AdmitPreserves ==
    ASSUME IInv, NEW o \in Submissions, Admit(o)
    PROVE  IInv'
<1>1. /\ stage[o] = "prepared" /\ outcome[o] = "prepared"
      /\ Root(o) \notin store.roots /\ Prover(o) \notin store.provers
      /\ store' = [store EXCEPT !.roots = @ \union {Root(o)}, !.provers = @ \union {Prover(o)}]
      /\ admitted' = admitted \union {o}
      /\ stage' = [stage EXCEPT ![o] = "admitted"]
      /\ UNCHANGED <<snapshot, envelopes, fault, statement, outcome, answer, stopped>>
  BY DEF Admit, MayAdmit
<1>2. /\ store'.roots = store.roots \union {Root(o)}
      /\ store'.provers = store.provers \union {Prover(o)}
      /\ store'.proofs = store.proofs
      /\ store' \in StoreType
  <2>1. /\ {Root(o)} \in SUBSET {Root(q) : q \in Submissions}
        /\ {Prover(o)} \in SUBSET {Prover(q) : q \in Submissions}
    OBVIOUS
  <2> DEFINE rs == store.roots \union {Root(o)}
             ps == store.provers \union {Prover(o)}
  <2>2. /\ rs \in SUBSET {Root(q) : q \in Submissions}
        /\ ps \in SUBSET {Prover(q) : q \in Submissions}
    BY <2>1 DEF IInv, TypeOK, StoreType
  <2>3. store' = [store EXCEPT !.roots = rs, !.provers = ps]
    BY <1>1
  <2>4. store \in StoreType
    BY DEF IInv, TypeOK
  <2> HIDE DEF rs, ps
  <2>5. store'.roots = rs /\ store'.provers = ps /\ store'.proofs = store.proofs /\ store' \in StoreType
    BY Zenon, <2>2, <2>3, <2>4 DEF StoreType
  <2> QED
    BY <2>5 DEF rs, ps
<1>3. TypeOK'
  BY <1>1, <1>2 DEF IInv, TypeOK, Maybe
<1>4. AdmittedAreSeen' /\ VerifiedOnce'
  <2> HIDE DEF Root, Prover
  <2>1. \A q \in admitted : Root(q) # Root(o) /\ Prover(q) # Prover(o)
    BY <1>1 DEF IInv, AdmittedAreSeen
  <2>2. \A q \in admitted' : Root(q) \in store'.roots /\ Prover(q) \in store'.provers
    BY <1>1, <1>2 DEF IInv, AdmittedAreSeen
  <2>3. \A q \in Submissions : stage'[q] \in Past \union {"admitted"} => q \in admitted'
    BY <1>1 DEF IInv, TypeOK, AdmittedAreSeen, Past
  <2>4. \A q, r \in admitted' : q # r => Root(q) # Root(r) /\ Prover(q) # Prover(r)
    BY <1>1, <2>1 DEF IInv, VerifiedOnce
  <2> QED
    BY <2>2, <2>3, <2>4 DEF AdmittedAreSeen, VerifiedOnce, Root, Prover, Past
<1>5. PastIsPublished'
  BY Zenon, <1>1 DEF IInv, TypeOK, PastIsPublished, Root, Prover, Past
<1>6. OutcomesAreTrue'
  BY <1>1 DEF IInv, TypeOK, OutcomesAreTrue, Past
<1>7. AnswersAreFinal' /\ AcceptedIsStored'
  BY <1>1, <1>2 DEF IInv, TypeOK, AnswersAreFinal, AcceptedIsStored, Target
<1> QED
  BY <1>3, <1>4, <1>5, <1>6, <1>7 DEF IInv

\* The publication brings everything that is seen into the snapshot.
LEMMA PublishPreserves ==
    ASSUME IInv, NEW o \in Submissions, PublishSeen(o)
    PROVE  IInv'
<1>1. /\ stage[o] = "admitted"
      /\ snapshot' = store
      /\ stage' = [stage EXCEPT ![o] = "published"]
      /\ UNCHANGED <<store, envelopes, fault, statement, outcome, answer, admitted, stopped>>
  BY DEF PublishSeen
<1>2. TypeOK'
  BY Zenon, <1>1 DEF IInv, TypeOK, StoreType, Maybe, Root, Prover, Targets, Target
<1>3. AdmittedAreSeen' /\ VerifiedOnce'
  BY <1>1 DEF IInv, TypeOK, AdmittedAreSeen, VerifiedOnce, Root, Prover, Past
<1>4. PastIsPublished'
  BY <1>1 DEF IInv, TypeOK, AdmittedAreSeen, PastIsPublished, Root, Prover, Past
<1>5. OutcomesAreTrue'
  BY <1>1 DEF IInv, TypeOK, OutcomesAreTrue, Past
<1>6. AnswersAreFinal' /\ AcceptedIsStored'
  BY <1>1 DEF IInv, TypeOK, AnswersAreFinal, AcceptedIsStored, Target
<1> QED
  BY <1>2, <1>3, <1>4, <1>5, <1>6 DEF IInv

\* A task is handed to a verifier, or its verdict comes back.
LEMMA VerifyPreserves ==
    ASSUME IInv, NEW o \in Submissions,
           \/ Dispatch(o) /\ ~stopped
           \/ Verify(o)
    PROVE  IInv'
<1>1. /\ stage[o] \in {"published", "verifying"}
      /\ UNCHANGED <<store, snapshot, envelopes, fault, statement, answer, admitted, stopped>>
  BY DEF Dispatch, Verify
<1>2. \E s \in {"verifying", "completed"} : \E v \in Verdicts(o) \union {outcome[o]} :
         /\ stage' = [stage EXCEPT ![o] = s]
         /\ outcome' = [outcome EXCEPT ![o] = v]
         /\ s = "completed" => v \in Verdicts(o)
  <2>1. CASE Dispatch(o) /\ ~stopped
    <3>1. stage' = [stage EXCEPT ![o] = "verifying"] /\ outcome' = outcome
      BY <2>1 DEF Dispatch
    <3>2. outcome' = [outcome EXCEPT ![o] = outcome[o]]
      BY <3>1 DEF IInv, TypeOK
    <3> QED  BY Zenon, <3>1, <3>2
  <2>2. CASE Verify(o)
    BY Zenon, <2>2 DEF Verify
  <2> QED  BY <2>1, <2>2
<1>3. PICK s \in {"verifying", "completed"}, v \in Verdicts(o) \union {outcome[o]} :
         /\ stage' = [stage EXCEPT ![o] = s]
         /\ outcome' = [outcome EXCEPT ![o] = v]
         /\ s = "completed" => v \in Verdicts(o)
  BY Zenon, <1>2
<1>4. Verdicts(o) \subseteq {"valid", "invalid", "fault"}
  BY DEF Verdicts
<1>5. TypeOK'
  BY Zenon, <1>1, <1>3, <1>4 DEF IInv, TypeOK, StoreType, Maybe, Root, Prover, Targets, Target
<1>6. AdmittedAreSeen' /\ VerifiedOnce' /\ PastIsPublished'
  BY <1>1, <1>3 DEF IInv, TypeOK, AdmittedAreSeen, VerifiedOnce, PastIsPublished, Root, Prover, Past
<1>7. OutcomesAreTrue'
  BY <1>1, <1>3 DEF IInv, TypeOK, OutcomesAreTrue, Verdicts, Past
<1>8. AnswersAreFinal' /\ AcceptedIsStored'
  BY <1>1, <1>3 DEF IInv, TypeOK, AnswersAreFinal, AcceptedIsStored, Target
<1> QED
  BY <1>5, <1>6, <1>7, <1>8 DEF IInv

\* An accepted proof is the first for its block and type.
LEMMA AcceptPreserves ==
    ASSUME IInv, NEW o \in Submissions, Complete(o), Completion(o, outcome[o]) = "accept"
    PROVE  IInv'
<1>1. /\ stage[o] = "completed"
      /\ stage' = [stage EXCEPT ![o] = "answered"]
      /\ answer' = [answer EXCEPT ![o] = "accept"]
      /\ store' = [store EXCEPT !.proofs[Target(o)] = Proof[o].data]
      /\ snapshot' = store'
      /\ UNCHANGED <<envelopes, fault, statement, outcome, admitted, stopped>>
  BY DEF Complete, Answer, Publish
<1>2. outcome[o] \in {"valid", "invalid", "fault"}
  BY <1>1 DEF IInv, OutcomesAreTrue
<1>3. store.proofs[Target(o)] = None
  BY <1>2, CompletionIsTrue DEF Verified
<1>4. /\ store' \in StoreType
      /\ store'.roots = store.roots /\ store'.provers = store.provers
      /\ store'.proofs = [store.proofs EXCEPT ![Target(o)] = Proof[o].data]
  <2> DEFINE ps == [store.proofs EXCEPT ![Target(o)] = Proof[o].data]
  <2>1. store \in StoreType
    BY DEF IInv, TypeOK
  <2>2. ps \in [Targets -> Maybe({Proof[q].data : q \in Submissions})]
    BY Zenon, <2>1 DEF StoreType, Maybe
  <2>3. store' = [store EXCEPT !.proofs = ps]
    BY <1>1, <2>1 DEF StoreType
  <2> HIDE DEF ps
  <2>4. store'.proofs = ps /\ store'.roots = store.roots /\ store'.provers = store.provers
        /\ store' \in StoreType
    BY <2>1, <2>2, <2>3 DEF StoreType
  <2> QED
    BY <2>4 DEF ps
<1>5. TypeOK'
  BY <1>1, <1>4 DEF IInv, TypeOK, Maybe
<1>6. AdmittedAreSeen' /\ VerifiedOnce' /\ PastIsPublished'
  BY <1>1, <1>4 DEF IInv, TypeOK, AdmittedAreSeen, VerifiedOnce, PastIsPublished, Root, Prover, Past
<1>7. OutcomesAreTrue' /\ AnswersAreFinal'
  BY <1>1 DEF IInv, TypeOK, OutcomesAreTrue, AnswersAreFinal, Past
<1>8. AcceptedIsStored'
  <2> HIDE DEF Target
  <2>1. /\ Target(o) \in Targets
        /\ store.proofs \in [Targets -> Maybe({Proof[q].data : q \in Submissions})]
        /\ answer \in [Submissions -> {"none", "accept", "reject", "ignore"}]
    BY DEF IInv, TypeOK, StoreType, Targets
  <2>2. \A q \in Submissions : Proof[q].data # None /\ Target(q) \in Targets
    BY Zenon, ProofsAssumption DEF Targets
  <2>3. \A q \in Submissions : answer[q] = "accept" => Target(q) # Target(o)
    BY <1>3, <2>2 DEF IInv, AcceptedIsStored
  <2>4. ASSUME NEW q \in Submissions, answer'[q] = "accept"
        PROVE  /\ store'.proofs[Target(q)] = Proof[q].data
               /\ \A r \in Submissions \ {q} : Target(r) = Target(q) => answer'[r] # "accept"
    BY <1>1, <1>4, <2>1, <2>2, <2>3, <2>4 DEF IInv, AcceptedIsStored
  <2> QED
    BY <2>4 DEF AcceptedIsStored, Target
<1> QED
  BY <1>5, <1>6, <1>7, <1>8 DEF IInv

\* Declined, returned and completed submissions are answered.
LEMMA AnsweringPreserves ==
    ASSUME IInv, NEW o \in Submissions,
           \/ Decline(o)
           \/ Dispatch(o) /\ stopped
           \/ Complete(o)
    PROVE  IInv'
<1> USE DEF IInv
<1>1. outcome \in [Submissions -> {"none", "reject", "ignore", "prepared", "valid", "invalid", "fault"}]
  BY DEF TypeOK
<1>2. CASE Decline(o)
  <2>1. \E v \in {"reject", "ignore"} : Answer(o, v)
    BY <1>2 DEF Decline
  <2>2. UNCHANGED <<store, snapshot, envelopes, fault, statement, outcome, admitted, stopped>>
    BY <1>2 DEF Decline
  <2> QED
    BY <1>1, <2>1, <2>2, AnswerPreserves
<1>3. CASE Dispatch(o) /\ stopped
  <2>1. Completion(o, "fault") \in {"reject", "ignore"}
    BY CompletionIsTrue
  <2>2. /\ outcome' = [outcome EXCEPT ![o] = "fault"]
        /\ Answer(o, Completion(o, "fault"))
        /\ UNCHANGED <<store, snapshot, envelopes, fault, statement, admitted, stopped>>
    BY <1>3 DEF Dispatch
  <2> QED
    BY <1>1, <2>1, <2>2, AnswerPreserves
<1>4. CASE Complete(o)
  <2>1. outcome[o] \in {"valid", "invalid", "fault"}
    BY <1>4 DEF Complete, OutcomesAreTrue
  <2>2. CASE Completion(o, outcome[o]) = "accept"
    BY <1>4, <2>2, AcceptPreserves
  <2>3. CASE Completion(o, outcome[o]) # "accept"
    <3>1. Completion(o, outcome[o]) \in {"reject", "ignore"}
      BY <2>1, <2>3, CompletionIsTrue
    <3>2. /\ Answer(o, Completion(o, outcome[o]))
          /\ UNCHANGED <<store, snapshot, envelopes, fault, statement, outcome, admitted, stopped>>
      BY <1>4, <2>3 DEF Complete
    <3> QED
      BY <1>1, <3>1, <3>2, AnswerPreserves
  <2> QED  BY <2>2, <2>3
<1> QED
  BY <1>2, <1>3, <1>4

\* The invariant is inductive.
THEOREM Inductive == Spec => []IInv
<1>1. Init => IInv
  <2> SUFFICES ASSUME Init PROVE IInv
    OBVIOUS
  <2>1. store \in StoreType
    BY ProofsAssumption DEF Init, StoreType, Maybe
  <2>2. TypeOK
    BY Zenon, <2>1 DEF Init, TypeOK, Maybe
  <2>3. AdmittedAreSeen /\ VerifiedOnce /\ PastIsPublished /\ OutcomesAreTrue /\ AnswersAreFinal
    BY DEF Init, AdmittedAreSeen, VerifiedOnce, PastIsPublished, OutcomesAreTrue, AnswersAreFinal, Past
  <2>4. AcceptedIsStored
    BY DEF Init, AcceptedIsStored
  <2> QED
    BY <2>2, <2>3, <2>4 DEF IInv
<1>2. IInv /\ [Next]_vars => IInv'
  <2> SUFFICES ASSUME IInv, Next \/ UNCHANGED vars PROVE IInv'
    OBVIOUS
  <2>1. CASE \/ \E b \in Blocks \ {Anchor} : ApplyBlock(b)
             \/ \E b \in Blocks, slot \in EpochStarts : Finalize(b, slot)
             \/ \E d \in Deliveries : AcceptEnvelope(d)
    BY <2>1, ChainPreserves
  <2>2. CASE \/ \E d \in Deliveries, captured \in BOOLEAN : ValidateEnvelope(d, captured)
             \/ StopPool
             \/ UNCHANGED vars
    BY Zenon, <2>2, OutsidePreserves
  <2>3. ASSUME NEW o \in Submissions,
               \/ \E f \in Faults[o], available \in BOOLEAN : Prepare(o, f, available)
               \/ Decline(o) \/ Admit(o) \/ PublishSeen(o) \/ Dispatch(o)
               \/ Verify(o) \/ Complete(o)
        PROVE  IInv'
    BY <2>3, PreparePreserves, AdmitPreserves, PublishPreserves, VerifyPreserves, AnsweringPreserves
  <2> QED
    BY <2>1, <2>2, <2>3 DEF Next
<1> QED
  BY <1>1, <1>2, PTL DEF Spec

-----------------------------------------------------------------------------
\* The state of the execution proofs has its type.
THEOREM TypeCorrect == Spec => []TypeOK
  BY Inductive, PTL DEF IInv

\* However stale the snapshots used by their tasks (prepare_execution_proof),
\* admit_execution_proof lets every proof and every prover of a block and type
\* into verification once at most.
THEOREM NoneVerifiedTwice == Spec => []VerifiedOnce
  BY Inductive, PTL DEF IInv

\* handle_prepared_execution_proof publishes both seen keys before a verifier
\* has the proof.
THEOREM SeenBeforeVerified == Spec => []SeenIsPublished
<1>1. IInv => SeenIsPublished
  BY DEF IInv, PastIsPublished, SeenIsPublished, Past
<1> QED
  BY <1>1, Inductive, PTL

\* complete_execution_proof accepts one submission for a block and type, and
\* stores that one for good.
THEOREM AcceptedStaysStored == Spec => []AcceptedIsStored
  BY Inductive, PTL DEF IInv

\* Only a completion that accepts stores a proof.
LEMMA OnlyAcceptStores ==
    ASSUME IInv, Next, store'.proofs # store.proofs
    PROVE  \E o \in Submissions : Complete(o) /\ Completion(o, outcome[o]) = "accept"
<1>1. CASE \/ \E b \in Blocks \ {Anchor} : ApplyBlock(b)
           \/ \E b \in Blocks, slot \in EpochStarts : Finalize(b, slot)
           \/ \E d \in Deliveries : AcceptEnvelope(d)
  BY <1>1, ChainSteps DEF IInv, ChainStep
<1>2. CASE StopPool \/ \E d \in Deliveries, captured \in BOOLEAN : ValidateEnvelope(d, captured)
  BY Zenon, <1>2 DEF StopPool, ValidateEnvelope
<1>3. ASSUME NEW o \in Submissions,
             \/ \E f \in Faults[o], available \in BOOLEAN : Prepare(o, f, available)
             \/ Decline(o) \/ PublishSeen(o) \/ Dispatch(o) \/ Verify(o)
      PROVE  FALSE
  BY <1>3 DEF Prepare, Decline, PublishSeen, Dispatch, Verify
<1>4. ASSUME NEW o \in Submissions, Admit(o) PROVE FALSE
  BY <1>4 DEF Admit, IInv, TypeOK, StoreType
<1>5. ASSUME NEW o \in Submissions, Complete(o) PROVE Completion(o, outcome[o]) = "accept"
  BY <1>5 DEF Complete
<1> QED
  BY <1>1, <1>2, <1>3, <1>4, <1>5 DEF Next

\* A proof enters the store once, for a retained block, and proves the statement
\* that the store holds at that moment (complete_execution_proof).
THEOREM NoStaleProofStored == Spec => StoredProofsAreSound
<1> DEFINE Sound(t) ==
        /\ store.proofs[t] = None
        /\ IsRetained(store, t[1])
        /\ \E o \in Submissions : /\ Target(o) = t
                                  /\ Proof[o].data = store'.proofs[t]
                                  /\ fault[o] = "none"
                                  /\ Proof[o].claims = store.contexts[t[1]]
                                  /\ Proof[o].claims # None
<1>1. ASSUME IInv, Next, NEW t \in Targets, store'.proofs[t] # store.proofs[t]
      PROVE  Sound(t)
  <2>1. PICK o \in Submissions : Complete(o) /\ Completion(o, outcome[o]) = "accept"
    BY <1>1, OnlyAcceptStores
  <2>2. stage[o] = "completed" /\ outcome[o] \in {"valid", "invalid", "fault"}
    BY <1>1, <2>1 DEF Complete, IInv, OutcomesAreTrue
  <2>3. /\ outcome[o] = "valid"
        /\ IsApplicable(store, Proof[o].block, statement[o])
        /\ store.proofs[Target(o)] = None
    BY <2>1, <2>2, CompletionIsTrue DEF Verified
  <2>4. fault[o] = "none" /\ Proof[o].claims = statement[o] /\ statement[o] # None
    BY <1>1, <2>2, <2>3 DEF IInv, OutcomesAreTrue, Past
  <2>5. store'.proofs = [store.proofs EXCEPT ![Target(o)] = Proof[o].data]
    BY <1>1, <2>1 DEF Complete, Publish, IInv, TypeOK, StoreType
  <2>6. t = Target(o) /\ store'.proofs[t] = Proof[o].data
    BY <1>1, <2>5 DEF IInv, TypeOK, StoreType
  <2>7. t[1] = Proof[o].block
    BY <2>6 DEF Target
  <2>8. IsRetained(store, t[1]) /\ store.contexts[t[1]] = Proof[o].claims
    BY <2>3, <2>4, <2>7 DEF IsApplicable
  <2> QED
    BY <2>3, <2>4, <2>6, <2>8
<1>2. IInv /\ [Next]_vars => [\A t \in Targets : store'.proofs[t] # store.proofs[t] => Sound(t)]_vars
  BY <1>1
<1> QED
  BY <1>2, Inductive, PTL DEF Spec, StoredProofsAreSound

\* Only the mutator's answer to a fault, or to a proof that does not prove the
\* current statement, is a rejection (handle_completed_execution_proof,
\* classify_execution_proof_preparation).
THEOREM NoOneBlamedForDelays == Spec => RejectedForCause
<1> DEFINE Cause(o) ==
        \/ fault[o] # "none"
        \/ /\ IsRetained(store, Proof[o].block)
           /\ store.contexts[Proof[o].block] \notin {None, Proof[o].claims}
<1>1. ASSUME IInv, Next, NEW o \in Submissions, answer'[o] = "reject", answer[o] # "reject"
      PROVE  Cause(o)
  <2>1. \E q \in Submissions : Decline(q) \/ Dispatch(q) \/ Complete(q)
    <3>1. CASE \/ \E b \in Blocks \ {Anchor} : ApplyBlock(b)
               \/ \E b \in Blocks, slot \in EpochStarts : Finalize(b, slot)
               \/ \E d \in Deliveries : AcceptEnvelope(d)
      BY <1>1, <3>1, ChainSteps DEF IInv, ChainStep, proofState
    <3>2. CASE StopPool \/ \E d \in Deliveries, captured \in BOOLEAN : ValidateEnvelope(d, captured)
      BY <1>1, <3>2 DEF StopPool, ValidateEnvelope, proofState
    <3>3. ASSUME NEW q \in Submissions,
                 \/ \E f \in Faults[q], available \in BOOLEAN : Prepare(q, f, available)
                 \/ Admit(q) \/ PublishSeen(q) \/ Verify(q)
          PROVE  FALSE
      BY <1>1, <3>3 DEF Prepare, Admit, PublishSeen, Verify
    <3> QED
      BY <1>1, <3>1, <3>2, <3>3 DEF Next
  <2>2. PICK q \in Submissions : Decline(q) \/ Dispatch(q) \/ Complete(q)
    BY <2>1
  <2>3. ASSUME NEW v, Answer(q, v) PROVE q = o /\ v = "reject"
    BY <1>1, <2>3 DEF Answer, IInv, TypeOK
  <2>4. CASE Decline(q)
    <3>1. q = o /\ outcome[q] = "reject" /\ stage[q] = "prepared"
      BY <2>3, <2>4 DEF Decline
    <3> QED
      BY <1>1, <3>1 DEF IInv, OutcomesAreTrue
  <2>5. CASE Dispatch(q)
    <3>1. Answer(q, Completion(q, "fault"))
      BY <1>1, <2>5 DEF Dispatch
    <3>2. Completion(q, "fault") # "reject"
      BY CompletionIsTrue
    <3> QED
      BY <2>3, <3>1, <3>2
  <2>6. CASE Complete(q)
    <3>1. /\ q = o /\ Completion(o, outcome[o]) = "reject" /\ stage[o] = "completed"
      BY <2>3, <2>6 DEF Complete
    <3>2. outcome[o] \in {"valid", "invalid", "fault"}
      BY <1>1, <3>1 DEF IInv, OutcomesAreTrue
    <3>3. outcome[o] = "invalid" /\ IsApplicable(store, Proof[o].block, statement[o])
      BY <3>1, <3>2, CompletionIsTrue
    <3>4. Proof[o].claims # statement[o] /\ statement[o] # None
      BY <1>1, <3>1, <3>3 DEF IInv, OutcomesAreTrue, Past
    <3> QED
      BY <3>3, <3>4 DEF IsApplicable
  <2> QED
    BY <2>2, <2>4, <2>5, <2>6
<1>2. IInv /\ [Next]_vars =>
          [\A o \in Submissions : answer'[o] = "reject" /\ answer[o] # "reject" => Cause(o)]_vars
  BY <1>1
<1> QED
  BY <1>2, Inductive, PTL DEF Spec, RejectedForCause

\* Whatever the order in which racing envelopes are applied, the statement that
\* proofs are checked against is that of the cached payload
\* (apply_execution_payload_envelope, prune_after_finalization).
THEOREM StatementIsSelected == Spec => []ContextIsSelected
<1>1. Init => ContextIsSelected
  <2>1. Init => store.contexts = [b \in Blocks |-> None]
    BY DEF Init
  <2> QED
    BY Zenon, <2>1 DEF ContextIsSelected
<1>2. ASSUME TypeOK, ContextIsSelected, [Next]_vars PROVE ContextIsSelected'
  <2> USE <1>2
  <2> DEFINE Same == store'.cache = store.cache /\ store'.contexts = store.contexts
  <2>1. ASSUME Same PROVE ContextIsSelected'
    BY <2>1 DEF ContextIsSelected
  <2>2. ASSUME NEW b \in Blocks \ {Anchor}, ApplyBlock(b) PROVE Same
    <3>1. store \in StoreType /\ store' = [store EXCEPT !.unfinalized = @ \union {b}]
      BY Zenon, <2>2 DEF ApplyBlock, Publish, TypeOK
    <3> QED
      BY Zenon, <3>1 DEF StoreType
  <2>3. ASSUME NEW b \in Blocks, NEW slot \in EpochStarts, Finalize(b, slot)
        PROVE  ContextIsSelected'
    <3>1. /\ store'.contexts = store.contexts
          /\ store'.cache = [c \in Blocks |-> IF slot <= SlotOf[c] THEN store.cache[c] ELSE None]
      BY Zenon, <2>3 DEF Finalize, Publish, TypeOK, StoreType
    <3> QED
      BY <3>1 DEF ContextIsSelected
  <2>4. ASSUME NEW d \in Deliveries, AcceptEnvelope(d) PROVE ContextIsSelected'
    <3> DEFINE b == Envelope[d].block
    <3>1. \E x \in {None, Envelope[d].payload} :
             /\ store'.contexts = [store.contexts EXCEPT ![b] = x]
             /\ store'.cache = [store.cache EXCEPT ![b] = Envelope[d].payload]
      <4>1. store \in StoreType /\ store' = WithEnvelope(store, d)
        BY Zenon, <2>4 DEF AcceptEnvelope, Publish, TypeOK
      <4> QED
        BY Zenon, <4>1 DEF WithEnvelope, StoreType
    <3> QED
      BY <3>1 DEF ContextIsSelected, TypeOK, StoreType
  <2>5. ASSUME NEW o \in Submissions, Admit(o) \/ Complete(o) PROVE Same
    <3>1. store \in StoreType
      BY Zenon DEF TypeOK
    <3>2. CASE Admit(o)
      <4>1. store' = [store EXCEPT !.roots = @ \union {Root(o)}, !.provers = @ \union {Prover(o)}]
        BY Zenon, <3>2 DEF Admit
      <4> QED
        BY Zenon, <3>1, <4>1 DEF StoreType
    <3>3. CASE Complete(o)
      <4>1. \/ store' = [store EXCEPT !.proofs[Target(o)] = Proof[o].data]
            \/ store' = store
        BY Zenon, <3>3 DEF Complete, Publish
      <4> QED
        BY Zenon, <3>1, <4>1 DEF StoreType
    <3> QED
      BY Zenon, <2>5, <3>2, <3>3
  <2>6. ASSUME NEW o \in Submissions,
               \/ \E f \in Faults[o], available \in BOOLEAN : Prepare(o, f, available)
               \/ Decline(o) \/ PublishSeen(o) \/ Dispatch(o) \/ Verify(o)
        PROVE  Same
    BY Zenon, <2>6 DEF Prepare, Decline, PublishSeen, Dispatch, Verify
  <2>7. CASE \/ \E d \in Deliveries, captured \in BOOLEAN : ValidateEnvelope(d, captured)
             \/ StopPool
             \/ UNCHANGED vars
    BY <2>1, <2>7 DEF ValidateEnvelope, StopPool, vars
  <2> HIDE DEF Same
  <2> QED
    BY <2>1, <2>2, <2>3, <2>4, <2>5, <2>6, <2>7 DEF Next
<1> QED
  BY <1>1, <1>2, TypeCorrect, PTL DEF Spec
=============================================================================
