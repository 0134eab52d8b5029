------------------------------ MODULE ForkChoice ------------------------------
(***************************************************************************)
(* The fork choice store as the mutator thread drives it: one action for   *)
(* each Store::apply_* method (store.rs), and for blocks the validation    *)
(* that precedes it.  Validation reads a snapshot of the store on a worker *)
(* thread; the mutator applies the result later, possibly to a store that  *)
(* has moved on (mutator.rs, accept_block checks again).                   *)
(*                                                                         *)
(* A block carries what its state transition computed: its checkpoints,    *)
(* from the epochs whose targets two thirds of the balance have voted for  *)
(* (see Checkpoints), and the balances of its post-state.  Who votes is an *)
(* input, limited by Casper FFG's safety (NoConflictingFinality).          *)
(*                                                                         *)
(* The execution engine is asked about a payload while its block, from     *)
(* Gloas on its envelope, is validated, and answers when it likes.         *)
(***************************************************************************)
EXTENDS PayloadStatuses, TLC

CONSTANTS Instances,      \* the bounds, see instance
          MaxSlot,        \* bound on the slot
          BlockSlots,     \* the slots that blocks are proposed in
          Targets,        \* the target epochs that may gather two thirds of the balance
          MaxSkip,        \* how many slots a tick may go ahead
          AnyRoot,        \* whether a block may get any root, or the least one not in use
          MaxLate,        \* how many slots after its own a block may arrive
          MaxBatch,       \* attestations applied in one call
          MaxPtc          \* blocks whose payload the timeliness committee vouches for

\* An initial state chooses one of the instances, which differ in
\*   gloas      the first slot of the Gloas phase;
\*   roots      block roots (the anchor's is 0);
\*   balances   effective balances;
\*   children   how many blocks build on one block;
\*   interval   the last interval of a slot: 0 lasts up to the attestation
\*              deadline, 1 up to the payload attestation deadline;
\*   voteSlots  the slots that validators attest in;
\*   age        how many slots after its own an attestation may arrive;
\*   indices    values of AttestationData.index;
\*   queued     attestations kept for the next slot;
\*   slashings  bound on the slashed validators;
\*   inFlight   validated blocks that wait for the mutator;
\*   verdicts   bound on the answers of the execution engine.
VARIABLES instance, store, inFlight,
          early,          \* delayed_until_block[root].payload_status: verdicts by block
          waiting,        \* delayed_until_payload: verdicts with the payload they wait for
          answers         \* the verdicts the engine has given

ASSUME SlotsAssumption == BlockSlots \subseteq Nat
ASSUME RootsAssumption == \A i \in Instances : Anchor \notin i.roots

engine == <<early, waiting, answers>>

vars == <<instance, store, inFlight, engine>>

Checkpoint(epoch, root) == [epoch |-> epoch, root |-> root]

-----------------------------------------------------------------------------
\* Store::new
Init ==
  \E i \in Instances : \E balances \in [Validators -> i.balances] :
    LET genesis == Checkpoint(GenesisEpoch, Anchor)
        link == [parent |-> None, slot |-> 0, presence |-> "pending", activeBalances |-> balances,
                 justified |-> genesis, finalized |-> genesis, previousJustified |-> genesis,
                 bits |-> <<FALSE, FALSE, FALSE, FALSE>>, reached |-> {},
                 unrealizedJustified |-> genesis, unrealizedFinalized |-> genesis]
    IN  /\ instance = i
        /\ store = [links |-> [r \in {Anchor} |-> link], statuses |-> [r \in {Anchor} |-> "valid"],
                    finalized |-> {Anchor}, lastFinalized |-> Anchor, unfinalized |-> <<>>,
                    locations |-> <<>>, payloadLocations |-> <<>>, balances |-> <<>>,
                    justifiedCheckpoint |-> genesis, finalizedCheckpoint |-> genesis,
                    unrealizedJustified |-> genesis, unrealizedFinalized |-> genesis,
                    gloas |-> i.gloas, slot |-> 0, interval |-> 0, boost |-> None, headSegment |-> None,
                    messages |-> [v \in Validators |-> None], equivocating |-> {},
                    justifiedBalances |-> balances, currentSlotAttestations |-> <<>>,
                    payloads |-> {}, ptc |-> {}, timely |-> {}, negative |-> {}, panic |-> FALSE]
        /\ inFlight = {} /\ early = <<>> /\ waiting = <<>> /\ answers = {}

-----------------------------------------------------------------------------
\* Mutant of Later: an older checkpoint replaces a newer one.
Later_Unchecked(old, new) == new

\* update_checkpoints and update_unrealized_checkpoints
Later(old, new) == IF new.epoch > old.epoch THEN new ELSE old

UpdateCheckpoints(s, justified, finalized) ==
  [s EXCEPT !.justifiedCheckpoint = Later(@, justified), !.finalizedCheckpoint = Later(@, finalized)]

UpdateUnrealizedCheckpoints(s, justified, finalized) ==
  [s EXCEPT !.unrealizedJustified = Later(@, justified), !.unrealizedFinalized = Later(@, finalized)]

\* The balances follow the justified checkpoint.
FollowJustification(old, s) ==
  IF s.justifiedCheckpoint = old.justifiedCheckpoint THEN s ELSE UpdateBalancesAfterJustification(s)

\* Mutant of UpdateHeadAndPrune: pruning in place of selecting the head.
UpdateHeadAndPrune_Either(old, s) ==
  IF s.finalizedCheckpoint = old.finalizedCheckpoint THEN UpdateHeadSegmentId(s)
  ELSE LET u == PruneAfterFinalization(s) IN [u EXCEPT !.timely = @ \cap Unfinalized(u)]

\* The last step of apply_tick and apply_block: the head is updated before
\* the tree is pruned.
UpdateHeadAndPrune(old, s) ==
  LET t == UpdateHeadSegmentId(s)
  IN  IF s.finalizedCheckpoint = old.finalizedCheckpoint THEN t
      ELSE LET u == PruneAfterFinalization(t) IN [u EXCEPT !.timely = @ \cap Unfinalized(u)]

\* apply_tick
Tick(s, slot, interval) ==
  IF slot = s.slot THEN [s EXCEPT !.interval = interval]
  ELSE LET new == [s EXCEPT !.slot = slot, !.interval = interval, !.boost = None,
                            !.currentSlotAttestations = <<>>]
           pulled == IF Epoch(slot) = Epoch(s.slot) THEN new
                     ELSE FollowJustification(s, UpdateCheckpoints(new, s.unrealizedJustified,
                                                                   s.unrealizedFinalized))
       IN  UpdateHeadAndPrune(s, ApplyVotes(pulled, s.currentSlotAttestations))

ApplyTick ==
  \E slot \in store.slot..Min({MaxSlot, store.slot + MaxSkip}), interval \in 0..instance.interval :
    /\ slot > store.slot \/ interval > store.interval
    /\ store' = Tick(store, slot, interval)
    /\ UNCHANGED <<inFlight, engine>>

-----------------------------------------------------------------------------
\* shuffling_dependent_root
ShufflingDependentRoot(s, root, epoch) ==
  Ancestor(s, root, IF epoch <= 1 THEN 0 ELSE StartOf(epoch - 1) - 1)

\* apply_block
ApplyBlock(s, root, link, status) ==
  LET current == s.slot = link.slot
      epoch == Epoch(s.slot)
      boosted == /\ current /\ s.interval = 0 /\ s.boost = None
                 /\ ShufflingDependentRoot(s, link.parent, epoch)
                      = ShufflingDependentRoot(s, HeadOf(s), epoch)
      seen == [s EXCEPT !.timely = IF current /\ s.interval <= 1 THEN @ \cup {root} ELSE @,
                        !.boost = IF boosted THEN root ELSE @]
      updated == UpdateUnrealizedCheckpoints(UpdateCheckpoints(seen, link.justified, link.finalized),
                                             link.unrealizedJustified, link.unrealizedFinalized)
      pulled == IF Epoch(link.slot) = epoch THEN updated
                ELSE UpdateCheckpoints(updated, link.unrealizedJustified, link.unrealizedFinalized)
  IN  UpdateHeadAndPrune(s, FollowJustification(s, InsertBlock(pulled, root, link, status)))

-----------------------------------------------------------------------------
CheckpointAt(links, root, epoch) ==
  LET before == {r \in Chain(links, root) : links[r].slot <= StartOf(epoch)}
  IN  Checkpoint(epoch, CHOOSE r \in before : \A q \in before : links[q].slot <= links[r].slot)

\* weigh_justification_and_finalization at the end of an epoch of the chain of
\* `root`; `reached` are the target epochs with two thirds of the balance.  The
\* state f has the checkpoints and justification_bits.
Weigh(links, root, epoch, f, reached) ==
  LET bits == <<"current" \in reached, "previous" \in reached \/ f.bits[1], f.bits[2], f.bits[3]>>
      All(a, b) == \A i \in a..b : bits[i]
  IN  IF epoch <= GenesisEpoch + 1 THEN f
      ELSE [previousJustified |-> f.justified,
            justified |-> IF "current" \in reached THEN CheckpointAt(links, root, epoch)
                          ELSE IF "previous" \in reached THEN CheckpointAt(links, root, epoch - 1)
                          ELSE f.justified,
            finalized |-> IF All(1, 2) /\ f.justified.epoch + 1 = epoch THEN f.justified
                          ELSE IF All(1, 3) /\ f.justified.epoch + 2 = epoch THEN f.justified
                          ELSE IF All(2, 3) /\ f.previousJustified.epoch + 2 = epoch THEN f.previousJustified
                          ELSE IF All(2, 4) /\ f.previousJustified.epoch + 3 = epoch THEN f.previousJustified
                          ELSE f.finalized,
            bits |-> bits]

\* What the votes in the chain of a block are worth in a later epoch.
Carried(link, epoch) ==
  IF epoch = Epoch(link.slot) THEN link.reached
  ELSE IF epoch = Epoch(link.slot) + 1 /\ "current" \in link.reached THEN {"previous"}
  ELSE {}

\* The state of a block's child at the start of an epoch.
Advanced(links, parent, epoch) ==
  LET p == links[parent]
      state[e \in Epoch(p.slot)..epoch] ==
        IF e = Epoch(p.slot)
        THEN [previousJustified |-> p.previousJustified, justified |-> p.justified,
              finalized |-> p.finalized, bits |-> p.bits]
        ELSE Weigh(links, parent, e - 1, state[e - 1], Carried(p, e - 1))
  IN  state[epoch]

\* The checkpoints that the state transition can give a block: those of its
\* state, and those the state would have at the end of the epoch.  Votes for
\* the current epoch need an earlier block of it, or an empty first slot.
Checkpoints(links, parent, slot) ==
  LET epoch == Epoch(slot)
      f == Advanced(links, parent, epoch)
      carried == Carried(links[parent], epoch)
      new == {t \in Targets : IF t = "current" THEN StartOf(epoch) < slot ELSE epoch > GenesisEpoch}
      With(reached, w) == f @@ [reached |-> reached, unrealizedJustified |-> w.justified,
                                unrealizedFinalized |-> w.finalized]
  IN  {With(reached, Weigh(links, parent, epoch, f, reached)) :
         reached \in {carried \cup n : n \in SUBSET new}}

\* The checkpoints that two thirds of the balance have voted for.
Justified(links) ==
  {Checkpoint(GenesisEpoch, Anchor)} \cup
  UNION {{CheckpointAt(links, r, Epoch(links[r].slot) - (IF target = "current" THEN 0 ELSE 1)) :
            target \in links[r].reached} : r \in DOMAIN links}

\* Casper FFG: justified checkpoints of an epoch are the same, and those after
\* a finalized one descend from it.
NoConflictingFinality(links) ==
  LET justified == Justified(links) IN
  \A c \in justified :
    /\ \A d \in justified : c.epoch = d.epoch => c = d
    /\ \A r \in DOMAIN links :
         LET f == links[r].unrealizedFinalized
         IN  f.epoch <= c.epoch => CheckpointAt(links, c.root, f.epoch) = f

\* PayloadPresence::of_parent: without a bid in the block or in its parent
\* there is no payload decision.
Presences(s, parent, slot) ==
  IF PostGloas(s, slot) /\ PostGloas(s, s.links[parent].slot) THEN {"empty", "full"} ELSE {"pending"}

\* Every block there is: in the store, pruned from it, or in flight.
Links ==
  [r \in DOMAIN store.links \cup {b.root : b \in inFlight} |->
     IF r \in DOMAIN store.links THEN store.links[r] ELSE (CHOOSE b \in inFlight : b.root = r).link]

\* validate_gossip_rules and validate_block_with_custom_state_transition: the
\* blocks the store accepts.  The others are ignored or delayed, and change
\* nothing here.
ValidBlock(s, root, link) ==
  /\ ~ContainsBlock(s, root)
  /\ link.slot <= s.slot
  /\ link.slot > FinalizedSlot(s)
  /\ ContainsBlock(s, link.parent)
  /\ s.links[link.parent].slot >= FinalizedSlot(s)
  /\ link.presence = "full" => link.parent \in s.payloads

NewRoots ==
  LET unused == instance.roots \ DOMAIN Links
  IN  {r \in unused : AnyRoot \/ \A q \in unused : r <= q}

\* What the store keeps of a block with the checkpoints c.
LinkOf(parent, slot, presence, balances, c) ==
  [parent |-> parent, slot |-> slot, presence |-> presence, activeBalances |-> balances,
   justified |-> c.justified, finalized |-> c.finalized, previousJustified |-> c.previousJustified,
   bits |-> c.bits, reached |-> c.reached,
   unrealizedJustified |-> c.unrealizedJustified, unrealizedFinalized |-> c.unrealizedFinalized]

\* The blocks that may be built on a block in a slot.
ArrivalsOn(parent, slot) ==
  {[root |-> root, status |-> InitialPayloadStatus(store, parent, slot, presence),
    link |-> LinkOf(parent, slot, presence, balances, c)] :
     root \in NewRoots, presence \in Presences(store, parent, slot),
     balances \in [Validators -> instance.balances], c \in Checkpoints(store.links, parent, slot)}

\* The blocks that may arrive next.
Arrivals ==
  LET links == Links
      parents == {p \in DOMAIN store.links :
                    Cardinality({r \in DOMAIN links : links[r].parent = p}) < instance.children}
      Slots(parent) == {n \in BlockSlots : /\ store.links[parent].slot < n
                                           /\ store.slot - MaxLate <= n /\ n <= store.slot}
  IN  UNION {UNION {ArrivalsOn(parent, slot) : slot \in Slots(parent)} : parent \in parents}

ValidArrivals ==
  LET links == Links
  IN  {b \in Arrivals : /\ ValidBlock(store, b.root, b.link)
                        /\ NoConflictingFinality(Bind(links, b.root, b.link))}

\* A worker validates a block; the mutator will get to it later.
ValidateBlock ==
  /\ Cardinality(inFlight) < instance.inFlight
  /\ \E b \in ValidArrivals : inFlight' = inFlight \cup {b}
  /\ UNCHANGED <<store, engine>>

\* Mutator::accept_block: what may have changed since the validation is
\* checked again.
Obsolete(s, root, link) ==
  \/ ContainsBlock(s, root)
  \/ link.slot <= FinalizedSlot(s)
  \/ ~ContainsBlock(s, link.parent)

\* handle_notified_new_payload, of a block in the store; `m` has the statuses, the
\* verdicts that wait, and whether the head is to be updated.
HandleNotifiedNewPayload(s, m, root, verdict) ==
  LET now == [s EXCEPT !.statuses = m.statuses]
      r == IF verdict.latest = None THEN [store |-> now, wait |-> None]
           ELSE UpdateChainPayloadStatuses(now, verdict.latest, root)
      judged == IF verdict.valid THEN r.store ELSE Invalidate(r.store, root)
  IN  [statuses |-> judged.statuses,
       waiting |-> IF r.wait = None THEN m.waiting ELSE Append(m.waiting, [on |-> r.wait, verdict |-> verdict]),
       stale |-> m.stale \/ ~verdict.valid \/ r.wait = None]

NoVerdict(s) == [statuses |-> s.statuses, waiting |-> waiting, stale |-> FALSE]

\* Mutant of Replay: the verdicts that waited are not applied.
Replay_Forgets(s, root) == NoVerdict(s)

\* accept_block and accept_execution_payload_envelope: the verdicts that waited
\* for a payload are applied to its block.
Replay(s, root) ==
  LET Due(w) == w.on = root
      due == SelectSeq(waiting, Due)
      applied[n \in 0..Len(due)] ==
        IF n = 0 THEN [NoVerdict(s) EXCEPT !.waiting = SelectSeq(@, LAMBDA w : ~Due(w))]
        ELSE HandleNotifiedNewPayload(s, applied[n - 1], root, due[n].verdict)
  IN  applied[Len(due)]

\* What the verdicts make of the store.
Settle(s, m) == Refresh([s EXCEPT !.statuses = m.statuses], m.stale)

\* handle_block: a verdict that came before its block is about the parent's
\* payload too.
TakeVerdict(s, b) ==
  LET verdict == early[b.root]
      r == IF verdict.latest = None \/ ~ContainsBlock(s, b.link.parent) THEN [store |-> s, wait |-> Anchor]
           ELSE UpdateChainPayloadStatuses(s, verdict.latest, b.link.parent)
  IN  IF b.root \notin DOMAIN early THEN [store |-> s, status |-> b.status, rejected |-> FALSE]
      ELSE [store |-> Refresh(r.store, r.wait = None),
            status |-> IF verdict.valid THEN "valid" ELSE b.status,
            rejected |-> ~verdict.valid /\ ~PostGloas(s, b.link.slot)]

\* What the engine has said of the blocks under a rejected one that it calls
\* valid, or rejects down to a payload in the store.
Restated(s, b) ==
  LET verdict == early[b.root]
      parent == b.link.parent
      about == {a \in answers : a.root = b.root}
  IN  (answers \ about) \cup
      (IF verdict.latest # parent /\ verdict.latest \notin Located(s) THEN {}
       ELSE {[root |-> parent, valid |-> verdict.latest = parent, latest |-> verdict.latest]})

\* Mutant of AcceptBlock: the parent is not looked up again.
AcceptBlock_TrustsParent ==
  \E b \in inFlight :
    /\ inFlight' \in {inFlight \ {b}, inFlight}
    /\ store' = IF Obsolete(store, b.root, b.link) /\ ContainsBlock(store, b.link.parent) THEN store
                ELSE ApplyBlock(store, b.root, b.link, b.status)
    /\ UNCHANGED engine

\* Mutator::handle_block and accept_block: the block is rejected, dropped or
\* applied.  A block that arrives from two peers is validated, and gets here,
\* more than once.
AcceptBlock ==
  \E b \in inFlight : \E taken \in {TakeVerdict(store, b)} :
    \E s \in {IF taken.rejected \/ Obsolete(taken.store, b.root, b.link) THEN taken.store
              ELSE ApplyBlock(taken.store, b.root, b.link, taken.status)} :
    \E m \in {IF taken.rejected \/ Obsolete(taken.store, b.root, b.link) THEN NoVerdict(s)
              ELSE Replay(s, b.root)} :
      /\ inFlight' \in {inFlight \ {b}} \cup (IF taken.rejected THEN {} ELSE {inFlight})
      /\ store' = Settle(s, m)
      /\ waiting' = m.waiting
      /\ early' = Without(early, {b.root})
      /\ answers' = IF taken.rejected THEN Restated(store, b) ELSE answers

\* Both at once: nothing comes between validation and application.
ImportBlock ==
  /\ instance.inFlight = 0
  /\ \E b \in ValidArrivals : store' = ApplyBlock(store, b.root, b.link, b.status)
  /\ UNCHANGED <<inFlight, engine>>

-----------------------------------------------------------------------------
\* validate_attestation_internal: the attestations accepted now, or earlier
\* for a block that has been pruned meanwhile.  Where they come from matters
\* only for those from before the previous epoch: they come in blocks.
Attestations ==
  LET Old(slot) == Epoch(slot) < Epoch(store.slot) - 1
      slots == instance.voteSlots \cap ((store.slot - instance.age)..store.slot)
      data == {d \in [slot : slots, root : DOMAIN store.links, index : instance.indices] :
                 /\ store.links[d.root].slot <= d.slot
                 /\ d.index = 1 => /\ PostGloas(store, d.slot)
                                   /\ store.links[d.root].slot < d.slot
                                   /\ \/ /\ d.root \in store.payloads
                                         /\ Old(d.slot) \/ ~IsPayloadInvalid(store, d.root)
                                      \/ ~ContainsBlock(store, d.root)}
  IN  {d @@ [validators |-> v, isFromBlock |-> Old(d.slot)] : d \in data, v \in SUBSET Validators \ {{}}}

\* apply_attestation_batch
ApplyAttestationBatch ==
  \E n \in 1..MaxBatch : \E batch \in [1..n -> Attestations] : \E counted \in {ApplyVotes(store, batch)} :
    /\ Len(counted.currentSlotAttestations) <= instance.queued
    /\ store' = UpdateHeadSegmentId(counted)
    /\ store' # store
    /\ UNCHANGED <<inFlight, engine>>

\* apply_attester_slashing
ApplyAttesterSlashing ==
  /\ Cardinality(store.equivocating) < instance.slashings
  /\ \E indices \in SUBSET Validators \ {{}} : store' = UpdateHeadSegmentId(Slash(store, indices))
  /\ UNCHANGED <<inFlight, engine>>

\* apply_execution_payload_envelope: a status from before the payload says
\* nothing of it.  The head is left as it is.
DeliverPayload(s, root) ==
  LET t == [s EXCEPT !.payloads = @ \cup {root},
                     !.payloadLocations = IF root \in Unfinalized(s) THEN Bind(@, root, s.locations[root]) ELSE @]
  IN  IF root \in Unfinalized(s) /\ s.statuses[root] = "valid" THEN SetStatus(t, {root}, "optimistic") ELSE t

\* Mutator::accept_execution_payload_envelope
ApplyExecutionPayloadEnvelope ==
  \E root \in DOMAIN store.links \ store.payloads :
    /\ PostGloas(store, store.links[root].slot)
    /\ \E s \in {DeliverPayload(store, root)} : \E m \in {Replay(s, root)} :
         store' = Settle(s, m) /\ waiting' = m.waiting
    /\ UNCHANGED <<inFlight, early, answers>>

-----------------------------------------------------------------------------
\* The payloads under a payload, itself included.
ExecutionPayloads(root) ==
  LET links == Links
  IN  {root} \cup {links[c].parent : c \in {c \in Chain(links, root) \ {Anchor} : links[c].presence # "empty"}}

\* What the engine has called valid, and what it has rejected.
Approved == UNION {ExecutionPayloads(a.latest) : a \in {b \in answers : b.latest # None}}

RejectedBy(a) ==
  IF a.latest = None THEN {a.root}
  ELSE {r \in ExecutionPayloads(a.root) : Links[r].slot > Links[a.latest].slot}

Rejected == UNION {RejectedBy(a) : a \in {b \in answers : ~b.valid}}

\* The answers of an engine that does not contradict itself: a payload is valid
\* if all under it are.
Verdicts(root) ==
  LET rejected == Rejected
      approved == Approved
  IN  {a \in [root : {root}, valid : BOOLEAN, latest : ExecutionPayloads(root) \cup {None}] :
         /\ a.valid <=> a.latest = root
         /\ a.latest # None => ExecutionPayloads(a.latest) \cap rejected = {}
         /\ ~a.valid => RejectedBy(a) \cap approved = {}}

\* handle_notified_new_payload, with handle_notified_forkchoice_update_result,
\* which does the same for a payload of the store: the engine answers, maybe
\* before the block is in the store.  SYNCING and ACCEPTED come without a latest
\* valid hash, and then the handler returns with nothing changed.
NotifiedNewPayload ==
  /\ Cardinality(answers) < instance.verdicts
  /\ \E root \in DOMAIN Links \ {Anchor} : \E a \in Verdicts(root) \ answers :
       LET verdict == [valid |-> a.valid, latest |-> a.latest]
           known == ContainsBlock(store, root)
       IN  \E m \in {IF known THEN HandleNotifiedNewPayload(store, NoVerdict(store), root, verdict)
                     ELSE NoVerdict(store)} :
           /\ PostGloas(store, Links[root].slot) => known
           /\ answers' = answers \cup {a}
           /\ store' = Settle(store, m)
           /\ waiting' = m.waiting
           /\ early' = IF known THEN early ELSE Bind(early, root, verdict)
  /\ UNCHANGED inFlight

\* apply_payload_attestation_batch: the committee's votes for a payload come
\* out above or below the thresholds.
ApplyPayloadAttestationBatch ==
  \E root \in Unfinalized(store) :
    /\ PostGloas(store, store.links[root].slot)
    /\ \E ptc \in {store.ptc \cup {root}, store.ptc \ {root}} :
         /\ ptc # store.ptc /\ Cardinality(ptc) <= MaxPtc
         /\ store' = UpdateHeadSegmentId([store EXCEPT !.ptc = ptc])
    /\ UNCHANGED <<inFlight, engine>>

Next ==
  /\ \/ ApplyTick
     \/ ValidateBlock
     \/ AcceptBlock
     \/ ImportBlock
     \/ ApplyAttestationBatch
     \/ ApplyAttesterSlashing
     \/ ApplyExecutionPayloadEnvelope
     \/ ApplyPayloadAttestationBatch
     \/ NotifiedNewPayload
  /\ UNCHANGED instance

Spec == Init /\ [][Next]_vars
=============================================================================
