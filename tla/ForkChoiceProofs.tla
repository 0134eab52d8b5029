--------------------------- MODULE ForkChoiceProofs ---------------------------
(***************************************************************************)
(* The tree of the fork choice store is consistent, and pruning leaves no  *)
(* orphan, for every set of blocks, slots and verdicts, and every number   *)
(* of validators.  The lemmas on the tree are those of BlockTreeProofs;    *)
(* here are the methods of the store that leave the tree alone, and the    *)
(* actions.                                                                *)
(***************************************************************************)
EXTENDS ForkChoiceProperties, BlockTreeProofs

\* The fields of struct Store.
Fields ==
  {"links", "statuses", "finalized", "lastFinalized", "unfinalized", "locations", "payloadLocations",
   "balances", "justifiedCheckpoint", "finalizedCheckpoint", "unrealizedJustified",
   "unrealizedFinalized", "gloas", "slot", "interval", "boost", "headSegment", "messages",
   "equivocating", "justifiedBalances", "currentSlotAttestations", "payloads", "ptc", "timely",
   "negative", "panic"}

\* No operation adds a field or drops one.
IsStore(s) == DOMAIN s = Fields

\* A validated block still fits into the tree, whatever has been pruned since,
\* and copies of a block are the same block.
Flying ==
  /\ \A b \in inFlight : Fits(store, b.root, b.link)
  /\ \A b, c \in inFlight : b.root = c.root => b = c

\* The inductive invariant.
IndInv ==
  /\ instance \in Instances
  /\ IsStore(store)
  /\ ~store.panic => IsTree(store) /\ Flying

-----------------------------------------------------------------------------
(***************************************************************************)
(* Methods that leave the tree alone                                       *)
(***************************************************************************)

\* The fields of the tree are the same.
SameTree(s, t) ==
  /\ DOMAIN t = DOMAIN s /\ t.panic = s.panic
  /\ t.links = s.links /\ t.locations = s.locations
  /\ t.finalized = s.finalized /\ t.lastFinalized = s.lastFinalized /\ t.unfinalized = s.unfinalized

\* With the same fields the tree is left alone.
LEMMA SameTreeKeeps ==
  ASSUME NEW s, NEW t, SameTree(s, t)
  PROVE  Keeps(s, t)
  BY Zenon DEF SameTree, Keeps

\* Such a method returns a store.
LEMMA KeepsStore ==
  ASSUME NEW s, NEW t, Keeps(s, t), IsStore(s)
  PROVE  IsStore(t)
  BY Zenon DEF Keeps, IsStore

\* apply_balance_differences changes balances only.
LEMMA ApplyBalanceDifferencesKeeps ==
  ASSUME NEW s, IsStore(s), NEW differences
  PROVE  Keeps(s, ApplyBalanceDifferences(s, differences))
<1>1. SameTree(s, ApplyBalanceDifferences(s, differences))
  BY Zenon DEF ApplyBalanceDifferences, SameTree, IsStore, Fields
<1> QED
  BY Zenon, <1>1, SameTreeKeeps

\* Counting votes leaves the tree alone.
LEMMA ApplyVotesKeeps ==
  ASSUME NEW s, IsStore(s), NEW attestations
  PROVE  Keeps(s, ApplyVotes(s, attestations))
<1> DEFINE end == AttestationDifferences(s, attestations)
           t == [s EXCEPT !.messages = end.messages, !.currentSlotAttestations = end.kept]
<1>1. SameTree(s, t)
  BY Zenon DEF SameTree, IsStore, Fields
<1>2. ApplyVotes(s, attestations) = ApplyBalanceDifferences(t, end.differences)
  BY Zenon DEF ApplyVotes
<1> HIDE DEF t, end
<1>3. Keeps(s, t) /\ IsStore(t)
  BY Zenon, <1>1, SameTreeKeeps, KeepsStore
<1>4. Keeps(t, ApplyBalanceDifferences(t, end.differences))
  BY Zenon, <1>3, ApplyBalanceDifferencesKeeps
<1> QED
  BY Zenon, <1>2, <1>3, <1>4, KeepsTransitive

\* So does taking the balances of a new justified state.
LEMMA FollowJustificationKeeps ==
  ASSUME NEW old, NEW s, IsStore(s)
  PROVE  Keeps(s, FollowJustification(old, s))
<1> DEFINE new == s.links[s.justifiedCheckpoint.root].activeBalances
           t == [s EXCEPT !.justifiedBalances = new]
           differences == JustificationDifferences(s, new)
<1>1. SameTree(s, t) /\ SameTree(s, s)
  BY Zenon DEF SameTree, IsStore, Fields
<1>2. FollowJustification(old, s) = s \/ FollowJustification(old, s) = ApplyBalanceDifferences(t, differences)
  BY Zenon DEF FollowJustification, UpdateBalancesAfterJustification
<1> HIDE DEF t, differences
<1>3. Keeps(s, t) /\ Keeps(s, s) /\ IsStore(t)
  BY Zenon, <1>1, SameTreeKeeps, KeepsStore
<1>4. Keeps(t, ApplyBalanceDifferences(t, differences))
  BY Zenon, <1>3, ApplyBalanceDifferencesKeeps
<1>5. Keeps(s, ApplyBalanceDifferences(t, differences))
  BY Zenon, <1>3, <1>4, KeepsTransitive
<1> QED
  BY Zenon, <1>2, <1>3, <1>5

\* So does apply_attester_slashing.
LEMMA SlashKeeps ==
  ASSUME NEW s, IsStore(s), NEW indices
  PROVE  Keeps(s, Slash(s, indices))
<1> DEFINE t == [s EXCEPT !.equivocating = s.equivocating \cup indices]
           differences == SlashingDifferences(s, indices)
<1>1. SameTree(s, t)
  BY Zenon DEF SameTree, IsStore, Fields
<1>2. Slash(s, indices) = ApplyBalanceDifferences(t, differences)
  BY Zenon DEF Slash
<1> HIDE DEF t, differences
<1>3. Keeps(s, t) /\ IsStore(t)
  BY Zenon, <1>1, SameTreeKeeps, KeepsStore
<1>4. Keeps(t, ApplyBalanceDifferences(t, differences))
  BY Zenon, <1>3, ApplyBalanceDifferencesKeeps
<1> QED
  BY Zenon, <1>2, <1>3, <1>4, KeepsTransitive

\* update_head_segment_id moves the heads of segments.
LEMMA UpdateHeadSegmentIdKeeps ==
  ASSUME NEW s, IsStore(s)
  PROVE  Keeps(s, UpdateHeadSegmentId(s))
<1> DEFINE boost == ProposerBoost(s)
           segments == [id \in DOMAIN s.unfinalized |-> UpdateSegmentHead(s, id, boost)]
           t == [s EXCEPT !.unfinalized = segments]
           found == VisitSegments(t, boost)
           u == [t EXCEPT !.headSegment = found.best, !.panic = t.panic \/ found.branches # {}]
<1>1. UpdateHeadSegmentId(s) = u
  BY Zenon DEF UpdateHeadSegmentId, UpdateSegmentHeads, SetHead
<1>2. ASSUME NEW id \in DOMAIN s.unfinalized, DOMAIN s.unfinalized[id] = {"blocks", "first", "head"}
      PROVE  /\ DOMAIN segments[id] = {"blocks", "first", "head"}
             /\ segments[id].blocks = s.unfinalized[id].blocks
             /\ segments[id].first = s.unfinalized[id].first
  <2>1. segments[id] = UpdateSegmentHead(s, id, boost)
    BY Zenon
  <2>2. \/ segments[id] = s.unfinalized[id]
        \/ \E head : segments[id] = [s.unfinalized[id] EXCEPT !.head = head]
    BY Zenon, <2>1 DEF UpdateSegmentHead
  <2> HIDE DEF segments
  <2> QED
    BY Zenon, <1>2, <2>2
<1>3. DOMAIN segments = DOMAIN s.unfinalized
  BY Zenon
<1> HIDE DEF segments
<1>4. /\ DOMAIN t = DOMAIN s /\ t.panic = s.panic /\ t.links = s.links /\ t.locations = s.locations
      /\ t.finalized = s.finalized /\ t.lastFinalized = s.lastFinalized /\ t.unfinalized = segments
  BY Zenon DEF IsStore, Fields
<1> HIDE DEF t, found
<1>5. /\ DOMAIN u = DOMAIN t /\ (~u.panic => ~t.panic) /\ u.links = t.links /\ u.locations = t.locations
      /\ u.finalized = t.finalized /\ u.lastFinalized = t.lastFinalized /\ u.unfinalized = t.unfinalized
  BY Zenon, <1>4 DEF IsStore, Fields
<1> HIDE DEF u
<1> QED
  BY Zenon, <1>1, <1>2, <1>3, <1>4, <1>5 DEF Keeps

\* The methods that update payload statuses change nothing else.
LEMMA SetStatusKeeps ==
  ASSUME NEW s, IsStore(s), NEW roots, NEW status
  PROVE  SameTree(s, SetStatus(s, roots, status)) /\ IsStore(SetStatus(s, roots, status))
<1> DEFINE new == [r \in DOMAIN s.statuses |-> IF r \in roots THEN status ELSE s.statuses[r]]
<1>1. SetStatus(s, roots, status) = [s EXCEPT !.statuses = new]
  BY Zenon DEF SetStatus
<1> HIDE DEF new
<1> QED
  BY Zenon, <1>1 DEF SameTree, IsStore, Fields

\* The same tree twice is the same tree.
LEMMA SameTreeTransitive ==
  ASSUME NEW s, NEW t, NEW u, SameTree(s, t), SameTree(t, u)
  PROVE  SameTree(s, u)
  BY Zenon DEF SameTree

\* update_chain_payload_statuses changes statuses only.
LEMMA UpdateChainPayloadStatusesKeeps ==
  ASSUME NEW s, IsStore(s), NEW valid, NEW hash
  PROVE  SameTree(s, UpdateChainPayloadStatuses(s, valid, hash).store)
<1> DEFINE a == SetStatus(s, BlocksOf(s, {valid}), "valid")
           b == SetAncestors(a, valid, "valid")
           t == ValidateInherited(b)
           u == RejectBetween(t, valid, hash)
<1>1. SameTree(s, a) /\ IsStore(a)
  BY Zenon, SetStatusKeeps
<1> HIDE DEF a
<1>2. SameTree(a, b) /\ IsStore(b)
  <2> DEFINE c == SetStatus(a, BlocksOf(a, PayloadsUnder(a, BlockOf(a, valid))), "valid")
             d == SetStatus(c, c.finalized, "valid")
  <2>1. SameTree(a, c) /\ IsStore(c)
    BY Zenon, <1>1, SetStatusKeeps
  <2>2. b = c \/ b = d
    BY Zenon DEF SetAncestors
  <2> HIDE DEF b, c
  <2>3. SameTree(c, d) /\ IsStore(d)
    BY Zenon, <2>1, SetStatusKeeps
  <2> HIDE DEF d
  <2>4. SameTree(a, d)
    BY Zenon, <2>1, <2>3, SameTreeTransitive
  <2> QED
    BY Zenon, <2>1, <2>2, <2>3, <2>4
<1> HIDE DEF b
<1>3. SameTree(b, t) /\ IsStore(t)
  BY Zenon, <1>2, SetStatusKeeps DEF ValidateInherited
<1> HIDE DEF t
<1>4. SameTree(t, u)
  <2> DEFINE block == BlockOf(t, hash)
             before == ExecutionChain(t, valid, block)
             first == Earliest(t, before)
             descendants == UNION {ExecutionChain(t, first, LastBlock(t.unfinalized[id])) : id \in DOMAIN t.unfinalized}
             c == SetStatus(t, BlocksOf(t, {first} \cup descendants), "invalid")
             d == IF before = {} THEN t ELSE c
             e == Invalidate(d, Earliest(d, PostGloasPayloads(t, valid, block)))
  <2>1. SameTree(t, c) /\ IsStore(c)
    BY Zenon, <1>3, SetStatusKeeps
  <2>2. u = d \/ u = e
    BY Zenon DEF RejectBetween
  <2> HIDE DEF u, c, before
  <2>3. SameTree(t, d) /\ IsStore(d)
    BY Zenon, <1>3, <2>1 DEF SameTree
  <2> HIDE DEF d
  <2>4. SameTree(d, e)
    BY Zenon, <2>3, SetStatusKeeps DEF Invalidate
  <2> HIDE DEF e
  <2>5. SameTree(t, e)
    BY Zenon, <2>3, <2>4, SameTreeTransitive
  <2> QED
    BY Zenon, <2>2, <2>3, <2>5
<1> HIDE DEF u
<1>5. SameTree(s, t)
  BY Zenon, <1>1, <1>2, <1>3, SameTreeTransitive
<1>6. SameTree(s, u) /\ SameTree(s, s)
  BY Zenon, <1>4, <1>5, SameTreeTransitive DEF SameTree
<1>7. UpdateChainPayloadStatuses(s, valid, hash).store \in {s, t, u}
  BY Zenon DEF UpdateChainPayloadStatuses, a, b, t, u
<1> QED
  BY Zenon, <1>5, <1>6, <1>7

\* Updating the head leaves the tree alone, needed or not.
LEMMA RefreshKeeps ==
  ASSUME NEW s, IsStore(s), NEW stale
  PROVE  Keeps(s, Refresh(s, stale))
<1>1. Keeps(s, s)
  BY Zenon DEF Keeps
<1>2. Refresh(s, stale) = s \/ Refresh(s, stale) = UpdateHeadSegmentId(s)
  BY Zenon DEF Refresh
<1> QED
  BY Zenon, <1>1, <1>2, UpdateHeadSegmentIdKeeps

\* So do the verdicts of the execution engine.
LEMMA SettleKeeps ==
  ASSUME NEW s, IsStore(s), NEW m
  PROVE  Keeps(s, Settle(s, m))
<1> DEFINE t == [s EXCEPT !.statuses = m.statuses]
<1>1. SameTree(s, t)
  BY Zenon DEF SameTree, IsStore, Fields
<1>2. Settle(s, m) = Refresh(t, m.stale)
  BY Zenon DEF Settle
<1> HIDE DEF t
<1>3. Keeps(s, t) /\ IsStore(t)
  BY Zenon, <1>1, SameTreeKeeps, KeepsStore
<1>4. Keeps(t, Refresh(t, m.stale))
  BY Zenon, <1>3, RefreshKeeps
<1> QED
  BY Zenon, <1>2, <1>3, <1>4, KeepsTransitive

\* So does a verdict that came before its block.
LEMMA TakeVerdictKeeps ==
  ASSUME NEW s, IsStore(s), NEW b
  PROVE  Keeps(s, TakeVerdict(s, b).store)
<1> DEFINE verdict == early[b.root]
           r == IF verdict.latest = None \/ ~ContainsBlock(s, b.link.parent) THEN [store |-> s, wait |-> Anchor]
                ELSE UpdateChainPayloadStatuses(s, verdict.latest, b.link.parent)
<1>1. SameTree(s, s)
  BY Zenon DEF SameTree
<1>2. r.store = s \/ r.store = UpdateChainPayloadStatuses(s, verdict.latest, b.link.parent).store
  BY Zenon
<1>3. TakeVerdict(s, b).store = s \/ TakeVerdict(s, b).store = Refresh(r.store, r.wait = None)
  BY Zenon DEF TakeVerdict
<1> HIDE DEF r, verdict
<1>4. SameTree(s, r.store)
  BY Zenon, <1>1, <1>2, UpdateChainPayloadStatusesKeeps
<1>5. Keeps(s, s) /\ Keeps(s, r.store) /\ IsStore(r.store)
  BY Zenon, <1>1, <1>4, SameTreeKeeps, KeepsStore
<1>6. Keeps(r.store, Refresh(r.store, r.wait = None))
  BY Zenon, <1>5, RefreshKeeps
<1>7. Keeps(s, Refresh(r.store, r.wait = None))
  BY Zenon, <1>5, <1>6, KeepsTransitive
<1> QED
  BY Zenon, <1>3, <1>5, <1>7

-----------------------------------------------------------------------------
(***************************************************************************)
(* apply_tick and apply_block                                              *)
(***************************************************************************)

\* New checkpoints leave the tree alone until it is pruned.
LEMMA UpdateCheckpointsKeeps ==
  ASSUME NEW s, IsStore(s), NEW justified, NEW finalized
  PROVE  /\ SameTree(s, UpdateCheckpoints(s, justified, finalized))
         /\ SameTree(s, UpdateUnrealizedCheckpoints(s, justified, finalized))
<1> DEFINE j == Later(s.justifiedCheckpoint, justified)
           f == Later(s.finalizedCheckpoint, finalized)
           k == Later(s.unrealizedJustified, justified)
           g == Later(s.unrealizedFinalized, finalized)
<1>1. UpdateCheckpoints(s, justified, finalized) = [s EXCEPT !.justifiedCheckpoint = j, !.finalizedCheckpoint = f]
  BY Zenon DEF UpdateCheckpoints
<1>2. UpdateUnrealizedCheckpoints(s, justified, finalized)
        = [s EXCEPT !.unrealizedJustified = k, !.unrealizedFinalized = g]
  BY Zenon DEF UpdateUnrealizedCheckpoints
<1> HIDE DEF j, f, k, g
<1>3. SameTree(s, UpdateCheckpoints(s, justified, finalized))
  BY Zenon, <1>1 DEF SameTree, IsStore, Fields
<1>4. SameTree(s, UpdateUnrealizedCheckpoints(s, justified, finalized))
  BY Zenon, <1>2 DEF SameTree, IsStore, Fields
<1> QED
  BY Zenon, <1>3, <1>4

\* A store with the same tree is a store.
LEMMA SameTreeStore ==
  ASSUME NEW s, NEW t, SameTree(s, t), IsStore(s)
  PROVE  IsStore(t)
  BY Zenon DEF SameTree, IsStore

\* The last step of apply_tick and apply_block trims the tree if it finalizes.
LEMMA UpdateHeadAndPruneAdvances ==
  ASSUME NEW old, NEW s, IsStore(s)
  PROVE  Advances(s, UpdateHeadAndPrune(old, s))
<1> DEFINE t == UpdateHeadSegmentId(s)
           u == PruneAfterFinalization(t)
           v == [u EXCEPT !.timely = u.timely \cap Unfinalized(u)]
<1>1. UpdateHeadAndPrune(old, s) = t \/ UpdateHeadAndPrune(old, s) = v
  BY Zenon DEF UpdateHeadAndPrune
<1>2. Keeps(s, t) /\ IsStore(t)
  BY Zenon, UpdateHeadSegmentIdKeeps, KeepsStore
<1>3. TreeFields \subseteq DOMAIN t
  BY Zenon, <1>2 DEF IsStore, Fields, TreeFields
<1> HIDE DEF t
<1>4. Advances(t, u)
  BY Zenon, <1>3, PruneAfterFinalizationSettles
<1> HIDE DEF u
<1>5. SameTree(u, v)
  BY Zenon, <1>2, <1>4 DEF Advances, SameTree, IsStore, Fields
<1> HIDE DEF v
<1>6. Advances(t, v)
  BY Zenon, <1>4, <1>5, SameTreeKeeps, AdvancesThenKeeps
<1> QED
  BY Zenon, <1>1, <1>2, <1>6, KeepsAdvances, KeepsThenAdvances

\* apply_tick does nothing else to the tree.
LEMMA TickAdvances ==
  ASSUME NEW s, IsStore(s), NEW slot, NEW interval
  PROVE  Advances(s, Tick(s, slot, interval))
<1> DEFINE a == [s EXCEPT !.interval = interval]
           new == [s EXCEPT !.slot = slot, !.interval = interval, !.boost = None,
                            !.currentSlotAttestations = <<>>]
           checked == UpdateCheckpoints(new, s.unrealizedJustified, s.unrealizedFinalized)
           followed == FollowJustification(s, checked)
           pulled == IF Epoch(slot) = Epoch(s.slot) THEN new ELSE followed
           counted == ApplyVotes(pulled, s.currentSlotAttestations)
<1>1. Tick(s, slot, interval) = a \/ Tick(s, slot, interval) = UpdateHeadAndPrune(s, counted)
  BY Zenon DEF Tick
<1>2. SameTree(s, a) /\ SameTree(s, new)
  BY Zenon DEF SameTree, IsStore, Fields
<1> HIDE DEF a, new
<1>3. Keeps(s, a) /\ Keeps(s, new) /\ IsStore(new)
  BY Zenon, <1>2, SameTreeKeeps, KeepsStore
<1>4. Keeps(new, checked) /\ IsStore(checked)
  BY Zenon, <1>3, UpdateCheckpointsKeeps, SameTreeKeeps, SameTreeStore
<1> HIDE DEF checked
<1>5. Keeps(checked, followed)
  BY Zenon, <1>4, FollowJustificationKeeps
<1> HIDE DEF followed
<1>6. Keeps(s, followed)
  BY Zenon, <1>3, <1>4, <1>5, KeepsTransitive
<1>7. Keeps(s, pulled)
  BY Zenon, <1>3, <1>6
<1> HIDE DEF pulled
<1>8. Keeps(pulled, counted)
  BY Zenon, <1>7, KeepsStore, ApplyVotesKeeps
<1> HIDE DEF counted
<1>9. Keeps(s, counted) /\ IsStore(counted)
  BY Zenon, <1>7, <1>8, KeepsTransitive, KeepsStore
<1>10. Advances(counted, UpdateHeadAndPrune(s, counted))
  BY Zenon, <1>9, UpdateHeadAndPruneAdvances
<1> QED
  BY Zenon, <1>1, <1>3, <1>9, <1>10, KeepsAdvances, KeepsThenAdvances

\* What applying a block does to a tree in which there is a place for it.
Grows(s, root, link, t) ==
  /\ IsStore(t) /\ (~t.panic => ~s.panic)
  /\ ~t.panic /\ IsTree(s) /\ Fits(s, root, link) /\ ~ContainsBlock(s, root) /\ ContainsBlock(s, link.parent) =>
       /\ IsTree(t) /\ t.links = Bind(s.links, root, link)
       /\ LastFinalized(t) # LastFinalized(s) => Settles(s, t)

\* apply_block inserts the block, and trims the tree if it finalizes.
LEMMA ApplyBlockGrows ==
  ASSUME NEW s, IsStore(s), NEW root, NEW link, NEW status
  PROVE  Grows(s, root, link, ApplyBlock(s, root, link, status))
<1> DEFINE current == s.slot = link.slot
           epoch == Epoch(s.slot)
           boosted == /\ current /\ s.interval = 0 /\ s.boost = None
                      /\ ShufflingDependentRoot(s, link.parent, epoch)
                           = ShufflingDependentRoot(s, HeadOf(s), epoch)
           timely == IF current /\ s.interval <= 1 THEN s.timely \cup {root} ELSE s.timely
           boost == IF boosted THEN root ELSE s.boost
           seen == [s EXCEPT !.timely = timely, !.boost = boost]
           checked == UpdateCheckpoints(seen, link.justified, link.finalized)
           updated == UpdateUnrealizedCheckpoints(checked, link.unrealizedJustified, link.unrealizedFinalized)
           ahead == UpdateCheckpoints(updated, link.unrealizedJustified, link.unrealizedFinalized)
           pulled == IF Epoch(link.slot) = epoch THEN updated ELSE ahead
           inserted == InsertBlock(pulled, root, link, status)
           followed == FollowJustification(s, inserted)
           t == UpdateHeadAndPrune(s, followed)
<1>1. ApplyBlock(s, root, link, status) = t
  BY Zenon DEF ApplyBlock
<1> HIDE DEF timely, boost
<1>2. SameTree(s, seen) /\ IsStore(seen)
  BY Zenon DEF SameTree, IsStore, Fields
<1> HIDE DEF seen
<1>3. SameTree(seen, checked) /\ IsStore(checked)
  BY Zenon, <1>2, UpdateCheckpointsKeeps, SameTreeStore
<1> HIDE DEF checked
<1>4. SameTree(checked, updated) /\ IsStore(updated)
  BY Zenon, <1>3, UpdateCheckpointsKeeps, SameTreeStore
<1> HIDE DEF updated
<1>5. SameTree(updated, ahead)
  BY Zenon, <1>4, UpdateCheckpointsKeeps
<1> HIDE DEF ahead
<1>6. SameTree(s, updated)
  BY Zenon, <1>2, <1>3, <1>4, SameTreeTransitive
<1>7. SameTree(s, pulled)
  BY Zenon, <1>5, <1>6, SameTreeTransitive
<1> HIDE DEF pulled
<1>8. Keeps(s, pulled) /\ IsStore(pulled) /\ TreeFields \subseteq DOMAIN pulled
  <2>1. Keeps(s, pulled) /\ IsStore(pulled)
    BY Zenon, <1>7, SameTreeKeeps, SameTreeStore
  <2> QED
    BY Zenon, <2>1 DEF IsStore, Fields, TreeFields
<1>9. /\ DOMAIN inserted = DOMAIN pulled /\ inserted.links = Bind(pulled.links, root, link)
      /\ inserted.lastFinalized = pulled.lastFinalized /\ (~inserted.panic => ~pulled.panic)
      /\ inserted.finalized = pulled.finalized /\ Unfinalized(pulled) \subseteq Unfinalized(inserted)
  <2>1. inserted = InsertBlock(pulled, root, link, status)
    BY Zenon
  <2> HIDE DEF inserted
  <2> QED
    BY <1>8, <2>1, InsertBlockFrame
<1>10. ASSUME IsTree(s), Fits(s, root, link), ~ContainsBlock(s, root), ContainsBlock(s, link.parent)
       PROVE  IsTree(inserted)
  <2>1. IsTree(pulled)
    BY Zenon, <1>8, <1>10, KeepsTree
  <2>2. Fits(pulled, root, link) /\ ~ContainsBlock(pulled, root) /\ ContainsBlock(pulled, link.parent)
    BY Zenon, <1>7, <1>10 DEF SameTree, Fits, ContainsBlock, Unfinalized
  <2> QED
    BY Zenon, <1>8, <2>1, <2>2, InsertBlockKeepsTree
<1> HIDE DEF inserted
<1>11. IsStore(inserted)
  BY Zenon, <1>8, <1>9 DEF IsStore
<1>12. Keeps(inserted, followed)
  BY Zenon, <1>11, FollowJustificationKeeps
<1> HIDE DEF followed
<1>13. Advances(followed, t)
  BY Zenon, <1>11, <1>12, KeepsStore, UpdateHeadAndPruneAdvances
<1> HIDE DEF t
<1>14. Advances(inserted, t)
  BY Zenon, <1>12, <1>13, KeepsThenAdvances
<1>15. s.links = pulled.links /\ s.lastFinalized = pulled.lastFinalized /\ s.panic = pulled.panic
  BY Zenon, <1>7 DEF SameTree
<1>16. ASSUME IsTree(s), Fits(s, root, link), Settles(inserted, t)
       PROVE  Settles(s, t)
  <2>1. inserted.finalized = s.finalized /\ Unfinalized(s) \subseteq Unfinalized(inserted)
    BY Zenon, <1>7, <1>9 DEF SameTree, Unfinalized
  <2>2. Unfinalized(s) \subseteq DOMAIN s.links
    BY Zenon, <1>16 DEF IsTree, Divided
  <2>3. inserted.links = Bind(s.links, root, link)
    BY Zenon, <1>9, <1>15
  <2>4. \A r \in DOMAIN s.links : r \in DOMAIN inserted.links /\ inserted.links[r].parent = s.links[r].parent
    BY <1>16, <2>3 DEF Bind, Fits
  <2> QED
    BY SMT, <1>16, <2>1, <2>2, <2>4, SettlesFewer
<1> QED
  BY Zenon, <1>1, <1>9, <1>10, <1>11, <1>14, <1>15, <1>16 DEF Grows, Advances, IsStore, LastFinalized

-----------------------------------------------------------------------------
(***************************************************************************)
(* The actions                                                             *)
(***************************************************************************)

\* What every action does for the invariant and for the finalized block.
Preserves ==
  /\ IndInv'
  /\ LastFinalized(store') # LastFinalized(store) /\ ~store'.panic => IsTree(store) /\ Settles(store, store')

\* A step that inserts no block.
LEMMA AdvancingStep ==
  ASSUME IndInv, Advances(store, store'), inFlight' \subseteq inFlight, UNCHANGED instance
  PROVE  Preserves
<1>1. IsStore(store') /\ instance' \in Instances
  BY Zenon DEF IndInv, Advances, IsStore
<1>2. ASSUME ~store'.panic
      PROVE  /\ IsTree(store') /\ Flying'
             /\ LastFinalized(store') # LastFinalized(store) => IsTree(store) /\ Settles(store, store')
  <2>1. IsTree(store) /\ Flying
    BY Zenon, <1>2 DEF IndInv, Advances
  <2>2. /\ IsTree(store') /\ store'.links = store.links
        /\ LastFinalized(store') # LastFinalized(store) => IsTree(store) /\ Settles(store, store')
    BY Zenon, <1>2, <2>1 DEF Advances
  <2>3. Flying'
    BY Zenon, <2>1, <2>2 DEF Flying, Fits
  <2> QED
    BY Zenon, <2>2, <2>3
<1> QED
  BY Zenon, <1>1, <1>2 DEF IndInv, Preserves

\* What validation lets through is a new block that fits into the tree.
LEMMA ArrivalsFit ==
  ASSUME IndInv, ~store.panic, NEW b \in ValidArrivals
  PROVE  /\ Fits(store, b.root, b.link)
         /\ b.root \notin DOMAIN store.links
         /\ \A c \in inFlight : c.root # b.root
         /\ ~ContainsBlock(store, b.root) /\ ContainsBlock(store, b.link.parent)
<1>1. b \in Arrivals /\ ValidBlock(store, b.root, b.link)
  BY Zenon DEF ValidArrivals
<1> DEFINE parents == {p \in DOMAIN store.links :
                         Cardinality({r \in DOMAIN Links : Links[r].parent = p}) < instance.children}
           Slots(parent) == {n \in BlockSlots : /\ store.links[parent].slot < n
                                                /\ store.slot - MaxLate <= n /\ n <= store.slot}
           On(parent) == UNION {ArrivalsOn(parent, slot) : slot \in Slots(parent)}
<1>2. b \in UNION {On(parent) : parent \in parents}
  BY Zenon, <1>1 DEF Arrivals
<1>3. parents \subseteq DOMAIN store.links
       /\ \A parent \in parents : \A n \in Slots(parent) : n \in BlockSlots /\ store.links[parent].slot < n
  BY Zenon
<1>4. \A parent : b \in On(parent) => \E slot \in Slots(parent) : b \in ArrivalsOn(parent, slot)
  BY Zenon
<1> HIDE DEF parents, Slots, On
<1>5. PICK parent \in DOMAIN store.links, slot \in BlockSlots :
         store.links[parent].slot < slot /\ b \in ArrivalsOn(parent, slot)
  BY Zenon, <1>2, <1>3, <1>4
<1>6. PICK root \in NewRoots, presence \in Presences(store, parent, slot),
           balances \in [Validators -> instance.balances], f \in Checkpoints(store.links, parent, slot) :
         b = [root |-> root, status |-> InitialPayloadStatus(store, parent, slot, presence),
              link |-> LinkOf(parent, slot, presence, balances, f)]
  BY <1>5 DEF ArrivalsOn
<1>7. b.root \in NewRoots /\ b.link.parent = parent /\ b.link.slot = slot
  BY <1>6 DEF LinkOf
<1>8. b.root \in instance.roots /\ b.root \notin DOMAIN Links
  BY Zenon, <1>7 DEF NewRoots
<1>9. b.root # Anchor
  BY Zenon, <1>8, RootsAssumption DEF IndInv
<1>10. b.root \notin DOMAIN store.links /\ \A c \in inFlight : c.root # b.root
  BY Zenon, <1>8 DEF Links
<1>11. b.link.slot \in Nat /\ b.link.parent \in DOMAIN store.links /\ store.links[b.link.parent].slot < b.link.slot
  BY Zenon, <1>5, <1>7, SlotsAssumption
<1> QED
  BY Zenon, <1>1, <1>9, <1>10, <1>11 DEF Fits, ValidBlock

\* Before and after a block is applied, verdicts may change statuses.
LEMMA KeepsThenGrows ==
  ASSUME NEW s, NEW t, NEW u, Keeps(s, t)
  PROVE  \A root, link : Grows(t, root, link, u) => Grows(s, root, link, u)
<1> SUFFICES ASSUME NEW root, NEW link, Grows(t, root, link, u)
             PROVE  Grows(s, root, link, u)
  BY Zenon
<1>1. IsTree(s) => IsTree(t)
  BY Zenon, KeepsTree
<1>2. Fits(s, root, link) => Fits(t, root, link)
  BY Zenon DEF Keeps, Fits
<1>3. \A r : ContainsBlock(s, r) <=> ContainsBlock(t, r)
  BY Zenon DEF Keeps, ContainsBlock, Unfinalized
<1>4. t.links = s.links /\ LastFinalized(t) = LastFinalized(s) /\ (~t.panic => ~s.panic)
  BY Zenon DEF Keeps, LastFinalized
<1>5. IsTree(s) /\ Settles(t, u) => Settles(s, u)
  BY Zenon, KeepsSettles
<1> QED
  BY Zenon, <1>1, <1>2, <1>3, <1>4, <1>5 DEF Grows

\* The same for the verdicts that waited for the block.
LEMMA GrowsThenKeeps ==
  ASSUME NEW s, NEW t, NEW u, Keeps(t, u)
  PROVE  \A root, link : Grows(s, root, link, t) => Grows(s, root, link, u)
<1> SUFFICES ASSUME NEW root, NEW link, Grows(s, root, link, t)
             PROVE  Grows(s, root, link, u)
  BY Zenon
<1>1. IsTree(t) => IsTree(u)
  BY Zenon, KeepsTree
<1>2. Settles(s, t) => Settles(s, u)
  BY Zenon, SettlesKeeps
<1>3. u.links = t.links /\ LastFinalized(t) = LastFinalized(u) /\ (~u.panic => ~t.panic) /\ DOMAIN u = DOMAIN t
  BY Zenon DEF Keeps, LastFinalized
<1> QED
  BY Zenon, <1>1, <1>2, <1>3 DEF Grows, IsStore

\* A step that inserts a block.
LEMMA GrowingStep ==
  ASSUME IndInv, NEW b, Grows(store, b.root, b.link, store'),
         ~store.panic => /\ Fits(store, b.root, b.link)
                         /\ ~ContainsBlock(store, b.root) /\ ContainsBlock(store, b.link.parent)
                         /\ \A c \in inFlight : c.root = b.root => c = b,
         inFlight' \subseteq inFlight, UNCHANGED instance
  PROVE  Preserves
<1>1. IsStore(store') /\ instance' \in Instances
  BY Zenon DEF IndInv, Grows
<1>2. ASSUME ~store'.panic
      PROVE  /\ IsTree(store') /\ Flying'
             /\ LastFinalized(store') # LastFinalized(store) => IsTree(store) /\ Settles(store, store')
  <2>1. ~store.panic
    BY Zenon, <1>2 DEF Grows
  <2>2. IsTree(store) /\ Flying
    BY Zenon, <2>1 DEF IndInv
  <2>3. /\ IsTree(store') /\ store'.links = Bind(store.links, b.root, b.link)
        /\ LastFinalized(store') # LastFinalized(store) => IsTree(store) /\ Settles(store, store')
    BY Zenon, <1>2, <2>1, <2>2 DEF Grows
  <2>4. \A q, other : Fits(store, q, other) /\ (q = b.root => other = b.link) => Fits(store', q, other)
    BY <2>1, <2>3, InsertBlockFits
  <2>5. \A c \in inFlight' : Fits(store', c.root, c.link)
    BY Zenon, <2>1, <2>2, <2>4 DEF Flying
  <2>6. Flying'
    BY Zenon, <2>2, <2>5 DEF Flying
  <2> QED
    BY Zenon, <2>3, <2>6
<1> QED
  BY Zenon, <1>1, <1>2 DEF IndInv, Preserves

\* The action of an envelope leaves the tree alone.
LEMMA DeliverPayloadKeeps ==
  ASSUME NEW s, IsStore(s), NEW root
  PROVE  Keeps(s, DeliverPayload(s, root)) /\ IsStore(DeliverPayload(s, root))
<1> DEFINE payloads == s.payloads \cup {root}
           locations == IF root \in Unfinalized(s) THEN Bind(s.payloadLocations, root, s.locations[root])
                        ELSE s.payloadLocations
           t == [s EXCEPT !.payloads = payloads, !.payloadLocations = locations]
<1>1. DeliverPayload(s, root) = t \/ DeliverPayload(s, root) = SetStatus(t, {root}, "optimistic")
  BY Zenon DEF DeliverPayload
<1> HIDE DEF payloads, locations
<1>2. SameTree(s, t)
  BY Zenon DEF SameTree, IsStore, Fields
<1> HIDE DEF t
<1>3. IsStore(t)
  BY Zenon, <1>2, SameTreeStore
<1>4. SameTree(t, SetStatus(t, {root}, "optimistic")) /\ IsStore(SetStatus(t, {root}, "optimistic"))
  BY <1>3, SetStatusKeeps
<1>5. SameTree(s, SetStatus(t, {root}, "optimistic"))
  BY Zenon, <1>2, <1>4, SameTreeTransitive
<1>6. SameTree(s, DeliverPayload(s, root)) /\ IsStore(DeliverPayload(s, root))
  BY Zenon, <1>1, <1>2, <1>3, <1>4, <1>5
<1> QED
  BY Zenon, <1>6, SameTreeKeeps

\* A step that leaves the tree alone.
LEMMA KeepingStep ==
  ASSUME IndInv, Keeps(store, store'), inFlight' = inFlight, UNCHANGED instance
  PROVE  Preserves
<1>1. Advances(store, store')
  BY Zenon, KeepsAdvances
<1> QED
  BY Zenon, <1>1, AdvancingStep

\* Mutator::accept_block.
LEMMA AcceptBlockPreserves ==
  ASSUME IndInv, AcceptBlock, UNCHANGED instance
  PROVE  Preserves
<1>1. PICK b \in inFlight :
        /\ inFlight' \subseteq inFlight
        /\ \E s, m :
             /\ s = IF TakeVerdict(store, b).rejected \/ Obsolete(TakeVerdict(store, b).store, b.root, b.link)
                    THEN TakeVerdict(store, b).store
                    ELSE ApplyBlock(TakeVerdict(store, b).store, b.root, b.link, TakeVerdict(store, b).status)
             /\ store' = Settle(s, m)
  BY Zenon DEF AcceptBlock
<1> DEFINE taken == TakeVerdict(store, b).store
           status == TakeVerdict(store, b).status
<1>2. PICK s, m :
        /\ store' = Settle(s, m)
        /\ \/ s = taken
           \/ ~Obsolete(taken, b.root, b.link) /\ s = ApplyBlock(taken, b.root, b.link, status)
  BY Zenon, <1>1
<1>3. IsStore(store) /\ Keeps(store, taken)
  BY Zenon, TakeVerdictKeeps DEF IndInv
<1> HIDE DEF taken, status
<1>4. IsStore(taken)
  BY Zenon, <1>3, KeepsStore
<1>5. CASE s = taken
  <2>1. Keeps(taken, store')
    BY Zenon, <1>2, <1>4, <1>5, SettleKeeps
  <2>2. Advances(store, store')
    BY Zenon, <1>3, <2>1, KeepsTransitive, KeepsAdvances
  <2> QED
    BY Zenon, <1>1, <2>2, AdvancingStep
<1>6. CASE ~Obsolete(taken, b.root, b.link) /\ s = ApplyBlock(taken, b.root, b.link, status)
  <2>1. Grows(taken, b.root, b.link, s)
    BY <1>4, <1>6, ApplyBlockGrows
  <2>2. IsStore(s)
    BY Zenon, <2>1 DEF Grows
  <2>3. Keeps(s, store')
    BY Zenon, <1>2, <2>2, SettleKeeps
  <2>4. Grows(taken, b.root, b.link, store')
    BY Zenon, <2>1, <2>3, GrowsThenKeeps
  <2>5. Grows(store, b.root, b.link, store')
    BY Zenon, <1>3, <2>4, KeepsThenGrows
  <2>6. ~ContainsBlock(taken, b.root) /\ ContainsBlock(taken, b.link.parent)
    BY Zenon, <1>6 DEF Obsolete
  <2>7. ~ContainsBlock(store, b.root) /\ ContainsBlock(store, b.link.parent)
    BY Zenon, <1>3, <2>6 DEF Keeps, ContainsBlock, Unfinalized
  <2>8. ~store.panic => Fits(store, b.root, b.link) /\ \A c \in inFlight : c.root = b.root => c = b
    BY Zenon DEF IndInv, Flying
  <2> QED
    BY Zenon, <1>1, <2>5, <2>7, <2>8, GrowingStep
<1> QED
  BY Zenon, <1>2, <1>5, <1>6

\* The worker's validation: the block in flight is one that fits.
LEMMA ValidateBlockPreserves ==
  ASSUME IndInv, ValidateBlock, UNCHANGED instance
  PROVE  Preserves
<1>1. PICK b \in ValidArrivals : inFlight' = inFlight \cup {b}
  BY Zenon DEF ValidateBlock
<1>2. store' = store /\ instance' = instance
  BY Zenon DEF ValidateBlock
<1>3. ASSUME ~store.panic PROVE IsTree(store) /\ Flying'
  <2>1. IsTree(store) /\ Flying
    BY Zenon, <1>3 DEF IndInv
  <2>2. Fits(store, b.root, b.link) /\ \A c \in inFlight : c.root # b.root
    BY <1>3, ArrivalsFit
  <2>3. \A c \in inFlight' : Fits(store, c.root, c.link)
    BY Zenon, <1>1, <2>1, <2>2 DEF Flying
  <2>4. \A c, d \in inFlight' : c.root = d.root => c = d
    BY Zenon, <1>1, <2>1, <2>2 DEF Flying
  <2> QED
    BY Zenon, <1>2, <2>1, <2>3, <2>4 DEF Flying
<1>4. IndInv'
  BY Zenon, <1>2, <1>3 DEF IndInv
<1> QED
  BY Zenon, <1>2, <1>4 DEF Preserves

\* Validation and application at once.
LEMMA ImportBlockPreserves ==
  ASSUME IndInv, ImportBlock, UNCHANGED instance
  PROVE  Preserves
<1>1. PICK b \in ValidArrivals : store' = ApplyBlock(store, b.root, b.link, b.status)
  BY Zenon DEF ImportBlock
<1>2. inFlight' = inFlight
  BY Zenon DEF ImportBlock
<1>3. IsStore(store)
  BY Zenon DEF IndInv
<1>4. Grows(store, b.root, b.link, store')
  BY <1>1, <1>3, ApplyBlockGrows
<1>5. ~store.panic => /\ Fits(store, b.root, b.link)
                      /\ ~ContainsBlock(store, b.root) /\ ContainsBlock(store, b.link.parent)
                      /\ \A c \in inFlight : c.root # b.root
  BY ArrivalsFit
<1> QED
  BY Zenon, <1>2, <1>4, <1>5, GrowingStep

\* Every step.
LEMMA NextPreserves ==
  ASSUME IndInv, [Next]_vars
  PROVE  Preserves
<1>0. IsStore(store)
  BY Zenon DEF IndInv
<1>1. CASE ApplyTick /\ UNCHANGED instance
  <2>1. PICK slot, interval : store' = Tick(store, slot, interval)
    BY Zenon, <1>1 DEF ApplyTick
  <2>2. Advances(store, store')
    BY <1>0, <2>1, TickAdvances
  <2>3. inFlight' = inFlight
    BY Zenon, <1>1 DEF ApplyTick
  <2> QED
    BY Zenon, <1>1, <2>2, <2>3, AdvancingStep
<1>2. CASE ValidateBlock /\ UNCHANGED instance
  BY Zenon, <1>2, ValidateBlockPreserves
<1>3. CASE AcceptBlock /\ UNCHANGED instance
  BY Zenon, <1>3, AcceptBlockPreserves
<1>4. CASE ImportBlock /\ UNCHANGED instance
  BY Zenon, <1>4, ImportBlockPreserves
<1>5. CASE ApplyAttestationBatch /\ UNCHANGED instance
  <2>1. PICK batch : store' = UpdateHeadSegmentId(ApplyVotes(store, batch))
    BY Zenon, <1>5 DEF ApplyAttestationBatch
  <2>2. inFlight' = inFlight
    BY Zenon, <1>5 DEF ApplyAttestationBatch
  <2>3. Keeps(store, ApplyVotes(store, batch))
    BY Zenon, <1>0, ApplyVotesKeeps
  <2>4. Keeps(ApplyVotes(store, batch), store')
    BY Zenon, <1>0, <2>1, <2>3, KeepsStore, UpdateHeadSegmentIdKeeps
  <2>5. Keeps(store, store')
    BY Zenon, <2>3, <2>4, KeepsTransitive
  <2> QED
    BY Zenon, <1>5, <2>2, <2>5, KeepingStep
<1>6. CASE ApplyAttesterSlashing /\ UNCHANGED instance
  <2>1. PICK indices : store' = UpdateHeadSegmentId(Slash(store, indices))
    BY Zenon, <1>6 DEF ApplyAttesterSlashing
  <2>2. inFlight' = inFlight
    BY Zenon, <1>6 DEF ApplyAttesterSlashing
  <2>3. Keeps(store, Slash(store, indices))
    BY Zenon, <1>0, SlashKeeps
  <2>4. Keeps(Slash(store, indices), store')
    BY Zenon, <1>0, <2>1, <2>3, KeepsStore, UpdateHeadSegmentIdKeeps
  <2>5. Keeps(store, store')
    BY Zenon, <2>3, <2>4, KeepsTransitive
  <2> QED
    BY Zenon, <1>6, <2>2, <2>5, KeepingStep
<1>7. CASE ApplyExecutionPayloadEnvelope /\ UNCHANGED instance
  <2>1. PICK root, m : store' = Settle(DeliverPayload(store, root), m)
    BY Zenon, <1>7 DEF ApplyExecutionPayloadEnvelope
  <2>2. inFlight' = inFlight
    BY Zenon, <1>7 DEF ApplyExecutionPayloadEnvelope
  <2>3. Keeps(store, DeliverPayload(store, root)) /\ IsStore(DeliverPayload(store, root))
    BY Zenon, <1>0, DeliverPayloadKeeps
  <2>4. Keeps(DeliverPayload(store, root), store')
    BY Zenon, <2>1, <2>3, SettleKeeps
  <2>5. Keeps(store, store')
    BY Zenon, <2>3, <2>4, KeepsTransitive
  <2> QED
    BY Zenon, <1>7, <2>2, <2>5, KeepingStep
<1>8. CASE ApplyPayloadAttestationBatch /\ UNCHANGED instance
  <2>1. PICK ptc : store' = UpdateHeadSegmentId([store EXCEPT !.ptc = ptc])
    BY Zenon, <1>8 DEF ApplyPayloadAttestationBatch
  <2>2. inFlight' = inFlight
    BY Zenon, <1>8 DEF ApplyPayloadAttestationBatch
  <2>3. SameTree(store, [store EXCEPT !.ptc = ptc])
    BY Zenon, <1>0 DEF SameTree, IsStore, Fields
  <2>4. Keeps(store, [store EXCEPT !.ptc = ptc]) /\ IsStore([store EXCEPT !.ptc = ptc])
    BY Zenon, <1>0, <2>3, SameTreeKeeps, SameTreeStore
  <2>5. Keeps([store EXCEPT !.ptc = ptc], store')
    BY Zenon, <2>1, <2>4, UpdateHeadSegmentIdKeeps
  <2>6. Keeps(store, store')
    BY Zenon, <2>4, <2>5, KeepsTransitive
  <2> QED
    BY Zenon, <1>8, <2>2, <2>6, KeepingStep
<1>9. CASE NotifiedNewPayload /\ UNCHANGED instance
  <2>1. PICK m : store' = Settle(store, m)
    BY Zenon, <1>9 DEF NotifiedNewPayload
  <2>2. inFlight' = inFlight
    BY Zenon, <1>9 DEF NotifiedNewPayload
  <2>3. Keeps(store, store')
    BY Zenon, <1>0, <2>1, SettleKeeps
  <2> QED
    BY Zenon, <1>9, <2>2, <2>3, KeepingStep
<1>10. CASE UNCHANGED vars
  <2>1. store' = store /\ inFlight' = inFlight /\ instance' = instance
    BY Zenon, <1>10 DEF vars
  <2>2. Flying => Flying'
    BY Zenon, <2>1 DEF Flying
  <2> QED
    BY Zenon, <2>1, <2>2 DEF Preserves, IndInv
<1> QED
  BY Zenon, <1>1, <1>2, <1>3, <1>4, <1>5, <1>6, <1>7, <1>8, <1>9, <1>10 DEF Next

-----------------------------------------------------------------------------
(***************************************************************************)
(* The theorems                                                            *)
(***************************************************************************)

\* Store::new makes a store with the anchor block alone.
LEMMA InitHolds ==
  ASSUME Init
  PROVE  IndInv
<1>1. /\ instance \in Instances
      /\ IsStore(store)
      /\ store.finalized = {Anchor} /\ store.lastFinalized = Anchor
      /\ store.unfinalized = <<>> /\ store.locations = <<>>
      /\ inFlight = {}
  BY DEF Init, IsStore, Fields
<1>2. DOMAIN store.links = {Anchor} /\ store.links[Anchor].slot = 0
  BY DEF Init
<1>3. DOMAIN store.unfinalized = {} /\ Unfinalized(store) = {}
  BY <1>1 DEF Unfinalized
<1>4. Rooted(store)
  BY <1>2 DEF Rooted
<1>5. Divided(store) /\ Attached(store)
  BY Zenon, <1>1, <1>3, <1>2 DEF Divided, Attached, LastFinalized
<1>6. Segmented(store)
  <2>1. DOMAIN store.unfinalized \subseteq 1..0 /\ 0 \in Nat
    BY <1>3
  <2> QED
    BY Zenon, <1>3, <2>1 DEF Segmented
<1> QED
  BY Zenon, <1>1, <1>4, <1>5, <1>6 DEF IndInv, IsTree, Flying

\* The segments of a tree are what TreeIsConsistent says of them ...
LEMMA SegmentsAreConsistent ==
  ASSUME NEW s, NEW id, IsSegment(s, id)
  PROVE  SegmentIsConsistent(s, id)
<1> DEFINE segment == s.unfinalized[id]
           blocks == segment.blocks
<1>1. blocks \in Seq(DOMAIN s.links) /\ blocks # <<>>
  BY Zenon DEF IsSegment
<1>2. \A i \in 1..Len(blocks) :
        /\ blocks[i] \in Unfinalized(s)
        /\ s.locations[blocks[i]] = [segment |-> id, position |-> segment.first + i - 1]
  BY Zenon DEF IsSegment
<1>3. \A i \in 2..Len(blocks) : s.links[blocks[i]].parent = blocks[i - 1]
  BY Zenon DEF IsSegment
<1>4. \A r \in Unfinalized(s) : s.links[r].parent # blocks[Len(blocks)]
  BY Zenon DEF IsSegment
<1>5. \A r \in {s.links[blocks[1]].parent} \cap Unfinalized(s) : s.locations[r].segment < id
  BY Zenon DEF IsSegment
<1>6. FirstBlock(s.unfinalized[id]) = blocks[1]
  BY <1>1 DEF FirstBlock
<1>7. \A parent \in ParentLocation(s, id) : parent.segment < id
  BY Zenon, <1>5, <1>6 DEF ParentLocation
<1>8. \A i \in 1..Len(blocks) : i > 1 => s.links[blocks[i]].parent = blocks[i - 1]
  <2>1. \A i \in 1..Len(blocks) : i > 1 => i \in 2..Len(blocks)
    BY <1>1
  <2> QED
    BY Zenon, <1>3, <2>1
<1> QED
  BY Zenon, <1>1, <1>2, <1>4, <1>7, <1>8 DEF SegmentIsConsistent

\* ... and so is the rest of the tree.
LEMMA TreesAreConsistent ==
  ASSUME IndInv
  PROVE  TreeIsConsistent
<1> SUFFICES ASSUME ~store.panic
             PROVE  /\ Unfinalized(store) \cup store.finalized \subseteq DOMAIN store.links
                    /\ Unfinalized(store) \cap store.finalized = {}
                    /\ {Anchor, LastFinalized(store)} \subseteq store.finalized
                    /\ \A r \in Unfinalized(store) \cup (store.finalized \ {Anchor}) :
                         /\ ContainsBlock(store, store.links[r].parent)
                         /\ r \in store.finalized => store.links[r].parent \in store.finalized
                         /\ store.links[store.links[r].parent].slot < store.links[r].slot
                    /\ \A r \in Unfinalized(store) :
                         \E id \in DOMAIN store.unfinalized : r \in Range(store.unfinalized[id].blocks)
                    /\ \A id \in DOMAIN store.unfinalized : SegmentIsConsistent(store, id)
  BY Zenon DEF TreeIsConsistent
<1>1. Rooted(store) /\ Divided(store) /\ Attached(store) /\ Segmented(store)
  BY Zenon DEF IndInv, IsTree
<1>2. /\ Unfinalized(store) \cup store.finalized \subseteq DOMAIN store.links
      /\ Unfinalized(store) \cap store.finalized = {}
      /\ {Anchor, LastFinalized(store)} \subseteq store.finalized
  BY Zenon, <1>1 DEF Divided
<1>3. ASSUME NEW r \in Unfinalized(store) \cup (store.finalized \ {Anchor})
      PROVE  /\ ContainsBlock(store, store.links[r].parent)
             /\ r \in store.finalized => store.links[r].parent \in store.finalized
             /\ store.links[store.links[r].parent].slot < store.links[r].slot
  <2>1. r \in DOMAIN store.links \ {Anchor}
    BY Zenon, <1>1 DEF Divided
  <2>2. store.links[store.links[r].parent].slot < store.links[r].slot
    BY Zenon, <1>1, <2>1 DEF Rooted
  <2>3. r \in store.finalized => store.links[r].parent \in store.finalized
    BY Zenon, <1>1, <2>1 DEF Divided
  <2>4. ContainsBlock(store, store.links[r].parent)
    BY Zenon, <1>1, <2>3 DEF Attached, ContainsBlock
  <2> QED
    BY Zenon, <2>2, <2>3, <2>4
<1>4. \A id \in DOMAIN store.unfinalized : SegmentIsConsistent(store, id)
  BY Zenon, <1>1, SegmentsAreConsistent DEF Segmented
<1>5. \A r \in Unfinalized(store) :
        \E id \in DOMAIN store.unfinalized : r \in Range(store.unfinalized[id].blocks)
  BY Zenon, <1>1 DEF Segmented
<1> QED
  BY Zenon, <1>2, <1>3, <1>4, <1>5

\* Whatever blocks, votes, slashings, envelopes and verdicts come in whatever
\* order, and however long a validated block waits for the mutator, the tree of
\* insert_block, finalize_blocks and prune_orphans is one.
THEOREM TreeStaysConsistent == Spec => []TreeIsConsistent
<1>1. Init => IndInv
  BY InitHolds
<1>2. IndInv /\ [Next]_vars => IndInv'
  BY NextPreserves DEF Preserves
<1>3. IndInv => TreeIsConsistent
  BY TreesAreConsistent
<1> QED
  BY <1>1, <1>2, <1>3, PTL DEF Spec

\* prune_after_finalization keeps the descendants of the block it has finalized
\* and nothing else, whichever block or tick finalizes and whatever segments the
\* branches are in.
THEOREM PruningStaysExact == Spec => PruningIsExact
<1>1. Init => IndInv
  BY InitHolds
<1>2. IndInv /\ [Next]_vars => IndInv'
  BY NextPreserves DEF Preserves
<1> DEFINE Exact ==
             /\ DescendsFromFinalized'
             /\ store.finalized \subseteq store'.finalized
             /\ \A r \in Unfinalized(store) :
                  LastFinalized(store') \in Chain(store'.links, r) => ContainsBlock(store', r)
<1>3. ASSUME IndInv, [Next]_vars, LastFinalized(store') # LastFinalized(store), ~store'.panic
      PROVE  Exact
  <2>1. IndInv' /\ IsTree(store) /\ Settles(store, store')
    BY <1>3, NextPreserves DEF Preserves
  <2>2. IsTree(store')
    BY Zenon, <1>3, <2>1 DEF IndInv
  <2>3. \A r \in Unfinalized(store') : LastFinalized(store') \in Chain(store'.links, r)
    BY Zenon, <2>1, <2>2, TrimmedDescends DEF Settles
  <2>4. \A r \in Unfinalized(store) :
          LastFinalized(store') \in Chain(store'.links, r) => ContainsBlock(store', r)
    BY Zenon, <2>1, <2>2, SettlesSparesDescendants
  <2> QED
    BY Zenon, <2>1, <2>3, <2>4 DEF DescendsFromFinalized, Settles
<1>4. IndInv /\ [Next]_vars =>
        [LastFinalized(store') # LastFinalized(store) /\ ~store'.panic => Exact]_vars
  BY Zenon, <1>3
<1> QED
  BY <1>1, <1>2, <1>4, PTL DEF Spec, PruningIsExact
=============================================================================
