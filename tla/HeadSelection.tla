---------------------------- MODULE HeadSelection ----------------------------
(***************************************************************************)
(* How the fork choice store selects its head (store.rs): segments are     *)
(* compared where they branch off, from the newest to the oldest, so that  *)
(* the tree is walked once from the leaves instead of from the justified   *)
(* block.  From Gloas on a block is followed by children that build on its *)
(* payload or on its absence, and the segment head is the last block whose *)
(* predecessors all won that decision.                                     *)
(*                                                                         *)
(* Fields of the store used here, besides those of VoteCounting:           *)
(*   boost       proposer_boost_root, or None;                             *)
(*   headSegment head_segment_id, or None;                                 *)
(*   payloads    the blocks whose payload envelope was verified;           *)
(*   ptc         the blocks whose payload the payload timeliness committee *)
(*               found both timely and available (the two bit vectors      *)
(*               above their thresholds);                                  *)
(*   timely      the blocks that came before the payload attestation       *)
(*               deadline of their slot (block_timeliness).                *)
(* Before Gloas a block falls with its payload; from Gloas on the children *)
(* that build on the payload do.                                           *)
(***************************************************************************)
EXTENDS VoteCounting

CONSTANTS Committee,               \* Committee[slot]: the validators that attest in a slot
          ProposerScoreBoost,      \* chain_config.proposer_score_boost, in percent
          ReorgWeightThreshold     \* chain_config.reorg_head_weight_threshold, in percent

MaxGwei == 1000000                 \* Gwei::MAX: above every sum of balances

GenesisEpoch == 0

-----------------------------------------------------------------------------
\* voting_source
VotingSource(s, root) ==
  LET link == s.links[root]
  IN  IF Epoch(s.slot) > Epoch(link.slot) THEN link.unrealizedJustified ELSE link.justified

\* is_block_viable
IsBlockViable(s, root) ==
  LET source == VotingSource(s, root)
      justified == s.justifiedCheckpoint
  IN  /\ \/ justified.epoch = GenesisEpoch
         \/ source.epoch = justified.epoch
         \/ source.epoch + 2 >= Epoch(s.slot)
      /\ \/ s.finalizedCheckpoint.epoch = GenesisEpoch
         \/ Ancestor(s, root, FinalizedSlot(s)) = s.finalizedCheckpoint.root
      /\ \/ justified.epoch = GenesisEpoch
         \/ ~ContainsBlock(s, justified.root)
         \/ Ancestor(s, root, s.links[justified.root].slot) = justified.root

\* Segment::head (resolve_position saturates at the first block)
SegmentHead(segment) ==
  BlockAt(segment, IF segment.head < segment.first THEN segment.first ELSE segment.head)

\* is_payload_invalid
IsPayloadInvalid(s, root) == ContainsBlock(s, root) /\ s.statuses[root] = "invalid"

\* A rejected payload takes a block with it only before Gloas.
FallsWithPayload(s, root) == s.statuses[root] = "invalid" /\ ~PostGloas(s, s.links[root].slot)

\* The last block of a segment that can be the head, or None: the head of the
\* segment, before Gloas last_non_invalid_block.
LastUsable(s, segment) ==
  LET valid == SelectSeq(segment.blocks, LAMBDA r : s.statuses[r] # "invalid")
  IN  IF PostGloas(s, s.links[SegmentHead(segment)].slot) THEN SegmentHead(segment)
      ELSE IF valid = <<>> THEN None ELSE valid[Len(valid)]

-----------------------------------------------------------------------------
BalanceOf(s, validators) == FoldFunctionOnSet(LAMBDA x, y : x + y, 0, s.justifiedBalances, validators)

\* calculate_committee_fraction; timely_proposer_score is one
CommitteeFraction(s, percent) ==
  LET total == BalanceOf(s, Validators)
  IN  ((total \div SlotsPerEpoch) * percent) \div 100

\* is_head_weak
IsHeadWeak(s, root) ==
  LET slashed == Committee[s.links[root].slot] \cap s.equivocating
      extra == BalanceOf(s, slashed)
  IN  DifferenceOf(s.balances, root).pending + extra < CommitteeFraction(s, ReorgWeightThreshold)

\* should_apply_proposer_boost: a weak parent must not be one of two timely
\* blocks of its proposer (a slot has one proposer).
ShouldApplyProposerBoost(s) ==
  /\ s.boost # None
  /\ ContainsBlock(s, s.boost)
  /\ LET link == s.links[s.boost]
         parent == link.parent
     IN  /\ ContainsBlock(s, parent)
         /\ \/ s.links[parent].slot + 1 < link.slot
            \/ /\ parent \in Unfinalized(s) \cup {LastFinalized(s)}
               /\ \/ ~IsHeadWeak(s, parent)
                  \/ ~\E r \in Unfinalized(s) \cap s.timely :
                        r # parent /\ s.links[r].slot = link.slot - 1

\* The boost that update_head_segment_id works with.
ProposerBoost(s) ==
  IF ~PostGloas(s, s.slot) \/ ShouldApplyProposerBoost(s) THEN CommitteeFraction(s, ProposerScoreBoost)
  ELSE 0

\* should_extend_payload
ShouldExtendPayload(s, root) ==
  /\ root \in s.payloads /\ ~IsPayloadInvalid(s, root)
  /\ \/ s.boost = None
     \/ root \in s.ptc
     \/ ContainsBlock(s, s.boost) /\ \/ s.links[s.boost].parent # root
                                     \/ s.links[s.boost].presence = "full"

\* is_previous_slot_payload_decision
IsPreviousSlotPayloadDecision(s, slot, presence) == slot + 1 = s.slot /\ presence # "pending"

\* boosted_payload_presence: the variant of `parent` the boosted block builds on
BoostedPayloadPresence(s, parent) ==
  {s.links[r].presence : r \in {c \in ChainEndingWith(s, s.boost) : s.links[c].parent = parent}}

\* payload_weights
PayloadWeight(s, parent, presence, boost) ==
  LET balances == DifferenceOf(s.balances, parent)
  IN  (IF presence = "empty" THEN balances.empty ELSE balances.full)
      + (IF presence \in BoostedPayloadPresence(s, parent) THEN boost ELSE 0)

\* is_pruned_payload_variant
IsPrunedPayloadVariant(s, root, presence) ==
  /\ root \in Unfinalized(s)
  /\ ~\E c \in Unfinalized(s) : s.links[c].parent = root /\ s.links[c].presence = presence
  /\ ~IsBlockViable(s, root)

\* Mutant of IgnoreChild: whether the parent's payload was rejected is not asked.
IgnoreChild_ByWeight(s, child, parent, boost) ==
  LET presence == s.links[child].presence
      Weight(p) == PayloadWeight(s, parent, p, boost)
  IN  FallsWithPayload(s, child) \/ (presence = "empty" /\ Weight("empty") <= Weight("full"))

\* ignore_child
IgnoreChild(s, child, parent, boost) ==
  LET presence == s.links[child].presence
      Weight(p) == PayloadWeight(s, parent, p, boost)
  IN  \/ FallsWithPayload(s, child)
      \/ presence = "full" /\ IsPayloadInvalid(s, parent)
      \/ IF IsPreviousSlotPayloadDecision(s, s.links[parent].slot, presence)
         THEN (presence = "full") # ShouldExtendPayload(s, parent)
         ELSE
           \/ /\ presence = "empty"
              /\ parent \in s.payloads /\ ~IsPayloadInvalid(s, parent)
              /\ Weight("empty") <= Weight("full")
              /\ ~IsPrunedPayloadVariant(s, parent, "full")
           \/ /\ presence = "full"
              /\ Weight("empty") > Weight("full")
              /\ ~IsPrunedPayloadVariant(s, parent, "empty")

\* is_segment_viable
IsSegmentViable(s, id) ==
  LET segment == s.unfinalized[id]
      first == s.links[FirstBlock(segment)]
      usable == LastUsable(s, segment)
  IN  /\ ~ /\ PostGloas(s, s.slot) /\ IsRoot(s, id)
           /\ \/ first.presence = "full" /\ IsPayloadInvalid(s, first.parent)
              \/ /\ IsPreviousSlotPayloadDecision(s, s.links[first.parent].slot, first.presence)
                 /\ (first.presence = "full") # ShouldExtendPayload(s, first.parent)
      /\ usable # None /\ IsBlockViable(s, usable)

\* update_segment_head: up to the block before the first child to ignore; the
\* head of a segment that has fallen is left as it is.
UpdateSegmentHead(s, id, boost) ==
  LET segment == s.unfinalized[id]
      blocks == segment.blocks
      ignored == {i \in 2..Len(blocks) : IgnoreChild(s, blocks[i], blocks[i - 1], boost)}
      last == IF ignored = {} THEN Len(blocks) ELSE Min(ignored) - 1
  IN  IF FallsWithPayload(s, Head(blocks)) THEN segment
      ELSE [segment EXCEPT !.head = segment.first + last - 1]

-----------------------------------------------------------------------------
\* is_ancestor_of_boosted_block
IsAncestorOfBoosted(s, root) ==
  s.boost # None /\ s.boost \in Unfinalized(s) /\ Ancestor(s, s.boost, s.links[root].slot) = root

\* Mutant of Score: the boost does not count for ancestors.
Score_BoostedOnly(s, root, parent, boost) ==
  <<0, DifferenceOf(s.balances, root).pending + (IF root = s.boost THEN boost ELSE 0), root>>

\* score; `parent` is None for a segment that starts at the finalized block
\* before Gloas
Score(s, root, parent, boost) ==
  LET presence == s.links[root].presence
      payload == IF parent = None \/ presence = "pending" THEN 0
                 ELSE IF IsPreviousSlotPayloadDecision(s, s.links[parent].slot, presence)
                 THEN IF (presence = "full") = ShouldExtendPayload(s, parent) THEN MaxGwei ELSE 0
                 ELSE IF presence = "full" /\ (parent \notin s.payloads \/ IsPayloadInvalid(s, parent)) THEN 0
                 ELSE PayloadWeight(s, parent, presence, boost)
  IN  <<payload,
        DifferenceOf(s.balances, root).pending + (IF IsAncestorOfBoosted(s, root) THEN boost ELSE 0),
        root>>

ScoreLess(a, b) ==
  \E i \in 1..3 : a[i] < b[i] /\ \A j \in 1..(i - 1) : a[j] = b[j]

\* update_head_segment_id: one branch off a segment.  `acc` has the best
\* descendant of the segment so far, and the score of the branch to it if it
\* was reached by comparing scores.
ConsiderBranch(s, id, boost, acc, branch) ==
  LET segment == s.unfinalized[id]
      parent == BlockAt(segment, branch.parent.position)
      sibling == BlockAt(segment, branch.parent.position + 1)
      first == FirstBlock(s.unfinalized[branch.segment])
      score == Score(s, first, parent, boost)
  IN  IF branch.parent.position > segment.head \/ IgnoreChild(s, first, parent, boost) THEN acc
      ELSE IF acc.best = None \/ s.links[SegmentHead(segment)].slot < s.links[sibling].slot
      THEN [acc EXCEPT !.best = branch.best]
      ELSE IF /\ \/ ScoreLess(Score(s, sibling, parent, boost), score)
                 \/ IgnoreChild(s, sibling, parent, boost)
              /\ acc.score = None \/ ScoreLess(acc.score, score)
      THEN [best |-> branch.best, score |-> score]
      ELSE acc

\* update_head_segment_id: the best descendant of a segment, or None.  The heap
\* of BranchPoints leaves open which of two branches off one block is popped
\* first; here it is the one with the greater segment ID.  The order decides
\* nothing where the scores are compared.
BestDescendant(s, id, boost, branches) ==
  LET PoppedAfter(a, b) == \/ a.parent.position < b.parent.position
                           \/ a.parent.position = b.parent.position /\ a.segment <= b.segment
  IN  FoldInOrder(LAMBDA acc, b : ConsiderBranch(s, id, boost, acc, b),
                  [best |-> IF IsSegmentViable(s, id) THEN id ELSE None, score |-> None],
                  {b \in branches : b.parent.segment = id},
                  LAMBDA set : CHOOSE a \in set : \A b \in set : PoppedAfter(a, b)).best

\* update_head_segment_id: a segment with a viable descendant becomes a branch
\* of its parent, or competes with the other segments without one.
PushSegment(s, id, acc, best, score) ==
  IF best = None THEN acc
  ELSE IF ParentLocation(s, id) # {}
  THEN [acc EXCEPT !.branches = @ \cup
          {[parent |-> p, segment |-> id, best |-> best] : p \in ParentLocation(s, id)}]
  ELSE IF acc.score = None \/ ScoreLess(acc.score, score)
  THEN [acc EXCEPT !.best = best, !.score = score]
  ELSE acc

VisitSegment(s, boost, acc, id) ==
  PushSegment(s, id, [acc EXCEPT !.branches = {b \in @ : b.parent.segment # id}],
              BestDescendant(s, id, boost, acc.branches),
              Score(s, FirstBlock(s.unfinalized[id]),
                    IF PostGloas(s, s.slot) THEN LastFinalized(s) ELSE None, boost))

VisitSegments(s, boost) ==
  FoldInOrder(LAMBDA acc, id : VisitSegment(s, boost, acc, id),
              [best |-> None, score |-> None, branches |-> {}], DOMAIN s.unfinalized, Min)

UpdateSegmentHeads(s, boost) ==
  [s EXCEPT !.unfinalized = [id \in DOMAIN @ |-> UpdateSegmentHead(s, id, boost)]]

SetHead(s, found) == [s EXCEPT !.headSegment = found.best, !.panic = @ \/ found.branches # {}]

\* update_head_segment_id
UpdateHeadSegmentId(s) ==
  LET boost == ProposerBoost(s)
      t == UpdateSegmentHeads(s, boost)
  IN  SetHead(t, VisitSegments(t, boost))

\* unfinalized_head, or None
UnfinalizedHead(s) ==
  IF s.headSegment = None THEN None ELSE LastUsable(s, s.unfinalized[s.headSegment])

\* head
HeadOf(s) ==
  IF UnfinalizedHead(s) # None THEN UnfinalizedHead(s)
  ELSE IF ContainsBlock(s, s.justifiedCheckpoint.root) THEN s.justifiedCheckpoint.root
  ELSE Anchor

\* is_poisoned, of a store with unfinalized blocks
IsPoisoned(s) ==
  \A id \in DOMAIN s.unfinalized :
    LET last == LastBlock(s.unfinalized[id]) IN IsBlockViable(s, last) => FallsWithPayload(s, last)

\* The assertions of head, for a store whose anchor is the genesis block.
HeadAsserts(s) ==
  /\ s.headSegment # None => s.headSegment \in DOMAIN s.unfinalized
  /\ UnfinalizedHead(s) = None =>
       /\ PostGloas(s, s.slot) \/ \A id \in DOMAIN s.unfinalized : ~IsSegmentViable(s, id)
       /\ DOMAIN s.unfinalized = {} => s.finalized = {Anchor}
       /\ DOMAIN s.unfinalized # {} /\ ~PostGloas(s, s.slot) => IsPoisoned(s)
=============================================================================
