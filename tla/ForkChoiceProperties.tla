------------------------- MODULE ForkChoiceProperties -------------------------
(***************************************************************************)
(* What the fork choice store promises.  The store keeps its tree, its     *)
(* vote sums and its head incrementally; the properties compare them with  *)
(* definitions that start from the blocks and the latest messages alone.   *)
(***************************************************************************)
EXTENDS ForkChoice

CheckpointType == [epoch : Nat, root : instance.roots \cup {Anchor}]

\* Type invariant of the store (struct Store, struct Segment).
TypeOK ==
  /\ DOMAIN store.links \subseteq instance.roots \cup {Anchor}
  /\ {store.justifiedCheckpoint, store.finalizedCheckpoint} \subseteq CheckpointType
  /\ \A r \in DOMAIN store.balances : \A f \in {"pending", "empty", "full"} : store.balances[r][f] >= 0
  /\ \A id \in DOMAIN store.unfinalized : store.unfinalized[id].head <= LastPosition(store.unfinalized[id])
  /\ store.slot \in 0..MaxSlot /\ store.interval \in 0..instance.interval
  /\ store.headSegment \in {None} \cup DOMAIN store.unfinalized
  /\ store.equivocating \subseteq Validators

-----------------------------------------------------------------------------
\* The blocks of a segment are found through their locations, are parents and
\* children of one another, and go on to a block without children, so a fork
\* never hides in the middle of a segment; a segment is numbered after the one
\* it branches off, which the walks in ID order rely on.
SegmentIsConsistent(s, id) ==
  LET segment == s.unfinalized[id]
      blocks == segment.blocks
  IN  /\ blocks # <<>>
      /\ \A i \in 1..Len(blocks) :
           /\ blocks[i] \in Unfinalized(s)
           /\ s.locations[blocks[i]] = [segment |-> id, position |-> segment.first + i - 1]
           /\ i > 1 => s.links[blocks[i]].parent = blocks[i - 1]
      /\ \A r \in Unfinalized(s) : s.links[r].parent # blocks[Len(blocks)]
      /\ \A parent \in ParentLocation(s, id) : parent.segment < id

\* Unless an assertion has failed, the tree that insert_block, finalize_blocks
\* and prune_orphans maintain is one: a block is finalized, or in one place of
\* one segment, and not both, whatever the interleaving of validation and
\* application of blocks; its parent is in the store too, with an earlier slot
\* (chain_link(parent) never fails for a block of the store), and the parent of
\* a finalized block is finalized.
TreeIsConsistent ==
  ~store.panic =>
    /\ Unfinalized(store) \cup store.finalized \subseteq DOMAIN store.links
    /\ Unfinalized(store) \cap store.finalized = {}
    /\ {Anchor, LastFinalized(store)} \subseteq store.finalized
    /\ \A r \in Unfinalized(store) \cup (store.finalized \ {Anchor}) :
         LET parent == store.links[r].parent
         IN  /\ ContainsBlock(store, parent)
             /\ r \in store.finalized => parent \in store.finalized
             /\ store.links[parent].slot < store.links[r].slot
    /\ \A r \in Unfinalized(store) :
         \E id \in DOMAIN store.unfinalized : r \in Range(store.unfinalized[id].blocks)
    /\ \A id \in DOMAIN store.unfinalized : SegmentIsConsistent(store, id)

\* The finalized blocks are a chain that ends with the block of the finalized
\* checkpoint, however checkpoints are pulled up and blocks dropped, and the
\* justified block is in the store (head falls back to it).
CheckpointsAreHeld ==
  /\ TypeOK
  /\ store.finalized = Chain(store.links, LastFinalized(store))
  /\ LastFinalized(store) = store.finalizedCheckpoint.root
  /\ ContainsBlock(store, store.justifiedCheckpoint.root)

\* Every block that is not finalized descends from the last finalized block:
\* what prune_after_finalization leaves behind.  It is not an invariant, as
\* accept_block takes a late block whose parent is finalized by now, and so in
\* the store, but is not the last finalized block.
DescendsFromFinalized ==
  \A r \in Unfinalized(store) : LastFinalized(store) \in Chain(store.links, r)

\* Pruning is exact.  A step that finalizes a block, and in which no assertion
\* fails, leaves nothing but its descendants: prune_after_finalization finds every
\* branch it cuts off, whatever segments they are in (should_prune_segment).  And
\* it loses none of the descendants, and no finalized block, although whole
\* segments go and others are cut.
PruningIsExact ==
  [][LastFinalized(store') # LastFinalized(store) /\ ~store'.panic =>
       /\ DescendsFromFinalized'
       /\ store.finalized \subseteq store'.finalized
       /\ \A r \in Unfinalized(store) :
            LastFinalized(store') \in Chain(store'.links, r) => ContainsBlock(store', r)]_vars

\* No assertion or expect of the store fails: neither those of apply_block,
\* insert_block, finalize_blocks and update_head_segment_id nor those that head
\* will evaluate next.
NoPanic == ~store.panic /\ HeadAsserts(store)

-----------------------------------------------------------------------------
\* The balance behind a block: that of the validators that have not been
\* slashed and whose latest message is for the block or a descendant.
Counted(r) ==
  {v \in Validators \ store.equivocating :
     /\ store.messages[v] # None
     /\ ContainsBlock(store, store.messages[v].root)
     /\ r \in Chain(store.links, store.messages[v].root)}

SumOf(validators) == BalanceOf(store, validators)

\* The balance behind one payload status of a block: votes for descendants
\* through a child that builds on that status, and votes for the block itself
\* from a later slot.
CountedFor(r, status) ==
  {v \in Counted(r) :
     LET message == store.messages[v]
     IN  IF message.root = r
         THEN /\ PostGloas(store, message.slot)
              /\ store.links[r].slot < message.slot
              /\ message.payload = (status = "full")
         ELSE \E c \in Chain(store.links, message.root) :
                store.links[c].parent = r /\ store.links[c].presence = status}

WithBalances == Unfinalized(store) \cup {LastFinalized(store)}

\* The incremental vote sums are exact: whatever the order of votes, changes of
\* vote, slashings, changes of the justified balances, new blocks and pruning,
\* apply_balance_differences leaves each block with the balance behind it.
BalancesMatchVotes ==
  \A r \in WithBalances : DifferenceOf(store.balances, r).pending = SumOf(Counted(r))

\* The same of the balances behind the two payload statuses of a block.
PayloadBalancesMatchVotes ==
  \A r \in WithBalances :
    /\ DifferenceOf(store.balances, r).empty = SumOf(CountedFor(r, "empty"))
    /\ DifferenceOf(store.balances, r).full = SumOf(CountedFor(r, "full"))

\* checked_add_balance: "attesting balance should never go below zero".
NeverBelowZero == store.negative = {}

-----------------------------------------------------------------------------
\* LMD GHOST from its definition, before Gloas: from the justified block down
\* the children that lead to a viable leaf, to the one with most balance behind
\* it, the proposer boost included, and the greatest root among equals.  Blocks
\* whose payload was rejected are not there.
Present == {r \in Unfinalized(store) : store.statuses[r] # "invalid"}

Children(r) == {c \in Present : store.links[c].parent = r}

LeadsToViable(r) ==
  \E leaf \in Present :
    /\ Children(leaf) = {}
    /\ r \in Chain(store.links, leaf)
    /\ IsBlockViable(store, leaf)

Weight(r) ==
  SumOf(Counted(r)) +
  IF store.boost # None /\ ContainsBlock(store, store.boost) /\ r \in Chain(store.links, store.boost)
  THEN CommitteeFraction(store, ProposerScoreBoost) ELSE 0

GhostHead ==
  LET viable == {r \in Present : LeadsToViable(r)}
      Best(r) == CHOOSE c \in Children(r) \cap viable :
                   \A d \in (Children(r) \cap viable) \ {c} :
                     Weight(c) > Weight(d) \/ (Weight(c) = Weight(d) /\ c > d)
      walk[n \in 0..Cardinality(instance.roots)] ==
        IF n = 0 THEN store.justifiedCheckpoint.root
        ELSE LET r == walk[n - 1] IN IF Children(r) \cap viable = {} THEN r ELSE Best(r)
  IN  walk[Cardinality(instance.roots)]

\* No leaf has dropped out and no two siblings are equally heavy.
Decided ==
  /\ \A leaf \in Present : Children(leaf) = {} => IsBlockViable(store, leaf)
  /\ \A a, b \in Present :
       store.links[a].parent = store.links[b].parent => a = b \/ Weight(a) # Weight(b)

\* update_head_segment_id, which compares segments pairwise from the newest to
\* the oldest, finds the head of LMD GHOST in a decided tree (head: "Corresponds
\* to get_head from the Fork Choice specification"), also when verdicts of the
\* execution engine have cut branches off, before Gloas.
DecidedHeadIsGhostHead ==
  ~PostGloas(store, MaxSlot) /\ Decided => HeadOf(store) = GhostHead

\* The head of a decided tree is up to date after every step: what apply_tick
\* and apply_block do after update_head_segment_id (pruning, which turns branches
\* off a block into segments of their own) does not change the outcome, and no
\* other method needs to call it, before Gloas.
HeadIsCurrent ==
  ~PostGloas(store, MaxSlot) /\ Decided => HeadOf(UpdateHeadSegmentId(store)) = HeadOf(store)

-----------------------------------------------------------------------------
\* A payload status has a cause: a rejected block has a rejected payload or
\* builds on one, and a valid one has a payload the engine approved, or has none
\* yet and builds on an approved one.  However verdicts, blocks and envelopes
\* overtake one another, update_chain_payload_statuses and
\* invalidate_payload_and_descendant_payloads judge no other branch, nor a block
\* that leaves the rejected payload behind.
StatusesAreTrue ==
  LET rejected == Rejected
      approved == Approved
  IN  \A r \in Unfinalized(store) :
        LET link == store.links[r]
            own == IF PostGloas(store, link.slot) /\ r \notin store.payloads THEN {r} ELSE {}
        IN  /\ store.statuses[r] = "invalid" => ExecutionPayloads(r) \cap rejected # {}
            /\ store.statuses[r] = "valid" => ExecutionPayloads(r) \ own \subseteq approved \cup {Anchor}

\* No verdict is lost: neither one that comes before its block (delayed_until_block),
\* nor one that comes before its payload (delayed_until_payload), nor a rejection
\* of the parent while a child is validated (insert_block).  A payload that was
\* approved is valid, one that was rejected is invalid, with all between it and
\* the latest valid one and every block that builds on them.
VerdictsAreKept ==
  /\ \A a \in answers :
       /\ a.root \in Unfinalized(store) /\ ~a.valid => store.statuses[a.root] = "invalid"
       /\ {a.root, a.latest} \subseteq Located(store) =>
            /\ a.valid => store.statuses[a.root] = "valid"
            /\ ~a.valid => \A r \in RejectedBy(a) : store.statuses[r] = "invalid"
  /\ \A c \in Unfinalized(store) :
       LET parent == store.links[c].parent
       IN  /\ parent \in Unfinalized(store)
           /\ IsPayloadInvalid(store, parent)
           /\ store.links[c].presence # "empty" \/ IsBlockInvalid(store, parent)
           => store.statuses[c] = "invalid"

\* The head has not fallen: before Gloas its payload was not rejected, from Gloas
\* on it does not build on a rejected payload (is_block_invalid), whatever the
\* votes, unless nothing else is left than the justified block.
HeadIsSound ==
  LET head == HeadOf(store)
  IN  head # store.justifiedCheckpoint.root =>
        ~FallsWithPayload(store, head) /\ ~IsBlockInvalid(store, head)
=============================================================================
