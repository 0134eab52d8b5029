------------------------------ MODULE BlockTree ------------------------------
(***************************************************************************)
(* The block tree of the fork choice store: fork_choice_store/src/store.rs *)
(* and segment.rs.  Finalized blocks form a list.  Unfinalized blocks are  *)
(* kept in segments, runs of blocks each of which is the first child of    *)
(* the one before; a later child starts a segment of its own.              *)
(*                                                                         *)
(* The operators take the store as a record s, as the methods take self,   *)
(* and those that change it return the new store.  Of its fields the tree  *)
(* uses                                                                    *)
(*   links        the chain link of every block ever inserted, by root;    *)
(*   statuses     what is known of the payload of each of them: "valid",   *)
(*                "invalid" or "optimistic";                               *)
(*   finalized    the roots of the finalized blocks;                       *)
(*   lastFinalized  the last of them;                                      *)
(*   unfinalized  the segments by ID: blocks, first_position and           *)
(*                head_position;                                           *)
(*   locations    unfinalized_locations: the segment and position by root; *)
(*   payloadLocations  execution_payload_locations, by block root in place *)
(*                of the execution block hash;                             *)
(*   balances     the attesting balances of the unfinalized blocks, and    *)
(*                those of the last finalized one if it has an entry;      *)
(*   finalizedCheckpoint;                                                  *)
(*   gloas        the first slot of the Gloas phase (chain_config);        *)
(*   panic        an assertion or expect of the code has failed.           *)
(***************************************************************************)
EXTENDS Integers, Sequences, FiniteSetsExt, Functions

CONSTANT SlotsPerEpoch    \* P::SlotsPerEpoch

Anchor == 0               \* the anchor block's root

NoBalance == [pending |-> 0, empty |-> 0, full |-> 0]

Epoch(slot) == slot \div SlotsPerEpoch
StartOf(epoch) == epoch * SlotsPerEpoch
PostGloas(s, slot) == slot >= s.gloas

\* Maps, as functions: insertion and removal.
Bind(f, key, value) == [k \in DOMAIN f \cup {key} |-> IF k = key THEN value ELSE f[k]]
Without(f, gone) == Restrict(f, DOMAIN f \ gone)

-----------------------------------------------------------------------------
LastFinalized(s) == s.lastFinalized

Unfinalized(s) == DOMAIN s.locations

\* contains_block; chain_link finds the same blocks
ContainsBlock(s, root) == root \in Unfinalized(s) \/ root \in s.finalized

\* finalized_slot
FinalizedSlot(s) == StartOf(s.finalizedCheckpoint.epoch)

\* Segment: the root at a position, the last position, and the blocks at the ends
BlockAt(segment, position) == segment.blocks[position - segment.first + 1]
LastPosition(segment) == segment.first + Len(segment.blocks) - 1
FirstBlock(segment) == Head(segment.blocks)
LastBlock(segment) == BlockAt(segment, LastPosition(segment))

\* parent_location, or {} for None
ParentLocation(s, id) ==
  LET parent == s.links[FirstBlock(s.unfinalized[id])].parent
  IN  {s.locations[r] : r \in {parent} \cap Unfinalized(s)}

\* is_root
IsRoot(s, id) == s.links[FirstBlock(s.unfinalized[id])].parent = LastFinalized(s)

\* unfinalized_chain_ending_with: the unfinalized blocks from `root` down
ChainEndingWith(s, root) ==
  LET chain[r \in Unfinalized(s)] ==
        {r} \cup (IF s.links[r].parent \in Unfinalized(s) THEN chain[s.links[r].parent] ELSE {})
  IN  IF root \in Unfinalized(s) THEN chain[root] ELSE {}

Latest(s, roots) == CHOOSE r \in roots : \A q \in roots : s.links[q].slot <= s.links[r].slot

\* ancestor: the last block of the chain that ends with `root` up to a slot.
\* The finalized blocks are taken to be the rest of every chain; the anchor's
\* slot is the least there is.
Ancestor(s, root, slot) ==
  LET UpTo(roots) == {r \in roots : s.links[r].slot <= slot}
      unfinalized == UpTo(ChainEndingWith(s, root))
  IN  Latest(s, IF unfinalized # {} THEN unfinalized ELSE UpTo(s.finalized))

\* The chain of a block down to the anchor, whether or not it is still in the
\* store.
Chain(links, root) ==
  LET chain[r \in DOMAIN links] == {r} \cup (IF r = Anchor THEN {} ELSE chain[links[r].parent])
  IN  chain[root]

-----------------------------------------------------------------------------
\* lowest_unused_segment_id: one more than the greatest ID in use
LowestUnusedSegmentId(s) == IF DOMAIN s.unfinalized = {} THEN 1 ELSE 1 + Max(DOMAIN s.unfinalized)

\* is_block_invalid: the block builds on a rejected payload, or on a block
\* that does; a block whose own payload was rejected can still be built on.
IsBlockInvalid(s, root) ==
  LET dead[r \in Unfinalized(s)] ==
        LET link == s.links[r]
        IN  /\ s.statuses[r] = "invalid"
            /\ link.parent \in Unfinalized(s)
            /\ \/ link.presence # "empty" /\ s.statuses[link.parent] = "invalid"
               \/ dead[link.parent]
  IN  root \in Unfinalized(s) /\ dead[root]

\* insert_block, with the assertion of apply_block that the block is new: a
\* block on a rejected payload is rejected with it.
InsertBlock(s, root, link, status) ==
  LET parent == {s.locations[r] : r \in {link.parent} \cap Unfinalized(s)}
      extends == {at.segment : at \in {l \in parent : l.position = LastPosition(s.unfinalized[l.segment])}}
      id == IF extends # {} THEN CHOOSE i \in extends : TRUE ELSE LowestUnusedSegmentId(s)
      segment == IF extends # {} THEN [s.unfinalized[id] EXCEPT !.blocks = Append(@, root)]
                 ELSE [blocks |-> <<root>>, first |-> 0, head |-> 0]
      location == [segment |-> id, position |-> LastPosition(segment)]
      rejected == /\ parent # {} /\ s.statuses[link.parent] = "invalid"
                  /\ link.presence # "empty" \/ IsBlockInvalid(s, link.parent)
  IN  [s EXCEPT !.links = Bind(@, root, link),
                !.statuses = Bind(@, root, IF rejected THEN "invalid" ELSE status),
                !.unfinalized = Bind(@, id, segment),
                !.locations = Bind(@, root, location),
                !.payloadLocations = IF PostGloas(s, link.slot) THEN @ ELSE Bind(@, root, location),
                !.balances = Bind(@, root, NoBalance),
                !.panic = @ \/ ContainsBlock(s, root) \/ (parent = {} /\ link.parent \notin s.finalized)]

-----------------------------------------------------------------------------
\* finalize_blocks with move_to_finalized: the segments on the way to the
\* finalized block are dissolved, what hangs off them there is orphaned, and
\* the segment of the finalized block goes on after it.
FinalizeBlocks(s) ==
  LET root == s.finalizedCheckpoint.root
      path == ChainEndingWith(s, root)
      last == s.locations[root].segment
      complete == {s.locations[r].segment : r \in path} \ {last}
      orphaned == (UNION {Range(s.unfinalized[id].blocks) : id \in complete}) \ path
      segment == s.unfinalized[last]
      next == s.locations[root].position + 1
      remaining == SubSeq(segment.blocks, next - segment.first + 1, Len(segment.blocks))
      kept == [segment EXCEPT !.blocks = remaining, !.first = next]
  IN  [s EXCEPT !.finalized = @ \cup path,
                !.lastFinalized = root,
                !.unfinalized = Bind(Without(@, complete), last, kept),
                !.locations = Without(@, path \cup orphaned),
                !.payloadLocations = Without(@, path),
                !.balances = Without(@, orphaned),
                !.panic = @ \/ remaining = <<>>
                            \/ \E id \in complete : Range(s.unfinalized[id].blocks) \subseteq path]

\* Mutant of ShouldPrune: a segment whose parent is not in a segment any more stays.
ShouldPrune_KeepsDetached(s, id, at) ==
  /\ ~IsRoot(s, id)
  /\ \E parent \in ParentLocation(s, id) : parent.segment = at.segment /\ parent.position < at.position

\* should_prune_segment, after the blocks up to `at` have been finalized
ShouldPrune(s, id, at) ==
  /\ ~IsRoot(s, id)
  /\ \A parent \in ParentLocation(s, id) : parent.segment = at.segment /\ parent.position < at.position

\* Mutant of RemoveSegments: the blocks' locations stay.
RemoveSegments_KeepsLocations(s, ids) ==
  LET orphaned == UNION {Range(s.unfinalized[id].blocks) : id \in ids}
  IN  [s EXCEPT !.unfinalized = Without(@, ids), !.balances = Without(@, orphaned)]

\* remove_orphaned, of the blocks of whole segments
RemoveSegments(s, ids) ==
  LET orphaned == UNION {Range(s.unfinalized[id].blocks) : id \in ids}
  IN  [s EXCEPT !.unfinalized = Without(@, ids),
                !.locations = Without(@, orphaned),
                !.balances = Without(@, orphaned)]

\* prune_orphans with next_segment: segments are looked at in the order of their
\* IDs, each when those pruned before it are gone.
PruneOrphans(s, at) ==
  LET ids == DOMAIN s.unfinalized
  IN  RemoveSegments(s, CHOOSE gone \in SUBSET ids :
                          \A id \in ids : id \in gone <=>
                            ShouldPrune(RemoveSegments(s, {g \in gone : g < id}), id, at))

\* Mutant of PruneAfterFinalization: no finalized block keeps its balances.
PruneAfterFinalization_DropsLast(s) ==
  LET root == s.finalizedCheckpoint.root
      t == IF root \in Unfinalized(s) THEN PruneOrphans(FinalizeBlocks(s), s.locations[root]) ELSE s
  IN  [t EXCEPT !.balances = Restrict(@, DOMAIN @ \cap Unfinalized(t)), !.payloads = @ \cap Unfinalized(t)]

\* prune_after_finalization: of the finalized blocks' balances only the last
\* one's are kept, and the verified payloads of the blocks that are left.  A
\* new finalized checkpoint need not finalize a new block.
PruneAfterFinalization(s) ==
  LET root == s.finalizedCheckpoint.root
      t == IF root \in Unfinalized(s) THEN PruneOrphans(FinalizeBlocks(s), s.locations[root]) ELSE s
      kept == Unfinalized(t) \cup {LastFinalized(t)}
  IN  [t EXCEPT !.balances = Restrict(@, DOMAIN @ \cap kept), !.payloads = @ \cap kept]
=============================================================================
