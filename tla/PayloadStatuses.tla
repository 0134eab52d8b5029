--------------------------- MODULE PayloadStatuses ---------------------------
(***************************************************************************)
(* What the verdicts of the execution engine do to the blocks of the fork  *)
(* choice store (store.rs, optimistic sync).  A verdict names one payload  *)
(* and may tell the latest valid one under it; payloads are named by the   *)
(* root of their block in place of their hash.  A child builds on the      *)
(* payload of its parent unless its presence is "empty".                   *)
(*                                                                         *)
(* The methods end by updating the head.  Statuses do not depend on the    *)
(* head, so of several in a row only the last has to: see Refresh.         *)
(***************************************************************************)
EXTENDS HeadSelection

SetStatus(s, roots, status) ==
  [s EXCEPT !.statuses = [r \in DOMAIN @ |-> IF r \in roots THEN status ELSE @[r]]]

Located(s) == DOMAIN s.payloadLocations

\* set_block_payload_status finds a block through its payload's location.
BlocksOf(s, hashes) ==
  {LET at == s.payloadLocations[h] IN BlockAt(s.unfinalized[at.segment], at.position) :
     h \in hashes \cap Located(s)}

BlockOf(s, hash) == CHOOSE r \in BlocksOf(s, {hash}) : TRUE

\* The payloads that a block builds on, among the unfinalized.
PayloadsUnder(s, root) ==
  {s.links[c].parent : c \in {c \in ChainEndingWith(s, root) : s.links[c].presence # "empty"}}
    \cap Unfinalized(s)

\* set_block_ancestor_payload_statuses
SetAncestors(s, hash, status) ==
  LET t == SetStatus(s, BlocksOf(s, PayloadsUnder(s, BlockOf(s, hash))), status)
  IN  IF t.statuses[LastFinalized(t)] = status THEN t
      ELSE SetStatus(t, t.finalized, status)

\* empty_node_payload_status: of the latest payload under the block, its own
\* left out
EmptyNodeStatus(s, root) ==
  LET last == s.statuses[LastFinalized(s)]
      status[r \in Unfinalized(s)] ==
        LET link == s.links[r]
        IN  IF link.presence # "empty"
            THEN IF ContainsBlock(s, link.parent) THEN s.statuses[link.parent] ELSE last
            ELSE IF link.parent \in Unfinalized(s) THEN status[link.parent] ELSE last
  IN  IF root \in Unfinalized(s) THEN status[root] ELSE last

\* initial_payload_status, after the merge
InitialPayloadStatus(s, parent, slot, presence) ==
  IF ~PostGloas(s, slot) THEN "optimistic"
  ELSE IF IsBlockInvalid(s, parent) THEN "invalid"
  ELSE IF presence = "empty" THEN EmptyNodeStatus(s, parent)
  ELSE s.statuses[parent]

\* validate_inherited_payload_statuses
ValidateInherited(s) ==
  SetStatus(s, {r \in Unfinalized(s) : /\ PostGloas(s, s.links[r].slot)
                                       /\ s.statuses[r] = "optimistic"
                                       /\ r \notin s.payloads
                                       /\ EmptyNodeStatus(s, r) = "valid"}, "valid")

\* unfinalized_execution_chain_hashes
ExecutionChain(s, ancestor, root) ==
  LET chain == {r \in ChainEndingWith(s, root) : ~PostGloas(s, s.links[r].slot)}
  IN  IF ancestor \in chain THEN {r \in chain : s.links[r].slot > s.links[ancestor].slot} ELSE {}

\* unfinalized_post_gloas_payload_block_roots
PostGloasPayloads(s, ancestor, root) ==
  IF ancestor \notin ChainEndingWith(s, root) \ {root} THEN {}
  ELSE {r \in PayloadsUnder(s, root) : /\ PostGloas(s, s.links[r].slot)
                                       /\ s.links[r].slot > s.links[ancestor].slot}

Earliest(s, roots) == CHOOSE r \in roots : \A q \in roots : s.links[r].slot <= s.links[q].slot

\* Mutant of Invalidate: a child that builds on the absence of the payload falls too.
Invalidate_WithEmpty(s, root) ==
  SetStatus(s, {r \in Unfinalized(s) : root \in ChainEndingWith(s, r)}, "invalid")

\* invalidate_payload_and_descendant_payloads, which finds nothing to do for a
\* finalized block
Invalidate(s, root) ==
  LET built == {r \in Unfinalized(s) :
                  /\ root \in ChainEndingWith(s, r)
                  /\ \E c \in ChainEndingWith(s, r) : s.links[c].parent = root /\ s.links[c].presence # "empty"}
  IN  SetStatus(s, ({root} \cap Unfinalized(s)) \cup built, "invalid")

\* update_chain_payload_statuses: what lies between the block's payload and
\* the latest valid one is rejected from the bottom up
RejectBetween(s, valid, hash) ==
  LET block == BlockOf(s, hash)
      before == ExecutionChain(s, valid, block)
      after == PostGloasPayloads(s, valid, block)
      first == Earliest(s, before)
      descendants == UNION {ExecutionChain(s, first, LastBlock(s.unfinalized[id])) : id \in DOMAIN s.unfinalized}
      t == IF before = {} THEN s ELSE SetStatus(s, BlocksOf(s, {first} \cup descendants), "invalid")
  IN  IF after = {} THEN t ELSE Invalidate(t, Earliest(t, after))

\* update_chain_payload_statuses: the new store, and the payload to wait for
\* or None; the head is updated unless there is one.
UpdateChainPayloadStatuses(s, valid, hash) ==
  LET t == ValidateInherited(SetAncestors(SetStatus(s, BlocksOf(s, {valid}), "valid"), valid, "valid"))
  IN  IF valid \notin Located(s) THEN [store |-> s, wait |-> valid]
      ELSE IF hash = valid THEN [store |-> t, wait |-> None]
      ELSE IF hash \notin Located(s) THEN [store |-> t, wait |-> hash]
      ELSE [store |-> RejectBetween(t, valid, hash), wait |-> None]

Refresh(s, stale) == IF stale THEN UpdateHeadSegmentId(s) ELSE s
=============================================================================
