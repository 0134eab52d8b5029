---------------------------- MODULE BlockTreeProofs ----------------------------
(***************************************************************************)
(* What the operations of BlockTree do to a consistent tree, for every     *)
(* tree and every number of blocks.                                        *)
(***************************************************************************)
EXTENDS BlockTree, WellFoundedInduction, TLAPS

\* Every block ever inserted but the anchor has an earlier parent.
Rooted(s) ==
  /\ Anchor \in DOMAIN s.links
  /\ \A r \in DOMAIN s.links : s.links[r].slot \in Nat
  /\ \A r \in DOMAIN s.links \ {Anchor} :
       /\ s.links[r].parent \in DOMAIN s.links
       /\ s.links[s.links[r].parent].slot < s.links[r].slot

\* A block is finalized or not, and the parents of finalized blocks are.
Divided(s) ==
  /\ Anchor \in s.finalized /\ LastFinalized(s) \in s.finalized
  /\ s.finalized \subseteq DOMAIN s.links
  /\ Unfinalized(s) \subseteq DOMAIN s.links
  /\ Unfinalized(s) \cap s.finalized = {}
  /\ \A r \in s.finalized \ {Anchor} : s.links[r].parent \in s.finalized

\* No block of the store has lost its parent.
Attached(s) == \A r \in Unfinalized(s) : ContainsBlock(s, s.links[r].parent)

\* A segment is a run of parents and children up to a block without children,
\* and comes after the segment it branches off.
IsSegment(s, id) ==
  LET segment == s.unfinalized[id]
      blocks == segment.blocks
  IN  /\ DOMAIN segment = {"blocks", "first", "head"}
      /\ segment.first \in Nat
      /\ blocks \in Seq(DOMAIN s.links) /\ blocks # <<>>
      /\ \A i \in 1..Len(blocks) :
           /\ blocks[i] \in Unfinalized(s)
           /\ s.locations[blocks[i]] = [segment |-> id, position |-> segment.first + i - 1]
      /\ \A i \in 2..Len(blocks) : s.links[blocks[i]].parent = blocks[i - 1]
      /\ \A r \in Unfinalized(s) : s.links[r].parent # blocks[Len(blocks)]
      /\ \A r \in {s.links[blocks[1]].parent} \cap Unfinalized(s) : s.locations[r].segment < id

\* The segments are well-formed, finitely many, and hold every unfinalized block.
Segmented(s) ==
  /\ \E n \in Nat : DOMAIN s.unfinalized \subseteq 1..n
  /\ \A id \in DOMAIN s.unfinalized : IsSegment(s, id)
  /\ \A r \in Unfinalized(s) :
       \E id \in DOMAIN s.unfinalized : r \in Range(s.unfinalized[id].blocks)

\* What insert_block, finalize_blocks and prune_orphans rely on and maintain.
IsTree(s) == Rooted(s) /\ Divided(s) /\ Attached(s) /\ Segmented(s)

-----------------------------------------------------------------------------
\* A set of natural numbers has a least one.
LEMMA LeastNatural ==
  ASSUME NEW T, T \subseteq Nat, T # {}
  PROVE  \E x \in T : \A y \in T : x <= y
<1> DEFINE R == OpToRel(<, Nat)
<1>1. IsWellFoundedOn(R, Nat)
  BY Zenon, NatLessThanWellFounded
<1>2. \A x, y \in Nat : <<y, x>> \in R <=> y < x
  BY Zenon DEF OpToRel
<1> HIDE DEF R
<1>3. PICK x \in T : \A y \in T : ~ (<<y, x>> \in R)
  BY Zenon, <1>1, WFMin
<1>4. \A y \in T : ~(y < x)
  BY Zenon, <1>2, <1>3
<1> QED
  BY <1>4

\* A bounded set of natural numbers has a greatest one, which is its Max.
LEMMA GreatestNatural ==
  ASSUME NEW n \in Nat, NEW T, T \subseteq 1..n, T # {}
  PROVE  Max(T) \in T /\ \A y \in T : y <= Max(T)
<1> DEFINE D == {k \in Nat : \E x \in T : k = n - x}
<1>1. PICK x0 : x0 \in T
  OBVIOUS
<1>2. n - x0 \in D
  BY <1>1
<1>3. PICK k \in D : \A l \in D : k <= l
  BY Zenon, <1>2, LeastNatural
<1>4. PICK x \in T : k = n - x
  OBVIOUS
<1>5. \A y \in T : y <= x
  <2> SUFFICES ASSUME NEW y \in T PROVE y <= x
    OBVIOUS
  <2>1. n - y \in D
    OBVIOUS
  <2> QED
    BY <1>3, <1>4, <2>1
<1>6. \E m \in T : \A y \in T : m >= y
  BY <1>5
<1>7. Max(T) \in T /\ \A y \in T : Max(T) >= y
  BY Zenon, <1>6 DEF Max
<1> QED
  BY <1>7

-----------------------------------------------------------------------------
(***************************************************************************)
(* The chain of a block                                                    *)
(***************************************************************************)

\* What unfinalized_chain_ending_with walks.
IsChain(s, chain) ==
  chain = [r \in Unfinalized(s) |->
             {r} \cup (IF s.links[r].parent \in Unfinalized(s) THEN chain[s.links[r].parent] ELSE {})]

\* There is such a function: the least set that has a block and the parents of
\* its members.
LEMMA ChainExists ==
  ASSUME NEW s
  PROVE  \E chain : IsChain(s, chain)
<1> DEFINE U == Unfinalized(s)
           Par(r) == s.links[r].parent
           Closed(T) == \A x \in T : Par(x) \in U => Par(x) \in T
           Least(r) == {q \in U : \A T \in SUBSET U : r \in T /\ Closed(T) => q \in T}
           chain == [r \in U |-> Least(r)]
<1>1. \A r \in U : r \in Least(r) /\ Least(r) \subseteq U
  OBVIOUS
<1>2. \A r \in U : Closed(Least(r))
  OBVIOUS
<1>3. ASSUME NEW r \in U, Par(r) \in U
      PROVE  Least(r) = {r} \cup Least(Par(r))
  <2>1. {r} \cup Least(Par(r)) \subseteq Least(r)
    BY <1>3
  <2>2. Closed({r} \cup Least(Par(r)))
    BY <1>1, <1>2, <1>3
  <2>3. {r} \cup Least(Par(r)) \in SUBSET U
    BY <1>1, <1>3
  <2>4. Least(r) \subseteq {r} \cup Least(Par(r))
    BY Zenon, <2>2, <2>3
  <2> QED
    BY Zenon, <2>1, <2>4
<1>4. ASSUME NEW r \in U, Par(r) \notin U
      PROVE  Least(r) = {r}
  <2>1. Closed({r})
    BY <1>4
  <2>2. Least(r) \subseteq {r}
    BY Zenon, <2>1
  <2>3. r \in Least(r)
    BY Zenon, <1>1
  <2> HIDE DEF Least
  <2> QED
    BY Zenon, <2>2, <2>3
<1> HIDE DEF Least
<1>5. \A r \in U : Least(r) = {r} \cup (IF Par(r) \in U THEN chain[Par(r)] ELSE {})
  BY <1>3, <1>4
<1>6. chain = [r \in U |-> {r} \cup (IF Par(r) \in U THEN chain[Par(r)] ELSE {})]
  BY Zenon, <1>5
<1> QED
  BY Zenon, <1>6 DEF IsChain

\* unfinalized_chain_ending_with is the chain that its recursion describes.
LEMMA ChainIsChain ==
  ASSUME NEW s, NEW root \in Unfinalized(s)
  PROVE  \E chain : IsChain(s, chain) /\ ChainEndingWith(s, root) = chain[root]
  BY Zenon, ChainExists DEF IsChain, ChainEndingWith

\* The chain of an unfinalized block has the block and nothing later, the
\* parents of its members as long as they are not finalized, and of every
\* member but the block itself a child.
IsPath(s, root, path) ==
  /\ root \in path /\ path \subseteq Unfinalized(s)
  /\ \A r \in path : s.links[r].parent \in Unfinalized(s) => s.links[r].parent \in path
  /\ \A r \in path : r = root \/ \E c \in path : s.links[c].parent = r
  /\ \A r \in path : s.links[r].slot <= s.links[root].slot

\* If the chain of the parent is a path, the chain of the block is.
LEMMA PathStep ==
  ASSUME NEW s, Rooted(s), Divided(s), NEW chain, IsChain(s, chain), NEW r \in Unfinalized(s),
         s.links[r].parent \in Unfinalized(s) => IsPath(s, s.links[r].parent, chain[s.links[r].parent])
  PROVE  IsPath(s, r, chain[r])
<1> DEFINE U == Unfinalized(s)
           p == s.links[r].parent
<1>1. r \in DOMAIN s.links \ {Anchor}
  BY DEF Divided
<1>2. s.links[r].slot \in Nat /\ s.links[p].slot \in Nat /\ s.links[p].slot < s.links[r].slot
  BY Zenon, <1>1 DEF Rooted
<1>3. \A q \in U : s.links[q].slot \in Nat
  BY Zenon DEF Rooted, Divided
<1>4. chain[r] = {r} \cup (IF p \in U THEN chain[p] ELSE {})
  BY Zenon DEF IsChain
<1>5. CASE p \notin U
  BY SMTT(20), <1>2, <1>4, <1>5 DEF IsPath
<1>6. CASE p \in U
  <2>1. IsPath(s, p, chain[p]) /\ chain[r] = {r} \cup chain[p]
    BY Zenon, <1>4, <1>6
  <2>2. \A q \in chain[p] : s.links[q].slot <= s.links[r].slot
    BY <1>2, <1>3, <2>1 DEF IsPath
  <2> QED
    BY <1>2, <2>1, <2>2 DEF IsPath
<1> QED
  BY Zenon, <1>5, <1>6

\* unfinalized_chain_ending_with returns the path down to the finalized blocks.
LEMMA ChainIsPath ==
  ASSUME NEW s, Rooted(s), Divided(s), NEW root \in Unfinalized(s)
  PROVE  IsPath(s, root, ChainEndingWith(s, root))
<1>1. PICK chain : IsChain(s, chain) /\ ChainEndingWith(s, root) = chain[root]
  BY Zenon, ChainIsChain
<1> DEFINE Bad == {r \in Unfinalized(s) : ~IsPath(s, r, chain[r])}
           Slots == {s.links[r].slot : r \in Bad}
<1>2. Slots \subseteq Nat
  BY DEF Rooted, Divided
<1>3. ASSUME Bad # {} PROVE FALSE
  <2>1. Slots # {}
    BY Zenon, <1>3
  <2> HIDE DEF Bad
  <2>2. PICK n \in Slots : \A m \in Slots : n <= m
    BY Zenon, <1>2, <2>1, LeastNatural
  <2>3. PICK r \in Bad : s.links[r].slot = n
    BY Zenon, <2>2
  <2>4. r \in Unfinalized(s) /\ ~IsPath(s, r, chain[r])
    BY DEF Bad
  <2>5. s.links[r].parent \in Bad
    BY Zenon, <1>1, <2>4, PathStep DEF Bad
  <2>6. s.links[s.links[r].parent].slot \in Slots
    BY Zenon, <2>5
  <2>7. r \in DOMAIN s.links \ {Anchor}
    BY <2>4 DEF Divided
  <2>8. s.links[s.links[r].parent].slot < s.links[r].slot
    BY Zenon, <2>7 DEF Rooted
  <2> HIDE DEF Slots
  <2> QED
    BY <1>2, <2>2, <2>3, <2>6, <2>8
<1> QED
  BY Zenon, <1>1, <1>3

-----------------------------------------------------------------------------
(***************************************************************************)
(* Inserting a block                                                       *)
(***************************************************************************)

\* The fields of struct Store that the methods on the tree write.
TreeFields ==
  {"links", "statuses", "finalized", "lastFinalized", "unfinalized", "locations",
   "payloadLocations", "balances", "payloads", "finalizedCheckpoint", "panic"}

\* A location leads to its block.
LEMMA BlockIsLocated ==
  ASSUME NEW s, Segmented(s), NEW r \in Unfinalized(s)
  PROVE  /\ s.locations[r].segment \in DOMAIN s.unfinalized
         /\ LET segment == s.unfinalized[s.locations[r].segment]
                i == s.locations[r].position - segment.first + 1
            IN  i \in 1..Len(segment.blocks) /\ segment.blocks[i] = r
<1>1. PICK id \in DOMAIN s.unfinalized : r \in Range(s.unfinalized[id].blocks)
  BY Zenon DEF Segmented
<1> DEFINE segment == s.unfinalized[id]
           blocks == segment.blocks
<1>2. IsSegment(s, id)
  BY Zenon DEF Segmented
<1>3. blocks \in Seq(DOMAIN s.links) /\ segment.first \in Nat
  BY Zenon, <1>2 DEF IsSegment
<1>4. PICK i \in 1..Len(blocks) : blocks[i] = r
  BY <1>1, <1>3 DEF Range
<1>5. s.locations[r] = [segment |-> id, position |-> segment.first + i - 1]
  BY Zenon, <1>2, <1>4 DEF IsSegment
<1>6. s.locations[r].segment = id /\ s.locations[r].position - segment.first + 1 = i
  BY <1>3, <1>4, <1>5
<1> QED
  BY Zenon, <1>4, <1>6

\* Where a new block goes: to the end of the segment that its parent ends, or
\* else to a segment of its own with the greatest ID.
Goes(s, root, parent, id, segment) ==
  \/ /\ parent \in Unfinalized(s)
     /\ id = s.locations[parent].segment
     /\ s.locations[parent].position = LastPosition(s.unfinalized[id])
     /\ segment = [s.unfinalized[id] EXCEPT !.blocks = Append(@, root)]
  \/ /\ parent \in Unfinalized(s) =>
          s.locations[parent].position # LastPosition(s.unfinalized[s.locations[parent].segment])
     /\ id = LowestUnusedSegmentId(s)
     /\ segment = [blocks |-> <<root>>, first |-> 0, head |-> 0]

\* What insert_block writes.
LEMMA InsertBlockFields ==
  ASSUME NEW s, TreeFields \subseteq DOMAIN s, NEW root, NEW link, NEW status, NEW t,
         t = InsertBlock(s, root, link, status)
  PROVE  /\ DOMAIN t = DOMAIN s
         /\ t.links = Bind(s.links, root, link)
         /\ t.finalized = s.finalized /\ t.lastFinalized = s.lastFinalized
         /\ ~t.panic => ~s.panic
         /\ \E id, segment :
              /\ Goes(s, root, link.parent, id, segment)
              /\ t.unfinalized = Bind(s.unfinalized, id, segment)
              /\ t.locations = Bind(s.locations, root, [segment |-> id, position |-> LastPosition(segment)])
<1> DEFINE parent == {s.locations[r] : r \in {link.parent} \cap Unfinalized(s)}
           extends == {at.segment : at \in {l \in parent : l.position = LastPosition(s.unfinalized[l.segment])}}
           id == IF extends # {} THEN CHOOSE i \in extends : TRUE ELSE LowestUnusedSegmentId(s)
           segment == IF extends # {} THEN [s.unfinalized[id] EXCEPT !.blocks = Append(@, root)]
                      ELSE [blocks |-> <<root>>, first |-> 0, head |-> 0]
           location == [segment |-> id, position |-> LastPosition(segment)]
<1>1. Goes(s, root, link.parent, id, segment)
  <2>1. CASE /\ link.parent \in Unfinalized(s)
             /\ s.locations[link.parent].position
                  = LastPosition(s.unfinalized[s.locations[link.parent].segment])
    <3>1. extends = {s.locations[link.parent].segment}
      BY <2>1
    <3>2. id = s.locations[link.parent].segment
      BY Zenon, <3>1
    <3>3. segment = [s.unfinalized[id] EXCEPT !.blocks = Append(@, root)]
      BY Zenon, <3>1
    <3> HIDE DEF id, segment
    <3> QED
      BY Zenon, <2>1, <3>2, <3>3 DEF Goes
  <2>2. CASE ~ /\ link.parent \in Unfinalized(s)
               /\ s.locations[link.parent].position
                    = LastPosition(s.unfinalized[s.locations[link.parent].segment])
    <3>1. extends = {}
      BY <2>2
    <3>2. id = LowestUnusedSegmentId(s) /\ segment = [blocks |-> <<root>>, first |-> 0, head |-> 0]
      BY Zenon, <3>1
    <3> HIDE DEF id, segment
    <3> QED
      BY Zenon, <2>2, <3>2 DEF Goes
  <2> QED
    BY Zenon, <2>1, <2>2
<1> DEFINE rejected == /\ parent # {} /\ s.statuses[link.parent] = "invalid"
                       /\ link.presence # "empty" \/ IsBlockInvalid(s, link.parent)
           statuses == Bind(s.statuses, root, IF rejected THEN "invalid" ELSE status)
           payloadLocations == IF PostGloas(s, link.slot) THEN s.payloadLocations
                               ELSE Bind(s.payloadLocations, root, location)
           panic == s.panic \/ ContainsBlock(s, root) \/ (parent = {} /\ link.parent \notin s.finalized)
<1>2. t = [s EXCEPT !.links = Bind(s.links, root, link),
                    !.statuses = statuses,
                    !.unfinalized = Bind(s.unfinalized, id, segment),
                    !.locations = Bind(s.locations, root, location),
                    !.payloadLocations = payloadLocations,
                    !.balances = Bind(s.balances, root, NoBalance),
                    !.panic = panic]
  BY Zenon DEF InsertBlock
<1>3. ~panic => ~s.panic
  OBVIOUS
<1> HIDE DEF id, segment, extends, parent, statuses, payloadLocations, panic
<1>4. /\ DOMAIN t = DOMAIN s /\ t.finalized = s.finalized /\ t.lastFinalized = s.lastFinalized
      /\ t.links = Bind(s.links, root, link) /\ t.unfinalized = Bind(s.unfinalized, id, segment)
      /\ t.locations = Bind(s.locations, root, location) /\ t.panic = panic
  BY Zenon, <1>2 DEF TreeFields
<1> QED
  BY Zenon, <1>1, <1>3, <1>4

\* A block to insert has an earlier parent that was in the store once, and if
\* there was a block with its root it was the same.
Fits(s, root, link) ==
  /\ root # Anchor
  /\ link.slot \in Nat
  /\ link.parent \in DOMAIN s.links /\ s.links[link.parent].slot < link.slot
  /\ root \in DOMAIN s.links =>
       s.links[root].parent = link.parent /\ s.links[root].slot = link.slot

\* insert_block adds the link and leaves the finalized blocks alone.
LEMMA InsertBlockFrame ==
  ASSUME NEW s, TreeFields \subseteq DOMAIN s, NEW root, NEW link, NEW status, NEW t,
         t = InsertBlock(s, root, link, status)
  PROVE  /\ DOMAIN t = DOMAIN s /\ t.links = Bind(s.links, root, link)
         /\ t.lastFinalized = s.lastFinalized /\ (~t.panic => ~s.panic)
         /\ t.finalized = s.finalized /\ Unfinalized(s) \subseteq Unfinalized(t)
<1>1. /\ DOMAIN t = DOMAIN s /\ t.links = Bind(s.links, root, link)
      /\ t.finalized = s.finalized /\ t.lastFinalized = s.lastFinalized /\ (~t.panic => ~s.panic)
  BY InsertBlockFields
<1>2. \E id, segment :
        /\ Goes(s, root, link.parent, id, segment)
        /\ t.unfinalized = Bind(s.unfinalized, id, segment)
        /\ t.locations = Bind(s.locations, root, [segment |-> id, position |-> LastPosition(segment)])
  BY InsertBlockFields
<1>3. Unfinalized(s) \subseteq Unfinalized(t)
  BY Zenon, <1>2 DEF Unfinalized, Bind
<1> QED
  BY Zenon, <1>1, <1>3

\* What fits goes on fitting when another block is inserted, or a copy.
LEMMA InsertBlockFits ==
  ASSUME NEW s, NEW t, NEW root, NEW link, Fits(s, root, link), t.links = Bind(s.links, root, link)
  PROVE  \A q, other : Fits(s, q, other) /\ (q = root => other = link) => Fits(t, q, other)
<1> SUFFICES ASSUME NEW q, NEW other, Fits(s, q, other), q = root => other = link
             PROVE  Fits(t, q, other)
  BY Zenon
<1>1. /\ DOMAIN t.links = DOMAIN s.links \cup {root} /\ t.links[root] = link
      /\ \A r \in DOMAIN s.links \ {root} : t.links[r] = s.links[r]
  BY DEF Bind
<1>2. t.links[other.parent].slot = s.links[other.parent].slot
  BY Zenon, <1>1 DEF Fits
<1>3. q \in DOMAIN t.links => t.links[q].parent = other.parent /\ t.links[q].slot = other.slot
  BY Zenon, <1>1 DEF Fits
<1> QED
  BY Zenon, <1>1, <1>2, <1>3 DEF Fits

\* The ID of a new segment is greater than those in use.
LEMMA LowestUnused ==
  ASSUME NEW s, Segmented(s)
  PROVE  /\ LowestUnusedSegmentId(s) \in Nat \ {0}
         /\ \A id \in DOMAIN s.unfinalized : id \in Nat /\ id < LowestUnusedSegmentId(s)
<1>1. PICK n \in Nat : DOMAIN s.unfinalized \subseteq 1..n
  BY Zenon DEF Segmented
<1>2. CASE DOMAIN s.unfinalized = {}
  BY <1>2 DEF LowestUnusedSegmentId
<1>3. CASE DOMAIN s.unfinalized # {}
  <2>1. /\ Max(DOMAIN s.unfinalized) \in DOMAIN s.unfinalized
        /\ \A y \in DOMAIN s.unfinalized : y <= Max(DOMAIN s.unfinalized)
    BY Zenon, <1>1, <1>3, GreatestNatural
  <2>2. LowestUnusedSegmentId(s) = 1 + Max(DOMAIN s.unfinalized)
    BY Zenon, <1>3 DEF LowestUnusedSegmentId
  <2> QED
    BY <1>1, <2>1, <2>2
<1> QED
  BY Zenon, <1>2, <1>3

\* A tree stays one with a new block.
LEMMA InsertBlockKeepsTree ==
  ASSUME NEW s, TreeFields \subseteq DOMAIN s, NEW root, NEW link, NEW status, NEW t,
         t = InsertBlock(s, root, link, status),
         IsTree(s), Fits(s, root, link), ~ContainsBlock(s, root), ContainsBlock(s, link.parent)
  PROVE  IsTree(t)
<1> DEFINE U == Unfinalized(s)
           parent == link.parent
           ids == DOMAIN s.unfinalized
<1>1. /\ t.links = Bind(s.links, root, link)
      /\ t.finalized = s.finalized /\ t.lastFinalized = s.lastFinalized
      /\ \E id, segment :
           /\ Goes(s, root, link.parent, id, segment)
           /\ t.unfinalized = Bind(s.unfinalized, id, segment)
           /\ t.locations = Bind(s.locations, root, [segment |-> id, position |-> LastPosition(segment)])
  BY InsertBlockFields
<1>2. PICK id, segment :
        /\ Goes(s, root, link.parent, id, segment)
        /\ t.unfinalized = Bind(s.unfinalized, id, segment)
        /\ t.locations = Bind(s.locations, root, [segment |-> id, position |-> LastPosition(segment)])
  BY Zenon, <1>1
<1>3. /\ DOMAIN t.links = DOMAIN s.links \cup {root} /\ t.links[root] = link
      /\ \A r \in DOMAIN s.links \ {root} : t.links[r] = s.links[r]
  BY <1>1 DEF Bind
<1>4. /\ DOMAIN t.links = DOMAIN s.links \cup {root} /\ t.links[root] = link
      /\ \A r \in DOMAIN s.links :
           t.links[r].parent = s.links[r].parent /\ t.links[r].slot = s.links[r].slot
  <2> SUFFICES ASSUME NEW r \in DOMAIN s.links
               PROVE  t.links[r].parent = s.links[r].parent /\ t.links[r].slot = s.links[r].slot
    BY Zenon, <1>3
  <2>1. CASE r = root
    BY <1>3, <2>1 DEF Fits
  <2>2. CASE r # root
    BY <1>3, <2>2
  <2> QED
    BY Zenon, <2>1, <2>2
<1>5. /\ Unfinalized(t) = U \cup {root} /\ root \notin U /\ U \subseteq DOMAIN s.links
      /\ t.locations[root] = [segment |-> id, position |-> LastPosition(segment)]
      /\ \A r \in U : t.locations[r] = s.locations[r]
  <2>1. root \notin U /\ U \subseteq DOMAIN s.links
    BY Zenon DEF ContainsBlock, IsTree, Divided
  <2> QED
    BY <1>2, <2>1 DEF Bind, Unfinalized
<1>6. /\ DOMAIN t.unfinalized = ids \cup {id} /\ t.unfinalized[id] = segment
      /\ \A d \in ids \ {id} : t.unfinalized[d] = s.unfinalized[d]
  BY <1>2 DEF Bind
<1>7. parent # root /\ \A r \in U : s.links[r].parent # root
  BY Zenon DEF IsTree, Attached, ContainsBlock
<1>8. PICK n \in Nat : ids \subseteq 1..n
  BY Zenon DEF IsTree, Segmented
<1>9. \A d \in ids : IsSegment(s, d)
  BY Zenon DEF IsTree, Segmented
<1>10. Segmented(s)
  BY Zenon DEF IsTree
\* A segment that is not the new block's stays one.
<1>11. ASSUME NEW d \in ids \ {id}, parent # s.unfinalized[d].blocks[Len(s.unfinalized[d].blocks)]
      PROVE  IsSegment(t, d)
  <2> DEFINE blocks == s.unfinalized[d].blocks
  <2>1. t.unfinalized[d] = s.unfinalized[d]
    BY Zenon, <1>6, <1>11
  <2>2. IsSegment(s, d)
    BY Zenon, <1>9, <1>11
  <2>3. blocks \in Seq(DOMAIN s.links) /\ blocks # <<>>
    BY Zenon, <2>2 DEF IsSegment
  <2>4. blocks \in Seq(DOMAIN t.links)
    BY <1>4, <2>3
  <2>5. \A i \in 1..Len(blocks) : blocks[i] \in U /\ t.locations[blocks[i]] = s.locations[blocks[i]]
    BY Zenon, <1>5, <2>2 DEF IsSegment
  <2>6. \A i \in 1..Len(blocks) : t.links[blocks[i]].parent = s.links[blocks[i]].parent
    BY Zenon, <1>4, <1>5, <2>5
  <2>7. 1 \in 1..Len(blocks) /\ 2..Len(blocks) \subseteq 1..Len(blocks)
    BY <2>3
  <2>8. \A r \in Unfinalized(t) : t.links[r].parent # blocks[Len(blocks)]
    BY Zenon, <1>4, <1>5, <1>11, <2>2 DEF IsSegment
  <2>9. \A r \in {t.links[blocks[1]].parent} \cap Unfinalized(t) : t.locations[r].segment < d
    BY ZenonT(30), <1>5, <1>7, <2>2, <2>5, <2>6, <2>7 DEF IsSegment
  <2>10. \A i \in 2..Len(blocks) : t.links[blocks[i]].parent = blocks[i - 1]
    BY Zenon, <2>2, <2>6, <2>7 DEF IsSegment
  <2>11. \A i \in 1..Len(blocks) :
           /\ blocks[i] \in Unfinalized(t)
           /\ t.locations[blocks[i]] = [segment |-> d, position |-> s.unfinalized[d].first + i - 1]
    BY Zenon, <1>5, <2>2, <2>5 DEF IsSegment
  <2> QED
    BY Zenon, <2>1, <2>2, <2>3, <2>4, <2>8, <2>9, <2>10, <2>11 DEF IsSegment
\* Nor does the new block's parent end another segment.
<1>12. ASSUME NEW d \in ids \ {id}
      PROVE  parent # s.unfinalized[d].blocks[Len(s.unfinalized[d].blocks)]
  <2> DEFINE blocks == s.unfinalized[d].blocks
  <2> SUFFICES ASSUME parent = blocks[Len(blocks)] PROVE FALSE
    OBVIOUS
  <2>1. IsSegment(s, d)
    BY Zenon, <1>9, <1>12
  <2>2. blocks \in Seq(DOMAIN s.links) /\ blocks # <<>> /\ s.unfinalized[d].first \in Nat
    BY Zenon, <2>1 DEF IsSegment
  <2>3. Len(blocks) \in 1..Len(blocks)
    BY <2>2
  <2>4. /\ parent \in U
        /\ s.locations[parent] = [segment |-> d, position |-> s.unfinalized[d].first + Len(blocks) - 1]
    BY Zenon, <2>1, <2>3 DEF IsSegment
  <2>5. /\ s.locations[parent].segment = d
        /\ s.locations[parent].position = LastPosition(s.unfinalized[d])
    BY <2>4 DEF LastPosition
  <2>6. d # id
    BY Zenon, <1>12
  <2> QED
    BY Zenon, <1>2, <2>4, <2>5, <2>6 DEF Goes
<1>13. ASSUME parent \in U, id = s.locations[parent].segment,
              s.locations[parent].position = LastPosition(s.unfinalized[id]),
              segment = [s.unfinalized[id] EXCEPT !.blocks = Append(@, root)]
       PROVE  Segmented(t)
  <2> DEFINE old == s.unfinalized[id]
             blocks == segment.blocks
             last == Len(old.blocks)
  <2>1. id \in ids /\ IsSegment(s, id)
    BY Zenon, <1>9, <1>10, <1>13, BlockIsLocated
  <2>2. /\ DOMAIN old = {"blocks", "first", "head"} /\ old.first \in Nat
        /\ old.blocks \in Seq(DOMAIN s.links) /\ old.blocks # <<>>
    BY Zenon, <2>1 DEF IsSegment
  <2>3. /\ DOMAIN segment = {"blocks", "first", "head"} /\ segment.first = old.first
        /\ blocks = Append(old.blocks, root)
    BY Zenon, <1>13, <2>2
  <2>4. /\ last \in 1..last /\ Len(blocks) = last + 1 /\ blocks[last + 1] = root
        /\ \A i \in 1..last : blocks[i] = old.blocks[i]
    BY <2>2, <2>3
  <2>k. last \in Nat /\ 1 \in 1..last /\ 2..last \subseteq 1..last
    BY <2>2
  <2>5. old.blocks[last] = parent
    <3>1. /\ s.locations[parent].position - old.first + 1 \in 1..last
          /\ old.blocks[s.locations[parent].position - old.first + 1] = parent
      BY Zenon, <1>10, <1>13, BlockIsLocated
    <3>2. s.locations[parent].position = old.first + last - 1
      BY Zenon, <1>13 DEF LastPosition
    <3>3. s.locations[parent].position - old.first + 1 = last
      BY <2>2, <2>k, <3>2
    <3> QED
      BY Zenon, <3>1, <3>3
  <2>6. \A i \in 1..last :
          /\ old.blocks[i] \in U
          /\ t.locations[old.blocks[i]] = [segment |-> id, position |-> old.first + i - 1]
          /\ t.links[old.blocks[i]].parent = s.links[old.blocks[i]].parent
    BY Zenon, <1>4, <1>5, <2>1 DEF IsSegment
  <2>s. \A i \in 2..last : s.links[old.blocks[i]].parent = old.blocks[i - 1]
    BY Zenon, <2>1 DEF IsSegment
  <2>p. LastPosition(segment) = segment.first + (last + 1) - 1
    BY Zenon, <2>4 DEF LastPosition
  <2>q. \A r \in {s.links[old.blocks[1]].parent} \cap U : s.locations[r].segment < id
    BY Zenon, <2>1 DEF IsSegment
  <2> HIDE DEF old, last
  <2>7. \A i \in 1..Len(blocks) :
          /\ blocks[i] \in Unfinalized(t)
          /\ t.locations[blocks[i]] = [segment |-> id, position |-> segment.first + i - 1]
    BY <1>5, <2>3, <2>4, <2>k, <2>6, <2>p
  <2>8. \A i \in 2..Len(blocks) : t.links[blocks[i]].parent = blocks[i - 1]
    <3> SUFFICES ASSUME NEW i \in 2..Len(blocks) PROVE t.links[blocks[i]].parent = blocks[i - 1]
      OBVIOUS
    <3>1. CASE i = last + 1
      BY <1>4, <2>4, <2>k, <2>5, <3>1
    <3>2. CASE i # last + 1
      <4>1. i \in 2..last /\ i - 1 \in 1..last
        BY <2>4, <2>k, <3>2
      <4>2. blocks[i] = old.blocks[i] /\ blocks[i - 1] = old.blocks[i - 1]
        BY Zenon, <2>4, <2>k, <4>1
      <4> QED
        BY Zenon, <2>k, <2>6, <2>s, <4>1, <4>2
    <3> QED
      BY Zenon, <3>1, <3>2
  <2>9. \A r \in Unfinalized(t) : t.links[r].parent # blocks[Len(blocks)]
    BY Zenon, <1>4, <1>5, <1>7, <2>4
  <2>10. \A r \in {t.links[blocks[1]].parent} \cap Unfinalized(t) : t.locations[r].segment < id
    <3>1. t.links[blocks[1]].parent = s.links[old.blocks[1]].parent /\ old.blocks[1] \in U
      BY Zenon, <2>4, <2>k, <2>6
    <3> QED
      BY Zenon, <1>5, <1>7, <2>q, <3>1
  <2>11. blocks \in Seq(DOMAIN t.links) /\ blocks # <<>>
    BY <1>4, <2>2, <2>3
  <2> HIDE DEF blocks
  <2>12. IsSegment(t, id)
    BY Zenon, <1>6, <2>2, <2>3, <2>7, <2>8, <2>9, <2>10, <2>11 DEF IsSegment, blocks
  <2>13. \A r \in Unfinalized(t) : \E d \in DOMAIN t.unfinalized : r \in Range(t.unfinalized[d].blocks)
    <3>1. DOMAIN blocks = 1..(last + 1) /\ DOMAIN old.blocks = 1..last /\ last + 1 \in 1..(last + 1)
      BY <2>2, <2>4, <2>k, <2>11 DEF last
    <3>2. root \in Range(blocks) /\ Range(old.blocks) \subseteq Range(blocks)
      BY <2>4, <2>k, <3>1 DEF Range
    <3>3. root \in Range(t.unfinalized[id].blocks)
      BY Zenon, <1>6, <3>2 DEF blocks
    <3>4. ASSUME NEW r \in U
          PROVE  \E d \in DOMAIN t.unfinalized : r \in Range(t.unfinalized[d].blocks)
      <4>1. PICK d \in ids : r \in Range(s.unfinalized[d].blocks)
        BY Zenon, <1>10 DEF Segmented
      <4>2. CASE d = id
        BY Zenon, <1>6, <3>2, <4>1, <4>2 DEF blocks, old
      <4>3. CASE d # id
        BY Zenon, <1>6, <4>1, <4>3
      <4> QED
        BY Zenon, <4>2, <4>3
    <3> QED
      BY ZenonT(30), <1>5, <1>6, <3>3, <3>4
  <2>14. DOMAIN t.unfinalized \subseteq 1..n
    BY Zenon, <1>6, <1>8, <2>1
  <2> QED
    BY Zenon, <1>6, <1>11, <1>12, <2>12, <2>13, <2>14 DEF Segmented
<1>14. ASSUME id = LowestUnusedSegmentId(s),
              segment = [blocks |-> <<root>>, first |-> 0, head |-> 0]
       PROVE  Segmented(t)
  <2>1. id \in Nat \ {0} /\ \A d \in ids : d \in Nat /\ d < id
    BY Zenon, <1>10, <1>14, LowestUnused
  <2>2. segment.blocks = <<root>> /\ segment.first = 0 /\ DOMAIN segment = {"blocks", "first", "head"}
    BY Zenon, <1>14
  <2>3. LastPosition(segment) = 0
    BY <2>2 DEF LastPosition
  <2>4. \A r \in {parent} \cap Unfinalized(t) : t.locations[r].segment < id
    BY Zenon, <1>5, <1>7, <1>10, <2>1, BlockIsLocated
  <2>5. IsSegment(t, id)
    <3>1. \A r \in Unfinalized(t) : t.links[r].parent # root
      BY Zenon, <1>4, <1>5, <1>7
    <3> QED
      BY <1>4, <1>5, <1>6, <2>2, <2>3, <2>4, <3>1 DEF IsSegment
  <2>6. \A r \in Unfinalized(t) : \E d \in DOMAIN t.unfinalized : r \in Range(t.unfinalized[d].blocks)
    <3>1. root \in Range(segment.blocks)
      BY <2>2 DEF Range
    <3>2. id \notin ids
      BY <2>1
    <3> QED
      BY ZenonT(30), <1>5, <1>6, <1>10, <3>1, <3>2 DEF Segmented
  <2>7. DOMAIN t.unfinalized \subseteq 1..id
    BY <1>6, <1>8, <2>1
  <2> QED
    BY Zenon, <1>6, <1>11, <1>12, <2>1, <2>5, <2>6, <2>7 DEF Segmented
<1>15. Segmented(t)
  BY Zenon, <1>2, <1>13, <1>14 DEF Goes
<1>16. Rooted(t)
  <2>1. \A r \in DOMAIN t.links : t.links[r].slot \in Nat
    BY <1>4 DEF Fits, Rooted, IsTree
  <2>2. ASSUME NEW r \in DOMAIN s.links \ {Anchor}
        PROVE  t.links[r].parent \in DOMAIN t.links /\ t.links[t.links[r].parent].slot < t.links[r].slot
    BY ZenonT(30), <1>4 DEF Rooted, IsTree
  <2>3. t.links[root].parent \in DOMAIN t.links /\ t.links[t.links[root].parent].slot < t.links[root].slot
    BY Zenon, <1>4 DEF Fits
  <2>4. Anchor \in DOMAIN t.links
    BY Zenon, <1>4 DEF Rooted, IsTree
  <2> QED
    BY Zenon, <1>4, <2>1, <2>2, <2>3, <2>4 DEF Rooted
<1>17. Divided(t) /\ Attached(t)
  <2>1. root \notin s.finalized /\ (parent \in U \/ parent \in s.finalized)
    BY Zenon DEF ContainsBlock
  <2>2. Divided(t)
    BY <1>1, <1>4, <1>5, <2>1 DEF Divided, IsTree, LastFinalized
  <2>3. Attached(t)
    BY ZenonT(30), <1>1, <1>4, <1>5, <2>1 DEF Attached, IsTree, ContainsBlock
  <2> QED
    BY Zenon, <2>2, <2>3
<1> QED
  BY Zenon, <1>15, <1>16, <1>17 DEF IsTree

-----------------------------------------------------------------------------
(***************************************************************************)
(* Finalizing blocks                                                       *)
(***************************************************************************)

\* Of the segment of the finalized block the blocks up to it are on its chain,
\* and the others are not.
LEMMA ChainInSegment ==
  ASSUME NEW s, IsTree(s), NEW root \in Unfinalized(s)
  PROVE  LET segment == s.unfinalized[s.locations[root].segment]
             k == s.locations[root].position - segment.first + 1
         IN  \A i \in 1..Len(segment.blocks) : segment.blocks[i] \in ChainEndingWith(s, root) <=> i <= k
<1> DEFINE id == s.locations[root].segment
           blocks == s.unfinalized[id].blocks
           n == Len(blocks)
           k == s.locations[root].position - s.unfinalized[id].first + 1
           path == ChainEndingWith(s, root)
           Slot(r) == s.links[r].slot
<1>1. Rooted(s) /\ Divided(s) /\ Segmented(s)
  BY Zenon DEF IsTree
<1>2. id \in DOMAIN s.unfinalized /\ k \in 1..n /\ blocks[k] = root
  BY Zenon, <1>1, BlockIsLocated
<1>3. IsPath(s, root, path)
  BY Zenon, <1>1, ChainIsPath
<1> HIDE DEF id, k, path
<1>4. IsSegment(s, id)
  BY Zenon, <1>1, <1>2 DEF Segmented
<1>5. n \in Nat /\ k \in Nat /\ 1 <= k /\ k <= n
  BY <1>4, <1>2 DEF IsSegment
<1>6. \A i \in 1..n : blocks[i] \in Unfinalized(s)
  BY Zenon, <1>4 DEF IsSegment
<1>7. \A i \in 2..n : s.links[blocks[i]].parent = blocks[i - 1]
  BY Zenon, <1>4 DEF IsSegment
<1>8. \A i \in 1..n : blocks[i] \in DOMAIN s.links \ {Anchor}
  BY <1>6 DEF IsTree, Divided
<1>9. \A i \in 1..n : Slot(blocks[i]) \in Nat
  BY Zenon, <1>8 DEF IsTree, Rooted
<1>10. \A i \in 2..n : Slot(blocks[i - 1]) < Slot(blocks[i])
  <2> SUFFICES ASSUME NEW i \in 2..n PROVE Slot(blocks[i - 1]) < Slot(blocks[i])
    OBVIOUS
  <2>1. i \in 1..n
    BY <1>5
  <2> QED
    BY Zenon, <1>7, <1>8, <2>1 DEF IsTree, Rooted
<1> HIDE DEF blocks, n
<1>11. ASSUME NEW j \in 1..k, blocks[j] \notin path PROVE FALSE
  <2> DEFINE Bad == {m \in Nat : \E i \in 1..k : m = k - i /\ blocks[i] \notin path}
  <2>1. k - j \in Bad
    BY <1>5, <1>11
  <2>2. PICK m \in Bad : \A l \in Bad : m <= l
    BY Zenon, <2>1, LeastNatural
  <2>3. PICK i \in 1..k : m = k - i /\ blocks[i] \notin path
    BY <2>2
  <2>4. blocks[k] \in path
    BY Zenon, <1>2, <1>3 DEF IsPath
  <2>5. i # k
    BY Zenon, <2>3, <2>4
  <2>6. i + 1 \in 1..k /\ i + 1 \in 2..n /\ i \in 1..n /\ (i + 1) - 1 = i
    BY <1>5, <2>5
  <2>7. blocks[i + 1] \in path
    <3> SUFFICES ASSUME blocks[i + 1] \notin path PROVE FALSE
      OBVIOUS
    <3>1. k - (i + 1) \in Bad
      BY <1>5, <2>6
    <3>2. m <= k - (i + 1)
      BY Zenon, <2>2, <3>1
    <3> QED
      BY <1>5, <2>3, <3>2
  <2>8. s.links[blocks[i + 1]].parent = blocks[i]
    BY Zenon, <1>7, <2>6
  <2> QED
    BY Zenon, <1>6, <1>3, <2>3, <2>6, <2>7, <2>8 DEF IsPath
<1>12. ASSUME NEW j \in (k + 1)..n, Slot(blocks[j]) <= Slot(root) PROVE FALSE
  <2> DEFINE Bad == {i \in Nat : i \in (k + 1)..n /\ Slot(blocks[i]) <= Slot(root)}
  <2>1. j \in Bad
    BY <1>5, <1>12
  <2>2. PICK i \in Bad : \A l \in Bad : i <= l
    BY Zenon, <2>1, LeastNatural
  <2>3. i \in 2..n /\ i \in 1..n /\ i - 1 \in 1..n /\ i - 1 \in Nat
    BY <1>5
  <2>4. i - 1 \notin Bad
    BY <2>2, <2>3
  <2>5. Slot(blocks[i - 1]) >= Slot(root)
    <3>1. CASE i = k + 1
      BY <1>5, <1>9, <1>2, <2>3, <3>1
    <3>2. CASE i # k + 1
      <4>1. i - 1 \in (k + 1)..n
        BY <1>5, <3>2
      <4>2. ~(Slot(blocks[i - 1]) <= Slot(root))
        BY Zenon, <2>3, <2>4, <4>1
      <4>3. Slot(root) \in Nat /\ Slot(blocks[i - 1]) \in Nat
        BY Zenon, <1>9, <1>2, <2>3
      <4> QED
        BY <4>2, <4>3
    <3> QED
      BY Zenon, <3>1, <3>2
  <2>6. Slot(blocks[i - 1]) < Slot(blocks[i]) /\ Slot(blocks[i]) <= Slot(root)
    BY Zenon, <1>10, <2>3
  <2>7. Slot(root) \in Nat /\ Slot(blocks[i - 1]) \in Nat /\ Slot(blocks[i]) \in Nat
    BY Zenon, <1>9, <1>2, <2>3
  <2> QED
    BY <2>5, <2>6, <2>7
<1>13. ASSUME NEW i \in 1..n PROVE blocks[i] \in path <=> i <= k
  <2>1. CASE i <= k
    BY <1>5, <1>11, <2>1
  <2>2. CASE ~(i <= k)
    <3>1. i \in (k + 1)..n
      BY <1>5, <2>2
    <3>2. blocks[i] \notin path
      BY Zenon, <1>12, <1>3, <3>1 DEF IsPath
    <3> QED
      BY Zenon, <2>2, <3>2
  <2> QED
    BY Zenon, <2>1, <2>2
<1> QED
  BY Zenon, <1>13 DEF id, k, path, blocks, n

\* A block is in the segment its location names, and in no other.
LEMMA InRange ==
  ASSUME NEW s, Segmented(s), NEW r \in Unfinalized(s)
  PROVE  /\ r \in Range(s.unfinalized[s.locations[r].segment].blocks)
         /\ \A id \in DOMAIN s.unfinalized : r \in Range(s.unfinalized[id].blocks) => s.locations[r].segment = id
<1>1. r \in Range(s.unfinalized[s.locations[r].segment].blocks)
  <2> DEFINE segment == s.unfinalized[s.locations[r].segment]
             i == s.locations[r].position - segment.first + 1
  <2>1. /\ s.locations[r].segment \in DOMAIN s.unfinalized
        /\ i \in 1..Len(segment.blocks) /\ segment.blocks[i] = r
    BY Zenon, BlockIsLocated
  <2>2. segment.blocks \in Seq(DOMAIN s.links)
    BY Zenon, <2>1 DEF Segmented, IsSegment
  <2> HIDE DEF i, segment
  <2>3. DOMAIN segment.blocks = 1..Len(segment.blocks)
    BY <2>2
  <2> QED
    BY Zenon, <2>1, <2>3 DEF Range, segment
<1>2. ASSUME NEW id \in DOMAIN s.unfinalized, r \in Range(s.unfinalized[id].blocks)
      PROVE  s.locations[r].segment = id
  <2> DEFINE blocks == s.unfinalized[id].blocks
  <2>1. blocks \in Seq(DOMAIN s.links)
    BY Zenon DEF Segmented, IsSegment
  <2>2. DOMAIN blocks = 1..Len(blocks)
    BY <2>1
  <2>3. PICK i \in 1..Len(blocks) : r = blocks[i]
    BY Zenon, <1>2, <2>2 DEF Range
  <2>4. s.locations[blocks[i]] = [segment |-> id, position |-> s.unfinalized[id].first + i - 1]
    BY Zenon, <2>3 DEF Segmented, IsSegment
  <2> QED
    BY <2>3, <2>4
<1> QED
  BY Zenon, <1>1, <1>2

\* A tree out of which the blocks up to the location `at` have been taken: some
\* blocks may have lost their parent.
IsCut(s, at) ==
  /\ Rooted(s) /\ Divided(s) /\ Segmented(s)
  /\ \A r \in Unfinalized(s) :
       ~(s.locations[r].segment = at.segment /\ s.locations[r].position < at.position)

\* What is left of a sequence after its first k members.
LEMMA RestOfSequence ==
  ASSUME NEW D, NEW b \in Seq(D), NEW k \in 1..Len(b), SubSeq(b, k + 1, Len(b)) # <<>>
  PROVE  /\ k < Len(b)
         /\ SubSeq(b, k + 1, Len(b)) \in Seq(D)
         /\ Len(SubSeq(b, k + 1, Len(b))) = Len(b) - k
         /\ \A i \in 1..(Len(b) - k) : SubSeq(b, k + 1, Len(b))[i] = b[k + i]
<1>1. k = Len(b) => SubSeq(b, k + 1, Len(b)) = <<>>
  OBVIOUS
<1>2. k < Len(b)
  BY <1>1
<1>3. SubSeq(b, k + 1, Len(b)) \in Seq(D) /\ Len(SubSeq(b, k + 1, Len(b))) = Len(b) - k
  BY <1>2
<1>4. \A i \in 1..(Len(b) - k) : SubSeq(b, k + 1, Len(b))[i] = b[k + i]
  BY <1>2
<1> QED
  BY Zenon, <1>2, <1>3, <1>4

\* No child of a block that is left, or of the last finalized one, is lost.
Spares(s, t) ==
  \A r \in Unfinalized(s) :
    s.links[r].parent \in Unfinalized(t) \cup {LastFinalized(t)} => r \in Unfinalized(t)

\* What finalize_blocks does to the tree if no assertion fails.
Finalizes(s, t, root) ==
  LET path == ChainEndingWith(s, root)
      last == s.locations[root].segment
      complete == {s.locations[r].segment : r \in path} \ {last}
      orphaned == (UNION {Range(s.unfinalized[id].blocks) : id \in complete}) \ path
      segment == s.unfinalized[last]
      next == s.locations[root].position + 1
      remaining == SubSeq(segment.blocks, next - segment.first + 1, Len(segment.blocks))
      kept == [segment EXCEPT !.blocks = remaining, !.first = next]
  IN  /\ t.links = s.links
      /\ t.finalized = s.finalized \cup path
      /\ t.lastFinalized = root
      /\ t.unfinalized = Bind(Without(s.unfinalized, complete), last, kept)
      /\ t.locations = Without(s.locations, path \cup orphaned)
      /\ remaining # <<>>

\* What finalize_blocks writes if its assertions hold.
LEMMA FinalizeBlocksFields ==
  ASSUME NEW s, TreeFields \subseteq DOMAIN s, NEW t, t = FinalizeBlocks(s), ~t.panic
  PROVE  /\ DOMAIN t = DOMAIN s /\ ~s.panic /\ t.finalizedCheckpoint = s.finalizedCheckpoint
         /\ Finalizes(s, t, s.finalizedCheckpoint.root)
<1> DEFINE root == s.finalizedCheckpoint.root
           path == ChainEndingWith(s, root)
           last == s.locations[root].segment
           complete == {s.locations[r].segment : r \in path} \ {last}
           orphaned == (UNION {Range(s.unfinalized[id].blocks) : id \in complete}) \ path
           segment == s.unfinalized[last]
           next == s.locations[root].position + 1
           remaining == SubSeq(segment.blocks, next - segment.first + 1, Len(segment.blocks))
           kept == [segment EXCEPT !.blocks = remaining, !.first = next]
           panic == \/ s.panic \/ remaining = <<>>
                    \/ \E id \in complete : Range(s.unfinalized[id].blocks) \subseteq path
<1>1. t = [s EXCEPT !.finalized = s.finalized \cup path,
                    !.lastFinalized = root,
                    !.unfinalized = Bind(Without(s.unfinalized, complete), last, kept),
                    !.locations = Without(s.locations, path \cup orphaned),
                    !.payloadLocations = Without(s.payloadLocations, path),
                    !.balances = Without(s.balances, orphaned),
                    !.panic = panic]
  BY Zenon DEF FinalizeBlocks
<1>2. ~panic => ~s.panic /\ remaining # <<>>
  BY Zenon
<1> HIDE DEF root, path, last, complete, orphaned, kept, remaining, panic
<1>3. /\ DOMAIN t = DOMAIN s /\ t.links = s.links /\ t.finalizedCheckpoint = s.finalizedCheckpoint
      /\ t.finalized = s.finalized \cup path
      /\ t.lastFinalized = root
      /\ t.unfinalized = Bind(Without(s.unfinalized, complete), last, kept)
      /\ t.locations = Without(s.locations, path \cup orphaned)
      /\ t.panic = panic
  BY Zenon, <1>1 DEF TreeFields
<1>4. /\ DOMAIN t = DOMAIN s /\ t.links = s.links /\ t.finalizedCheckpoint = s.finalizedCheckpoint
      /\ t.finalized = s.finalized \cup path
      /\ t.lastFinalized = root
      /\ t.unfinalized = Bind(Without(s.unfinalized, complete), last, kept)
      /\ t.locations = Without(s.locations, path \cup orphaned)
      /\ ~s.panic /\ remaining # <<>>
  BY Zenon, <1>2, <1>3
<1> QED
  BY Zenon, <1>4 DEF root, path, last, complete, orphaned, kept, remaining, Finalizes

\* finalize_blocks moves the chain of the finalized block out of the segments,
\* and leaves the segments it does not dissolve intact.  The first block of a
\* segment that it does dissolve is on the chain.
LEMMA FinalizingCuts ==
  ASSUME NEW s, IsTree(s), NEW root \in Unfinalized(s), NEW t, Finalizes(s, t, root)
  PROVE  IsCut(t, s.locations[root]) /\ Unfinalized(t) \subseteq Unfinalized(s) /\ Spares(s, t)
<1> DEFINE U == Unfinalized(s)
           path == ChainEndingWith(s, root)
           last == s.locations[root].segment
           complete == {s.locations[r].segment : r \in path} \ {last}
           orphaned == (UNION {Range(s.unfinalized[id].blocks) : id \in complete}) \ path
           segment == s.unfinalized[last]
           blocks == segment.blocks
           n == Len(blocks)
           k == s.locations[root].position - segment.first + 1
           next == s.locations[root].position + 1
           remaining == SubSeq(blocks, next - segment.first + 1, n)
           kept == [segment EXCEPT !.blocks = remaining, !.first = next]
<1>1. /\ t.links = s.links
       /\ t.finalized = s.finalized \cup path
       /\ t.lastFinalized = root
       /\ t.unfinalized = Bind(Without(s.unfinalized, complete), last, kept)
       /\ t.locations = Without(s.locations, path \cup orphaned)
       /\ remaining # <<>>
  BY Zenon DEF Finalizes
<1>2. last \notin complete /\ \A r \in path : s.locations[r].segment \in complete \cup {last}
  BY Zenon
<1>3. \A id \in complete : \E r \in path : s.locations[r].segment = id
  BY Zenon
<1>4. Rooted(s) /\ Divided(s) /\ Attached(s) /\ Segmented(s)
  BY Zenon DEF IsTree
<1>5. /\ last \in DOMAIN s.unfinalized
      /\ k \in 1..n /\ blocks[k] = root
  BY Zenon, <1>4, BlockIsLocated
<1>6. IsSegment(s, last)
  BY Zenon, <1>4, <1>5 DEF Segmented
<1>7. /\ DOMAIN segment = {"blocks", "first", "head"}
      /\ segment.first \in Nat
      /\ blocks \in Seq(DOMAIN s.links)
  BY Zenon, <1>6 DEF IsSegment
<1>8. kept = [segment EXCEPT !.blocks = remaining, !.first = next]
  BY Zenon
<1>9. IsPath(s, root, path)
  BY Zenon, <1>4, ChainIsPath
<1>10. \A i \in 1..n : blocks[i] \in path <=> i <= k
  BY Zenon, ChainInSegment
<1> HIDE DEF path, complete, kept
<1>11. ASSUME NEW r
      PROVE  r \in orphaned <=> r \notin path /\ \E id \in complete : r \in Range(s.unfinalized[id].blocks)
  <2>1. ASSUME r \in orphaned PROVE r \notin path /\ \E id \in complete : r \in Range(s.unfinalized[id].blocks)
    BY Zenon, <2>1
  <2>2. ASSUME r \notin path, NEW id \in complete, r \in Range(s.unfinalized[id].blocks) PROVE r \in orphaned
    BY Zenon, <2>2
  <2> QED
    BY Zenon, <2>1, <2>2
<1> HIDE DEF orphaned
<1>12. \A i \in 1..n : blocks[i] \in U /\ s.locations[blocks[i]] = [segment |-> last, position |-> segment.first + i - 1]
  BY Zenon, <1>6 DEF IsSegment
<1>13. \A i \in 2..n : s.links[blocks[i]].parent = blocks[i - 1]
  BY Zenon, <1>6 DEF IsSegment
<1>14. \A r \in U : s.links[r].parent # blocks[n]
  BY Zenon, <1>6 DEF IsSegment
<1>15. k = s.locations[root].position - segment.first + 1 /\ next = s.locations[root].position + 1
  BY Zenon
<1>16. remaining # <<>> /\ remaining = SubSeq(blocks, next - segment.first + 1, n)
  BY Zenon, <1>1
<1>17. n = Len(blocks)
  BY Zenon
<1> HIDE DEF remaining, next, k, n, blocks
<1>18. s.locations[root] = [segment |-> last, position |-> segment.first + k - 1]
  BY Zenon, <1>5, <1>12
<1> HIDE DEF segment, last
<1>19. s.locations[root].position = segment.first + k - 1 /\ next = segment.first + k /\ k \in Nat /\ n \in Nat
  BY SMTT(20), <1>5, <1>7, <1>15, <1>18, <1>17
<1>20. /\ next \in Nat /\ k < n
       /\ remaining \in Seq(DOMAIN s.links) /\ Len(remaining) = n - k
       /\ \A i \in 1..(n - k) : remaining[i] = blocks[k + i]
  <2>1. remaining = SubSeq(blocks, k + 1, n)
    <3>1. next - segment.first + 1 = k + 1
      BY <1>7, <1>19
    <3> QED
      BY Zenon, <1>16, <3>1
  <2>2. k \in Nat /\ 1 <= k /\ k <= n
    BY <1>5, <1>19
  <2>3. next \in Nat
    BY <1>7, <1>19
  <2>4. k \in 1..Len(blocks) /\ blocks \in Seq(DOMAIN s.links) /\ SubSeq(blocks, k + 1, Len(blocks)) # <<>>
    BY Zenon, <1>5, <1>7, <1>17, <1>16, <2>1
  <2> QED
    BY Zenon, <1>17, <2>1, <2>3, <2>4, RestOfSequence
<1>21. /\ Unfinalized(t) = U \ (path \cup orphaned)
       /\ \A r \in Unfinalized(t) : t.locations[r] = s.locations[r]
  BY <1>1 DEF Unfinalized, Without, Restrict
<1>22. /\ DOMAIN t.unfinalized = (DOMAIN s.unfinalized) \ complete
       /\ t.unfinalized[last] = kept
       /\ \A id \in DOMAIN t.unfinalized \ {last} : t.unfinalized[id] = s.unfinalized[id]
  BY ZenonT(30), <1>2, <1>5, <1>1 DEF Bind, Without, Restrict
<1>23. \A r \in Unfinalized(t) : s.locations[r].segment \notin complete
  <2> SUFFICES ASSUME NEW r \in Unfinalized(t), s.locations[r].segment \in complete PROVE FALSE
    BY Zenon
  <2>1. r \in U /\ r \notin path /\ r \notin orphaned
    BY Zenon, <1>21
  <2>2. r \in Range(s.unfinalized[s.locations[r].segment].blocks)
    BY Zenon, <1>4, <2>1, InRange
  <2> QED
    BY Zenon, <1>11, <2>1, <2>2
<1>24. \A r \in U : s.locations[r].segment \notin complete => r \notin orphaned
  <2> SUFFICES ASSUME NEW r \in U, NEW id \in complete, r \in Range(s.unfinalized[id].blocks)
               PROVE  s.locations[r].segment = id
    BY Zenon, <1>11
  <2>1. PICK q \in U : s.locations[q].segment = id
    BY Zenon, <1>3, <1>9 DEF IsPath
  <2>2. id \in DOMAIN s.unfinalized
    BY Zenon, <1>4, <2>1, BlockIsLocated
  <2> QED
    BY Zenon, <1>4, <2>2, InRange
<1>25. \A r \in U : s.locations[r].segment \notin complete \cup {last} => r \in Unfinalized(t)
  BY Zenon, <1>2, <1>21, <1>24
<1>26. \A i \in 1..n : blocks[i] \in Unfinalized(t) <=> k < i
  <2> SUFFICES ASSUME NEW i \in 1..n PROVE blocks[i] \in Unfinalized(t) <=> k < i
    BY Zenon
  <2>a. blocks[i] \in U /\ s.locations[blocks[i]] = [segment |-> last, position |-> segment.first + i - 1]
    BY Zenon, <1>12
  <2>1. blocks[i] \in U /\ s.locations[blocks[i]].segment = last
    BY <2>a
  <2>2. blocks[i] \in path <=> i <= k
    BY Zenon, <1>10
  <2>3. blocks[i] \in Unfinalized(t) <=> ~(i <= k)
    BY Zenon, <1>2, <1>21, <1>24, <2>1, <2>2
  <2> QED
    BY <1>19, <2>3
<1>27. kept.blocks = remaining /\ kept.first = next /\ DOMAIN kept = {"blocks", "first", "head"}
  BY Zenon, <1>7, <1>8
<1>28. Unfinalized(t) \subseteq U
  BY Zenon, <1>21
<1>29. ASSUME NEW id \in DOMAIN t.unfinalized \ {last} PROVE IsSegment(t, id)
  <2>1. id \in DOMAIN s.unfinalized /\ id \notin complete \cup {last} /\ t.unfinalized[id] = s.unfinalized[id]
    BY Zenon, <1>22
  <2>2. IsSegment(s, id)
    BY Zenon, <1>4, <2>1 DEF Segmented
  <2> DEFINE own == s.unfinalized[id].blocks
  <2>3. ASSUME NEW i \in 1..Len(own)
        PROVE  /\ own[i] \in Unfinalized(t)
               /\ t.locations[own[i]] = [segment |-> id, position |-> s.unfinalized[id].first + i - 1]
    <3>1. own[i] \in U /\ s.locations[own[i]] = [segment |-> id, position |-> s.unfinalized[id].first + i - 1]
      BY Zenon, <2>2 DEF IsSegment
    <3>2. s.locations[own[i]].segment = id
      BY <3>1
    <3> QED
      BY Zenon, <1>21, <1>25, <2>1, <3>1, <3>2
  <2>4. \A r \in {s.links[own[1]].parent} \cap Unfinalized(t) : t.locations[r].segment < id
    BY Zenon, <1>21, <1>28, <2>2 DEF IsSegment
  <2>5. /\ DOMAIN s.unfinalized[id] = {"blocks", "first", "head"}
        /\ s.unfinalized[id].first \in Nat
        /\ own \in Seq(DOMAIN s.links) /\ own # <<>>
        /\ \A i \in 2..Len(own) : s.links[own[i]].parent = own[i - 1]
        /\ \A r \in Unfinalized(t) : s.links[r].parent # own[Len(own)]
    BY Zenon, <1>28, <2>2 DEF IsSegment
  <2> QED
    BY Zenon, <1>1, <2>1, <2>3, <2>4, <2>5 DEF IsSegment
<1>30. IsSegment(t, last)
  <2>1. ASSUME NEW i \in 1..(n - k)
        PROVE  /\ remaining[i] \in Unfinalized(t)
               /\ t.locations[remaining[i]] = [segment |-> last, position |-> next + i - 1]
    <3>1. k + i \in 1..n /\ k < k + i
      BY <1>5, <1>19
    <3>2. remaining[i] = blocks[k + i]
      BY Zenon, <1>20
    <3>3. remaining[i] \in Unfinalized(t)
      BY Zenon, <1>26, <3>1, <3>2
    <3>4. s.locations[blocks[k + i]] = [segment |-> last, position |-> segment.first + (k + i) - 1]
      BY Zenon, <1>12, <3>1
    <3>5. segment.first + (k + i) - 1 = next + i - 1
      BY <1>7, <1>19
    <3> QED
      BY Zenon, <1>21, <3>2, <3>3, <3>4, <3>5
  <2>2. ASSUME NEW i \in 2..(n - k) PROVE s.links[remaining[i]].parent = remaining[i - 1]
    <3>1. k + i \in 2..n /\ i \in 1..(n - k) /\ i - 1 \in 1..(n - k) /\ (k + i) - 1 = k + (i - 1)
      BY <1>5, <1>19
    <3> QED
      BY Zenon, <1>20, <1>13, <3>1
  <2>3. \A r \in Unfinalized(t) : s.links[r].parent # remaining[n - k]
    <3>1. n - k \in 1..(n - k) /\ k + (n - k) = n
      BY <1>19, <1>20
    <3> QED
      BY Zenon, <1>20, <1>28, <1>14, <3>1
  <2>4. {s.links[remaining[1]].parent} \cap Unfinalized(t) = {}
    <3>1. 1 \in 1..(n - k) /\ k + 1 \in 2..n /\ (k + 1) - 1 = k /\ ~(k < k)
      BY <1>5, <1>19, <1>20
    <3>2. s.links[remaining[1]].parent = blocks[k]
      BY Zenon, <1>20, <1>13, <3>1
    <3>3. blocks[k] \notin Unfinalized(t)
      BY Zenon, <1>5, <1>26, <3>1
    <3> QED
      BY Zenon, <3>2, <3>3
  <2>5. /\ DOMAIN kept = {"blocks", "first", "head"}
        /\ kept.first \in Nat /\ kept.first = next
        /\ kept.blocks \in Seq(DOMAIN s.links) /\ kept.blocks # <<>>
        /\ kept.blocks = remaining /\ Len(kept.blocks) = n - k
    BY Zenon, <1>20, <1>27, <1>16
  <2> QED
    BY ZenonT(30), <1>1, <1>22, <2>1, <2>2, <2>3, <2>4, <2>5 DEF IsSegment
<1>31. ASSUME NEW r \in Unfinalized(t)
       PROVE  \E id \in DOMAIN t.unfinalized : r \in Range(t.unfinalized[id].blocks)
  <2> DEFINE id == s.locations[r].segment
             own == s.unfinalized[id].blocks
             j == s.locations[r].position - s.unfinalized[id].first + 1
  <2>1. id \in DOMAIN s.unfinalized /\ j \in 1..Len(own) /\ own[j] = r /\ r \in Range(own)
    BY Zenon, <1>4, <1>28, BlockIsLocated, InRange
  <2>2. id \in DOMAIN t.unfinalized
    BY Zenon, <1>22, <1>23, <2>1
  <2>3. CASE id # last
    BY Zenon, <1>22, <2>1, <2>2, <2>3
  <2>4. CASE id = last
    <3> HIDE DEF id, j
    <3>1. j \in 1..n /\ blocks[j] = r
      BY Zenon, <2>1, <2>4 DEF n, blocks, segment
    <3>2. k < j
      BY Zenon, <1>26, <3>1
    <3>3. j - k \in 1..(n - k) /\ k + (j - k) = j
      BY <1>19, <3>1, <3>2
    <3>4. remaining[j - k] = r
      BY Zenon, <1>20, <3>1, <3>3
    <3>5. DOMAIN remaining = 1..(n - k)
      BY <1>20
    <3>6. r \in Range(remaining)
      BY Zenon, <3>3, <3>4, <3>5 DEF Range
    <3> QED
      BY Zenon, <1>22, <1>27, <2>2, <2>4, <3>6
  <2> QED
    BY Zenon, <2>3, <2>4
<1>32. Segmented(t)
  <2>1. \E m \in Nat : DOMAIN t.unfinalized \subseteq 1..m
    BY Zenon, <1>4, <1>22 DEF Segmented
  <2> QED
    BY Zenon, <1>29, <1>30, <1>31, <2>1 DEF Segmented
<1>33. Rooted(t)
  BY Zenon, <1>4, <1>1 DEF Rooted
<1>34. Divided(t)
  <2>1. \A r \in path : s.links[r].parent \in path \cup s.finalized
    BY Zenon, <1>4, <1>9 DEF Attached, ContainsBlock, IsPath
  <2> QED
    BY Zenon, <1>4, <1>9, <1>1, <1>21, <2>1 DEF Divided, LastFinalized, IsPath
<1>35. ASSUME NEW r \in Unfinalized(t), t.locations[r].segment = last,
              t.locations[r].position < s.locations[root].position
       PROVE  FALSE
  <2> DEFINE id == s.locations[r].segment
             own == s.unfinalized[id].blocks
             j == s.locations[r].position - s.unfinalized[id].first + 1
  <2>1. j \in 1..Len(own) /\ own[j] = r
    BY Zenon, <1>4, <1>28, BlockIsLocated
  <2>2. id = last /\ s.locations[r].position < s.locations[root].position
    BY Zenon, <1>21, <1>35
  <2>3. j \in 1..n /\ blocks[j] = r /\ j = s.locations[r].position - segment.first + 1
    BY Zenon, <2>1, <2>2 DEF n, blocks, segment
  <2> HIDE DEF id, own, j
  <2>4. s.locations[r] = [segment |-> last, position |-> segment.first + j - 1]
    BY Zenon, <1>12, <2>3
  <2>5. j < k
    BY SMTT(20), <1>7, <1>19, <2>2, <2>3, <2>4
  <2>6. k < j
    BY Zenon, <1>26, <2>3
  <2> QED
    BY <1>19, <2>3, <2>5, <2>6
<1>36. ASSUME NEW r \in U, r \in path, s.links[r].parent \in Unfinalized(t) \cup {root}
       PROVE  FALSE
  <2>1. s.links[r].parent = root
    BY Zenon, <1>9, <1>21, <1>36 DEF IsPath
  <2>2. r \in DOMAIN s.links \ {Anchor}
    BY Zenon, <1>4 DEF Divided
  <2>3. s.links[root].slot < s.links[r].slot /\ s.links[root].slot \in Nat /\ s.links[r].slot \in Nat
    BY Zenon, <1>4, <2>1, <2>2 DEF Rooted
  <2>4. s.links[r].slot <= s.links[root].slot
    BY Zenon, <1>9, <1>36 DEF IsPath
  <2> QED
    BY <2>3, <2>4
<1>37. ASSUME NEW r \in U, r \in orphaned, s.links[r].parent \in Unfinalized(t) \cup {root}
       PROVE  FALSE
  <2> DEFINE id == s.locations[r].segment
             own == s.unfinalized[id].blocks
             j == s.locations[r].position - s.unfinalized[id].first + 1
             I == {i \in 1..Len(own) : own[i] \in path}
  <2>1. id \in complete /\ r \notin path
    BY Zenon, <1>11, <1>24, <1>37
  <2>2. id \in DOMAIN s.unfinalized /\ j \in 1..Len(own) /\ own[j] = r
    BY Zenon, <1>4, BlockIsLocated
  <2>3. IsSegment(s, id)
    BY Zenon, <1>4, <2>2 DEF Segmented
  <2>4. /\ \A i \in 1..Len(own) :
             /\ own[i] \in U
             /\ s.locations[own[i]] = [segment |-> id, position |-> s.unfinalized[id].first + i - 1]
        /\ \A i \in 2..Len(own) : s.links[own[i]].parent = own[i - 1]
        /\ own \in Seq(DOMAIN s.links)
    BY Zenon, <2>3 DEF IsSegment
  <2>5. I # {}
    <3>1. PICK q \in path : s.locations[q].segment = id
      BY Zenon, <1>3, <2>1
    <3>2. q \in U
      BY Zenon, <1>9 DEF IsPath
    <3>3. \E i \in 1..Len(s.unfinalized[s.locations[q].segment].blocks) :
            s.unfinalized[s.locations[q].segment].blocks[i] = q
      BY Zenon, <1>4, <3>2, BlockIsLocated
    <3> QED
      BY Zenon, <3>1, <3>3
  <2>6. \A i \in I : i \in 1..Len(own) /\ own[i] \in path
    BY Zenon
  <2>7. \A i \in 1..Len(own) : own[i] \in path => i \in I
    BY Zenon
  <2> HIDE DEF id, own, j, I
  <2>8. Len(own) \in Nat
    BY <2>4
  <2>9. I \subseteq Nat
    BY <2>6, <2>8
  <2>10. PICK i \in I : \A m \in I : i <= m
    BY Zenon, <2>5, <2>9, LeastNatural
  <2>11. i = 1
    <3> SUFFICES ASSUME i # 1 PROVE FALSE
      BY Zenon
    <3>1. i \in 2..Len(own) /\ i - 1 \in 1..Len(own) /\ ~(i <= i - 1)
      BY <2>6, <2>8
    <3>2. own[i - 1] \in path
      BY Zenon, <1>9, <2>4, <2>6, <3>1 DEF IsPath
    <3> QED
      BY Zenon, <2>7, <2>10, <3>1, <3>2
  <2>12. j # 1
    BY Zenon, <2>1, <2>2, <2>6, <2>10, <2>11
  <2>13. j \in 2..Len(own) /\ j - 1 \in 1..Len(own)
    BY <2>2, <2>8, <2>12
  <2>14. s.links[r].parent = own[j - 1] /\ own[j - 1] \in U
    BY Zenon, <2>2, <2>4, <2>13
  <2>15. s.locations[own[j - 1]] = [segment |-> id, position |-> s.unfinalized[id].first + (j - 1) - 1]
    BY Zenon, <2>4, <2>13
  <2>16. s.locations[own[j - 1]].segment = id
    BY <2>15
  <2>17. own[j - 1] \notin Unfinalized(t)
    BY Zenon, <1>23, <2>1, <2>16
  <2>18. own[j - 1] # root
    BY Zenon, <1>2, <2>1, <2>16 DEF last
  <2> QED
    BY Zenon, <1>37, <2>14, <2>17, <2>18
<1>38. Spares(s, t)
  BY Zenon, <1>1, <1>21, <1>36, <1>37 DEF Spares, LastFinalized
<1> QED
  BY Zenon, <1>28, <1>32, <1>33, <1>34, <1>35, <1>38 DEF IsCut, last

-----------------------------------------------------------------------------
(***************************************************************************)
(* Pruning                                                                 *)
(***************************************************************************)

\* What remove_orphaned writes.
LEMMA RemoveSegmentsFields ==
  ASSUME NEW s, TreeFields \subseteq DOMAIN s, NEW ids
  PROVE  LET t == RemoveSegments(s, ids)
         IN  /\ DOMAIN t = DOMAIN s /\ t.panic = s.panic /\ t.links = s.links
             /\ t.finalized = s.finalized /\ t.lastFinalized = s.lastFinalized
             /\ t.finalizedCheckpoint = s.finalizedCheckpoint
             /\ t.unfinalized = Without(s.unfinalized, ids)
             /\ t.locations = Without(s.locations, UNION {Range(s.unfinalized[id].blocks) : id \in ids})
  BY Zenon DEF RemoveSegments, TreeFields

\* Segments go with their blocks, and the other blocks keep their locations.
Removes(s, ids, t) ==
  /\ Unfinalized(t) = {r \in Unfinalized(s) : s.locations[r].segment \notin ids}
  /\ \A r \in Unfinalized(t) : t.locations[r] = s.locations[r]
  /\ DOMAIN t.unfinalized = DOMAIN s.unfinalized \ ids
  /\ \A id \in DOMAIN t.unfinalized : t.unfinalized[id] = s.unfinalized[id]

\* remove_orphaned removes the blocks of the segments and no others.
LEMMA RemoveSegmentsBlocks ==
  ASSUME NEW s, TreeFields \subseteq DOMAIN s, Segmented(s), NEW ids \in SUBSET DOMAIN s.unfinalized
  PROVE  Removes(s, ids, RemoveSegments(s, ids))
<1> DEFINE t == RemoveSegments(s, ids)
           orphaned == UNION {Range(s.unfinalized[id].blocks) : id \in ids}
<1>1. t.locations = Without(s.locations, orphaned) /\ t.unfinalized = Without(s.unfinalized, ids)
  BY Zenon, RemoveSegmentsFields
<1>2. ASSUME NEW r \in Unfinalized(s) PROVE r \in orphaned <=> s.locations[r].segment \in ids
  <2>1. ASSUME r \in orphaned PROVE s.locations[r].segment \in ids
    <3>1. PICK id \in ids : r \in Range(s.unfinalized[id].blocks)
      BY Zenon, <2>1
    <3>2. s.locations[r].segment = id
      BY Zenon, <3>1, InRange
    <3> QED
      BY Zenon, <3>2
  <2>2. ASSUME s.locations[r].segment \in ids PROVE r \in orphaned
    <3>1. r \in Range(s.unfinalized[s.locations[r].segment].blocks)
      BY Zenon, InRange
    <3> QED
      BY Zenon, <2>2, <3>1
  <2> QED
    BY Zenon, <2>1, <2>2
<1> HIDE DEF t, orphaned
<1>3. /\ Unfinalized(t) = Unfinalized(s) \ orphaned
      /\ \A r \in Unfinalized(t) : t.locations[r] = s.locations[r]
  BY <1>1 DEF Unfinalized, Without, Restrict
<1>4. /\ DOMAIN t.unfinalized = (DOMAIN s.unfinalized) \ ids
      /\ \A id \in DOMAIN t.unfinalized : t.unfinalized[id] = s.unfinalized[id]
  BY <1>1 DEF Without, Restrict
<1>5. Unfinalized(t) = {r \in Unfinalized(s) : s.locations[r].segment \notin ids}
  BY Zenon, <1>2, <1>3
<1> QED
  BY Zenon, <1>3, <1>4, <1>5 DEF Removes, t

\* The parent of the first block of a segment.
Under(s, id) == s.links[FirstBlock(s.unfinalized[id])].parent

\* A segment hangs on the last finalized block, or on another segment that is
\* not gone.
Hangs(s, gone, id) ==
  \/ Under(s, id) = LastFinalized(s)
  \/ Under(s, id) \in Unfinalized(s) /\ s.locations[Under(s, id)].segment \notin gone

\* What the walk of prune_orphans in the order of IDs comes to.
Prunes(s, gone) == \A id \in DOMAIN s.unfinalized : id \in gone <=> ~Hangs(s, gone, id)

\* should_prune_segment finds the segments that hang on nothing: the segment a
\* segment hangs on comes before it, and no block is left that would be before
\* the finalized one.
LEMMA ShouldPruneFindsOrphans ==
  ASSUME NEW s, TreeFields \subseteq DOMAIN s, NEW at, IsCut(s, at), NEW gone \in SUBSET DOMAIN s.unfinalized,
         NEW id \in DOMAIN s.unfinalized
  PROVE  ShouldPrune(RemoveSegments(s, {g \in gone : g < id}), id, at) <=> ~Hangs(s, gone, id)
<1> DEFINE before == {g \in gone : g < id}
           t == RemoveSegments(s, before)
           under == Under(s, id)
<1>1. Rooted(s) /\ Divided(s) /\ Segmented(s)
  BY Zenon DEF IsCut
<1>2. t.links = s.links /\ t.lastFinalized = s.lastFinalized
  BY Zenon, RemoveSegmentsFields
<1>3. PICK n \in Nat : DOMAIN s.unfinalized \subseteq 1..n
  BY Zenon, <1>1 DEF Segmented
<1>4. before \in SUBSET DOMAIN s.unfinalized /\ id \notin before
  BY <1>3
<1>5. before = {g \in gone : g < id} /\ t = RemoveSegments(s, before)
  BY Zenon
<1> HIDE DEF t, before
<1>6. /\ Unfinalized(t) = {r \in Unfinalized(s) : s.locations[r].segment \notin before}
      /\ \A r \in Unfinalized(t) : t.locations[r] = s.locations[r]
      /\ DOMAIN t.unfinalized = DOMAIN s.unfinalized \ before
      /\ \A i \in DOMAIN t.unfinalized : t.unfinalized[i] = s.unfinalized[i]
  <2>1. Removes(s, before, RemoveSegments(s, before))
    BY Zenon, <1>1, <1>4, RemoveSegmentsBlocks
  <2> QED
    BY Zenon, <1>5, <2>1 DEF Removes
<1>7. \A r \in {under} \cap Unfinalized(s) : s.locations[r].segment < id
  <2>1. IsSegment(s, id)
    BY Zenon, <1>1 DEF Segmented
  <2>2. s.unfinalized[id].blocks \in Seq(DOMAIN s.links) /\ s.unfinalized[id].blocks # <<>>
    BY Zenon, <2>1 DEF IsSegment
  <2>3. s.unfinalized[id].blocks[1] = FirstBlock(s.unfinalized[id])
    BY <2>2 DEF FirstBlock
  <2> QED
    BY Zenon, <2>1, <2>3 DEF IsSegment, Under
<1>8. Under(t, id) = under
  BY Zenon, <1>2, <1>4, <1>6 DEF Under
<1>9. under \in Unfinalized(t) <=> under \in Unfinalized(s) /\ s.locations[under].segment \notin gone
  BY Zenon, <1>6, <1>7, <1>5
<1>10. \A r \in Unfinalized(t) : ~(t.locations[r].segment = at.segment /\ t.locations[r].position < at.position)
  BY Zenon, <1>6 DEF IsCut
<1>11. ShouldPrune(t, id, at) <=> under # LastFinalized(s) /\ under \notin Unfinalized(t)
  BY Zenon, <1>2, <1>8, <1>10 DEF ShouldPrune, IsRoot, ParentLocation, Under, LastFinalized
<1> QED
  BY Zenon, <1>9, <1>11 DEF Hangs, t, before

\* The walk has an outcome: what it leaves is the least set of segments with
\* those that hang on the last finalized block, and on one another.
LEMMA PruningHasOutcome ==
  ASSUME NEW s, Segmented(s)
  PROVE  \E gone \in SUBSET DOMAIN s.unfinalized : Prunes(s, gone)
<1> DEFINE ids == DOMAIN s.unfinalized
           On(id) == s.locations[Under(s, id)].segment
           Inner(id) == Under(s, id) \in Unfinalized(s)
           F(T) == {id \in ids : Under(s, id) = LastFinalized(s) \/ (Inner(id) /\ On(id) \in T)}
           K == {id \in ids : \A T \in SUBSET ids : F(T) \subseteq T => id \in T}
           gone == ids \ K
<1>1. \A id \in ids : Inner(id) => On(id) \in ids
  BY Zenon, BlockIsLocated
<1> HIDE DEF On, Inner
<1>2. F(K) \subseteq K
  OBVIOUS
<1>3. K \subseteq F(K)
  <2>1. F(F(K)) \subseteq F(K)
    BY <1>2
  <2>2. F(K) \in SUBSET ids
    BY Zenon
  <2> HIDE DEF F
  <2> QED
    BY Zenon, <2>1, <2>2
<1>4. \A id \in ids : id \in K <=> Under(s, id) = LastFinalized(s) \/ (Inner(id) /\ On(id) \in K)
  BY Zenon, <1>2, <1>3
<1>5. K \subseteq ids
  BY Zenon
<1> HIDE DEF K
<1>6. \A id \in ids : id \in gone <=> ~(Under(s, id) = LastFinalized(s) \/ (Inner(id) /\ On(id) \notin gone))
  BY Zenon, <1>1, <1>4, <1>5
<1>7. Prunes(s, gone)
  BY Zenon, <1>6 DEF Prunes, Hangs, On, Inner
<1> QED
  BY Zenon, <1>7

\* prune_orphans removes the segments that do not hang on the finalized block.
LEMMA PruneOrphansPrunes ==
  ASSUME NEW s, TreeFields \subseteq DOMAIN s, NEW at, IsCut(s, at)
  PROVE  \E gone \in SUBSET DOMAIN s.unfinalized :
           Prunes(s, gone) /\ PruneOrphans(s, at) = RemoveSegments(s, gone)
<1> DEFINE ids == DOMAIN s.unfinalized
           Right(gone) == \A id \in ids : id \in gone <=>
                             ShouldPrune(RemoveSegments(s, {g \in gone : g < id}), id, at)
<1>1. \A gone \in SUBSET ids : Right(gone) <=> Prunes(s, gone)
  BY Zenon, ShouldPruneFindsOrphans DEF Prunes
<1>2. \E gone \in SUBSET ids : Right(gone)
  BY Zenon, <1>1, PruningHasOutcome DEF IsCut
<1>3. PruneOrphans(s, at) = RemoveSegments(s, CHOOSE gone \in SUBSET ids : Right(gone))
  BY Zenon DEF PruneOrphans
<1> HIDE DEF Right
<1>4. PICK gone : gone = (CHOOSE g \in SUBSET ids : Right(g))
  BY Zenon
<1>5. gone \in SUBSET ids /\ Right(gone)
  BY Zenon, <1>2, <1>4
<1> QED
  BY Zenon, <1>1, <1>3, <1>4, <1>5

\* No block has lost its parent, and those next to a finalized block are next
\* to the last one.
Trimmed(s) == \A r \in Unfinalized(s) : s.links[r].parent \in Unfinalized(s) \cup {LastFinalized(s)}

\* prune_orphans makes what finalize_blocks leaves a tree again, and takes no
\* block that hangs on what it leaves.
LEMMA PruneOrphansTrims ==
  ASSUME NEW s, TreeFields \subseteq DOMAIN s, NEW at, IsCut(s, at), NEW t, t = PruneOrphans(s, at)
  PROVE  /\ DOMAIN t = DOMAIN s /\ t.panic = s.panic /\ t.links = s.links
         /\ t.finalized = s.finalized /\ t.lastFinalized = s.lastFinalized
         /\ Unfinalized(t) \subseteq Unfinalized(s)
         /\ IsTree(t) /\ Trimmed(t) /\ Spares(s, t)
<1>0. \E gone \in SUBSET DOMAIN s.unfinalized :
        Prunes(s, gone) /\ PruneOrphans(s, at) = RemoveSegments(s, gone)
  BY PruneOrphansPrunes
<1>1. PICK gone \in SUBSET DOMAIN s.unfinalized : Prunes(s, gone) /\ t = RemoveSegments(s, gone)
  BY Zenon, <1>0
<1>2. Rooted(s) /\ Divided(s) /\ Segmented(s)
  BY Zenon DEF IsCut
<1>3. /\ DOMAIN t = DOMAIN s /\ t.panic = s.panic /\ t.links = s.links
      /\ t.finalized = s.finalized /\ t.lastFinalized = s.lastFinalized
  <2> DEFINE removed == RemoveSegments(s, gone)
  <2>1. /\ DOMAIN removed = DOMAIN s /\ removed.panic = s.panic /\ removed.links = s.links
        /\ removed.finalized = s.finalized /\ removed.lastFinalized = s.lastFinalized
    BY Zenon, RemoveSegmentsFields
  <2> QED
    BY Zenon, <1>1, <2>1
<1>4. /\ Unfinalized(t) = {r \in Unfinalized(s) : s.locations[r].segment \notin gone}
      /\ \A r \in Unfinalized(t) : t.locations[r] = s.locations[r]
      /\ DOMAIN t.unfinalized = DOMAIN s.unfinalized \ gone
      /\ \A id \in DOMAIN t.unfinalized : t.unfinalized[id] = s.unfinalized[id]
  <2>1. Removes(s, gone, RemoveSegments(s, gone))
    BY Zenon, <1>2, RemoveSegmentsBlocks
  <2> QED
    BY Zenon, <1>1, <2>1 DEF Removes
<1>5. ASSUME NEW id \in DOMAIN t.unfinalized PROVE IsSegment(t, id)
  <2>1. id \in DOMAIN s.unfinalized /\ id \notin gone /\ t.unfinalized[id] = s.unfinalized[id]
    BY Zenon, <1>4
  <2>2. IsSegment(s, id)
    BY Zenon, <1>2, <2>1 DEF Segmented
  <2> DEFINE own == s.unfinalized[id].blocks
  <2>3. ASSUME NEW i \in 1..Len(own)
        PROVE  /\ own[i] \in Unfinalized(t)
               /\ t.locations[own[i]] = [segment |-> id, position |-> s.unfinalized[id].first + i - 1]
    <3>1. own[i] \in Unfinalized(s) /\ s.locations[own[i]] = [segment |-> id, position |-> s.unfinalized[id].first + i - 1]
      BY Zenon, <2>2 DEF IsSegment
    <3>2. s.locations[own[i]].segment = id
      BY <3>1
    <3> QED
      BY Zenon, <1>4, <2>1, <3>1, <3>2
  <2>4. \A r \in {s.links[own[1]].parent} \cap Unfinalized(t) : t.locations[r].segment < id
    BY Zenon, <1>4, <2>2 DEF IsSegment
  <2>5. /\ DOMAIN s.unfinalized[id] = {"blocks", "first", "head"}
        /\ s.unfinalized[id].first \in Nat
        /\ own \in Seq(DOMAIN s.links) /\ own # <<>>
        /\ \A i \in 2..Len(own) : s.links[own[i]].parent = own[i - 1]
        /\ \A r \in Unfinalized(t) : s.links[r].parent # own[Len(own)]
    BY Zenon, <1>4, <2>2 DEF IsSegment
  <2> QED
    BY Zenon, <1>3, <2>1, <2>3, <2>4, <2>5 DEF IsSegment
<1>6. Segmented(t)
  <2>1. \E m \in Nat : DOMAIN t.unfinalized \subseteq 1..m
    BY Zenon, <1>2, <1>4 DEF Segmented
  <2>2. ASSUME NEW r \in Unfinalized(t)
        PROVE  \E id \in DOMAIN t.unfinalized : r \in Range(t.unfinalized[id].blocks)
    <3>1. /\ s.locations[r].segment \in DOMAIN s.unfinalized
          /\ r \in Range(s.unfinalized[s.locations[r].segment].blocks)
      BY Zenon, <1>2, <1>4, BlockIsLocated, InRange
    <3> QED
      BY Zenon, <1>4, <3>1
  <2> QED
    BY Zenon, <1>5, <2>1, <2>2 DEF Segmented
<1>7. ASSUME NEW r \in Unfinalized(t)
      PROVE  s.links[r].parent \in Unfinalized(t) \cup {LastFinalized(t)}
  <2> DEFINE id == s.locations[r].segment
             own == s.unfinalized[id].blocks
             j == s.locations[r].position - s.unfinalized[id].first + 1
             p == s.links[r].parent
  <2>1. id \in DOMAIN s.unfinalized /\ j \in 1..Len(own) /\ own[j] = r
    BY Zenon, <1>2, <1>4, BlockIsLocated
  <2>2. id \notin gone
    BY Zenon, <1>4
  <2>3. IsSegment(s, id)
    BY Zenon, <1>2, <2>1 DEF Segmented
  <2>4. /\ \A i \in 1..Len(own) :
             /\ own[i] \in Unfinalized(s)
             /\ s.locations[own[i]] = [segment |-> id, position |-> s.unfinalized[id].first + i - 1]
        /\ \A i \in 2..Len(own) : s.links[own[i]].parent = own[i - 1]
        /\ own \in Seq(DOMAIN s.links) /\ own # <<>>
    BY Zenon, <2>3 DEF IsSegment
  <2>5. Hangs(s, gone, id)
    BY Zenon, <1>1, <2>1, <2>2 DEF Prunes
  <2>6. FirstBlock(s.unfinalized[id]) = Head(own)
    BY Zenon DEF FirstBlock
  <2> HIDE DEF id, own, j
  <2>9. Head(own) = own[1] /\ Len(own) \in Nat
    <3>1. own \in Seq(DOMAIN s.links) /\ own # <<>>
      BY Zenon, <2>4
    <3> QED
      BY <3>1
  <2>7. CASE j = 1
    BY Zenon, <1>3, <1>4, <2>1, <2>5, <2>6, <2>7, <2>9 DEF Hangs, Under, LastFinalized
  <2>8. CASE j # 1
    <3>1. j \in 2..Len(own) /\ j - 1 \in 1..Len(own)
      BY <2>1, <2>8, <2>9
    <3>2. p = own[j - 1] /\ own[j - 1] \in Unfinalized(s)
      BY Zenon, <2>1, <2>4, <3>1
    <3>3. s.locations[own[j - 1]] = [segment |-> id, position |-> s.unfinalized[id].first + (j - 1) - 1]
      BY Zenon, <2>4, <3>1
    <3>4. s.locations[own[j - 1]].segment = id
      BY <3>3
    <3> QED
      BY Zenon, <1>4, <2>2, <3>2, <3>4
  <2> QED
    BY Zenon, <2>7, <2>8
<1>8. Trimmed(t)
  BY Zenon, <1>3, <1>7 DEF Trimmed
<1>9. Rooted(t) /\ Divided(t)
  BY Zenon, <1>2, <1>3, <1>4 DEF Rooted, Divided, LastFinalized
<1>10. Attached(t)
  BY Zenon, <1>8, <1>9 DEF Trimmed, Attached, ContainsBlock, Divided
<1>11. ASSUME NEW r \in Unfinalized(s), r \notin Unfinalized(t)
       PROVE  s.links[r].parent \notin Unfinalized(t) \cup {LastFinalized(t)}
  <2> DEFINE id == s.locations[r].segment
             own == s.unfinalized[id].blocks
             j == s.locations[r].position - s.unfinalized[id].first + 1
             p == s.links[r].parent
  <2>1. id \in DOMAIN s.unfinalized /\ j \in 1..Len(own) /\ own[j] = r
    BY Zenon, <1>2, BlockIsLocated
  <2>2. id \in gone
    BY Zenon, <1>4, <1>11
  <2>3. IsSegment(s, id)
    BY Zenon, <1>2, <2>1 DEF Segmented
  <2>4. /\ \A i \in 1..Len(own) :
             /\ own[i] \in Unfinalized(s)
             /\ s.locations[own[i]] = [segment |-> id, position |-> s.unfinalized[id].first + i - 1]
        /\ \A i \in 2..Len(own) : s.links[own[i]].parent = own[i - 1]
        /\ own \in Seq(DOMAIN s.links) /\ own # <<>>
    BY Zenon, <2>3 DEF IsSegment
  <2>5. ~Hangs(s, gone, id)
    BY Zenon, <1>1, <2>1, <2>2 DEF Prunes
  <2>6. FirstBlock(s.unfinalized[id]) = Head(own)
    BY Zenon DEF FirstBlock
  <2> HIDE DEF id, own, j
  <2>7. Head(own) = own[1] /\ Len(own) \in Nat
    <3>1. own \in Seq(DOMAIN s.links) /\ own # <<>>
      BY Zenon, <2>4
    <3> QED
      BY <3>1
  <2>8. CASE j = 1
    BY Zenon, <1>3, <1>4, <2>1, <2>5, <2>6, <2>7, <2>8 DEF Hangs, Under, LastFinalized
  <2>9. CASE j # 1
    <3>1. j \in 2..Len(own) /\ j - 1 \in 1..Len(own)
      BY <2>1, <2>7, <2>9
    <3>2. p = own[j - 1] /\ own[j - 1] \in Unfinalized(s)
      BY Zenon, <2>1, <2>4, <3>1
    <3>3. s.locations[own[j - 1]] = [segment |-> id, position |-> s.unfinalized[id].first + (j - 1) - 1]
      BY Zenon, <2>4, <3>1
    <3>4. s.locations[own[j - 1]].segment = id
      BY <3>3
    <3>5. p \notin Unfinalized(t)
      BY Zenon, <1>4, <2>2, <3>2, <3>4
    <3>6. p # LastFinalized(t)
      BY Zenon, <1>2, <1>3, <3>2 DEF Divided, LastFinalized
    <3> QED
      BY Zenon, <3>5, <3>6
  <2> QED
    BY Zenon, <2>8, <2>9
<1>12. Spares(s, t)
  BY Zenon, <1>11 DEF Spares
<1> QED
  BY Zenon, <1>3, <1>4, <1>6, <1>8, <1>9, <1>10, <1>12 DEF IsTree

\* A method that leaves the tree alone: heads of segments, balances, statuses
\* and the rest of the store may change, and assertions may fail.
Keeps(s, t) ==
  /\ DOMAIN t = DOMAIN s /\ (~t.panic => ~s.panic)
  /\ t.links = s.links /\ t.locations = s.locations
  /\ t.finalized = s.finalized /\ t.lastFinalized = s.lastFinalized
  /\ DOMAIN t.unfinalized = DOMAIN s.unfinalized
  /\ \A id \in DOMAIN s.unfinalized : DOMAIN s.unfinalized[id] = {"blocks", "first", "head"} =>
       /\ DOMAIN t.unfinalized[id] = {"blocks", "first", "head"}
       /\ t.unfinalized[id].blocks = s.unfinalized[id].blocks
       /\ t.unfinalized[id].first = s.unfinalized[id].first

\* One such method after another is one.
LEMMA KeepsTransitive ==
  ASSUME NEW s, NEW t, NEW u, Keeps(s, t), Keeps(t, u)
  PROVE  Keeps(s, u)
  BY Zenon DEF Keeps

\* Such a method keeps the tree a tree.
LEMMA KeepsTree ==
  ASSUME NEW s, NEW t, Keeps(s, t), IsTree(s)
  PROVE  IsTree(t)
<1>1. Unfinalized(t) = Unfinalized(s)
  BY Zenon DEF Keeps, Unfinalized
<1>2. Rooted(t) /\ Divided(t) /\ Attached(t)
  BY Zenon, <1>1 DEF Keeps, IsTree, Rooted, Divided, Attached, ContainsBlock, LastFinalized
<1>3. ASSUME NEW id \in DOMAIN s.unfinalized PROVE IsSegment(t, id)
  <2>1. IsSegment(s, id)
    BY Zenon DEF IsTree, Segmented
  <2> QED
    BY Zenon, <1>1, <2>1 DEF Keeps, IsSegment
<1>4. Segmented(t)
  <2>1. \A id \in DOMAIN s.unfinalized : t.unfinalized[id].blocks = s.unfinalized[id].blocks
    BY Zenon DEF Keeps, IsTree, Segmented, IsSegment
  <2> QED
    BY Zenon, <1>1, <1>3, <2>1 DEF Keeps, IsTree, Segmented
<1> QED
  BY Zenon, <1>2, <1>4 DEF IsTree

\* A block has been finalized, and exactly what does not descend from it is gone.
Settles(s, t) ==
  /\ Trimmed(t) /\ Spares(s, t)
  /\ s.finalized \subseteq t.finalized /\ LastFinalized(t) \notin s.finalized
  /\ \A r \in DOMAIN s.links : r \in DOMAIN t.links /\ t.links[r].parent = s.links[r].parent

\* It makes no difference if there were fewer blocks before.
LEMMA SettlesFewer ==
  ASSUME NEW s, NEW t, NEW u, Settles(t, u), t.finalized = s.finalized, Unfinalized(s) \subseteq Unfinalized(t),
         Unfinalized(s) \subseteq DOMAIN s.links,
         \A r \in DOMAIN s.links : r \in DOMAIN t.links /\ t.links[r].parent = s.links[r].parent
  PROVE  Settles(s, u)
<1>1. \A r \in Unfinalized(s) : t.links[r].parent = s.links[r].parent
  BY Zenon
<1>2. Spares(s, u)
  BY Zenon, <1>1 DEF Settles, Spares
<1> QED
  BY Zenon, <1>2 DEF Settles

\* What an operation that may prune does to a tree: if no assertion fails, it
\* stays a tree, and trimmed to what hangs on the last finalized block if that
\* has changed.
Advances(s, t) ==
  /\ DOMAIN t = DOMAIN s /\ (~t.panic => ~s.panic)
  /\ ~t.panic /\ IsTree(s) =>
       /\ IsTree(t) /\ t.links = s.links
       /\ LastFinalized(t) # LastFinalized(s) => Settles(s, t)

\* A method that leaves the tree alone finalizes nothing.
LEMMA KeepsAdvances ==
  ASSUME NEW s, NEW t, Keeps(s, t)
  PROVE  Advances(s, t)
<1>1. IsTree(s) => IsTree(t)
  BY Zenon, KeepsTree
<1> QED
  BY Zenon, <1>1 DEF Keeps, Advances, LastFinalized

\* Nor does it matter if the tree was left alone before or after.
LEMMA KeepsSettles ==
  ASSUME NEW s, NEW t, NEW u, Keeps(s, t), IsTree(s), Settles(t, u)
  PROVE  Settles(s, u)
<1>1. Unfinalized(t) = Unfinalized(s) /\ t.finalized = s.finalized /\ t.links = s.links
  BY Zenon DEF Keeps, Unfinalized
<1>2. Unfinalized(s) \subseteq DOMAIN s.links
  BY Zenon DEF IsTree, Divided
<1>3. /\ Unfinalized(s) \subseteq Unfinalized(t)
      /\ \A r \in DOMAIN s.links : r \in DOMAIN t.links /\ t.links[r].parent = s.links[r].parent
  BY Zenon, <1>1
<1> QED
  BY SMT, <1>1, <1>2, <1>3, SettlesFewer

LEMMA SettlesKeeps ==
  ASSUME NEW s, NEW t, NEW u, Settles(s, t), Keeps(t, u)
  PROVE  Settles(s, u)
<1>1. /\ Unfinalized(u) = Unfinalized(t) /\ LastFinalized(u) = LastFinalized(t)
      /\ u.finalized = t.finalized /\ u.links = t.links
  BY Zenon DEF Keeps, Unfinalized, LastFinalized
<1> QED
  BY Zenon, <1>1 DEF Settles, Trimmed, Spares

\* Leaving the tree alone first makes no difference ...
LEMMA KeepsThenAdvances ==
  ASSUME NEW s, NEW t, NEW u, Keeps(s, t), Advances(t, u)
  PROVE  Advances(s, u)
<1>1. IsTree(s) => IsTree(t)
  BY Zenon, KeepsTree
<1>2. IsTree(s) /\ Settles(t, u) => Settles(s, u)
  BY Zenon, KeepsSettles
<1> QED
  BY Zenon, <1>1, <1>2 DEF Keeps, Advances, LastFinalized

\* ... nor does doing so last.
LEMMA AdvancesThenKeeps ==
  ASSUME NEW s, NEW t, NEW u, Advances(s, t), Keeps(t, u)
  PROVE  Advances(s, u)
<1>1. IsTree(t) => IsTree(u)
  BY Zenon, KeepsTree
<1>2. Settles(s, t) => Settles(s, u)
  BY Zenon, SettlesKeeps
<1> QED
  BY Zenon, <1>1, <1>2 DEF Keeps, Advances, LastFinalized

\* prune_after_finalization keeps the tree one, and if it finalizes a block then
\* what is left is what hangs on that block.
LEMMA PruneAfterFinalizationSettles ==
  ASSUME NEW s, TreeFields \subseteq DOMAIN s, NEW t, t = PruneAfterFinalization(s)
  PROVE  Advances(s, t)
<1> DEFINE root == s.finalizedCheckpoint.root
           cut == FinalizeBlocks(s)
           u == IF root \in Unfinalized(s) THEN PruneOrphans(cut, s.locations[root]) ELSE s
           kept == Unfinalized(u) \cup {LastFinalized(u)}
<1>1. t = [u EXCEPT !.balances = Restrict(u.balances, DOMAIN u.balances \cap kept), !.payloads = u.payloads \cap kept]
  BY Zenon DEF PruneAfterFinalization
<1>2. DOMAIN cut = DOMAIN s
  BY Zenon DEF FinalizeBlocks
<1>3. u = IF root \in Unfinalized(s) THEN PruneOrphans(cut, s.locations[root]) ELSE s
  BY Zenon
<1>4. cut = FinalizeBlocks(s)
  BY Zenon
<1> HIDE DEF u, kept, cut
<1>5. DOMAIN PruneOrphans(cut, s.locations[root]) = DOMAIN cut /\ PruneOrphans(cut, s.locations[root]).panic = cut.panic
  <2>1. PICK ids : PruneOrphans(cut, s.locations[root]) = RemoveSegments(cut, ids)
    BY Zenon DEF PruneOrphans
  <2>2. DOMAIN RemoveSegments(cut, ids) = DOMAIN cut /\ RemoveSegments(cut, ids).panic = cut.panic
    BY Zenon, <1>2, RemoveSegmentsFields
  <2> QED
    BY Zenon, <2>1, <2>2
<1>6. TreeFields \subseteq DOMAIN u
  BY Zenon, <1>2, <1>3, <1>5
<1>7. Keeps(u, t)
  <2>1. /\ DOMAIN t = DOMAIN u /\ t.panic = u.panic /\ t.links = u.links /\ t.locations = u.locations
        /\ t.finalized = u.finalized /\ t.lastFinalized = u.lastFinalized /\ t.unfinalized = u.unfinalized
    BY Zenon, <1>1, <1>6 DEF TreeFields
  <2> QED
    BY Zenon, <2>1 DEF Keeps
<1>8. CASE root \in Unfinalized(s)
  <2>1. u = PruneOrphans(cut, s.locations[root])
    BY Zenon, <1>8, <1>3
  <2>2. DOMAIN u = DOMAIN s /\ u.panic = cut.panic
    BY Zenon, <1>2, <1>5, <2>1
  <2>3. ~cut.panic => ~s.panic /\ Finalizes(s, cut, root)
    BY Zenon, <1>4, FinalizeBlocksFields
  <2>4. ASSUME ~cut.panic, IsTree(s) PROVE IsTree(u) /\ u.links = s.links /\ Settles(s, u)
    <3>1. IsCut(cut, s.locations[root]) /\ Unfinalized(cut) \subseteq Unfinalized(s) /\ Spares(s, cut)
      BY Zenon, <1>8, <2>3, <2>4, FinalizingCuts
    <3>2. cut.links = s.links /\ s.finalized \subseteq cut.finalized /\ LastFinalized(cut) = root
      BY Zenon, <2>3, <2>4 DEF Finalizes, LastFinalized
    <3>3. TreeFields \subseteq DOMAIN cut
      BY Zenon, <1>2
    <3>4. /\ u.links = cut.links /\ u.finalized = cut.finalized /\ u.lastFinalized = cut.lastFinalized
          /\ Unfinalized(u) \subseteq Unfinalized(cut)
          /\ IsTree(u) /\ Trimmed(u) /\ Spares(cut, u)
      BY SMT, <2>1, <3>1, <3>3, PruneOrphansTrims
    <3>5. LastFinalized(u) = root
      BY Zenon, <3>2, <3>4 DEF LastFinalized
    <3>6. Spares(s, u)
      BY Zenon, <3>1, <3>2, <3>4, <3>5 DEF Spares
    <3>7. root \notin s.finalized
      BY Zenon, <1>8, <2>4 DEF IsTree, Divided
    <3> QED
      BY Zenon, <3>2, <3>4, <3>5, <3>6, <3>7 DEF Settles
  <2>5. Advances(s, u)
    BY Zenon, <2>2, <2>3, <2>4 DEF Advances
  <2> QED
    BY Zenon, <1>7, <2>5, AdvancesThenKeeps
<1>9. CASE root \notin Unfinalized(s)
  BY Zenon, <1>9, <1>3, <1>7, KeepsAdvances
<1> QED
  BY Zenon, <1>8, <1>9

-----------------------------------------------------------------------------
(***************************************************************************)
(* The chain down to the anchor                                            *)
(***************************************************************************)

\* The chains down to the anchor, by root.
IsFullChain(links, chain) ==
  chain = [r \in DOMAIN links |-> {r} \cup (IF r = Anchor THEN {} ELSE chain[links[r].parent])]

\* The recursion of Chain has a solution, as parents come earlier.
LEMMA FullChainExists ==
  ASSUME NEW s, Rooted(s)
  PROVE  \E chain : IsFullChain(s.links, chain)
<1> DEFINE D == DOMAIN s.links
           Par(r) == s.links[r].parent
           Closed(T) == \A x \in T : x # Anchor => Par(x) \in T
           Least(r) == {q \in D : \A T \in SUBSET D : r \in T /\ Closed(T) => q \in T}
           chain == [r \in D |-> Least(r)]
<1>0. \A r \in D \ {Anchor} : Par(r) \in D
  BY Zenon DEF Rooted
<1>1. \A r \in D : r \in Least(r) /\ Least(r) \subseteq D
  OBVIOUS
<1>2. \A r \in D : Closed(Least(r))
  BY <1>0
<1>3. ASSUME NEW r \in D, r # Anchor
      PROVE  Least(r) = {r} \cup Least(Par(r))
  <2>0. Par(r) \in D
    BY Zenon, <1>0, <1>3
  <2>1. {r} \cup Least(Par(r)) \subseteq Least(r)
    BY <1>3, <2>0
  <2>2. Closed({r} \cup Least(Par(r)))
    BY <1>1, <1>2, <1>3, <2>0
  <2>3. {r} \cup Least(Par(r)) \in SUBSET D
    BY <1>1, <2>0
  <2>4. Least(r) \subseteq {r} \cup Least(Par(r))
    BY Zenon, <2>2, <2>3
  <2> QED
    BY Zenon, <2>1, <2>4
<1>4. ASSUME NEW r \in D, r = Anchor
      PROVE  Least(r) = {r}
  <2>1. Closed({r})
    BY <1>4
  <2>2. Least(r) \subseteq {r}
    BY Zenon, <2>1
  <2>3. r \in Least(r)
    BY Zenon, <1>1
  <2> HIDE DEF Least
  <2> QED
    BY Zenon, <2>2, <2>3
<1> HIDE DEF Least
<1>5. \A r \in D : Least(r) = {r} \cup (IF r = Anchor THEN {} ELSE chain[Par(r)])
  BY <1>0, <1>3, <1>4
<1>6. chain = [r \in D |-> {r} \cup (IF r = Anchor THEN {} ELSE chain[Par(r)])]
  BY Zenon, <1>5
<1> QED
  BY Zenon, <1>6 DEF IsFullChain

\* Chain is that solution.
LEMMA ChainIsFullChain ==
  ASSUME NEW s, Rooted(s)
  PROVE  \E chain : IsFullChain(s.links, chain) /\ \A r : Chain(s.links, r) = chain[r]
<1> DEFINE links == s.links
           chain == CHOOSE chain : IsFullChain(links, chain)
<1>1. IsFullChain(links, chain)
  BY Zenon, FullChainExists
<1>2. \A r : Chain(links, r) = chain[r]
  BY Zenon DEF Chain, IsFullChain
<1> QED
  BY Zenon, <1>1, <1>2

\* In a trimmed tree every block descends from the last finalized one.
LEMMA TrimmedDescends ==
  ASSUME NEW s, IsTree(s), Trimmed(s), NEW root \in Unfinalized(s)
  PROVE  LastFinalized(s) \in Chain(s.links, root)
<1>1. Rooted(s) /\ Divided(s)
  BY Zenon DEF IsTree
<1>2. PICK chain : IsFullChain(s.links, chain) /\ \A r : Chain(s.links, r) = chain[r]
  BY Zenon, <1>1, ChainIsFullChain
<1> DEFINE U == Unfinalized(s)
           last == LastFinalized(s)
           Bad == {r \in U : last \notin chain[r]}
           Slots == {s.links[r].slot : r \in Bad}
<1>3. Slots \subseteq Nat
  BY <1>1 DEF Rooted, Divided
<1>4. \A r \in DOMAIN s.links \ {Anchor} : chain[r] = {r} \cup chain[s.links[r].parent]
  BY Zenon, <1>2 DEF IsFullChain
<1>5. \A r \in DOMAIN s.links : r \in chain[r]
  BY <1>2 DEF IsFullChain
<1>6. U \subseteq DOMAIN s.links \ {Anchor} /\ last \in DOMAIN s.links
  BY <1>1 DEF Divided
<1>7. ASSUME Bad # {} PROVE FALSE
  <2>1. Slots # {}
    BY Zenon, <1>7
  <2>2. PICK x \in Slots : \A y \in Slots : x <= y
    BY Zenon, <1>3, <2>1, LeastNatural
  <2>3. PICK r \in Bad : x = s.links[r].slot
    BY Zenon, <2>2
  <2> DEFINE p == s.links[r].parent
  <2>4. r \in U /\ last \notin chain[r]
    BY Zenon, <2>3
  <2>5. last \notin chain[p]
    BY Zenon, <1>4, <1>6, <2>4
  <2>6. p \in U
    BY Zenon, <1>5, <1>6, <2>4, <2>5 DEF Trimmed
  <2>7. s.links[p].slot \in Slots
    BY Zenon, <2>5, <2>6
  <2>8. s.links[p].slot < s.links[r].slot /\ s.links[p].slot \in Nat /\ s.links[r].slot \in Nat
    BY Zenon, <1>1, <1>6, <2>4, <2>6 DEF Rooted
  <2>9. x <= s.links[p].slot
    BY Zenon, <2>2, <2>7
  <2> QED
    BY <2>3, <2>8, <2>9
<1> QED
  BY Zenon, <1>2, <1>7

\* The chain of a block stays in a set that has the block and the parents of
\* its members.
LEMMA ClosedChain ==
  ASSUME NEW s, Rooted(s), NEW F, F \subseteq DOMAIN s.links,
         \A r \in F \ {Anchor} : s.links[r].parent \in F, NEW root \in F
  PROVE  Chain(s.links, root) \subseteq F
<1>1. PICK chain : IsFullChain(s.links, chain) /\ \A r : Chain(s.links, r) = chain[r]
  BY Zenon, ChainIsFullChain
<1> DEFINE Bad == {r \in F : ~(chain[r] \subseteq F)}
           Slots == {s.links[r].slot : r \in Bad}
<1>2. Slots \subseteq Nat
  BY DEF Rooted
<1>3. /\ \A r \in DOMAIN s.links \ {Anchor} : chain[r] = {r} \cup chain[s.links[r].parent]
      /\ chain[Anchor] = {Anchor}
  BY <1>1 DEF IsFullChain, Rooted
<1>4. ASSUME Bad # {} PROVE FALSE
  <2>1. Slots # {}
    BY Zenon, <1>4
  <2>2. PICK x \in Slots : \A y \in Slots : x <= y
    BY Zenon, <1>2, <2>1, LeastNatural
  <2>3. PICK r \in Bad : x = s.links[r].slot
    BY Zenon, <2>2
  <2> DEFINE p == s.links[r].parent
  <2>4. r \in F /\ ~(chain[r] \subseteq F)
    BY Zenon, <2>3
  <2>5. r # Anchor
    BY <1>3, <2>4
  <2>6. p \in F /\ chain[r] = {r} \cup chain[p]
    BY Zenon, <1>3, <2>4, <2>5
  <2>7. p \in Bad
    BY <2>4, <2>6
  <2>8. s.links[p].slot \in Slots
    BY Zenon, <2>7
  <2>9. s.links[p].slot < s.links[r].slot /\ s.links[p].slot \in Nat /\ s.links[r].slot \in Nat
    BY Zenon, <2>4, <2>5, <2>6 DEF Rooted
  <2>10. x <= s.links[p].slot
    BY Zenon, <2>2, <2>8
  <2> QED
    BY <2>3, <2>9, <2>10
<1> QED
  BY Zenon, <1>1, <1>4

\* Once the tree has settled no descendant of the finalized block is lost.
LEMMA SettlesSparesDescendants ==
  ASSUME NEW s, IsTree(s), NEW t, IsTree(t), Settles(s, t), NEW root \in Unfinalized(s),
         LastFinalized(t) \in Chain(t.links, root)
  PROVE  ContainsBlock(t, root)
<1>1. Divided(s) /\ Attached(s) /\ Rooted(t) /\ Divided(t)
  BY Zenon DEF IsTree
<1>2. PICK chain : IsFullChain(t.links, chain) /\ \A r : Chain(t.links, r) = chain[r]
  BY Zenon, <1>1, ChainIsFullChain
<1> DEFINE U == Unfinalized(s)
           last == LastFinalized(t)
           Bad == {r \in U : last \in chain[r] /\ r # last /\ r \notin Unfinalized(t)}
           Slots == {t.links[r].slot : r \in Bad}
<1>3. U \subseteq DOMAIN t.links \ {Anchor}
  BY Zenon, <1>1 DEF Divided, Settles
<1>4. Slots \subseteq Nat
  BY <1>1, <1>3 DEF Rooted
<1>5. \A r \in DOMAIN t.links \ {Anchor} : chain[r] = {r} \cup chain[t.links[r].parent]
  BY Zenon, <1>2 DEF IsFullChain
<1>6. \A r \in U : t.links[r].parent = s.links[r].parent
  BY Zenon, <1>1 DEF Divided, Settles
<1>7. \A r \in s.finalized : last \notin chain[r]
  <2>1. s.finalized \subseteq DOMAIN t.links /\ \A r \in s.finalized \ {Anchor} : t.links[r].parent \in s.finalized
    BY Zenon, <1>1 DEF Divided, Settles
  <2>2. \A r \in s.finalized : Chain(t.links, r) \subseteq s.finalized
    BY Zenon, <1>1, <2>1, ClosedChain
  <2> QED
    BY Zenon, <1>2, <2>2 DEF Settles
<1>8. ASSUME Bad # {} PROVE FALSE
  <2>1. Slots # {}
    BY Zenon, <1>8
  <2>2. PICK x \in Slots : \A y \in Slots : x <= y
    BY Zenon, <1>4, <2>1, LeastNatural
  <2>3. PICK r \in Bad : x = t.links[r].slot
    BY Zenon, <2>2
  <2> DEFINE p == t.links[r].parent
  <2>4. r \in U /\ last \in chain[r] /\ r # last /\ r \notin Unfinalized(t)
    BY Zenon, <2>3
  <2>5. last \in chain[p]
    BY Zenon, <1>3, <1>5, <2>4
  <2>6. p \in U
    BY Zenon, <1>1, <1>6, <1>7, <2>4, <2>5 DEF Attached, ContainsBlock
  <2>7. p # last /\ p \notin Unfinalized(t)
    BY Zenon, <1>6, <2>4 DEF Settles, Spares
  <2>8. t.links[p].slot \in Slots
    BY Zenon, <2>5, <2>6, <2>7
  <2>9. t.links[p].slot < t.links[r].slot /\ t.links[p].slot \in Nat /\ t.links[r].slot \in Nat
    BY Zenon, <1>1, <1>3, <2>4, <2>6 DEF Rooted
  <2>10. x <= t.links[p].slot
    BY Zenon, <2>2, <2>8
  <2> QED
    BY <2>3, <2>9, <2>10
<1>9. root = last \/ root \in Unfinalized(t)
  BY Zenon, <1>2, <1>8
<1> QED
  BY Zenon, <1>1, <1>9 DEF ContainsBlock, Divided
=============================================================================
