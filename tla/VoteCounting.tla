----------------------------- MODULE VoteCounting -----------------------------
(***************************************************************************)
(* How the fork choice store counts votes (store.rs, misc.rs): the latest  *)
(* message of every validator, and for every block how much balance        *)
(* supports it and its descendants ("pending"), and from Gloas on how much *)
(* of that supports it without ("empty") and with ("full") its payload.    *)
(* The sums are never recomputed: every change of a vote or of a balance   *)
(* is turned into differences that travel towards the root.                *)
(*                                                                         *)
(* Fields of the store used here, besides those of BlockTree:              *)
(*   slot                     the slot of the last tick;                   *)
(*   messages                 latest_messages: by validator, or None;      *)
(*   equivocating             equivocating_indices;                        *)
(*   justifiedBalances        justified_active_balances;                   *)
(*   currentSlotAttestations  attestations kept for the next slot;         *)
(*   justifiedCheckpoint;                                                  *)
(*   negative                 the blocks whose balances went below zero    *)
(*                            and were reset (the error is only logged).   *)
(***************************************************************************)
EXTENDS BlockTree

CONSTANTS Validators, None

\* Folds over a set in an order; `LastOf` picks the element that comes last.
FoldInOrder(op(_, _), base, set, LastOf(_)) ==
  MapThenFoldSet(LAMBDA x, acc : op(acc, x), base, LAMBDA x : x, LastOf, set)

Plus(a, b) == [pending |-> a.pending + b.pending, empty |-> a.empty + b.empty, full |-> a.full + b.full]
Minus(a) == [pending |-> -a.pending, empty |-> -a.empty, full |-> -a.full]

\* The difference maps: a block without an entry has no difference.
DifferenceOf(differences, root) == IF root \in DOMAIN differences THEN differences[root] ELSE NoBalance
AddDifference(differences, root, d) == Bind(differences, root, Plus(DifferenceOf(differences, root), d))

\* The differences that a vote is worth where it counts for a payload status.
Worth(s, balance, message) ==
  [pending |-> balance,
   empty   |-> IF PostGloas(s, message.slot) /\ ~message.payload THEN balance ELSE 0,
   full    |-> IF PostGloas(s, message.slot) /\ message.payload THEN balance ELSE 0]

\* A vote counts for a payload status of its block only when it was cast in
\* a later slot than the block's; until then it is "pending".
VoteOf(s, balance, message) ==
  IF ContainsBlock(s, message.root) /\ s.links[message.root].slot < message.slot
  THEN Worth(s, balance, message) ELSE [NoBalance EXCEPT !.pending = balance]

-----------------------------------------------------------------------------
\* What a block's child passes on to it.
PassedOn(pending, presence) ==
  [pending |-> pending,
   empty   |-> IF presence = "empty" THEN pending ELSE 0,
   full    |-> IF presence = "full" THEN pending ELSE 0]

\* AttestingBalances::apply_differences: balances that would go below zero are
\* all reset.
ApplyDifferences(sums, root, presence, d) ==
  LET old == DifferenceOf(sums.balances, root)
      new == IF presence = "pending" THEN [old EXCEPT !.pending = @ + d.pending] ELSE Plus(old, d)
      below == new.pending < 0 \/ new.empty < 0 \/ new.full < 0
  IN  [balances |-> Bind(sums.balances, root, IF below THEN NoBalance ELSE new),
       negative |-> IF below THEN sums.negative \cup {root} ELSE sums.negative]

\* propagate_and_dissolve_differences, with the sums it leads to.  The queue
\* is emptied from the greatest location down.  What a block gets from
\* its child in the segment is merged with its own difference even when it has
\* become zero and decides on the payload presence it is applied with; a
\* segment passes on only what is not zero.
PropagateDifferences(s, differences) ==
  LET given == {r \in DOMAIN differences : differences[r] # NoBalance}
      start == [sums  |-> [balances |-> s.balances, negative |-> s.negative],
                last  |-> IF LastFinalized(s) \in given THEN differences[LastFinalized(s)] ELSE NoBalance,
                queue |-> [r \in given \cap Unfinalized(s) |->
                             [difference |-> differences[r], presence |-> None]]]
      Pop(acc, root) ==
        IF root \notin DOMAIN acc.queue THEN acc ELSE
        LET entry == acc.queue[root]
            link == s.links[root]
            pending == entry.difference.pending
            passed == PassedOn(pending, link.presence)
            at == s.locations[root]
            inSegment == at.position > s.unfinalized[at.segment].first
            queued == link.parent \in DOMAIN acc.queue
            merged == [difference |-> IF queued THEN Plus(acc.queue[link.parent].difference, passed) ELSE passed,
                       presence   |-> IF queued /\ ~inSegment THEN acc.queue[link.parent].presence
                                      ELSE link.presence]
            applied == [acc EXCEPT !.sums = ApplyDifferences(@, root, entry.presence, entry.difference)]
        IN  IF inSegment \/ (pending # 0 /\ link.parent \in Unfinalized(s))
            THEN [applied EXCEPT !.queue = Bind(@, link.parent, merged)]
            ELSE IF pending # 0 /\ link.parent = LastFinalized(s)
            THEN [applied EXCEPT !.last = Plus(@, passed)]
            ELSE applied
      Before(a, b) ==
        LET x == s.locations[a]
            y == s.locations[b]
        IN  x.segment < y.segment \/ (x.segment = y.segment /\ x.position <= y.position)
      end == FoldInOrder(Pop, start, Unfinalized(s),
                         LAMBDA roots : CHOOSE r \in roots : \A q \in roots : Before(r, q))
  IN  IF end.last = NoBalance THEN end.sums
      ELSE ApplyDifferences(end.sums, LastFinalized(s), None, end.last)

\* apply_balance_differences
ApplyBalanceDifferences(s, differences) ==
  LET sums == PropagateDifferences(s, differences)
  IN  [s EXCEPT !.balances = sums.balances, !.negative = sums.negative]

-----------------------------------------------------------------------------
\* attestation_balance_differences for one validator of a past attestation
CountVote(s, acc, v, message) ==
  LET old == acc.messages[v]
      balance == s.justifiedBalances[v]
      same == old # None /\ old.root = message.root /\ old.payload = message.payload
      statusChanged == /\ PostGloas(s, old.slot)
                       /\ ContainsBlock(s, old.root)
                       /\ old.slot <= s.links[old.root].slot /\ s.links[old.root].slot < message.slot
      removed == IF old = None THEN acc.differences
                 ELSE AddDifference(acc.differences, old.root, Minus(VoteOf(s, balance, old)))
  IN  IF v \in s.equivocating \/ (old # None /\ message.slot <= old.slot) THEN acc
      ELSE [acc EXCEPT !.messages[v] = message,
                       !.differences = IF same /\ ~statusChanged THEN @
                                       ELSE AddDifference(removed, message.root, VoteOf(s, balance, message))]

\* attestation_balance_differences for one attestation
CountAttestation(s, acc, a) ==
  LET message == [slot |-> a.slot, root |-> a.root, payload |-> PostGloas(s, s.slot) /\ a.index = 1]
  IN  IF s.slot <= a.slot
      THEN [acc EXCEPT !.kept = Append(@, a)]
      ELSE IF ~a.isFromBlock /\ Epoch(a.slot) < Epoch(s.slot) - 1 THEN acc
      ELSE FoldSet(LAMBDA v, x : CountVote(s, x, v, message), acc, a.validators)

AttestationDifferences(s, attestations) ==
  LET counted[n \in 0..Len(attestations)] ==
        IF n = 0 THEN [messages |-> s.messages, kept |-> s.currentSlotAttestations, differences |-> <<>>]
        ELSE CountAttestation(s, counted[n - 1], attestations[n])
  IN  counted[Len(attestations)]

\* attestation_balance_differences and apply_balance_differences
ApplyVotes(s, attestations) ==
  LET end == AttestationDifferences(s, attestations)
  IN  ApplyBalanceDifferences([s EXCEPT !.messages = end.messages, !.currentSlotAttestations = end.kept],
                              end.differences)

\* Mutant of JustificationDifferences: slashed validators are not left out.
JustificationDifferences_Slashed(s, new) ==
  LET changed == {v \in Validators : s.messages[v] # None /\ s.justifiedBalances[v] # new[v]}
      Add(v, differences) ==
        AddDifference(differences, s.messages[v].root,
                      Worth(s, new[v] - s.justifiedBalances[v], s.messages[v]))
  IN  FoldSet(Add, <<>>, changed)

\* update_balances_after_justification: what the new balances change
JustificationDifferences(s, new) ==
  LET changed == {v \in Validators \ s.equivocating :
                    s.messages[v] # None /\ s.justifiedBalances[v] # new[v]}
      Add(v, differences) ==
        AddDifference(differences, s.messages[v].root,
                      Worth(s, new[v] - s.justifiedBalances[v], s.messages[v]))
  IN  FoldSet(Add, <<>>, changed)

\* update_balances_after_justification: the balances are those of the state of
\* the new justified checkpoint.
UpdateBalancesAfterJustification(s) ==
  LET new == s.links[s.justifiedCheckpoint.root].activeBalances
  IN  ApplyBalanceDifferences([s EXCEPT !.justifiedBalances = new], JustificationDifferences(s, new))

\* apply_attester_slashing: what the votes of slashed validators were worth
SlashingDifferences(s, indices) ==
  LET TakeOut(v, differences) ==
        AddDifference(differences, s.messages[v].root,
                      Minus(VoteOf(s, s.justifiedBalances[v], s.messages[v])))
  IN  FoldSet(TakeOut, <<>>, {v \in indices \ s.equivocating : s.messages[v] # None})

\* apply_attester_slashing, but for the head
Slash(s, indices) ==
  ApplyBalanceDifferences([s EXCEPT !.equivocating = @ \cup indices], SlashingDifferences(s, indices))
=============================================================================
