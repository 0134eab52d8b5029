----------------------------- MODULE MCForkChoice -----------------------------
(***************************************************************************)
(* Instances of the fork choice store for TLC.  Two slots to an epoch are  *)
(* the fewest with which a block can be voted for within its epoch; a      *)
(* chain of blocks at slots 4, 5 and 7 then finalizes its first.  A        *)
(* validator may vote in every slot: the store takes two votes in an epoch.*)
(* Gloas is not reached where its slot is beyond MaxSlot.                  *)
(***************************************************************************)
EXTENDS ForkChoiceProperties

EveryValidator == [slot \in 0..MaxSlot |-> Validators]

NeverGloas == 100

\* One block at a time, no votes and no verdicts.
Plain ==
  [gloas |-> NeverGloas, roots |-> 1..3, balances |-> {10}, children |-> 2,
   interval |-> 0, voteSlots |-> {}, age |-> 1, indices |-> {0, 1}, queued |-> 0, slashings |-> 0,
   inFlight |-> 0, verdicts |-> 0]

\* Forks of up to five blocks, and blocks validated before the store moves on.
TreeInstances == {[Plain EXCEPT !.roots = 1..5, !.inFlight = 1]}

\* Votes that wait for the next slot, slashings and changes of balance; from
\* Gloas on votes for the two statuses of the payloads of one chain.
VoteInstances ==
  {[Plain EXCEPT !.balances = {10, 20}, !.voteSlots = {5, 7}, !.age = 0, !.queued = 1, !.slashings = 1],
   [Plain EXCEPT !.gloas = 0, !.children = 1, !.voteSlots = {4, 5, 7, 8}]}

\* Changes of balance from Gloas on.
BalanceInstances == {[Plain EXCEPT !.gloas = 0, !.roots = 1..2, !.balances = {10, 20}, !.voteSlots = 0..MaxSlot]}

\* Any tree of four blocks with votes; trees of three whose payloads the
\* execution engine judges, before and after Gloas.  From Gloas on there are
\* two verdicts, or one and a block in flight.
Judged == [Plain EXCEPT !.children = 9, !.inFlight = 1, !.verdicts = 2]

HeadInstances ==
  {[Plain EXCEPT !.roots = 1..4, !.balances = {100}, !.children = 9, !.interval = 1, !.voteSlots = {1, 2}],
   Judged, [Judged EXCEPT !.gloas = 1, !.inFlight = 0], [Judged EXCEPT !.gloas = 1, !.verdicts = 1]}

\* A tree of four blocks, one of which is rejected.
RejectedInstances == {[Plain EXCEPT !.roots = 1..4, !.balances = {100}, !.children = 9, !.verdicts = 1]}
=============================================================================
