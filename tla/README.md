# Verification of the Grandine consensus client

TLA+ models of parts of Grandine, an Ethereum consensus client (with the
experimental execution proofs of EIP-8025), checked with TLC on small instances and,
of the fork choice the block tree and of the other seven parts their safety, proved
with TLAPS for every value of the constants. `PROJECT.json` maps every definition to
the lines of code it models.

## 1. The system

Grandine is one process of many threads and tasks.

* **Mutator** (`fork_choice_control/src/mutator.rs`): one thread that owns the
  fork choice `Store`, handles messages one at a time and publishes a snapshot
  of the store after each change. What it cannot judge yet it sets aside.
* **Thread pool** (`fork_choice_control/src/thread_pool.rs`): workers that
  validate blocks, votes, sidecars, envelopes and proofs against a snapshot, which
  may be old by the time the mutator applies the result, and that write to the
  database.
* **Store** (`fork_choice_store/src/store.rs`): block tree, latest votes,
  attesting balances, checkpoints, head, payload statuses; and the caches of
  sidecars, payloads and execution proofs.
* **State cache** (`state_cache/src/state_cache.rs`): beacon states by block and
  slot, shared by the mutator, the workers, the HTTP API and the validator.
* **Back-sync** (`p2p/src/back_sync.rs`, `block_sync_service.rs`): fetches, after a
  checkpoint sync, the history before the checkpoint.
* **Slashing protection** (`slashing_protection/src/lib.rs`): the database that is
  asked before anything is signed.
* Around them: networking (`p2p`), the validator and its pools, the execution
  engine, proof engines, HTTP, key management; below them the state transition,
  types, SSZ, cryptography and the database.

| Part | What makes it hard | Should hold | Modules |
|---|---|---|---|
| State cache | two lock levels, entries removed while others hold them, closures that call the cache | looks like one atomic map; nothing stored is lost; calls return | `AtomicStateCache`, `StateCache` |
| Fork choice store | all of it incremental; pruning renumbers positions; validation against old snapshots; verdicts before or after blocks and envelopes; the Gloas payload statuses | tree consistent, sums exact, head that of LMD GHOST, no verdict lost | `BlockTree`, `VoteCounting`, `HeadSelection`, `PayloadStatuses`, `ForkChoice` |
| Delayed objects of the mutator | an object is set aside just after what it waits for has arrived; blocks imported on the promise of a reconstruction | no lost wake-up, promises or fetched blobs cover imports, retries end | `DelayedObjects` |
| Thread pool | notifications outside the mutex, one flag for all persistence tasks | no lost wakeup, one persistence task, workers stop | `ThreadPool` |
| Persistence | tasks dropped or failing, reports handled late | marks true, columns not lost, all saved in the end | `Persistence` (on `ThreadPool`) |
| Execution proofs | a proof prepared for a statement that changes before it is admitted or completed | verified once, stored only for the current statement, everyone answered | `ExecutionProofs` |
| Slashing protection | pruning in three transactions, crashes between them, clocks that go back | nothing signed contradicts a record, or one that was pruned within the history | `SlashingProtection` |
| Back-sync | crashes between writes; bad, incomplete and late answers; several checkpoint syncs | no part of the history forgotten | `BackSync` |

What is not modelled is listed in section 7.

## 2. Modules

### State cache

`AtomicStateCache` is the promise: one map from blocks and slots to states, and
calls that take effect at one instant between their invocation and their return; a
query adds a state only where there is none that will do. `StateCache` is the code:
a lock on the map of entries, a lock on each entry, reference counts
(`Arc::strong_count`, the number of holders), and calls that are at a place `pc` in
their method. Every step between two lock operations is one action. A query computes
a missing state with the entry locked, and its closure may call the cache again for
the same block (as `state_cache_processor.rs:228` does); that call runs into the
time limit of `try_lock_for` and goes on without the cache ("bypass"). `prune` works
on a clone of the map and removes the emptied entries that nobody else holds. States
are abstracted to whether they have block rewards. `ImplementsAtomicCache` maps the
content of the cached entries to the abstract map, and the requests of the calls
under way to the abstract calls.

### Fork choice

The operators take the store as a record, as the methods take `self`.

* `BlockTree`: `insert_block`, `finalize_blocks`, `prune_orphans`, segments and
  locations (`segment.rs`).
* `VoteCounting`: latest messages, differences and how they travel along the
  segments, balances for a block, for it without and for it with its payload.
* `HeadSelection`: viability, proposer boost, reorganization threshold, the
  comparison of segments in `update_head_segment_id`, the decision for or against
  a payload.
* `PayloadStatuses`: what a verdict of the execution engine does to the payload it
  names, to those under it and to the blocks that build on it.
* `ForkChoice`: one action for each `apply_*`, with everything the method does in
  its order (update of balances, head, pruning); for blocks and envelopes the
  validation against the current store and the application later; and the verdicts
  of the engine, which wait for their block (`early`) or payload (`waiting`).
  `Weigh` is `weigh_justification_and_finalization` with the justification bits
  and the four finalization rules.
* `ForkChoiceProperties`: what the store promises, from the blocks and the latest
  messages alone.

Chosen by the environment: who proposes which block when, who votes for what,
which targets reach two thirds of the balance, and what the execution engine
answers. The targets are limited by the safety of Casper FFG
(`NoConflictingFinality`): what the store does once it is broken, with a head that
does not descend from the finalized block (`store.rs:1127-1135`, tested in
`extra_tests.rs:425`), is not explored. An execution engine that is still syncing
answers without a latest valid hash, which changes nothing. Which of two branches off
one block is popped first from the heap of branch points is open in the code and
fixed in the model. Not modelled: growth of the validator registry, loading of justified states
(always there), blocks from before the anchor, the pruning of verdicts that wait
when finality moves on (runs with verdicts have none), and a second, identical
answer to one request.

Corners of the payload statuses that the properties are worded around: an early
VALID verdict leaves the ancestors of its block optimistic; a Gloas block on an
invalid parent from before Gloas is not marked; finalized blocks need not share
one status (a comment near `store.rs:7362` expects it); a verdict whose latest
valid hash is that of a finalized block waits until it is pruned, and only the
payload it names is rejected.

### Delayed objects

`where` says for every object (block, column sidecar, envelope, attestation) in which
one place it is: with a task and the snapshot the task was spawned with, with the
attestation verifier, in a message to the mutator, in one of the `delayed_until_*`
maps, or done. `RunTask` is the validation against the snapshot; `Handle` is the
mutator's handler of its result, with the look at the current store before an
object is set aside, and with everything the handler retries. Blocks may be
imported before their columns once half of them are there, on the promise that a
reconstruction brings the rest; `started` and `promised` are the two maps shared by
tasks and mutator behind that. `started` has a second writer: the blob fetcher sets
it when it has made the columns from blobs of the execution engine, without a
promise. The block may then be imported with half of its columns, and those of the
fetcher that are validated later are ignored as known (`store.rs:3877`), so
`ImportedHasDataOrPromise` says nothing more of such a block. A reconstruction that
cannot read the columns it needs gives up and leaves `started` set
(`AbandonReconstruction`): an envelope that waits for the rest is then retried
without end, the exception in `RetriesEnd`. Calls to the engine that are of no use
(no answer, blobs missing, columns received meanwhile) change nothing but
`requested`. Left out: blob sidecars, payload attestations, proposer preferences,
payload statuses (see `ForkChoice`), waits for checkpoint states, and the database.
Columns that wait for a state are not part of `NothingWaitsInVain`: it is the block
that wakes them when it comes by, and not the state.

### Thread pool and persistence

`ThreadPool` has the queues, the flags `done` and `persistence_task_running`, and
a phase for every worker: about to take the mutex, asleep on the condition
variable, running a task, about to reset the flag, stopped. A spawn pushes under
the mutex and notifies after it (`notifying` counts threads in between); dropping
a clone sets `done` and notifies all.

`Persistence` extends it with the mutator's handlers for blob sidecars, payload
envelopes and data columns, the tasks that write them, the channel back to the
mutator and the database. A task holds what was unpersisted in the snapshot it was
spawned with. Only nodes that keep their history are modelled (with
`prune_storage_enabled` nothing is persisted). A batch is written as a whole or not
at all. An envelope that is accepted twice is written twice, under one key; the model
accepts each item once.

### Execution proofs

A submission is prepared by a task against a snapshot, admitted by the mutator,
published as seen, dispatched, verified by another task and completed by the
mutator against the live store. Meanwhile envelopes replace the payload of its
block, and finality retires the block. A task reads only the snapshot it was
spawned with, so its work is one step. The payload stands for the statement that
is proved. The proof engine is enabled; without one every proof is ignored.

### Slashing protection

One mutex is held from the check of a message until it is signed, and through the
three transactions of pruning; a crash may come between any two steps. An
attestation comes with what its maker takes for the current epoch (`now`): the local
beacon node makes it for that epoch, of a remote one the validator refuses only a
target in the future or before the source, so both are free below. Nothing is
assumed of the source. A signing root stands for the message. Left out: migration of
the schema, moves of the file, export, and remote signers.

What the database promises is therefore bounded by what it keeps. While a record is
there nothing contradicts it. Once it is pruned the stored epoch keeps away every
proposal for its slot, and every attestation for the current epoch whose source is
not older than the history (`RespectsHistory`). The watermark the book speaks of is
the lowest record of a key: it works as long as the key has one, and the exceptions
in `RespectsHistory` are what gets through when pruning has deleted the last.

### Back-sync

The record of each back-sync in the database, the blocks and sidecars in storage,
the stack of back-syncs in the service, its batch of requests, the sync manager's
requests (delayed, sent, expired), the task that verifies and stores a batch, the
archiver, and a node that crashes, restarts, syncs from a checkpoint again and
falls behind. Blocks and their sidecars are one request. Peers may answer with blocks
of other slots, which nothing checks on arrival (`network.rs:2340-2351`); what they
may send instead of what they are asked for is the constant `BadAnswers`.

What the code does not fetch or check is in the model and bounds the properties. The
block of a checkpoint sync comes without its sidecars and nobody asks for them later
(`bare`). A block of slot 0 is taken unchecked, and compared only when the back-sync
ends at our genesis block (`OnlyChainIsStored`). The controller's `is_back_synced`
(`told`) is set with every report of the archiver, that of the service (`backSynced`)
only after the last.

`excuses` names the three ways in which the code itself gives up coverage, and the
properties hold as long as none has happened: a crash between the write of the
anchor and the plan of its back-sync ("unplanned"), genesis taken without a check of
its link ("genesis"), and the mismatch with a final checkpoint, upon which the
record is dropped ("mismatch"). `older` is set once a node goes back to an older
checkpoint: the slot announced to peers may then be before what is held
(`block_sync_service.rs:304-310`). Left out: payload envelopes, which verification
does not miss (`back_sync.rs:488-492`); backfill of custody columns, and the slot
announced while it is due or with a shorter availability window
(`network.rs:226-267`, `1297-1321`); what the archiver writes; the earliest slots of
peers; a request window that moves; and prune mode.

## 3. Runs

Bounds are CONSTANTS with a comment where they are declared. `MC*` modules define
constant values and symmetry only. Deadlock is checked in `statecache`,
`persistence`, `slashing_protection` and `backsync`; elsewhere the system stops when
its last slot, task or submission is done.

| Run | Instance, and why it is enough | What it shows |
|---|---|---|
| `statecache` | 2 calls, 1 root, 2 slots, 2 entries: one call removes the entry that the other holds or asks for again, with a slot on either side of the boundary | `NoStateIsLost`, `ImplementsAtomicCache`, `CallsReturn` (a closure that asks for its own entry included) |
| `forkchoice_tree` | 5 blocks in flight one at a time, epochs of 2 slots, blocks at slots 4, 5, 7 and 9, which justify and finalize; 5 blocks give finality through several segments | `TreeIsConsistent`, `CheckpointsAreHeld`, `NoPanic`, `PruningIsExact` |
| `forkchoice_votes` | 3 blocks, 1 validator, balances 10 and 20, 1 vote queued, 1 slashing; and one chain after Gloas with votes for both payload statuses. The sums are additive over validators, so one that moves its vote shows an error | `BalancesMatchVotes`, `PayloadBalancesMatchVotes`, `HeadIsCurrent` |
| `forkchoice_head` | 2 validators and any tree of 4 blocks; any tree of 3 blocks with 2 verdicts and a block in flight, after Gloas with one or the other. Three siblings or a chain of three with a branch tell the comparisons apart | `DecidedHeadIsGhostHead`, `StatusesAreTrue`, `VerdictsAreKept`, `HeadIsSound` |
| `threadpool` | 2 workers, 2 high, 1 medium, 3 low tasks (2 persist), 2 clones | `WorkConserving`, `OnePersistenceTask`, `HighTasksRun`, `WorkersStop` |
| `persistence` | 2 workers, a blob sidecar, an envelope, a column, 1 failure, slots to 3 (past finality, which lags by 2) | `PersistedIsSaved`, `ColumnsSurvive`, `ColumnsAreSaved` |
| `slashing_protection` | 3 records (with 2 the lowest epochs decide alone), epochs 0, 1 and 3 with one epoch of history (at 3, votes for 0 and 1 are pruned, and 0 to 3 surrounds 1), 2 slots | `NeverSlashable`, `RespectsHistory` |
| `delayed_objects` | 17 scenarios of 2 to 6 objects that meet in a queue, two with blobs from the execution engine, with limits of 1 on queues; every order of arrival | `NothingWaitsInVain`, `ImportedHasDataOrPromise`, `RejectedAreInvalid`, `RetriesEnd`, `CompleteIsDecided` |
| `execution_proofs` | 3 submissions, two with one proof, two with one prover; 2 payloads for a block; its retirement; the end of the pool | `VerifiedOnce`, `ContextIsSelected`, `StoredProofsAreSound`, `RejectedForCause`, `EveryProofIsAnswered`, `AdmittedProofCounts` |
| `backsync` | a chain of 5 blocks with an empty slot, a fork that an earlier life of the node may have finalized, another block of slot 0, checkpoints at slots 4 and 5, one with sidecars, batches of 2, any 2 of crash, bad, incomplete or late answer, failed write and lapse | `HistoryIsCovered`, `EarliestIsHeld`, `BackSyncedIsComplete`, `ArchivedIsComplete`, `OnlyChainIsStored`, `BackSyncEnds` |

### Where code and comments disagree

* `forkchoice_newbalances`: `update_balances_after_justification` (`store.rs:5826`)
  adds the change of a balance to the payload status of votes that count for no
  status; one then goes below zero, which `misc.rs:242` excludes.
* `forkchoice_rejected`: when the block that a segment goes on with is rejected,
  the branches off its parent are taken without comparison (`store.rs:6849`), and the
  head is not that of the specification, as `store.rs:1069` says it is.

Others are part of the models, and properties that hold are worded around them:

* `book/src/slashing_protection.md:39-40` says that "pruning never allows an older,
  conflicting message". `validate_attestation` (`lib.rs:684`) has no lowest source to
  compare with once the last record of a key is pruned: the cases are the exceptions
  of `RespectsHistory`.
* A comment near `back_sync.rs:560` says of genesis that it "will be validated against
  our own genesis_block during final checkpoint validation", which is so only for a
  back-sync that ends there: the exception of `OnlyChainIsStored`.
* `block_sync_service.rs:321` tells the controller that back-sync has completed when
  one of several records has, whereas `finish_back_sync` goes on with the next.
* `sync_manager.rs:519-521` says that envelopes are needed for all Gloas slots;
  verification takes a batch without them.

## 4. Fairness

* State cache: a call under way takes its next step, as every lock is waited for
  with a time limit; a closure makes finitely many calls (strong fairness of its
  end).
* Thread pool: who waits for the mutex gets it, notifying threads go on, and tasks
  end; nothing is assumed of who spawns. Workers are woken in any order.
* Persistence: besides, ticks keep coming and messages are handled (strong
  fairness, as the bound on tasks in flight, which the code does not have, may
  disable a tick for a while), and the database fails finitely often.
* Delayed objects: pool threads, the verifier and the mutator take what is queued
  for them, the blob fetcher submits what it has constructed, the clock ticks, and a
  reconstruction ends in success or failure. Nothing is assumed of the pruning of the
  state cache, the answers of the execution engine or the arrival of objects.
* Execution proofs: the mutator handles its messages, and workers take the tasks of
  a pool that has not stopped.
* Back-sync: weak fairness of `Progress` alone, the disjunction of what the service,
  its task and the archiver do and of the complete answers of peers: in the end some
  peer answers. Crashes, faults and lapses are bounded by `MaxTroubles`.

## 5. Proofs

Assumptions are the named ASSUMEs of the modules, which TLC evaluates on the
instances. None bounds the number of calls, workers, tasks, objects, blocks,
submissions or records.

* **State cache** (`StateCacheProofs`): `HeldEntriesStayCached`,
  `StatesStayReachable`, `Refinement`, `TypeCorrect`. "Who
  refers to an entry finds it in the cache" is not inductive: `IndInv` adds what each
  call has at hand at its place, that locks are held by exactly the calls that are
  where the code holds them, that no two roots share an entry, and that a call about
  to remove an entry is its only holder. The last holds because references are
  cloned only under the cache lock. `Refinement` needs one more, `ComputesMissing`:
  what a closure computes is missing for as long as it runs, as the entry stays
  locked and a bypass stores nothing. Assumed: finitely many calls, `None` distinct,
  slots natural numbers.
* **Fork choice** (`BlockTreeProofs`, `ForkChoiceProofs`): `TreeStaysConsistent`,
  `PruningStaysExact`, for any number of blocks and validators. `TreeIsConsistent`
  says nothing of blocks that were validated and wait for the mutator, which are
  applied to a store that has been pruned since. `IndInv` adds that they still fit
  (`Flying`, `Fits`: the parent was in the store once and is earlier, and copies of a
  block agree). Of the store it says `IsTree`: every block ever inserted has an
  earlier parent (`Rooted`), the finalized blocks are closed under parents
  (`Divided`), no parent is missing (`Attached`), and segments are runs of children
  with locations that agree, each after the one it branches off (`Segmented`). That
  order is why one pass of `prune_orphans` in the order of the IDs is enough: its
  outcome exists and is exactly the segments that hang on nothing (`Prunes`). Every
  method either leaves the tree alone (`Keeps`), may finalize (`Advances`) or inserts
  a block first (`Grows`); when it finalizes, no child of a block that is left is lost
  and nothing else stays (`Settles`). Descendants at any distance follow by taking
  the earliest block that is an exception. Both theorems are about steps without a
  failed assertion. Assumed: slots are natural numbers (`SlotsAssumption`) and no
  block has the root of the anchor (`RootsAssumption`).
* **Thread pool** (`PersistenceProofs`): `NoLostWakeup`, `PersistenceIsExclusive`,
  `StopHeard`, `TypeCorrect`. The first is inductive because a worker goes to sleep
  only when all queues are empty, so that each later task comes with a notification
  of its own; it is an inequality between cardinalities, kept by lemmas on a worker
  that enters or leaves a phase. Assumed: finitely many workers.
* **Persistence** (`PersistenceProofs`): `MarksAreTrue`, `ColumnsAreNotLost`,
  `PersistenceTypeCorrect`. Columns are pruned by their marks and marks are set from
  messages, so the invariant adds that messages list only what is saved. Assumed:
  the kinds of items are disjoint and the only tasks are those that persist.
* **Slashing protection** (`SlashingProtectionProofs`): `NoSlashing`,
  `HistoryRespected`, `TypeCorrect`. `IInv` adds to the types where a crash may
  leave the three transactions (`PrunerOK`), that each record comes from something
  recorded or imported (`Traced`), and the point of the proof, `Kept`: whatever was
  ever recorded is still in the tables or is older, at the stored epoch, than the
  history that is kept. From there it is arithmetic which messages for the stored
  epoch or a later one can still contradict it: no proposal, and of the attestations
  for the current epoch only one that spans more than the history.
* **Delayed objects** (`DelayedObjectsProofs`): `NoWakeUpIsLost`,
  `PromisesCoverImports`, `RejectionsAreDeserved`, `Inductive`. `IInv` is the type,
  `RejectedAreInvalid` and three facts that carry the argument over the gap between
  a task and the mutator. `Places` says of each place what its occupant may rely on:
  the store in a task's snapshot is behind the current one (`Behind`: what it has,
  the store has too, columns until finality prunes them), a message says what the
  snapshot showed (`Judged`), and who waits waits for something missing (`Awaits`).
  `StartedAreBacked` and `ImportedAreBacked` say that a construction that has
  started, and an import that relied on one, have a promise for every missing
  column or the engine's blobs (`Backed`); a task reads `started` while it validates, long before the
  mutator imports. The last column to arrive ends both waits; that there is a last
  one follows from `LeastNatural`, well-foundedness of the natural numbers. Assumed:
  the parents of blocks are blocks and the anchor needs no columns
  (`InfoAssumption`), `Ancestors` is closed under parents, the columns are
  finitely many, and copies of one scenario agree on what they are about.
* **Execution proofs** (`ExecutionProofsProofs`): `NoneVerifiedTwice`,
  `NoStaleProofStored`, `NoOneBlamedForDelays`, `StatementIsSelected`,
  `SeenBeforeVerified`, `AcceptedStaysStored`, `TypeCorrect`. `IInv` adds that what
  was admitted is in the sets of seen roots and provers, that what has gone past
  publication is in the snapshot, that the outcome of a task is true of the statement
  it was prepared with, that answers are final, and that what was accepted is
  stored.
* **Back-sync** (`BackSyncProofs`): `NoHistoryIsLost`, `AnnouncedIsHeld`,
  `CompletionIsTrue`, `ArchiverFindsHistory`, `StorageIsCanonical`,
  `ProgressIsDurable`, `TypeCorrect`, `Inductive`. `IInv` says that a back-sync has
  one owner (`Ownership`), that checkpoints are on the chain (`OnChain`), that what a
  task has verified leaves no gap (`Walked`), that progress in memory is ahead of the
  record by blocks that are held (`Ahead`), that what is done is held (`Done`), and
  that every block a restart relies on is stored or on record (`Covered`).
  What verification has reached lies on the chain, or is a block of slot 0 (`Taken`),
  and further down than where it started (`Downward`).
  `HistoryIsCovered` is only the part of `Covered` that is visible: a restart from a
  remote checkpoint makes the next plan rely on blocks below `latest`. For
  `AnnouncedIsHeld` two more are needed: back-syncs go down from where they start
  (`InOrder`), and each ends where the ones before it have started (`Stacked`).
  That the controller is told is an invariant by itself (`Told`). Assumed: the chain is
  linked by parents with growing slots down to genesis, checkpoints are on it, and
  blocks of slot 0 have no sidecars.

### Only model-checked

* All liveness properties: `CallsReturn`, `HighTasksRun`, `WorkersStop`,
  `ColumnsAreSaved`, `RetriesEnd`, `CompleteIsDecided`, `EveryProofIsAnswered`,
  `AdmittedProofCounts`, `BackSyncEnds`. The prover has no rules for fairness and
  ENABLED here.
* Of the fork choice, `BalancesMatchVotes`, `PayloadBalancesMatchVotes`,
  `HeadIsCurrent`, `HeadIsSound`, `DecidedHeadIsGhostHead`, `StatusesAreTrue` and
  `VerdictsAreKept`. Sums of balances are folds over sets, and weights, heads and
  statuses are functions that recurse along the chain or the segments; what they
  compute for every input needs induction with an operator as parameter, which the
  provers cannot instantiate.
* `NoPanic` and `CheckpointsAreHeld`. That the block of a finalized checkpoint is in
  the store and has a block after it in its segment follows from the safety of
  Casper FFG and from how checkpoints are realized along a chain, again by recursion.

## 6. Running

    tlc -workers 2 -config MCStateCache.cfg MCStateCache
    tlc -workers 2 -config ForkChoice_tree.cfg MCForkChoice
    tlapm StateCacheProofs.tla

A run takes up to four minutes, a proof module up to seven.

## 7. Not modelled

Forward sync and gossip, subnets, the attestation verifier's batches, operation
pools, block production, duties of the validator, doppelganger protection, slasher,
clock, builder circuit breaker, execution engine RPC: inputs of the models above, or
state that one task owns and unit tests reach. Storage layout, HTTP, key files,
metrics, runtime: input, output and wiring. State transition, types, SSZ and
cryptography: pure, and checked by the consensus spec tests; only
`weigh_justification_and_finalization` is part of `ForkChoice`. `PROJECT.json` gives
a reason for each.
