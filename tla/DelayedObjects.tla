---------------------------- MODULE DelayedObjects ----------------------------
(***************************************************************************)
(* The objects the mutator sets aside: blocks, attestations, data column   *)
(* sidecars and execution payload envelopes that cannot be judged yet.     *)
(* A task of the thread pool validates an object against the snapshot of   *)
(* the store it was spawned with and sends the resulting action to the     *)
(* mutator.  The store may have moved on by then, so the mutator compares  *)
(* the action with the current store and either retries the object or      *)
(* leaves it in one of its delayed_until_* maps.  An object is in one      *)
(* place at a time: where[o] is that place and the maps of the code are    *)
(* its inverse images.                                                     *)
(* Blocks before Gloas wait for their columns; from Gloas on the envelope  *)
(* of a block does, and children that build on its payload wait for it.    *)
(***************************************************************************)
EXTENDS Naturals, FiniteSets, FiniteSetsExt

CONSTANTS
    Info,               \* what each block is: a function from block roots to records
    Ancestors,          \* of each block: itself, its parent, the parent of that and so on
    Columns,            \* the indices of the columns this node samples
    NumberOfColumns,    \* of an extended blob
    SyncWithoutReconstruction,
    Scenarios,          \* what may happen: objects to deliver between two slots
    SlotsPerEpoch,
    MaxFutureSlots,     \* max_gossip_future_slots
    MaxPerSlot,         \* MAX_DELAYED_FUTURE_BLOCKS_PER_SLOT
    MaxUntilParent,     \* MAX_DELAYED_BLOCKS_UNTIL_PARENT
    MaxPrunes,          \* bound: how often the state cache is pruned
    MaxFailures         \* bound: how often columns cannot be rebuilt or constructed

Blocks == DOMAIN Info
Anchor == 0

VARIABLES
    store,          \* the mutator's store, copied into every task it spawns
    cached,         \* blocks whose post-state is in the state cache
    advanced,       \* blocks whose parent's state at the block's slot is there
    started,        \* sidecars_construction_started
    promised,       \* sidecars_pending_reconstruction
    rebuilding,     \* blocks a reconstruction is scheduled or running for
    abandoned,      \* history: blocks a reconstruction could not read the columns of
    requested,      \* requested_blobs_from_el
    calling,        \* blocks whose blobs the execution engine is asked for
    fetched,        \* history: blocks whose columns were made of the engine's blobs
    scenario,       \* the scenario at hand
    where,          \* where each of its objects is
    verdicts,       \* what gossip was told about each of them
    prunes, failures

engine == <<requested, calling, fetched>>
states == <<cached, advanced, prunes>>
rebuild == <<started, promised, rebuilding, abandoned, failures, engine>>
vars == <<scenario, store, states, rebuild, where, verdicts>>

-----------------------------------------------------------------------------
(* The blocks and what the store knows of them. *)

Slot(b) == Info[b].slot
Parent(b) == Info[b].parent
Epoch(slot) == slot \div SlotsPerEpoch

\* The anchor has no columns to wait for, and blocks are of Gloas once the chain
\* has come to a Gloas block with blobs.
ASSUME InfoAssumption ==
    /\ Anchor \in Blocks /\ ~Info[Anchor].blobs /\ Parent(Anchor) = Anchor
    /\ \A b \in Blocks :
           /\ Info[b] \in [parent : Blocks, slot : Nat, finalizes : Blocks, gloas : BOOLEAN,
                           blobs : BOOLEAN, full : BOOLEAN, invalid : BOOLEAN, known : BOOLEAN]
           /\ Info[Parent(b)].gloas /\ Info[Parent(b)].blobs => Info[b].gloas

ASSUME AncestorsAssumption ==
    \A b \in Blocks :
        Ancestors[b] = {b} \union (IF b = Anchor THEN {} ELSE Ancestors[Parent(b)])

ASSUME ColumnsAssumption ==
    NumberOfColumns \in Nat /\ \A c \in Columns : c \in Nat /\ c < NumberOfColumns

Kinds == {"block", "attestation", "column", "envelope"}

ASSUME ScenariosAssumption ==
    \A s \in Scenarios :
        /\ s.first \in Nat /\ s.last \in Nat
        /\ s.objects \subseteq [kind : Kinds, root : Blocks, n : Nat, slot : Nat,
                                ok : BOOLEAN, seen : BOOLEAN, el : BOOLEAN]

FinalizedSlot(s) == Slot(s.finalized)

MissingColumns(s, b) ==
    IF Info[b].blobs THEN {c \in Columns : <<b, c>> \notin s.columns} ELSE {}

AcceptedColumns(s, b) == Cardinality({c \in Columns : <<b, c>> \in s.columns})

ContainsBlockAndData(s, b) ==
    /\ b \in s.imported
    /\ Info[b].gloas => MissingColumns(s, b) = {}

\* Finalization keeps the chain of the finalized block and what descends from it.
Finalize(s, f) ==
    LET kept == {b \in s.imported : f \in Ancestors[b] \/ b \in Ancestors[f]} IN
    [s EXCEPT !.finalized = f,
              !.imported  = kept,
              !.payloads  = {b \in @ : b \in kept /\ f \in Ancestors[b]},
              !.envelopes = {b \in @ : Slot(f) <= Slot(b)},
              !.columns   = {bc \in @ : Slot(f) <= Slot(bc[1])}]

-----------------------------------------------------------------------------
(* Validation: what a task makes of an object o, given its snapshot s. *)

Early(s, slot) == slot > s.slot + MaxFutureSlots

CanImportWithPromise(s, b) ==
    /\ s.synced
    /\ 2 * (Cardinality(Columns) - Cardinality(MissingColumns(s, b))) >= NumberOfColumns
    /\ b \in started

\* The state transition comes first, and the columns are looked for after it.
ApplyBlock(s, o) ==
    LET b == o.root IN
    IF ~o.ok \/ Info[b].invalid
    THEN IF Info[b].known THEN "reject" ELSE "rejectCopy"
    ELSE IF ~Info[b].gloas /\ MissingColumns(s, b) # {} /\ ~CanImportWithPromise(s, b)
         THEN "untilBlobs"
    ELSE "accept"

\* A bad signature is noticed before the parent is looked up when the
\* proposer's key is known, and in the state transition when it is not.
ValidateBlock(s, o) ==
    LET b == o.root IN
    IF b \in s.imported \/ Early(s, o.slot) THEN "ignore"
    ELSE IF s.slot < o.slot THEN "untilSlot"
    ELSE IF o.slot <= FinalizedSlot(s) THEN "ignore"
    ELSE IF ~o.ok /\ Info[b].known THEN "rejectCopy"
    ELSE IF Parent(b) \notin s.imported
         THEN IF Parent(b) \in s.rejected THEN "reject" ELSE "untilParent"
    ELSE IF Slot(Parent(b)) < FinalizedSlot(s) THEN "ignore"
    ELSE IF Info[b].full /\ Parent(b) \notin s.payloads THEN "untilPayload"
    ELSE ApplyBlock(s, o)

ValidateAttestation(s, o) ==
    IF Epoch(o.slot) \notin {Epoch(s.slot), Epoch(s.slot) - 1} \/ Early(s, o.slot)
    THEN "ignore"
    ELSE IF s.slot < o.slot THEN "untilSlot"
    ELSE IF o.root \notin s.imported
         THEN IF o.root \in s.rejected THEN "reject" ELSE "untilBlock"
    ELSE IF o.n = 1 /\ o.slot = Slot(o.root) THEN "reject"
    ELSE IF o.n = 1 /\ o.root \notin s.payloads THEN "untilPayload"
    ELSE IF o.slot < Slot(o.root) THEN "reject"
    ELSE "accept"

\* From Gloas on a column is checked against its block.  Before, it carries the
\* header of its block and needs the state the block starts from, which the
\* mutator may have passed along.
ValidateColumn(s, o, presence, state) ==
    LET b == o.root IN
    IF presence /\ ContainsBlockAndData(s, b) THEN "ignore"
    ELSE IF Info[b].gloas
    THEN IF b \notin s.imported THEN "untilState"
         ELSE IF <<b, o.n>> \in s.columns /\ ~o.seen THEN "ignore"
         ELSE IF o.ok THEN "accept" ELSE "reject"
    ELSE IF Early(s, o.slot) THEN "ignore"
    ELSE IF s.slot < o.slot THEN "untilSlot"
    ELSE IF o.slot <= FinalizedSlot(s) THEN "ignore"
    ELSE IF <<b, o.n>> \in s.columns /\ ~o.seen THEN "ignore"
    ELSE IF ~state /\ b \notin advanced THEN "untilState"
    ELSE IF Parent(b) \in s.rejected THEN "reject"
    ELSE IF Parent(b) \notin s.imported THEN "untilParent"
    ELSE IF s.finalized \notin Ancestors[Parent(b)] THEN "reject"
    ELSE IF o.ok THEN "accept" ELSE "reject"

\* What the envelope has in common with the bid of its block (n = 0) is compared
\* before the data is looked for, the rest of it (ok) after.
ValidateEnvelope(s, o) ==
    IF Early(s, o.slot) \/ o.slot < FinalizedSlot(s) \/ o.root \in s.envelopes
    THEN "ignore"
    ELSE IF o.root \in s.rejected THEN "reject"
    ELSE IF o.root \notin s.imported THEN "untilBlock"
    ELSE IF o.n # 0 THEN "reject"
    ELSE IF MissingColumns(s, o.root) # {} THEN "untilData"
    ELSE IF o.ok THEN "accept" ELSE "reject"

Validate(o, s, presence, state) ==
    CASE o.kind = "block"       -> ValidateBlock(s, o)
      [] o.kind = "attestation" -> ValidateAttestation(s, o)
      [] o.kind = "column"      -> ValidateColumn(s, o, presence, state)
      [] o.kind = "envelope"    -> ValidateEnvelope(s, o)

-----------------------------------------------------------------------------
(* Where an object can be. *)

Idle == [at |-> "idle"]
Done == [at |-> "done"]
Message(action) == [at |-> "message", action |-> action]
Parked(queue, key) == [at |-> queue, key |-> key]

\* Attestations go to the attestation verifier, which loads the snapshot itself.
Spawned(o, s, p, state) ==
    IF o.kind = "attestation" THEN [at |-> "verifier"]
    ELSE [at |-> "task", snap |-> s, state |-> state,
          presence |-> ~(o.kind = "column" /\ <<o.root, o.n>> \in p)]

Objects == scenario.objects

\* Only the validation of columns looks for states in the cache, so only the
\* states of blocks that have columns are kept track of.
HasColumns == {b \in Blocks : Info[b].blobs}

InQueue(queue, key) == {o \in Objects : where[o] = Parked(queue, key)}

Retry(w, S, s, p, state) ==
    [o \in DOMAIN w |-> IF o \in S THEN Spawned(o, s, p, state) ELSE w[o]]

Drop(w, S) == [o \in DOMAIN w |-> IF o \in S THEN Done ELSE w[o]]

\* What the execution engine provides has no gossip id to answer.
Tell(v, S, verdict) ==
    [o \in DOMAIN v |-> IF o \in S /\ ~o.el THEN v[o] \union {verdict} ELSE v[o]]

Received(o, action) == where[o] = Message(action)

-----------------------------------------------------------------------------
(* An object arrives and is validated. *)

\* While syncing, a column that has been accepted already is not looked at again.
\* The blob fetcher submits columns (el) once it has made them of fetched blobs.
Submit(o) ==
    /\ where[o] = Idle
    /\ o.el => o.root \in fetched
    /\ where' = [where EXCEPT ![o] =
           IF o.kind = "column" /\ ~store.synced /\ <<o.root, o.n>> \in store.columns
           THEN Done ELSE Spawned(o, store, promised, FALSE)]
    /\ UNCHANGED <<store, states, rebuild, verdicts>>

\* The state transition of a block leaves the state it starts from and the one
\* it ends in in the state cache.
RunTask(o) ==
    /\ where[o].at = "task"
    /\ LET t == where[o]
           action == Validate(o, t.snap, t.presence, t.state)
           block == o.kind = "block" IN
       /\ where' = [where EXCEPT ![o] = Message(action)]
       /\ advanced' = IF block /\ action \in {"untilPayload", "untilBlobs", "accept"}
                      THEN advanced \union ({o.root} \intersect HasColumns) ELSE advanced
       /\ cached' = IF block /\ action \in {"untilBlobs", "accept"}
                    THEN cached \union ({o.root} \intersect HasColumns) ELSE cached
    /\ UNCHANGED <<store, prunes, rebuild, verdicts>>

Verify(o) ==
    /\ where[o].at = "verifier"
    /\ where' = [where EXCEPT ![o] = Message(Validate(o, store, TRUE, FALSE))]
    /\ UNCHANGED <<store, states, rebuild, verdicts>>

-----------------------------------------------------------------------------
(* The mutator handles the outcome. *)

Close(o, verdict) ==
    /\ where' = Drop(where, {o})
    /\ verdicts' = Tell(verdicts, {o}, verdict)

Ignored(o) ==
    /\ Received(o, "ignore")
    /\ Close(o, "Ignore")
    /\ UNCHANGED <<store, states, rebuild>>

Rejected_WithRoot(o) ==
    /\ Received(o, "reject") \/ Received(o, "rejectCopy")
    /\ Close(o, "Reject")
    /\ store' = IF o.kind = "block"
                THEN [store EXCEPT !.rejected = @ \union {o.root}] ELSE store
    /\ UNCHANGED <<states, rebuild>>

\* A bad signature condemns the copy and not the root.
Rejected(o) ==
    /\ Received(o, "reject") \/ Received(o, "rejectCopy")
    /\ Close(o, "Reject")
    /\ store' = IF o.kind = "block" /\ Received(o, "reject")
                THEN [store EXCEPT !.rejected = @ \union {o.root}] ELSE store
    /\ UNCHANGED <<states, rebuild>>

RetryNow(o, state) ==
    /\ where' = Retry(where, {o}, store, promised, state)
    /\ UNCHANGED verdicts

ParkIn(o, queue, key) ==
    /\ where' = [where EXCEPT ![o] = Parked(queue, key)]
    /\ UNCHANGED verdicts

\* A queue that is full turns the object away.
TryPark(o, room, queue, key) ==
    IF room THEN ParkIn(o, queue, key) ELSE Close(o, "Ignore")

OfKind(kind, S) == {o \in S : o.kind = kind}
Unverified(o) == o.kind = "block" /\ ~Info[o.root].known
UntilBlock == {o \in Objects : where[o].at = "untilBlock"}

DelayUntilSlot(o) ==
    /\ Received(o, "untilSlot")
    /\ IF o.slot <= store.slot THEN RetryNow(o, FALSE)
       ELSE LET same == Cardinality(OfKind(o.kind, InQueue("untilSlot", o.slot))) IN
            TryPark(o, CASE o.kind = "block"  -> same < MaxPerSlot
                         [] o.kind = "column" -> same < MaxPerSlot * NumberOfColumns
                         [] OTHER             -> TRUE,
                    "untilSlot", o.slot)
    /\ UNCHANGED <<store, states, rebuild>>

DelayUntilParent(o) ==
    /\ Received(o, "untilParent")
    /\ LET parent == Parent(o.root) IN
       IF IF o.kind = "column" THEN ContainsBlockAndData(store, parent)
                               ELSE parent \in store.imported
       THEN RetryNow(o, FALSE)
       ELSE TryPark(o,
                IF o.kind = "column"
                THEN Cardinality(OfKind("column", UntilBlock)) < MaxUntilParent * NumberOfColumns
                ELSE Unverified(o) =>
                     Cardinality({x \in UntilBlock : Unverified(x)}) < MaxUntilParent,
                "untilBlock", parent)
    /\ UNCHANGED <<store, states, rebuild>>

DelayAttestationUntilBlock(o) ==
    /\ o.kind = "attestation"
    /\ Received(o, "untilBlock")
    /\ IF o.root \in store.imported THEN RetryNow(o, FALSE)
       ELSE ParkIn(o, "untilBlock", o.root)
    /\ UNCHANGED <<store, states, rebuild>>

\* A full queue of envelopes keeps the ones with the lowest slots.
DelayEnvelopeUntilBlock(o) ==
    /\ o.kind = "envelope"
    /\ Received(o, "untilBlock")
    /\ LET queue == OfKind("envelope", UntilBlock)
           later == {e \in queue : e.slot > o.slot} IN
       IF o.root \in store.imported THEN RetryNow(o, FALSE)
       ELSE IF Cardinality(queue) < MaxUntilParent \/ later = {}
       THEN TryPark(o, Cardinality(queue) < MaxUntilParent, "untilBlock", o.root)
       ELSE \E e \in later :
                /\ \A x \in later : x.slot <= e.slot
                /\ where' = Drop([where EXCEPT ![o] = Parked("untilBlock", o.root)], {e})
                /\ verdicts' = Tell(verdicts, {e}, "Ignore")
    /\ UNCHANGED <<store, states, rebuild>>

DelayUntilPayload_Unchecked(o) ==
    /\ Received(o, "untilPayload")
    /\ ParkIn(o, "untilEnvelope", IF o.kind = "block" THEN Parent(o.root) ELSE o.root)
    /\ UNCHANGED <<store, states, rebuild>>

DelayUntilPayload_UntilBlock(o) ==
    /\ Received(o, "untilPayload")
    /\ LET root == IF o.kind = "block" THEN Parent(o.root) ELSE o.root IN
       IF root \in store.imported THEN RetryNow(o, FALSE)
       ELSE ParkIn(o, "untilEnvelope", root)
    /\ UNCHANGED <<store, states, rebuild>>

DelayUntilPayload(o) ==
    /\ Received(o, "untilPayload")
    /\ LET root == IF o.kind = "block" THEN Parent(o.root) ELSE o.root IN
       IF root \in store.payloads THEN RetryNow(o, FALSE)
       ELSE ParkIn(o, "untilEnvelope", root)
    /\ UNCHANGED <<store, states, rebuild>>

\* Columns of a block that wait for its state.
WaitingColumns(b) == InQueue("untilState", b)

BlockDataColumnAvailability(b) ==
    LET missing == MissingColumns(store, b) IN
    IF missing = {} THEN "Complete"
    ELSE IF \E o \in WaitingColumns(b) : o.n \in missing THEN "AnyPending"
    ELSE IF /\ 2 * (Cardinality(Columns) - Cardinality(missing)) >= NumberOfColumns
            /\ store.synced \/ ~SyncWithoutReconstruction
         THEN "CompleteWithReconstruction"
    ELSE "Missing"

\* A map from roots to one object each: what it held for b is overwritten.
ParkAlone(w, o, queue, b) ==
    [Drop(w, InQueue(queue, b)) EXCEPT ![o] = Parked(queue, b)]

StartReconstruction_NoPromise(b) ==
    IF b \in started THEN UNCHANGED rebuild
    ELSE /\ started' = started \union {b}
         /\ rebuilding' = rebuilding \union {b}
         /\ UNCHANGED <<promised, abandoned, failures, engine>>

StartReconstruction(b) ==
    IF b \in started THEN UNCHANGED rebuild
    ELSE /\ started' = started \union {b}
         /\ promised' = IF store.synced
                        THEN promised \union ({b} \X MissingColumns(store, b))
                        ELSE promised
         /\ rebuilding' = rebuilding \union {b}
         /\ UNCHANGED <<abandoned, failures, engine>>

\* The blobs of a block are asked for once.  The fetcher looks first whether the
\* block and its data are there, and a call may get no answer that is of use.
RequestBlobs(b) ==
    /\ IF store.synced /\ b \notin requested \union started
       THEN /\ requested' = requested \union {b}
            /\ calling' = IF ContainsBlockAndData(store, b) THEN calling
                          ELSE calling \union {b}
       ELSE UNCHANGED <<requested, calling>>
    /\ UNCHANGED fetched

\* What a block before Gloas and an envelope after have in common: the data is
\* complete by now, or columns of it wait for the state, or it can be
\* reconstructed, or it is awaited.
DelayUntilColumns(o, queue, state) ==
    LET b == o.root
        availability == BlockDataColumnAvailability(b) IN
    \/ /\ availability = "Complete"
       /\ RetryNow(o, FALSE)
       /\ UNCHANGED rebuild
    \/ /\ availability = "AnyPending"
       /\ where' = Retry(ParkAlone(where, o, queue, b), WaitingColumns(b),
                         store, promised, state)
       /\ UNCHANGED <<verdicts, rebuild>>
    \/ /\ availability = "CompleteWithReconstruction"
       /\ verdicts' = Tell(verdicts, {o}, "Accept")
       /\ StartReconstruction(b)
       /\ where' = IF store.synced THEN Retry(where, {o}, store, promised, FALSE)
                   ELSE ParkAlone(where, o, queue, b)
    \/ /\ availability = "Missing"
       /\ verdicts' = Tell(verdicts, {o}, "Accept")
       /\ where' = ParkAlone(where, o, queue, b)
       /\ RequestBlobs(b)
       /\ UNCHANGED <<started, promised, rebuilding, abandoned, failures>>

DelayUntilBlobs(o) ==
    /\ Received(o, "untilBlobs")
    /\ DelayUntilColumns(o, "untilBlobs", TRUE)
    /\ UNCHANGED <<store, states>>

DelayUntilData(o) ==
    /\ Received(o, "untilData")
    /\ DelayUntilColumns(o, "untilData", FALSE)
    /\ UNCHANGED <<store, states>>

DelayUntilState_ColumnOnly(o) ==
    /\ Received(o, "untilState")
    /\ IF o.root \in cached \union store.imported THEN RetryNow(o, TRUE)
       ELSE ParkIn(o, "untilState", o.root)
    /\ UNCHANGED <<store, states, rebuild>>

\* The state looked for here is the one after the block, in the cache or in the
\* store.  A block that awaits its columns without it builds it again.
DelayUntilState(o) ==
    /\ Received(o, "untilState")
    /\ IF o.root \in cached \union store.imported THEN RetryNow(o, TRUE)
       ELSE /\ where' = [Retry(where, InQueue("untilBlobs", o.root), store, promised, FALSE)
                            EXCEPT ![o] = Parked("untilState", o.root)]
            /\ UNCHANGED verdicts
    /\ UNCHANGED <<store, states, rebuild>>

AcceptAttestation(o) ==
    /\ o.kind = "attestation"
    /\ Received(o, "accept")
    /\ Close(o, "Accept")
    /\ UNCHANGED <<store, states, rebuild>>

AcceptEnvelope(o) ==
    /\ o.kind = "envelope"
    /\ Received(o, "accept")
    /\ store' = [store EXCEPT !.payloads = @ \union {o.root},
                              !.envelopes = @ \union {o.root}]
    /\ where' = Retry(Drop(where, {o}), InQueue("untilEnvelope", o.root),
                      store', promised, FALSE)
    /\ verdicts' = Tell(verdicts, {o}, "Accept")
    /\ UNCHANGED <<states, rebuild>>

AllColumns(s, b) == AcceptedColumns(s, b) >= Cardinality(Columns)

ShouldRetryBlock(s, b) ==
    \/ AllColumns(s, b)
    \/ /\ 2 * Cardinality(Columns) >= NumberOfColumns
       /\ 2 * AcceptedColumns(s, b) >= NumberOfColumns
       /\ s.synced \/ (b \notin started /\ ~SyncWithoutReconstruction)

WithColumns(s, b, new) == [s EXCEPT !.columns = @ \union ({b} \X new)]

\* The columns are accepted one after the other, in the order of their indices:
\* the block is retried with the first of them that allows it, the envelope
\* with the last.
AcceptColumns(w, b, new) ==
    LET upTo(c) == WithColumns(store, b, {d \in new : d <= c})
        enough == {c \in new : ShouldRetryBlock(upTo(c), b)}
        all == WithColumns(store, b, new)
        block == IF enough = {} THEN w
                 ELSE Retry(w, InQueue("untilBlobs", b), upTo(Min(enough)), promised, FALSE) IN
    /\ store' = all
    /\ promised' = promised \ ({b} \X new)
    /\ where' = IF AllColumns(all, b)
                THEN Retry(block, InQueue("untilData", b), all, promised, FALSE)
                ELSE block

\* A copy of a column that has been accepted meanwhile gets no answer.
AcceptColumn(o) ==
    /\ o.kind = "column"
    /\ Received(o, "accept")
    /\ IF <<o.root, o.n>> \in store.columns
       THEN where' = Drop(where, {o}) /\ UNCHANGED <<store, promised, verdicts, engine>>
       ELSE /\ AcceptColumns(Drop(where, {o}), o.root, {o.n})
            /\ verdicts' = Tell(verdicts, {o}, "Accept")
            /\ IF o.el THEN UNCHANGED engine ELSE RequestBlobs(o.root)
    /\ UNCHANGED <<states, started, rebuilding, abandoned, failures>>

\* What finalization leaves no use for.
Outdated(s, o, place) ==
    CASE place.at = "untilBlock" /\ o.kind # "attestation" -> o.slot <= FinalizedSlot(s) + 1
      [] place.at = "untilEnvelope" /\ o.kind = "block"    -> o.slot <= FinalizedSlot(s) + 1
      [] place.at \in {"untilBlock", "untilEnvelope"}      -> Epoch(o.slot) + 1 < Epoch(s.slot)
      [] place.at \in {"untilBlobs", "untilData"}          -> o.slot <= FinalizedSlot(s)
      [] OTHER                                             -> FALSE

\* The block may have become known, old or an orphan while it was validated.
Superseded(b) ==
    \/ b \in store.imported
    \/ Slot(b) <= FinalizedSlot(store)
    \/ Parent(b) \notin store.imported

AcceptBlock(o) ==
    LET b == o.root IN
    /\ o.kind = "block"
    /\ Received(o, "accept")
    /\ \/ /\ Superseded(b)
          /\ Close(o, "Ignore")
          /\ UNCHANGED <<store, started, requested>>
       \/ /\ ~Superseded(b)
          /\ LET inserted == [store EXCEPT !.imported = @ \union {b}]
                 finalizes == Slot(Info[b].finalizes) > FinalizedSlot(store)
                 retried == Retry(Drop(where, {o}), InQueue("untilBlock", b),
                                  store', promised, FALSE)
                 outdated == {x \in Objects : Outdated(store', x, retried[x])}
                 told == Tell(verdicts, {o}, "Accept") IN
             /\ store' = IF finalizes THEN Finalize(inserted, Info[b].finalizes) ELSE inserted
             /\ started' = IF finalizes THEN {x \in started : FinalizedSlot(store') <= Slot(x)}
                           ELSE started
             /\ requested' = IF finalizes THEN {x \in requested : FinalizedSlot(store') <= Slot(x)}
                             ELSE requested
             /\ where' = IF finalizes THEN Drop(retried, outdated) ELSE retried
             /\ verdicts' = IF finalizes THEN Tell(told, outdated, "Ignore") ELSE told
    /\ UNCHANGED <<states, promised, rebuilding, abandoned, failures, calling, fetched>>

-----------------------------------------------------------------------------
(* What happens besides: slots, the state cache and reconstruction. *)

Tick ==
    /\ store.slot < scenario.last
    /\ store' = [store EXCEPT !.slot = @ + 1]
    /\ where' = Retry(where, {o \in Objects : \E slot \in 0..store'.slot :
                                  where[o] = Parked("untilSlot", slot)},
                      store', promised, FALSE)
    /\ UNCHANGED <<states, rebuild, verdicts>>

\* Once synced, the state of the head is advanced to the slot of the next block.
PreprocessState(b) ==
    /\ b \in HasColumns \ advanced
    /\ ~Info[b].gloas
    /\ store.synced
    /\ \E o \in Objects : o.root = b
    /\ Parent(b) \in store.imported
    /\ Slot(b) <= store.slot + 1
    /\ advanced' = advanced \union {b}
    /\ UNCHANGED <<store, cached, prunes, rebuild, where, verdicts>>

PruneStateCache ==
    /\ prunes < MaxPrunes
    /\ cached \union advanced # {}
    /\ prunes' = prunes + 1
    /\ cached' = {}
    /\ advanced' = {}
    /\ UNCHANGED <<store, rebuild, where, verdicts>>

\* The task marks the construction as started once more.  It finds nothing to do,
\* or not enough to do it with, or its columns are accepted by the mutator.
Reconstruct(b) ==
    /\ b \in rebuilding
    /\ rebuilding' = rebuilding \ {b}
    /\ started' = started \union {b}
    /\ IF 2 * AcceptedColumns(store, b) >= NumberOfColumns /\ MissingColumns(store, b) # {}
       THEN AcceptColumns(where, b, MissingColumns(store, b))
       ELSE UNCHANGED <<store, promised, where>>
    /\ UNCHANGED <<states, abandoned, failures, engine, verdicts>>

FailReconstruction(b) ==
    /\ b \in rebuilding
    /\ failures < MaxFailures
    /\ failures' = failures + 1
    /\ rebuilding' = rebuilding \ {b}
    /\ started' = started \ {b}
    /\ UNCHANGED <<store, states, promised, abandoned, engine, where, verdicts>>

\* A task that cannot read the columns from the storage gives up and leaves the
\* construction marked as started.
AbandonReconstruction(b) ==
    /\ b \in rebuilding
    /\ failures < MaxFailures
    /\ failures' = failures + 1
    /\ rebuilding' = rebuilding \ {b}
    /\ started' = started \union {b}
    /\ abandoned' = abandoned \union {b}
    /\ UNCHANGED <<store, states, promised, engine, where, verdicts>>

\* The engine knows the blobs of b: it sends all of them, which make every column.
EngineHasBlobs(b) ==
    \A c \in Columns : \E o \in Objects : o.el /\ o.root = b /\ o.n = c

\* The fetcher marks the construction as started without a promise.
ConstructSidecars(b) ==
    /\ b \in calling
    /\ EngineHasBlobs(b)
    /\ calling' = calling \ {b}
    /\ fetched' = fetched \union {b}
    /\ started' = started \union {b}
    /\ UNCHANGED <<store, states, promised, rebuilding, abandoned, failures, requested,
                   where, verdicts>>

FailConstruction(b) ==
    /\ b \in calling
    /\ EngineHasBlobs(b)
    /\ failures < MaxFailures
    /\ failures' = failures + 1
    /\ calling' = calling \ {b}
    /\ started' = started \ {b}
    /\ UNCHANGED <<store, states, promised, rebuilding, abandoned, requested, fetched,
                   where, verdicts>>

-----------------------------------------------------------------------------
Handle(o) ==
    \/ Ignored(o)
    \/ Rejected(o)
    \/ DelayUntilSlot(o)
    \/ DelayUntilParent(o)
    \/ DelayAttestationUntilBlock(o)
    \/ DelayEnvelopeUntilBlock(o)
    \/ DelayUntilPayload(o)
    \/ DelayUntilBlobs(o)
    \/ DelayUntilData(o)
    \/ DelayUntilState(o)
    \/ AcceptAttestation(o)
    \/ AcceptEnvelope(o)
    \/ AcceptColumn(o)
    \/ AcceptBlock(o)

EndReconstruction(b) ==
    Reconstruct(b) \/ FailReconstruction(b) \/ AbandonReconstruction(b)

Init ==
    /\ scenario \in Scenarios
    /\ \E synced \in BOOLEAN :
           store = [slot |-> scenario.first, synced |-> synced, finalized |-> Anchor,
                    imported |-> {Anchor}, rejected |-> {}, columns |-> {},
                    payloads |-> {}, envelopes |-> {}]
    /\ cached = {} /\ advanced = {} /\ prunes = 0
    /\ started = {} /\ promised = {} /\ rebuilding = {} /\ abandoned = {} /\ failures = 0
    /\ requested = {} /\ calling = {} /\ fetched = {}
    /\ where = [o \in Objects |-> Idle]
    /\ verdicts = [o \in Objects |-> {}]

Next ==
    /\ \/ \E o \in Objects : Submit(o) \/ RunTask(o) \/ Verify(o) \/ Handle(o)
       \/ Tick
       \/ PruneStateCache
       \/ \E b \in Blocks : PreprocessState(b) \/ EndReconstruction(b)
                           \/ ConstructSidecars(b) \/ FailConstruction(b)
    /\ UNCHANGED scenario

Spec == Init /\ [][Next]_vars

\* What is queued for a pool thread, for the attestation verifier, for the mutator's
\* loop or by the blob fetcher.
Process(o) == RunTask(o) \/ Verify(o) \/ Handle(o) \/ (o.el /\ Submit(o))

\* These take up what is queued for them, reconstruction tasks end, and the clock
\* ticks.  Peers need not send anything, and the execution engine need not answer.
Fairness ==
    /\ \A o \in UNION {s.objects : s \in Scenarios} :
           WF_vars(o \in Objects /\ Process(o) /\ UNCHANGED scenario)
    /\ \A b \in HasColumns : WF_vars(EndReconstruction(b) /\ UNCHANGED scenario)
    /\ WF_vars(Tick /\ UNCHANGED scenario)

FairSpec == Spec /\ Fairness

-----------------------------------------------------------------------------
Queues == {"untilBlock", "untilSlot", "untilBlobs", "untilState", "untilData", "untilEnvelope"}
InFlight(o) == where[o].at \in {"task", "verifier", "message"}

\* An object that is set aside waits for something that is still missing: a task
\* judges it against an older store, and the mutator looks again before it
\* parks the object (delay_*), so no wake-up is lost.  Nothing is said of columns
\* delayed until a state: they are woken when their block comes by, and may wait
\* although the state is there.
NothingWaitsInVain ==
    \A o \in Objects :
        LET key == where[o].key IN
        CASE where[o].at = "untilBlock"    -> key \notin store.imported
          [] where[o].at = "untilSlot"     -> key > store.slot
          [] where[o].at = "untilEnvelope" -> key \notin store.payloads
          [] where[o].at \in {"untilBlobs", "untilData"} -> MissingColumns(store, key) # {}
          [] OTHER -> TRUE

\* A block imported before its columns has a promise for every column it lacks
\* (mark_sidecar_as_being_reconstructed), without which the columns that still
\* arrive would be ignored as already known, or columns were constructed for it
\* from the blobs of the execution engine.
ImportedHasDataOrPromise ==
    \A b \in store.imported :
        ~Info[b].gloas /\ Slot(b) >= FinalizedSlot(store) =>
            {b} \X MissingColumns(store, b) \subseteq promised \/ b \in fetched

\* Only an invalid block or one built on an invalid block is remembered as
\* rejected: a copy with a bad signature does not condemn the root (reject_block).
RejectedAreInvalid ==
    \A b \in store.rejected : \E a \in Ancestors[b] : Info[a].invalid

\* Objects do not circulate for ever: once nothing new arrives, retries come to
\* an end and everything is decided or set aside.  The exception is a block or
\* an envelope whose reconstruction was abandoned: it is retried at once, each
\* time it is found complete but for columns under construction.
RetriesEnd == <>[](\A o \in Objects : InFlight(o) => o.root \in abandoned)

\* What arrives together with all it depends on is decided: no cycle of objects
\* that wait for each other, and no columns that wait for a state nobody builds,
\* keeps a block, an envelope or an attestation back.
CompleteIsDecided ==
    scenario.complete /\ (\A o \in Objects : o.el \/ where[o] # Idle)
        ~> \A o \in Objects : o.kind = "column" \/ where[o] = Done
=============================================================================
