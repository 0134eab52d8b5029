----------------------------- MODULE Persistence -----------------------------
(***************************************************************************)
(* How blob sidecars, execution payload envelopes and data column sidecars *)
(* get from the caches of the fork choice store into the database: the     *)
(* mutator (mutator.rs) marks and prunes what is in the caches and spawns  *)
(* tasks (tasks.rs), which the workers of the thread pool run or drop.     *)
(*                                                                         *)
(* A task has what was unpersisted in the snapshot of the store it was     *)
(* spawned with.  Storage pruning is disabled and the pool is not stopped. *)
(***************************************************************************)
EXTENDS ThreadPool

CONSTANTS Blobs, Envelopes, Columns,
          MaxSlot,        \* ticks go on at the last slot
          LastBlock,      \* the last slot of a block with sidecars or an envelope
          FinalityLag,    \* how far behind the slot the finalized one is, at least
          HeadAge,        \* how far behind the slot the head is, at most
          MaxInFlight,    \* bound on the tasks spawned and not yet reported
          MaxFailures     \* bound on the failures of the database

ASSUME PersistenceAssumption ==
  /\ MaxSlot \in Nat /\ LastBlock \in 0..MaxSlot /\ FinalityLag \in Nat /\ HeadAge \in Nat
  /\ MaxInFlight \in Nat \ {0} /\ MaxFailures \in Nat
  /\ Blobs \cap Envelopes = {} /\ Blobs \cap Columns = {} /\ Envelopes \cap Columns = {}

VARIABLES cache,          \* what is in the caches: its slot and whether it is marked
          saved,          \* what is in the database
          accepted,       \* all that was ever accepted
          channel,        \* messages from the tasks to the mutator
          slot, finalizedSlot, pendingArchive, failures

mutatorVars == <<cache, accepted, slot, finalizedSlot, pendingArchive>>
taskVars == <<saved, failures>>
persistenceVars == <<poolVars, mutatorVars, taskVars, channel>>

Items == Blobs \cup Envelopes \cup Columns
PersistTasks == [items : SUBSET Items, kind : {"blobs", "envelopes", "columns"}, slot : 0..MaxSlot]

\* No other tasks are of interest here: they only delay these.
ASSUME TasksAssumption ==
  HighTasks = {} /\ MidTasks = {} /\ LowTasks = PersistTasks /\ PersistenceTasks = PersistTasks

ItemsOf(kind) ==
  CASE kind = "blobs" -> Blobs [] kind = "envelopes" -> Envelopes [] kind = "columns" -> Columns

\* unpersisted_blob_sidecars, unpersisted_envelopes, unpersisted_data_column_sidecars
Unpersisted(c, kind) == {i \in DOMAIN c \cap ItemsOf(kind) : ~c[i].persisted}

PersistTask(c, kind, pruneSlot) == [items |-> Unpersisted(c, kind), kind |-> kind, slot |-> pruneSlot]

Without(c, items) == [i \in DOMAIN c \ items |-> c[i]]

PersistenceInit ==
  /\ Init
  /\ cache = <<>> /\ saved = {} /\ accepted = {} /\ channel = <<>>
  /\ slot = 0 /\ finalizedSlot = 0 /\ pendingArchive = FALSE /\ failures = 0

-----------------------------------------------------------------------------
\* The mutator handles one message at a time, the call of notify_one included.
MutatorIsFree == notifying = 0

\* Bounds what the mutator may start.  A message is handled without regard to
\* it, as it makes room for the task that handling it may spawn.
MayStart ==
  /\ MutatorIsFree
  /\ Len(low) + Len(channel) + Cardinality({w \in Workers : phase[w] = "running"}) < MaxInFlight

\* insert of the three caches, of an item that belongs to a block of slot s
Inserted(i, s) ==
  [j \in DOMAIN cache \cup {i} |-> IF j = i THEN [slot |-> s, persisted |-> FALSE] ELSE cache[j]]

\* The item may belong to any earlier slot, even one that was finalized after
\* the item was validated.
\* accept_blob_sidecar and accept_execution_payload_envelope.  Each item is
\* accepted once: a copy of an envelope that was validated at the same time would
\* be written again, under the same key.
AcceptAndPersist(kind) ==
  /\ MayStart
  /\ \E i \in ItemsOf(kind) \ accepted, s \in {b \in 0..LastBlock : b <= slot} :
       /\ cache' = Inserted(i, s)
       /\ accepted' = accepted \cup {i}
  /\ SpawnLow(PersistTask(cache', kind, 0))
  /\ UNCHANGED <<taskVars, channel, slot, finalizedSlot, pendingArchive>>

\* accept_data_column_sidecar: the next tick will persist it
AcceptColumn ==
  /\ MayStart
  /\ \E i \in Columns \ accepted, s \in {b \in 0..LastBlock : b <= slot} :
       /\ cache' = Inserted(i, s)
       /\ accepted' = accepted \cup {i}
  /\ UNCHANGED <<poolVars, taskVars, channel, slot, finalizedSlot, pendingArchive>>

\* mark_persisted_blobs, mark_persisted_envelopes, mark_persisted_data_columns
Marked(items) ==
  [i \in DOMAIN cache |-> [slot |-> cache[i].slot, persisted |-> cache[i].persisted \/ i \in items]]

\* Mutant of PrunePersisted: what is not marked goes as well.
PrunePersisted_All(c, pruneSlot) ==
  Without(c, {i \in DOMAIN c \cap Columns : c[i].slot < pruneSlot})

\* prune_persisted
PrunePersisted(c, pruneSlot) ==
  Without(c, {i \in DOMAIN c \cap Columns : c[i].persisted /\ c[i].slot < pruneSlot})

\* handle_finish_persisting_blob_sidecars, _execution_payload_envelopes and
\* _data_column_sidecars
HandleFinishPersisting ==
  /\ MutatorIsFree /\ channel # <<>>
  /\ channel' = Tail(channel)
  /\ LET m == Head(channel)
         marked == Marked(m.items)
     IN  IF m.kind = "columns"
         THEN cache' = PrunePersisted(marked, m.slot) /\ UNCHANGED poolVars
         ELSE /\ cache' = marked
              /\ IF Unpersisted(marked, m.kind) # {} THEN SpawnLow(PersistTask(marked, m.kind, 0))
                 ELSE UNCHANGED poolVars
  /\ UNCHANGED <<taskVars, accepted, slot, finalizedSlot, pendingArchive>>

\* is_peerdas_activated
PeerDas == Columns # {}

\* try_spawn_persist_data_columns_task
PersistColumns(c, pruneSlot) ==
  IF PeerDas THEN SpawnLow(PersistTask(c, "columns", pruneSlot)) ELSE UNCHANGED poolVars

\* DATA_COLUMN_RETAIN_DURATION_IN_SLOTS before the head
PruneSlot(head) == IF head < 2 THEN 0 ELSE head - 2

\* BlobCache::on_slot: BLOB_RETAIN_DURATION_IN_SLOTS is two
OnSlot(c, s) == Without(c, {b \in DOMAIN c \cap Blobs : c[b].slot + 2 < s})

\* prune_after_finalization
PruneFinalized(c, f) == Without(c, {e \in DOMAIN c \cap Envelopes : c[e].slot < f})

\* handle_tick at the start of a slot, whose head is of this slot or older.
\* When it finalizes, columns are persisted later in the slot.
Tick ==
  /\ MayStart
  /\ slot' = IF slot < MaxSlot THEN slot + 1 ELSE slot
  /\ \/ \E head \in {h \in 0..slot : slot <= h + HeadAge} :
          /\ cache' = OnSlot(cache, slot')
          /\ PersistColumns(cache', PruneSlot(head))
          /\ UNCHANGED <<finalizedSlot, pendingArchive>>
     \/ /\ finalizedSlot' \in (finalizedSlot + 1)..(slot - FinalityLag)
        /\ cache' = OnSlot(PruneFinalized(cache, finalizedSlot'), slot')
        /\ pendingArchive' = TRUE
        /\ UNCHANGED poolVars
  /\ UNCHANGED <<taskVars, channel, accepted>>

\* handle_tick at the time of aggregation
AggregateTick ==
  /\ MayStart /\ pendingArchive
  /\ pendingArchive' = FALSE
  /\ PersistColumns(cache, finalizedSlot)
  /\ UNCHANGED <<taskVars, channel, cache, accepted, slot, finalizedSlot>>

\* accept_block, of a block that finalizes
FinalizeByBlock ==
  /\ MayStart
  /\ finalizedSlot' \in (finalizedSlot + 1)..(slot - FinalityLag)
  /\ cache' = PruneFinalized(cache, finalizedSlot')
  /\ pendingArchive' = FALSE
  /\ PersistColumns(cache', finalizedSlot')
  /\ UNCHANGED <<taskVars, channel, accepted, slot>>

-----------------------------------------------------------------------------
\* Mutant of Run: a failure is reported like a success.
Run_ReportsFailure(w) ==
  /\ Finish(w)
  /\ channel' = Append(channel, task[w])
  /\ \/ saved' = saved \cup task[w].items /\ UNCHANGED failures
     \/ failures < MaxFailures /\ failures' = failures + 1 /\ UNCHANGED saved
  /\ UNCHANGED mutatorVars

\* run of the three tasks: the batch is written, and the mutator is told which
\* items were in it, or the database fails and nobody is told.
Run(w) ==
  /\ Finish(w)
  /\ \/ /\ saved' = saved \cup task[w].items
        /\ channel' = Append(channel, task[w])
        /\ UNCHANGED failures
     \/ /\ failures < MaxFailures
        /\ failures' = failures + 1
        /\ UNCHANGED <<saved, channel>>
  /\ UNCHANGED mutatorVars

\* What the pool does by itself.
Pool ==
  /\ NotifyOne \/ \E w \in Workers : Lock(w) \/ Reset(w)
  /\ UNCHANGED <<mutatorVars, taskVars, channel>>

PersistenceNext ==
  \/ AcceptAndPersist("blobs")
  \/ AcceptAndPersist("envelopes")
  \/ AcceptColumn
  \/ HandleFinishPersisting
  \/ Tick
  \/ AggregateTick
  \/ FinalizeByBlock
  \/ \E w \in Workers : Run(w)
  \/ Pool

\* The workers are as fair as in ThreadPool.  Ticks keep coming and messages
\* are handled; the bound MaxInFlight delays ticks but does not suppress them.
PersistenceFairness ==
  /\ WF_persistenceVars(NotifyOne /\ UNCHANGED <<mutatorVars, taskVars, channel>>)
  /\ \A w \in Workers : /\ WF_persistenceVars(Lock(w) /\ UNCHANGED <<mutatorVars, taskVars, channel>>)
                        /\ WF_persistenceVars(Reset(w) /\ UNCHANGED <<mutatorVars, taskVars, channel>>)
                        /\ WF_persistenceVars(Run(w))
  /\ SF_persistenceVars(Tick) /\ SF_persistenceVars(HandleFinishPersisting)
  /\ WF_persistenceVars(AggregateTick)

PersistenceSpec == PersistenceInit /\ [][PersistenceNext]_persistenceVars
FairPersistenceSpec == PersistenceSpec /\ PersistenceFairness

-----------------------------------------------------------------------------
\* The caches, the database, the tasks and the messages are what they should be.
PersistenceTypeOK ==
  /\ low \in Seq(PersistTasks) /\ channel \in Seq(PersistTasks)
  /\ task \in [Workers -> PersistTasks \cup {None}]
  /\ cache \in [DOMAIN cache -> [slot : 0..MaxSlot, persisted : BOOLEAN]]
  /\ DOMAIN cache \subseteq Items /\ saved \subseteq Items /\ accepted \subseteq Items
  /\ slot \in 0..MaxSlot /\ finalizedSlot \in 0..MaxSlot
  /\ pendingArchive \in BOOLEAN /\ failures \in 0..MaxFailures

\* What the caches mark as persisted is in the database, also when an earlier
\* task failed or was dropped: the message lists what its own batch wrote.
PersistedIsSaved == \A i \in DOMAIN cache : cache[i].persisted => i \in saved

\* A data column never gets lost between the cache and the database: it leaves
\* the cache (prune_persisted) only when its own mark is set.
ColumnsSurvive == \A c \in accepted \cap Columns : c \in DOMAIN cache \cup saved

\* Every data column gets to the database, although the task that was to write
\* it may be dropped or fail: each tick spawns another one.
ColumnsAreSaved == \A c \in Columns : c \in accepted ~> c \in saved

=============================================================================
