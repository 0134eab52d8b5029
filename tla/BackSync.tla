------------------------------ MODULE BackSync ------------------------------
(***************************************************************************)
(* Back-sync: after a checkpoint sync the block sync service downloads the *)
(* history before the checkpoint, batch by batch and backwards, verifies   *)
(* every batch on another executor, stores it, and saves its progress in   *)
(* the sync database.  Several back-syncs may be on record, one for every  *)
(* checkpoint sync of the node; they are done from the highest down.       *)
(*                                                                         *)
(* A block stands for its root.  Slots, ranges and the order of writes are *)
(* kept; the blobs or data columns of a block are one datum, its sidecars. *)
(* Payload envelopes are left out: a batch is verified without them.       *)
(***************************************************************************)
EXTENDS Integers, FiniteSets

CONSTANTS
  Blocks,         \* blocks that peers may send, other blocks of slot 0 included
  Chain,          \* the blocks of the canonical chain
  Genesis,        \* our own genesis block
  Previous,       \* blocks that an earlier life of the node may have finalized
  None,           \* no block, a zero root, or no back-sync
  SlotOf,         \* the slot of a block
  Parent,         \* the parent of a block
  WithData,       \* blocks whose sidecars verification insists on
  Anchors,        \* checkpoints that a checkpoint sync may load
  BadAnswers,     \* what peers may answer instead of what they are asked for
  ServeFrom,      \* the first slot of the block request window
  Span,           \* the slots of a batch
  MaxBatches,     \* bound on the batches requested at once
  MaxTroubles     \* bound on the crashes, bad answers, timeouts, failed writes
                  \* and the times the node falls behind the head, together

ASSUME BlocksAssumption ==
  /\ Chain \subseteq Blocks /\ Genesis \in Chain /\ None \notin Blocks
  /\ SlotOf \in [Blocks -> Nat] /\ Parent \in [Blocks -> Blocks \cup {None}]
  /\ WithData \subseteq Blocks /\ \A b \in WithData : SlotOf[b] # 0
  /\ Anchors \subseteq Chain
  /\ Previous \subseteq Blocks \ {Genesis}
  /\ \A b \in Previous, c \in Chain :
       /\ Parent[b] \in Chain /\ SlotOf[Parent[b]] < SlotOf[b]
       /\ SlotOf[c] < SlotOf[b] => SlotOf[c] <= SlotOf[Parent[b]]

ASSUME ChainAssumption ==
  /\ SlotOf[Genesis] = 0 /\ Parent[Genesis] = None
  /\ \A c, d \in Chain : SlotOf[c] = SlotOf[d] => c = d
  /\ \A c \in Chain \ {Genesis} :
       /\ Parent[c] \in Chain /\ SlotOf[Parent[c]] < SlotOf[c]
       /\ \A d \in Chain : SlotOf[d] < SlotOf[c] => SlotOf[d] <= SlotOf[Parent[c]]

\* Peers may answer with blocks of other ranges; of two blocks of a slot the
\* last one counts.
ASSUME AnswersAssumption ==
  /\ BadAnswers \subseteq [blocks : SUBSET Blocks, data : SUBSET WithData]
  /\ \A a \in BadAnswers : \A b, c \in a.blocks : SlotOf[b] = SlotOf[c] => b = c

ASSUME BoundsAssumption ==
  /\ ServeFrom \in Nat /\ Span \in Nat \ {0} /\ MaxBatches \in Nat
  /\ MaxTroubles \in Nat

VARIABLES
  stored,         \* blocks in storage
  sidecars,       \* blocks whose sidecars are in storage
  records,        \* back-syncs in the sync database, one for a low slot
  latest,         \* latest_finalized_back_sync_checkpoint in that database
  finalized,      \* the newest finalized block in storage
  archive,        \* the storage mode is Archive
  stage,          \* how far the node has started
  remote,         \* loaded_from_remote
  message,        \* SyncMessage::Finalized on its way to the service
  synced,         \* the controller's is_forward_synced
  told,           \* the controller's is_back_synced
  sync,           \* back_sync, None also while a task has it
  batch,          \* the blocks and sidecars of the current batch
  delayed, sent,  \* ranges to be requested, and requested
  late,           \* ranges of requests the service gave up
  forwarding,     \* requests of the forward sync are outstanding
  direction,      \* sync_direction
  forwardSynced, backSynced,
  task,           \* the verification on the dedicated executor
  archiver,       \* the thread that archives states
  earliest,       \* earliest_available_slot that peers are told
  troubles,       \* crashes, faults and lapses so far
  excuses,        \* history: what has cost the node its history so far
  older,          \* history: a checkpoint sync has gone back to an older block
  bare            \* history: checkpoints that came without their sidecars

disk == <<stored, sidecars, records, latest, finalized>>
node == <<archive, stage, remote, older, bare>>
network == <<message, synced, told>>
requests == <<delayed, sent, late, forwarding>>
flags == <<direction, forwardSynced, backSynced>>
vars == <<disk, node, network, sync, batch, requests, flags, task, archiver,
          earliest, troubles, excuses>>

Terminus == {t \in [slot : Nat, root : Blocks \cup {None}] :
               t.root # None => t.slot = SlotOf[t.root]}
Data == [current : Blocks, high : Blocks, low : Terminus]

ASSUME NoneAssumption == None \notin Data

Batch == [blocks : SUBSET Blocks, data : SUBSET WithData]
Task == [step : {"idle", "walk", "blocks", "sidecars", "save", "reply"},
         sync : Data \cup {None}, left : SUBSET Blocks,
         reached : Blocks \cup {None}, verified : SUBSET Blocks,
         data : SUBSET WithData]

NoBatch == [blocks |-> {}, data |-> {}]

Idle == [step |-> "idle", sync |-> None, left |-> {}, reached |-> None,
         verified |-> {}, data |-> {}]

-----------------------------------------------------------------------------
(* The records of the sync database.                                       *)

Finished(d) ==
  \/ SlotOf[d.current] <= d.low.slot
  \/ ~archive /\ SlotOf[d.current] <= ServeFrom

Save(d, saved) == {r \in saved : r.low.slot # d.low.slot} \cup {d}

Remove(d, saved) == {r \in saved : r.low.slot # d.low.slot}

\* What Data::find returns, the record with the highest low slot.
Found(d, saved) ==
  \/ saved = {} /\ d = None
  \/ d \in saved /\ \A r \in saved : r.low.slot <= d.low.slot

ArchiverFor_Unfinished(d) ==
  IF d # None /\ archiver = "idle" THEN "running" ELSE archiver

ArchiverFor(d) ==
  IF d # None /\ archiver = "idle" /\ Finished(d) THEN "running" ELSE archiver

-----------------------------------------------------------------------------
(* Starting the node.                                                      *)

Init ==
  /\ archive \in BOOLEAN
  /\ latest \in {None} \cup Previous
  /\ stored = IF latest = None THEN {}
              ELSE {latest} \cup {c \in Chain : SlotOf[c] <= SlotOf[Parent[latest]]}
  /\ sidecars = stored \cap WithData /\ records = {}
  /\ finalized = None /\ stage = "down" /\ remote = FALSE
  /\ message = None /\ synced = FALSE /\ told = FALSE
  /\ sync = None /\ batch = NoBatch
  /\ delayed = {} /\ sent = {} /\ late = {} /\ forwarding = FALSE
  /\ direction = "forward" /\ forwardSynced = FALSE /\ backSynced = FALSE
  /\ task = Idle /\ archiver = "idle" /\ earliest = 0
  /\ troubles = 0 /\ excuses = {} /\ older = FALSE /\ bare = {}

\* A checkpoint sync loads a block and its state, and no sidecars.
LoadRemote(a) ==
  /\ stage = "down"
  /\ stored' = stored \cup {a} /\ finalized' = a
  /\ remote' = TRUE /\ stage' = "loaded"
  /\ older' = (older \/ \E b \in {latest, finalized} \ {None} : SlotOf[a] < SlotOf[b])
  /\ bare' = bare \cup ({a} \cap (WithData \ sidecars))
  /\ UNCHANGED <<sidecars, records, latest, archive, network, sync,
                 batch, requests, flags, task, archiver, earliest, troubles, excuses>>

LoadLocal ==
  /\ stage = "down" /\ finalized # None
  /\ remote' = FALSE /\ stage' = "loaded"
  /\ UNCHANGED <<disk, archive, older, bare, network, sync, batch, requests,
                 flags, task, archiver, earliest, troubles, excuses>>

BackSyncTerminus ==
  IF latest # None THEN [slot |-> SlotOf[latest], root |-> latest]
  ELSE IF archive THEN [slot |-> 0, root |-> Genesis]
  ELSE [slot |-> ServeFrom, root |-> None]

BackSyncFromAnchor ==
  [current |-> finalized, high |-> finalized, low |-> BackSyncTerminus]

Plan ==
  /\ stage = "loaded"
  /\ records' = IF remote /\ ~Finished(BackSyncFromAnchor)
                THEN Save(BackSyncFromAnchor, records) ELSE records
  /\ stage' = "planned"
  /\ UNCHANGED <<stored, sidecars, latest, finalized, archive, remote, older,
                 bare, network, sync, batch, requests, flags, task, archiver,
                 earliest, troubles, excuses>>

\* The slot that peers are told first, that of the block the node starts from.
AnchorSlot == SlotOf[finalized]

Run_NoArchiver ==
  /\ stage = "planned"
  /\ latest' = IF remote /\ latest = None THEN finalized ELSE latest
  /\ sync' \in records \cup {None} /\ Found(sync', records)
  /\ archiver' = "idle"
  /\ backSynced' = (sync' = None) /\ told' = (sync' = None)
  /\ forwardSynced' = synced
  /\ direction' = IF synced /\ sync' # None THEN "back" ELSE "forward"
  /\ earliest' = AnchorSlot
  /\ stage' = "running"
  /\ UNCHANGED <<stored, sidecars, records, finalized, archive, remote, older, bare,
                 message, synced, batch, requests, task, troubles, excuses>>

Run ==
  /\ stage = "planned"
  /\ latest' = IF remote /\ latest = None THEN finalized ELSE latest
  /\ sync' \in records \cup {None} /\ Found(sync', records)
  /\ archiver' = ArchiverFor(sync')
  /\ backSynced' = (sync' = None) /\ told' = (sync' = None)
  /\ forwardSynced' = synced
  /\ direction' = IF synced /\ sync' # None THEN "back" ELSE "forward"
  /\ earliest' = AnchorSlot
  /\ stage' = "running"
  /\ UNCHANGED <<stored, sidecars, records, finalized, archive, remote, older, bare,
                 message, synced, batch, requests, task, troubles, excuses>>

CountTrouble(trouble) ==
  /\ trouble => troubles < MaxTroubles
  /\ troubles' = IF trouble THEN troubles + 1 ELSE troubles

Crash ==
  /\ stage # "down" /\ CountTrouble(TRUE) /\ stage' = "down"
  /\ excuses' = excuses \cup (IF stage = "loaded" /\ remote THEN {"unplanned"} ELSE {})
  /\ message' = None /\ synced' = FALSE /\ told' = FALSE
  /\ sync' = None /\ batch' = NoBatch
  /\ delayed' = {} /\ sent' = {} /\ late' = {} /\ forwarding' = FALSE
  /\ direction' = "forward" /\ forwardSynced' = FALSE /\ backSynced' = FALSE
  /\ task' = Idle /\ archiver' = "idle"
  /\ UNCHANGED <<disk, archive, remote, older, bare, earliest>>

-----------------------------------------------------------------------------
(* The node around the service.                                            *)

Finalize ==
  /\ stage = "running" /\ message = None
  /\ \E c \in Chain :
       /\ c # Genesis /\ Parent[c] = finalized
       /\ stored' = stored \cup {c}
       /\ sidecars' = sidecars \cup ({c} \cap WithData)
       /\ finalized' = c /\ message' = c
  /\ UNCHANGED <<records, latest, node, synced, told, sync, batch, requests,
                 flags, task, archiver, earliest, troubles, excuses>>

HandleFinalized ==
  /\ message # None
  /\ latest' = message /\ message' = None
  /\ UNCHANGED <<stored, sidecars, records, finalized, node, synced, told, sync,
                 batch, requests, flags, task, archiver, earliest, troubles, excuses>>

FallBehind ==
  /\ synced /\ CountTrouble(TRUE)
  /\ synced' = FALSE
  /\ UNCHANGED <<disk, node, message, told, sync, batch, requests, flags, task,
                 archiver, earliest, excuses>>

CatchUp ==
  /\ ~synced /\ synced' = TRUE
  /\ UNCHANGED <<disk, node, message, told, sync, batch, requests, flags, task,
                 archiver, earliest, troubles, excuses>>

-----------------------------------------------------------------------------
(* Requests.  A range is a pair of its first slot and the slot after its   *)
(* last.                                                                   *)

Below(slot, n) == IF slot > n THEN slot - n ELSE 0

\* The batches of build_back_sync_batches if peers for n of them are found.
Batches(d, n) ==
  LET cur == SlotOf[d.current]
      from(k) == Below(cur, k * Span)
  IN  {<<from(k), from(k - 1)>> : k \in {j \in 1..n :
         /\ from(j) < from(j - 1)
         /\ \A i \in 1..(j - 1) : from(i) > Below(d.low.slot, 1)}}

RequestData(n) ==
  /\ stage = "running" /\ sent = {} /\ ~forwarding
  /\ forwardSynced' = synced
  /\ direction' = CASE forwardSynced /\ ~synced -> "forward"
                    [] ~forwardSynced /\ synced /\ sync # None -> "back"
                    [] OTHER -> direction
  /\ \/ direction' = "forward" /\ forwarding' \in BOOLEAN /\ UNCHANGED delayed
     \/ /\ direction' = "back" /\ UNCHANGED forwarding
        /\ delayed' = IF delayed = {} /\ sync # None /\ ~Finished(sync)
                      THEN Batches(sync, n) ELSE delayed
  /\ UNCHANGED <<disk, node, network, sync, batch, sent, late, backSynced, task,
                 archiver, earliest, troubles, excuses>>

ForwardFinished ==
  /\ forwarding /\ forwarding' = FALSE
  /\ UNCHANGED <<disk, node, network, sync, batch, delayed, sent, late, flags,
                 task, archiver, earliest, troubles, excuses>>

Interval_AnnouncesLow(due) ==
  /\ stage = "running"
  /\ \A r \in due, s \in delayed \ due : r[1] > s[1]
  /\ delayed' = delayed \ due /\ sent' = sent \cup due
  /\ earliest' = IF direction = "back" /\ sync # None
                 THEN sync.low.slot ELSE earliest
  /\ UNCHANGED <<disk, node, network, sync, batch, late, forwarding, flags, task,
                 archiver, troubles, excuses>>

Interval(due) ==
  /\ stage = "running"
  /\ \A r \in due, s \in delayed \ due : r[1] > s[1]
  /\ delayed' = delayed \ due /\ sent' = sent \cup due
  /\ earliest' = IF direction = "back" /\ sync # None
                 THEN SlotOf[sync.current] ELSE earliest
  /\ UNCHANGED <<disk, node, network, sync, batch, late, forwarding, flags, task,
                 archiver, troubles, excuses>>

\* What a peer answers that has the chain and does as it is asked.
Complete(r) ==
  LET asked == {b \in Chain : r[1] <= SlotOf[b] /\ SlotOf[b] < r[2]}
  IN  [blocks |-> asked, data |-> asked \cap WithData]

Answers(r) == BadAnswers \cup {Complete(r)}

Push(a) ==
  LET new == {b \in a.blocks : SlotOf[b] <= SlotOf[sync.high]}
  IN  IF sync = None \/ Finished(sync) THEN batch
      ELSE [blocks |-> {b \in batch.blocks : \A c \in new : SlotOf[c] # SlotOf[b]}
                         \cup new,
            data |-> batch.data
                       \cup {b \in a.data : SlotOf[b] <= SlotOf[sync.high]}]

\* check_back_sync_progress: a task takes the back-sync when nothing is
\* outstanding.
CheckProgress(pushed) ==
  IF sent' = {} /\ delayed = {} /\ ~forwarding /\ sync # None
  THEN /\ task' = [step |-> "walk", sync |-> sync, reached |-> sync.current,
                   left |-> {b \in pushed.blocks : SlotOf[b] < SlotOf[sync.current]},
                   verified |-> {}, data |-> pushed.data]
       /\ sync' = None /\ batch' = NoBatch
  ELSE batch' = pushed /\ UNCHANGED <<sync, task>>

\* The blocks and sidecars of a range arrive and its requests finish.  Without
\* a block the range waits for another peer, if there is one.
Answer(r, a) ==
  /\ r \in sent
  /\ CountTrouble(a # Complete(r))
  /\ \/ sent' = sent \ {r}
     \/ a.blocks = {} /\ sent' = sent
  /\ CheckProgress(Push(a))
  /\ UNCHANGED <<disk, node, network, delayed, late, forwarding, flags, archiver,
                 earliest, excuses>>

\* A request expires or its peer leaves; it is given up when no peer is left to ask or after
\* MAX_SYNC_BATCH_RETRIES.
Expire(r, retry) ==
  /\ r \in sent /\ CountTrouble(TRUE)
  /\ sent' = IF retry THEN sent ELSE sent \ {r}
  /\ late' = late \cup {r}
  /\ UNCHANGED <<disk, node, network, sync, batch, delayed, forwarding, flags,
                 task, archiver, earliest, excuses>>

\* The answer to an expired request: its direction is no longer known.
LateAnswer(r, a) ==
  /\ r \in late /\ CountTrouble(a # Complete(r))
  /\ late' = late \ {r}
  /\ batch' = IF direction = "back" THEN Push(a) ELSE batch
  /\ UNCHANGED <<disk, node, network, sync, delayed, sent, forwarding, flags, task,
                 archiver, earliest, excuses>>

-----------------------------------------------------------------------------
(* The task that verifies and stores a batch.                              *)

Reply(d) == [step |-> "reply", sync |-> d, left |-> {}, reached |-> None,
             verified |-> {}, data |-> {}]

Proceed(step) == [task EXCEPT !.step = step]

VerifyBlock_Unlinked ==
  /\ task.step = "walk"
  /\ \E b \in task.left :
       LET rest == {c \in task.left : SlotOf[c] < SlotOf[b]}
           linked == TRUE
           taken == SlotOf[b] = 0 \/ (rest # {} /\ linked /\ (b \in WithData => b \in task.data))
       IN  /\ \A c \in task.left : SlotOf[c] <= SlotOf[b]
           /\ task' =
                IF taken
                THEN [task EXCEPT !.left = rest, !.reached = b, !.verified = @ \cup {b}]
                ELSE IF rest = {} THEN [task EXCEPT !.left = {}]
                ELSE Reply(task.sync)
           /\ excuses' = IF SlotOf[b] = 0 /\ ~linked THEN excuses \cup {"genesis"}
                         ELSE excuses
  /\ UNCHANGED <<disk, node, network, sync, batch, requests, flags, archiver,
                 earliest, troubles>>

\* A step of the loop of verify_from_checkpoint, down the slots.  A block of
\* slot 0 is taken as it is, the last block only serves as the parent of the
\* one before it.
VerifyBlock ==
  /\ task.step = "walk"
  /\ \E b \in task.left :
       LET rest == {c \in task.left : SlotOf[c] < SlotOf[b]}
           linked == b = Parent[task.reached]
           taken == SlotOf[b] = 0 \/ (rest # {} /\ linked /\ (b \in WithData => b \in task.data))
       IN  /\ \A c \in task.left : SlotOf[c] <= SlotOf[b]
           /\ task' =
                IF taken
                THEN [task EXCEPT !.left = rest, !.reached = b, !.verified = @ \cup {b}]
                ELSE IF rest = {} THEN [task EXCEPT !.left = {}]
                ELSE Reply(task.sync)
           /\ excuses' = IF SlotOf[b] = 0 /\ ~linked THEN excuses \cup {"genesis"}
                         ELSE excuses
  /\ UNCHANGED <<disk, node, network, sync, batch, requests, flags, archiver,
                 earliest, troubles>>

Mismatch(d, reached) ==
  SlotOf[reached] = d.low.slot /\ d.low.root \notin {None, reached}

CheckTerminus ==
  /\ task.step = "walk" /\ task.left = {}
  /\ \/ /\ ~Mismatch(task.sync, task.reached)
        /\ task' = Proceed("blocks") /\ UNCHANGED <<records, excuses>>
     \/ /\ Mismatch(task.sync, task.reached)
        /\ records' = Remove(task.sync, records)
        /\ \E next \in records' \cup {None} :
             Found(next, records') /\ task' = Reply(next)
        /\ excuses' = excuses \cup {"mismatch"}
  /\ UNCHANGED <<stored, sidecars, latest, finalized, node, network, sync, batch,
                 requests, flags, archiver, earliest, troubles>>

Advanced == [task.sync EXCEPT !.current = task.reached]

StoreBlocks_SavesProgress ==
  /\ task.step = "blocks"
  /\ stored' = stored \cup task.verified
  /\ records' = Save(Advanced, records)
  /\ task' = Proceed("sidecars")
  /\ UNCHANGED <<sidecars, latest, finalized, node, network, sync, batch,
                 requests, flags, archiver, earliest, troubles, excuses>>

StoreBlocks ==
  /\ task.step = "blocks"
  /\ stored' = stored \cup task.verified
  /\ task' = Proceed("sidecars")
  /\ UNCHANGED <<sidecars, records, latest, finalized, node, network, sync, batch,
                 requests, flags, archiver, earliest, troubles, excuses>>

StoreSidecars ==
  /\ task.step = "sidecars"
  /\ sidecars' = sidecars \cup (task.verified \cap WithData)
  /\ task' = Proceed("save")
  /\ UNCHANGED <<stored, records, latest, finalized, node, network, sync, batch,
                 requests, flags, archiver, earliest, troubles, excuses>>

SaveProgress ==
  /\ task.step = "save"
  /\ records' = Save(Advanced, records)
  /\ task' = Reply(Advanced)
  /\ UNCHANGED <<stored, sidecars, latest, finalized, node, network, sync, batch,
                 requests, flags, archiver, earliest, troubles, excuses>>

\* A write fails.  The progress in memory is updated before it is saved.
WriteFails ==
  /\ task.step \in {"blocks", "sidecars", "save"} /\ CountTrouble(TRUE)
  /\ task' = Reply(IF task.step = "save" THEN Advanced ELSE task.sync)
  /\ UNCHANGED <<disk, node, network, sync, batch, requests, flags, archiver,
                 earliest, excuses>>

HandleBackSync ==
  /\ task.step = "reply"
  /\ sync' = task.sync /\ batch' = NoBatch /\ task' = Idle
  /\ archiver' = ArchiverFor(task.sync)
  /\ UNCHANGED <<disk, node, network, requests, flags, earliest, troubles, excuses>>

-----------------------------------------------------------------------------
(* The end of a back-sync.                                                 *)

ArchiverFinishes ==
  /\ archiver = "running" /\ archiver' = "reported"
  /\ UNCHANGED <<disk, node, network, sync, batch, requests, flags, task, earliest,
                 troubles, excuses>>

CloseBackSync ==
  /\ backSynced' = TRUE /\ archiver' = "closed"
  /\ IF backSynced THEN UNCHANGED <<sent, forwarding, direction>>
     ELSE sent' = {} /\ forwarding' = FALSE /\ direction' = "forward"
  /\ UNCHANGED <<sync, batch, delayed, late, forwardSynced>>

Finish_IgnoresOthers ==
  /\ records' = Remove(sync, records)
  /\ earliest' = SlotOf[sync.current]
  /\ CloseBackSync

Finish ==
  /\ records' = Remove(sync, records)
  /\ earliest' = SlotOf[sync.current]
  /\ \/ records' = {} /\ CloseBackSync
     \/ \E next \in records' :
          /\ Found(next, records')
          /\ sync' = next /\ batch' = NoBatch
          /\ archiver' = IF Finished(next) THEN "running" ELSE "idle"
          /\ UNCHANGED <<requests, flags>>

\* The controller is told that back-sync has completed whatever Finish does.
HandleArchived ==
  /\ archiver = "reported" /\ told' = TRUE
  /\ IF sync # None THEN Finish
     ELSE archiver' = "closed" /\ UNCHANGED <<records, earliest, sync, batch, requests, flags>>
  /\ UNCHANGED <<stored, sidecars, latest, finalized, node, message, synced, task,
                 troubles, excuses>>

-----------------------------------------------------------------------------
Start == (\E a \in Anchors : LoadRemote(a)) \/ LoadLocal \/ Plan \/ Run

Around == Finalize \/ HandleFinalized \/ FallBehind \/ CatchUp \/ ForwardFinished

TaskStep == VerifyBlock \/ CheckTerminus \/ StoreBlocks \/ StoreSidecars \/ SaveProgress

End == HandleBackSync \/ ArchiverFinishes \/ HandleArchived

Next ==
  \/ Start \/ Crash \/ Around \/ TaskStep \/ WriteFails \/ End
  \/ \E n \in 0..MaxBatches : RequestData(n)
  \/ \E due \in SUBSET delayed : Interval(due)
  \/ \E r \in sent : \E a \in Answers(r) : Answer(r, a)
  \/ \E r \in sent, retry \in BOOLEAN : Expire(r, retry)
  \/ \E r \in late : \E a \in Answers(r) : LateAnswer(r, a)

\* What happens in the end: the service, its task and the archiver run, peers
\* to ask are found, and they answer what they have.
Progress ==
  \/ Start \/ TaskStep \/ End \/ ForwardFinished
  \/ \E n \in 1..MaxBatches : RequestData(n)
  \/ delayed # {} /\ Interval(delayed)
  \/ \E r \in sent : Answer(r, Complete(r))

Spec == Init /\ [][Next]_vars /\ WF_vars(Progress)

-----------------------------------------------------------------------------
Ranges == Nat \X Nat

\* The state the service, its databases and its task may be in.
TypeOK ==
  /\ stored \subseteq Blocks /\ sidecars \subseteq WithData
  /\ records \subseteq Data
  /\ latest \in Blocks \cup {None} /\ finalized \in Chain \cup {None}
  /\ archive \in BOOLEAN /\ stage \in {"down", "loaded", "planned", "running"}
  /\ stage # "down" => finalized # None
  /\ remote \in BOOLEAN /\ message \in Chain \cup {None}
  /\ synced \in BOOLEAN /\ told \in BOOLEAN
  /\ sync \in Data \cup {None}
  /\ batch \in Batch
  /\ delayed \subseteq Ranges /\ sent \subseteq Ranges /\ late \subseteq Ranges
  /\ forwarding \in BOOLEAN /\ direction \in {"forward", "back"}
  /\ forwardSynced \in BOOLEAN /\ backSynced \in BOOLEAN
  /\ task \in Task
  /\ archiver \in {"idle", "running", "reported", "closed"}
  /\ earliest \in Nat
  /\ troubles \in 0..MaxTroubles
  /\ excuses \subseteq {"unplanned", "genesis", "mismatch"}
  /\ older \in BOOLEAN /\ bare \subseteq WithData

\* In storage with its sidecars, which nothing fetches for a checkpoint.
Held(b) == b \in stored /\ (b \in WithData \ bare => b \in sidecars)

HeldFrom(first, last) ==
  \A c \in Chain : first <= SlotOf[c] /\ SlotOf[c] <= last => Held(c)

\* The first slot of the history the storage mode asks for.
Oldest == IF archive THEN 0 ELSE ServeFrom

Recorded(c) ==
  \E r \in records : r.low.slot <= SlotOf[c] /\ SlotOf[c] < SlotOf[r.current]

\* No part of the history is forgotten: in every state, after a crash at any
\* point of a batch too, a finalized block of the history that the storage mode
\* asks for is in storage with its blobs or data columns, or lies in the part of
\* a recorded back-sync that is still to be done.  The block of a checkpoint sync
\* is in storage without its sidecars, which the code never asks for.
HistoryIsCovered ==
  (excuses = {} /\ finalized # None /\ ~(stage = "loaded" /\ remote)) =>
    \A c \in Chain :
      Oldest <= SlotOf[c] /\ SlotOf[c] <= SlotOf[finalized] => Held(c) \/ Recorded(c)

\* Whatever peers answer, in time or late and from whatever slots, verification
\* only lets blocks of the chain of the checkpoint into storage.  The exception
\* is a block of slot 0, which the loop takes unchecked: only a back-sync that
\* ends at our genesis block compares it.
OnlyChainIsStored ==
  [][\A b \in stored' \ stored :
       b \in Chain \/ (SlotOf[b] = 0 /\ task.sync.low.root # Genesis)]_vars

\* Peers are told an earliest available slot from which the node has every
\* block and, but for the block of a checkpoint sync, its sidecars: the first
\* slot announced is that very block's.  The other exception is a node that went back to an older
\* checkpoint: the back-sync with the highest low slot is then not always the
\* one with the latest blocks.
EarliestIsHeld ==
  (stage = "running" /\ excuses = {} /\ ~older) => HeldFrom(earliest, SlotOf[finalized])

\* When the service sets its is_back_synced, the history that the storage mode
\* asks for is complete, but for the sidecars of checkpoints, and the controller
\* is told.  (It is told as well when only the first of several has ended.)
BackSyncedIsComplete ==
  (backSynced /\ excuses = {}) => told /\ HeldFrom(Oldest, SlotOf[finalized])

\* The states of a back-sync are archived when all its blocks are in storage,
\* and the report of the archiver finds the back-sync it is about.
ArchivedIsComplete ==
  archiver \in {"running", "reported"} =>
    /\ sync # None /\ Finished(sync)
    /\ excuses = {} => HeldFrom(IF sync.low.slot > Oldest THEN sync.low.slot ELSE Oldest,
                                SlotOf[sync.high])

\* The saved progress of a back-sync is only undone by a checkpoint sync that
\* plans it anew: neither a restart nor a failed batch goes back.
ProgressIsKept ==
  [][\A r \in records, s \in records' :
       r.low.slot = s.low.slot =>
         SlotOf[s.current] <= SlotOf[r.current] \/ (stage = "loaded" /\ remote)]_vars

Pending == stage = "running" /\ direction = "back" /\ ~backSynced /\ excuses = {}

\* A back-sync that is not paused comes to its end, whatever bad answers,
\* timeouts and failed writes it meets on the way.
BackSyncEnds == Pending ~> ~Pending
=============================================================================
