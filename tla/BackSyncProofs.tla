--------------------------- MODULE BackSyncProofs ---------------------------
(***************************************************************************)
(* What BackSync guarantees for every chain, every set of checkpoints and  *)
(* every number of crashes, faults and lapses.                             *)
(***************************************************************************)
EXTENDS BackSync, TLAPS

Walking == task.step \in {"walk", "blocks", "sidecars", "save"}

\* The back-syncs in memory.
Carried == {sync, task.sync} \ {None}

\* A back-sync has one owner: nothing is outstanding and no archiver runs while
\* a task has it or when it has finished, and nothing is kept over a restart.
Ownership ==
  /\ stage # "running" =>
       /\ sync = None /\ delayed = {} /\ sent = {} /\ task.step = "idle"
       /\ archiver = "idle" /\ ~backSynced /\ message = None
  /\ task.step = "idle" => task.sync = None
  /\ task.step # "idle" =>
       sync = None /\ sent = {} /\ delayed = {} /\ archiver = "idle" /\ ~backSynced
  /\ Walking => task.sync # None
  /\ sync # None /\ Finished(sync) => sent = {} /\ delayed = {}
  /\ archiver # "idle" => sync # None /\ Finished(sync)
  /\ backSynced => records = {} /\ (sync # None => Finished(sync))

\* The blocks that verification lets through: a block of slot 0 is taken as it is.
Taken == Chain \cup {b \in Blocks : SlotOf[b] = 0}

\* There is one record for a low slot, and all checkpoints are on the chain, but
\* for blocks of slot 0 that were not compared with ours.
OnChain ==
  /\ \A r, s \in records : r.low.slot = s.low.slot => r = s
  /\ \A d \in records \cup Carried : d.current \in Taken /\ d.high \in Chain
  /\ Walking => task.reached \in Taken
  /\ task.verified \subseteq Taken
  /\ finalized # None => finalized \in Chain /\ Held(finalized)
  /\ message # None => message = finalized

\* The loop goes down the slots, so that a block of slot 0 is the last one, and
\* what it stores has passed the comparison with the end of the back-sync.
Downward ==
  Walking =>
    /\ task.step = "walk" => \A b \in task.left : SlotOf[b] < SlotOf[task.reached]
    /\ task.step # "walk" => ~Mismatch(task.sync, task.reached)
    /\ \A b \in task.verified : SlotOf[b] = 0 => b = task.reached

\* The verified blocks are all there are between the block that the task has
\* reached and the progress it started from; they are stored before progress is.
Walked ==
  Walking =>
    /\ SlotOf[task.reached] <= SlotOf[task.sync.current]
    /\ excuses = {} =>
         \A c \in Chain :
           SlotOf[task.reached] <= SlotOf[c] /\ SlotOf[c] < SlotOf[task.sync.current]
             => c \in task.verified
    /\ task.step \in {"sidecars", "save"} => task.verified \subseteq stored
    /\ task.step = "save" => task.verified \cap WithData \subseteq sidecars

\* Progress in memory is ahead of the record, and what is between is held.
Ahead ==
  \A d \in Carried, r \in records :
    d.low.slot = r.low.slot =>
      /\ SlotOf[d.current] <= SlotOf[r.current]
      /\ excuses = {} =>
           \A c \in Chain :
             SlotOf[d.current] <= SlotOf[c] /\ SlotOf[c] < SlotOf[r.current] => Held(c)

\* What a back-sync has done is held.
Done ==
  excuses = {} =>
    \A d \in records \cup Carried : HeldFrom(SlotOf[d.current], SlotOf[d.high])

\* The blocks a restart relies on: those up to the finalized block, and those
\* below the checkpoint that ends the next back-sync.
Relied(c) ==
  /\ Oldest <= SlotOf[c]
  /\ \/ finalized # None /\ ~(stage = "loaded" /\ remote) /\ SlotOf[c] <= SlotOf[finalized]
     \/ latest # None /\ SlotOf[c] < SlotOf[latest]

Covered == excuses = {} => \A c \in Chain : Relied(c) => Held(c) \/ Recorded(c)

\* A back-sync starts above its end and goes down.
Proper(d) ==
  /\ SlotOf[d.current] <= SlotOf[d.high]
  /\ d.low.slot < SlotOf[d.high] /\ Oldest < SlotOf[d.high]

InOrder == \A d \in records \cup Carried : Proper(d)

\* It ends where the back-syncs before it have started, or is the only one.
Joined(d) ==
  IF latest = None THEN d.low.slot = BackSyncTerminus.slot
  ELSE /\ d.low.slot <= SlotOf[latest]
       /\ d.low.slot < SlotOf[latest] => SlotOf[d.high] <= SlotOf[latest]

\* The back-sync with the highest low slot has the latest blocks, as long as no
\* checkpoint sync goes back, and it is the one that is carried out.
Stacked ==
  ~older =>
    /\ \A d \in records \cup Carried :
         finalized # None /\ SlotOf[d.high] <= SlotOf[finalized] /\ Joined(d)
    /\ \A r, s \in records : r.low.slot < s.low.slot => SlotOf[r.high] <= SlotOf[s.high]
    /\ \A d \in Carried, r \in records :
         r.low.slot <= d.low.slot /\ SlotOf[r.high] <= SlotOf[d.high]

IInv == TypeOK /\ Ownership /\ OnChain /\ Downward /\ Walked /\ Ahead /\ Done /\ Covered

-----------------------------------------------------------------------------
\* The ranges of a batch are pairs of slots: no range starts below genesis.
LEMMA BatchesType ==
  ASSUME NEW d \in Data, NEW n \in Nat
  PROVE  Batches(d, n) \subseteq Ranges
<1> DEFINE from(k) == Below(SlotOf[d.current], k * Span)
<1>1. ASSUME NEW k \in Int PROVE from(k) \in Nat
  <2>1. k * Span \in Int
    BY BoundsAssumption
  <2>2. SlotOf[d.current] \in Nat
    BY Zenon, BlocksAssumption DEF Data
  <2>3. ASSUME NEW slot \in Nat, NEW m \in Int PROVE Below(slot, m) \in Nat
    BY DEF Below
  <2> QED
    BY Zenon, <2>1, <2>2, <2>3
<1> HIDE DEF from
<1>2. ASSUME NEW k \in 1..n PROVE <<from(k), from(k - 1)>> \in Ranges
  BY <1>1 DEF Ranges
<1> QED
  BY Zenon, <1>2 DEF Batches, from

\* The fields of a record and their slots have their types.
LEMMA DataFields ==
  ASSUME NEW d \in Data
  PROVE  /\ d.current \in Blocks /\ d.high \in Blocks /\ d.low.slot \in Nat
         /\ SlotOf[d.current] \in Nat /\ SlotOf[d.high] \in Nat
         /\ d.low.root # None => d.low.slot = SlotOf[d.low.root]
  BY Zenon, BlocksAssumption DEF Data, Terminus

\* Progress changes where a record has come to and nothing else.
LEMMA Progressed ==
  ASSUME NEW d \in Data, NEW b \in Blocks
  PROVE  /\ [d EXCEPT !.current = b] \in Data
         /\ [d EXCEPT !.current = b].current = b
         /\ [d EXCEPT !.current = b].high = d.high
         /\ [d EXCEPT !.current = b].low = d.low
  BY Zenon DEF Data

\* What the assumptions say of the constants.
LEMMA Constants ==
  /\ Chain \subseteq Blocks /\ WithData \subseteq Blocks /\ Anchors \subseteq Chain
  /\ None \notin Blocks /\ MaxTroubles \in Nat /\ ServeFrom \in Nat
  /\ NoBatch \in Batch /\ Idle \in Task
  BY Zenon, BlocksAssumption, BoundsAssumption DEF NoBatch, Batch, Idle, Task

\* The forms of the task: it goes on, or it replies.
LEMMA TaskForms ==
  ASSUME task \in Task
  PROVE  /\ \A d \in Data \cup {None} :
              /\ Reply(d) \in Task
              /\ Reply(d).step = "reply" /\ Reply(d).sync = d /\ Reply(d).verified = {}
         /\ \A step \in {"blocks", "sidecars", "save"} :
              /\ Proceed(step) \in Task
              /\ Proceed(step).step = step /\ Proceed(step).sync = task.sync
              /\ Proceed(step).reached = task.reached /\ Proceed(step).left = task.left
              /\ Proceed(step).verified = task.verified
<1>1. ASSUME NEW d \in Data \cup {None}
      PROVE  Reply(d) = [step |-> "reply", sync |-> d, left |-> {}, reached |-> None,
                         verified |-> {}, data |-> {}]
  BY Zenon DEF Reply
<1>2. ASSUME NEW step \in {"blocks", "sidecars", "save"}
      PROVE  Proceed(step) = [step |-> step, sync |-> task.sync, left |-> task.left,
                              reached |-> task.reached, verified |-> task.verified,
                              data |-> task.data]
  BY DEF Proceed, Task
<1> QED
  BY <1>1, <1>2 DEF Task

\* What a step of the verification makes of the task.
LEMMA Verified ==
  ASSUME task \in Task, VerifyBlock
  PROVE  /\ task' \in Task /\ task'.sync = task.sync
         /\ \/ task'.step = "reply" /\ task'.verified = {} /\ excuses' = excuses
            \/ /\ task'.step = "walk" /\ task'.reached = task.reached
               /\ task'.verified = task.verified /\ excuses' = excuses /\ task'.left = {}
            \/ \E b \in task.left :
                 /\ task'.step = "walk" /\ task'.reached = b
                 /\ task'.verified = task.verified \cup {b}
                 /\ task'.left = {c \in task.left : SlotOf[c] < SlotOf[b]}
                 /\ \/ b = Parent[task.reached] /\ excuses' = excuses
                    \/ SlotOf[b] = 0 /\ excuses' = excuses \cup {"genesis"}
<1>1. PICK b \in task.left :
        /\ \/ /\ task' = [task EXCEPT !.left = {c \in task.left : SlotOf[c] < SlotOf[b]},
                                      !.reached = b, !.verified = task.verified \cup {b}]
              /\ SlotOf[b] = 0 \/ b = Parent[task.reached]
           \/ task' = [task EXCEPT !.left = {}] /\ SlotOf[b] # 0
           \/ task' = Reply(task.sync) /\ SlotOf[b] # 0
        /\ excuses' = IF SlotOf[b] = 0 /\ b # Parent[task.reached]
                      THEN excuses \cup {"genesis"} ELSE excuses
  BY Zenon DEF VerifyBlock
<1>2. b \in Blocks /\ task.sync \in Data \cup {None} /\ task.step = "walk"
  BY Zenon DEF Task, VerifyBlock
<1>3. CASE /\ task' = [task EXCEPT !.left = {c \in task.left : SlotOf[c] < SlotOf[b]},
                                   !.reached = b, !.verified = task.verified \cup {b}]
           /\ SlotOf[b] = 0 \/ b = Parent[task.reached]
  <2> DEFINE rest == {c \in task.left : SlotOf[c] < SlotOf[b]}
  <2>0. rest \subseteq Blocks
    BY Zenon DEF Task
  <2>1. task' = [step |-> "walk", sync |-> task.sync, left |-> rest, reached |-> b,
                 verified |-> task.verified \cup {b}, data |-> task.data]
    BY Zenon, <1>2, <1>3 DEF Task
  <2>2. task' \in Task
    <3> HIDE DEF rest
    <3> QED
      BY Zenon, <1>2, <2>0, <2>1 DEF Task
  <2>3. /\ SlotOf[b] = 0 \/ b = Parent[task.reached]
        /\ excuses' = IF SlotOf[b] = 0 /\ b # Parent[task.reached]
                      THEN excuses \cup {"genesis"} ELSE excuses
    BY Zenon, <1>1, <1>3
  <2> QED
    BY Zenon, <2>1, <2>2, <2>3
<1>4. CASE task' = [task EXCEPT !.left = {}] /\ SlotOf[b] # 0
  <2>1. task' = [step |-> "walk", sync |-> task.sync, left |-> {}, reached |-> task.reached,
                 verified |-> task.verified, data |-> task.data]
    BY Zenon, <1>2, <1>4 DEF Task
  <2>2. task' \in Task
    BY Zenon, <2>1 DEF Task
  <2> QED
    BY <1>1, <1>4, <2>1, <2>2
<1>5. CASE task' = Reply(task.sync) /\ SlotOf[b] # 0
  BY Zenon, <1>1, <1>2, <1>5, TaskForms
<1> QED
  BY Zenon, <1>1, <1>3, <1>4, <1>5

\* What is planned, saved and removed, and what a task has done so far, are
\* back-syncs.
LEMMA Planned ==
  ASSUME TypeOK, finalized # None
  PROVE  /\ BackSyncFromAnchor \in Data
         /\ BackSyncFromAnchor.current = finalized /\ BackSyncFromAnchor.high = finalized
         /\ BackSyncFromAnchor.low = BackSyncTerminus
<1>1. finalized \in Blocks
  BY Zenon, Constants DEF TypeOK
<1>2. BackSyncTerminus \in Terminus
  <2>1. /\ SlotOf[Genesis] = 0 /\ Genesis \in Blocks /\ None \notin Blocks /\ ServeFrom \in Nat
        /\ latest # None => latest \in Blocks /\ SlotOf[latest] \in Nat
    BY Zenon, BlocksAssumption, ChainAssumption, BoundsAssumption DEF TypeOK
  <2> QED
    BY <2>1 DEF BackSyncTerminus, Terminus
<1> QED
  BY Zenon, <1>1, <1>2 DEF BackSyncFromAnchor, Data

\* Records are keyed by the slot of their low end: save replaces the one
\* with that key, remove takes it away.
LEMMA SavedData ==
  ASSUME NEW saved \in SUBSET Data, NEW d \in Data
  PROVE  /\ Save(d, saved) \subseteq Data /\ Remove(d, saved) \subseteq Data
         /\ \A r \in Save(d, saved) : r = d \/ (r \in saved /\ r.low.slot # d.low.slot)
         /\ \A r \in saved : r.low.slot # d.low.slot => r \in Save(d, saved)
         /\ d \in Save(d, saved)
         /\ \A r \in Remove(d, saved) : r \in saved /\ r.low.slot # d.low.slot
         /\ \A r \in saved : r.low.slot # d.low.slot => r \in Remove(d, saved)
  BY Zenon DEF Save, Remove

\* The record that a task saves differs from the one it was given in where
\* it has come to.
LEMMA TaskAdvanced ==
  ASSUME TypeOK, task.sync # None, task.reached # None
  PROVE  /\ Advanced \in Data /\ Advanced.current = task.reached
         /\ Advanced.high = task.sync.high /\ Advanced.low = task.sync.low
<1>1. task.sync \in Data /\ task.reached \in Blocks
  BY Zenon DEF TypeOK, Task
<1> QED
  BY Zenon, <1>1, Progressed DEF Advanced

\* A batch with an answer added is a batch.
LEMMA Pushed ==
  ASSUME TypeOK, NEW r \in Ranges, NEW a \in Answers(r)
  PROVE  Push(a) \in Batch
<1>1. a.blocks \subseteq Blocks /\ a.data \subseteq WithData
  <2>1. CASE a \in BadAnswers
    BY Zenon, <2>1, AnswersAssumption
  <2>2. CASE a = Complete(r)
    <3>1. {b \in Chain : r[1] <= SlotOf[b] /\ SlotOf[b] < r[2]} \subseteq Blocks
      BY Zenon, BlocksAssumption
    <3> QED
      BY Zenon, <2>2, <3>1 DEF Complete
  <2> QED
    BY Zenon, <2>1, <2>2 DEF Answers
<1>2. batch.blocks \subseteq Blocks /\ batch.data \subseteq WithData
  BY Zenon DEF TypeOK, Batch
<1>3. CASE sync = None \/ Finished(sync)
  BY Zenon, <1>3 DEF Push, TypeOK
<1>4. CASE ~(sync = None \/ Finished(sync))
  <2> DEFINE new == {b \in a.blocks : SlotOf[b] <= SlotOf[sync.high]}
  <2> DEFINE bs == {b \in batch.blocks : \A c \in new : SlotOf[c] # SlotOf[b]} \cup new
  <2> DEFINE ds == batch.data \cup {b \in a.data : SlotOf[b] <= SlotOf[sync.high]}
  <2>1. bs \subseteq Blocks /\ ds \subseteq WithData
    BY Zenon, <1>1, <1>2
  <2>2. Push(a) = [blocks |-> bs, data |-> ds]
    BY Zenon, <1>4 DEF Push
  <2> HIDE DEF bs, ds
  <2> QED
    BY <2>1, <2>2 DEF Batch
<1> QED
  BY Zenon, <1>3, <1>4

\* What check_back_sync_progress does: nothing, or a task takes the back-sync.
LEMMA Checked ==
  ASSUME TypeOK, NEW p \in Batch, CheckProgress(p)
  PROVE  /\ task' \in Task /\ sync' \in Data \cup {None} /\ batch' \in Batch
         /\ \/ sync' = sync /\ task' = task
            \/ /\ sent' = {} /\ delayed = {} /\ sync # None /\ sync' = None
               /\ task'.step = "walk" /\ task'.sync = sync /\ task'.reached = sync.current
               /\ task'.verified = {}
               /\ \A b \in task'.left : SlotOf[b] < SlotOf[sync.current]
<1>1. CASE sent' = {} /\ delayed = {} /\ ~forwarding /\ sync # None
  <2> DEFINE left == {b \in p.blocks : SlotOf[b] < SlotOf[sync.current]}
  <2>1. /\ task' = [step |-> "walk", sync |-> sync, reached |-> sync.current, left |-> left,
                    verified |-> {}, data |-> p.data]
        /\ sync' = None /\ batch' = NoBatch
    BY Zenon, <1>1 DEF CheckProgress
  <2>2. left \subseteq Blocks /\ p.data \subseteq WithData
    BY Zenon DEF Batch
  <2>3. sync \in Data /\ sync.current \in Blocks
    BY Zenon, <1>1, DataFields DEF TypeOK
  <2>5. \A b \in left : SlotOf[b] < SlotOf[sync.current]
    BY Zenon
  <2> HIDE DEF left
  <2>4. task' \in Task
    BY Zenon, <2>1, <2>2, <2>3 DEF Task
  <2> QED
    BY Zenon, <1>1, <2>1, <2>4, <2>5, Constants
<1>2. CASE ~(sent' = {} /\ delayed = {} /\ ~forwarding /\ sync # None)
  BY Zenon, <1>2 DEF CheckProgress, TypeOK
<1> QED
  BY Zenon, <1>1, <1>2

\* While a task is writing, it is the only owner of the back-sync.
LEMMA WalkingTask ==
  ASSUME TypeOK, Ownership, OnChain, Walking
  PROVE  /\ task.sync \in Data /\ task.sync # None /\ task.sync \in Carried
         /\ task.reached \in Taken /\ task.reached \in Blocks /\ task.reached # None
         /\ sync = None /\ sent = {} /\ delayed = {} /\ archiver = "idle" /\ ~backSynced
         /\ stage = "running"
  BY Zenon, Constants DEF TypeOK, Ownership, OnChain, Walking, Task, Carried, Taken

-----------------------------------------------------------------------------
\* Every step keeps the types.
LEMMA TypeStep ==
  ASSUME TypeOK, Ownership, OnChain, [Next]_vars
  PROVE  TypeOK'
<1>1. ASSUME NEW a \in Anchors, LoadRemote(a) PROVE TypeOK'
  <2>1. older' \in BOOLEAN
    BY Zenon, <1>1 DEF LoadRemote
  <2> QED
    BY <1>1, <2>1, Constants DEF LoadRemote, TypeOK, network, requests, flags
<1>2. CASE LoadLocal
  <2>1. finalized' # None /\ finalized' \in Chain \cup {None}
    BY Zenon, <1>2 DEF LoadLocal, TypeOK, disk
  <2>2. remote' \in BOOLEAN /\ stage' \in {"down", "loaded", "planned", "running"}
    BY Zenon, <1>2 DEF LoadLocal
  <2>3. UNCHANGED <<stored, sidecars, records, latest, archive, older, bare, network, sync,
                    batch, requests, flags, task, archiver, earliest, troubles, excuses>>
    BY Zenon, <1>2 DEF LoadLocal, disk
  <2> QED
    BY <2>1, <2>2, <2>3 DEF TypeOK, network, requests, flags
<1>3. CASE Plan
  <2>1. records' \subseteq Data
    BY Zenon, <1>3, Planned, SavedData DEF Plan, TypeOK
  <2> QED
    BY <1>3, <2>1 DEF Plan, TypeOK, network, requests, flags
<1>4. CASE Run
  <2>1. sync' \in Data \cup {None} /\ latest' \in Blocks \cup {None} /\ earliest' \in Nat
    BY Zenon, <1>4, Constants, BlocksAssumption DEF Run, AnchorSlot, TypeOK
  <2>2. archiver' \in {"idle", "running", "reported", "closed"}
    BY Zenon, <1>4 DEF Run, ArchiverFor, TypeOK
  <2>3. /\ backSynced' \in BOOLEAN /\ forwardSynced' \in BOOLEAN
        /\ direction' \in {"forward", "back"} /\ told' \in BOOLEAN
    BY Zenon, <1>4 DEF Run, TypeOK
  <2> QED
    BY Zenon, <1>4, <2>1, <2>2, <2>3 DEF Run, TypeOK, network, requests
<1>5. CASE Crash
  <2>1. troubles' \in 0..MaxTroubles
    BY <1>5, Constants DEF Crash, CountTrouble, TypeOK
  <2>2. excuses' \subseteq {"unplanned", "genesis", "mismatch"}
    BY Zenon, <1>5 DEF Crash, TypeOK
  <2> QED
    BY Zenon, <1>5, <2>1, <2>2, Constants DEF Crash, TypeOK, disk
<1>6. CASE Finalize
  BY <1>6, Constants DEF Finalize, TypeOK, node, requests, flags
<1>7. CASE HandleFinalized
  BY <1>7, Constants DEF HandleFinalized, TypeOK, node, requests, flags
<1>8. CASE FallBehind
  <2>1. troubles' \in 0..MaxTroubles
    BY <1>8, Constants DEF FallBehind, CountTrouble, TypeOK
  <2>2. synced' \in BOOLEAN
    BY Zenon, <1>8 DEF FallBehind
  <2>3. UNCHANGED <<disk, node, message, told, sync, batch, requests, flags, task, archiver,
                    earliest, excuses>>
    BY Zenon, <1>8 DEF FallBehind
  <2> QED
    BY <2>1, <2>2, <2>3 DEF TypeOK, disk, node, requests, flags
<1>9. CASE CatchUp
  BY <1>9 DEF CatchUp, TypeOK, disk, node, requests, flags
<1>10. CASE ForwardFinished
  <2>1. forwarding' \in BOOLEAN
    BY Zenon, <1>10 DEF ForwardFinished
  <2>2. UNCHANGED <<disk, node, network, sync, batch, delayed, sent, late, flags, task,
                    archiver, earliest, troubles, excuses>>
    BY Zenon, <1>10 DEF ForwardFinished
  <2> QED
    BY <2>1, <2>2 DEF TypeOK, disk, node, network, flags
<1>11. CASE VerifyBlock
  <2>1. task' \in Task /\ excuses' \subseteq {"unplanned", "genesis", "mismatch"}
    BY Zenon, <1>11, Verified DEF TypeOK
  <2> QED
    BY <1>11, <2>1 DEF VerifyBlock, TypeOK, disk, node, network, requests, flags
<1>12. CASE CheckTerminus
  <2>0. task.sync \in Data
    BY Zenon, <1>12, WalkingTask DEF CheckTerminus, Walking
  <2>1. records' \subseteq Data /\ excuses' \subseteq {"unplanned", "genesis", "mismatch"}
    <3>1. records \subseteq Data /\ excuses \subseteq {"unplanned", "genesis", "mismatch"}
      BY Zenon DEF TypeOK
    <3>2. Remove(task.sync, records) \subseteq Data
      BY Zenon, <2>0, <3>1, SavedData
    <3> QED
      BY Zenon, <1>12, <3>1, <3>2 DEF CheckTerminus
  <2>2. task' \in Task
    BY <1>12, <2>1, TaskForms DEF CheckTerminus, TypeOK
  <2> QED
    BY <1>12, <2>1, <2>2 DEF CheckTerminus, TypeOK, node, network, requests, flags
<1>13. CASE StoreBlocks
  <2>1. task' \in Task /\ stored' \subseteq Blocks
    BY Zenon, <1>13, TaskForms DEF StoreBlocks, TypeOK, Task
  <2> QED
    BY <1>13, <2>1 DEF StoreBlocks, TypeOK, node, network, requests, flags
<1>14. CASE StoreSidecars
  <2>1. task' \in Task
    BY Zenon, <1>14, TaskForms DEF StoreSidecars, TypeOK
  <2> QED
    BY <1>14, <2>1 DEF StoreSidecars, TypeOK, node, network, requests, flags
<1>15. CASE SaveProgress
  <2>1. Advanced \in Data
    BY Zenon, <1>15, WalkingTask, TaskAdvanced DEF SaveProgress, Walking
  <2>2. task' \in Task /\ records' \subseteq Data
    BY Zenon, <1>15, <2>1, TaskForms, SavedData DEF SaveProgress, TypeOK
  <2> QED
    BY <1>15, <2>2 DEF SaveProgress, TypeOK, node, network, requests, flags
<1>16. CASE WriteFails
  <2>1. Advanced \in Data /\ task.sync \in Data
    BY Zenon, <1>16, WalkingTask, TaskAdvanced DEF WriteFails, Walking
  <2>2. task' \in Task
    BY Zenon, <1>16, <2>1, TaskForms DEF WriteFails, TypeOK
  <2>3. troubles' \in 0..MaxTroubles
    BY <1>16, Constants DEF WriteFails, CountTrouble, TypeOK
  <2> QED
    BY <1>16, <2>2, <2>3 DEF WriteFails, TypeOK, disk, node, network, requests, flags
<1>17. CASE HandleBackSync
  <2>1. sync' \in Data \cup {None}
    BY Zenon, <1>17 DEF HandleBackSync, TypeOK, Task
  <2>2. archiver' \in {"idle", "running", "reported", "closed"}
    BY Zenon, <1>17 DEF HandleBackSync, ArchiverFor, TypeOK
  <2> QED
    BY <1>17, <2>1, <2>2, Constants
       DEF HandleBackSync, TypeOK, disk, node, network, requests, flags
<1>18. CASE ArchiverFinishes
  BY <1>18 DEF ArchiverFinishes, TypeOK, disk, node, network, requests, flags
<1>19. CASE HandleArchived
  <2>1. CASE sync # None
    <3>1. sync \in Data /\ SlotOf[sync.current] \in Nat
      BY Zenon, <2>1, DataFields DEF TypeOK
    <3>2. records' \subseteq Data /\ earliest' \in Nat
      <4>1. Remove(sync, records) \subseteq Data
        BY Zenon, <3>1, SavedData DEF TypeOK
      <4> QED
        BY Zenon, <1>19, <2>1, <3>1, <4>1 DEF HandleArchived, Finish
    <3>3. CASE CloseBackSync
      <4>1. /\ sent' \subseteq Ranges /\ forwarding' \in BOOLEAN
            /\ direction' \in {"forward", "back"}
        BY Zenon, <3>3 DEF CloseBackSync, TypeOK
      <4> QED
        BY <1>19, <3>2, <3>3, <4>1 DEF HandleArchived, CloseBackSync, TypeOK, node, network
    <3>4. ASSUME NEW next \in records', sync' = next, batch' = NoBatch,
                 archiver' = IF Finished(next) THEN "running" ELSE "idle",
                 UNCHANGED <<requests, flags>>
          PROVE  TypeOK'
      <4>1. archiver' \in {"idle", "running", "reported", "closed"} /\ sync' \in Data
        BY Zenon, <3>2, <3>4
      <4> QED
        BY <1>19, <3>2, <3>4, <4>1, Constants
           DEF HandleArchived, TypeOK, node, network, requests, flags
    <3> QED
      BY Zenon, <1>19, <2>1, <3>3, <3>4 DEF HandleArchived, Finish
  <2>2. CASE sync = None
    BY <1>19, <2>2 DEF HandleArchived, TypeOK, node, network, requests, flags
  <2> QED
    BY Zenon, <2>1, <2>2
<1>20. ASSUME NEW n \in 0..MaxBatches, RequestData(n) PROVE TypeOK'
  <2>1. delayed' \subseteq Ranges
    BY <1>20, BatchesType, BoundsAssumption DEF RequestData, TypeOK
  <2>2. /\ direction' \in {"forward", "back"} /\ forwardSynced' \in BOOLEAN
        /\ forwarding' \in BOOLEAN
    BY Zenon, <1>20 DEF RequestData, TypeOK
  <2> QED
    BY <1>20, <2>1, <2>2 DEF RequestData, TypeOK, disk, node, network
<1>21. ASSUME NEW due \in SUBSET delayed, Interval(due) PROVE TypeOK'
  <2>1. earliest' \in Nat
    BY Zenon, <1>21, DataFields DEF Interval, TypeOK
  <2> QED
    BY <1>21, <2>1 DEF Interval, TypeOK, disk, node, network, flags
<1>22. ASSUME NEW r \in sent, NEW a \in Answers(r), Answer(r, a) PROVE TypeOK'
  <2>1. Push(a) \in Batch
    BY Zenon, Pushed DEF TypeOK
  <2>2. task' \in Task /\ sync' \in Data \cup {None} /\ batch' \in Batch
    BY Zenon, <1>22, <2>1, Checked DEF Answer
  <2>3. troubles' \in 0..MaxTroubles
    BY <1>22, Constants DEF Answer, CountTrouble, TypeOK
  <2>4. sent' \subseteq Ranges
    BY Zenon, <1>22 DEF Answer, TypeOK
  <2> QED
    BY <1>22, <2>2, <2>3, <2>4 DEF Answer, TypeOK, disk, node, network, flags
<1>23. ASSUME NEW r \in sent, NEW retry \in BOOLEAN, Expire(r, retry) PROVE TypeOK'
  <2>1. troubles' \in 0..MaxTroubles
    BY <1>23, Constants DEF Expire, CountTrouble, TypeOK
  <2> QED
    BY <1>23, <2>1 DEF Expire, TypeOK, disk, node, network, flags
<1>24. ASSUME NEW r \in late, NEW a \in Answers(r), LateAnswer(r, a) PROVE TypeOK'
  <2>1. batch' \in Batch
    BY Zenon, <1>24, Pushed DEF LateAnswer, TypeOK
  <2>2. troubles' \in 0..MaxTroubles
    BY <1>24, Constants DEF LateAnswer, CountTrouble, TypeOK
  <2> QED
    BY <1>24, <2>1, <2>2 DEF LateAnswer, TypeOK, disk, node, network, flags
<1>25. CASE UNCHANGED vars
  BY <1>25 DEF TypeOK, vars, disk, node, network, requests, flags
<1> QED
  BY Zenon, <1>1, <1>2, <1>3, <1>4, <1>5, <1>6, <1>7, <1>8, <1>9, <1>10, <1>11, <1>12, <1>13,
     <1>14, <1>15, <1>16, <1>17, <1>18, <1>19, <1>20, <1>21, <1>22, <1>23, <1>24, <1>25
     DEF Next, Start, Around, TaskStep, End

-----------------------------------------------------------------------------
\* Every step leaves a back-sync with one owner.
LEMMA OwnershipStep ==
  ASSUME TypeOK, Ownership, OnChain, [Next]_vars
  PROVE  Ownership'
<1>1. ASSUME NEW a \in Anchors, LoadRemote(a) PROVE Ownership'
  BY Zenon, <1>1 DEF LoadRemote, Ownership, Walking, Finished, network, requests, flags
<1>2. CASE LoadLocal
  BY Zenon, <1>2 DEF LoadLocal, Ownership, Walking, Finished, disk, network, requests, flags
<1>3. CASE Plan
  BY Zenon, <1>3 DEF Plan, Ownership, Walking, Finished, network, requests, flags
<1>4. CASE Run
  <2>1. /\ delayed' = {} /\ sent' = {} /\ task' = task /\ task.step = "idle" /\ task.sync = None
        /\ stage' = "running" /\ records' = records /\ archiver = "idle" /\ archive' = archive
    BY Zenon, <1>4 DEF Run, Ownership, requests
  <2>2. archiver' # "idle" => sync' # None /\ Finished(sync')
    BY Zenon, <1>4, <2>1 DEF Run, ArchiverFor
  <2>3. backSynced' => records' = {} /\ sync' = None
    BY Zenon, <1>4, <2>1, NoneAssumption DEF Run, Found, TypeOK
  <2>4. Finished(sync)' = Finished(sync')
    BY Zenon, <2>1 DEF Finished
  <2> QED
    BY Zenon, <2>1, <2>2, <2>3, <2>4 DEF Ownership, Walking
<1>5. CASE Crash
  BY Zenon, <1>5 DEF Crash, Ownership, Walking, Idle
<1>6. CASE Finalize
  BY Zenon, <1>6 DEF Finalize, Ownership, Walking, Finished, node, requests, flags
<1>7. CASE HandleFinalized
  BY Zenon, <1>7 DEF HandleFinalized, Ownership, Walking, Finished, node, requests, flags
<1>8. CASE FallBehind
  BY Zenon, <1>8 DEF FallBehind, Ownership, Walking, Finished, disk, node, requests, flags
<1>9. CASE CatchUp
  BY Zenon, <1>9 DEF CatchUp, Ownership, Walking, Finished, disk, node, requests, flags
<1>10. CASE ForwardFinished
  BY Zenon, <1>10 DEF ForwardFinished, Ownership, Walking, Finished, disk, node, network, flags
<1>11. CASE VerifyBlock
  <2>1. Walking
    BY Zenon, <1>11 DEF VerifyBlock, Walking
  <2>2. task'.sync = task.sync /\ task'.step \in {"walk", "reply"}
    BY Zenon, <1>11, Verified DEF TypeOK
  <2>3. UNCHANGED <<disk, node, network, sync, batch, requests, flags, archiver>>
    BY Zenon, <1>11 DEF VerifyBlock
  <2> QED
    BY Zenon, <2>1, <2>2, <2>3, WalkingTask
       DEF Ownership, Walking, Finished, disk, node, network, requests, flags
<1>12. CASE CheckTerminus
  <2>1. Walking
    BY Zenon, <1>12 DEF CheckTerminus, Walking
  <2>2. /\ task'.step \in {"blocks", "reply"}
        /\ task'.step = "blocks" => task'.sync = task.sync
    <3>1. records \subseteq Data /\ task \in Task
      BY Zenon DEF TypeOK
    <3>2. Remove(task.sync, records) \subseteq Data
      BY Zenon, <2>1, <3>1, WalkingTask, SavedData
    <3> QED
      BY <1>12, <3>1, <3>2, TaskForms DEF CheckTerminus
  <2>3. UNCHANGED <<node, network, sync, batch, requests, flags, archiver>>
    BY Zenon, <1>12 DEF CheckTerminus
  <2> QED
    BY Zenon, <2>1, <2>2, <2>3, WalkingTask
       DEF Ownership, Walking, Finished, node, network, requests, flags
<1>13. CASE StoreBlocks \/ StoreSidecars \/ SaveProgress \/ WriteFails
  <2>1. Walking
    BY Zenon, <1>13 DEF StoreBlocks, StoreSidecars, SaveProgress, WriteFails, Walking
  <2>2. /\ task'.step \in {"sidecars", "save", "reply"}
        /\ task'.step # "reply" => task'.sync = task.sync
    <3>1. Advanced \in Data /\ task.sync \in Data /\ task \in Task
      BY Zenon, <2>1, WalkingTask, TaskAdvanced DEF TypeOK
    <3>2. /\ Proceed("sidecars").step = "sidecars" /\ Proceed("sidecars").sync = task.sync
          /\ Proceed("save").step = "save" /\ Proceed("save").sync = task.sync
          /\ Reply(Advanced).step = "reply" /\ Reply(task.sync).step = "reply"
      BY Zenon, <3>1, TaskForms
    <3>3. task' \in {Proceed("sidecars"), Proceed("save"), Reply(Advanced), Reply(task.sync)}
      BY Zenon, <1>13 DEF StoreBlocks, StoreSidecars, SaveProgress, WriteFails
    <3> QED
      BY Zenon, <3>2, <3>3
  <2>3. UNCHANGED <<node, network, sync, batch, requests, flags, archiver>>
    BY Zenon, <1>13 DEF StoreBlocks, StoreSidecars, SaveProgress, WriteFails
  <2> QED
    BY Zenon, <2>1, <2>2, <2>3, WalkingTask
       DEF Ownership, Walking, Finished, node, network, requests, flags
<1>14. CASE HandleBackSync
  <2>1. /\ sent' = {} /\ delayed' = {} /\ archiver = "idle" /\ ~backSynced' /\ stage' = "running"
        /\ task'.step = "idle" /\ task'.sync = None /\ archive' = archive
    BY Zenon, <1>14 DEF HandleBackSync, Ownership, Idle, node, requests, flags
  <2>2. archiver' # "idle" => sync' # None /\ Finished(sync')
    BY Zenon, <1>14, <2>1 DEF HandleBackSync, ArchiverFor
  <2>3. Finished(sync)' = Finished(sync')
    BY Zenon, <2>1 DEF Finished
  <2> QED
    BY Zenon, <2>1, <2>2, <2>3 DEF Ownership, Walking
<1>15. CASE ArchiverFinishes
  BY Zenon, <1>15 DEF ArchiverFinishes, Ownership, Walking, Finished, disk, node, network, requests,
     flags
<1>16. CASE HandleArchived
  <2>1. /\ sync # None /\ Finished(sync) /\ sent = {} /\ delayed = {} /\ task.step = "idle"
        /\ task.sync = None /\ stage = "running" /\ task' = task /\ stage' = stage
        /\ archive' = archive /\ message' = message
    BY Zenon, <1>16 DEF HandleArchived, Ownership, node, network
  <2>2. Finish
    BY Zenon, <1>16, <2>1 DEF HandleArchived
  <2>3. Finished(sync)' = Finished(sync')
    BY Zenon, <2>1 DEF Finished
  <2>4. CASE records' = {} /\ CloseBackSync
    <3>1. sync' = sync /\ delayed' = {} /\ sent' = {}
      BY Zenon, <2>1, <2>4 DEF CloseBackSync
    <3> QED
      BY Zenon, <2>1, <2>3, <2>4, <3>1 DEF Ownership, Walking
  <2>5. CASE \E next \in records' :
               /\ sync' = next
               /\ archiver' = IF Finished(next) THEN "running" ELSE "idle"
               /\ UNCHANGED <<requests, flags>>
    <3>1. ~backSynced
      BY Zenon, <2>2, <2>5 DEF Ownership, Finish, Remove
    <3>2. ~backSynced' /\ sent' = {} /\ delayed' = {} /\ sync' \in records'
      BY <2>1, <2>5, <3>1 DEF requests, flags
    <3>3. archiver' # "idle" => Finished(sync') /\ sync' # None
      <4>1. records' \subseteq Data
        BY Zenon, <2>1, <2>2, SavedData DEF Finish, TypeOK
      <4> QED
        BY Zenon, <2>5, <4>1, NoneAssumption
    <3> QED
      BY Zenon, <2>1, <2>3, <3>2, <3>3 DEF Ownership, Walking
  <2> QED
    BY Zenon, <2>2, <2>4, <2>5 DEF Finish
<1>17. ASSUME NEW n \in 0..MaxBatches, RequestData(n) PROVE Ownership'
  <2>1. delayed' # {} => delayed' = delayed \/ (sync # None /\ ~Finished(sync))
    BY Zenon, <1>17 DEF RequestData
  <2>2. /\ stage = "running"
        /\ UNCHANGED <<disk, node, network, sync, sent, backSynced, task, archiver>>
    BY Zenon, <1>17 DEF RequestData
  <2> QED
    BY Zenon, <2>1, <2>2 DEF Ownership, Walking, Finished, disk, node, network
<1>18. ASSUME NEW due \in SUBSET delayed, Interval(due) PROVE Ownership'
  <2>1. /\ stage = "running" /\ delayed = {} => delayed' = {} /\ sent' = sent
        /\ UNCHANGED <<disk, node, network, sync, flags, task, archiver>>
    BY Zenon, <1>18 DEF Interval
  <2> QED
    BY <1>18, <2>1 DEF Ownership, Walking, Finished, disk, node, network, flags, Interval
<1>19. ASSUME NEW r \in sent, NEW a \in Answers(r), Answer(r, a) PROVE Ownership'
  <2>1. UNCHANGED <<disk, node, network, delayed, flags, archiver>> /\ sent' \subseteq sent
    BY Zenon, <1>19 DEF Answer
  <2>2. Push(a) \in Batch
    BY Zenon, Pushed DEF TypeOK
  <2>3. CASE sync' = sync /\ task' = task
    BY Zenon, <2>1, <2>3 DEF Ownership, Walking, Finished, disk, node, network, flags
  <2>4. CASE /\ sent' = {} /\ delayed = {} /\ sync # None /\ sync' = None
             /\ task'.step = "walk" /\ task'.sync = sync
    BY Zenon, <2>1, <2>4 DEF Ownership, Walking, Finished, disk, node, network, flags
  <2> QED
    BY Zenon, <1>19, <2>2, <2>3, <2>4, Checked DEF Answer
<1>20. ASSUME NEW r \in sent, NEW retry \in BOOLEAN, Expire(r, retry) PROVE Ownership'
  <2>1. UNCHANGED <<disk, node, network, sync, delayed, flags, task, archiver>>
    BY Zenon, <1>20 DEF Expire
  <2>2. sent' \subseteq sent
    BY Zenon, <1>20 DEF Expire
  <2> QED
    BY Zenon, <2>1, <2>2 DEF Ownership, Walking, Finished, disk, node, network, flags
<1>21. ASSUME NEW r \in late, NEW a \in Answers(r), LateAnswer(r, a) PROVE Ownership'
  BY Zenon, <1>21 DEF LateAnswer, Ownership, Walking, Finished, disk, node, network, flags
<1>22. CASE UNCHANGED vars
  BY Zenon, <1>22 DEF Ownership, Walking, Finished, vars, disk, node, network, requests, flags
<1> QED
  BY Zenon, <1>1, <1>2, <1>3, <1>4, <1>5, <1>6, <1>7, <1>8, <1>9, <1>10, <1>11, <1>12, <1>13,
     <1>14, <1>15, <1>16, <1>17, <1>18, <1>19, <1>20, <1>21, <1>22
     DEF Next, Start, Around, TaskStep, End

-----------------------------------------------------------------------------
\* A step of the node that touches neither the databases nor a back-sync.
Still ==
  /\ UNCHANGED <<stored, sidecars, records, latest, finalized, archive, excuses, older, bare,
                 sync, task, message>>
  /\ stage = "loaded" /\ remote => stage' = "loaded" /\ remote'

\* Every step leaves the records and their owner alone or is one of these.
LEMMA StillSteps ==
  ASSUME TypeOK, Ownership, [Next]_vars
  PROVE  \/ Still \/ Plan \/ Run \/ Crash \/ Finalize \/ HandleFinalized
         \/ VerifyBlock \/ CheckTerminus \/ StoreBlocks \/ StoreSidecars \/ SaveProgress
         \/ WriteFails \/ HandleBackSync \/ HandleArchived
         \/ \E a \in Anchors : LoadRemote(a)
         \/ \E r \in sent : \E a \in Answers(r) : Answer(r, a)
<1>1. CASE LoadLocal
  BY Zenon, <1>1 DEF LoadLocal, Still, disk, network
<1>2. CASE FallBehind
  BY Zenon, <1>2 DEF FallBehind, Still, disk, node
<1>3. CASE CatchUp
  BY Zenon, <1>3 DEF CatchUp, Still, disk, node
<1>4. CASE ForwardFinished
  BY Zenon, <1>4 DEF ForwardFinished, Still, disk, node, network
<1>5. CASE ArchiverFinishes
  BY Zenon, <1>5 DEF ArchiverFinishes, Still, disk, node, network
<1>6. ASSUME NEW n \in 0..MaxBatches, RequestData(n) PROVE Still
  BY Zenon, <1>6 DEF RequestData, Still, disk, node, network
<1>7. ASSUME NEW due \in SUBSET delayed, Interval(due) PROVE Still
  BY Zenon, <1>7 DEF Interval, Still, disk, node, network
<1>8. ASSUME NEW r \in sent, NEW retry \in BOOLEAN, Expire(r, retry) PROVE Still
  BY Zenon, <1>8 DEF Expire, Still, disk, node, network
<1>9. ASSUME NEW r \in late, NEW a \in Answers(r), LateAnswer(r, a) PROVE Still
  BY Zenon, <1>9 DEF LateAnswer, Still, disk, node, network
<1>10. CASE UNCHANGED vars
  BY Zenon, <1>10 DEF Still, vars, disk, node, network
<1> QED
  BY Zenon, <1>1, <1>2, <1>3, <1>4, <1>5, <1>6, <1>7, <1>8, <1>9, <1>10
     DEF Next, Start, Around, TaskStep, End

\* What is held stays held, and what has cost history is not forgotten.
LEMMA Monotone ==
  ASSUME TypeOK, Ownership, [Next]_vars
  PROVE  /\ stored \subseteq stored' /\ sidecars \subseteq sidecars'
         /\ excuses \subseteq excuses' /\ archive' = archive
         /\ \A b : Held(b) => Held(b)'
<1>1. CASE Still
  BY Zenon, <1>1 DEF Still, Held
<1>2. CASE Plan \/ Run \/ Crash \/ HandleFinalized \/ WriteFails \/ HandleBackSync
  BY Zenon, <1>2 DEF Plan, Run, Crash, HandleFinalized, WriteFails, HandleBackSync, disk, node, Held
<1>3. CASE Finalize
  BY Zenon, <1>3 DEF Finalize, node, Held
<1>4. CASE StoreBlocks \/ StoreSidecars \/ SaveProgress \/ CheckTerminus \/ HandleArchived
  BY Zenon, <1>4 DEF StoreBlocks, StoreSidecars, SaveProgress, CheckTerminus, HandleArchived,
                     node, Held
<1>5. CASE VerifyBlock
  BY Zenon, <1>5 DEF VerifyBlock, disk, node, Held
<1>6. ASSUME NEW a \in Anchors, LoadRemote(a)
      PROVE  /\ stored \subseteq stored' /\ sidecars \subseteq sidecars'
             /\ excuses \subseteq excuses' /\ archive' = archive
             /\ \A b : Held(b) => Held(b)'
  BY Zenon, <1>6 DEF LoadRemote, Held
<1>7. ASSUME NEW r \in sent, NEW a \in Answers(r), Answer(r, a)
      PROVE  /\ stored \subseteq stored' /\ sidecars \subseteq sidecars'
             /\ excuses \subseteq excuses' /\ archive' = archive
             /\ \A b : Held(b) => Held(b)'
  BY Zenon, <1>7 DEF Answer, disk, node, Held
<1> QED
  BY Zenon, <1>1, <1>2, <1>3, <1>4, <1>5, <1>6, <1>7, StillSteps

-----------------------------------------------------------------------------
\* A block that follows from the one before it is on the chain.
LEMMA ParentOnChain ==
  ASSUME NEW b \in Blocks, NEW c \in Taken, b = Parent[c], SlotOf[b] < SlotOf[c]
  PROVE  /\ b \in Chain /\ c \in Chain
         /\ \A d \in Chain : SlotOf[d] < SlotOf[c] => SlotOf[d] <= SlotOf[b]
<1>1. SlotOf[b] \in Nat /\ SlotOf[c] \in Nat
  BY Zenon, BlocksAssumption DEF Taken
<1>2. SlotOf[c] # 0
  BY <1>1
<1>3. c \in Chain \ {Genesis}
  BY Zenon, <1>2, ChainAssumption DEF Taken
<1> QED
  BY Zenon, <1>3, ChainAssumption

\* The blocks that a step verifies are on the chain or of slot 0.
LEMMA VerifiedOnChain ==
  ASSUME TypeOK, Ownership, OnChain, Downward, VerifyBlock
  PROVE  /\ task'.verified \subseteq Taken
         /\ task'.step = "walk" => task'.reached \in Taken
<1>1. /\ Walking /\ task.reached \in Taken /\ task.verified \subseteq Taken
      /\ \A b \in task.left : SlotOf[b] < SlotOf[task.reached]
  BY Zenon DEF VerifyBlock, Walking, OnChain, Downward
<1>2. ASSUME NEW b \in task.left, b = Parent[task.reached] \/ SlotOf[b] = 0
      PROVE  b \in Taken
  <2>1. b \in Blocks
    BY Zenon DEF TypeOK, Task
  <2> QED
    BY Zenon, <1>1, <1>2, <2>1, ParentOnChain DEF Taken
<1>3. \/ task'.step = "reply" /\ task'.verified = {}
      \/ task'.step = "walk" /\ task'.reached = task.reached /\ task'.verified = task.verified
      \/ \E b \in task.left :
           /\ task'.step = "walk" /\ task'.reached = b /\ task'.verified = task.verified \cup {b}
           /\ b = Parent[task.reached] \/ SlotOf[b] = 0
  BY Zenon, Verified DEF TypeOK
<1> QED
  BY Zenon, <1>1, <1>2, <1>3

\* Nothing but known back-syncs is taken up, and records are only removed.
Familiar ==
  /\ records' \subseteq records
  /\ Carried' \subseteq records \cup Carried

\* These steps pass a back-sync on as it is.
LEMMA FamiliarSteps ==
  ASSUME TypeOK, Ownership, OnChain,
         \/ Run \/ Crash \/ VerifyBlock \/ CheckTerminus \/ StoreBlocks \/ StoreSidecars
         \/ HandleBackSync \/ HandleArchived
         \/ \E r \in sent : \E a \in Answers(r) : Answer(r, a)
  PROVE  Familiar
<1>1. CASE Run
  BY Zenon, <1>1 DEF Run, Familiar, Carried
<1>2. CASE Crash
  BY Zenon, <1>2 DEF Crash, Familiar, Carried, disk, Idle
<1>3. CASE VerifyBlock
  <2>1. task'.sync = task.sync /\ sync' = sync /\ records' = records
    BY Zenon, <1>3, Verified DEF VerifyBlock, TypeOK, disk
  <2> QED
    BY Zenon, <2>1 DEF Familiar, Carried
<1>4. CASE CheckTerminus
  <2>1. Walking
    BY Zenon, <1>4 DEF CheckTerminus, Walking
  <2>2. task \in Task /\ records \subseteq Data
    BY Zenon DEF TypeOK
  <2>3. \/ records' = records /\ task' = Proceed("blocks")
        \/ records' = Remove(task.sync, records)
           /\ \E next \in records' \cup {None} : task' = Reply(next)
    BY Zenon, <1>4 DEF CheckTerminus
  <2>4. records' \subseteq records
    BY Zenon, <2>3 DEF Remove
  <2>5. task'.sync \in records \cup {task.sync, None}
    <3>1. CASE task' = Proceed("blocks")
      BY Zenon, <2>2, <3>1, TaskForms
    <3>2. ASSUME NEW next \in records' \cup {None}, task' = Reply(next)
          PROVE  task'.sync \in records \cup {task.sync, None}
      <4>1. next \in Data \cup {None} /\ next \in records \cup {None}
        BY Zenon, <2>2, <2>4
      <4>2. task'.sync = next
        BY Zenon, <2>2, <3>2, <4>1, TaskForms
      <4> QED
        BY Zenon, <4>1, <4>2
    <3> QED
      BY Zenon, <2>3, <3>1, <3>2
  <2>6. sync' = sync
    BY Zenon, <1>4 DEF CheckTerminus
  <2> QED
    BY Zenon, <2>4, <2>5, <2>6 DEF Familiar, Carried
<1>5. CASE StoreBlocks \/ StoreSidecars
  <2>1. task'.sync = task.sync
    BY Zenon, <1>5, TaskForms DEF StoreBlocks, StoreSidecars, TypeOK
  <2> QED
    BY Zenon, <1>5, <2>1 DEF StoreBlocks, StoreSidecars, Familiar, Carried
<1>6. CASE HandleBackSync
  BY Zenon, <1>6 DEF HandleBackSync, Familiar, Carried, Idle, disk
<1>7. CASE HandleArchived
  <2>1. records' \subseteq records
    BY Zenon, <1>7 DEF HandleArchived, Finish, Remove
  <2>2. sync' = sync \/ sync' \in records'
    BY Zenon, <1>7 DEF HandleArchived, Finish, CloseBackSync
  <2>3. task' = task
    BY Zenon, <1>7 DEF HandleArchived
  <2> QED
    BY Zenon, <2>1, <2>2, <2>3 DEF Familiar, Carried
<1>8. ASSUME NEW r \in sent, NEW a \in Answers(r), Answer(r, a) PROVE Familiar
  <2>1. Push(a) \in Batch /\ records' = records
    BY Zenon, <1>8, Pushed DEF TypeOK, Answer, disk
  <2>2. \/ sync' = sync /\ task' = task
        \/ sync' = None /\ task'.sync = sync
    BY Zenon, <1>8, <2>1, Checked DEF Answer
  <2> QED
    BY Zenon, <2>1, <2>2 DEF Familiar, Carried
<1> QED
  BY Zenon, <1>1, <1>2, <1>3, <1>4, <1>5, <1>6, <1>7, <1>8

\* Every step keeps records, batches and storage on the chain.
LEMMA OnChainStep ==
  ASSUME TypeOK, Ownership, OnChain, Downward, [Next]_vars
  PROVE  OnChain'
<1> DEFINE Known(d) == d.current \in Taken /\ d.high \in Chain
<1>0. \A d \in records \cup Carried : Known(d)
  BY Zenon DEF OnChain
<1>1. \A r, s \in records' : r.low.slot = s.low.slot => r = s
  <2>1. CASE Still \/ Familiar
    BY Zenon, <2>1 DEF OnChain, Still, Familiar
  <2>2. CASE records' = records
    BY Zenon, <2>2 DEF OnChain
  <2>3. ASSUME NEW d \in Data, records' = Save(d, records)
        PROVE  \A r, s \in records' : r.low.slot = s.low.slot => r = s
    BY Zenon, <2>3 DEF OnChain, Save
  <2>4. CASE Plan
    BY Zenon, <2>2, <2>3, <2>4, Planned DEF Plan, TypeOK
  <2>5. CASE SaveProgress
    <3>1. Advanced \in Data
      BY Zenon, <2>5, WalkingTask, TaskAdvanced DEF SaveProgress, Walking
    <3> QED
      BY Zenon, <2>3, <2>5, <3>1 DEF SaveProgress
  <2>6. CASE Finalize \/ HandleFinalized \/ WriteFails \/ \E a \in Anchors : LoadRemote(a)
    BY Zenon, <2>2, <2>6 DEF Finalize, HandleFinalized, WriteFails, LoadRemote, disk
  <2> QED
    BY Zenon, <2>1, <2>4, <2>5, <2>6, StillSteps, FamiliarSteps
<1>2. \A d \in (records \cup Carried)' : Known(d)
  <2>1. CASE Still \/ Familiar
    BY Zenon, <1>0, <2>1 DEF Still, Familiar, Carried
  <2>2. CASE Plan
    <3>1. finalized # None /\ finalized \in Chain
      BY Zenon, <2>2 DEF Plan, TypeOK
    <3>2. Known(BackSyncFromAnchor)
      BY Zenon, <3>1, Planned DEF Taken
    <3>3. Carried' = Carried /\ records' \subseteq records \cup {BackSyncFromAnchor}
      BY Zenon, <2>2 DEF Plan, Carried, Save
    <3> QED
      BY Zenon, <1>0, <3>2, <3>3
  <2>3. CASE SaveProgress \/ WriteFails
    <3>1. Walking
      BY Zenon, <2>3 DEF SaveProgress, WriteFails, Walking
    <3>2. /\ Known(Advanced) /\ Advanced \in Data /\ task.sync \in Data /\ task \in Task
          /\ sync = None /\ task.sync \in Carried
      BY Zenon, <1>0, <3>1, WalkingTask, TaskAdvanced DEF TypeOK
    <3>3. records' \subseteq records \cup {Advanced} /\ sync' = sync
      BY Zenon, <2>3 DEF SaveProgress, WriteFails, Save, disk
    <3>4. task'.sync \in {Advanced, task.sync}
      <4>1. task' = Reply(Advanced) \/ task' = Reply(task.sync)
        BY Zenon, <2>3 DEF SaveProgress, WriteFails
      <4>2. \A d \in Data : Reply(d).sync = d
        BY Zenon, <3>2, TaskForms
      <4> QED
        BY Zenon, <3>2, <4>1, <4>2
    <3>5. Carried' \subseteq {Advanced, task.sync}
      BY Zenon, <3>2, <3>3, <3>4 DEF Carried
    <3> QED
      BY Zenon, <1>0, <3>2, <3>3, <3>5
  <2>4. CASE Finalize \/ HandleFinalized \/ \E a \in Anchors : LoadRemote(a)
    BY Zenon, <1>0, <2>4 DEF Finalize, HandleFinalized, LoadRemote, Carried
  <2> QED
    BY Zenon, <2>1, <2>2, <2>3, <2>4, StillSteps, FamiliarSteps
<1>3. (Walking => task.reached \in Taken)' /\ (task.verified \subseteq Taken)'
  <2>1. CASE task' = task
    BY Zenon, <2>1 DEF OnChain, Walking
  <2>2. CASE Crash \/ HandleBackSync
    <3>1. task' = Idle
      BY Zenon, <2>2 DEF Crash, HandleBackSync
    <3>2. task'.step = "idle" /\ task'.verified = {}
      BY Zenon, <3>1 DEF Idle
    <3> QED
      BY Zenon, <3>2 DEF Walking
  <2>3. CASE VerifyBlock
    BY Zenon, <2>3, Verified, VerifiedOnChain DEF Walking, TypeOK
  <2>4. CASE CheckTerminus \/ StoreBlocks \/ StoreSidecars \/ SaveProgress \/ WriteFails
    <3>1. Walking
      BY Zenon, <2>4 DEF CheckTerminus, StoreBlocks, StoreSidecars, SaveProgress, WriteFails,
                         Walking
    <3>2. /\ Advanced \in Data /\ task.sync \in Data /\ task \in Task
          /\ task.reached \in Taken /\ task.verified \subseteq Taken
      BY Zenon, <3>1, WalkingTask, TaskAdvanced DEF TypeOK, OnChain
    <3>3. \/ \E d \in Data \cup {None} : task' = Reply(d)
          \/ \E step \in {"blocks", "sidecars", "save"} : task' = Proceed(step)
      <4>1. CASE CheckTerminus
        <5>1. records \subseteq Data
          BY Zenon DEF TypeOK
        <5>2. Remove(task.sync, records) \subseteq Data
          BY Zenon, <3>2, <5>1, SavedData
        <5> QED
          BY Zenon, <4>1, <5>2 DEF CheckTerminus
      <4>2. CASE StoreBlocks \/ StoreSidecars \/ SaveProgress \/ WriteFails
        BY Zenon, <3>2, <4>2 DEF StoreBlocks, StoreSidecars, SaveProgress, WriteFails
      <4> QED
        BY Zenon, <2>4, <4>1, <4>2
    <3>4. ASSUME NEW d \in Data \cup {None}, task' = Reply(d)
          PROVE  task'.step = "reply" /\ task'.verified = {}
      BY Zenon, <3>2, <3>4, TaskForms
    <3>5. ASSUME NEW step \in {"blocks", "sidecars", "save"}, task' = Proceed(step)
          PROVE  task'.reached = task.reached /\ task'.verified = task.verified
      BY Zenon, <3>2, <3>5, TaskForms
    <3> QED
      BY Zenon, <3>2, <3>3, <3>4, <3>5 DEF Walking
  <2>5. ASSUME NEW r \in sent, NEW a \in Answers(r), Answer(r, a)
        PROVE  (Walking => task.reached \in Taken)' /\ (task.verified \subseteq Taken)'
    <3>1. Push(a) \in Batch
      BY Zenon, Pushed DEF TypeOK
    <3>2. CASE sync # None /\ task'.reached = sync.current /\ task'.verified = {}
      BY Zenon, <1>0, <3>2 DEF Carried
    <3> QED
      BY Zenon, <2>1, <2>5, <3>1, <3>2, Checked DEF Answer
  <2>6. CASE \/ Still \/ Plan \/ Run \/ Finalize \/ HandleFinalized \/ HandleArchived
             \/ \E a \in Anchors : LoadRemote(a)
    <3>1. task' = task
      BY Zenon, <2>6 DEF Still, Plan, Run, Finalize, HandleFinalized, HandleArchived, LoadRemote
    <3> QED
      BY Zenon, <2>1, <3>1
  <2> QED
    BY Zenon, <2>2, <2>3, <2>4, <2>5, <2>6, StillSteps
<1>4. /\ (finalized # None => finalized \in Chain /\ Held(finalized))'
      /\ (message # None => message = finalized)'
  <2>1. CASE \E a \in Anchors : LoadRemote(a)
    BY Zenon, <2>1, BlocksAssumption DEF LoadRemote, Ownership, Held, network
  <2>2. CASE Finalize
    BY Zenon, <2>2, BlocksAssumption DEF Finalize, Held
  <2>3. CASE finalized' = finalized /\ message' \in {message, None}
    BY Zenon, <2>3, Monotone DEF OnChain
  <2>4. CASE \/ Still \/ Plan \/ Run \/ Crash \/ HandleFinalized \/ CheckTerminus \/ StoreBlocks
             \/ StoreSidecars \/ SaveProgress \/ HandleArchived
    BY Zenon, <2>3, <2>4 DEF Still, Plan, Run, Crash, HandleFinalized, CheckTerminus, StoreBlocks,
       StoreSidecars, SaveProgress, HandleArchived, disk, network
  <2>5. CASE VerifyBlock \/ WriteFails \/ HandleBackSync
    BY Zenon, <2>3, <2>5 DEF VerifyBlock, WriteFails, HandleBackSync, disk, network
  <2>6. CASE \E r \in sent : \E a \in Answers(r) : Answer(r, a)
    BY Zenon, <2>3, <2>6 DEF Answer, disk, network
  <2> QED
    BY Zenon, <2>1, <2>2, <2>4, <2>5, <2>6, StillSteps
<1> QED
  BY Zenon, <1>1, <1>2, <1>3, <1>4 DEF OnChain

-----------------------------------------------------------------------------
\* Slots are natural numbers.
LEMMA Slots ==
  /\ \A b \in Blocks : SlotOf[b] \in Nat
  /\ \A c \in Chain : SlotOf[c] \in Nat
  BY Zenon, BlocksAssumption

\* Every step keeps the loop going down and what it stores compared.
LEMMA DownwardStep ==
  ASSUME TypeOK, Ownership, OnChain, Downward, [Next]_vars
  PROVE  Downward'
<1>1. CASE task' = task
  BY Zenon, <1>1 DEF Downward, Walking, Mismatch
<1>2. CASE task'.step \in {"idle", "reply"}
  BY Zenon, <1>2 DEF Downward, Walking
<1>3. CASE VerifyBlock /\ task'.step = "walk"
  <2>1. /\ \A b \in task.left : SlotOf[b] < SlotOf[task.reached]
        /\ \A b \in task.verified : SlotOf[b] = 0 => b = task.reached
        /\ task.left \subseteq Blocks /\ SlotOf[task.reached] \in Nat
    BY Zenon, <1>3, WalkingTask, Slots DEF VerifyBlock, Walking, Downward, TypeOK, Task
  <2>2. CASE task'.left = {} /\ task'.reached = task.reached /\ task'.verified = task.verified
    BY Zenon, <1>3, <2>1, <2>2 DEF Downward
  <2>3. ASSUME NEW b \in task.left, task'.reached = b, task'.verified = task.verified \cup {b},
               task'.left = {c \in task.left : SlotOf[c] < SlotOf[b]}
        PROVE  Downward'
    <3>1. SlotOf[task.reached] # 0
      BY <2>1, Slots
    <3>2. \A c \in task.verified \cup {b} : SlotOf[c] = 0 => c = b
      BY Zenon, <2>1, <3>1
    <3>3. \A c \in task'.left : SlotOf[c] < SlotOf[b]
      BY Zenon, <2>3
    <3> QED
      BY Zenon, <1>3, <2>3, <3>2, <3>3 DEF Downward
  <2> QED
    BY Zenon, <1>3, <2>2, <2>3, Verified DEF TypeOK
<1>4. ASSUME NEW step \in {"blocks", "sidecars", "save"}, task' = Proceed(step), Walking,
             ~Mismatch(task.sync, task.reached)
      PROVE  Downward'
  <2>1. /\ task'.step = step /\ task'.sync = task.sync /\ task'.reached = task.reached
        /\ task'.verified = task.verified
    BY Zenon, <1>4, TaskForms DEF TypeOK
  <2> QED
    BY Zenon, <1>4, <2>1 DEF Downward, Mismatch
<1>5. CASE CheckTerminus
  <2>1. Walking /\ task \in Task /\ records \subseteq Data
    BY Zenon, <1>5 DEF CheckTerminus, Walking, TypeOK
  <2>2. CASE task' = Proceed("blocks") /\ ~Mismatch(task.sync, task.reached)
    BY Zenon, <1>4, <2>1, <2>2
  <2>3. CASE \E next \in Remove(task.sync, records) \cup {None} : task' = Reply(next)
    <3>1. Remove(task.sync, records) \subseteq Data
      BY Zenon, <2>1, WalkingTask, SavedData
    <3> QED
      BY <1>2, <2>1, <2>3, <3>1, TaskForms
  <2> QED
    BY Zenon, <1>5, <2>2, <2>3 DEF CheckTerminus
<1>6. CASE StoreBlocks \/ StoreSidecars
  <2>1. /\ Walking /\ ~Mismatch(task.sync, task.reached)
        /\ task' = Proceed("sidecars") \/ task' = Proceed("save")
    BY Zenon, <1>6 DEF StoreBlocks, StoreSidecars, Walking, Downward
  <2> QED
    BY Zenon, <1>4, <2>1
<1>7. CASE SaveProgress \/ WriteFails
  <2>1. Walking
    BY Zenon, <1>7 DEF SaveProgress, WriteFails, Walking
  <2>2. Advanced \in Data /\ task.sync \in Data /\ task \in Task
    BY Zenon, <2>1, WalkingTask, TaskAdvanced DEF TypeOK
  <2>3. task' \in {Reply(Advanced), Reply(task.sync)}
    BY Zenon, <1>7 DEF SaveProgress, WriteFails
  <2> QED
    BY <1>2, <2>2, <2>3, TaskForms
<1>8. CASE Crash \/ HandleBackSync
  <2>1. task' = Idle
    BY Zenon, <1>8 DEF Crash, HandleBackSync
  <2> QED
    BY Zenon, <1>2, <2>1 DEF Idle
<1>9. ASSUME NEW r \in sent, NEW a \in Answers(r), Answer(r, a) PROVE Downward'
  <2>1. Push(a) \in Batch
    BY Zenon, Pushed DEF TypeOK
  <2>2. CASE /\ task'.step = "walk" /\ task'.reached = sync.current /\ task'.verified = {}
             /\ \A b \in task'.left : SlotOf[b] < SlotOf[sync.current]
    BY Zenon, <2>2 DEF Downward
  <2> QED
    BY Zenon, <1>1, <1>9, <2>1, <2>2, Checked DEF Answer
<1>10. CASE \/ Still \/ Plan \/ Run \/ Finalize \/ HandleFinalized \/ HandleArchived
            \/ \E a \in Anchors : LoadRemote(a)
  <2>1. task' = task
    BY Zenon, <1>10 DEF Still, Plan, Run, Finalize, HandleFinalized, HandleArchived, LoadRemote
  <2> QED
    BY Zenon, <1>1, <2>1
<1>11. CASE VerifyBlock
  BY Zenon, <1>2, <1>3, <1>11, Verified DEF TypeOK
<1> QED
  BY Zenon, <1>5, <1>6, <1>7, <1>8, <1>9, <1>10, <1>11, StillSteps

\* Every step keeps what a task has gone through stored.
LEMMA WalkedStep ==
  ASSUME TypeOK, Ownership, OnChain, Downward, Walked, [Next]_vars
  PROVE  Walked'
<1>1. CASE task' = task
  <2>1. SUFFICES ASSUME Walking PROVE Walked'
    BY Zenon, <1>1 DEF Walked, Walking
  <2>2. excuses' = {} => excuses = {}
    BY Zenon, Monotone
  <2>3. stored \subseteq stored' /\ sidecars \subseteq sidecars'
    BY Zenon, Monotone
  <2> QED
    BY Zenon, <1>1, <2>1, <2>2, <2>3 DEF Walked
<1>2. CASE task'.step \in {"idle", "reply"}
  BY Zenon, <1>2 DEF Walked, Walking
<1>3. CASE VerifyBlock /\ task'.step = "walk"
  <2>1. /\ Walking /\ task.sync \in Data /\ task.reached \in Taken /\ task'.sync = task.sync
        /\ SlotOf[task.reached] \in Nat /\ SlotOf[task.sync.current] \in Nat
        /\ SlotOf[task.reached] <= SlotOf[task.sync.current]
    <3>1. Walking
      BY Zenon, <1>3 DEF VerifyBlock, Walking
    <3> QED
      BY Zenon, <1>3, <3>1, WalkingTask, Slots, DataFields, Verified DEF Walked, TypeOK
  <2>2. CASE task'.reached = task.reached /\ task'.verified = task.verified /\ excuses' = excuses
    BY Zenon, <1>3, <2>1, <2>2 DEF Walked
  <2>3. ASSUME NEW b \in task.left, task'.reached = b, task'.verified = task.verified \cup {b},
               b = Parent[task.reached], excuses' = excuses
        PROVE  Walked'
    <3>1. /\ b \in Chain /\ SlotOf[b] < SlotOf[task.reached]
          /\ \A c \in Chain : SlotOf[c] < SlotOf[task.reached] => SlotOf[c] <= SlotOf[b]
      <4>1. b \in Blocks
        BY Zenon DEF TypeOK, Task
      <4>2. SlotOf[b] < SlotOf[task.reached]
        BY Zenon, <1>3, <2>1 DEF VerifyBlock, Downward
      <4> QED
        BY Zenon, <2>1, <2>3, <4>1, <4>2, ParentOnChain
    <3>2. \A c \in Chain : SlotOf[b] <= SlotOf[c] /\ SlotOf[c] < SlotOf[task.reached] => c = b
      <4>1. \A c \in Chain : SlotOf[c] < SlotOf[task.reached] => SlotOf[c] <= SlotOf[b]
        BY Zenon, <3>1
      <4>2. \A c \in Chain : SlotOf[c] = SlotOf[b] => c = b
        BY Zenon, <3>1, ChainAssumption
      <4> QED
        BY <3>1, <4>1, <4>2, Slots
    <3>3. SlotOf[b] <= SlotOf[task.sync.current]
      BY <2>1, <3>1, Slots
    <3>4. excuses = {} =>
            \A c \in Chain : SlotOf[b] <= SlotOf[c] /\ SlotOf[c] < SlotOf[task.sync.current]
                               => c \in task.verified \cup {b}
      BY <2>1, <3>1, <3>2, Slots DEF Walked
    <3> QED
      BY Zenon, <1>3, <2>1, <2>3, <3>3, <3>4 DEF Walked
  <2>4. ASSUME NEW b \in task.left, task'.reached = b, SlotOf[b] = 0,
               excuses' = excuses \cup {"genesis"}
        PROVE  Walked'
    <3>1. excuses' # {}
      BY Zenon, <2>4
    <3> QED
      BY <1>3, <2>1, <2>4, <3>1 DEF Walked
  <2> QED
    BY Zenon, <1>3, <2>2, <2>3, <2>4, Verified DEF TypeOK
<1>4. ASSUME NEW step \in {"blocks", "sidecars", "save"}, task' = Proceed(step), Walking,
             step \in {"sidecars", "save"} => task.verified \subseteq stored',
             step = "save" => task.verified \cap WithData \subseteq sidecars'
      PROVE  Walked'
  <2>1. /\ task'.step = step /\ task'.sync = task.sync /\ task'.reached = task.reached
        /\ task'.verified = task.verified
    BY Zenon, <1>4, TaskForms DEF TypeOK
  <2>2. excuses' = {} => excuses = {}
    BY Zenon, Monotone
  <2> QED
    BY Zenon, <1>4, <2>1, <2>2 DEF Walked
<1>5. CASE CheckTerminus
  <2>1. Walking /\ task \in Task /\ records \subseteq Data
    BY Zenon, <1>5 DEF CheckTerminus, Walking, TypeOK
  <2>2. CASE task' = Proceed("blocks")
    BY Zenon, <1>4, <2>1, <2>2
  <2>3. CASE \E next \in Remove(task.sync, records) \cup {None} : task' = Reply(next)
    <3>1. Remove(task.sync, records) \subseteq Data
      BY Zenon, <2>1, WalkingTask, SavedData
    <3> QED
      BY <1>2, <2>1, <2>3, <3>1, TaskForms
  <2> QED
    BY Zenon, <1>5, <2>2, <2>3 DEF CheckTerminus
<1>6. CASE StoreBlocks
  <2>1. Walking /\ task' = Proceed("sidecars") /\ task.verified \subseteq stored'
    BY Zenon, <1>6 DEF StoreBlocks, Walking
  <2> QED
    BY Zenon, <1>4, <2>1
<1>7. CASE StoreSidecars
  <2>1. Walking /\ task' = Proceed("save") /\ task.verified \cap WithData \subseteq sidecars'
    BY Zenon, <1>7 DEF StoreSidecars, Walking
  <2>2. task.verified \subseteq stored'
    BY Zenon, <1>7, <2>1 DEF StoreSidecars, Walked
  <2> QED
    BY Zenon, <1>4, <2>1, <2>2
<1>8. CASE SaveProgress \/ WriteFails
  <2>1. Walking
    BY Zenon, <1>8 DEF SaveProgress, WriteFails, Walking
  <2>2. Advanced \in Data /\ task.sync \in Data /\ task \in Task
    BY Zenon, <2>1, WalkingTask, TaskAdvanced DEF TypeOK
  <2>3. task' \in {Reply(Advanced), Reply(task.sync)}
    BY Zenon, <1>8 DEF SaveProgress, WriteFails
  <2> QED
    BY <1>2, <2>2, <2>3, TaskForms
<1>9. CASE Crash \/ HandleBackSync
  <2>1. task' = Idle
    BY Zenon, <1>9 DEF Crash, HandleBackSync
  <2> QED
    BY Zenon, <1>2, <2>1 DEF Idle
<1>10. ASSUME NEW r \in sent, NEW a \in Answers(r), Answer(r, a) PROVE Walked'
  <2>1. Push(a) \in Batch
    BY Zenon, Pushed DEF TypeOK
  <2>2. CASE /\ sync # None /\ task'.step = "walk" /\ task'.sync = sync
             /\ task'.reached = sync.current
    <3>1. SlotOf[sync.current] \in Nat
      BY Zenon, <2>2, DataFields DEF TypeOK
    <3> QED
      BY <2>2, <3>1, Slots DEF Walked
  <2> QED
    BY Zenon, <1>1, <1>10, <2>1, <2>2, Checked DEF Answer
<1>11. CASE \/ Still \/ Plan \/ Run \/ Finalize \/ HandleFinalized \/ HandleArchived
            \/ \E a \in Anchors : LoadRemote(a)
  <2>1. task' = task
    BY Zenon, <1>11 DEF Still, Plan, Run, Finalize, HandleFinalized, HandleArchived, LoadRemote
  <2> QED
    BY Zenon, <1>1, <2>1
<1>12. CASE VerifyBlock
  BY Zenon, <1>2, <1>3, <1>12, Verified DEF TypeOK
<1> QED
  BY Zenon, <1>5, <1>6, <1>7, <1>8, <1>9, <1>10, <1>11, <1>12, StillSteps

-----------------------------------------------------------------------------
\* What a task has verified is held when it comes to saving its progress.
LEMMA VerifiedIsHeld ==
  ASSUME TypeOK, Ownership, OnChain, Walked, task.step = "save"
  PROVE  /\ Walking /\ task.sync \in Data /\ task.sync \in Carried
         /\ Advanced \in Data /\ Advanced.current = task.reached
         /\ Advanced.high = task.sync.high /\ Advanced.low = task.sync.low
         /\ SlotOf[task.reached] \in Nat /\ SlotOf[task.sync.current] \in Nat
         /\ SlotOf[task.reached] <= SlotOf[task.sync.current]
         /\ excuses = {} =>
              \A c \in Chain :
                SlotOf[task.reached] <= SlotOf[c] /\ SlotOf[c] < SlotOf[task.sync.current]
                  => Held(c)
<1>1. Walking
  BY Zenon DEF Walking
<1>2. /\ task.sync \in Data /\ task.sync # None /\ task.sync \in Carried
      /\ task.reached \in Blocks /\ task.reached # None
  BY Zenon, <1>1, WalkingTask
<1> QED
  BY Zenon, <1>1, <1>2, TaskAdvanced, Slots, DataFields DEF Walked, Held

\* Every step keeps the progress in memory at least as far as on record.
LEMMA AheadStep ==
  ASSUME TypeOK, Ownership, OnChain, Walked, Ahead, [Next]_vars
  PROVE  Ahead'
<1> DEFINE Between(d, r) ==
      /\ SlotOf[d.current] <= SlotOf[r.current]
      /\ excuses = {} =>
           \A c \in Chain :
             SlotOf[d.current] <= SlotOf[c] /\ SlotOf[c] < SlotOf[r.current] => Held(c)
<1>1. ASSUME NEW d, NEW r, Between(d, r) PROVE Between(d, r)'
  BY Zenon, <1>1, Monotone
<1>2. ASSUME NEW d \in Data PROVE Between(d, d)
  BY DataFields, Slots
<1>3. \A d \in Carried, r \in records : d.low.slot = r.low.slot => Between(d, r)
  BY Zenon DEF Ahead
<1>4. records \subseteq Data /\ Carried \subseteq Data
  BY Zenon DEF TypeOK, Task, Carried
<1> HIDE DEF Between
<1>5. CASE Familiar \/ (records' = records /\ Carried' = Carried)
  <2>1. SUFFICES ASSUME NEW d \in Carried', NEW r \in records', d.low.slot = r.low.slot
                 PROVE  Between(d, r)
    BY Zenon, <1>1 DEF Ahead, Between
  <2>2. r \in records /\ d \in records \cup Carried
    BY Zenon, <1>5 DEF Familiar
  <2>3. d \in records => d = r
    BY Zenon, <2>1, <2>2 DEF OnChain
  <2> QED
    BY Zenon, <1>2, <1>3, <1>4, <2>1, <2>2, <2>3
<1>6. CASE Plan
  <2>1. Carried' = {}
    BY Zenon, <1>6 DEF Plan, Ownership, Carried
  <2> QED
    BY Zenon, <2>1 DEF Ahead
<1>7. CASE SaveProgress
  <2>1. Advanced \in Data /\ sync = None /\ task \in Task
    BY Zenon, <1>7, VerifiedIsHeld, WalkingTask DEF SaveProgress, TypeOK
  <2>2. Carried' \subseteq {Advanced}
    BY Zenon, <1>7, <2>1, TaskForms DEF SaveProgress, Carried
  <2>3. records' = Save(Advanced, records)
    BY Zenon, <1>7 DEF SaveProgress
  <2>4. \A r \in records' : r.low.slot = Advanced.low.slot => r = Advanced
    BY Zenon, <1>4, <2>1, <2>3, SavedData
  <2>5. Between(Advanced, Advanced)
    BY Zenon, <1>2, <2>1
  <2>6. SUFFICES ASSUME NEW d \in Carried', NEW r \in records', d.low.slot = r.low.slot
                 PROVE  Between(d, r)
    BY Zenon, <1>1 DEF Ahead, Between
  <2> QED
    BY Zenon, <2>2, <2>4, <2>5, <2>6
<1>8. CASE WriteFails
  <2>1. Walking
    BY Zenon, <1>8 DEF WriteFails, Walking
  <2>2. task.sync \in Data /\ task.sync \in Carried /\ Advanced \in Data /\ sync = None
        /\ task \in Task
    BY Zenon, <2>1, WalkingTask, TaskAdvanced DEF TypeOK
  <2>3. /\ Carried' \subseteq {task.sync, Advanced} /\ records' = records
        /\ Advanced \in Carried' => Advanced = task.sync \/ task.step = "save"
    BY Zenon, <1>8, <2>2, TaskForms DEF WriteFails, Carried, disk
  <2>4. ASSUME NEW r \in records, task.step = "save", Advanced.low.slot = r.low.slot
        PROVE  Between(Advanced, r)
    <3>1. Between(task.sync, r)
      BY Zenon, <1>3, <2>2, <2>4, VerifiedIsHeld
    <3> QED
      BY <1>4, <2>4, <3>1, VerifiedIsHeld, DataFields, Slots DEF Between
  <2>5. SUFFICES ASSUME NEW d \in Carried', NEW r \in records', d.low.slot = r.low.slot
                 PROVE  Between(d, r)
    BY Zenon, <1>1 DEF Ahead, Between
  <2> QED
    BY Zenon, <1>3, <2>2, <2>3, <2>4, <2>5
<1>9. CASE Still \/ Finalize \/ HandleFinalized \/ \E a \in Anchors : LoadRemote(a)
  <2>1. records' = records /\ Carried' = Carried
    BY Zenon, <1>9 DEF Still, Finalize, HandleFinalized, LoadRemote, Carried
  <2> QED
    BY Zenon, <1>5, <2>1
<1> QED
  BY Zenon, <1>5, <1>6, <1>7, <1>8, <1>9, StillSteps, FamiliarSteps

-----------------------------------------------------------------------------
\* Every step keeps a finished back-sync complete.
LEMMA DoneStep ==
  ASSUME TypeOK, Ownership, OnChain, Walked, Done, [Next]_vars
  PROVE  Done'
<1>1. SUFFICES ASSUME excuses' = {},
                      NEW d \in (records \cup Carried)', NEW c \in Chain,
                      SlotOf[d.current] <= SlotOf[c], SlotOf[c] <= SlotOf[d.high]
               PROVE  Held(c)'
  BY Zenon DEF Done, HeldFrom
<1>2. excuses = {} /\ (Held(c) => Held(c)')
  BY Zenon, <1>1, Monotone
<1>3. CASE d \in records \cup Carried
  BY Zenon, <1>1, <1>2, <1>3 DEF Done, HeldFrom
<1>4. ASSUME task.step = "save", d = Advanced PROVE Held(c)'
  <2>1. CASE SlotOf[c] < SlotOf[task.sync.current]
    BY Zenon, <1>1, <1>2, <1>4, <2>1, VerifiedIsHeld
  <2>2. CASE SlotOf[task.sync.current] <= SlotOf[c]
    BY Zenon, <1>1, <1>2, <1>4, <2>2, VerifiedIsHeld DEF Done, HeldFrom
  <2> QED
    BY <1>4, <2>1, <2>2, VerifiedIsHeld, Slots
<1>5. CASE Familiar
  BY Zenon, <1>3, <1>5 DEF Familiar
<1>6. CASE Plan
  <2>1. Carried' = Carried /\ records' \subseteq records \cup {BackSyncFromAnchor}
    BY Zenon, <1>6 DEF Plan, Carried, Save
  <2>2. CASE d = BackSyncFromAnchor
    <3>1. finalized \in Chain /\ finalized # None /\ Held(finalized)
      BY Zenon, <1>6 DEF Plan, OnChain, TypeOK
    <3>2. SlotOf[finalized] <= SlotOf[c] /\ SlotOf[c] <= SlotOf[finalized]
      BY Zenon, <1>1, <2>2, <3>1, Planned
    <3>3. c = finalized
      BY <3>1, <3>2, Slots, ChainAssumption
    <3> QED
      BY Zenon, <1>2, <3>1, <3>3
  <2> QED
    BY Zenon, <1>3, <2>1, <2>2
<1>7. CASE SaveProgress
  <2>1. Advanced \in Data /\ sync = None /\ task \in Task
    BY Zenon, <1>7, VerifiedIsHeld, WalkingTask DEF SaveProgress, TypeOK
  <2>2. Carried' \subseteq {Advanced} /\ records' \subseteq records \cup {Advanced}
    BY Zenon, <1>7, <2>1, TaskForms DEF SaveProgress, Carried, Save
  <2> QED
    BY Zenon, <1>3, <1>4, <1>7, <2>2 DEF SaveProgress
<1>8. CASE WriteFails
  <2>1. Walking
    BY Zenon, <1>8 DEF WriteFails, Walking
  <2>2. task.sync \in Data /\ task.sync \in Carried /\ Advanced \in Data /\ sync = None
        /\ task \in Task
    BY Zenon, <2>1, WalkingTask, TaskAdvanced DEF TypeOK
  <2>3. /\ Carried' \subseteq {task.sync, Advanced} /\ records' = records
        /\ Advanced \in Carried' => Advanced = task.sync \/ task.step = "save"
    BY Zenon, <1>8, <2>2, TaskForms DEF WriteFails, Carried, disk
  <2> QED
    BY Zenon, <1>3, <1>4, <2>2, <2>3
<1>9. CASE Still \/ Finalize \/ HandleFinalized \/ \E a \in Anchors : LoadRemote(a)
  <2>1. records' = records /\ Carried' = Carried
    BY Zenon, <1>9 DEF Still, Finalize, HandleFinalized, LoadRemote, Carried
  <2> QED
    BY Zenon, <1>3, <2>1
<1> QED
  BY Zenon, <1>5, <1>6, <1>7, <1>8, <1>9, StillSteps, FamiliarSteps

-----------------------------------------------------------------------------
\* A back-sync of this mode ends where the history of the mode starts, or at the
\* checkpoint below which a restart relies on the database.
LEMMA BelowTerminus ==
  ASSUME TypeOK, NEW c \in Chain, Oldest <= SlotOf[c], SlotOf[c] < BackSyncTerminus.slot
  PROVE  latest # None /\ SlotOf[c] < SlotOf[latest]
  BY Slots, Constants DEF BackSyncTerminus, Oldest, TypeOK

\* A new plan covers what the earlier records do not.
LEMMA CoveredPlan ==
  ASSUME TypeOK, Ownership, OnChain, Covered, Plan, excuses = {},
         NEW c \in Chain, Relied(c)'
  PROVE  Held(c) \/ Recorded(c)'
<1> DEFINE d == BackSyncFromAnchor
<1>1. /\ finalized \in Chain /\ finalized # None /\ Held(finalized)
      /\ Oldest <= SlotOf[c]
      /\ SlotOf[c] <= SlotOf[finalized] \/ (latest # None /\ SlotOf[c] < SlotOf[latest])
  BY Zenon DEF Plan, OnChain, TypeOK, Relied, Oldest
<1>2. /\ d \in Data /\ d.current = finalized /\ d.low = BackSyncTerminus
      /\ records \subseteq Data /\ d.low.slot \in Nat /\ SlotOf[c] \in Nat
      /\ SlotOf[finalized] \in Nat
  BY Zenon, <1>1, Planned, DataFields, Slots DEF TypeOK
<1> HIDE DEF d
<1>3. CASE records' = records /\ Relied(c)
  BY Zenon, <1>3 DEF Covered, Recorded
<1>4. CASE ~remote
  <2>1. Relied(c)
    BY Zenon, <1>1, <1>4 DEF Relied
  <2> QED
    BY Zenon, <1>3, <1>4, <2>1 DEF Plan
<1>5. CASE remote /\ Finished(d)
  <2>1. records' = records
    BY Zenon, <1>5 DEF Plan, d
  <2>2. CASE SlotOf[c] = SlotOf[finalized]
    BY Zenon, <1>1, <2>2, ChainAssumption
  <2>3. CASE SlotOf[c] < SlotOf[finalized]
    <3>1. SlotOf[c] < BackSyncTerminus.slot
      BY <1>1, <1>2, <1>5, <2>3, Constants DEF Finished, Oldest
    <3>2. Relied(c)
      BY Zenon, <1>1, <3>1, BelowTerminus DEF Relied
    <3> QED
      BY Zenon, <1>3, <2>1, <3>2
  <2>4. CASE latest # None /\ SlotOf[c] < SlotOf[latest]
    BY Zenon, <1>1, <1>3, <2>1, <2>4 DEF Relied
  <2> QED
    BY <1>1, <1>2, <2>2, <2>3, <2>4
<1>6. CASE remote /\ ~Finished(d)
  <2>1. records' = Save(d, records)
    BY Zenon, <1>6 DEF Plan, d
  <2>2. CASE SlotOf[c] = SlotOf[finalized]
    BY Zenon, <1>1, <2>2, ChainAssumption
  <2>3. CASE SlotOf[c] < SlotOf[finalized] /\ d.low.slot <= SlotOf[c]
    BY Zenon, <1>2, <2>1, <2>3, SavedData DEF Recorded
  <2>4. ASSUME latest # None, SlotOf[c] < SlotOf[latest]
        PROVE  Held(c) \/ Recorded(c)'
    <3>1. SlotOf[c] < d.low.slot
      BY <1>2, <2>4 DEF BackSyncTerminus
    <3>2. Held(c) \/ Recorded(c)
      BY Zenon, <1>1, <2>4 DEF Covered, Relied
    <3>3. ASSUME NEW r \in records, r.low.slot <= SlotOf[c], SlotOf[c] < SlotOf[r.current]
          PROVE  r \in records'
      <4>1. r.low.slot # d.low.slot
        BY <1>2, <3>1, <3>3, DataFields
      <4> QED
        BY Zenon, <1>2, <2>1, <4>1, SavedData
    <3> QED
      BY Zenon, <3>2, <3>3 DEF Recorded
  <2>5. CASE SlotOf[c] < d.low.slot
    BY Zenon, <1>1, <1>2, <2>4, <2>5, BelowTerminus
  <2> QED
    BY <1>1, <1>2, <2>2, <2>3, <2>4, <2>5
<1> QED
  BY Zenon, <1>4, <1>5, <1>6 DEF TypeOK

\* Every step keeps the history in storage or on record.
LEMMA CoveredStep ==
  ASSUME TypeOK, Ownership, OnChain, Walked, Ahead, Covered, [Next]_vars
  PROVE  Covered'
<1>1. SUFFICES ASSUME excuses' = {}, NEW c \in Chain, Relied(c)'
               PROVE  Held(c)' \/ Recorded(c)'
  BY Zenon DEF Covered
<1>2. /\ excuses = {} /\ (Held(c) => Held(c)') /\ archive' = archive
      /\ SlotOf[c] \in Nat /\ Oldest <= SlotOf[c]
  BY <1>1, Monotone, Slots DEF Relied, Oldest
<1>3. CASE records' = records /\ Relied(c)
  BY Zenon, <1>2, <1>3 DEF Covered, Recorded
<1>4. CASE UNCHANGED <<records, latest, finalized, stage, remote>>
  BY Zenon, <1>1, <1>2, <1>3, <1>4 DEF Relied
<1>5. CASE Still
  BY Zenon, <1>1, <1>2, <1>3, <1>5 DEF Still, Relied
<1>6. CASE Plan
  BY Zenon, <1>1, <1>2, <1>6, CoveredPlan
<1>7. CASE Run
  <2>1. \/ SlotOf[c] <= SlotOf[finalized] /\ finalized # None
        \/ latest # None /\ SlotOf[c] < SlotOf[latest]
    BY <1>1, <1>2, <1>7, Slots DEF Run, Relied, TypeOK
  <2> QED
    BY Zenon, <1>2, <1>3, <1>7, <2>1 DEF Run, Relied
<1>8. CASE Crash
  <2>1. ~(stage = "loaded" /\ remote)
    BY Zenon, <1>1, <1>8 DEF Crash
  <2> QED
    BY Zenon, <1>1, <1>2, <1>3, <1>8, <2>1 DEF Crash, Relied, disk
<1>9. CASE Finalize
  <2>1. PICK b \in Chain : /\ b # Genesis /\ Parent[b] = finalized /\ finalized' = b
                           /\ stored' = stored \cup {b}
                           /\ sidecars' = sidecars \cup ({b} \cap WithData)
    BY Zenon, <1>9 DEF Finalize
  <2>2. CASE SlotOf[c] = SlotOf[b]
    <3>1. c = b
      BY Zenon, <2>1, <2>2, ChainAssumption
    <3> QED
      BY Zenon, <2>1, <3>1 DEF Held
  <2>3. CASE SlotOf[c] < SlotOf[b]
    <3>1. SlotOf[c] <= SlotOf[finalized] /\ finalized # None
      BY Zenon, <2>1, <2>3, ChainAssumption, Constants
    <3> QED
      BY Zenon, <1>2, <1>3, <1>9, <3>1 DEF Finalize, Relied
  <2>4. CASE latest # None /\ SlotOf[c] < SlotOf[latest]
    BY Zenon, <1>2, <1>3, <1>9, <2>4 DEF Finalize, Relied
  <2>5. SlotOf[c] <= SlotOf[b] \/ (latest # None /\ SlotOf[c] < SlotOf[latest])
    BY Zenon, <1>1, <1>9, <2>1 DEF Finalize, Relied
  <2> QED
    BY <1>2, <2>1, <2>2, <2>3, <2>4, <2>5, Slots
<1>10. CASE HandleFinalized
  <2>1. message = finalized /\ finalized \in Chain /\ finalized # None /\ stage = "running"
    BY Zenon, <1>10 DEF HandleFinalized, OnChain, Ownership, TypeOK
  <2>2. SlotOf[c] <= SlotOf[finalized]
    BY <1>1, <1>2, <1>10, <2>1, Slots DEF HandleFinalized, Relied
  <2> QED
    BY Zenon, <1>2, <1>3, <1>10, <2>1, <2>2 DEF HandleFinalized, Relied
<1>11. CASE \E a \in Anchors : LoadRemote(a)
  BY Zenon, <1>1, <1>2, <1>3, <1>11 DEF LoadRemote, Relied
<1>12. CASE StoreBlocks \/ StoreSidecars
  BY Zenon, <1>4, <1>12 DEF StoreBlocks, StoreSidecars, node
<1>13. CASE VerifyBlock \/ WriteFails \/ HandleBackSync
  BY Zenon, <1>4, <1>13 DEF VerifyBlock, WriteFails, HandleBackSync, disk, node
<1>14. CASE \E r \in sent : \E a \in Answers(r) : Answer(r, a)
  BY Zenon, <1>4, <1>14 DEF Answer, disk, node
<1>15. CASE CheckTerminus
  <2>1. records' = records
    BY Zenon, <1>1, <1>15 DEF CheckTerminus
  <2> QED
    BY Zenon, <1>4, <1>15, <2>1 DEF CheckTerminus, node
<1>16. CASE SaveProgress
  <2>1. task.step = "save" /\ records' = Save(Advanced, records) /\ records \subseteq Data
    BY Zenon, <1>16 DEF SaveProgress, TypeOK
  <2>2. Relied(c)
    BY Zenon, <1>1, <1>16 DEF SaveProgress, Relied, node, Oldest
  <2>3. ASSUME NEW r \in records, r.low.slot <= SlotOf[c], SlotOf[c] < SlotOf[r.current]
        PROVE  Held(c) \/ Recorded(c)'
    <3>1. CASE r.low.slot # Advanced.low.slot
      BY Zenon, <2>1, <2>3, <3>1, VerifiedIsHeld, SavedData DEF Recorded
    <3>2. CASE r.low.slot = Advanced.low.slot /\ SlotOf[c] < SlotOf[task.reached]
      BY Zenon, <2>1, <2>3, <3>2, VerifiedIsHeld, SavedData DEF Recorded
    <3>3. CASE SlotOf[task.reached] <= SlotOf[c] /\ SlotOf[c] < SlotOf[task.sync.current]
      BY Zenon, <1>2, <2>1, <3>3, VerifiedIsHeld
    <3>4. CASE r.low.slot = Advanced.low.slot /\ SlotOf[task.sync.current] <= SlotOf[c]
      BY Zenon, <1>2, <2>1, <2>3, <3>4, VerifiedIsHeld DEF Ahead
    <3> QED
      BY <1>2, <2>1, <3>1, <3>2, <3>3, <3>4, VerifiedIsHeld
  <2> QED
    BY Zenon, <1>2, <2>2, <2>3 DEF Covered, Recorded
<1>17. CASE HandleArchived
  <2>1. sync # None /\ Finished(sync) /\ sync \in Data /\ sync \in Carried
    BY Zenon, <1>17 DEF HandleArchived, Ownership, TypeOK, Carried
  <2>2. records' = Remove(sync, records) /\ records \subseteq Data
    BY Zenon, <1>17, <2>1 DEF HandleArchived, Finish, TypeOK
  <2>3. Relied(c)
    BY Zenon, <1>1, <1>17 DEF HandleArchived, Relied, node, Oldest
  <2>4. ASSUME NEW r \in records, r.low.slot <= SlotOf[c], SlotOf[c] < SlotOf[r.current]
        PROVE  Held(c) \/ Recorded(c)'
    <3>1. CASE r.low.slot # sync.low.slot
      BY Zenon, <2>1, <2>2, <2>4, <3>1, SavedData DEF Recorded
    <3>2. CASE r.low.slot = sync.low.slot
      <4>1. SlotOf[sync.current] <= SlotOf[c]
        BY <1>2, <2>1, <2>4, <3>2, DataFields, Constants DEF Finished, Oldest
      <4> QED
        BY Zenon, <1>2, <2>1, <2>4, <3>2, <4>1 DEF Ahead
    <3> QED
      BY Zenon, <3>1, <3>2
  <2> QED
    BY Zenon, <1>2, <2>3, <2>4 DEF Covered, Recorded
<1> QED
  BY Zenon, <1>5, <1>6, <1>7, <1>8, <1>9, <1>10, <1>11, <1>12, <1>13, <1>14, <1>15, <1>16, <1>17,
     StillSteps

-----------------------------------------------------------------------------
\* How a step changes the back-syncs and the checkpoints around them.  It keeps
\* some of them, takes up the one that Data::find returns, or lets finalization
\* or a checkpoint sync move on.
Settled ==
  /\ finalized' = finalized /\ older' = older
  /\ latest' = latest \/ (finalized # None /\ latest' = finalized)

Keeps == records' \subseteq records /\ Carried' \subseteq Carried /\ Settled

TakesUp ==
  /\ records' \subseteq records /\ Settled
  /\ \E d \in records :
       Carried' \subseteq {d} /\ \A r \in records' : r.low.slot <= d.low.slot

MovesOn ==
  /\ records' = records /\ Carried' = Carried /\ latest' = latest
  /\ finalized' # None
  /\ ~older' => ~older /\ (finalized # None => SlotOf[finalized] <= SlotOf[finalized'])

\* The effects of a step on the back-sync at hand.
LEMMA Moves ==
  ASSUME TypeOK, Ownership, OnChain, [Next]_vars
  PROVE  Keeps \/ TakesUp \/ MovesOn \/ Plan \/ SaveProgress \/ WriteFails
<1>1. CASE Still
  BY Zenon, <1>1 DEF Still, Keeps, Settled, Carried
<1>2. CASE Run
  <2>1. task.sync = None /\ task' = task /\ records' = records
    BY Zenon, <1>2 DEF Run, Ownership
  <2>2. Settled
    BY Zenon, <1>2 DEF Run, Settled, TypeOK
  <2>3. CASE sync' = None
    BY Zenon, <2>1, <2>2, <2>3 DEF Keeps, Carried
  <2>4. CASE sync' \in records /\ \A r \in records : r.low.slot <= sync'.low.slot
    BY Zenon, <2>1, <2>2, <2>4 DEF TakesUp, Carried
  <2> QED
    BY Zenon, <1>2, <2>3, <2>4 DEF Run, Found
<1>3. CASE Crash
  BY Zenon, <1>3 DEF Crash, Keeps, Settled, Carried, disk, Idle
<1>4. CASE HandleFinalized
  <2>1. message = finalized /\ finalized # None
    BY Zenon, <1>4 DEF HandleFinalized, OnChain
  <2> QED
    BY Zenon, <1>4, <2>1 DEF HandleFinalized, Keeps, Settled, Carried, node
<1>5. CASE VerifyBlock
  <2>1. task'.sync = task.sync
    BY Zenon, <1>5, Verified DEF TypeOK
  <2> QED
    BY Zenon, <1>5, <2>1 DEF VerifyBlock, Keeps, Settled, Carried, disk, node
<1>6. CASE StoreBlocks \/ StoreSidecars
  <2>1. task'.sync = task.sync
    BY Zenon, <1>6, TaskForms DEF StoreBlocks, StoreSidecars, TypeOK
  <2> QED
    BY Zenon, <1>6, <2>1 DEF StoreBlocks, StoreSidecars, Keeps, Settled, Carried, node
<1>7. CASE HandleBackSync
  BY Zenon, <1>7 DEF HandleBackSync, Keeps, Settled, Carried, Idle, disk, node
<1>8. ASSUME NEW r \in sent, NEW a \in Answers(r), Answer(r, a) PROVE Keeps
  <2>1. Push(a) \in Batch
    BY Zenon, <1>8, Pushed DEF TypeOK
  <2>2. \/ sync' = sync /\ task' = task
        \/ sync' = None /\ task'.sync = sync
    BY Zenon, <1>8, <2>1, Checked DEF Answer
  <2> QED
    BY Zenon, <1>8, <2>2 DEF Answer, Keeps, Settled, Carried, disk, node
<1>9. CASE CheckTerminus
  <2>1. Walking
    BY Zenon, <1>9 DEF CheckTerminus, Walking
  <2>2. /\ sync = None /\ sync' = None /\ Settled
        /\ task \in Task /\ records \subseteq Data
    BY Zenon, <1>9, <2>1, WalkingTask DEF CheckTerminus, Settled, node, TypeOK
  <2>3. CASE task' = Proceed("blocks") /\ records' = records
    <3>1. task'.sync = task.sync
      BY Zenon, <2>2, <2>3, TaskForms
    <3> QED
      BY Zenon, <2>2, <2>3, <3>1 DEF Keeps, Carried
  <2>4. ASSUME NEW next \in records' \cup {None}, Found(next, records'), task' = Reply(next),
               records' = Remove(task.sync, records)
        PROVE  Keeps \/ TakesUp
    <3>1. records' \subseteq records /\ next \in Data \cup {None}
      BY Zenon, <2>2, <2>4 DEF Remove
    <3>2. Carried' \subseteq {next} \ {None}
      BY Zenon, <2>2, <2>4, <3>1, TaskForms DEF Carried
    <3> QED
      BY Zenon, <2>2, <2>4, <3>1, <3>2 DEF Found, Keeps, TakesUp
  <2> QED
    BY Zenon, <1>9, <2>3, <2>4 DEF CheckTerminus
<1>10. CASE HandleArchived
  <2>1. archiver # "idle" /\ sync # None /\ task.sync = None /\ task' = task /\ Settled
    BY Zenon, <1>10 DEF HandleArchived, Ownership, Settled, node
  <2>2. Finish
    BY Zenon, <1>10, <2>1 DEF HandleArchived
  <2>3. records' \subseteq records
    BY Zenon, <2>2 DEF Finish, Remove
  <2>4. CASE sync' = sync
    BY Zenon, <2>1, <2>3, <2>4 DEF Keeps, Carried
  <2>5. ASSUME NEW next \in records', Found(next, records'), sync' = next
        PROVE  TakesUp
    BY Zenon, <2>1, <2>3, <2>5 DEF Found, TakesUp, Carried
  <2> QED
    BY Zenon, <2>2, <2>4, <2>5 DEF Finish, CloseBackSync
<1>11. CASE Finalize
  <2>1. PICK c \in Chain : c # Genesis /\ Parent[c] = finalized /\ finalized' = c
    BY Zenon, <1>11 DEF Finalize
  <2>2. SlotOf[finalized] <= SlotOf[c]
    BY <2>1, ChainAssumption, Slots
  <2>3. c # None
    BY Zenon, Constants
  <2> QED
    BY Zenon, <1>11, <2>1, <2>2, <2>3 DEF Finalize, MovesOn, Carried, node
<1>12. ASSUME NEW a \in Anchors, LoadRemote(a) PROVE MovesOn
  <2>1. a # None /\ a \in Chain
    BY Zenon, Constants
  <2>2. ASSUME ~older' PROVE ~older /\ (finalized # None => SlotOf[finalized] <= SlotOf[a])
    <3>1. ~older /\ (finalized # None => ~(SlotOf[a] < SlotOf[finalized]))
      BY Zenon, <1>12, <2>2 DEF LoadRemote
    <3> QED
      BY <2>1, <3>1, Slots DEF TypeOK
  <2> QED
    BY Zenon, <1>12, <2>1, <2>2 DEF LoadRemote, MovesOn, Carried
<1> QED
  BY Zenon, <1>1, <1>2, <1>3, <1>4, <1>5, <1>6, <1>7, <1>8, <1>9, <1>10, <1>11, <1>12, StillSteps

\* A save, whether or not it reaches the database, moves one record down.
LEMMA AdvanceOf ==
  ASSUME TypeOK, Ownership, OnChain, Walked, SaveProgress \/ WriteFails
  PROVE  /\ Settled /\ latest' = latest
         /\ task.sync \in Carried /\ task.sync \in Data /\ Advanced \in Data
         /\ Advanced.high = task.sync.high /\ Advanced.low = task.sync.low
         /\ SlotOf[Advanced.current] <= SlotOf[task.sync.current]
         /\ Carried' \subseteq {task.sync, Advanced}
         /\ records' \subseteq records \cup {Advanced}
<1>1. Walking
  BY Zenon DEF SaveProgress, WriteFails, Walking
<1>2. /\ task.sync \in Carried /\ task.sync \in Data /\ Advanced \in Data /\ sync = None
      /\ Advanced.high = task.sync.high /\ Advanced.low = task.sync.low
      /\ Advanced.current = task.reached /\ task \in Task
  BY Zenon, <1>1, WalkingTask, TaskAdvanced DEF TypeOK
<1>3. task' = Reply(Advanced) \/ task' = Reply(task.sync)
  BY Zenon DEF SaveProgress, WriteFails
<1>4. task'.sync \in {task.sync, Advanced}
  <2>1. \A d \in Data : Reply(d).sync = d
    BY Zenon, <1>2, TaskForms
  <2> QED
    BY Zenon, <1>2, <1>3, <2>1
<1>5. /\ Settled /\ latest' = latest /\ sync' = sync
      /\ records' \subseteq records \cup {Advanced}
  BY Zenon DEF SaveProgress, WriteFails, Settled, Save, disk, node
<1> QED
  BY Zenon, <1>1, <1>2, <1>4, <1>5 DEF Carried, Walked

\* The back-sync that a checkpoint sync plans, if it is not finished already.
LEMMA PlanOf ==
  ASSUME TypeOK, Ownership, Plan
  PROVE  /\ Settled /\ latest' = latest /\ Carried' = {} /\ finalized # None
         /\ \/ records' = records
            \/ /\ records' = Save(BackSyncFromAnchor, records)
               /\ Proper(BackSyncFromAnchor)
               /\ BackSyncFromAnchor.high = finalized
               /\ BackSyncFromAnchor.low = BackSyncTerminus
               /\ BackSyncFromAnchor \in Data
<1> DEFINE e == BackSyncFromAnchor
<1>1. Settled /\ latest' = latest /\ Carried' = {} /\ finalized # None
  BY Zenon DEF Plan, Settled, Ownership, Carried, TypeOK
<1>2. /\ e \in Data /\ e.current = finalized /\ e.high = finalized /\ e.low = BackSyncTerminus
  BY Zenon, <1>1, Planned
<1>3. SlotOf[finalized] \in Nat /\ e.low.slot \in Nat
  BY Zenon, <1>2, DataFields
<1>4. records' = records \/ (records' = Save(e, records) /\ ~Finished(e))
  BY Zenon DEF Plan
<1> HIDE DEF e
<1>5. ASSUME ~Finished(e) PROVE Proper(e)
  BY <1>2, <1>3, <1>5, Constants DEF Finished, Proper, Oldest
<1> QED
  BY Zenon, <1>1, <1>2, <1>4, <1>5 DEF e

\* Every step keeps the ends of a record in order.
LEMMA InOrderStep ==
  ASSUME TypeOK, Ownership, OnChain, Walked, InOrder, [Next]_vars
  PROVE  InOrder'
<1>1. SUFFICES ASSUME NEW d \in (records \cup Carried)' PROVE Proper(d)
  <2>1. Oldest' = Oldest
    <3>1. archive' = archive
      BY Zenon, Monotone
    <3> QED
      BY Zenon, <3>1 DEF Oldest
  <2> QED
    BY Zenon, <2>1 DEF InOrder, Proper
<1>2. CASE d \in records \cup Carried
  BY Zenon, <1>2 DEF InOrder
<1>3. CASE Keeps \/ TakesUp \/ MovesOn
  BY Zenon, <1>2, <1>3 DEF Keeps, TakesUp, MovesOn
<1>4. CASE Plan
  BY Zenon, <1>2, <1>4, PlanOf DEF Save
<1>5. CASE SaveProgress \/ WriteFails
  <2>1. Proper(task.sync)
    BY Zenon, <1>5, AdvanceOf DEF InOrder
  <2>2. Proper(Advanced)
    BY <1>5, <2>1, AdvanceOf, DataFields DEF Proper
  <2> QED
    BY Zenon, <1>2, <1>5, <2>2, AdvanceOf
<1> QED
  BY Zenon, <1>3, <1>4, <1>5, Moves

\* Every step keeps the records one below the other.
LEMMA StackedStep ==
  ASSUME TypeOK, Ownership, OnChain, Walked, InOrder, Stacked, [Next]_vars
  PROVE  Stacked'
<1>1. SUFFICES ASSUME ~older'
               PROVE  /\ \A d \in (records \cup Carried)' :
                           /\ finalized' # None /\ SlotOf[d.high] <= SlotOf[finalized']
                           /\ Joined(d)'
                      /\ \A r, s \in records' :
                           r.low.slot < s.low.slot => SlotOf[r.high] <= SlotOf[s.high]
                      /\ \A d \in Carried', r \in records' :
                           r.low.slot <= d.low.slot /\ SlotOf[r.high] <= SlotOf[d.high]
  BY Zenon DEF Stacked
<1>2. ~older
  BY Zenon, <1>1, Moves, PlanOf, AdvanceOf DEF Keeps, TakesUp, MovesOn, Settled
<1>3. /\ \A d \in records \cup Carried :
           finalized # None /\ SlotOf[d.high] <= SlotOf[finalized] /\ Joined(d)
      /\ \A r, s \in records : r.low.slot < s.low.slot => SlotOf[r.high] <= SlotOf[s.high]
      /\ \A d \in Carried, r \in records :
           r.low.slot <= d.low.slot /\ SlotOf[r.high] <= SlotOf[d.high]
  BY Zenon, <1>2 DEF Stacked
<1>4. /\ records \subseteq Data /\ Carried \subseteq Data /\ archive' = archive
      /\ finalized # None => SlotOf[finalized] \in Nat
      /\ finalized' # None => SlotOf[finalized'] \in Nat
      /\ latest # None => SlotOf[latest] \in Nat
  <2>1. finalized' \in Chain \cup {None}
    BY Zenon, TypeStep DEF TypeOK
  <2> QED
    BY Zenon, <2>1, Monotone, Slots DEF TypeOK, Task, Carried
\* What a back-sync ends at, if the checkpoint of the next one stays or is the
\* finalized block.
<1>5. ASSUME NEW d \in records \cup Carried, Settled \/ latest' = latest
      PROVE  Joined(d)'
  <2>1. CASE latest' = latest
    <3>1. BackSyncTerminus' = BackSyncTerminus
      BY Zenon, <1>4, <2>1 DEF BackSyncTerminus
    <3> QED
      BY Zenon, <1>3, <2>1, <3>1 DEF Joined
  <2>2. CASE finalized # None /\ latest' = finalized
    <3>1. d.low.slot < SlotOf[d.high] /\ SlotOf[d.high] <= SlotOf[finalized]
      BY Zenon, <1>3 DEF InOrder, Proper
    <3>2. d.low.slot <= SlotOf[finalized]
      BY <1>4, <2>2, <3>1, DataFields
    <3> QED
      BY Zenon, <2>2, <3>1, <3>2 DEF Joined
  <2> QED
    BY Zenon, <1>5, <2>1, <2>2 DEF Settled
<1>6. CASE Keeps
  BY Zenon, <1>3, <1>5, <1>6 DEF Keeps, Settled
<1>7. CASE TakesUp
  <2>1. PICK d \in records :
          Carried' \subseteq {d} /\ \A r \in records' : r.low.slot <= d.low.slot
    BY Zenon, <1>7 DEF TakesUp
  <2>2. records' \subseteq records /\ Settled
    BY Zenon, <1>7 DEF TakesUp
  <2>3. ASSUME NEW r \in records' PROVE SlotOf[r.high] <= SlotOf[d.high]
    <3>1. CASE r.low.slot = d.low.slot
      <4>1. r = d
        BY Zenon, <2>2, <2>3, <3>1 DEF OnChain
      <4> QED
        BY <1>4, <4>1, DataFields
    <3>2. CASE r.low.slot < d.low.slot
      BY Zenon, <1>3, <2>2, <2>3, <3>2
    <3> QED
      BY <1>4, <2>1, <2>2, <2>3, <3>1, <3>2, DataFields
  <2> QED
    BY Zenon, <1>3, <1>5, <2>1, <2>2, <2>3 DEF Settled
<1>8. CASE MovesOn
  <2>1. ASSUME NEW d \in records \cup Carried PROVE SlotOf[d.high] <= SlotOf[finalized']
    <3>1. /\ finalized # None /\ SlotOf[d.high] <= SlotOf[finalized]
          /\ SlotOf[finalized] <= SlotOf[finalized'] /\ finalized' # None
      BY Zenon, <1>1, <1>3, <1>8, <2>1 DEF MovesOn
    <3>2. d \in Data
      BY Zenon, <1>4, <2>1
    <3> QED
      BY <1>4, <3>1, <3>2, DataFields
  <2> QED
    BY Zenon, <1>3, <1>5, <1>8, <2>1 DEF MovesOn
<1>9. CASE Plan
  <2>0. PICK e : e = BackSyncFromAnchor
    BY Zenon
  <2>1. Settled /\ latest' = latest /\ Carried' = {} /\ finalized # None
    BY Zenon, <1>9, PlanOf
  <2>2. CASE records' = records
    BY Zenon, <1>3, <1>5, <2>1, <2>2 DEF Settled
  <2>3. CASE /\ records' = Save(e, records) /\ Proper(e) /\ e.high = finalized
             /\ e.low = BackSyncTerminus /\ e \in Data
    <3>1. BackSyncTerminus' = BackSyncTerminus
      BY Zenon, <1>4, <2>1 DEF BackSyncTerminus
    <3>2. latest # None => e.low.slot = SlotOf[latest]
      BY <2>3 DEF BackSyncTerminus
    <3>3. Joined(e)'
      BY <1>4, <2>1, <2>3, <3>1, <3>2, DataFields DEF Joined
    <3>4. SlotOf[e.high] <= SlotOf[finalized]
      BY <1>4, <2>1, <2>3
    <3>5. \A r \in records' : r = e \/ (r \in records /\ r.low.slot # e.low.slot)
      BY Zenon, <1>4, <2>3, SavedData
    <3>6. ASSUME NEW r \in records, r.low.slot # e.low.slot
          PROVE  r.low.slot < e.low.slot /\ SlotOf[r.high] <= SlotOf[e.high]
      <4>1. r \in Data /\ Joined(r)
        BY Zenon, <1>3, <1>4, <3>6
      <4>2. latest # None /\ r.low.slot <= SlotOf[latest]
            /\ (r.low.slot < SlotOf[latest] => SlotOf[r.high] <= SlotOf[latest])
        BY Zenon, <2>3, <3>6, <4>1 DEF Joined
      <4>3. r.low.slot < e.low.slot /\ SlotOf[r.high] <= e.low.slot
        BY <1>4, <3>2, <3>6, <4>1, <4>2, DataFields
      <4>4. e.low.slot < SlotOf[e.high]
        BY Zenon, <2>3 DEF Proper
      <4> QED
        BY <2>3, <4>1, <4>3, <4>4, DataFields
    <3>7. ASSUME NEW r \in records', NEW s \in records', r.low.slot < s.low.slot
          PROVE  SlotOf[r.high] <= SlotOf[s.high]
      <4>1. r \in Data /\ s \in Data
        BY Zenon, <1>4, <2>3, <3>5
      <4>2. CASE r \in records /\ s \in records
        BY Zenon, <1>3, <3>7, <4>2
      <4>3. CASE s = e
        BY <3>5, <3>6, <3>7, <4>1, <4>3, DataFields
      <4>4. CASE r = e /\ s # e
        BY <3>5, <3>6, <3>7, <4>1, <4>4, DataFields
      <4> QED
        BY Zenon, <3>5, <4>2, <4>3, <4>4
    <3> QED
      BY Zenon, <1>3, <1>5, <2>1, <3>3, <3>4, <3>5, <3>7 DEF Settled
  <2> QED
    BY Zenon, <1>9, <2>0, <2>2, <2>3, PlanOf
<1>10. CASE SaveProgress \/ WriteFails
  <2>0. PICK t, p : t = task.sync /\ p = Advanced
    BY Zenon
  <2>1. /\ Settled /\ latest' = latest
        /\ t \in Carried /\ t \in Data /\ p \in Data
        /\ p.high = t.high /\ p.low = t.low
        /\ Carried' \subseteq {t, p}
        /\ records' \subseteq records \cup {p}
    BY Zenon, <1>10, <2>0, AdvanceOf
  <2>2. Joined(p)'
    <3>1. Joined(t)'
      BY Zenon, <1>5, <2>1
    <3> QED
      BY Zenon, <2>1, <3>1 DEF Joined
  <2>3. ASSUME NEW r \in records'
        PROVE  r.low.slot <= t.low.slot /\ SlotOf[r.high] <= SlotOf[t.high]
    <3>1. CASE r \in records
      BY Zenon, <1>3, <2>1, <3>1
    <3>2. CASE r = p
      BY <2>1, <3>2, DataFields
    <3> QED
      BY Zenon, <2>1, <3>1, <3>2
  <2>4. ASSUME NEW r \in records', NEW s \in records', r.low.slot < s.low.slot
        PROVE  SlotOf[r.high] <= SlotOf[s.high]
    <3>1. CASE r \in records /\ s \in records
      BY Zenon, <1>3, <2>4, <3>1
    <3>2. CASE s = p
      BY Zenon, <2>1, <2>3, <3>2
    <3>3. CASE r = p /\ s \in records
      <4>1. s \in Data
        BY Zenon, <1>4, <3>3
      <4> QED
        BY <2>1, <2>3, <2>4, <3>3, <4>1, DataFields
    <3> QED
      BY Zenon, <2>1, <3>1, <3>2, <3>3
  <2> QED
    BY Zenon, <1>3, <1>5, <2>1, <2>2, <2>3, <2>4 DEF Settled
<1> QED
  BY Zenon, <1>6, <1>7, <1>8, <1>9, <1>10, Moves

-----------------------------------------------------------------------------
\* Above the part that the back-sync in memory has done there is nothing left
\* to do: what is recorded apart from it is older.
LEMMA HeldAbove ==
  ASSUME IInv, InOrder, Stacked, stage = "running", excuses = {}, ~older, NEW d \in Carried
  PROVE  HeldFrom(SlotOf[d.current], SlotOf[finalized])
<1>1. SUFFICES ASSUME NEW c \in Chain, SlotOf[d.current] <= SlotOf[c],
                      SlotOf[c] <= SlotOf[finalized]
               PROVE  Held(c)
  BY Zenon DEF HeldFrom
<1>2. /\ d \in Data /\ records \subseteq Data /\ finalized # None
      /\ SlotOf[c] \in Nat /\ Oldest \in Nat
  BY Zenon, Slots, Constants DEF IInv, TypeOK, Task, Carried, Oldest
<1>3. CASE SlotOf[c] <= SlotOf[d.high]
  BY Zenon, <1>1, <1>3 DEF IInv, Done, HeldFrom
<1>4. CASE SlotOf[d.high] < SlotOf[c]
  <2>1. Oldest < SlotOf[d.high]
    BY Zenon DEF InOrder, Proper
  <2>2. Oldest <= SlotOf[c]
    BY <1>2, <1>4, <2>1, DataFields
  <2>3. Held(c) \/ Recorded(c)
    BY Zenon, <1>1, <1>2, <2>2 DEF IInv, Covered, Relied
  <2>4. ASSUME NEW r \in records, SlotOf[c] < SlotOf[r.current] PROVE FALSE
    <3>1. SlotOf[r.current] <= SlotOf[r.high] /\ SlotOf[r.high] <= SlotOf[d.high]
      BY Zenon DEF InOrder, Proper, Stacked
    <3>2. r \in Data
      BY Zenon, <1>2
    <3> QED
      BY <1>2, <1>4, <2>4, <3>1, <3>2, DataFields
  <2> QED
    BY Zenon, <2>3, <2>4 DEF Recorded
<1> QED
  BY <1>2, <1>3, <1>4, DataFields

\* The steps that announce another slot or move the finalized block; any other
\* step of a node that runs leaves both.
LEMMA Announces ==
  ASSUME TypeOK, Ownership, [Next]_vars, stage' = "running"
  PROVE  \/ Run \/ Finalize
         \/ /\ UNCHANGED <<stage, finalized, older>>
            /\ \/ earliest' = earliest
               \/ sync # None /\ earliest' = SlotOf[sync.current]
<1>1. ASSUME NEW a \in Anchors, LoadRemote(a) PROVE FALSE
  BY Zenon, <1>1 DEF LoadRemote
<1>2. CASE LoadLocal \/ Plan \/ Crash
  BY Zenon, <1>2 DEF LoadLocal, Plan, Crash
<1>3. CASE HandleFinalized \/ FallBehind \/ CatchUp \/ ForwardFinished \/ ArchiverFinishes
  BY Zenon, <1>3 DEF HandleFinalized, FallBehind, CatchUp, ForwardFinished, ArchiverFinishes,
                     disk, node
<1>4. CASE VerifyBlock \/ WriteFails \/ HandleBackSync
  BY Zenon, <1>4 DEF VerifyBlock, WriteFails, HandleBackSync, disk, node
<1>5. CASE CheckTerminus \/ StoreBlocks \/ StoreSidecars \/ SaveProgress
  BY Zenon, <1>5 DEF CheckTerminus, StoreBlocks, StoreSidecars, SaveProgress, node
<1>6. CASE HandleArchived
  BY Zenon, <1>6 DEF HandleArchived, Finish, node
<1>7. ASSUME NEW n \in 0..MaxBatches, RequestData(n)
      PROVE  UNCHANGED <<stage, finalized, older, earliest>>
  BY Zenon, <1>7 DEF RequestData, disk, node
<1>8. ASSUME NEW due \in SUBSET delayed, Interval(due)
      PROVE  /\ UNCHANGED <<stage, finalized, older>>
             /\ earliest' = earliest \/ (sync # None /\ earliest' = SlotOf[sync.current])
  BY Zenon, <1>8 DEF Interval, disk, node
<1>9. ASSUME NEW r \in sent, NEW a \in Answers(r), Answer(r, a)
      PROVE  UNCHANGED <<stage, finalized, older, earliest>>
  BY Zenon, <1>9 DEF Answer, disk, node
<1>10. ASSUME NEW r \in sent, NEW retry \in BOOLEAN, Expire(r, retry)
       PROVE  UNCHANGED <<stage, finalized, older, earliest>>
  BY Zenon, <1>10 DEF Expire, disk, node
<1>11. ASSUME NEW r \in late, NEW a \in Answers(r), LateAnswer(r, a)
       PROVE  UNCHANGED <<stage, finalized, older, earliest>>
  BY Zenon, <1>11 DEF LateAnswer, disk, node
<1>12. CASE UNCHANGED vars
  BY Zenon, <1>12 DEF vars, disk, node
<1> QED
  BY Zenon, <1>1, <1>2, <1>3, <1>4, <1>5, <1>6, <1>7, <1>8, <1>9, <1>10, <1>11, <1>12
     DEF Next, Start, Around, TaskStep, End

\* Every step keeps the announced slot true.
LEMMA EarliestStep ==
  ASSUME IInv, InOrder, Stacked, EarliestIsHeld, [Next]_vars
  PROVE  EarliestIsHeld'
<1>1. SUFFICES ASSUME stage' = "running", excuses' = {}, ~older', NEW c \in Chain,
                      earliest' <= SlotOf[c], SlotOf[c] <= SlotOf[finalized']
               PROVE  Held(c)'
  BY Zenon DEF EarliestIsHeld, HeldFrom
<1>2. excuses = {} /\ (Held(c) => Held(c)') /\ SlotOf[c] \in Nat
  BY Zenon, <1>1, Monotone, Slots DEF IInv
<1>3. CASE Run
  <2>1. /\ finalized \in Chain /\ Held(finalized) /\ finalized' = finalized
        /\ earliest' = SlotOf[finalized]
    BY Zenon, <1>3 DEF Run, AnchorSlot, IInv, TypeOK, OnChain
  <2>2. c = finalized
    BY <1>1, <1>2, <2>1, Slots, ChainAssumption
  <2> QED
    BY Zenon, <1>2, <2>1, <2>2
<1>4. CASE Finalize
  <2>1. PICK b \in Chain : /\ b # Genesis /\ Parent[b] = finalized /\ finalized' = b
                           /\ stored' = stored \cup {b}
                           /\ sidecars' = sidecars \cup ({b} \cap WithData)
    BY Zenon, <1>4 DEF Finalize
  <2>2. stage = "running" /\ ~older /\ earliest' = earliest
    BY Zenon, <1>1, <1>4 DEF Finalize, node
  <2>3. CASE SlotOf[c] = SlotOf[b]
    <3>1. c = b
      BY Zenon, <2>1, <2>3, ChainAssumption
    <3> QED
      BY Zenon, <2>1, <3>1 DEF Held
  <2>4. CASE SlotOf[c] < SlotOf[b]
    <3>1. SlotOf[c] <= SlotOf[finalized]
      BY Zenon, <2>1, <2>4, ChainAssumption
    <3> QED
      BY Zenon, <1>1, <1>2, <2>2, <3>1 DEF EarliestIsHeld, HeldFrom
  <2>5. SlotOf[c] <= SlotOf[b] /\ SlotOf[b] \in Nat
    BY Zenon, <1>1, <2>1, Slots
  <2> QED
    BY <1>2, <2>3, <2>4, <2>5
<1>5. CASE UNCHANGED <<stage, finalized, older, earliest>>
  BY Zenon, <1>1, <1>2, <1>5 DEF EarliestIsHeld, HeldFrom
<1>6. CASE UNCHANGED <<stage, finalized, older>> /\ sync # None
           /\ earliest' = SlotOf[sync.current]
  <2>1. sync \in Carried
    BY Zenon, <1>6 DEF Carried
  <2>2. HeldFrom(SlotOf[sync.current], SlotOf[finalized])
    BY Zenon, <1>1, <1>2, <1>6, <2>1, HeldAbove
  <2> QED
    BY Zenon, <1>1, <1>2, <1>6, <2>2 DEF HeldFrom
<1> QED
  BY Zenon, <1>1, <1>3, <1>4, <1>5, <1>6, Announces DEF IInv

-----------------------------------------------------------------------------
\* A fresh database satisfies the invariant.
LEMMA InitIInv ==
  ASSUME Init
  PROVE  IInv
<1>1. /\ task = Idle /\ sync = None /\ records = {} /\ finalized = None /\ message = None
      /\ stage = "down" /\ delayed = {} /\ sent = {} /\ archiver = "idle" /\ backSynced = FALSE
      /\ excuses = {}
  BY Zenon DEF Init
<1>2. task.step = "idle" /\ task.sync = None /\ task.verified = {}
  BY Zenon, <1>1 DEF Idle
<1>3. stored \subseteq Blocks /\ sidecars \subseteq WithData /\ latest \in Blocks \cup {None}
  BY Zenon, BlocksAssumption DEF Init
<1>4. TypeOK
  <2>1. /\ archive \in BOOLEAN /\ remote \in BOOLEAN /\ synced \in BOOLEAN
        /\ forwarding \in BOOLEAN /\ forwardSynced \in BOOLEAN /\ backSynced \in BOOLEAN
        /\ batch \in Batch /\ task \in Task /\ late = {} /\ direction = "forward"
        /\ earliest = 0 /\ troubles = 0
    BY Zenon, Constants DEF Init
  <2>2. older \in BOOLEAN /\ told \in BOOLEAN /\ bare \subseteq WithData
    BY Zenon DEF Init
  <2> QED
    BY <1>1, <1>3, <2>1, <2>2, Constants DEF TypeOK
<1>5. Ownership
  BY Zenon, <1>1, <1>2 DEF Ownership, Walking
<1>6. OnChain /\ Downward /\ Walked /\ Ahead /\ Done
  BY Zenon, <1>1, <1>2 DEF OnChain, Downward, Walked, Ahead, Done, Walking, Carried
<1>7. ASSUME NEW c \in Chain, Relied(c) PROVE Held(c)
  <2>1. latest \in Previous /\ SlotOf[c] < SlotOf[latest]
    BY Zenon, <1>1, <1>7 DEF Relied, Init
  <2>2. SlotOf[c] <= SlotOf[Parent[latest]] /\ latest # None
    BY Zenon, <2>1, BlocksAssumption
  <2>3. c \in stored
    BY Zenon, <2>2 DEF Init
  <2> QED
    BY Zenon, <2>3 DEF Init, Held
<1> QED
  BY Zenon, <1>4, <1>5, <1>6, <1>7 DEF IInv, Covered

\* The whole invariant of back-sync holds in every reachable state: one owner
\* for a back-sync, memory never behind what the database records, and the
\* history in storage or still on record.
THEOREM Inductive == Spec => []IInv
<1>1. Init => IInv
  BY Zenon, InitIInv
<1>2. IInv /\ [Next]_vars => IInv'
  BY Zenon, TypeStep, OwnershipStep, OnChainStep, DownwardStep, WalkedStep, AheadStep, DoneStep, 
     CoveredStep DEF IInv
<1> QED
  BY <1>1, <1>2, PTL DEF Spec

\* The databases, the service and its task keep their types.
THEOREM TypeCorrect == Spec => []TypeOK
<1>1. IInv => TypeOK
  BY Zenon DEF IInv
<1> QED
  BY <1>1, Inductive, PTL

\* For every chain and any number of crashes, bad answers and failed writes: no
\* finalized block of the history that the storage mode asks for is forgotten by
\* both the storage and the sync database.  Its sidecars are in storage with it,
\* unless it is a checkpoint that came without them.
THEOREM NoHistoryIsLost == Spec => []HistoryIsCovered
<1>1. IInv => HistoryIsCovered
  BY Zenon DEF IInv, Covered, Relied, HistoryIsCovered
<1> QED
  BY <1>1, Inductive, PTL

Told == backSynced => told

\* A step that sets the is_back_synced of the service tells the controller.
LEMMA ToldStep == Told /\ [Next]_vars => Told'
<1> SUFFICES ASSUME Told, [Next]_vars PROVE Told'
  OBVIOUS
<1>1. CASE UNCHANGED vars
  BY Zenon, <1>1 DEF Told, vars, network, flags
<1>2. CASE Start \/ Crash
  BY Zenon, <1>2 DEF Told, Start, LoadRemote, LoadLocal, Plan, Run, Crash, network, flags
<1>3. CASE Around
  BY Zenon, <1>3 DEF Told, Around, Finalize, HandleFinalized, FallBehind, CatchUp,
     ForwardFinished, network, flags
<1>4. CASE TaskStep \/ WriteFails
  BY Zenon, <1>4 DEF Told, TaskStep, VerifyBlock, CheckTerminus, StoreBlocks, StoreSidecars,
     SaveProgress, WriteFails, network, flags
<1>5. CASE HandleBackSync \/ ArchiverFinishes
  BY Zenon, <1>5 DEF Told, HandleBackSync, ArchiverFinishes, network, flags
<1>6. CASE HandleArchived
  BY Zenon, <1>6 DEF Told, HandleArchived
<1>7. ASSUME NEW n \in 0..MaxBatches, RequestData(n) PROVE Told'
  BY Zenon, <1>7 DEF Told, RequestData, network
<1>8. ASSUME NEW due \in SUBSET delayed, Interval(due) PROVE Told'
  BY Zenon, <1>8 DEF Told, Interval, network, flags
<1>9. ASSUME NEW r \in sent, NEW a \in Answers(r), Answer(r, a) PROVE Told'
  BY Zenon, <1>9 DEF Told, Answer, network, flags
<1>10. ASSUME NEW r \in sent, NEW retry \in BOOLEAN, Expire(r, retry) PROVE Told'
  BY Zenon, <1>10 DEF Told, Expire, network, flags
<1>11. ASSUME NEW r \in late, NEW a \in Answers(r), LateAnswer(r, a) PROVE Told'
  BY Zenon, <1>11 DEF Told, LateAnswer, network, flags
<1> QED
  BY Zenon, <1>1, <1>2, <1>3, <1>4, <1>5, <1>6, <1>7, <1>8, <1>9, <1>10, <1>11
  DEF Next, End

\* The service sets its is_back_synced only when the history is complete, but for
\* the sidecars of checkpoints, and never without telling the controller.
THEOREM CompletionIsTrue == Spec => []BackSyncedIsComplete
<1>1. ASSUME IInv, Told PROVE BackSyncedIsComplete
  <2>1. SUFFICES ASSUME backSynced, excuses = {}, NEW c \in Chain,
                        Oldest <= SlotOf[c], SlotOf[c] <= SlotOf[finalized]
                 PROVE  Held(c)
    BY Zenon, <1>1 DEF BackSyncedIsComplete, HeldFrom, Told
  <2>2. stage = "running" /\ records = {}
    BY Zenon, <1>1, <2>1 DEF IInv, Ownership
  <2>3. finalized # None
    BY Zenon, <1>1, <2>2 DEF IInv, TypeOK
  <2>4. Relied(c)
    BY Zenon, <2>1, <2>2, <2>3 DEF Relied
  <2> QED
    BY Zenon, <1>1, <2>1, <2>2, <2>4 DEF IInv, Covered, Recorded
<1>2. Init => Told
  BY DEF Init, Told
<1> QED
  BY <1>1, <1>2, ToldStep, Inductive, PTL DEF Spec

\* The archiver of states only ever runs on a finished back-sync whose blocks are
\* all in storage, and its report finds that back-sync.
THEOREM ArchiverFindsHistory == Spec => []ArchivedIsComplete
<1>1. ASSUME IInv PROVE ArchivedIsComplete
  <2>1. SUFFICES ASSUME archiver # "idle"
                 PROVE  /\ sync # None /\ Finished(sync)
                        /\ excuses = {} =>
                             HeldFrom(IF sync.low.slot > Oldest THEN sync.low.slot ELSE Oldest,
                                      SlotOf[sync.high])
    BY Zenon DEF ArchivedIsComplete
  <2>2. sync # None /\ Finished(sync) /\ sync \in Data /\ sync \in Carried
    BY Zenon, <1>1, <2>1 DEF IInv, Ownership, TypeOK, Carried
  <2>3. ASSUME excuses = {}, NEW c \in Chain,
               (IF sync.low.slot > Oldest THEN sync.low.slot ELSE Oldest) <= SlotOf[c],
               SlotOf[c] <= SlotOf[sync.high]
        PROVE  Held(c)
    <3>1. SlotOf[sync.current] <= SlotOf[c]
      BY <2>2, <2>3, DataFields, Slots, Constants DEF Finished, Oldest
    <3> QED
      BY Zenon, <1>1, <2>2, <2>3, <3>1 DEF IInv, Done, HeldFrom
  <2> QED
    BY Zenon, <2>2, <2>3 DEF HeldFrom
<1> QED
  BY <1>1, Inductive, PTL

\* Peers are never told that a block is available which the node has yet to fetch,
\* however often it restarts from newer checkpoints: the back-sync that is carried
\* out is the one with the latest blocks, and all above its progress is in storage.
\* The sidecars of the checkpoint itself, the first slot announced, are excepted.
THEOREM AnnouncedIsHeld == Spec => []EarliestIsHeld
<1>1. Init => InOrder /\ Stacked /\ EarliestIsHeld
  <2>1. ASSUME Init PROVE records = {} /\ sync = None /\ task.sync = None /\ stage = "down"
    BY Zenon, <2>1 DEF Init, Idle
  <2> QED
    BY Zenon, <2>1 DEF InOrder, Stacked, EarliestIsHeld, Carried
<1>2. /\ IInv /\ InOrder /\ Stacked /\ EarliestIsHeld /\ [Next]_vars
      => InOrder' /\ Stacked' /\ EarliestIsHeld'
  BY Zenon, InOrderStep, StackedStep, EarliestStep DEF IInv
<1> QED
  BY <1>1, <1>2, Inductive, PTL DEF Spec

\* Whatever peers answer, every block a step puts into storage is on the chain
\* of the checkpoint; a block of slot 0 is so if the back-sync ends at our genesis
\* block, with which it is then compared.
THEOREM StorageIsCanonical == Spec => OnlyChainIsStored
<1> DEFINE Canonical == \A b \in stored' \ stored :
                         b \in Chain \/ (SlotOf[b] = 0 /\ task.sync.low.root # Genesis)
<1>1. ASSUME IInv, [Next]_vars PROVE Canonical
  <2>1. TypeOK /\ Ownership /\ OnChain /\ Downward
    BY Zenon, <1>1 DEF IInv
  <2>2. CASE \/ Still \/ Plan \/ Run \/ Crash \/ HandleFinalized \/ VerifyBlock \/ CheckTerminus
             \/ StoreSidecars \/ SaveProgress \/ WriteFails \/ HandleBackSync \/ HandleArchived
    <3>1. stored' = stored
      BY Zenon, <2>2 DEF Still, Plan, Run, Crash, HandleFinalized, VerifyBlock, CheckTerminus,
         StoreSidecars, SaveProgress, WriteFails, HandleBackSync, HandleArchived, disk
    <3> QED
      BY Zenon, <3>1
  <2>3. CASE StoreBlocks
    <3>1. /\ Walking /\ task.verified \subseteq Taken /\ stored' = stored \cup task.verified
          /\ ~Mismatch(task.sync, task.reached) /\ task.sync \in Data
          /\ \A b \in task.verified : SlotOf[b] = 0 => b = task.reached
      BY Zenon, <2>1, <2>3, WalkingTask DEF StoreBlocks, OnChain, Downward, Walking
    <3>2. ASSUME NEW b \in task.verified, SlotOf[b] = 0, task.sync.low.root = Genesis
          PROVE  b = Genesis
      <4>1. task.sync.low.slot = 0 /\ b = task.reached
        BY Zenon, <3>1, <3>2, DataFields, BlocksAssumption, ChainAssumption
      <4> QED
        BY Zenon, <3>1, <3>2, <4>1, BlocksAssumption DEF Mismatch
    <3> QED
      BY Zenon, <3>1, <3>2, BlocksAssumption DEF Taken
  <2>4. CASE Finalize
    BY Zenon, <2>4 DEF Finalize
  <2>5. CASE \E a \in Anchors : LoadRemote(a)
    BY Zenon, <2>5, Constants DEF LoadRemote
  <2>6. CASE \E r \in sent : \E a \in Answers(r) : Answer(r, a)
    BY Zenon, <2>6 DEF Answer, disk
  <2> QED
    BY Zenon, <1>1, <2>1, <2>2, <2>3, <2>4, <2>5, <2>6, StillSteps
<1>2. IInv /\ [Next]_vars => [Canonical]_vars
  BY Zenon, <1>1
<1> QED
  BY <1>2, Inductive, PTL DEF Spec, OnlyChainIsStored

\* Saved progress never goes back, over restarts and failed batches, except when
\* a new checkpoint sync plans the same back-sync anew.
THEOREM ProgressIsDurable == Spec => ProgressIsKept
<1> DEFINE Kept == \A r \in records, s \in records' :
                     r.low.slot = s.low.slot =>
                       SlotOf[s.current] <= SlotOf[r.current] \/ (stage = "loaded" /\ remote)
<1>1. ASSUME IInv, [Next]_vars PROVE Kept
  <2>1. /\ TypeOK /\ Ownership /\ OnChain /\ Walked /\ Ahead /\ records \subseteq Data
    BY Zenon, <1>1 DEF IInv, TypeOK
  <2>2. SUFFICES ASSUME NEW r \in records, NEW s \in records', r.low.slot = s.low.slot,
                        ~(stage = "loaded" /\ remote)
                 PROVE  SlotOf[s.current] <= SlotOf[r.current]
    BY Zenon
  <2>3. CASE s \in records
    <3>1. s = r
      BY Zenon, <2>1, <2>2, <2>3 DEF OnChain
    <3> QED
      BY <2>1, <3>1, DataFields
  <2>4. CASE Still \/ Familiar
    BY Zenon, <2>3, <2>4 DEF Still, Familiar
  <2>5. CASE Plan
    BY Zenon, <2>2, <2>3, <2>5 DEF Plan
  <2>6. CASE SaveProgress
    <3>1. s = Advanced \/ s \in records
      BY Zenon, <2>6 DEF SaveProgress, Save
    <3>2. CASE s = Advanced
      <4>1. /\ task.sync \in Carried /\ task.sync.low.slot = r.low.slot
            /\ s.current = task.reached /\ SlotOf[task.reached] \in Nat
            /\ SlotOf[task.sync.current] \in Nat
            /\ SlotOf[task.reached] <= SlotOf[task.sync.current]
        BY Zenon, <2>1, <2>2, <2>6, <3>2, VerifiedIsHeld DEF SaveProgress
      <4>2. SlotOf[task.sync.current] <= SlotOf[r.current] /\ SlotOf[r.current] \in Nat
        BY Zenon, <2>1, <4>1, DataFields DEF Ahead
      <4> QED
        BY <4>1, <4>2
    <3> QED
      BY Zenon, <2>3, <3>1, <3>2
  <2>7. CASE Finalize \/ HandleFinalized \/ WriteFails \/ \E a \in Anchors : LoadRemote(a)
    BY Zenon, <2>3, <2>7 DEF Finalize, HandleFinalized, WriteFails, LoadRemote, disk
  <2> QED
    BY Zenon, <1>1, <2>1, <2>4, <2>5, <2>6, <2>7, StillSteps, FamiliarSteps
<1>2. IInv /\ [Next]_vars => [Kept]_vars
  BY Zenon, <1>1
<1> QED
  BY <1>2, Inductive, PTL DEF Spec, ProgressIsKept

=============================================================================
