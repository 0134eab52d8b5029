-------------------------- MODULE PersistenceProofs --------------------------
(***************************************************************************)
(* Proofs about the thread pool, for any number of workers, tasks and      *)
(* clones, and about the persistence of sidecars and envelopes that runs   *)
(* on it, for any number of items, slots and failures of the database.     *)
(***************************************************************************)
EXTENDS Persistence, FiniteSetTheorems, TLAPS

(***************************************************************************)
(* The thread pool                                                         *)
(***************************************************************************)

Phases == {"locking", "waiting", "running", "resetting", "stopped"}

\* The types of all variables are preserved by every step of the pool.
THEOREM TypeCorrect == Spec => []TypeOK
<1>1. Init => TypeOK
  <2> SUFFICES ASSUME Init PROVE TypeOK
    OBVIOUS
  <2>1. high \in Seq(HighTasks) /\ mid \in Seq(MidTasks) /\ low \in Seq(LowTasks)
    BY DEF Init
  <2>2. phase \in [Workers -> Phases] /\ task \in [Workers -> Tasks \cup {None}]
    BY DEF Init, Phases
  <2> QED
    BY Zenon, <2>1, <2>2, PoolAssumption DEF Init, TypeOK, Phases
<1>2. TypeOK /\ [Next]_poolVars => TypeOK'
  <2> SUFFICES ASSUME TypeOK, [Next]_poolVars PROVE TypeOK'
    OBVIOUS
  <2> USE DEF TypeOK, queues, workers, callers, poolVars
  <2>1. CASE Spawn
    <3>1. notifying' \in Nat
      BY <2>1 DEF Spawn, SpawnHigh, SpawnMid, SpawnLow, TrySpawnExecutionProof, Spawned
    <3> DEFINE Typed == high' \in Seq(HighTasks) /\ mid' \in Seq(MidTasks) /\ low' \in Seq(LowTasks)
    <3>2. Typed
      <4>1. ASSUME NEW t \in HighTasks, SpawnHigh(t) PROVE Typed
        BY <4>1 DEF SpawnHigh
      <4>2. ASSUME NEW t \in MidTasks, SpawnMid(t) PROVE Typed
        BY <4>2 DEF SpawnMid
      <4>3. ASSUME NEW t \in LowTasks, SpawnLow(t) PROVE Typed
        BY <4>3 DEF SpawnLow
      <4> QED
        BY <2>1, <4>1, <4>2, <4>3 DEF Spawn, TrySpawnExecutionProof
    <3> QED
      BY <2>1, <3>1, <3>2 DEF Spawn, SpawnHigh, SpawnMid, SpawnLow, TrySpawnExecutionProof, Spawned
  <2>2. CASE NotifyOne
    BY <2>2 DEF NotifyOne
  <2>3. CASE DropHandle
    BY <2>3 DEF DropHandle
  <2>4. CASE NotifyAll
    BY <2>4 DEF NotifyAll
  <2>5. ASSUME NEW w \in Workers, Lock(w) PROVE TypeOK'
    <3>1. CASE Stop(w)
      BY <3>1 DEF Stop
    <3>2. CASE TakeHigh(w)
      <4>1. Head(high) \in Tasks /\ high' \in Seq(HighTasks)
        BY <3>2 DEF TakeHigh, Tasks
      <4> QED
        BY <3>2, <4>1 DEF TakeHigh, Takes
    <3>3. CASE TakeMid(w)
      <4>1. Head(mid) \in Tasks /\ mid' \in Seq(MidTasks)
        BY <3>3 DEF TakeMid, Tasks
      <4> QED
        BY <3>3, <4>1 DEF TakeMid, Takes
    <3>4. CASE TakeLow(w)
      <4>1. Head(low) \in Tasks /\ low' \in Seq(LowTasks)
        BY <3>4 DEF TakeLow, Tasks
      <4>2. persistenceRunning' \in BOOLEAN
        BY <3>4 DEF TakeLow
      <4> QED
        BY <3>4, <4>1, <4>2 DEF TakeLow, Takes
    <3>5. CASE DropLow(w)
      BY <3>5 DEF DropLow
    <3>6. CASE Wait(w)
      BY <3>6 DEF Wait
    <3> QED
      BY <2>5, <3>1, <3>2, <3>3, <3>4, <3>5, <3>6 DEF Lock
  <2>6. ASSUME NEW w \in Workers, Finish(w) PROVE TypeOK'
    BY Zenon, <2>6 DEF Finish
  <2>7. ASSUME NEW w \in Workers, Reset(w) PROVE TypeOK'
    BY Zenon, <2>7 DEF Reset
  <2>8. CASE UNCHANGED poolVars
    BY <2>8
  <2> QED
    BY <2>1, <2>2, <2>3, <2>4, <2>5, <2>6, <2>7, <2>8 DEF Next
<1> QED
  BY <1>1, <1>2, PTL DEF Spec

-----------------------------------------------------------------------------
\* A dropped clone's notify_all is still to come while a worker sleeps: Wait
\* needs `done` to be false, and drop sets it together with `stopping`.
THEOREM StopHeard == Spec => []StopIsHeard
<1>1. Init => StopIsHeard
  BY DEF Init, StopIsHeard
<1>2. TypeOK /\ StopIsHeard /\ [Next]_poolVars => StopIsHeard'
  <2> SUFFICES ASSUME TypeOK, StopIsHeard, [Next]_poolVars PROVE StopIsHeard'
    OBVIOUS
  <2> USE DEF TypeOK, StopIsHeard, queues, workers, callers, poolVars
  <2>1. CASE Spawn
    BY Zenon, <2>1 DEF Spawn, SpawnHigh, SpawnMid, SpawnLow, TrySpawnExecutionProof, Spawned
  <2>2. CASE NotifyOne
    BY <2>2 DEF NotifyOne
  <2>3. CASE DropHandle
    BY <2>3 DEF DropHandle
  <2>4. CASE NotifyAll
    BY <2>4 DEF NotifyAll
  <2>5. ASSUME NEW w \in Workers, Lock(w) PROVE StopIsHeard'
    BY Zenon, <2>5 DEF Lock, Stop, TakeHigh, TakeMid, TakeLow, Takes, DropLow, Wait
  <2>6. ASSUME NEW w \in Workers, Finish(w) PROVE StopIsHeard'
    BY <2>6 DEF Finish
  <2>7. ASSUME NEW w \in Workers, Reset(w) PROVE StopIsHeard'
    BY <2>7 DEF Reset
  <2>8. CASE UNCHANGED poolVars
    BY <2>8
  <2> QED
    BY Zenon, <2>1, <2>2, <2>3, <2>4, <2>5, <2>6, <2>7, <2>8 DEF Next
<1> QED
  BY <1>1, <1>2, TypeCorrect, PTL DEF Spec

-----------------------------------------------------------------------------
\* The flag and the workers agree after every step, and TakeLow, which alone
\* starts a persistence task, needs the flag to be unset.
THEOREM PersistenceIsExclusive == Spec => []OnePersistenceTask
<1>1. Init => OnePersistenceTask
  BY PoolAssumption DEF Init, OnePersistenceTask
<1>2. TypeOK /\ OnePersistenceTask /\ [Next]_poolVars => OnePersistenceTask'
  <2> SUFFICES ASSUME TypeOK, OnePersistenceTask, [Next]_poolVars PROVE OnePersistenceTask'
    OBVIOUS
  <2> USE PoolAssumption DEF TypeOK, OnePersistenceTask, queues, workers, callers, poolVars
  <2>1. CASE Spawn
    BY <2>1 DEF Spawn, SpawnHigh, SpawnMid, SpawnLow, TrySpawnExecutionProof, Spawned
  <2>2. CASE NotifyOne
    BY <2>2 DEF NotifyOne
  <2>3. CASE DropHandle
    BY <2>3 DEF DropHandle
  <2>4. CASE NotifyAll
    BY <2>4 DEF NotifyAll
  <2>5. ASSUME NEW w \in Workers, Lock(w) PROVE OnePersistenceTask'
    <3>1. CASE Stop(w)
      BY <3>1 DEF Stop
    <3>2. CASE TakeHigh(w)
      <4>1. Head(high) \in HighTasks
        BY <3>2 DEF TakeHigh
      <4> QED
        BY <3>2, <4>1 DEF TakeHigh, Takes
    <3>3. CASE TakeMid(w)
      <4>1. Head(mid) \in MidTasks
        BY <3>3 DEF TakeMid
      <4> QED
        BY <3>3, <4>1 DEF TakeMid, Takes
    <3>4. CASE TakeLow(w)
      <4>1. task[w] \notin PersistenceTasks
        BY <3>4 DEF TakeLow, Takes
      <4>2. task'[w] = Head(low) /\ phase'[w] = "running"
        BY <3>4 DEF TakeLow, Takes
      <4>3. \A v \in Workers \ {w} : task'[v] = task[v] /\ phase'[v] = phase[v]
        BY <3>4 DEF TakeLow, Takes
      <4>4. CASE Head(low) \in PersistenceTasks
        <5>1. \A v \in Workers : task[v] \notin PersistenceTasks
          BY <3>4, <4>4 DEF TakeLow
        <5>2. persistenceRunning' = TRUE
          BY Zenon, <3>4, <4>4 DEF TakeLow
        <5> QED
          BY <4>2, <4>3, <4>4, <5>1, <5>2
      <4>5. CASE Head(low) \notin PersistenceTasks
        <5>1. persistenceRunning' = persistenceRunning
          BY <3>4, <4>5 DEF TakeLow
        <5> QED
          BY <4>1, <4>2, <4>3, <4>5, <5>1
      <4> QED
        BY <4>4, <4>5
    <3>5. CASE DropLow(w)
      BY <3>5 DEF DropLow
    <3>6. CASE Wait(w)
      BY <3>6 DEF Wait
    <3> QED
      BY <2>5, <3>1, <3>2, <3>3, <3>4, <3>5, <3>6 DEF Lock
  <2>6. ASSUME NEW w \in Workers, Finish(w) PROVE OnePersistenceTask'
    <3>1. \A v \in Workers \ {w} : task'[v] = task[v] /\ phase'[v] = phase[v]
      BY <2>6 DEF Finish
    <3>2. CASE task[w] \in PersistenceTasks
      <4>1. task' = task /\ phase'[w] = "resetting" /\ persistenceRunning' = persistenceRunning
        BY <2>6, <3>2 DEF Finish
      <4> QED
        BY <3>1, <3>2, <4>1
    <3>3. CASE task[w] \notin PersistenceTasks
      <4>1. task'[w] = None /\ phase'[w] = "locking" /\ persistenceRunning' = persistenceRunning
        BY <2>6, <3>3 DEF Finish
      <4>2. None \notin PersistenceTasks
        OBVIOUS
      <4> QED
        BY Zenon, <3>1, <3>3, <4>1, <4>2
    <3> QED
      BY <3>2, <3>3
  <2>7. ASSUME NEW w \in Workers, Reset(w) PROVE OnePersistenceTask'
    <3>1. \A v \in Workers \ {w} : task'[v] = task[v] /\ phase'[v] = phase[v]
      BY <2>7 DEF Reset
    <3>2. task'[w] = None /\ phase'[w] = "locking" /\ persistenceRunning' = FALSE
      BY <2>7 DEF Reset
    <3>3. None \notin PersistenceTasks
      OBVIOUS
    <3>4. \A v \in Workers \ {w} : task[v] \notin PersistenceTasks
      BY <2>7 DEF Reset
    <3> QED
      BY <3>1, <3>2, <3>3, <3>4
  <2>8. CASE UNCHANGED poolVars
    BY <2>8
  <2> QED
    BY <2>1, <2>2, <2>3, <2>4, <2>5, <2>6, <2>7, <2>8 DEF Next
<1> QED
  BY <1>1, <1>2, TypeCorrect, PTL DEF Spec

-----------------------------------------------------------------------------
\* The workers about to lock the mutex, in an assignment of phases.
At(p) == {w \in Workers : p[w] = "locking"}

\* They are finitely many, because the pool has finitely many workers.
LEMMA AtFinite ==
  ASSUME NEW p
  PROVE  IsFiniteSet(At(p)) /\ Cardinality(At(p)) \in Nat
<1>1. At(p) \in SUBSET Workers
  BY DEF At
<1>2. IsFiniteSet(At(p))
  BY <1>1, FS_Subset, PoolAssumption
<1> QED
  BY <1>2, FS_CardinalityType

\* A worker that wakes up, or returns from a task, is one more of them.
LEMMA AtEnter ==
  ASSUME NEW p \in [Workers -> Phases], NEW w \in Workers, p[w] # "locking"
  PROVE  Cardinality(At([p EXCEPT ![w] = "locking"])) = Cardinality(At(p)) + 1
<1>1. At([p EXCEPT ![w] = "locking"]) = At(p) \cup {w}
  BY DEF At
<1>2. w \notin At(p)
  BY DEF At
<1> QED
  BY Zenon, <1>1, <1>2, AtFinite, FS_AddElement

\* A worker that takes a task or goes to sleep is one less.
LEMMA AtLeave ==
  ASSUME NEW p \in [Workers -> Phases], NEW w \in Workers, p[w] = "locking",
         NEW x \in Phases, x # "locking"
  PROVE  Cardinality(At([p EXCEPT ![w] = x])) = Cardinality(At(p)) - 1
<1>1. At([p EXCEPT ![w] = x]) = At(p) \ {w}
  BY DEF At
<1>2. w \in At(p)
  BY DEF At
<1> QED
  BY Zenon, <1>1, <1>2, AtFinite, FS_RemoveElement

\* No wakeup is lost.  The two sides of the inequality are compared over every
\* step: spawn adds a task and a notification, notify_one trades a notification
\* for a worker that looks at the queues, that worker removes a task, and Wait
\* needs the queues to be empty.
THEOREM NoLostWakeup == Spec => []WorkConserving
<1>1. Init => WorkConserving
  BY DEF Init, WorkConserving
<1>2. TypeOK /\ WorkConserving /\ [Next]_poolVars => WorkConserving'
  <2> SUFFICES ASSUME TypeOK, WorkConserving, [Next]_poolVars PROVE WorkConserving'
    OBVIOUS
  <2> DEFINE Total == Len(high) + Len(mid) + Len(low)
             Asleep == \E w \in Workers : phase[w] = "waiting"
             Awake == Cardinality(At(phase))
  <2>1. WorkConserving <=> (~done /\ Asleep => Total <= notifying + Awake)
    BY DEF WorkConserving, Locking, At
  <2>2. (~done' /\ Asleep' => Total' <= notifying' + Awake') => WorkConserving'
    BY DEF WorkConserving, Locking, At
  <2>3. Awake \in Nat /\ Awake' \in Nat
    BY AtFinite
  <2>4. phase \in [Workers -> Phases]
    BY DEF TypeOK, Phases
  <2>5. Total \in Nat /\ notifying \in Nat
    BY DEF TypeOK
  <2>6. CASE UNCHANGED <<phase, done>> /\ Total' = Total + 1 /\ notifying' = notifying + 1
    BY <2>1, <2>2, <2>3, <2>5, <2>6
  <2>7. ASSUME NEW w \in Workers, phase[w] = "locking",
               NEW x \in {"running", "waiting"}, phase' = [phase EXCEPT ![w] = x],
               x = "running" => Total' = Total - 1,
               x = "waiting" => Total' = 0,
               UNCHANGED <<done, notifying>>
        PROVE  WorkConserving'
    <3>1. Awake' = Awake - 1
      BY Zenon, <2>4, <2>7, AtLeave DEF Phases
    <3>2. x = "running" => (Asleep' => Asleep)
      BY <2>4, <2>7
    <3>3. x = "running" \/ x = "waiting"
      BY <2>7
    <3> QED
      BY <2>1, <2>2, <2>3, <2>5, <2>7, <3>1, <3>2, <3>3
  <2>8. ASSUME NEW w \in Workers, phase[w] # "locking", phase' = [phase EXCEPT ![w] = "locking"],
               UNCHANGED <<done, queues>>, notifying' \in {notifying, notifying - 1}
        PROVE  WorkConserving'
    <3>1. Awake' = Awake + 1
      BY Zenon, <2>4, <2>8, AtEnter
    <3>2. Asleep' => Asleep
      BY <2>4, <2>8
    <3>3. Total' = Total
      BY <2>8 DEF queues
    <3> QED
      BY <2>1, <2>2, <2>3, <2>5, <2>8, <3>1, <3>2, <3>3
  <2>9. CASE ~Asleep' \/ done'
    BY <2>2, <2>9
  <2> HIDE DEF Asleep, Awake
  <2>10. CASE Spawn
    <3> USE DEF TypeOK
    <3>1. UNCHANGED <<phase, done>> /\ notifying' = notifying + 1
      BY <2>10 DEF Spawn, SpawnHigh, SpawnMid, SpawnLow, TrySpawnExecutionProof, Spawned, workers
    <3>2. ASSUME NEW t \in HighTasks, SpawnHigh(t) PROVE Total' = Total + 1
      BY <3>2 DEF SpawnHigh
    <3>3. ASSUME NEW t \in MidTasks, SpawnMid(t) PROVE Total' = Total + 1
      BY <3>3 DEF SpawnMid
    <3>4. ASSUME NEW t \in LowTasks, SpawnLow(t) PROVE Total' = Total + 1
      BY <3>4 DEF SpawnLow
    <3>5. Total' = Total + 1
      BY <2>10, <3>2, <3>3, <3>4 DEF Spawn, TrySpawnExecutionProof
    <3> QED
      BY <2>6, <3>1, <3>5
  <2>11. CASE NotifyOne
    <3>1. CASE \E w \in Workers : phase[w] = "waiting" /\ phase' = [phase EXCEPT ![w] = "locking"]
      BY Zenon, <2>8, <2>11, <3>1 DEF NotifyOne
    <3>2. CASE (\A w \in Workers : phase[w] # "waiting") /\ UNCHANGED phase
      BY <2>9, <3>2 DEF Asleep
    <3> QED
      BY <2>11, <3>1, <3>2 DEF NotifyOne
  <2>12. CASE DropHandle
    BY <2>9, <2>12 DEF DropHandle
  <2>13. CASE NotifyAll
    BY <2>9, <2>13 DEF NotifyAll, Asleep
  <2>14. ASSUME NEW w \in Workers, Lock(w) PROVE WorkConserving'
    <3> USE DEF TypeOK, callers, queues
    <3>1. CASE Stop(w)
      BY <2>9, <3>1 DEF Stop
    <3>2. CASE TakeHigh(w)
      <4>1. Total' = Total - 1
        BY <3>2 DEF TakeHigh
      <4> QED
        BY Zenon, <2>7, <3>2, <4>1 DEF TakeHigh, Takes
    <3>3. CASE TakeMid(w)
      <4>1. Total' = Total - 1
        BY <3>3 DEF TakeMid
      <4> QED
        BY Zenon, <2>7, <3>3, <4>1 DEF TakeMid, Takes
    <3>4. CASE TakeLow(w)
      <4>1. Total' = Total - 1
        BY <3>4 DEF TakeLow
      <4> QED
        BY Zenon, <2>7, <3>4, <4>1 DEF TakeLow, Takes
    <3>5. CASE DropLow(w)
      <4>1. Total' = Total - 1
        BY <3>5 DEF DropLow
      <4>2. UNCHANGED <<phase, done, notifying>>
        BY <3>5 DEF DropLow, workers
      <4>3. Asleep' = Asleep /\ Awake' = Awake
        BY <4>2 DEF Asleep, Awake
      <4> QED
        BY <2>1, <2>2, <2>3, <2>5, <4>1, <4>2, <4>3
    <3>6. CASE Wait(w)
      <4>1. Total' = 0
        BY <3>6 DEF Wait
      <4> QED
        BY Zenon, <2>7, <3>6, <4>1 DEF Wait
    <3> QED
      BY <2>14, <3>1, <3>2, <3>3, <3>4, <3>5, <3>6 DEF Lock
  <2>15. ASSUME NEW w \in Workers, Finish(w) PROVE WorkConserving'
    <3>1. CASE task[w] \in PersistenceTasks
      <4>1. phase[w] = "running" /\ phase' = [phase EXCEPT ![w] = "resetting"]
        BY <2>15, <3>1 DEF Finish
      <4>2. At(phase') = At(phase) /\ (Asleep' => Asleep)
        BY <2>4, <4>1 DEF At, Asleep
      <4>3. UNCHANGED <<done, high, mid, low, notifying>>
        BY <2>15 DEF Finish, queues, callers
      <4>4. Awake' = Awake
        BY <4>2 DEF Awake
      <4> QED
        BY <2>1, <2>2, <2>3, <2>5, <4>2, <4>3, <4>4
    <3>2. CASE task[w] \notin PersistenceTasks
      BY <2>8, <2>15, <3>2 DEF Finish, callers
    <3> QED
      BY <3>1, <3>2
  <2>16. ASSUME NEW w \in Workers, Reset(w) PROVE WorkConserving'
    BY Zenon, <2>8, <2>16 DEF Reset, callers
  <2>17. CASE UNCHANGED poolVars
    BY <2>17 DEF poolVars, queues, workers, callers, WorkConserving, Locking
  <2> QED
    BY <2>10, <2>11, <2>12, <2>13, <2>14, <2>15, <2>16, <2>17 DEF Next
<1> QED
  BY <1>1, <1>2, TypeCorrect, PTL DEF Spec

-----------------------------------------------------------------------------
(***************************************************************************)
(* Persistence                                                             *)
(***************************************************************************)

Kinds == {"blobs", "envelopes", "columns"}
CacheEntry == [slot : 0..MaxSlot, persisted : BOOLEAN]
CacheOK(c) == c \in [DOMAIN c -> CacheEntry] /\ DOMAIN c \subseteq Items

\* What the pool has to do with the data: only tasks that persist are queued,
\* and a worker that runs has one.
PoolOK ==
  /\ high = <<>> /\ mid = <<>>
  /\ low \in Seq(PersistTasks)
  /\ task \in [Workers -> PersistTasks \cup {None}]
  /\ \A w \in Workers : phase[w] = "running" => task[w] \in PersistTasks
  /\ phase \in [Workers -> {"locking", "waiting", "running", "resetting", "stopped"}]

StateOK ==
  /\ CacheOK(cache) /\ saved \subseteq Items /\ accepted \subseteq Items
  /\ channel \in Seq(PersistTasks)
  /\ slot \in 0..MaxSlot /\ finalizedSlot \in 0..MaxSlot
  /\ pendingArchive \in BOOLEAN /\ failures \in 0..MaxFailures

\* A cache that loses entries is a cache, and the others are as before: Without.
LEMMA WithoutIsCache ==
  ASSUME NEW c, CacheOK(c), NEW S
  PROVE  /\ CacheOK(Without(c, S))
         /\ DOMAIN Without(c, S) = DOMAIN c \ S
         /\ \A i \in DOMAIN c \ S : Without(c, S)[i] = c[i]
BY DEF CacheOK, Without

\* A cache with a new entry is a cache: insert.
LEMMA InsertedIsCache ==
  ASSUME CacheOK(cache), NEW s \in 0..MaxSlot, NEW i \in Items
  PROVE  /\ CacheOK(Inserted(i, s))
         /\ DOMAIN Inserted(i, s) = DOMAIN cache \cup {i}
         /\ Inserted(i, s)[i].persisted = FALSE
         /\ \A j \in DOMAIN cache \ {i} : Inserted(i, s)[j] = cache[j]
<1>1. [slot |-> s, persisted |-> FALSE] \in CacheEntry
  BY DEF CacheEntry
<1> QED
  BY <1>1 DEF CacheOK, Inserted

\* Marking adds and removes no entry: mark_persisted_blobs and the like.
LEMMA MarkedIsCache ==
  ASSUME CacheOK(cache), NEW items
  PROVE  /\ CacheOK(Marked(items))
         /\ DOMAIN Marked(items) = DOMAIN cache
         /\ \A i \in DOMAIN cache : Marked(items)[i].persisted <=> cache[i].persisted \/ i \in items
<1>1. ASSUME NEW i \in DOMAIN cache
      PROVE  [slot |-> cache[i].slot, persisted |-> cache[i].persisted \/ i \in items] \in CacheEntry
  <2>1. cache[i].slot \in 0..MaxSlot /\ (cache[i].persisted \/ i \in items) \in BOOLEAN
    BY <1>1 DEF CacheOK, CacheEntry
  <2> QED
    BY <2>1 DEF CacheEntry
<1> QED
  BY Zenon, <1>1 DEF CacheOK, Marked

\* What is spawned is a task, of items of its kind: unpersisted_blob_sidecars
\* and the like.
LEMMA TaskIsTyped ==
  ASSUME NEW c, CacheOK(c), NEW kind \in Kinds, NEW s \in 0..MaxSlot
  PROVE  PersistTask(c, kind, s) \in PersistTasks
BY DEF CacheOK, Kinds, PersistTask, PersistTasks, Unpersisted

\* spawn leaves the workers alone and adds to the last queue.
LEMMA SpawnKeepsPool ==
  ASSUME PoolOK, NEW t \in PersistTasks, SpawnLow(t)
  PROVE  PoolOK'
BY DEF PoolOK, SpawnLow, Spawned, workers

\* So does persisting columns, if it spawns at all.
LEMMA PersistColumnsKeepsPool ==
  ASSUME PoolOK, NEW c, CacheOK(c), NEW s \in 0..MaxSlot, PersistColumns(c, s)
  PROVE  PoolOK'
<1>1. CASE PeerDas
  <2>1. PersistTask(c, "columns", s) \in PersistTasks
    BY TaskIsTyped DEF Kinds
  <2> QED
    BY <1>1, <2>1, SpawnKeepsPool DEF PersistColumns
<1>2. CASE ~PeerDas
  BY <1>2 DEF PersistColumns, PoolOK, poolVars, queues, workers
<1> QED
  BY <1>1, <1>2

\* The workers and the notification keep it too: run_worker, spawn.
LEMMA WorkersKeepPool ==
  ASSUME PoolOK, NotifyOne \/ \E w \in Workers : Lock(w) \/ Finish(w) \/ Reset(w)
  PROVE  PoolOK'
<1> USE DEF PoolOK, queues, workers
<1>1. CASE NotifyOne
  BY <1>1 DEF NotifyOne
<1>2. ASSUME NEW w \in Workers, Lock(w) PROVE PoolOK'
  <2>1. CASE Stop(w)
    BY <2>1 DEF Stop
  <2>2. CASE TakeHigh(w) \/ TakeMid(w)
    BY <2>2 DEF TakeHigh, TakeMid
  <2>3. CASE TakeLow(w)
    <3>1. Head(low) \in PersistTasks /\ low' \in Seq(PersistTasks)
      BY <2>3 DEF TakeLow
    <3> QED
      BY <2>3, <3>1 DEF TakeLow, Takes
  <2>4. CASE DropLow(w)
    BY <2>4 DEF DropLow
  <2>5. CASE Wait(w)
    BY <2>5 DEF Wait
  <2> QED
    BY <1>2, <2>1, <2>2, <2>3, <2>4, <2>5 DEF Lock
<1>3. ASSUME NEW w \in Workers, Finish(w) PROVE PoolOK'
  BY <1>3, TasksAssumption DEF Finish
<1>4. ASSUME NEW w \in Workers, Reset(w) PROVE PoolOK'
  BY <1>4 DEF Reset
<1> QED
  BY <1>1, <1>2, <1>3, <1>4
-----------------------------------------------------------------------------
\* The type invariant with what the pool guarantees of its tasks.
Typed == StateOK /\ PoolOK

\* The slot up to which columns are pruned is one: saturating_sub.
LEMMA PruneSlotIsSlot ==
  ASSUME NEW h \in 0..MaxSlot PROVE PruneSlot(h) \in 0..MaxSlot
BY PersistenceAssumption DEF PruneSlot

\* Every step of the mutator and of the tasks keeps the types.
LEMMA TypedStep ==
  ASSUME Typed, [PersistenceNext]_persistenceVars PROVE Typed'
<1> USE DEF Typed
<1>1. ASSUME NEW kind \in {"blobs", "envelopes"}, AcceptAndPersist(kind) PROVE Typed'
  <2>1. PICK i \in ItemsOf(kind), s \in 0..slot : cache' = Inserted(i, s) /\ accepted' = accepted \cup {i}
    BY <1>1 DEF AcceptAndPersist
  <2>2. i \in Items /\ s \in 0..MaxSlot
    <3>1. i \in Items
      BY <2>1 DEF ItemsOf, Items
    <3>2. s \in 0..MaxSlot
      BY <2>1, PersistenceAssumption DEF Typed, StateOK
    <3> QED
      BY <3>1, <3>2
  <2>3. CacheOK(cache')
    BY Zenon, <2>1, <2>2, InsertedIsCache DEF StateOK
  <2>4. PersistTask(cache', kind, 0) \in PersistTasks
    BY <2>3, TaskIsTyped, PersistenceAssumption DEF Kinds
  <2>5. PoolOK'
    BY <1>1, <2>4, SpawnKeepsPool DEF AcceptAndPersist
  <2>6. StateOK'
    BY <1>1, <2>1, <2>2, <2>3 DEF AcceptAndPersist, StateOK, taskVars, CacheOK
  <2> QED
    BY <2>5, <2>6
<1>2. CASE AcceptColumn
  <2>1. PICK i \in Columns, s \in 0..slot : cache' = Inserted(i, s) /\ accepted' = accepted \cup {i}
    BY <1>2 DEF AcceptColumn
  <2>2. i \in Items /\ s \in 0..MaxSlot
    BY <2>1, PersistenceAssumption DEF StateOK, Items
  <2>3. CacheOK(cache')
    BY Zenon, <2>1, <2>2, InsertedIsCache DEF StateOK
  <2>4. PoolOK'
    BY <1>2 DEF AcceptColumn, PoolOK, poolVars, queues, workers
  <2> QED
    BY <1>2, <2>1, <2>2, <2>3, <2>4 DEF AcceptColumn, StateOK, taskVars, CacheOK
<1>3. CASE HandleFinishPersisting
  <2> DEFINE m == Head(channel)
  <2>1. m \in PersistTasks /\ channel' \in Seq(PersistTasks)
    BY <1>3 DEF HandleFinishPersisting, StateOK
  <2>2. CacheOK(Marked(m.items))
    BY MarkedIsCache DEF StateOK
  <2>3. CASE m.kind = "columns"
    <3>1. cache' = PrunePersisted(Marked(m.items), m.slot) /\ UNCHANGED poolVars
      BY <1>3, <2>3 DEF HandleFinishPersisting
    <3>2. CacheOK(cache')
      BY Zenon, <2>2, <3>1, WithoutIsCache DEF PrunePersisted
    <3> QED
      BY <1>3, <2>1, <3>1, <3>2
      DEF HandleFinishPersisting, StateOK, PoolOK, taskVars, poolVars, queues, workers, CacheOK
  <2>4. CASE m.kind # "columns"
    <3>1. /\ cache' = Marked(m.items)
          /\ \/ SpawnLow(PersistTask(Marked(m.items), m.kind, 0))
             \/ UNCHANGED poolVars
      BY <1>3, <2>4 DEF HandleFinishPersisting
    <3>2. PersistTask(Marked(m.items), m.kind, 0) \in PersistTasks
      <4>1. m.kind \in Kinds /\ 0 \in 0..MaxSlot
        BY <2>1, PersistenceAssumption DEF PersistTasks, Kinds
      <4> HIDE DEF m
      <4> QED
        BY <2>2, <4>1, TaskIsTyped
    <3>3. PoolOK'
      BY <3>1, <3>2, SpawnKeepsPool DEF PoolOK, poolVars, queues, workers
    <3> QED
      BY <1>3, <2>1, <2>2, <3>1, <3>3 DEF HandleFinishPersisting, StateOK, taskVars, CacheOK
  <2> QED
    BY <2>3, <2>4
<1>4. CASE Tick
  <2>1. slot' \in 0..MaxSlot
    BY <1>4, PersistenceAssumption DEF Tick, StateOK
  <2>2. ASSUME NEW h \in 0..slot, cache' = OnSlot(cache, slot'), PersistColumns(cache', PruneSlot(h)),
               UNCHANGED <<finalizedSlot, pendingArchive>>
        PROVE  Typed'
    <3>1. CacheOK(cache')
      BY Zenon, <2>2, WithoutIsCache DEF OnSlot, StateOK
    <3>2. h \in 0..MaxSlot
      BY <2>2, PersistenceAssumption DEF StateOK
    <3>3. PoolOK'
      BY <2>2, <3>1, <3>2, PruneSlotIsSlot, PersistColumnsKeepsPool
    <3> QED
      BY <1>4, <2>1, <2>2, <3>1, <3>3 DEF Tick, StateOK, taskVars, CacheOK
  <2>3. ASSUME finalizedSlot' \in (finalizedSlot + 1)..(slot - FinalityLag),
               cache' = OnSlot(PruneFinalized(cache, finalizedSlot'), slot'),
               pendingArchive' = TRUE, UNCHANGED poolVars
        PROVE  Typed'
    <3>1. CacheOK(PruneFinalized(cache, finalizedSlot'))
      BY Zenon, WithoutIsCache DEF PruneFinalized, StateOK
    <3>2. CacheOK(cache')
      BY Zenon, <2>3, <3>1, WithoutIsCache DEF OnSlot
    <3>3. finalizedSlot' \in 0..MaxSlot
      BY <2>3, PersistenceAssumption DEF StateOK
    <3>4. PoolOK'
      BY <2>3 DEF PoolOK, poolVars, queues, workers
    <3> QED
      BY <1>4, <2>1, <2>3, <3>2, <3>3, <3>4 DEF Tick, StateOK, taskVars, CacheOK
  <2> QED
    BY Zenon, <1>4, <2>2, <2>3 DEF Tick
<1>5. CASE AggregateTick
  <2>1. PoolOK'
    BY <1>5, PersistColumnsKeepsPool DEF AggregateTick, StateOK
  <2> QED
    BY Zenon, <1>5, <2>1 DEF AggregateTick, StateOK, taskVars, CacheOK
<1>6. CASE FinalizeByBlock
  <2>1. CacheOK(cache')
    BY Zenon, <1>6, WithoutIsCache DEF FinalizeByBlock, PruneFinalized, StateOK
  <2>2. finalizedSlot' \in 0..MaxSlot
    BY <1>6, PersistenceAssumption DEF FinalizeByBlock, StateOK
  <2>3. PoolOK'
    BY <1>6, <2>1, <2>2, PersistColumnsKeepsPool DEF FinalizeByBlock
  <2> QED
    BY Zenon, <1>6, <2>1, <2>2, <2>3 DEF FinalizeByBlock, StateOK, taskVars, CacheOK
<1>7. ASSUME NEW w \in Workers, Run(w) PROVE Typed'
  <2>1. PoolOK'
    BY <1>7, WorkersKeepPool DEF Run
  <2>2. task[w] \in PersistTasks
    BY <1>7 DEF Run, Finish, PoolOK
  <2>3. task[w].items \subseteq Items /\ Append(channel, task[w]) \in Seq(PersistTasks)
    BY <2>2 DEF PersistTasks, StateOK
  <2>4. failures' \in 0..MaxFailures
    BY <1>7, PersistenceAssumption DEF Run, StateOK
  <2> QED
    BY Zenon, <1>7, <2>1, <2>3, <2>4 DEF Run, StateOK, mutatorVars, CacheOK
<1>8. CASE Pool
  <2>1. PoolOK'
    BY <1>8, WorkersKeepPool DEF Pool
  <2> QED
    BY <1>8, <2>1 DEF Pool, StateOK, mutatorVars, taskVars, CacheOK
<1>9. CASE UNCHANGED persistenceVars
  BY <1>9 DEF persistenceVars, poolVars, queues, workers, mutatorVars, taskVars, StateOK, PoolOK, CacheOK
<1> QED
  BY <1>1, <1>2, <1>3, <1>4, <1>5, <1>6, <1>7, <1>8, <1>9 DEF PersistenceNext

\* The program starts with empty caches, queues and channels.
LEMMA InitIsTyped == PersistenceInit => Typed
<1> SUFFICES ASSUME PersistenceInit PROVE Typed
  OBVIOUS
<1>1. CacheOK(cache)
  BY DEF PersistenceInit, CacheOK
<1>2. PoolOK
  BY DEF PersistenceInit, Init, PoolOK
<1>3. pendingArchive \in BOOLEAN
  BY Zenon DEF PersistenceInit
<1>4. channel \in Seq(PersistTasks)
  BY DEF PersistenceInit
<1>5. slot \in 0..MaxSlot /\ finalizedSlot \in 0..MaxSlot /\ failures \in 0..MaxFailures
  BY PersistenceAssumption DEF PersistenceInit
<1> QED
  BY <1>1, <1>2, <1>3, <1>4, <1>5 DEF PersistenceInit, Typed, StateOK

\* The types of the caches, the tasks and the messages hold in every state.
THEOREM PersistenceTypeCorrect == PersistenceSpec => []PersistenceTypeOK
<1>1. Typed => PersistenceTypeOK
  BY DEF Typed, StateOK, PoolOK, CacheOK, CacheEntry, PersistenceTypeOK
<1> QED
  BY <1>1, InitIsTyped, TypedStep, PTL DEF PersistenceSpec

-----------------------------------------------------------------------------
\* A message of a task lists nothing but what is in the database.
MessagesAreTrue == \A i \in DOMAIN channel : channel[i].items \subseteq saved

\* The inductive invariant: marks are set from messages, so those have to be
\* true, and columns are pruned by their marks, so those have to be.
Durable == MessagesAreTrue /\ PersistedIsSaved /\ ColumnsSurvive

\* What is removed from the cache, when it is no column, harms no property.
LEMMA WithoutKeepsMarks ==
  ASSUME Typed, Durable, NEW S, S \cap Columns = {}, cache' = Without(cache, S),
         accepted' = accepted, saved' = saved
  PROVE  PersistedIsSaved' /\ ColumnsSurvive'
<1>1. DOMAIN cache' = DOMAIN cache \ S /\ \A i \in DOMAIN cache \ S : cache'[i] = cache[i]
  BY Zenon, WithoutIsCache DEF Typed, StateOK
<1> QED
  BY <1>1 DEF Durable, PersistedIsSaved, ColumnsSurvive

\* Neither does an item that is inserted: insert does not mark it.
LEMMA InsertedKeepsMarks ==
  ASSUME Typed, Durable, NEW i \in Items, NEW s \in 0..MaxSlot, cache' = Inserted(i, s),
         accepted' = accepted \cup {i}, saved' = saved
  PROVE  PersistedIsSaved' /\ ColumnsSurvive'
<1>1. /\ DOMAIN cache' = DOMAIN cache \cup {i}
      /\ cache'[i].persisted = FALSE
      /\ \A j \in DOMAIN cache \ {i} : cache'[j] = cache[j]
  BY Zenon, InsertedIsCache DEF Typed, StateOK
<1> QED
  BY <1>1 DEF Durable, PersistedIsSaved, ColumnsSurvive

\* Every step keeps it.
LEMMA DurableStep ==
  ASSUME Typed, Durable, [PersistenceNext]_persistenceVars PROVE Durable'
<1>1. ASSUME NEW kind \in {"blobs", "envelopes"}, AcceptAndPersist(kind) PROVE Durable'
  <2>1. PICK i \in ItemsOf(kind), s \in 0..slot : cache' = Inserted(i, s) /\ accepted' = accepted \cup {i}
    BY <1>1 DEF AcceptAndPersist
  <2>2. i \in Items /\ s \in 0..MaxSlot
    <3>1. i \in Items
      BY <2>1 DEF ItemsOf, Items
    <3>2. s \in 0..MaxSlot
      BY <2>1, PersistenceAssumption DEF Typed, StateOK
    <3> QED
      BY <3>1, <3>2
  <2>3. saved' = saved /\ channel' = channel
    BY <1>1 DEF AcceptAndPersist, taskVars
  <2> QED
    BY <2>1, <2>2, <2>3, InsertedKeepsMarks DEF Durable, MessagesAreTrue
<1>2. CASE AcceptColumn
  <2>1. PICK i \in Columns, s \in 0..slot : cache' = Inserted(i, s) /\ accepted' = accepted \cup {i}
    BY <1>2 DEF AcceptColumn
  <2>2. i \in Items /\ s \in 0..MaxSlot
    BY <2>1, PersistenceAssumption DEF Items, Typed, StateOK
  <2>3. saved' = saved /\ channel' = channel
    BY <1>2 DEF AcceptColumn, taskVars
  <2> QED
    BY <2>1, <2>2, <2>3, InsertedKeepsMarks DEF Durable, MessagesAreTrue
<1>3. CASE HandleFinishPersisting
  <2> DEFINE m == Head(channel)
             marked == Marked(m.items)
             gone == {i \in DOMAIN marked \cap Columns : marked[i].persisted /\ marked[i].slot < m.slot}
  <2>1. channel \in Seq(PersistTasks) /\ channel # <<>> /\ channel' = Tail(channel)
    BY <1>3 DEF HandleFinishPersisting, Typed, StateOK
  <2>2. m.items \subseteq saved /\ MessagesAreTrue'
    <3>1. saved' = saved
      BY <1>3 DEF HandleFinishPersisting, taskVars
    <3>2. m = channel[1] /\ 1 \in DOMAIN channel
      BY <2>1
    <3>3. \A i \in DOMAIN channel' : channel'[i] = channel[i + 1] /\ i + 1 \in DOMAIN channel
      BY <2>1
    <3> QED
      BY <3>1, <3>2, <3>3 DEF Durable, MessagesAreTrue
  <2>3. /\ CacheOK(marked) /\ DOMAIN marked = DOMAIN cache
        /\ \A i \in DOMAIN cache : marked[i].persisted <=> cache[i].persisted \/ i \in m.items
    BY MarkedIsCache DEF Typed, StateOK
  <2>4. \A i \in DOMAIN cache : marked[i].persisted => i \in saved
    BY <2>2, <2>3 DEF Durable, PersistedIsSaved
  <2>5. cache' = marked \/ cache' = Without(marked, gone)
    BY <1>3 DEF HandleFinishPersisting, PrunePersisted
  <2>6. accepted' = accepted /\ saved' = saved
    BY <1>3 DEF HandleFinishPersisting, taskVars
  <2>7. /\ DOMAIN cache' \subseteq DOMAIN cache
        /\ \A i \in DOMAIN cache' : cache'[i] = marked[i]
        /\ \A c \in DOMAIN cache \ DOMAIN cache' : c \in saved
    <3>1. /\ DOMAIN Without(marked, gone) = DOMAIN marked \ gone
          /\ \A i \in DOMAIN marked \ gone : Without(marked, gone)[i] = marked[i]
      BY Zenon, <2>3, WithoutIsCache
    <3>2. \A c \in gone : c \in saved
      BY <2>3, <2>4
    <3> HIDE DEF marked, gone
    <3> QED
      BY <2>3, <2>5, <3>1, <3>2
  <2> HIDE DEF m, marked
  <2> QED
    BY <2>2, <2>4, <2>6, <2>7 DEF Durable, PersistedIsSaved, ColumnsSurvive
<1>4. CASE Tick
  <2>1. accepted' = accepted /\ saved' = saved /\ channel' = channel
    BY <1>4 DEF Tick, taskVars
  <2>2. \E S : S \cap Columns = {} /\ cache' = Without(cache, S)
    <3>1. CASE cache' = OnSlot(cache, slot')
      <4> DEFINE S == {b \in DOMAIN cache \cap Blobs : cache[b].slot + 2 < slot'}
      <4>1. cache' = Without(cache, S) /\ S \cap Columns = {}
        BY <3>1, PersistenceAssumption DEF OnSlot
      <4> QED
        BY <4>1
    <3>2. CASE cache' = OnSlot(PruneFinalized(cache, finalizedSlot'), slot')
      <4> DEFINE E == {e \in DOMAIN cache \cap Envelopes : cache[e].slot < finalizedSlot'}
                 c == Without(cache, E)
                 B == {b \in DOMAIN c \cap Blobs : c[b].slot + 2 < slot'}
      <4>1. cache' = Without(c, B) /\ E \cap Columns = {} /\ B \cap Columns = {}
        BY <3>2, PersistenceAssumption DEF OnSlot, PruneFinalized
      <4>2. Without(c, B) = Without(cache, E \cup B)
        <5> HIDE DEF E, B
        <5> QED
          BY DEF Without
      <4>3. (E \cup B) \cap Columns = {}
        BY <4>1
      <4> QED
        BY Zenon, <4>1, <4>2, <4>3
    <3> QED
      BY <1>4, <3>1, <3>2 DEF Tick
  <2> QED
    BY <2>1, <2>2, WithoutKeepsMarks DEF Durable, MessagesAreTrue
<1>5. CASE AggregateTick
  BY <1>5 DEF AggregateTick, taskVars, Durable, MessagesAreTrue, PersistedIsSaved, ColumnsSurvive
<1>6. CASE FinalizeByBlock
  <2> DEFINE E == {e \in DOMAIN cache \cap Envelopes : cache[e].slot < finalizedSlot'}
  <2>1. cache' = Without(cache, E) /\ E \cap Columns = {}
    BY <1>6, PersistenceAssumption DEF FinalizeByBlock, PruneFinalized
  <2>2. accepted' = accepted /\ saved' = saved /\ channel' = channel
    BY <1>6 DEF FinalizeByBlock, taskVars
  <2> QED
    BY <2>1, <2>2, WithoutKeepsMarks DEF Durable, MessagesAreTrue
<1>7. ASSUME NEW w \in Workers, Run(w) PROVE Durable'
  <2>1. cache' = cache /\ accepted' = accepted /\ saved \subseteq saved'
    BY <1>7 DEF Run, mutatorVars
  <2>2. MessagesAreTrue'
    <3>1. CASE saved' = saved \cup task[w].items /\ channel' = Append(channel, task[w])
      <4>1. channel \in Seq(PersistTasks) /\ task[w] \in PersistTasks
        BY <1>7 DEF Typed, StateOK, PoolOK, Run, Finish
      <4>2. ASSUME NEW i \in DOMAIN channel'
            PROVE  \/ i \in DOMAIN channel /\ channel'[i] = channel[i]
                   \/ channel'[i] = task[w]
        BY <3>1, <4>1, <4>2
      <4> QED
        BY <3>1, <4>2 DEF Durable, MessagesAreTrue
    <3>2. CASE UNCHANGED <<saved, channel>>
      BY <3>2 DEF Durable, MessagesAreTrue
    <3> QED
      BY <1>7, <3>1, <3>2 DEF Run
  <2> QED
    BY <2>1, <2>2 DEF Durable, PersistedIsSaved, ColumnsSurvive
<1>8. CASE Pool \/ UNCHANGED persistenceVars
  BY <1>8 DEF Pool, persistenceVars, mutatorVars, taskVars, Durable, MessagesAreTrue,
              PersistedIsSaved, ColumnsSurvive
<1> QED
  BY <1>1, <1>2, <1>3, <1>4, <1>5, <1>6, <1>7, <1>8 DEF PersistenceNext

\* Nothing has been accepted at the start.
LEMMA InitIsDurable == PersistenceInit => Durable
BY DEF PersistenceInit, Durable, MessagesAreTrue, PersistedIsSaved, ColumnsSurvive

\* What the caches mark as persisted is in the database, whichever tasks were
\* dropped by run_worker or failed.
THEOREM MarksAreTrue == PersistenceSpec => []PersistedIsSaved
<1>1. Typed /\ Durable => PersistedIsSaved
  BY DEF Durable
<1> QED
  BY <1>1, InitIsTyped, TypedStep, InitIsDurable, DurableStep, PTL DEF PersistenceSpec

\* No data column is lost between the cache and the database: prune_persisted
\* drops a column only when it is saved.
THEOREM ColumnsAreNotLost == PersistenceSpec => []ColumnsSurvive
<1>1. Typed /\ Durable => ColumnsSurvive
  BY DEF Durable
<1> QED
  BY <1>1, InitIsTyped, TypedStep, InitIsDurable, DurableStep, PTL DEF PersistenceSpec
=============================================================================
