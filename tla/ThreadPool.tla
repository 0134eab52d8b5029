------------------------------ MODULE ThreadPool ------------------------------
(***************************************************************************)
(* The thread pool of fork_choice_control (thread_pool.rs): three queues   *)
(* of tasks under one mutex, workers that sleep on a condition variable,   *)
(* and a flag that keeps two tasks that persist data from running at once. *)
(*                                                                         *)
(* What happens between locking and unlocking the mutex is one step.       *)
(* notify_one and notify_all are called after unlocking, and are steps of  *)
(* their own: `notifying` and `stopping` count the threads that are about  *)
(* to call them.  A worker is                                              *)
(*   "locking"    about to lock the mutex and look for work,               *)
(*   "waiting"    asleep on the condition variable,                        *)
(*   "running"    a task,                                                  *)
(*   "resetting"  about to lock the mutex and reset the flag, or           *)
(*   "stopped".                                                            *)
(***************************************************************************)
EXTENDS Integers, Sequences, FiniteSets

CONSTANTS Workers,
          HighTasks, MidTasks, LowTasks,
          PersistenceTasks,      \* the low priority tasks that persist data
          Handles,               \* how many clones of the pool are held
          MaxNotifying,          \* bound on the threads about to notify
          None

ASSUME PoolAssumption ==
  /\ IsFiniteSet(Workers)
  /\ PersistenceTasks \subseteq LowTasks
  /\ PersistenceTasks \cap (HighTasks \cup MidTasks) = {}
  /\ None \notin HighTasks \cup MidTasks \cup LowTasks
  /\ Handles \in Nat

VARIABLES done,                  \* Critical.done
          high, mid, low,        \* the queues of Critical
          persistenceRunning,    \* Critical.persistence_task_running
          phase, task,           \* by worker
          notifying, stopping,
          handles                \* clones of the pool that are not dropped

queues == <<high, mid, low>>
workers == <<phase, task>>
callers == <<notifying, stopping, handles>>
poolVars == <<done, queues, persistenceRunning, workers, callers>>

Tasks == HighTasks \cup MidTasks \cup LowTasks

\* with_worker_count
Init ==
  /\ done = FALSE
  /\ high = <<>> /\ mid = <<>> /\ low = <<>>
  /\ persistenceRunning = FALSE
  /\ phase = [w \in Workers |-> "locking"]
  /\ task = [w \in Workers |-> None]
  /\ notifying = 0 /\ stopping = 0
  /\ handles = Handles

-----------------------------------------------------------------------------
\* Mutant of Spawned: the condition variable is not notified.
Spawned_Silently ==
  /\ handles > 0
  /\ UNCHANGED <<done, persistenceRunning, workers, callers>>

\* spawn, once the task is in its queue
Spawned ==
  /\ handles > 0
  /\ notifying' = notifying + 1
  /\ UNCHANGED <<done, persistenceRunning, workers, stopping, handles>>

SpawnHigh(t) == high' = Append(high, t) /\ Spawned /\ UNCHANGED <<mid, low>>
SpawnMid(t) == mid' = Append(mid, t) /\ Spawned /\ UNCHANGED <<high, low>>
SpawnLow(t) == low' = Append(low, t) /\ Spawned /\ UNCHANGED <<high, mid>>

\* try_spawn_execution_proof; when the pool is done the task is handed back
TrySpawnExecutionProof(t) == ~done /\ SpawnLow(t)

\* notify_one wakes a worker, or nobody when no worker waits.
NotifyOne ==
  /\ notifying > 0
  /\ notifying' = notifying - 1
  /\ \/ \E w \in Workers : phase[w] = "waiting" /\ phase' = [phase EXCEPT ![w] = "locking"]
     \/ (\A w \in Workers : phase[w] # "waiting") /\ UNCHANGED phase
  /\ UNCHANGED <<done, queues, persistenceRunning, task, stopping, handles>>

\* drop: every clone stops the pool, not only the last one.
DropHandle ==
  /\ handles > 0
  /\ handles' = handles - 1
  /\ done' = TRUE
  /\ stopping' = stopping + 1
  /\ UNCHANGED <<queues, persistenceRunning, workers, notifying>>

\* Mutant of NotifyAll: notify_one in its place.
NotifyAll_One ==
  /\ stopping > 0
  /\ stopping' = stopping - 1
  /\ \E w \in Workers : phase' = [phase EXCEPT ![w] = IF @ = "waiting" THEN "locking" ELSE @]
  /\ UNCHANGED <<done, queues, persistenceRunning, task, notifying, handles>>

NotifyAll ==
  /\ stopping > 0
  /\ stopping' = stopping - 1
  /\ phase' = [w \in Workers |-> IF phase[w] = "waiting" THEN "locking" ELSE phase[w]]
  /\ UNCHANGED <<done, queues, persistenceRunning, task, notifying, handles>>

-----------------------------------------------------------------------------
\* run_worker: a worker with the mutex stops, or takes the first task of the
\* most urgent queue, or waits.
Stop(w) ==
  /\ phase[w] = "locking" /\ done
  /\ phase' = [phase EXCEPT ![w] = "stopped"]
  /\ UNCHANGED <<done, queues, persistenceRunning, task, callers>>

Takes(w, t) ==
  /\ phase[w] = "locking" /\ ~done
  /\ phase' = [phase EXCEPT ![w] = "running"]
  /\ task' = [task EXCEPT ![w] = t]
  /\ UNCHANGED <<done, callers>>

\* Mutant of TakeHigh: pop_back in place of pop_front.
TakeHigh_Newest(w) ==
  /\ high # <<>>
  /\ Takes(w, high[Len(high)]) /\ high' = SubSeq(high, 1, Len(high) - 1)
  /\ UNCHANGED <<mid, low, persistenceRunning>>

TakeHigh(w) ==
  /\ high # <<>>
  /\ Takes(w, Head(high)) /\ high' = Tail(high)
  /\ UNCHANGED <<mid, low, persistenceRunning>>

TakeMid(w) ==
  /\ high = <<>> /\ mid # <<>>
  /\ Takes(w, Head(mid)) /\ mid' = Tail(mid)
  /\ UNCHANGED <<high, low, persistenceRunning>>

\* Mutant of TakeLow: the flag is not looked at.
TakeLow_Unchecked(w) ==
  /\ high = <<>> /\ mid = <<>> /\ low # <<>>
  /\ Takes(w, Head(low)) /\ low' = Tail(low)
  /\ persistenceRunning' = (persistenceRunning \/ Head(low) \in PersistenceTasks)
  /\ UNCHANGED <<high, mid>>

TakeLow(w) ==
  /\ high = <<>> /\ mid = <<>> /\ low # <<>>
  /\ ~(persistenceRunning /\ Head(low) \in PersistenceTasks)
  /\ Takes(w, Head(low)) /\ low' = Tail(low)
  /\ persistenceRunning' = (persistenceRunning \/ Head(low) \in PersistenceTasks)
  /\ UNCHANGED <<high, mid>>

\* A task that persists data is dropped while another one runs.
DropLow(w) ==
  /\ phase[w] = "locking" /\ ~done
  /\ high = <<>> /\ mid = <<>> /\ low # <<>>
  /\ persistenceRunning /\ Head(low) \in PersistenceTasks
  /\ low' = Tail(low)
  /\ UNCHANGED <<done, high, mid, persistenceRunning, workers, callers>>

Wait(w) ==
  /\ phase[w] = "locking" /\ ~done
  /\ high = <<>> /\ mid = <<>> /\ low = <<>>
  /\ phase' = [phase EXCEPT ![w] = "waiting"]
  /\ UNCHANGED <<done, queues, persistenceRunning, task, callers>>

Lock(w) ==
  Stop(w) \/ TakeHigh(w) \/ TakeMid(w) \/ TakeLow(w) \/ DropLow(w) \/ Wait(w)

\* Mutant of Finish: the flag is never reset.
Finish_NoReset(w) ==
  /\ phase[w] = "running"
  /\ phase' = [phase EXCEPT ![w] = "locking"]
  /\ task' = [task EXCEPT ![w] = None]
  /\ UNCHANGED <<done, queues, persistenceRunning, callers>>

\* The task returns, or panics: run_and_handle_panics does not let that through.
Finish(w) ==
  /\ phase[w] = "running"
  /\ IF task[w] \in PersistenceTasks
     THEN phase' = [phase EXCEPT ![w] = "resetting"] /\ UNCHANGED task
     ELSE phase' = [phase EXCEPT ![w] = "locking"] /\ task' = [task EXCEPT ![w] = None]
  /\ UNCHANGED <<done, queues, persistenceRunning, callers>>

Reset(w) ==
  /\ phase[w] = "resetting"
  /\ persistenceRunning' = FALSE
  /\ phase' = [phase EXCEPT ![w] = "locking"]
  /\ task' = [task EXCEPT ![w] = None]
  /\ UNCHANGED <<done, queues, callers>>

-----------------------------------------------------------------------------
Queued(queue) == {queue[i] : i \in DOMAIN queue}
Running == {task[w] : w \in Workers}

\* A task that is neither queued nor running.
Fresh(t) == t \notin Queued(high) \cup Queued(mid) \cup Queued(low) \cup Running

Spawn ==
  /\ notifying < MaxNotifying
  /\ \/ \E t \in HighTasks : Fresh(t) /\ SpawnHigh(t)
     \/ \E t \in MidTasks : Fresh(t) /\ SpawnMid(t)
     \/ \E t \in LowTasks : Fresh(t) /\ SpawnLow(t)
     \/ \E t \in LowTasks \ PersistenceTasks : Fresh(t) /\ TrySpawnExecutionProof(t)

Next ==
  \/ Spawn
  \/ NotifyOne
  \/ DropHandle
  \/ NotifyAll
  \/ \E w \in Workers : Lock(w) \/ Finish(w) \/ Reset(w)

\* The mutex is handed over fairly and tasks come to an end.
Fairness ==
  /\ WF_poolVars(NotifyOne)
  /\ WF_poolVars(NotifyAll)
  /\ \A w \in Workers : WF_poolVars(Lock(w)) /\ WF_poolVars(Finish(w)) /\ WF_poolVars(Reset(w))

Spec == Init /\ [][Next]_poolVars
FairSpec == Spec /\ Fairness

-----------------------------------------------------------------------------
TypeOK ==
  /\ done \in BOOLEAN
  /\ high \in Seq(HighTasks) /\ mid \in Seq(MidTasks) /\ low \in Seq(LowTasks)
  /\ persistenceRunning \in BOOLEAN
  /\ phase \in [Workers -> {"locking", "waiting", "running", "resetting", "stopped"}]
  /\ task \in [Workers -> Tasks \cup {None}]
  /\ notifying \in Nat /\ stopping \in Nat /\ handles \in Nat

Locking == {w \in Workers : phase[w] = "locking"}

\* No wakeup is lost: as long as a worker sleeps in a pool that goes on, there
\* is for every queued task a worker about to look at the queues, or a thread
\* about to wake one.  spawn notifies after it has unlocked the mutex, and only
\* one worker, and run_worker looks at the queues again before it waits.
WorkConserving ==
  ~done /\ (\E w \in Workers : phase[w] = "waiting")
  => Len(high) + Len(mid) + Len(low) <= notifying + Cardinality(Locking)

\* A worker that still sleeps after a clone was dropped will be woken: drop
\* sets `done` under the mutex, so that no worker can miss both it and the
\* notification.
StopIsHeard == done /\ (\E w \in Workers : phase[w] = "waiting") => stopping > 0

\* persistence_task_running is set exactly while one worker runs, or has just
\* run, a task that persists data; there is never a second one, and only that
\* worker will reset the flag.
OnePersistenceTask ==
  LET persisting == {w \in Workers : task[w] \in PersistenceTasks}
  IN  /\ persistenceRunning <=> persisting # {}
      /\ \A v, w \in persisting : v = w
      /\ \A w \in persisting : phase[w] \in {"running", "resetting"}
      /\ \A w \in Workers : phase[w] = "resetting" => w \in persisting

\* A high priority task that was spawned is run, unless the pool is stopped.
HighTasksRun ==
  \A t \in HighTasks : t \in Queued(high) ~> (t \in Running \/ done)

\* When a clone of the pool has been dropped, all workers stop.
WorkersStop == done ~> \A w \in Workers : phase[w] = "stopped"
=============================================================================
