----------------------------- MODULE StateCache -----------------------------
(***************************************************************************)
(* The beacon state cache, state_cache/src/state_cache.rs: a map from      *)
(* block roots to entries, under one lock, where an entry is a             *)
(* reference-counted map from slots to states under a lock of its own.     *)
(*                                                                         *)
(* Concurrent callers look an entry up under the cache lock, release that  *)
(* lock, and then lock the entry, which stays locked while a missing state *)
(* is computed.  Emptied entries are taken out of the cache by prunes and  *)
(* by queries that found no state, and the hazard is that somebody is      *)
(* about to insert into the entry that goes.                               *)
(*                                                                         *)
(* A call is one activation of a method.  The closure that computes a      *)
(* missing state may call the cache again (state_cache_processor.rs:228    *)
(* loads the block's state through Store::load_beacon_state, which goes    *)
(* through get_or_insert_with for the same root): a call has a parent then.*)
(*                                                                         *)
(* States are abstracted to whether they carry block rewards.  The cache   *)
(* lock is a variable only where it is held over several steps; the other  *)
(* critical sections under it run as one step while it is free.            *)
(***************************************************************************)
EXTENDS Integers, FiniteSets

CONSTANTS Calls,      \* activations of the cache's methods
          Roots,      \* block roots
          Slots,      \* slots of beacon states
          Entries,    \* addresses of state maps (the Arc allocations)
          None

ASSUME CallsAssumption == IsFiniteSet(Calls) /\ None \notin Calls
ASSUME EntriesAssumption == None \notin Entries
ASSUME RootsAssumption == None \notin Roots
ASSUME SlotsAssumption == Slots \subseteq Nat

VARIABLES
  cache,        \* the locked HashMap: block root -> entry, or None
  cacheOwner,   \* the call that holds the cache lock over several steps
  mapOwner,     \* the call that holds the lock of an entry
  content,      \* the locked OrdMap of an entry: slot -> state
  pc,           \* where a call is
  req,          \* its arguments
  parent,       \* the call whose closure made this one
  entry,        \* the entry that its state_map_lock refers to
  todo,         \* prune: the rest of its snapshot, pairs of root and entry
  emptied,      \* prune: the pairs whose entry it found or left empty
  target        \* the pair whose removal is being decided

vars == <<cache, cacheOwner, mapOwner, content, pc, req, parent, entry,
          todo, emptied, target>>

Kinds == {"bare", "rewarded"}

NoStates == [s \in Slots |-> "absent"]

\* The arguments of a call, as StateCacheProcessor gives them.  "get" is
\* before_or_at_slot; "process" is get_or_process_with, which always stores its
\* result; "try" is get_or_try_process_with, which always does without rewards;
\* "insert" stores a state without rewards.
Requests ==
       [op : {"get", "insert"}, root : Roots, slot : Slots]
  \cup [op : {"process"}, root : Roots, slot : Slots, ignoreMissingRewards : BOOLEAN]
  \cup [op : {"try"}, root : Roots, slot : Slots, storeResult : BOOLEAN]
  \cup [op : {"prune"}, lastPruned : Slots, preserved : SUBSET Roots, pruned : SUBSET Roots]

ASSUME RequestsAssumption == None \notin Requests

IgnoresMissingRewards(q) == q.op = "process" => q.ignoreMissingRewards
StoresResult(q) == q.op = "try" => q.storeResult

\* What the closure of a query computes: rewards for a caller that needs them.
KindOf(q) == IF IgnoresMissingRewards(q) THEN "bare" ELSE "rewarded"

PCs == {"idle", "lookup", "lock_map", "compute", "bypass", "prune",
        "lock_cache", "removing", "check_empty", "unlock"}

Init ==
  /\ cache = [r \in Roots |-> None]
  /\ cacheOwner = None
  /\ mapOwner = [e \in Entries |-> None]
  /\ content = [e \in Entries |-> NoStates]
  /\ pc = [c \in Calls |-> "idle"]
  /\ req = [c \in Calls |-> None]
  /\ parent = [c \in Calls |-> None]
  /\ entry = [c \in Calls |-> None]
  /\ todo = [c \in Calls |-> {}]
  /\ emptied = [c \in Calls |-> {}]
  /\ target = [c \in Calls |-> None]

-----------------------------------------------------------------------------
\* The entries that a call holds a reference to (one reference each).
Handles(c) == ({entry[c]} \ {None}) \cup {p[2] : p \in todo[c] \cup emptied[c]}

Cached(e) == \E r \in Roots : cache[r] = e

\* Who holds a reference to e: calls, and the cache itself (as None).
Holders(e) == {c \in Calls : e \in Handles(c)} \cup (IF Cached(e) THEN {None} ELSE {})

\* Arc::strong_count
StrongCount(e) == Cardinality(Holders(e))

IsEmpty(e) == content[e] = NoStates

\* OrdMap::get_prev(slot): the latest slot up to `slot` with a state, if any.
Prev(e, slot) == {s \in Slots : /\ s <= slot
                                /\ content[e][s] # "absent"
                                /\ \A t \in Slots : t <= slot /\ t > s => content[e][t] = "absent"}

\* Mutant of Hit: off by one, a state of the very slot is no hit.
Hit_LaterOnly(c) == \E s \in Prev(entry[c], req[c].slot) :
                      /\ s > req[c].slot
                      /\ content[entry[c]][s] = "rewarded" \/ IgnoresMissingRewards(req[c])

\* A query is answered from the cache: the state is there, and with rewards
\* unless the caller does without them.
Hit(c) == \E s \in Prev(entry[c], req[c].slot) :
            /\ s >= req[c].slot
            /\ content[entry[c]][s] = "rewarded" \/ IgnoresMissingRewards(req[c])

\* A call is at `at`, and no call that its closure made is still running.
At(c, at) == pc[c] = at /\ \A d \in Calls : parent[d] # c

\* Insertion into the locked map replaces the state of the same slot.
Put(e, s, k) == content' = [content EXCEPT ![e][s] = k]

Goto(c, at) == pc' = [pc EXCEPT ![c] = at]

\* The call returns and drops its references.
Return(c) ==
  /\ Goto(c, "idle")
  /\ req' = [req EXCEPT ![c] = None]
  /\ parent' = [parent EXCEPT ![c] = None]
  /\ entry' = [entry EXCEPT ![c] = None]

-----------------------------------------------------------------------------
(***************************************************************************)
(* Calls, and the lookup of an entry under the cache lock.                 *)
(***************************************************************************)

Call(c, q, p) ==
  /\ pc[c] = "idle"
  /\ Goto(c, "lookup")
  /\ req' = [req EXCEPT ![c] = q]
  /\ parent' = [parent EXCEPT ![c] = p]
  /\ UNCHANGED <<cache, cacheOwner, mapOwner, content, entry, todo, emptied, target>>

\* A thread calls a method of the cache.
Start(c, q) == Call(c, q, None)

\* The closure of a running query loads a state through the cache
\* (Store::load_beacon_state): it calls get_or_process_with in turn.
Nest(c, d, q) ==
  /\ pc[d] \in {"compute", "bypass"}
  /\ At(d, pc[d])
  /\ parent[d] = None
  /\ q.op = "process"
  /\ Call(c, q, d)

\* get_by_root, as before_or_at_slot calls it
GetByRoot(c) ==
  /\ pc[c] = "lookup"
  /\ req[c].op = "get"
  /\ cacheOwner = None
  /\ LET e == cache[req[c].root]
     IN  IF e = None THEN Return(c)
         ELSE Goto(c, "lock_map") /\ entry' = [entry EXCEPT ![c] = e] /\ UNCHANGED <<req, parent>>
  /\ UNCHANGED <<cache, cacheOwner, mapOwner, content, todo, emptied, target>>

\* get_or_init_by_root: the reference is cloned under the cache lock.
GetOrInitByRoot(c) ==
  /\ pc[c] = "lookup"
  /\ req[c].op \in {"process", "try", "insert"}
  /\ cacheOwner = None
  /\ \E e \in Entries :
       /\ \/ cache[req[c].root] = e /\ UNCHANGED <<cache, content>>
          \/ /\ cache[req[c].root] = None
             /\ Holders(e) = {}
             /\ cache' = [cache EXCEPT ![req[c].root] = e]
             /\ content' = [content EXCEPT ![e] = NoStates]
       /\ entry' = [entry EXCEPT ![c] = e]
  /\ Goto(c, "lock_map")
  /\ UNCHANGED <<cacheOwner, mapOwner, req, parent, todo, emptied, target>>

\* all_state_map_locks, as prune calls it
Snapshot(c) ==
  /\ pc[c] = "lookup"
  /\ req[c].op = "prune"
  /\ cacheOwner = None
  /\ todo' = [todo EXCEPT ![c] = {p \in Roots \X Entries : cache[p[1]] = p[2]}]
  /\ Goto(c, "prune")
  /\ UNCHANGED <<cache, cacheOwner, mapOwner, content, req, parent, entry, emptied, target>>

\* try_lock_cache gives up: queries run their closure without the cache, the
\* other calls return the error.  Any contention may cause it, the short
\* critical sections that are single steps here included.
LookupTimeout(c) ==
  /\ pc[c] = "lookup"
  /\ IF req[c].op \in {"process", "try"}
     THEN Goto(c, "bypass") /\ UNCHANGED <<req, parent, entry>>
     ELSE Return(c)
  /\ UNCHANGED <<cache, cacheOwner, mapOwner, content, todo, emptied, target>>

-----------------------------------------------------------------------------
(***************************************************************************)
(* Work under the lock of an entry.                                        *)
(***************************************************************************)

\* before_or_at_slot reads the map, insert stores into it; both release it.
ReadMap(c) ==
  /\ pc[c] = "lock_map"
  /\ req[c].op = "get"
  /\ mapOwner[entry[c]] = None
  /\ Return(c)
  /\ UNCHANGED <<cache, cacheOwner, mapOwner, content, todo, emptied, target>>

Insert(c) ==
  /\ pc[c] = "lock_map"
  /\ req[c].op = "insert"
  /\ mapOwner[entry[c]] = None
  /\ Put(entry[c], req[c].slot, "bare")
  /\ Return(c)
  /\ UNCHANGED <<cache, cacheOwner, mapOwner, todo, emptied, target>>

\* A query locks the map and returns what it finds there, or keeps the lock
\* and runs its closure.
LockMap(c) ==
  /\ pc[c] = "lock_map"
  /\ req[c].op \in {"process", "try"}
  /\ mapOwner[entry[c]] = None
  /\ IF Hit(c)
     THEN Return(c) /\ UNCHANGED mapOwner
     ELSE /\ mapOwner' = [mapOwner EXCEPT ![entry[c]] = c]
          /\ Goto(c, "compute")
          /\ UNCHANGED <<req, parent, entry>>
  /\ UNCHANGED <<cache, cacheOwner, content, todo, emptied, target>>

\* Mutant of MapTimeout: the lock is waited for without a time limit.
MapTimeout_Never(c) == pc[c] = "lock_map" /\ mapOwner[entry[c]] # None /\ FALSE /\ UNCHANGED vars

\* try_lock_map gives up on a map that another call has locked.  A query then
\* runs its closure without the lock, still holding its reference.
MapTimeout(c) ==
  /\ pc[c] = "lock_map"
  /\ mapOwner[entry[c]] # None
  /\ IF req[c].op \in {"process", "try"}
     THEN Goto(c, "bypass") /\ UNCHANGED <<req, parent, entry>>
     ELSE Return(c)
  /\ UNCHANGED <<cache, cacheOwner, mapOwner, content, todo, emptied, target>>

\* The closure has computed a state of the slot asked for.
Computed(c) ==
  /\ At(c, "compute")
  /\ IF StoresResult(req[c]) THEN Put(entry[c], req[c].slot, KindOf(req[c])) ELSE UNCHANGED content
  /\ mapOwner' = [mapOwner EXCEPT ![entry[c]] = None]
  /\ Return(c)
  /\ UNCHANGED <<cache, cacheOwner, todo, emptied, target>>

\* The closure has failed.
Failed(c) ==
  /\ At(c, "compute")
  /\ mapOwner' = [mapOwner EXCEPT ![entry[c]] = None]
  /\ Return(c)
  /\ UNCHANGED <<cache, cacheOwner, content, todo, emptied, target>>

\* The closure of get_or_try_process_with has found no state to start from,
\* so that the map has none up to this slot.  The map lock is released before
\* the cache lock is asked for.
NotFound(c) ==
  /\ At(c, "compute")
  /\ req[c].op = "try"
  /\ Prev(entry[c], req[c].slot) = {}
  /\ mapOwner' = [mapOwner EXCEPT ![entry[c]] = None]
  /\ IF IsEmpty(entry[c])
     THEN Goto(c, "lock_cache") /\ UNCHANGED <<req, parent, entry>>
     ELSE Return(c)
  /\ UNCHANGED <<cache, cacheOwner, content, todo, emptied, target>>

\* The closure that ran without the cache returns; nothing is stored.
Bypassed(c) ==
  /\ At(c, "bypass")
  /\ Return(c)
  /\ UNCHANGED <<cache, cacheOwner, mapOwner, content, todo, emptied, target>>

-----------------------------------------------------------------------------
(***************************************************************************)
(* Pruning.                                                                *)
(***************************************************************************)

\* The states of block r that a prune keeps (OrdMap::split drops the slot
\* it splits at).
Retained(q, r, states) ==
  [s \in Slots |-> IF r \in q.preserved \/ (r \notin q.pruned /\ s > q.lastPruned)
                   THEN states[s] ELSE "absent"]

\* One round of prune's loop: a busy entry is skipped.
PruneEntry(c, p) ==
  /\ pc[c] = "prune"
  /\ p \in todo[c]
  /\ todo' = [todo EXCEPT ![c] = @ \ {p}]
  /\ LET retained == Retained(req[c], p[1], content[p[2]])
     IN  IF mapOwner[p[2]] # None THEN UNCHANGED <<content, emptied>>
         ELSE /\ content' = [content EXCEPT ![p[2]] = retained]
              /\ emptied' = [emptied EXCEPT ![c] = IF retained = NoStates THEN @ \cup {p} ELSE @]
  /\ UNCHANGED <<cache, cacheOwner, mapOwner, pc, req, parent, entry, target>>

\* The snapshot is done with.
PruneDone(c) ==
  /\ pc[c] = "prune"
  /\ todo[c] = {}
  /\ IF emptied[c] = {} THEN Return(c)
     ELSE Goto(c, "lock_cache") /\ UNCHANGED <<req, parent, entry>>
  /\ UNCHANGED <<cache, cacheOwner, mapOwner, content, todo, emptied, target>>

-----------------------------------------------------------------------------
(***************************************************************************)
(* Removal of emptied entries: remove_if_unused_and_empty for one entry,   *)
(* and the end of prune for all it emptied, under one cache lock.          *)
(***************************************************************************)

LockCache(c) ==
  /\ pc[c] = "lock_cache"
  /\ cacheOwner = None
  /\ cacheOwner' = c
  /\ Goto(c, "removing")
  /\ UNCHANGED <<cache, mapOwner, content, req, parent, entry, todo, emptied, target>>

LockCacheTimeout(c) ==
  /\ pc[c] = "lock_cache"
  /\ emptied' = [emptied EXCEPT ![c] = {}]
  /\ Return(c)
  /\ UNCHANGED <<cache, cacheOwner, mapOwner, content, todo, target>>

\* The pairs whose removal the call decides on.
Doomed(c) == IF req[c].op = "try" THEN {<<req[c].root, entry[c]>>} ELSE emptied[c]

\* The removal of pair p has been decided on.
Decided(c, p) ==
  /\ emptied' = [emptied EXCEPT ![c] = @ \ {p}]
  /\ target' = [target EXCEPT ![c] = None]
  /\ Goto(c, IF Doomed(c) = {p} THEN "unlock" ELSE "removing")

\* remove_locked_if_unused_and_empty: is_same_entry and is_unused
CheckUnused(c, p) ==
  /\ pc[c] = "removing"
  /\ p \in Doomed(c)
  /\ IF cache[p[1]] = p[2] /\ StrongCount(p[2]) = 2
     THEN /\ target' = [target EXCEPT ![c] = p]
          /\ Goto(c, "check_empty")
          /\ UNCHANGED emptied
     ELSE Decided(c, p)
  /\ UNCHANGED <<cache, cacheOwner, mapOwner, content, req, parent, entry, todo>>

\* Mutant of CheckEmpty: the emptiness found earlier is relied on.
CheckEmpty_Stale(c) ==
  /\ pc[c] = "check_empty"
  /\ cache' = [cache EXCEPT ![target[c][1]] = None]
  /\ Decided(c, target[c])
  /\ UNCHANGED <<cacheOwner, mapOwner, content, req, parent, entry, todo>>

\* remove_locked_if_unused_and_empty: is_still_empty, and the removal
CheckEmpty(c) ==
  /\ pc[c] = "check_empty"
  /\ LET p == target[c]
     IN  /\ IF mapOwner[p[2]] = None /\ IsEmpty(p[2])
            THEN cache' = [cache EXCEPT ![p[1]] = None] ELSE UNCHANGED cache
         /\ Decided(c, p)
  /\ UNCHANGED <<cacheOwner, mapOwner, content, req, parent, entry, todo>>

\* The cache lock is released and the call returns.
UnlockCache(c) ==
  /\ pc[c] = "unlock"
  /\ cacheOwner' = None
  /\ Return(c)
  /\ UNCHANGED <<cache, mapOwner, content, todo, emptied, target>>

-----------------------------------------------------------------------------
\* The steps of a call that is under way.
Step(c) ==
  \/ GetByRoot(c) \/ GetOrInitByRoot(c) \/ Snapshot(c) \/ LookupTimeout(c)
  \/ ReadMap(c) \/ Insert(c) \/ LockMap(c) \/ MapTimeout(c)
  \/ Computed(c) \/ Failed(c) \/ NotFound(c) \/ Bypassed(c)
  \/ \E p \in Roots \X Entries : PruneEntry(c, p) \/ CheckUnused(c, p)
  \/ PruneDone(c) \/ LockCache(c) \/ LockCacheTimeout(c) \/ CheckEmpty(c) \/ UnlockCache(c)

Next == \E c \in Calls :
          \/ \E q \in Requests : Start(c, q) \/ \E d \in Calls : Nest(c, d, q)
          \/ Step(c)

\* Every lock is waited for with a time limit, so that a call under way always
\* takes its next step, and a closure makes finitely many calls and then ends.
ClosureEnds(c) == Computed(c) \/ Failed(c) \/ NotFound(c) \/ Bypassed(c)
Fairness == \A c \in Calls : WF_vars(Step(c)) /\ SF_vars(ClosureEnds(c))

Spec == Init /\ [][Next]_vars

FairSpec == Spec /\ Fairness

-----------------------------------------------------------------------------
TypeOK ==
  /\ cache \in [Roots -> Entries \cup {None}]
  /\ cacheOwner \in Calls \cup {None}
  /\ mapOwner \in [Entries -> Calls \cup {None}]
  /\ content \in [Entries -> [Slots -> Kinds \cup {"absent"}]]
  /\ pc \in [Calls -> PCs]
  /\ req \in [Calls -> Requests \cup {None}]
  /\ parent \in [Calls -> Calls \cup {None}]
  /\ entry \in [Calls -> Entries \cup {None}]
  /\ todo \in [Calls -> SUBSET (Roots \X Entries)]
  /\ emptied \in [Calls -> SUBSET (Roots \X Entries)]
  /\ target \in [Calls -> (Roots \X Entries) \cup {None}]

\* The entry a call works on is the one in the cache under its root for as
\* long as the call may still read it or store into it: nobody removes an entry
\* that another thread got ("Removing it would silently lose that state",
\* state_cache.rs:333), so that two calls for one root always meet in one map.
HeldEntryIsCached ==
  \A c \in Calls : pc[c] \in {"lock_map", "compute"} => cache[req[c].root] = entry[c]

\* No state is ever in a map that the cache has let go of: a map with a state
\* in it can be reached through the cache.
NoStateIsLost == \A e \in Entries : ~IsEmpty(e) => Cached(e)

\* What the cache holds, as its callers see it.
CachedStates == [r \in Roots |-> IF cache[r] = None THEN NoStates ELSE content[cache[r]]]

\* The calls under way, with their arguments.
Running == [c \in Calls |-> IF pc[c] = "idle" THEN None ELSE req[c]]

\* The two-level locking implements a cache whose operations are atomic: each
\* call takes effect at one instant, a state that was stored is there until a
\* prune drops it or an insert replaces it, and a query never stores over a
\* state that would have answered it (get_or_process_with looks and stores under
\* one lock of the entry, and an entry is removed only when it is nobody's).
Atomic == INSTANCE AtomicStateCache WITH states <- CachedStates, running <- Running
ImplementsAtomicCache == Atomic!Spec

\* Every call returns, a query whose closure waits for the lock that the query
\* itself holds included: the time limit of try_lock_map ends that wait.
CallsReturn == \A c \in Calls : pc[c] # "idle" ~> pc[c] = "idle"
=============================================================================
