-------------------------- MODULE StateCacheProofs --------------------------
(***************************************************************************)
(* Proofs about StateCache.tla, for any number of calls, roots, slots and  *)
(* entries: no state is lost when entries are removed, and the two-level   *)
(* locking implements the atomic cache of AtomicStateCache.tla.  First the *)
(* inductive invariant, and its preservation by every step.                *)
(***************************************************************************)
EXTENDS StateCache, FiniteSetTheorems, TLAPS

\* The calls that hold the cache lock.
HoldsCacheLock(c) == pc[c] \in {"removing", "check_empty", "unlock"}

\* What a call has at hand where it is.
CallShape(c) ==
  /\ pc[c] # "idle" => req[c] \in Requests
  /\ pc[c] \in {"idle", "lookup"} => entry[c] = None
  /\ pc[c] \in {"lock_map", "compute"} => entry[c] # None
  /\ entry[c] # None => req[c] \in Requests /\ req[c].op # "prune"
  /\ todo[c] # {} => pc[c] = "prune"
  /\ pc[c] = "prune" => req[c].op = "prune"
  /\ emptied[c] # {} => /\ req[c].op = "prune"
                        /\ pc[c] \in {"prune", "lock_cache", "removing", "check_empty"}
  /\ pc[c] \in {"lock_cache", "removing", "check_empty"}
       => req[c].op = "prune" \/ (req[c].op = "try" /\ entry[c] # None)
  /\ pc[c] = "check_empty" => target[c] \in Doomed(c)

\* A reference to an entry means that the entry is in the cache, but for the
\* call that has just taken it out and has not returned yet.
HandlesCached(c) ==
  /\ entry[c] # None => pc[c] = "unlock" \/ cache[req[c].root] = entry[c]
  /\ \A p \in todo[c] \cup emptied[c] : cache[p[1]] = p[2]

\* While a removal is decided on, the remover is the only call with a
\* reference: none can be cloned while the cache lock is held.
SoleHolder(c) ==
  pc[c] = "check_empty" =>
    /\ cache[target[c][1]] = target[c][2]
    /\ \A d \in Calls \ {c} : target[c][2] \notin Handles(d)

CacheInjective ==
  \A r1, r2 \in Roots : cache[r1] = cache[r2] /\ cache[r1] # None => r1 = r2

LocksHeld ==
  /\ \A c \in Calls : cacheOwner = c <=> HoldsCacheLock(c)
  /\ \A c \in Calls, e \in Entries : mapOwner[e] = c <=> pc[c] = "compute" /\ entry[c] = e

IndInv ==
  /\ TypeOK
  /\ \A c \in Calls : CallShape(c) /\ HandlesCached(c) /\ SoleHolder(c)
  /\ CacheInjective
  /\ LocksHeld
  /\ NoStateIsLost
-----------------------------------------------------------------------------
\* Every request but prune's names a root and a slot.
LEMMA RequestFields ==
  ASSUME NEW q \in Requests, q.op # "prune"
  PROVE  q.root \in Roots /\ q.slot \in Slots
BY Zenon DEF Requests

\* The empty cache satisfies the invariant.
LEMMA InitIndInv == Init => IndInv
<1>. SUFFICES ASSUME Init PROVE IndInv
  BY Zenon
<1>. USE DEF Init
<1>1. TypeOK
  BY Zenon DEF TypeOK, NoStates, PCs
<1>2. \A c \in Calls : CallShape(c) /\ HandlesCached(c) /\ SoleHolder(c)
  BY Zenon DEF CallShape, HandlesCached, SoleHolder
<1>3. CacheInjective
  BY Zenon DEF CacheInjective
<1>4. LocksHeld
  BY Zenon, CallsAssumption DEF LocksHeld, HoldsCacheLock
<1>5. NoStateIsLost
  BY Zenon DEF NoStateIsLost, IsEmpty
<1>. QED BY Zenon, <1>1, <1>2, <1>3, <1>4, <1>5 DEF IndInv

\* Calls other than c keep their place, arguments and references.
Others(c) ==
  \A d \in Calls \ {c} : /\ pc'[d] = pc[d] /\ req'[d] = req[d] /\ entry'[d] = entry[d]
                         /\ todo'[d] = todo[d] /\ emptied'[d] = emptied[d]
                         /\ target'[d] = target[d]

\* A step of one call leaves the others as they are.
LEMMA OthersKeep ==
  ASSUME IndInv, NEW c \in Calls, Others(c), NEW d \in Calls, d # c, cache' = cache
  PROVE  CallShape(d)' /\ HandlesCached(d)'
<1>1. /\ pc'[d] = pc[d] /\ req'[d] = req[d] /\ entry'[d] = entry[d]
      /\ todo'[d] = todo[d] /\ emptied'[d] = emptied[d] /\ target'[d] = target[d]
  BY Zenon DEF Others
<1>2. CallShape(d) /\ HandlesCached(d)
  BY Zenon DEF IndInv
<1>3. CallShape(d)'
  BY Zenon, <1>1, <1>2 DEF CallShape, Doomed
<1>4. HandlesCached(d)'
  BY Zenon, <1>1, <1>2 DEF HandlesCached
<1>. QED BY Zenon, <1>3, <1>4

\* A call that holds no cache lock returns, and releases its map lock if it
\* has one.
LEMMA ReturnInv ==
  ASSUME IndInv, NEW c \in Calls, Return(c), ~HoldsCacheLock(c), todo[c] = {}, emptied'[c] = {},
         \A d \in Calls \ {c} : emptied'[d] = emptied[d],
         emptied' \in [Calls -> SUBSET (Roots \X Entries)],
         mapOwner' = [e \in Entries |-> IF mapOwner[e] = c THEN None ELSE mapOwner[e]],
         UNCHANGED <<cache, cacheOwner, todo, target>>,
         content' \in [Entries -> [Slots -> Kinds \cup {"absent"}]], NoStateIsLost'
  PROVE  IndInv'
<1>. USE CallsAssumption, EntriesAssumption DEF IndInv
<1>1. TypeOK'
  BY Zenon DEF TypeOK, Return, Goto, PCs
<1>2. Others(c) /\ pc'[c] = "idle" /\ entry'[c] = None
  BY Zenon DEF Others, TypeOK, Return, Goto
<1>3. ASSUME NEW d \in Calls PROVE CallShape(d)'
  <2>1. CASE d = c
    BY Zenon, <2>1, <1>2 DEF CallShape, Doomed
  <2>2. CASE d # c
    <3>1. CallShape(d) /\ todo' = todo /\ target' = target
      BY Zenon
    <3>2. /\ pc'[d] = pc[d] /\ req'[d] = req[d] /\ entry'[d] = entry[d]
          /\ emptied'[d] = emptied[d]
      BY Zenon, <2>2, <1>2 DEF Others
    <3>. QED BY Zenon, <3>1, <3>2 DEF CallShape, Doomed
  <2>. QED BY Zenon, <2>1, <2>2
<1>4. \A d \in Calls : HandlesCached(d)'
  BY <1>2 DEF HandlesCached, Others
<1>5. \A d \in Calls : Handles(d)' \subseteq Handles(d)
  BY Zenon, <1>2 DEF Handles, Others
<1>6. \A d \in Calls : SoleHolder(d)'
  BY Zenon, <1>2, <1>5 DEF SoleHolder, Others
<1>7. LocksHeld'
  BY SMTT(20), <1>2 DEF LocksHeld, HoldsCacheLock, Others, TypeOK
<1>8. CacheInjective'
  BY Zenon DEF CacheInjective
<1>. QED BY Zenon, <1>1, <1>3, <1>4, <1>6, <1>7, <1>8

\* A query whose wait for a lock has run out of time goes on without the cache.
LEMMA BypassInv ==
  ASSUME IndInv, NEW c \in Calls, pc[c] \in {"lookup", "lock_map"}, Goto(c, "bypass"),
         UNCHANGED <<cache, cacheOwner, mapOwner, content, req, parent, entry, todo, emptied, target>>
  PROVE  IndInv'
<1>. USE CallsAssumption, EntriesAssumption DEF IndInv
<1>1. TypeOK'
  BY Zenon DEF TypeOK, Goto, PCs
<1>2. Others(c) /\ pc'[c] = "bypass"
  BY Zenon DEF Others, TypeOK, Goto
<1>3. ASSUME NEW d \in Calls PROVE CallShape(d)'
  <2>1. CASE d = c
    BY Zenon, <2>1, <1>2 DEF CallShape, Doomed
  <2>2. CASE d # c
    BY Zenon, <2>2, <1>2, OthersKeep
  <2>. QED BY Zenon, <2>1, <2>2
<1>4. \A d \in Calls : HandlesCached(d)'
  BY <1>2 DEF HandlesCached, Others
<1>5. \A d \in Calls : SoleHolder(d)'
  BY Zenon, <1>2 DEF SoleHolder, Others, Handles
<1>6. LocksHeld'
  BY <1>2 DEF LocksHeld, HoldsCacheLock, Others
<1>7. CacheInjective' /\ NoStateIsLost'
  BY Zenon DEF CacheInjective, NoStateIsLost, IsEmpty, Cached
<1>. QED BY Zenon, <1>1, <1>3, <1>4, <1>5, <1>6, <1>7

\* A call that has no map lock: releasing its locks changes nothing.
LEMMA NoMapLock ==
  ASSUME IndInv, NEW c \in Calls, pc[c] # "compute"
  PROVE  mapOwner = [e \in Entries |-> IF mapOwner[e] = c THEN None ELSE mapOwner[e]]
BY DEF IndInv, TypeOK, LocksHeld

\* The map lock of a running closure is the one of its entry.
LEMMA ReleaseMap ==
  ASSUME IndInv, NEW c \in Calls, pc[c] = "compute"
  PROVE  [mapOwner EXCEPT ![entry[c]] = None]
           = [e \in Entries |-> IF mapOwner[e] = c THEN None ELSE mapOwner[e]]
BY Zenon DEF IndInv, TypeOK, LocksHeld

\* A call begins.
LEMMA CallInv ==
  ASSUME IndInv, NEW c \in Calls, NEW q \in Requests, NEW p \in Calls \cup {None}, Call(c, q, p)
  PROVE  IndInv'
<1>. USE CallsAssumption, EntriesAssumption DEF IndInv
<1>1. TypeOK'
  BY Zenon DEF TypeOK, Call, Goto, PCs
<1>2. /\ Others(c) /\ pc[c] = "idle" /\ pc'[c] = "lookup" /\ req'[c] = q
      /\ UNCHANGED <<cache, cacheOwner, mapOwner, content, entry, todo, emptied, target>>
  BY Zenon DEF Others, TypeOK, Call, Goto
<1>3. ASSUME NEW d \in Calls PROVE CallShape(d)'
  <2>1. CASE d = c
    BY Zenon, <2>1, <1>2 DEF CallShape, Doomed
  <2>2. CASE d # c
    BY Zenon, <2>2, <1>2, OthersKeep
  <2>. QED BY Zenon, <2>1, <2>2
<1>4. \A d \in Calls : HandlesCached(d)'
  BY <1>2 DEF HandlesCached, Others, CallShape
<1>5. \A d \in Calls : SoleHolder(d)'
  BY Zenon, <1>2 DEF SoleHolder, Others, Handles
<1>6. LocksHeld'
  BY <1>2 DEF LocksHeld, HoldsCacheLock, Others
<1>7. CacheInjective' /\ NoStateIsLost'
  BY Zenon, <1>2 DEF CacheInjective, NoStateIsLost, IsEmpty, Cached
<1>. QED BY Zenon, <1>1, <1>3, <1>4, <1>5, <1>6, <1>7

\* A call returns that holds no lock and has no pairs left.
LEMMA PlainReturnInv ==
  ASSUME IndInv, NEW c \in Calls, Return(c), pc[c] # "compute", ~HoldsCacheLock(c),
         todo[c] = {}, emptied[c] = {},
         UNCHANGED <<cache, cacheOwner, mapOwner, content, todo, emptied, target>>
  PROVE  IndInv'
<1>1. NoStateIsLost'
  BY Zenon DEF IndInv, NoStateIsLost, IsEmpty, Cached
<1>. QED BY Zenon, <1>1, ReturnInv, NoMapLock DEF IndInv, TypeOK

\* A closure ends and the map lock is released; what it stores goes into an
\* entry that is in the cache.
LEMMA ClosureReturnInv ==
  ASSUME IndInv, NEW c \in Calls, Return(c), pc[c] = "compute",
         mapOwner' = [mapOwner EXCEPT ![entry[c]] = None],
         UNCHANGED <<cache, cacheOwner, todo, emptied, target>>,
         content' \in [Entries -> [Slots -> Kinds \cup {"absent"}]], NoStateIsLost'
  PROVE  IndInv'
<1>1. todo[c] = {} /\ emptied[c] = {} /\ ~HoldsCacheLock(c)
  BY Zenon DEF IndInv, CallShape, HoldsCacheLock
<1>. QED BY Zenon, <1>1, ReturnInv, ReleaseMap DEF IndInv, TypeOK

\* The entry of a call at work is an entry of the cache.
LEMMA EntryCached ==
  ASSUME IndInv, NEW c \in Calls, pc[c] \in {"lock_map", "compute"}
  PROVE  /\ entry[c] \in Entries /\ req[c] \in Requests /\ req[c].op # "prune"
         /\ req[c].root \in Roots /\ req[c].slot \in Slots
         /\ cache[req[c].root] = entry[c]
         /\ todo[c] = {} /\ emptied[c] = {} /\ ~HoldsCacheLock(c)
BY Zenon, RequestFields DEF IndInv, TypeOK, CallShape, HandlesCached, HoldsCacheLock

\* Storing into an entry of the cache.
LEMMA PutCached ==
  ASSUME IndInv, NEW e \in Entries, Cached(e), NEW s \in Slots, NEW k \in Kinds,
         Put(e, s, k), cache' = cache
  PROVE  content' \in [Entries -> [Slots -> Kinds \cup {"absent"}]] /\ NoStateIsLost'
BY Zenon DEF IndInv, TypeOK, Put, NoStateIsLost, IsEmpty, Cached

\* The read lock of the cache is not obtained in time.
LEMMA LookupTimeoutInv ==
  ASSUME IndInv, NEW c \in Calls, LookupTimeout(c)
  PROVE  IndInv'
<1>1. CASE req[c].op \in {"process", "try"}
  BY Zenon, <1>1, BypassInv DEF LookupTimeout
<1>2. CASE req[c].op \notin {"process", "try"}
  <2>1. pc[c] = "lookup" /\ todo[c] = {} /\ emptied[c] = {}
    BY Zenon DEF IndInv, CallShape, LookupTimeout
  <2>. QED BY Zenon, <1>2, <2>1, PlainReturnInv DEF LookupTimeout, HoldsCacheLock
<1>. QED BY Zenon, <1>1, <1>2

\* An entry is looked up.
LEMMA GetByRootInv ==
  ASSUME IndInv, NEW c \in Calls, GetByRoot(c)
  PROVE  IndInv'
<1>. DEFINE e == cache[req[c].root]
<1>1. CASE e = None
  <2>1. pc[c] = "lookup" /\ todo[c] = {} /\ emptied[c] = {}
    BY Zenon DEF IndInv, CallShape, GetByRoot
  <2>. QED BY Zenon, <1>1, <2>1, PlainReturnInv DEF GetByRoot, HoldsCacheLock
<1>2. CASE e # None
  <2>. USE CallsAssumption, EntriesAssumption DEF IndInv
  <2>1. /\ pc[c] = "lookup" /\ req[c].op = "get" /\ cacheOwner = None
        /\ pc' = [pc EXCEPT ![c] = "lock_map"] /\ entry' = [entry EXCEPT ![c] = e]
        /\ UNCHANGED <<cache, cacheOwner, mapOwner, content, req, parent, todo, emptied, target>>
    BY Zenon, <1>2 DEF GetByRoot, Goto
  <2>2. req[c] \in Requests /\ req[c].root \in Roots /\ e \in Entries
    BY <1>2, <2>1, RequestFields DEF CallShape, TypeOK
  <2>3. TypeOK'
    BY Zenon, <2>1, <2>2 DEF TypeOK, PCs
  <2>4. Others(c) /\ pc'[c] = "lock_map" /\ entry'[c] = e
    BY Zenon, <2>1 DEF Others, TypeOK
  <2>5. ASSUME NEW d \in Calls PROVE CallShape(d)' /\ HandlesCached(d)'
    <3>1. CASE d = c
      BY Zenon, <3>1, <1>2, <2>1, <2>2, <2>4 DEF CallShape, HandlesCached
    <3>2. CASE d # c
      BY Zenon, <3>2, <2>1, <2>4, OthersKeep
    <3>. QED BY Zenon, <3>1, <3>2
  <2>6. \A d \in Calls : SoleHolder(d)'
    BY <2>1, <2>4 DEF SoleHolder, Others, LocksHeld, HoldsCacheLock
  <2>7. LocksHeld'
    BY <2>1, <2>4 DEF LocksHeld, HoldsCacheLock, Others
  <2>8. CacheInjective' /\ NoStateIsLost'
    BY Zenon, <2>1 DEF CacheInjective, NoStateIsLost, IsEmpty, Cached
  <2>. QED BY Zenon, <2>3, <2>5, <2>6, <2>7, <2>8
<1>. QED BY Zenon, <1>1, <1>2

\* An entry is looked up and made if there is none.
LEMMA GetOrInitByRootInv ==
  ASSUME IndInv, NEW c \in Calls, GetOrInitByRoot(c)
  PROVE  IndInv'
<1>. USE CallsAssumption, EntriesAssumption DEF IndInv
<1>1. PICK e \in Entries :
        /\ \/ cache[req[c].root] = e /\ UNCHANGED <<cache, content>>
           \/ /\ cache[req[c].root] = None
              /\ Holders(e) = {}
              /\ cache' = [cache EXCEPT ![req[c].root] = e]
              /\ content' = [content EXCEPT ![e] = NoStates]
        /\ entry' = [entry EXCEPT ![c] = e]
  BY Zenon DEF GetOrInitByRoot
<1>2. /\ pc[c] = "lookup" /\ req[c].op # "prune" /\ cacheOwner = None
      /\ pc' = [pc EXCEPT ![c] = "lock_map"]
      /\ UNCHANGED <<cacheOwner, mapOwner, req, parent, todo, emptied, target>>
  BY Zenon DEF GetOrInitByRoot, Goto
<1>3. req[c] \in Requests /\ req[c].root \in Roots
  BY Zenon, <1>2, RequestFields DEF CallShape
<1>4. TypeOK'
  <2>1. cache' \in [Roots -> Entries \cup {None}]
    BY Zenon, <1>1, <1>3 DEF TypeOK
  <2>2. content' \in [Entries -> [Slots -> Kinds \cup {"absent"}]]
    BY <1>1 DEF TypeOK, NoStates
  <2>. QED BY Zenon, <1>1, <1>2, <2>1, <2>2 DEF TypeOK, PCs
<1>5. Others(c) /\ pc'[c] = "lock_map" /\ entry'[c] = e
  BY Zenon, <1>1, <1>2 DEF Others, TypeOK
<1>6. cache'[req[c].root] = e /\ \A r \in Roots : cache[r] # None => cache'[r] = cache[r]
  BY Zenon, <1>1, <1>3 DEF TypeOK
<1>7. ASSUME NEW d \in Calls PROVE CallShape(d)' /\ HandlesCached(d)'
  <2>1. CASE d = c
    BY Zenon, <2>1, <1>2, <1>3, <1>5, <1>6 DEF CallShape, HandlesCached
  <2>2. CASE d # c
    <3>1. /\ pc'[d] = pc[d] /\ req'[d] = req[d] /\ entry'[d] = entry[d]
          /\ todo'[d] = todo[d] /\ emptied'[d] = emptied[d] /\ target'[d] = target[d]
      BY Zenon, <2>2, <1>5 DEF Others
    <3>2. CallShape(d)'
      BY Zenon, <3>1 DEF CallShape, Doomed
    <3>3. entry[d] # None => req[d].root \in Roots
      BY Zenon, RequestFields DEF CallShape
    <3>4. \A p \in todo[d] \cup emptied[d] : p[1] \in Roots /\ p[2] \in Entries
      BY DEF TypeOK
    <3>5. HandlesCached(d)'
      BY <3>1, <3>3, <3>4, <1>6 DEF HandlesCached
    <3>. QED BY Zenon, <3>2, <3>5
  <2>. QED BY Zenon, <2>1, <2>2
<1>8. \A d \in Calls : SoleHolder(d)'
  BY <1>2, <1>5 DEF SoleHolder, Others, LocksHeld, HoldsCacheLock
<1>9. LocksHeld'
  BY <1>2, <1>5 DEF LocksHeld, HoldsCacheLock, Others
<1>10. CacheInjective' /\ NoStateIsLost'
  <2>1. CASE cache[req[c].root] = e /\ UNCHANGED <<cache, content>>
    BY Zenon, <2>1 DEF CacheInjective, NoStateIsLost, IsEmpty, Cached
  <2>2. CASE /\ cache[req[c].root] = None /\ Holders(e) = {}
             /\ cache' = [cache EXCEPT ![req[c].root] = e]
             /\ content' = [content EXCEPT ![e] = NoStates]
    <3>1. \A r \in Roots : cache[r] # e
      BY Zenon, <2>2 DEF Holders, Cached
    <3>2. CacheInjective'
      BY Zenon, <2>2, <3>1, <1>3 DEF CacheInjective, TypeOK
    <3>3. NoStateIsLost'
      BY <2>2, <1>6 DEF NoStateIsLost, IsEmpty, Cached, TypeOK
    <3>. QED BY Zenon, <3>2, <3>3
  <2>. QED BY Zenon, <2>1, <2>2, <1>1
<1>. QED BY Zenon, <1>4, <1>7, <1>8, <1>9, <1>10

-----------------------------------------------------------------------------
\* A prune copies the list of entries.
LEMMA SnapshotInv ==
  ASSUME IndInv, NEW c \in Calls, Snapshot(c)
  PROVE  IndInv'
<1>. USE CallsAssumption, EntriesAssumption DEF IndInv
<1>. DEFINE pairs == {p \in Roots \X Entries : cache[p[1]] = p[2]}
<1>1. /\ pc[c] = "lookup" /\ req[c].op = "prune" /\ cacheOwner = None
      /\ pc' = [pc EXCEPT ![c] = "prune"] /\ todo' = [todo EXCEPT ![c] = pairs]
      /\ UNCHANGED <<cache, cacheOwner, mapOwner, content, req, parent, entry, emptied, target>>
  BY Zenon DEF Snapshot, Goto
<1>2. TypeOK'
  BY Zenon, <1>1 DEF TypeOK, PCs
<1>3. Others(c) /\ pc'[c] = "prune" /\ todo'[c] = pairs
  BY Zenon, <1>1 DEF Others, TypeOK
<1>4. ASSUME NEW d \in Calls PROVE CallShape(d)' /\ HandlesCached(d)'
  <2>1. CASE d = c
    <3>1. CallShape(d)'
      BY Zenon, <2>1, <1>1, <1>3 DEF CallShape
    <3>2. HandlesCached(d)'
      BY Zenon, <2>1, <1>1, <1>3 DEF CallShape, HandlesCached
    <3>. QED BY Zenon, <3>1, <3>2
  <2>2. CASE d # c
    BY Zenon, <2>2, <1>1, <1>3, OthersKeep
  <2>. QED BY Zenon, <2>1, <2>2
<1>5. \A d \in Calls : SoleHolder(d)'
  BY <1>1, <1>3 DEF SoleHolder, Others, LocksHeld, HoldsCacheLock
<1>6. LocksHeld'
  BY <1>1, <1>3 DEF LocksHeld, HoldsCacheLock, Others
<1>7. CacheInjective' /\ NoStateIsLost'
  BY Zenon, <1>1 DEF CacheInjective, NoStateIsLost, IsEmpty, Cached
<1>. QED BY Zenon, <1>2, <1>4, <1>5, <1>6, <1>7

\* A state is looked up in an entry.
LEMMA ReadMapInv ==
  ASSUME IndInv, NEW c \in Calls, ReadMap(c)
  PROVE  IndInv'
<1>1. pc[c] = "lock_map" /\ todo[c] = {} /\ emptied[c] = {} /\ ~HoldsCacheLock(c)
  BY Zenon, EntryCached DEF ReadMap
<1>. QED BY Zenon, <1>1, PlainReturnInv DEF ReadMap

\* A state is stored in an entry.
LEMMA InsertInv ==
  ASSUME IndInv, NEW c \in Calls, Insert(c)
  PROVE  IndInv'
<1>1. /\ pc[c] = "lock_map" /\ todo[c] = {} /\ emptied[c] = {} /\ ~HoldsCacheLock(c)
      /\ entry[c] \in Entries /\ Cached(entry[c]) /\ req[c].slot \in Slots
  BY Zenon, EntryCached DEF Insert, Cached
<1>2. content' \in [Entries -> [Slots -> Kinds \cup {"absent"}]] /\ NoStateIsLost'
  BY Zenon, <1>1, PutCached DEF Insert, Kinds
<1>3. /\ Return(c) /\ UNCHANGED <<cache, cacheOwner, mapOwner, todo, emptied, target>>
  BY Zenon DEF Insert
<1>4. mapOwner' = [e \in Entries |-> IF mapOwner[e] = c THEN None ELSE mapOwner[e]]
  BY Zenon, <1>1, <1>3, NoMapLock
<1>. QED BY Zenon, <1>1, <1>2, <1>3, <1>4, ReturnInv DEF IndInv, TypeOK

\* The lock of an entry is not obtained in time.
LEMMA MapTimeoutInv ==
  ASSUME IndInv, NEW c \in Calls, MapTimeout(c)
  PROVE  IndInv'
<1>1. pc[c] = "lock_map" /\ todo[c] = {} /\ emptied[c] = {} /\ ~HoldsCacheLock(c)
  BY Zenon, EntryCached DEF MapTimeout
<1>2. CASE req[c].op \in {"process", "try"}
  BY Zenon, <1>1, <1>2, BypassInv DEF MapTimeout
<1>3. CASE req[c].op \notin {"process", "try"}
  BY Zenon, <1>1, <1>3, PlainReturnInv DEF MapTimeout
<1>. QED BY Zenon, <1>2, <1>3

\* The lock of an entry is obtained.
LEMMA LockMapInv ==
  ASSUME IndInv, NEW c \in Calls, LockMap(c)
  PROVE  IndInv'
<1>1. /\ pc[c] = "lock_map" /\ todo[c] = {} /\ emptied[c] = {} /\ ~HoldsCacheLock(c)
      /\ entry[c] \in Entries
  BY Zenon, EntryCached DEF LockMap
<1>2. CASE Hit(c)
  BY Zenon, <1>1, <1>2, PlainReturnInv DEF LockMap
<1>3. CASE ~Hit(c)
  <2>. USE CallsAssumption, EntriesAssumption DEF IndInv
  <2>1. /\ mapOwner[entry[c]] = None /\ mapOwner' = [mapOwner EXCEPT ![entry[c]] = c]
        /\ pc' = [pc EXCEPT ![c] = "compute"]
        /\ UNCHANGED <<cache, cacheOwner, content, req, parent, entry, todo, emptied, target>>
    BY Zenon, <1>3 DEF LockMap, Goto
  <2>2. TypeOK'
    BY Zenon, <1>1, <2>1 DEF TypeOK, PCs
  <2>3. Others(c) /\ pc'[c] = "compute"
    BY Zenon, <2>1 DEF Others, TypeOK
  <2>4. ASSUME NEW d \in Calls PROVE CallShape(d)' /\ HandlesCached(d)'
    <3>1. CASE d = c
      BY Zenon, <3>1, <1>1, <2>1, <2>3 DEF CallShape, HandlesCached
    <3>2. CASE d # c
      BY Zenon, <3>2, <2>1, <2>3, OthersKeep
    <3>. QED BY Zenon, <3>1, <3>2
  <2>5. \A d \in Calls : SoleHolder(d)'
    BY ZenonT(40), <1>1, <2>1, <2>3 DEF SoleHolder, Others, Handles
  <2>6. LocksHeld'
    <3>1. \A d \in Calls : cacheOwner' = d <=> HoldsCacheLock(d)'
      BY Zenon, <1>1, <2>1, <2>3 DEF LocksHeld, HoldsCacheLock, Others
    <3>2. ASSUME NEW d \in Calls, NEW e \in Entries
          PROVE  mapOwner'[e] = d <=> pc'[d] = "compute" /\ entry'[d] = e
      BY <1>1, <2>1, <2>3 DEF LocksHeld, Others, TypeOK
    <3>. QED BY Zenon, <3>1, <3>2 DEF LocksHeld
  <2>7. CacheInjective' /\ NoStateIsLost'
    BY Zenon, <2>1 DEF CacheInjective, NoStateIsLost, IsEmpty, Cached
  <2>. QED BY Zenon, <2>2, <2>4, <2>5, <2>6, <2>7
<1>. QED BY Zenon, <1>2, <1>3

\* A computed state is stored in the entry that is locked.
LEMMA ComputedInv ==
  ASSUME IndInv, NEW c \in Calls, Computed(c)
  PROVE  IndInv'
<1>1. /\ pc[c] = "compute" /\ Return(c) /\ mapOwner' = [mapOwner EXCEPT ![entry[c]] = None]
      /\ UNCHANGED <<cache, cacheOwner, todo, emptied, target>>
  BY Zenon DEF Computed, At
<1>2. entry[c] \in Entries /\ Cached(entry[c]) /\ req[c].slot \in Slots
  BY Zenon, <1>1, EntryCached DEF Cached
<1>3. content' \in [Entries -> [Slots -> Kinds \cup {"absent"}]] /\ NoStateIsLost'
  <2>1. CASE StoresResult(req[c])
    <3>1. Put(entry[c], req[c].slot, KindOf(req[c])) /\ KindOf(req[c]) \in Kinds
      BY Zenon, <2>1 DEF Computed, KindOf, Kinds
    <3>. QED BY Zenon, <3>1, <1>1, <1>2, PutCached
  <2>2. CASE ~StoresResult(req[c])
    BY Zenon, <2>2, <1>1 DEF Computed, IndInv, TypeOK, NoStateIsLost, IsEmpty, Cached
  <2>. QED BY Zenon, <2>1, <2>2
<1>. QED BY Zenon, <1>1, <1>3, ClosureReturnInv

\* The computation fails and the lock is released.
LEMMA FailedInv ==
  ASSUME IndInv, NEW c \in Calls, Failed(c)
  PROVE  IndInv'
<1>1. content' = content /\ cache' = cache /\ pc[c] = "compute"
  BY Zenon DEF Failed, At
<1>2. content' \in [Entries -> [Slots -> Kinds \cup {"absent"}]] /\ NoStateIsLost'
  BY Zenon, <1>1 DEF IndInv, TypeOK, NoStateIsLost, IsEmpty, Cached
<1>. QED BY Zenon, <1>1, <1>2, ClosureReturnInv DEF Failed

\* After a timeout the state is computed without the cache.
LEMMA BypassedInv ==
  ASSUME IndInv, NEW c \in Calls, Bypassed(c)
  PROVE  IndInv'
<1>1. pc[c] = "bypass" /\ todo[c] = {} /\ emptied[c] = {}
  BY Zenon DEF IndInv, CallShape, Bypassed, At
<1>. QED BY Zenon, <1>1, PlainReturnInv DEF Bypassed, HoldsCacheLock

\* Nothing is found and nothing stored.
LEMMA NotFoundInv ==
  ASSUME IndInv, NEW c \in Calls, NotFound(c)
  PROVE  IndInv'
<1>1. /\ pc[c] = "compute" /\ req[c].op = "try" /\ content' = content
      /\ mapOwner' = [mapOwner EXCEPT ![entry[c]] = None]
      /\ UNCHANGED <<cache, cacheOwner, content, todo, emptied, target>>
  BY Zenon DEF NotFound, At
<1>2. content' \in [Entries -> [Slots -> Kinds \cup {"absent"}]] /\ NoStateIsLost'
  BY Zenon, <1>1 DEF IndInv, TypeOK, NoStateIsLost, IsEmpty, Cached
<1>3. CASE ~IsEmpty(entry[c])
  BY Zenon, <1>1, <1>2, <1>3, ClosureReturnInv DEF NotFound
<1>4. CASE IsEmpty(entry[c])
  <2>. USE CallsAssumption, EntriesAssumption DEF IndInv
  <2>1. /\ pc' = [pc EXCEPT ![c] = "lock_cache"] /\ UNCHANGED <<req, parent, entry>>
        /\ entry[c] \in Entries /\ todo[c] = {} /\ emptied[c] = {}
    BY Zenon, <1>1, <1>4, EntryCached DEF NotFound, Goto
  <2>2. TypeOK'
    BY Zenon, <1>1, <2>1 DEF TypeOK, PCs
  <2>3. Others(c) /\ pc'[c] = "lock_cache"
    BY Zenon, <1>1, <2>1 DEF Others, TypeOK
  <2>4. ASSUME NEW d \in Calls PROVE CallShape(d)' /\ HandlesCached(d)'
    <3>1. CASE d = c
      BY Zenon, <3>1, <1>1, <2>1, <2>3 DEF CallShape, HandlesCached
    <3>2. CASE d # c
      BY Zenon, <3>2, <1>1, <2>3, OthersKeep
    <3>. QED BY Zenon, <3>1, <3>2
  <2>5. \A d \in Calls : SoleHolder(d)'
    BY ZenonT(40), <1>1, <2>1, <2>3 DEF SoleHolder, Others, Handles
  <2>6. LocksHeld'
    <3>1. \A d \in Calls : cacheOwner' = d <=> HoldsCacheLock(d)'
      BY Zenon, <1>1, <2>1, <2>3 DEF LocksHeld, HoldsCacheLock, Others
    <3>2. ASSUME NEW d \in Calls, NEW e \in Entries
          PROVE  mapOwner'[e] = d <=> pc'[d] = "compute" /\ entry'[d] = e
      BY <1>1, <2>1, <2>3 DEF LocksHeld, Others, TypeOK
    <3>. QED BY Zenon, <3>1, <3>2 DEF LocksHeld
  <2>7. CacheInjective'
    BY Zenon, <1>1 DEF CacheInjective
  <2>. QED BY Zenon, <1>2, <2>2, <2>4, <2>5, <2>6, <2>7
<1>. QED BY Zenon, <1>3, <1>4

\* A prune goes through one entry.
LEMMA PruneEntryInv ==
  ASSUME IndInv, NEW c \in Calls, NEW p \in Roots \X Entries, PruneEntry(c, p)
  PROVE  IndInv'
<1>. USE CallsAssumption, EntriesAssumption DEF IndInv
<1>. DEFINE retained == Retained(req[c], p[1], content[p[2]])
<1>1. /\ pc[c] = "prune" /\ p \in todo[c] /\ todo' = [todo EXCEPT ![c] = @ \ {p}]
      /\ UNCHANGED <<cache, cacheOwner, mapOwner, pc, req, parent, entry, target>>
      /\ p[1] \in Roots /\ p[2] \in Entries
  BY Zenon DEF PruneEntry
<1>2. cache[p[1]] = p[2] /\ req[c].op = "prune"
  BY Zenon, <1>1 DEF HandlesCached, CallShape
<1>3. /\ content' \in [Entries -> [Slots -> Kinds \cup {"absent"}]]
      /\ \A e \in Entries : content'[e] = content[e] \/ e = p[2]
  <2>1. CASE mapOwner[p[2]] # None
    BY Zenon, <2>1 DEF PruneEntry, TypeOK
  <2>2. CASE mapOwner[p[2]] = None
    <3>1. content' = [content EXCEPT ![p[2]] = retained]
      BY Zenon, <2>2 DEF PruneEntry
    <3>2. content[p[2]] \in [Slots -> Kinds \cup {"absent"}]
      BY Zenon, <1>1 DEF TypeOK
    <3>3. retained \in [Slots -> Kinds \cup {"absent"}]
      BY Zenon, <3>2 DEF Retained
    <3>. QED BY Zenon, <1>1, <3>1, <3>3 DEF TypeOK
  <2>. QED BY Zenon, <2>1, <2>2
<1>4. /\ emptied' \in [Calls -> SUBSET (Roots \X Entries)]
      /\ emptied'[c] \subseteq emptied[c] \cup {p}
      /\ \A d \in Calls \ {c} : emptied'[d] = emptied[d]
  <2>1. emptied' = emptied \/ emptied' = [emptied EXCEPT ![c] = IF retained = NoStates THEN @ \cup {p} ELSE @]
    BY Zenon DEF PruneEntry
  <2>. QED BY <2>1 DEF TypeOK
<1>5. TypeOK'
  BY Zenon, <1>1, <1>3, <1>4 DEF TypeOK
<1>6. Others(c) /\ todo'[c] = todo[c] \ {p}
  BY Zenon, <1>1, <1>4 DEF Others, TypeOK
<1>7. ASSUME NEW d \in Calls PROVE CallShape(d)' /\ HandlesCached(d)'
  <2>1. CASE d = c
    <3>1. CallShape(c)'
      BY Zenon, <1>1, <1>2, <1>6 DEF CallShape
    <3>2. HandlesCached(c)'
      BY <1>1, <1>2, <1>4, <1>6 DEF HandlesCached
    <3>. QED BY Zenon, <2>1, <3>1, <3>2
  <2>2. CASE d # c
    BY Zenon, <2>2, <1>1, <1>6, OthersKeep
  <2>. QED BY Zenon, <2>1, <2>2
<1>8. \A d \in Calls : Handles(d)' \subseteq Handles(d)
  BY <1>1, <1>4, <1>6 DEF Handles, Others
<1>9. \A d \in Calls : SoleHolder(d)'
  BY Zenon, <1>1, <1>8 DEF SoleHolder
<1>10. LocksHeld' /\ CacheInjective'
  BY <1>1 DEF LocksHeld, HoldsCacheLock, CacheInjective
<1>11. NoStateIsLost'
  BY Zenon, <1>1, <1>2, <1>3 DEF NoStateIsLost, IsEmpty, Cached
<1>. QED BY Zenon, <1>5, <1>7, <1>9, <1>10, <1>11

\* A prune has been through its entries.
LEMMA PruneDoneInv ==
  ASSUME IndInv, NEW c \in Calls, PruneDone(c)
  PROVE  IndInv'
<1>1. CASE emptied[c] = {}
  BY Zenon, <1>1, PlainReturnInv DEF PruneDone, HoldsCacheLock
<1>2. CASE emptied[c] # {}
  <2>. USE CallsAssumption, EntriesAssumption DEF IndInv
  <2>1. /\ pc[c] = "prune" /\ todo[c] = {} /\ pc' = [pc EXCEPT ![c] = "lock_cache"]
        /\ UNCHANGED <<cache, cacheOwner, mapOwner, content, req, parent, entry, todo, emptied, target>>
    BY Zenon, <1>2 DEF PruneDone, Goto
  <2>2. TypeOK'
    BY Zenon, <2>1 DEF TypeOK, PCs
  <2>3. Others(c) /\ pc'[c] = "lock_cache"
    BY Zenon, <2>1 DEF Others, TypeOK
  <2>4. ASSUME NEW d \in Calls PROVE CallShape(d)' /\ HandlesCached(d)'
    <3>1. CASE d = c
      BY Zenon, <3>1, <2>1, <2>3 DEF CallShape, HandlesCached
    <3>2. CASE d # c
      BY Zenon, <3>2, <2>1, <2>3, OthersKeep
    <3>. QED BY Zenon, <3>1, <3>2
  <2>5. \A d \in Calls : SoleHolder(d)'
    BY Zenon, <2>1, <2>3 DEF SoleHolder, Others, Handles
  <2>6. LocksHeld'
    BY <2>1, <2>3 DEF LocksHeld, HoldsCacheLock, Others
  <2>7. CacheInjective' /\ NoStateIsLost'
    BY Zenon, <2>1 DEF CacheInjective, NoStateIsLost, IsEmpty, Cached
  <2>. QED BY Zenon, <2>2, <2>4, <2>5, <2>6, <2>7
<1>. QED BY Zenon, <1>1, <1>2

\* The write lock of the cache is obtained.
LEMMA LockCacheInv ==
  ASSUME IndInv, NEW c \in Calls, LockCache(c)
  PROVE  IndInv'
<1>. USE CallsAssumption, EntriesAssumption DEF IndInv
<1>1. /\ pc[c] = "lock_cache" /\ cacheOwner = None /\ cacheOwner' = c
      /\ pc' = [pc EXCEPT ![c] = "removing"]
      /\ UNCHANGED <<cache, mapOwner, content, req, parent, entry, todo, emptied, target>>
  BY Zenon DEF LockCache, Goto
<1>2. TypeOK'
  BY Zenon, <1>1 DEF TypeOK, PCs
<1>3. Others(c) /\ pc'[c] = "removing"
  BY Zenon, <1>1 DEF Others, TypeOK
<1>4. ASSUME NEW d \in Calls PROVE CallShape(d)' /\ HandlesCached(d)'
  <2>1. CASE d = c
    BY Zenon, <2>1, <1>1, <1>3 DEF CallShape, HandlesCached
  <2>2. CASE d # c
    BY Zenon, <2>2, <1>1, <1>3, OthersKeep
  <2>. QED BY Zenon, <2>1, <2>2
<1>5. \A d \in Calls : SoleHolder(d)'
  BY Zenon, <1>1, <1>3 DEF SoleHolder, Others, Handles
<1>6. LocksHeld'
  BY <1>1, <1>3 DEF LocksHeld, HoldsCacheLock, Others
<1>7. CacheInjective' /\ NoStateIsLost'
  BY Zenon, <1>1 DEF CacheInjective, NoStateIsLost, IsEmpty, Cached
<1>. QED BY Zenon, <1>2, <1>4, <1>5, <1>6, <1>7

\* The write lock of the cache is not obtained in time.
LEMMA LockCacheTimeoutInv ==
  ASSUME IndInv, NEW c \in Calls, LockCacheTimeout(c)
  PROVE  IndInv'
<1>1. /\ pc[c] = "lock_cache" /\ Return(c) /\ emptied' = [emptied EXCEPT ![c] = {}]
      /\ UNCHANGED <<cache, cacheOwner, mapOwner, content, todo, target>>
  BY Zenon DEF LockCacheTimeout
<1>2. todo[c] = {} /\ ~HoldsCacheLock(c)
  BY Zenon, <1>1 DEF IndInv, CallShape, HoldsCacheLock
<1>3. /\ emptied' \in [Calls -> SUBSET (Roots \X Entries)] /\ emptied'[c] = {}
      /\ \A d \in Calls \ {c} : emptied'[d] = emptied[d]
  BY Zenon, <1>1 DEF IndInv, TypeOK
<1>4. content' \in [Entries -> [Slots -> Kinds \cup {"absent"}]] /\ NoStateIsLost'
  BY Zenon, <1>1 DEF IndInv, TypeOK, NoStateIsLost, IsEmpty, Cached
<1>5. mapOwner' = [e \in Entries |-> IF mapOwner[e] = c THEN None ELSE mapOwner[e]]
  BY Zenon, <1>1, NoMapLock
<1>6. UNCHANGED <<cache, cacheOwner, todo, target>>
  BY Zenon, <1>1
<1>. QED BY Zenon, <1>1, <1>2, <1>3, <1>4, <1>5, <1>6, ReturnInv

\* strong_count = 2 while the cache and the caller hold references means that
\* nobody else does (state_cache.rs:331).
LEMMA TwoHolders ==
  ASSUME TypeOK, NEW c \in Calls, NEW e \in Entries, Cached(e), e \in Handles(c),
         StrongCount(e) = 2
  PROVE  \A d \in Calls \ {c} : e \notin Handles(d)
<1>1. IsFiniteSet(Holders(e))
  <2>1. IsFiniteSet({d \in Calls : e \in Handles(d)})
    BY Zenon, CallsAssumption, FS_Subset
  <2>2. IsFiniteSet({d \in Calls : e \in Handles(d)} \cup {None})
    BY Zenon, <2>1, FS_AddElement
  <2>. QED BY Zenon, <2>2 DEF Holders
<1>2. IsFiniteSet({c, None}) /\ Cardinality({c, None}) = 2
  <2>1. IsFiniteSet({c}) /\ Cardinality({c}) = 1
    BY Zenon, FS_Singleton
  <2>2. None \notin {c} /\ {c, None} = {c} \cup {None}
    BY Zenon, CallsAssumption
  <2>3. IsFiniteSet({c} \cup {None}) /\ Cardinality({c} \cup {None}) = Cardinality({c}) + 1
    BY Zenon, <2>1, <2>2, FS_AddElement
  <2>. QED BY <2>1, <2>2, <2>3
<1>3. {c, None} \subseteq Holders(e)
  BY Zenon DEF Holders
<1>4. {c, None} = Holders(e)
  BY Zenon, <1>1, <1>2, <1>3, FS_Subset DEF StrongCount
<1>. QED BY Zenon, <1>4, CallsAssumption DEF Holders

\* A removal has been decided on: the entry stays, or it goes while it is
\* empty and the remover is the only call with a reference to it.
LEMMA DecidedInv ==
  ASSUME IndInv, NEW c \in Calls, NEW p \in Roots \X Entries,
         pc[c] \in {"removing", "check_empty"}, p \in Doomed(c), Decided(c, p),
         UNCHANGED <<cacheOwner, mapOwner, content, req, parent, entry, todo>>,
         \/ cache' = cache
         \/ /\ cache' = [cache EXCEPT ![p[1]] = None]
            /\ cache[p[1]] = p[2]
            /\ IsEmpty(p[2])
            /\ \A d \in Calls \ {c} : p[2] \notin Handles(d)
  PROVE  IndInv'
<1>. USE CallsAssumption, EntriesAssumption DEF IndInv
<1>1. /\ p[1] \in Roots /\ p[2] \in Entries /\ p = <<p[1], p[2]>>
      /\ emptied' = [emptied EXCEPT ![c] = @ \ {p}]
      /\ target' = [target EXCEPT ![c] = None]
      /\ pc' = [pc EXCEPT ![c] = IF Doomed(c) = {p} THEN "unlock" ELSE "removing"]
  BY DEF Decided, Goto
<1>2. TypeOK'
  BY Zenon, <1>1 DEF TypeOK, PCs
<1>3. /\ Others(c) /\ emptied'[c] = emptied[c] \ {p}
      /\ pc'[c] = IF Doomed(c) = {p} THEN "unlock" ELSE "removing"
  BY Zenon, <1>1 DEF Others, TypeOK
<1>4. CallShape(c)'
  BY Zenon, <1>3 DEF CallShape, Doomed
<1>5. /\ cacheOwner = c
      /\ todo[c] = {} /\ \A d \in Calls \ {c} : pc[d] # "check_empty"
  BY DEF LocksHeld, HoldsCacheLock, CallShape
<1>6. \A r \in Roots : cache'[r] = cache[r] \/ r = p[1]
  BY Zenon, <1>1 DEF TypeOK
<1>7. HandlesCached(c)'
  <2>1. ASSUME entry'[c] # None PROVE pc'[c] = "unlock" \/ cache'[req'[c].root] = entry'[c]
    BY Zenon, <2>1, <1>3 DEF CallShape, Doomed
  <2>2. ASSUME NEW q \in emptied[c] \ {p} PROVE cache'[q[1]] = q[2]
    <3>1. q \in Roots \X Entries /\ cache[q[1]] = q[2] /\ q = <<q[1], q[2]>>
      BY DEF HandlesCached, TypeOK
    <3>. QED BY Zenon, <1>1, <1>6, <3>1
  <2>. QED BY Zenon, <2>1, <2>2, <1>3, <1>5 DEF HandlesCached
<1>8. ASSUME NEW d \in Calls, d # c PROVE CallShape(d)' /\ HandlesCached(d)'
  <2>1. CASE cache' = cache
    BY Zenon, <1>3, <1>8, <2>1, OthersKeep
  <2>2. CASE cache' # cache
    <3>1. /\ pc'[d] = pc[d] /\ req'[d] = req[d] /\ entry'[d] = entry[d]
          /\ todo'[d] = todo[d] /\ emptied'[d] = emptied[d] /\ target'[d] = target[d]
      BY Zenon, <1>3, <1>8 DEF Others
    <3>2. CallShape(d)'
      BY Zenon, <3>1 DEF CallShape, Doomed
    <3>3. p[2] \notin Handles(d) /\ cache[p[1]] = p[2]
      BY Zenon, <2>2, <1>8
    <3>4. entry[d] # None => req[d].root \in Roots /\ entry[d] # p[2]
      BY Zenon, <3>3, RequestFields DEF CallShape, Handles
    <3>5. ASSUME NEW q \in todo[d] \cup emptied[d] PROVE q[1] \in Roots /\ q[2] # p[2]
      BY <3>3 DEF Handles, TypeOK
    <3>6. HandlesCached(d)'
      BY <3>1, <3>3, <3>4, <3>5, <1>6 DEF HandlesCached
    <3>. QED BY Zenon, <3>2, <3>6
  <2>. QED BY Zenon, <2>1, <2>2
<1>9. \A d \in Calls : SoleHolder(d)'
  BY <1>3, <1>5 DEF SoleHolder, Others
<1>10. LocksHeld'
  BY <1>3 DEF LocksHeld, HoldsCacheLock, Others
<1>11. CacheInjective'
  BY <1>1 DEF CacheInjective, TypeOK
<1>12. NoStateIsLost'
  BY <1>1, <1>6 DEF NoStateIsLost, IsEmpty, Cached
<1>. QED BY Zenon, <1>2, <1>4, <1>7, <1>8, <1>9, <1>10, <1>11, <1>12

\* prune_unused looks at one entry under the write lock.
LEMMA CheckUnusedInv ==
  ASSUME IndInv, NEW c \in Calls, NEW p \in Roots \X Entries, CheckUnused(c, p)
  PROVE  IndInv'
<1>1. /\ pc[c] = "removing" /\ p \in Doomed(c)
      /\ UNCHANGED <<cache, cacheOwner, mapOwner, content, req, parent, entry, todo>>
  BY Zenon DEF CheckUnused
<1>2. CASE ~(cache[p[1]] = p[2] /\ StrongCount(p[2]) = 2)
  BY Zenon, <1>1, <1>2, DecidedInv DEF CheckUnused
<1>3. CASE cache[p[1]] = p[2] /\ StrongCount(p[2]) = 2
  <2>. USE CallsAssumption, EntriesAssumption DEF IndInv
  <2>1. /\ target' = [target EXCEPT ![c] = p] /\ pc' = [pc EXCEPT ![c] = "check_empty"]
        /\ emptied' = emptied
    BY Zenon, <1>3 DEF CheckUnused, Goto
  <2>2. TypeOK'
    BY Zenon, <1>1, <2>1 DEF TypeOK, PCs
  <2>3. Others(c) /\ pc'[c] = "check_empty" /\ target'[c] = p
    BY Zenon, <1>1, <2>1 DEF Others, TypeOK
  <2>4. ASSUME NEW d \in Calls PROVE CallShape(d)' /\ HandlesCached(d)'
    <3>1. CASE d = c
      BY Zenon, <3>1, <1>1, <2>1, <2>3 DEF CallShape, HandlesCached, Doomed
    <3>2. CASE d # c
      BY Zenon, <3>2, <1>1, <2>3, OthersKeep
    <3>. QED BY Zenon, <3>1, <3>2
  <2>5. p[2] \in Handles(c)
    BY <1>1 DEF Doomed, Handles, CallShape
  <2>6. \A d \in Calls \ {c} : p[2] \notin Handles(d)
    BY Zenon, <1>3, <2>5, TwoHolders DEF Cached
  <2>7. \A d \in Calls : Handles(d)' = Handles(d)
    BY Zenon, <1>1, <2>1 DEF Handles
  <2>8. \A d \in Calls : SoleHolder(d)'
    BY <1>1, <1>3, <2>3, <2>6, <2>7 DEF SoleHolder, Others
  <2>9. LocksHeld'
    BY <1>1, <2>1, <2>3 DEF LocksHeld, HoldsCacheLock, Others
  <2>10. CacheInjective' /\ NoStateIsLost'
    BY Zenon, <1>1 DEF CacheInjective, NoStateIsLost, IsEmpty, Cached
  <2>. QED BY Zenon, <2>2, <2>4, <2>8, <2>9, <2>10
<1>. QED BY Zenon, <1>2, <1>3

\* prune_unused removes an entry that is empty and that nobody else holds.
LEMMA CheckEmptyInv ==
  ASSUME IndInv, NEW c \in Calls, CheckEmpty(c)
  PROVE  IndInv'
<1>. DEFINE p == target[c]
<1>1. /\ pc[c] = "check_empty" /\ Decided(c, p)
      /\ UNCHANGED <<cacheOwner, mapOwner, content, req, parent, entry, todo>>
      /\ \/ cache' = cache
         \/ cache' = [cache EXCEPT ![p[1]] = None] /\ IsEmpty(p[2])
  BY Zenon DEF CheckEmpty
<1>2. p \in Doomed(c)
  BY Zenon, <1>1 DEF IndInv, CallShape
<1>3. p \in Roots \X Entries
  BY <1>1, <1>2, RequestFields DEF IndInv, CallShape, Doomed, TypeOK
<1>4. cache[p[1]] = p[2] /\ \A d \in Calls \ {c} : p[2] \notin Handles(d)
  BY Zenon, <1>1 DEF IndInv, SoleHolder
<1>. QED BY Zenon, <1>1, <1>2, <1>3, <1>4, DecidedInv

\* The write lock is released.
LEMMA UnlockCacheInv ==
  ASSUME IndInv, NEW c \in Calls, UnlockCache(c)
  PROVE  IndInv'
<1>. USE CallsAssumption, EntriesAssumption DEF IndInv
<1>1. /\ pc[c] = "unlock" /\ cacheOwner' = None /\ Return(c)
      /\ UNCHANGED <<cache, mapOwner, content, todo, emptied, target>>
  BY Zenon DEF UnlockCache
<1>2. TypeOK'
  BY Zenon, <1>1 DEF TypeOK, Return, Goto, PCs
<1>3. /\ Others(c) /\ pc'[c] = "idle" /\ entry'[c] = None /\ todo[c] = {} /\ emptied[c] = {}
      /\ cacheOwner = c
  BY <1>1 DEF Others, TypeOK, Return, Goto, CallShape, LocksHeld, HoldsCacheLock
<1>4. ASSUME NEW d \in Calls PROVE CallShape(d)' /\ HandlesCached(d)'
  <2>1. CASE d = c
    BY Zenon, <2>1, <1>1, <1>3 DEF CallShape, HandlesCached
  <2>2. CASE d # c
    BY Zenon, <2>2, <1>1, <1>3, OthersKeep
  <2>. QED BY Zenon, <2>1, <2>2
<1>5. \A d \in Calls : SoleHolder(d)'
  BY Zenon, <1>1, <1>3 DEF SoleHolder, Others, LocksHeld, HoldsCacheLock
<1>6. LocksHeld'
  BY <1>1, <1>3 DEF LocksHeld, HoldsCacheLock, Others
<1>7. CacheInjective' /\ NoStateIsLost'
  BY Zenon, <1>1 DEF CacheInjective, NoStateIsLost, IsEmpty, Cached
<1>. QED BY Zenon, <1>2, <1>4, <1>5, <1>6, <1>7

\* Every step keeps the invariant.
LEMMA NextIndInv == IndInv /\ [Next]_vars => IndInv'
<1>. SUFFICES ASSUME IndInv, [Next]_vars PROVE IndInv'
  BY Zenon
<1>1. CASE UNCHANGED vars
  BY <1>1 DEF vars, IndInv, TypeOK, CallShape, HandlesCached, SoleHolder, Handles, Doomed,
              CacheInjective, LocksHeld, HoldsCacheLock, NoStateIsLost, IsEmpty, Cached
<1>2. ASSUME NEW c \in Calls, NEW q \in Requests, Start(c, q) \/ \E d \in Calls : Nest(c, d, q)
      PROVE  IndInv'
  BY Zenon, <1>2, CallInv DEF Start, Nest
<1>3. ASSUME NEW c \in Calls, Step(c) PROVE IndInv'
  BY Zenon, <1>3, GetByRootInv, GetOrInitByRootInv, SnapshotInv, LookupTimeoutInv, ReadMapInv,
     InsertInv, LockMapInv, MapTimeoutInv, ComputedInv, FailedInv, NotFoundInv, BypassedInv,
     PruneEntryInv, CheckUnusedInv, PruneDoneInv, LockCacheInv, LockCacheTimeoutInv,
     CheckEmptyInv, UnlockCacheInv DEF Step
<1>. QED BY Zenon, <1>1, <1>2, <1>3 DEF Next

\* IndInv is an inductive invariant of the cache.
THEOREM Invariance == Spec => []IndInv
<1>. QED BY InitIndInv, NextIndInv, PTL DEF Spec

\* The type invariant holds for every number of calls, roots and entries.
THEOREM TypeCorrect == Spec => []TypeOK
<1>1. IndInv => TypeOK
  BY Zenon DEF IndInv
<1>. QED BY <1>1, Invariance, PTL

\* No prune and no failed query takes an entry out of the cache while another
\* call holds it to read it or to store into it.
THEOREM HeldEntriesStayCached == Spec => []HeldEntryIsCached
<1>1. IndInv => HeldEntryIsCached
  BY Zenon, EntryCached DEF HeldEntryIsCached
<1>. QED BY <1>1, Invariance, PTL

\* A state stored by any call can be found through the cache.
THEOREM StatesStayReachable == Spec => []NoStateIsLost
<1>1. IndInv => NoStateIsLost
  BY Zenon DEF IndInv
<1>. QED BY <1>1, Invariance, PTL

-----------------------------------------------------------------------------
(***************************************************************************)
(* What a query computes was missing.                                      *)
(***************************************************************************)

\* While a closure runs, it is a query's, and the map that the query has locked
\* has no state that would have answered it.
Missing(c) ==
  LET found == content[entry[c]][req[c].slot]
  IN  /\ req[c].op \in {"process", "try"}
      /\ found = "absent" \/ (found = "bare" /\ KindOf(req[c]) = "rewarded")

ComputesMissing == \A c \in Calls : pc[c] = "compute" => Missing(c)

\* Nobody else touches a map that is locked, or the call that has locked it.
LEMMA LockedIsKept ==
  ASSUME IndInv, NEW c \in Calls, Step(c) \/ \E q \in Requests : Start(c, q) \/ \E d \in Calls : Nest(c, d, q),
         NEW d \in Calls, d # c, pc[d] = "compute"
  PROVE  content'[entry[d]] = content[entry[d]] /\ req'[d] = req[d] /\ entry'[d] = entry[d]
<1>. DEFINE Kept == content'[entry[d]] = content[entry[d]] /\ req'[d] = req[d] /\ entry'[d] = entry[d]
<1>1. /\ entry[d] \in Entries /\ mapOwner[entry[d]] = d /\ d # None
      /\ req \in [Calls -> Requests \cup {None}] /\ entry \in [Calls -> Entries \cup {None}]
      /\ content \in [Entries -> [Slots -> Kinds \cup {"absent"}]]
  <2>1. entry[d] \in Entries /\ d # None
    BY Zenon, EntryCached, CallsAssumption
  <2>2. mapOwner[entry[d]] = d
    BY Zenon, <2>1 DEF IndInv, LocksHeld
  <2>. QED BY Zenon, <2>1, <2>2 DEF IndInv, TypeOK
<1>. USE DEF Goto, Return
<1>2. CASE GetByRoot(c) \/ LookupTimeout(c) \/ ReadMap(c) \/ LockMap(c) \/ MapTimeout(c)
  BY Zenon, <1>1, <1>2 DEF GetByRoot, LookupTimeout, ReadMap, LockMap, MapTimeout
<1>3. CASE Failed(c) \/ NotFound(c) \/ Bypassed(c) \/ LockCache(c) \/ Snapshot(c) \/ PruneDone(c)
  BY Zenon, <1>1, <1>3 DEF Failed, NotFound, Bypassed, LockCache, Snapshot, PruneDone
<1>4. CASE LockCacheTimeout(c) \/ UnlockCache(c) \/ CheckEmpty(c) \/ \E p \in Roots \X Entries : CheckUnused(c, p)
  BY Zenon, <1>1, <1>4 DEF LockCacheTimeout, UnlockCache, CheckEmpty, CheckUnused
<1>5. CASE \E q \in Requests : Start(c, q) \/ \E e \in Calls : Nest(c, e, q)
  BY Zenon, <1>1, <1>5 DEF Start, Nest, Call
<1>6. CASE GetOrInitByRoot(c)
  <2>1. entry[d] \in Handles(d)
    BY Zenon, <1>1, EntriesAssumption DEF Handles
  <2>2. \A e \in Entries : Holders(e) = {} => e # entry[d]
    BY Zenon, <2>1 DEF Holders
  <2>. QED BY Zenon, <1>1, <1>6, <2>2 DEF GetOrInitByRoot
<1>7. CASE Insert(c)
  <2>1. mapOwner[entry[c]] = None
    BY Zenon, <1>7 DEF Insert
  <2>2. entry[c] # entry[d]
    BY Zenon, <1>1, <2>1
  <2>. QED BY Zenon, <1>1, <1>7, <2>2 DEF Insert, Put
<1>8. CASE Computed(c)
  <2>1. pc[c] = "compute"
    BY Zenon, <1>8 DEF Computed, At
  <2>2. entry[c] \in Entries /\ mapOwner[entry[c]] = c
    BY Zenon, <2>1, EntryCached DEF IndInv, LocksHeld
  <2>3. entry[c] # entry[d]
    BY Zenon, <1>1, <2>2
  <2>. QED BY Zenon, <1>1, <1>8, <2>3 DEF Computed, Put
<1>9. ASSUME NEW p \in Roots \X Entries, PruneEntry(c, p) PROVE Kept
  <2>1. p[2] = entry[d] => content' = content
    BY Zenon, <1>1, <1>9 DEF PruneEntry
  <2>2. req' = req /\ entry' = entry
    BY Zenon, <1>9 DEF PruneEntry
  <2>3. p[2] # entry[d] => content'[entry[d]] = content[entry[d]]
    BY Zenon, <1>1, <1>9 DEF PruneEntry
  <2>. QED BY Zenon, <2>1, <2>2, <2>3
<1>. QED BY Zenon, <1>2, <1>3, <1>4, <1>5, <1>6, <1>7, <1>8, <1>9 DEF Step

\* A closure begins to run when its query has found nothing in the map.
LEMMA ComputesOnMiss ==
  ASSUME IndInv, NEW c \in Calls, LockMap(c), pc'[c] = "compute"
  PROVE  Missing(c)'
<1>1. /\ ~Hit(c) /\ pc[c] = "lock_map" /\ req[c].op \in {"process", "try"}
      /\ entry' = entry /\ req' = req /\ content' = content
  BY Zenon DEF LockMap, Return, Goto, IndInv, TypeOK
<1>2. /\ entry[c] \in Entries /\ req[c].slot \in Slots
      /\ content[entry[c]][req[c].slot] \in Kinds \cup {"absent"}
  <2>1. entry[c] \in Entries /\ req[c].slot \in Slots
    BY Zenon, <1>1, EntryCached
  <2>2. content \in [Entries -> [Slots -> Kinds \cup {"absent"}]]
    BY Zenon DEF IndInv, TypeOK
  <2>. QED BY Zenon, <2>1, <2>2
<1>3. \A s \in Slots : s <= s /\ s >= s /\ \A t \in Slots : ~(t <= s /\ t > s)
  BY SlotsAssumption
<1>4. ASSUME content[entry[c]][req[c].slot] # "absent" PROVE req[c].slot \in Prev(entry[c], req[c].slot)
  BY Zenon, <1>2, <1>4, <1>3 DEF Prev
<1>5. req[c].slot >= req[c].slot
  BY Zenon, <1>2, <1>3
<1>6. content[entry[c]][req[c].slot] # "absent" =>
        content[entry[c]][req[c].slot] # "rewarded" /\ ~IgnoresMissingRewards(req[c])
  BY Zenon, <1>1, <1>4, <1>5 DEF Hit
<1>. QED BY Zenon, <1>1, <1>2, <1>6 DEF Missing, KindOf, Kinds

\* A step is one call's.
LEMMA StepOfOne ==
  ASSUME IndInv, NEW c \in Calls, Step(c) \/ \E q \in Requests : Start(c, q) \/ \E d \in Calls : Nest(c, d, q)
  PROVE  \A d \in Calls \ {c} : pc'[d] = pc[d]
<1>1. pc \in [Calls -> PCs]
  BY Zenon DEF IndInv, TypeOK
<1>. USE DEF Goto, Return
<1>2. CASE GetByRoot(c) \/ LookupTimeout(c) \/ ReadMap(c) \/ MapTimeout(c) \/ GetOrInitByRoot(c) \/ Insert(c) \/ LockMap(c)
  BY Zenon, <1>1, <1>2 DEF GetByRoot, LookupTimeout, ReadMap, MapTimeout, GetOrInitByRoot, Insert, LockMap
<1>3. CASE Failed(c) \/ NotFound(c) \/ Bypassed(c) \/ LockCache(c) \/ Snapshot(c) \/ PruneDone(c) \/ Computed(c)
  BY Zenon, <1>1, <1>3 DEF Failed, NotFound, Bypassed, LockCache, Snapshot, PruneDone, Computed
<1>4. CASE LockCacheTimeout(c) \/ UnlockCache(c) \/ CheckEmpty(c)
  BY Zenon, <1>1, <1>4 DEF LockCacheTimeout, UnlockCache, CheckEmpty, Decided
<1>5. CASE \E p \in Roots \X Entries : CheckUnused(c, p) \/ PruneEntry(c, p)
  BY Zenon, <1>1, <1>5 DEF CheckUnused, Decided, PruneEntry
<1>6. CASE \E q \in Requests : Start(c, q) \/ \E d \in Calls : Nest(c, d, q)
  BY Zenon, <1>1, <1>6 DEF Start, Nest, Call
<1>. QED BY Zenon, <1>2, <1>3, <1>4, <1>5, <1>6 DEF Step

\* No other step makes a closure run.
LEMMA OnlyLockMapComputes ==
  ASSUME IndInv, NEW c \in Calls, Step(c) \/ \E q \in Requests : Start(c, q) \/ \E d \in Calls : Nest(c, d, q),
         pc'[c] = "compute"
  PROVE  LockMap(c)
<1>1. pc \in [Calls -> PCs]
  BY Zenon DEF IndInv, TypeOK
<1>. USE DEF Goto, Return
<1>2. ~(GetByRoot(c) \/ LookupTimeout(c) \/ ReadMap(c) \/ MapTimeout(c) \/ GetOrInitByRoot(c) \/ Insert(c))
  BY Zenon, <1>1 DEF GetByRoot, LookupTimeout, ReadMap, MapTimeout, GetOrInitByRoot, Insert
<1>3. ~(Failed(c) \/ NotFound(c) \/ Bypassed(c) \/ LockCache(c) \/ Snapshot(c) \/ PruneDone(c) \/ Computed(c))
  BY Zenon, <1>1 DEF Failed, NotFound, Bypassed, LockCache, Snapshot, PruneDone, Computed
<1>4. ~(LockCacheTimeout(c) \/ UnlockCache(c) \/ CheckEmpty(c))
  BY Zenon, <1>1 DEF LockCacheTimeout, UnlockCache, CheckEmpty, Decided
<1>5. ~\E p \in Roots \X Entries : CheckUnused(c, p) \/ PruneEntry(c, p)
  BY Zenon, <1>1 DEF CheckUnused, Decided, PruneEntry
<1>6. ~\E q \in Requests : Start(c, q) \/ \E d \in Calls : Nest(c, d, q)
  BY Zenon, <1>1 DEF Start, Nest, Call
<1>. QED BY Zenon, <1>2, <1>3, <1>4, <1>5, <1>6 DEF Step

\* What a closure computes is missing for as long as it runs.
LEMMA ComputesMissingInv == IndInv /\ ComputesMissing /\ [Next]_vars => ComputesMissing'
<1>. SUFFICES ASSUME IndInv, ComputesMissing, [Next]_vars, NEW d \in Calls, pc'[d] = "compute"
              PROVE  Missing(d)'
  BY Zenon DEF ComputesMissing
<1>1. CASE UNCHANGED vars
  BY Zenon, <1>1 DEF vars, ComputesMissing, Missing
<1>2. ASSUME NEW c \in Calls, Step(c) \/ \E q \in Requests : Start(c, q) \/ \E e \in Calls : Nest(c, e, q)
      PROVE  Missing(d)'
  <2>1. CASE c = d
    BY Zenon, <1>2, <2>1, OnlyLockMapComputes, ComputesOnMiss
  <2>2. CASE c # d
    <3>1. pc[d] = "compute"
      BY Zenon, <1>2, <2>2, StepOfOne
    <3>2. content'[entry[d]] = content[entry[d]] /\ req'[d] = req[d] /\ entry'[d] = entry[d]
      BY Zenon, <1>2, <2>2, <3>1, LockedIsKept
    <3>. QED BY Zenon, <3>1, <3>2 DEF ComputesMissing, Missing
  <2>. QED BY Zenon, <2>1, <2>2
<1>. QED BY Zenon, <1>1, <1>2 DEF Next

-----------------------------------------------------------------------------
(***************************************************************************)
(* The cache implements AtomicStateCache.                                  *)
(***************************************************************************)

\* The states in the cache follow from the map and the contents of its entries.
LEMMA SameStates ==
  ASSUME UNCHANGED <<cache, content>>
  PROVE  CachedStates' = CachedStates
BY Zenon DEF CachedStates

\* A step inside a call.
LEMMA SameRunning ==
  ASSUME NEW c \in Calls, pc[c] # "idle", pc'[c] # "idle", req' = req,
         \A d \in Calls \ {c} : pc'[d] = pc[d]
  PROVE  Running' = Running
BY Zenon DEF Running

\* The return of a call.
LEMMA ReturnEnds ==
  ASSUME IndInv, NEW c \in Calls, pc[c] # "idle", Return(c)
  PROVE  Atomic!Return(c)
<1>1. pc \in [Calls -> PCs] /\ req \in [Calls -> Requests \cup {None}] /\ req[c] \in Requests
  BY Zenon DEF IndInv, TypeOK, CallShape
<1>2. pc'[c] = "idle" /\ \A d \in Calls \ {c} : pc'[d] = pc[d] /\ req'[d] = req[d]
  BY Zenon, <1>1 DEF Return, Goto
<1>3. Running[c] # None
  BY Zenon, <1>1, RequestsAssumption DEF Running
<1>4. \A d \in Calls : Running'[d] = [Running EXCEPT ![c] = None][d]
  BY Zenon, <1>2 DEF Running
<1>. QED BY Zenon, <1>3, <1>4 DEF Atomic!Return, Running

\* Storing into the entry of the call's block, and returning, is one atomic Store.
LEMMA PutIsStore ==
  ASSUME IndInv, NEW c \in Calls, pc[c] \in {"lock_map", "compute"}, NEW k \in Kinds,
         Put(entry[c], req[c].slot, k), cache' = cache, Return(c)
  PROVE  Running[c] = req[c] /\ Running[c] # None /\ Atomic!Store(c, k)
<1>. DEFINE r == req[c].root
            s == req[c].slot
<1>1. /\ r \in Roots /\ s \in Slots /\ entry[c] \in Entries /\ cache[r] = entry[c]
      /\ req[c] \in Requests
  BY Zenon, EntryCached
<1>2. Running[c] = req[c] /\ Running[c] # None /\ pc[c] # "idle"
  BY Zenon, <1>1, RequestsAssumption DEF Running
<1>3. Atomic!Return(c)
  BY Zenon, <1>2, ReturnEnds
<1>4. \A t \in Roots : t # r => cache[t] # cache[r]
  BY Zenon, <1>1, EntriesAssumption DEF IndInv, CacheInjective
<1>5. content' = [content EXCEPT ![cache[r]] = [@ EXCEPT ![s] = k]]
  BY Zenon, <1>1 DEF Put
<1>6. \A t \in Roots : CachedStates'[t] = [CachedStates EXCEPT ![r][s] = k][t]
  BY Zenon, <1>1, <1>4, <1>5, EntriesAssumption DEF CachedStates, IndInv, TypeOK
<1>7. CachedStates' = [CachedStates EXCEPT ![r][s] = k]
  BY Zenon, <1>6 DEF CachedStates
<1>. QED BY Zenon, <1>2, <1>3, <1>7 DEF Atomic!Store

\* The empty cache is the atomic cache's initial state.
LEMMA InitRefines == Init => Atomic!Init
BY Zenon DEF Init, Atomic!Init, CachedStates, NoStates, Atomic!NoStates, Running

\* A call is invoked.
LEMMA CallRefines ==
  ASSUME IndInv, NEW c \in Calls, NEW q \in Requests, NEW p, Call(c, q, p)
  PROVE  Atomic!Call(c, q)
<1>1. pc \in [Calls -> PCs] /\ req \in [Calls -> Requests \cup {None}]
  BY Zenon DEF IndInv, TypeOK
<1>2. /\ pc[c] = "idle" /\ pc'[c] # "idle" /\ req'[c] = q /\ UNCHANGED <<cache, content>>
      /\ \A d \in Calls \ {c} : pc'[d] = pc[d] /\ req'[d] = req[d]
  BY Zenon, <1>1 DEF Call, Goto
<1>3. Running[c] = None /\ \A d \in Calls : Running'[d] = [Running EXCEPT ![c] = q][d]
  BY Zenon, <1>2 DEF Running
<1>. QED BY Zenon, <1>2, <1>3, SameStates DEF Atomic!Call, Running

\* The steps within a call that touch no state.
LEMMA QuietSteps ==
  ASSUME IndInv, NEW c \in Calls,
         \/ GetByRoot(c) \/ LookupTimeout(c) \/ ReadMap(c) \/ LockMap(c) \/ MapTimeout(c)
         \/ Failed(c) \/ NotFound(c) \/ Bypassed(c) \/ LockCache(c) \/ LockCacheTimeout(c)
         \/ UnlockCache(c) \/ Snapshot(c) \/ PruneDone(c) \/ \E p \in Roots \X Entries : CheckUnused(c, p)
  PROVE  Atomic!Next \/ UNCHANGED Atomic!vars
<1>1. pc \in [Calls -> PCs]
  BY Zenon DEF IndInv, TypeOK
<1>. DEFINE Goes == pc'[c] # "idle" /\ req' = req /\ \A d \in Calls \ {c} : pc'[d] = pc[d]
<1>2. pc[c] # "idle" /\ UNCHANGED <<cache, content>> /\ (Goes \/ Return(c))
  <2>1. CASE GetByRoot(c) \/ LookupTimeout(c) \/ ReadMap(c) \/ LockMap(c) \/ MapTimeout(c)
    BY Zenon, <1>1, <2>1 DEF GetByRoot, LookupTimeout, ReadMap, LockMap, MapTimeout, Goto
  <2>2. CASE Failed(c) \/ NotFound(c) \/ Bypassed(c) \/ LockCache(c)
    BY Zenon, <1>1, <2>2 DEF Failed, NotFound, Bypassed, LockCache, At, Goto
  <2>3. CASE LockCacheTimeout(c) \/ UnlockCache(c) \/ Snapshot(c) \/ PruneDone(c)
    BY Zenon, <1>1, <2>3 DEF LockCacheTimeout, UnlockCache, Snapshot, PruneDone, Goto
  <2>4. CASE \E p \in Roots \X Entries : CheckUnused(c, p)
    BY Zenon, <1>1, <2>4 DEF CheckUnused, Decided, Goto
  <2>. QED BY Zenon, <2>1, <2>2, <2>3, <2>4
<1>3. CachedStates' = CachedStates
  BY Zenon, <1>2, SameStates
<1>4. Running' = Running \/ Atomic!Return(c)
  BY Zenon, <1>2, SameRunning, ReturnEnds
<1>. QED BY Zenon, <1>3, <1>4 DEF Atomic!vars, Atomic!Next

\* A new entry is empty: the atomic cache does not notice.
LEMMA GetOrInitRefines ==
  ASSUME IndInv, NEW c \in Calls, GetOrInitByRoot(c)
  PROVE  UNCHANGED Atomic!vars
<1>1. req[c].root \in Roots
  BY Zenon, RequestFields DEF GetOrInitByRoot, IndInv, CallShape
<1>2. PICK e \in Entries :
        \/ UNCHANGED <<cache, content>>
        \/ /\ cache[req[c].root] = None
           /\ Holders(e) = {}
           /\ cache' = [cache EXCEPT ![req[c].root] = e]
           /\ content' = [content EXCEPT ![e] = NoStates]
  BY Zenon DEF GetOrInitByRoot
<1>3. CachedStates' = CachedStates
  <2>1. CASE UNCHANGED <<cache, content>>
    BY Zenon, <2>1, SameStates
  <2>2. CASE /\ cache[req[c].root] = None
             /\ Holders(e) = {}
             /\ cache' = [cache EXCEPT ![req[c].root] = e]
             /\ content' = [content EXCEPT ![e] = NoStates]
    <3>1. \A t \in Roots : cache[t] # e
      BY Zenon, <2>2 DEF Holders, Cached
    <3>2. \A t \in Roots : CachedStates'[t] = CachedStates[t]
      BY Zenon, <1>1, <2>2, <3>1, EntriesAssumption DEF CachedStates, IndInv, TypeOK
    <3>. QED BY Zenon, <3>2 DEF CachedStates
  <2>. QED BY Zenon, <1>2, <2>1, <2>2
<1>4. Running' = Running
  BY Zenon, SameRunning DEF GetOrInitByRoot, Goto, IndInv, TypeOK
<1>. QED BY Zenon, <1>3, <1>4 DEF Atomic!vars

\* Storing a state is one step of the atomic cache.
LEMMA InsertRefines ==
  ASSUME IndInv, NEW c \in Calls, Insert(c)
  PROVE  Atomic!Insert(c)
<1>1. pc[c] = "lock_map" /\ req[c].op = "insert" /\ "bare" \in Kinds
  BY Zenon DEF Insert, Kinds
<1>2. Running[c] = req[c] /\ Running[c] # None /\ Atomic!Store(c, "bare")
  BY Zenon, <1>1, PutIsStore DEF Insert
<1>. QED BY Zenon, <1>1, <1>2 DEF Atomic!Insert, Atomic!Is

\* Storing a computed state is a step of the atomic cache, as the state was
\* missing; a result that is not stored changes nothing.
LEMMA ComputedRefines ==
  ASSUME IndInv, ComputesMissing, NEW c \in Calls, Computed(c)
  PROVE  Atomic!Next \/ UNCHANGED Atomic!vars
<1>1. /\ pc[c] = "compute" /\ req[c].root \in Roots /\ req[c].slot \in Slots /\ entry[c] \in Entries
      /\ cache[req[c].root] = entry[c]
  BY Zenon, EntryCached DEF Computed, At
<1>2. CASE StoresResult(req[c])
  <2>1. /\ Put(entry[c], req[c].slot, KindOf(req[c])) /\ cache' = cache /\ Return(c)
        /\ KindOf(req[c]) \in Kinds
    BY Zenon, <1>2 DEF Computed, KindOf, Kinds
  <2>2. Running[c] = req[c] /\ Running[c] # None /\ Atomic!Store(c, KindOf(req[c]))
    BY Zenon, <1>1, <2>1, PutIsStore
  <2>3. CachedStates[req[c].root] = content[entry[c]]
    BY Zenon, <1>1, EntriesAssumption DEF CachedStates
  <2>4. Missing(c)
    BY Zenon, <1>1 DEF ComputesMissing
  <2>5. req[c].op \in {"process", "try"}
    BY Zenon, <2>4 DEF Missing
  <2>6. Atomic!Asked(req[c]) = KindOf(req[c])
    BY Zenon DEF Atomic!Asked, KindOf, IgnoresMissingRewards
  <2>7. Atomic!Remember(c)
    BY Zenon, <1>2, <2>2, <2>3, <2>4, <2>5, <2>6 DEF Missing, Atomic!Remember, Atomic!Is, StoresResult
  <2>. QED BY Zenon, <2>7 DEF Atomic!Next
<1>3. CASE ~StoresResult(req[c])
  <2>1. Atomic!Return(c)
    BY Zenon, <1>1, ReturnEnds DEF Computed
  <2>2. CachedStates' = CachedStates
    BY Zenon, <1>3, SameStates DEF Computed
  <2>. QED BY Zenon, <2>1, <2>2 DEF Atomic!Next
<1>. QED BY Zenon, <1>2, <1>3

\* Emptying one entry removes states that the prune may remove.
LEMMA PruneEntryRefines ==
  ASSUME IndInv, NEW c \in Calls, NEW p \in Roots \X Entries, PruneEntry(c, p)
  PROVE  Atomic!Next \/ UNCHANGED Atomic!vars
<1>1. p[1] \in Roots /\ p[2] \in Entries /\ cache[p[1]] = p[2] /\ cache' = cache
  BY Zenon DEF PruneEntry, IndInv, HandlesCached
<1>2. /\ Running' = Running /\ Running[c] = req[c] /\ req[c] \in Requests /\ req[c].op = "prune"
      /\ Running[c] # None
  BY Zenon, RequestsAssumption DEF PruneEntry, Running, IndInv, CallShape
<1>3. CASE mapOwner[p[2]] # None
  BY Zenon, <1>2, <1>3, SameStates DEF PruneEntry, Atomic!vars
<1>4. CASE mapOwner[p[2]] = None
  <2>. DEFINE r == p[1]
              after == Retained(req[c], r, content[p[2]])
  <2>1. content' = [content EXCEPT ![p[2]] = after]
    BY Zenon, <1>4 DEF PruneEntry
  <2>2. \A t \in Roots : t # r => cache[t] # p[2]
    BY Zenon, <1>1, EntriesAssumption DEF IndInv, CacheInjective
  <2>3. /\ CachedStates[r] = content[p[2]] /\ CachedStates'[r] = after
        /\ \A t \in Roots : t # r => CachedStates'[t] = CachedStates[t]
    BY <1>1, <2>1, <2>2, EntriesAssumption DEF CachedStates, IndInv, TypeOK
  <2>4. req[c].lastPruned \in Nat /\ \A s \in Slots : s \in Nat
    BY Zenon, <1>2, SlotsAssumption DEF Requests
  <2>5. after = [s \in Slots |-> IF Atomic!Drops(Running[c], r, s) THEN "absent"
                                 ELSE CachedStates[r][s]]
    BY <1>2, <2>3, <2>4 DEF Retained, Atomic!Drops
  <2>. HIDE DEF after
  <2>6. CachedStates' = [CachedStates EXCEPT ![r] = after]
    <3>1. \A t \in Roots : CachedStates'[t] = [CachedStates EXCEPT ![r] = after][t]
      BY Zenon, <1>1, <2>3 DEF CachedStates
    <3>. QED BY Zenon, <3>1 DEF CachedStates
  <2>7. Atomic!Prune(c, r)
    BY Zenon, <1>2, <2>5, <2>6 DEF Atomic!Prune, Atomic!Is
  <2>. QED BY Zenon, <1>1, <2>7 DEF Atomic!Next
<1>. QED BY Zenon, <1>3, <1>4

\* The removal of an entry is invisible: the entry has no states.
LEMMA CheckEmptyRefines ==
  ASSUME IndInv, NEW c \in Calls, CheckEmpty(c)
  PROVE  UNCHANGED Atomic!vars
<1>. DEFINE p == target[c]
<1>1. content' = content /\ pc[c] = "check_empty"
  BY Zenon DEF CheckEmpty
<1>2. p \in Doomed(c) /\ cache[p[1]] = p[2]
  BY Zenon, <1>1 DEF IndInv, CallShape, SoleHolder
<1>3. p \in Roots \X Entries
  BY <1>1, <1>2, RequestFields DEF IndInv, CallShape, Doomed, TypeOK
<1>4. CachedStates' = CachedStates
  <2>1. CASE cache' = cache
    BY Zenon, <1>1, <2>1, SameStates
  <2>2. CASE cache' = [cache EXCEPT ![p[1]] = None] /\ content[p[2]] = NoStates
    <3>1. p[1] \in Roots /\ p[2] # None
      BY Zenon, <1>3, EntriesAssumption
    <3>2. cache \in [Roots -> Entries \cup {None}]
      BY Zenon DEF IndInv, TypeOK
    <3>3. cache'[p[1]] = None /\ \A t \in Roots : t # p[1] => cache'[t] = cache[t]
      BY Zenon, <2>2, <3>1, <3>2
    <3>4. CachedStates'[p[1]] = NoStates /\ CachedStates[p[1]] = NoStates
      BY Zenon, <1>2, <2>2, <3>1, <3>3 DEF CachedStates
    <3>5. \A t \in Roots : t # p[1] => CachedStates'[t] = CachedStates[t]
      BY Zenon, <1>1, <3>3 DEF CachedStates
    <3>. QED BY <3>4, <3>5 DEF CachedStates
  <2>. QED BY Zenon, <2>1, <2>2 DEF CheckEmpty, IsEmpty
<1>5. Running' = Running
  <2>1. pc'[c] # "idle" /\ req' = req /\ \A d \in Calls \ {c} : pc'[d] = pc[d]
    BY Zenon DEF CheckEmpty, Decided, Goto, IndInv, TypeOK
  <2>. QED BY Zenon, <1>1, <2>1, SameRunning
<1>. QED BY Zenon, <1>4, <1>5 DEF Atomic!vars

\* Every step is a step of the atomic cache or leaves it alone.
LEMMA StepRefines ==
  ASSUME IndInv, ComputesMissing, [Next]_vars
  PROVE  [Atomic!Next]_(Atomic!vars)
<1>1. CASE UNCHANGED vars
  BY Zenon, <1>1 DEF vars, Atomic!vars, CachedStates, Running
<1>2. ASSUME NEW c \in Calls, Insert(c) \/ \E q \in Requests : Start(c, q) \/ \E d \in Calls : Nest(c, d, q)
      PROVE  Atomic!Next
  BY Zenon, <1>2, InsertRefines, CallRefines DEF Atomic!Next, Start, Nest
<1>3. ASSUME NEW c \in Calls, Step(c) PROVE Atomic!Next \/ UNCHANGED Atomic!vars
  BY Zenon, <1>2, <1>3, QuietSteps, GetOrInitRefines, ComputedRefines, PruneEntryRefines, CheckEmptyRefines DEF Step
<1>. QED BY Zenon, <1>1, <1>2, <1>3 DEF Next

\* The two-level locking is invisible to callers: every behaviour of the cache
\* is one of the atomic cache.
THEOREM Refinement == Spec => ImplementsAtomicCache
<1>1. Init => ComputesMissing
  BY Zenon DEF Init, ComputesMissing
<1>. QED BY <1>1, InitRefines, StepRefines, ComputesMissingInv, Invariance, PTL
        DEF Spec, ImplementsAtomicCache, Atomic!Spec
=============================================================================
