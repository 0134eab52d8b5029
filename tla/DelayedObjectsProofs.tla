------------------------ MODULE DelayedObjectsProofs ------------------------
(***************************************************************************)
(* What DelayedObjects guarantees for every tree of blocks, every set of   *)
(* objects that arrive and every bound on the queues.                      *)
(***************************************************************************)
EXTENDS DelayedObjects, WellFoundedInduction, FiniteSetTheorems, TLAPS

Stores == [slot : Nat, synced : BOOLEAN, finalized : Blocks, imported : SUBSET Blocks,
           rejected : SUBSET Blocks, columns : SUBSET (Blocks \X Nat),
           payloads : SUBSET Blocks, envelopes : SUBSET Blocks]

\* The blocks that columns are reconstructed or constructed for.
Constructing == started \union rebuilding

TypeOK ==
    /\ scenario \in Scenarios /\ store \in Stores
    /\ DOMAIN where = Objects
    /\ Constructing \subseteq Blocks

\* Something that an object at this place waits for is missing.
Awaits(s, p) ==
    /\ p.at \in Queues => p = Parked(p.at, p.key)
    /\ p.at = "untilBlock" => p.key \notin s.imported
    /\ p.at = "untilSlot" => p.key \in Nat /\ p.key > s.slot
    /\ p.at = "untilEnvelope" => p.key \notin s.payloads
    /\ p.at \in {"untilBlobs", "untilData"} => p.key \in Blocks /\ MissingColumns(s, p.key) # {}

\* The columns that the store lacks are promised or were constructed from the
\* engine's blobs, unless the block is too old.
Backed(b) ==
    Slot(b) >= FinalizedSlot(store) =>
        {b} \X MissingColumns(store, b) \subseteq promised \/ b \in fetched

Condemned(b) == \E a \in Ancestors[b] : Info[a].invalid

\* A snapshot of the store is behind it: the store has all its columns but the
\* ones that finalization has removed.
Behind(s) ==
    /\ s \in Stores /\ s.synced = store.synced /\ s.rejected \subseteq store.rejected
    /\ \A bc \in s.columns : bc \in store.columns \/ Slot(bc[1]) < FinalizedSlot(store)

\* A task judges by a snapshot, and the mutator may still act on what it says.
Judged(o, p) ==
    /\ p.at = "task" => Behind(p.snap)
    /\ p.at = "verifier" => o.kind = "attestation"
    /\ o.kind = "column" /\ p = Message("untilParent") => ~Info[o.root].gloas
    /\ o.kind = "block" /\ p = Message("reject") => Condemned(o.root)
    /\ o.kind = "block" /\ p = Message("accept") /\ ~Info[o.root].gloas => Backed(o.root)

Places == \A o \in Objects : Awaits(store, where[o]) /\ Judged(o, where[o])

\* Once synced, a reconstruction starts with a promise, and any other construction
\* with the engine's blobs.
StartedAreBacked == store.synced => \A b \in Constructing : Backed(b)

ImportedAreBacked == \A b \in store.imported : ~Info[b].gloas => Backed(b)

IInv == TypeOK /\ Places /\ StartedAreBacked /\ ImportedAreBacked /\ RejectedAreInvalid

-----------------------------------------------------------------------------
\* A set of natural numbers has a least one.
LEMMA LeastNatural ==
  ASSUME NEW T, T \subseteq Nat, T # {}
  PROVE  \E x \in T : \A y \in T : x <= y
<1> DEFINE R == OpToRel(<, Nat)
<1>1. IsWellFoundedOn(R, Nat)
  BY Zenon, NatLessThanWellFounded
<1>2. \A x, y \in Nat : <<y, x>> \in R <=> y < x
  BY Zenon DEF OpToRel
<1> HIDE DEF R
<1>3. PICK x \in T : \A y \in T : ~ (<<y, x>> \in R)
  BY Zenon, <1>1, WFMin
<1>4. \A y \in T : ~(y < x)
  BY Zenon, <1>2, <1>3
<1> QED
  BY <1>4

\* A set of columns has a last one.
LEMMA LastColumn ==
  ASSUME NEW S, S \subseteq Columns, S # {}
  PROVE  \E c \in S : \A d \in S : d <= c
<1> DEFINE T == {n \in Nat : \A d \in S : d <= n}
<1>1. S \subseteq Nat
  BY Zenon, ColumnsAssumption
<1>2. NumberOfColumns \in T
  BY <1>1, ColumnsAssumption
<1>3. PICK m \in T : \A n \in T : m <= n
  BY Zenon, <1>2, LeastNatural
<1>4. m \in Nat /\ \A d \in S : d <= m
  OBVIOUS
<1>5. CASE m \in S
  BY Zenon, <1>4, <1>5
<1>6. CASE m \notin S
  <2>1. \A d \in S : d <= m - 1 /\ m - 1 \in Nat
    BY <1>1, <1>4, <1>6
  <2>2. m - 1 \in T
    BY Zenon, <2>1
  <2>3. m <= m - 1
    BY Zenon, <1>3, <2>2
  <2> QED
    BY <1>4, <2>3
<1> QED
  BY Zenon, <1>5, <1>6

\* What the assumptions say of a block.
LEMMA Known ==
  ASSUME NEW b \in Blocks
  PROVE  /\ Parent(b) \in Blocks /\ Slot(b) \in Nat /\ Info[b].finalizes \in Blocks
         /\ Info[b].gloas \in BOOLEAN /\ Info[b].blobs \in BOOLEAN
         /\ Info[Parent(b)].gloas /\ Info[Parent(b)].blobs => Info[b].gloas
  BY Zenon, InfoAssumption DEF Parent, Slot

\* The fields of a store have their types.
LEMMA StoreFields ==
  ASSUME NEW s \in Stores
  PROVE  /\ s.slot \in Nat /\ s.synced \in BOOLEAN /\ s.finalized \in Blocks
         /\ s.imported \subseteq Blocks /\ s.rejected \subseteq Blocks
         /\ s.columns \subseteq Blocks \X Nat /\ FinalizedSlot(s) \in Nat
  BY Zenon, Known DEF Stores, FinalizedSlot

\* The fields of an object have their types.
LEMMA ObjectFields ==
  ASSUME scenario \in Scenarios, NEW o \in Objects
  PROVE  o.kind \in Kinds /\ o.root \in Blocks /\ o.n \in Nat /\ o.slot \in Nat
  BY Zenon, ScenariosAssumption DEF Objects

\* A block is its own ancestor and has the ancestors of its parent.
LEMMA AncestorsOf ==
  ASSUME NEW b \in Blocks
  PROVE  b \in Ancestors[b] /\ Ancestors[Parent(b)] \subseteq Ancestors[b]
  BY Zenon, InfoAssumption, AncestorsAssumption

-----------------------------------------------------------------------------
(* How a step changes the store, and where it leaves an object.            *)

\* The store gains columns and loses only those that finalization leaves
\* behind; a promise is kept until its column is there.
Grows ==
    /\ store' \in Stores /\ store'.synced = store.synced
    /\ store.rejected \subseteq store'.rejected
    /\ FinalizedSlot(store) <= FinalizedSlot(store')
    /\ \A bc \in store.columns : bc \in store'.columns \/ Slot(bc[1]) < FinalizedSlot(store')
    /\ promised \subseteq promised' \union store'.columns /\ fetched \subseteq fetched'

\* What a block lacks stays promised.
LEMMA BackedStays ==
  ASSUME TypeOK, Grows, NEW b \in Blocks, Backed(b)
  PROVE  Backed(b)'
<1>1. SUFFICES ASSUME Slot(b) >= FinalizedSlot(store'), NEW c \in MissingColumns(store', b),
                      b \notin fetched
               PROVE  <<b, c>> \in promised'
  BY DEF Backed, Grows
<1>2. /\ Slot(b) \in Nat /\ FinalizedSlot(store) \in Nat /\ FinalizedSlot(store') \in Nat
      /\ FinalizedSlot(store) <= FinalizedSlot(store')
  BY Zenon, Known, StoreFields DEF TypeOK, Grows
<1>3. Slot(b) >= FinalizedSlot(store) /\ ~(Slot(b) < FinalizedSlot(store'))
  BY <1>1, <1>2
<1>4. Info[b].blobs /\ c \in Columns /\ <<b, c>> \notin store'.columns
  BY Zenon, <1>1 DEF MissingColumns
<1>5. <<b, c>> \notin store.columns
  <2>1. <<b, c>>[1] = b
    OBVIOUS
  <2> QED
    BY Zenon, <1>3, <1>4, <2>1 DEF Grows
<1>6. c \in MissingColumns(store, b)
  BY Zenon, <1>4, <1>5 DEF MissingColumns
<1> QED
  BY Zenon, <1>1, <1>3, <1>4, <1>6 DEF Backed, Grows

\* A snapshot that was behind the store still is.
LEMMA BehindStays ==
  ASSUME TypeOK, Grows, NEW s, Behind(s)
  PROVE  Behind(s)'
<1>1. SUFFICES ASSUME NEW bc \in s.columns
               PROVE  bc \in store'.columns \/ Slot(bc[1]) < FinalizedSlot(store')
  BY Zenon DEF Behind, Grows
<1>2. CASE bc \in store.columns
  BY Zenon, <1>2 DEF Grows
<1>3. CASE Slot(bc[1]) < FinalizedSlot(store)
  <2>1. bc[1] \in Blocks
    BY Zenon, <1>1, StoreFields DEF Behind
  <2>2. Slot(bc[1]) \in Nat /\ FinalizedSlot(store) \in Nat /\ FinalizedSlot(store') \in Nat
    BY Zenon, <2>1, Known, StoreFields DEF TypeOK, Grows
  <2> QED
    BY <1>3, <2>2 DEF Grows
<1> QED
  BY Zenon, <1>1, <1>2, <1>3 DEF Behind

\* The store is behind itself.
LEMMA StoreIsBehind ==
  ASSUME store \in Stores
  PROVE  Behind(store)
  BY Zenon DEF Behind

\* An object stays where it waits, or is decided, retried, set aside, or judged.
Moved(x) ==
    \/ where'[x] = where[x] /\ Awaits(store', where[x])
    \/ where'[x] = Done
    \/ \E s, p, state : where'[x] = Spawned(x, s, p, state) /\ Behind(s)'
    \/ \E q \in Queues : \E k : where'[x] = Parked(q, k) /\ Awaits(store', Parked(q, k))
    \/ \E a : where'[x] = Message(a) /\ Judged(x, Message(a))'

\* What a task has made of an object stays justified.
LEMMA JudgedStays ==
  ASSUME TypeOK, Grows, NEW x \in Objects, NEW p, Judged(x, p)
  PROVE  Judged(x, p)'
<1>1. x.root \in Blocks
  BY Zenon, ObjectFields DEF TypeOK
<1> QED
  BY Zenon, <1>1, BackedStays, BehindStays DEF Judged

\* A step that moves every object properly leaves each where it may be.
LEMMA PlacesStep ==
  ASSUME TypeOK, Places, Grows, scenario' = scenario, \A x \in Objects : Moved(x)
  PROVE  Places'
<1>1. Objects' = Objects
  BY Zenon DEF Objects
<1>2. SUFFICES ASSUME NEW x \in Objects, NEW w, w = where'[x]
               PROVE  Awaits(store', w) /\ Judged(x, w)'
  <2>1. SUFFICES ASSUME NEW x \in Objects
                 PROVE  Awaits(store', where'[x]) /\ Judged(x, where[x])'
    BY Zenon, <1>1 DEF Places
  <2>2. PICK w : w = where'[x]
    BY Zenon
  <2>3. Awaits(store', w) /\ Judged(x, w)'
    BY Zenon, <1>2, <2>2
  <2> QED
    BY Zenon, <2>2, <2>3 DEF Judged
<1>3. CASE w = where[x] /\ Awaits(store', where[x])
  <2>1. Judged(x, w)
    BY Zenon, <1>3 DEF Places
  <2> QED
    BY Zenon, <1>3, <2>1, JudgedStays
<1>4. CASE w = Done
  <2>1. w.at = "done" /\ \A a : w # Message(a)
    BY <1>4 DEF Done, Message
  <2> QED
    BY Zenon, <2>1 DEF Awaits, Judged, Queues
<1>5. ASSUME NEW s, NEW p, NEW state, w = Spawned(x, s, p, state), Behind(s)'
      PROVE  Awaits(store', w) /\ Judged(x, w)'
  <2>1. /\ w.at \in {"task", "verifier"} /\ (w.at = "task" => w.snap = s)
        /\ w.at = "verifier" => x.kind = "attestation"
    BY <1>5 DEF Spawned
  <2>2. \A a : w # Message(a)
    BY <2>1 DEF Message
  <2> QED
    BY Zenon, <1>5, <2>1, <2>2 DEF Awaits, Judged, Queues
<1>6. ASSUME NEW q \in Queues, NEW k, w = Parked(q, k), Awaits(store', Parked(q, k))
      PROVE  Awaits(store', w) /\ Judged(x, w)'
  <2>1. w.at = q /\ q \notin {"task", "verifier", "message"}
    BY <1>6 DEF Parked, Queues
  <2>2. \A a : w # Message(a)
    BY <2>1 DEF Message
  <2> QED
    BY Zenon, <1>6, <2>1, <2>2 DEF Judged
<1>7. ASSUME NEW a, w = Message(a), Judged(x, Message(a))'
      PROVE  Awaits(store', w) /\ Judged(x, w)'
  <2>1. w.at = "message"
    BY <1>7 DEF Message
  <2> QED
    BY Zenon, <1>7, <2>1 DEF Awaits, Queues
<1> QED
  BY Zenon, <1>2, <1>3, <1>4, <1>5, <1>6, <1>7 DEF Moved

-----------------------------------------------------------------------------
(* What a step has to show. *)

Sound ==
    /\ Grows /\ DOMAIN where' = Objects /\ Constructing' \subseteq Blocks
    /\ \A x \in Objects : Moved(x)
    /\ store.synced => \A b \in Constructing' : b \in Constructing \/ Backed(b)'
    /\ \A b \in store'.imported : b \in store.imported \/ (~Info[b].gloas => Backed(b))
    /\ \A b \in store'.rejected : b \in store.rejected \/ Condemned(b)

\* A sound step keeps the invariant.
LEMMA SoundStep ==
  ASSUME IInv, Sound, scenario' = scenario
  PROVE  IInv'
<1>1. TypeOK /\ Places /\ Grows
  BY Zenon DEF IInv, Sound
<1>2. Places'
  BY Zenon, <1>1, PlacesStep DEF Sound
<1>3. TypeOK'
  BY Zenon, <1>1 DEF TypeOK, Sound, Grows, Objects
<1>4. StartedAreBacked'
  <2>1. \A b \in Constructing : b \in Blocks
    BY Zenon, <1>1 DEF TypeOK
  <2> QED
    BY Zenon, <1>1, <2>1, BackedStays DEF IInv, StartedAreBacked, Sound, Grows
<1>5. ImportedAreBacked'
  <2>1. \A b \in store'.imported : b \in Blocks
    BY Zenon, <1>1, StoreFields DEF Grows
  <2> QED
    BY Zenon, <1>1, <2>1, BackedStays DEF IInv, ImportedAreBacked, Sound
<1>6. RejectedAreInvalid'
  BY Zenon DEF IInv, RejectedAreInvalid, Condemned, Sound
<1> QED
  BY Zenon, <1>2, <1>3, <1>4, <1>5, <1>6 DEF IInv

\* Objects move, and a reconstruction may start.
LEMMA Begun ==
  ASSUME IInv, store' = store, promised \subseteq promised', fetched \subseteq fetched',
         Constructing' \subseteq Blocks,
         store.synced => \A b \in Constructing' : b \in Constructing \/ Backed(b)',
         DOMAIN where' = Objects,
         \A x \in Objects : where'[x] = where[x] \/ Moved(x)
  PROVE  Sound
<1>1. Grows
  <2>1. FinalizedSlot(store) \in Nat
    BY Zenon, StoreFields DEF IInv, TypeOK
  <2>2. FinalizedSlot(store) <= FinalizedSlot(store)
    BY <2>1
  <2> QED
    BY Zenon, <2>2 DEF IInv, TypeOK, Grows
<1>2. \A x \in Objects : Moved(x)
  BY Zenon DEF IInv, Places, Moved
<1> QED
  BY Zenon, <1>1, <1>2 DEF Sound

\* Only objects move.
LEMMA Aside ==
  ASSUME IInv, store' = store, Constructing' \subseteq Constructing, promised \subseteq promised',
         fetched \subseteq fetched', DOMAIN where' = Objects,
         \A x \in Objects : where'[x] = where[x] \/ Moved(x)
  PROVE  Sound
<1>1. Constructing' \subseteq Blocks
  BY Zenon DEF IInv, TypeOK
<1> QED
  BY Zenon, <1>1, Begun

\* A new task sees the store of the moment.
LEMMA SpawnedMoves ==
  ASSUME store \in Stores, store' = store, NEW x,
         NEW p, NEW state, where'[x] = Spawned(x, store, p, state)
  PROVE  Moved(x)
<1>1. Behind(store)
  BY Zenon, StoreIsBehind
<1>2. PICK s : s = store
  BY Zenon
<1>3. Behind(s)'
  BY Zenon, <1>1, <1>2 DEF Behind
<1> QED
  BY Zenon, <1>2, <1>3 DEF Moved

\* The same for a task spawned after the store has changed.
LEMMA SpawnedLaterMoves ==
  ASSUME store' \in Stores, NEW x,
         NEW p, NEW state, where'[x] = Spawned(x, store', p, state)
  PROVE  Moved(x)
<1>1. PICK s : s = store'
  BY Zenon
<1>2. Behind(s)'
  BY Zenon, <1>1 DEF Behind
<1> QED
  BY Zenon, <1>1, <1>2 DEF Moved

\* An object may be set aside when what it waits for is missing.
LEMMA ParkedMoves ==
  ASSUME NEW x, NEW q \in Queues, NEW k, where'[x] = Parked(q, k),
         q = "untilBlock" => k \notin store'.imported,
         q = "untilSlot" => k \in Nat /\ k > store'.slot,
         q = "untilEnvelope" => k \notin store'.payloads,
         q \in {"untilBlobs", "untilData"} => k \in Blocks /\ MissingColumns(store', k) # {}
  PROVE  Moved(x)
<1>1. Parked(q, k).at = q /\ Parked(q, k).key = k
  BY DEF Parked
<1>2. PICK s : s = store'
  BY Zenon
<1>3. Awaits(s, Parked(q, k))
  BY Zenon, <1>1, <1>2 DEF Awaits
<1> QED
  BY Zenon, <1>2, <1>3 DEF Moved

\* The operators on places.
LEMMA DropOf ==
  ASSUME NEW w, NEW S
  PROVE  /\ DOMAIN Drop(w, S) = DOMAIN w
         /\ \A x \in DOMAIN w : /\ x \in S => Drop(w, S)[x] = Done
                                /\ x \notin S => Drop(w, S)[x] = w[x]
  BY Zenon DEF Drop

-----------------------------------------------------------------------------
(* The steps that leave the store alone. *)

Still == store' = store /\ Constructing' \subseteq Constructing /\ promised \subseteq promised'
         /\ fetched \subseteq fetched'

\* What the invariant says of the types.
LEMMA Places0 ==
  ASSUME IInv
  PROVE  DOMAIN where = Objects /\ store \in Stores /\ scenario \in Scenarios
  BY Zenon DEF IInv, TypeOK

\* Objects may be dropped.
LEMMA Drops ==
  ASSUME IInv, Still, NEW S, where' = Drop(where, S)
  PROVE  Sound
<1>1. \A x \in Objects : where'[x] = where[x] \/ where'[x] = Done
  BY Zenon, Places0, DropOf
<1>2. DOMAIN where' = Objects
  BY Zenon, Places0, DropOf
<1> QED
  BY Zenon, <1>1, <1>2, Aside DEF Still, Moved

\* Objects may be retried at any time.
LEMMA Retries ==
  ASSUME IInv, Still, NEW S, NEW p, NEW state, where' = Retry(where, S, store, p, state)
  PROVE  Sound
<1>1. \A x \in Objects : where'[x] = where[x] \/ where'[x] = Spawned(x, store, p, state)
  BY Zenon, Places0 DEF Retry
<1>2. DOMAIN where' = Objects
  BY Zenon, Places0 DEF Retry
<1>3. \A x \in Objects : where'[x] = where[x] \/ Moved(x)
  BY Zenon, <1>1, SpawnedMoves, Places0 DEF Still
<1> QED
  BY Zenon, <1>2, <1>3, Aside DEF Still

\* One object may be set aside when what it waits for is missing.
LEMMA Parks ==
  ASSUME IInv, Still, NEW o \in Objects, NEW q \in Queues, NEW k,
         where' = [where EXCEPT ![o] = Parked(q, k)],
         q = "untilBlock" => k \notin store.imported,
         q = "untilSlot" => k \in Nat /\ k > store.slot,
         q = "untilEnvelope" => k \notin store.payloads,
         q \in {"untilBlobs", "untilData"} => k \in Blocks /\ MissingColumns(store, k) # {}
  PROVE  Sound
<1>1. DOMAIN where' = Objects /\ where'[o] = Parked(q, k)
  BY Zenon, Places0
<1>2. \A x \in Objects : x = o \/ where'[x] = where[x]
  BY Zenon, Places0
<1>3. Moved(o)
  BY Zenon, <1>1, ParkedMoves DEF Still
<1> QED
  BY Zenon, <1>1, <1>2, <1>3, Aside DEF Still

\* An object arrives.
LEMMA SubmitSound ==
  ASSUME IInv, NEW o \in Objects, Submit(o)
  PROVE  Sound
<1>1. Still
  BY Zenon DEF Submit, Still, Constructing, rebuild, engine
<1>2. DOMAIN where' = Objects
  BY Zenon, Places0 DEF Submit
<1>3. \A x \in Objects : x = o \/ where'[x] = where[x]
  BY Zenon, Places0 DEF Submit
<1>4. where'[o] = Done \/ where'[o] = Spawned(o, store, promised, FALSE)
  BY Zenon, Places0 DEF Submit
<1>5. Moved(o)
  BY Zenon, <1>1, <1>4, SpawnedMoves, Places0 DEF Moved, Still
<1> QED
  BY Zenon, <1>1, <1>2, <1>3, <1>5, Aside DEF Still

\* A task says "reject" of a block only if the block or its parent is invalid,
\* and "accept" only if the data is there or promised.
LEMMA RunTaskSound ==
  ASSUME IInv, NEW o \in Objects, RunTask(o)
  PROVE  Sound
<1>1. Still
  BY Zenon DEF RunTask, Still, Constructing, rebuild, engine
<1>2. DOMAIN where' = Objects /\ \A x \in Objects : x = o \/ where'[x] = where[x]
  BY Zenon, Places0 DEF RunTask
<1>3. PICK s, presence, state, a :
          where[o].snap = s /\ a = Validate(o, s, presence, state) /\ where'[o] = Message(a)
  BY Zenon, Places0 DEF RunTask
<1>4. Behind(s)
  BY Zenon, <1>3 DEF RunTask, IInv, Places, Judged
<1>5. o.root \in Blocks
  BY Zenon, Places0, ObjectFields
<1>6. ASSUME o.kind = "block"
      PROVE  a = ValidateBlock(s, o)
  BY Zenon, <1>3, <1>6 DEF Validate
<1>7. ASSUME o.kind = "column", a = "untilParent"
       PROVE  ~Info[o.root].gloas
  <2>1. a = ValidateColumn(s, o, presence, state)
    BY <1>3, <1>7 DEF Validate
  <2> QED
    BY <1>7, <2>1 DEF ValidateColumn
<1>8. ASSUME o.kind = "block", a = "reject"
      PROVE  Condemned(o.root)
  <2>1. Parent(o.root) \in s.rejected \/ Info[o.root].invalid
    BY <1>5, <1>6, <1>8 DEF ValidateBlock, ApplyBlock
  <2>2. CASE Info[o.root].invalid
    BY Zenon, <1>5, <2>2, AncestorsOf DEF Condemned
  <2>3. CASE Parent(o.root) \in s.rejected
    BY Zenon, <1>4, <1>5, <2>3, AncestorsOf DEF Condemned, Behind, IInv, RejectedAreInvalid
  <2> QED
    BY Zenon, <2>1, <2>2, <2>3
<1>9. ASSUME o.kind = "block", a = "accept", ~Info[o.root].gloas
      PROVE  Backed(o.root)
  <2>1. MissingColumns(s, o.root) = {} \/ (s.synced /\ o.root \in started)
    BY <1>5, <1>6, <1>9 DEF ValidateBlock, ApplyBlock, CanImportWithPromise
  <2>2. CASE s.synced /\ o.root \in started
    BY Zenon, <1>4, <2>2 DEF Behind, IInv, StartedAreBacked, Constructing
  <2>3. CASE MissingColumns(s, o.root) = {}
    <3>1. SUFFICES ASSUME Slot(o.root) >= FinalizedSlot(store), NEW c \in MissingColumns(store, o.root)
                   PROVE  FALSE
      BY DEF Backed
    <3>2. Info[o.root].blobs /\ c \in Columns /\ <<o.root, c>> \notin store.columns
      BY Zenon, <3>1 DEF MissingColumns
    <3>3. <<o.root, c>> \in s.columns
      BY Zenon, <2>3, <3>2 DEF MissingColumns
    <3>4. <<o.root, c>>[1] = o.root
      OBVIOUS
    <3>5. Slot(o.root) < FinalizedSlot(store)
      BY Zenon, <1>4, <3>2, <3>3, <3>4 DEF Behind
    <3>6. Slot(o.root) \in Nat /\ FinalizedSlot(store) \in Nat
      BY Zenon, <1>5, Known, StoreFields, Places0
    <3> QED
      BY <3>1, <3>5, <3>6
  <2> QED
    BY Zenon, <2>1, <2>2, <2>3
<1>10. Judged(o, Message(a))
  <2>1. Message(a).at = "message" /\ \A b : Message(a) = Message(b) => a = b
    BY DEF Message
  <2> QED
    BY Zenon, <1>8, <1>9, <1>7, <2>1 DEF Judged
<1>11. Judged(o, Message(a))'
  <2>1. TypeOK
    BY Zenon DEF IInv
  <2>2. Grows
    <3>1. FinalizedSlot(store) \in Nat
      BY Zenon, StoreFields, Places0
    <3>2. FinalizedSlot(store) <= FinalizedSlot(store)
      BY <3>1
    <3> QED
      BY Zenon, <1>1, <3>2 DEF IInv, TypeOK, Grows, Still
  <2> QED
    BY Zenon, <1>10, <2>1, <2>2, JudgedStays
<1>12. Moved(o)
  BY Zenon, <1>3, <1>11 DEF Moved
<1> QED
  BY Zenon, <1>1, <1>2, <1>12, Aside DEF Still

\* Only attestations go to the verifier, and nothing depends on its verdict.
LEMMA VerifySound ==
  ASSUME IInv, NEW o \in Objects, Verify(o)
  PROVE  Sound
<1>1. Still
  BY Zenon DEF Verify, Still, Constructing, rebuild, engine
<1>2. DOMAIN where' = Objects /\ \A x \in Objects : x = o \/ where'[x] = where[x]
  BY Zenon, Places0 DEF Verify
<1>3. PICK a : where'[o] = Message(a)
  BY Zenon, Places0 DEF Verify
<1>4. o.kind = "attestation"
  BY Zenon DEF IInv, Places, Judged, Verify
<1>5. Judged(o, Message(a))'
  <2>1. Message(a).at = "message" /\ o.kind # "block" /\ o.kind # "column"
    BY <1>4 DEF Message
  <2> QED
    BY Zenon, <1>4, <2>1 DEF Judged
<1> QED
  BY Zenon, <1>1, <1>2, <1>3, <1>5, Aside DEF Still, Moved

\* An object that is ignored, or an attestation that is accepted, is dropped.
LEMMA ClosesSound ==
  ASSUME IInv, NEW o \in Objects, Ignored(o) \/ AcceptAttestation(o)
  PROVE  Sound
<1>1. Still /\ where' = Drop(where, {o})
  BY Zenon DEF Ignored, AcceptAttestation, Close, Still, Constructing, rebuild, engine
<1> QED
  BY Zenon, <1>1, Drops

\* RetryNow, Close and ParkIn: an object is retried, dropped or set aside.
LEMMA OneOfThree ==
  ASSUME IInv, Still, NEW o \in Objects, NEW q \in Queues, NEW k,
         \/ \E state : RetryNow(o, state)
         \/ \E verdict : Close(o, verdict)
         \/ ParkIn(o, q, k),
         ParkIn(o, q, k) =>
             /\ q = "untilBlock" => k \notin store.imported
             /\ q = "untilSlot" => k \in Nat /\ k > store.slot
             /\ q = "untilEnvelope" => k \notin store.payloads
             /\ q \notin {"untilBlobs", "untilData"}
  PROVE  Sound
<1>1. CASE \E state : RetryNow(o, state)
  BY Zenon, <1>1, Retries DEF RetryNow
<1>2. CASE \E verdict : Close(o, verdict)
  BY Zenon, <1>2, Drops DEF Close
<1>3. CASE ParkIn(o, q, k)
  BY Zenon, <1>3, Parks DEF ParkIn
<1> QED
  BY Zenon, <1>1, <1>2, <1>3

\* An object of a later slot is retried if the slot has come meanwhile.
LEMMA DelayUntilSlotSound ==
  ASSUME IInv, NEW o \in Objects, DelayUntilSlot(o)
  PROVE  Sound
<1>1. Still
  BY Zenon DEF DelayUntilSlot, Still, Constructing, rebuild, engine
<1>2. "untilSlot" \in Queues /\ o.slot \in Nat /\ store.slot \in Nat
  BY Zenon, Places0, ObjectFields, StoreFields DEF Queues
<1>3. CASE o.slot <= store.slot
  BY Zenon, <1>1, <1>3, Retries DEF DelayUntilSlot, RetryNow
<1>4. CASE ~(o.slot <= store.slot)
  <2>1. o.slot > store.slot
    BY <1>2, <1>4
  <2>2. Close(o, "Ignore") \/ ParkIn(o, "untilSlot", o.slot)
    BY Zenon, <1>4 DEF DelayUntilSlot, TryPark
  <2>3. "untilSlot" \notin {"untilBlobs", "untilData", "untilBlock", "untilEnvelope"}
    OBVIOUS
  <2> QED
    BY Zenon, <1>1, <1>2, <2>1, <2>2, <2>3, OneOfThree
<1> QED
  BY Zenon, <1>3, <1>4

\* The parent of a column is of an older fork, so it has its data.
LEMMA DelayUntilParentSound ==
  ASSUME IInv, NEW o \in Objects, DelayUntilParent(o)
  PROVE  Sound
<1>1. Still
  BY Zenon DEF DelayUntilParent, Still, Constructing, rebuild, engine
<1>2. "untilBlock" \in Queues /\ "untilBlock" \notin {"untilBlobs", "untilData", "untilSlot", "untilEnvelope"}
  BY DEF Queues
<1>3. RetryNow(o, FALSE) \/ Close(o, "Ignore") \/ ParkIn(o, "untilBlock", Parent(o.root))
  BY Zenon DEF DelayUntilParent, TryPark
<1>4. CASE Parent(o.root) \notin store.imported
  BY Zenon, <1>1, <1>2, <1>3, <1>4, OneOfThree
<1>5. CASE Parent(o.root) \in store.imported /\ o.kind # "column"
  <2>1. RetryNow(o, FALSE)
    BY Zenon, <1>5 DEF DelayUntilParent
  <2> QED
    BY Zenon, <1>1, <2>1, Retries DEF RetryNow
<1>6. CASE Parent(o.root) \in store.imported /\ o.kind = "column"
  <2>1. ~Info[o.root].gloas
    BY Zenon, <1>6 DEF DelayUntilParent, Received, IInv, Places, Judged
  <2>2. o.root \in Blocks
    BY Zenon, Places0, ObjectFields
  <2>3. ~(Info[Parent(o.root)].gloas /\ Info[Parent(o.root)].blobs)
    BY Zenon, <2>1, <2>2, Known
  <2>4. ContainsBlockAndData(store, Parent(o.root))
    BY Zenon, <1>6, <2>3 DEF ContainsBlockAndData, MissingColumns
  <2>5. RetryNow(o, FALSE)
    BY Zenon, <1>6, <2>4 DEF DelayUntilParent
  <2> QED
    BY Zenon, <1>1, <2>5, Retries DEF RetryNow
<1> QED
  BY Zenon, <1>4, <1>5, <1>6

\* An attestation is retried if its block has come meanwhile.
LEMMA DelayAttestationUntilBlockSound ==
  ASSUME IInv, NEW o \in Objects, DelayAttestationUntilBlock(o)
  PROVE  Sound
<1>1. Still
  BY Zenon DEF DelayAttestationUntilBlock, Still, Constructing, rebuild, engine
<1>2. "untilBlock" \in Queues /\ "untilBlock" \notin {"untilBlobs", "untilData", "untilSlot", "untilEnvelope"}
  BY DEF Queues
<1>3. RetryNow(o, FALSE) \/ (o.root \notin store.imported /\ ParkIn(o, "untilBlock", o.root))
  BY Zenon DEF DelayAttestationUntilBlock
<1>4. CASE RetryNow(o, FALSE)
  BY Zenon, <1>1, <1>4, Retries DEF RetryNow
<1>5. CASE o.root \notin store.imported /\ ParkIn(o, "untilBlock", o.root)
  BY Zenon, <1>1, <1>2, <1>5, OneOfThree
<1> QED
  BY Zenon, <1>3, <1>4, <1>5

\* An envelope is retried if its block has come meanwhile, and may evict another.
LEMMA DelayEnvelopeUntilBlockSound ==
  ASSUME IInv, NEW o \in Objects, DelayEnvelopeUntilBlock(o)
  PROVE  Sound
<1>1. Still
  BY Zenon DEF DelayEnvelopeUntilBlock, Still, Constructing, rebuild, engine
<1>2. "untilBlock" \in Queues /\ "untilBlock" \notin {"untilBlobs", "untilData", "untilSlot", "untilEnvelope"}
  BY DEF Queues
<1>3. CASE RetryNow(o, FALSE)
  BY Zenon, <1>1, <1>3, Retries DEF RetryNow
<1>4. CASE o.root \notin store.imported /\ (Close(o, "Ignore") \/ ParkIn(o, "untilBlock", o.root))
  BY Zenon, <1>1, <1>2, <1>4, OneOfThree
<1>5. ASSUME o.root \notin store.imported, NEW e,
             where' = Drop([where EXCEPT ![o] = Parked("untilBlock", o.root)], {e})
      PROVE  Sound
  <2>1. DOMAIN where' = Objects
    BY Zenon, <1>5, Places0, DropOf
  <2>2. \A x \in Objects :
            \/ where'[x] = Done
            \/ where'[x] = where[x]
            \/ where'[x] = Parked("untilBlock", o.root)
    BY Zenon, <1>5, Places0 DEF Drop
  <2>3. \A x \in Objects : where'[x] = where[x] \/ Moved(x)
    BY Zenon, <1>1, <1>2, <1>5, <2>2, ParkedMoves DEF Moved, Still
  <2> QED
    BY Zenon, <1>1, <2>1, <2>3, Aside DEF Still
<1> QED
  BY Zenon, <1>3, <1>4, <1>5 DEF DelayEnvelopeUntilBlock, TryPark

\* An object is retried if the payload it builds on has come meanwhile.
LEMMA DelayUntilPayloadSound ==
  ASSUME IInv, NEW o \in Objects, DelayUntilPayload(o)
  PROVE  Sound
<1>1. Still
  BY Zenon DEF DelayUntilPayload, Still, Constructing, rebuild, engine
<1>2. "untilEnvelope" \in Queues /\ "untilEnvelope" \notin {"untilBlobs", "untilData", "untilSlot", "untilBlock"}
  BY DEF Queues
<1>3. PICK root : RetryNow(o, FALSE) \/ (root \notin store.payloads /\ ParkIn(o, "untilEnvelope", root))
  BY Zenon DEF DelayUntilPayload
<1>4. CASE RetryNow(o, FALSE)
  BY Zenon, <1>1, <1>4, Retries DEF RetryNow
<1>5. CASE root \notin store.payloads /\ ParkIn(o, "untilEnvelope", root)
  BY Zenon, <1>1, <1>2, <1>5, OneOfThree
<1> QED
  BY Zenon, <1>3, <1>4, <1>5

\* Columns wait for a state, and the block that may leave it is retried.
LEMMA DelayUntilStateSound ==
  ASSUME IInv, NEW o \in Objects, DelayUntilState(o)
  PROVE  Sound
<1>1. Still
  BY Zenon DEF DelayUntilState, Still, Constructing, rebuild, engine
<1>2. "untilState" \in Queues /\ "untilState" \notin {"untilBlobs", "untilData", "untilSlot", "untilBlock", "untilEnvelope"}
  BY DEF Queues
<1>3. CASE RetryNow(o, TRUE)
  BY Zenon, <1>1, <1>3, Retries DEF RetryNow
<1>4. ASSUME NEW S, where' = [Retry(where, S, store, promised, FALSE)
                                 EXCEPT ![o] = Parked("untilState", o.root)]
      PROVE  Sound
  <2>1. DOMAIN where' = Objects
    BY Zenon, <1>4, Places0 DEF Retry
  <2>2. \A x \in Objects :
            \/ where'[x] = Spawned(x, store, promised, FALSE)
            \/ where'[x] = where[x]
            \/ where'[x] = Parked("untilState", o.root)
    BY Zenon, <1>4, Places0 DEF Retry
  <2>3. \A x \in Objects : where'[x] = where[x] \/ Moved(x)
    BY Zenon, <1>1, <1>2, <2>2, ParkedMoves, SpawnedMoves, Places0 DEF Still
  <2> QED
    BY Zenon, <1>1, <2>1, <2>3, Aside DEF Still
<1> QED
  BY Zenon, <1>3, <1>4 DEF DelayUntilState

\* The state cache, and a construction that fails or is given up, leave the
\* objects alone.
LEMMA RestSound ==
  ASSUME IInv, \/ PruneStateCache
               \/ \E b \in Blocks : \/ PreprocessState(b) \/ FailReconstruction(b)
                                    \/ AbandonReconstruction(b) \/ FailConstruction(b)
  PROVE  Sound
<1>1. Still /\ where' = where
  <2>1. CASE PruneStateCache \/ \E b \in Blocks : PreprocessState(b)
    BY Zenon, <2>1 DEF PruneStateCache, PreprocessState, Still, Constructing, rebuild, engine
  <2>2. CASE \E b \in Blocks : FailReconstruction(b) \/ AbandonReconstruction(b)
    BY Zenon, <2>2 DEF FailReconstruction, AbandonReconstruction, Still, Constructing, engine
  <2>3. CASE \E b \in Blocks : FailConstruction(b)
    BY Zenon, <2>3 DEF FailConstruction, Still, Constructing
  <2> QED
    BY Zenon, <2>1, <2>2, <2>3
<1> QED
  BY Zenon, <1>1, Places0, Aside DEF Still

\* A construction from the engine's blobs begins without a promise.
LEMMA ConstructSound ==
  ASSUME IInv, NEW b \in Blocks, ConstructSidecars(b)
  PROVE  Sound
<1>1. /\ store' = store /\ promised' = promised /\ where' = where
      /\ fetched' = fetched \union {b} /\ Constructing' = Constructing \union {b}
  BY Zenon DEF ConstructSidecars, Constructing
<1>2. Backed(b)'
  BY Zenon, <1>1 DEF Backed
<1>3. Constructing' \subseteq Blocks
  BY Zenon, <1>1 DEF IInv, TypeOK
<1> QED
  BY Zenon, <1>1, <1>2, <1>3, Places0, Begun

\* Asking for blobs leaves what is under construction alone.
LEMMA RequestKeeps ==
  ASSUME NEW b, RequestBlobs(b)
  PROVE  fetched' = fetched
  BY Zenon DEF RequestBlobs

\* A reconstruction begins with a promise of every column that is missing.
LEMMA StartedBacks ==
  ASSUME IInv, store' = store, NEW b \in Blocks, StartReconstruction(b)
  PROVE  /\ promised \subseteq promised' /\ Constructing' \subseteq Blocks /\ fetched' = fetched
         /\ store.synced => \A x \in Constructing' : x \in Constructing \/ Backed(x)'
<1>1. Constructing \subseteq Blocks
  BY Zenon DEF IInv, TypeOK
<1>2. CASE b \in started
  BY Zenon, <1>1, <1>2 DEF StartReconstruction, Constructing, rebuild, engine
<1>3. CASE b \notin started
  <2>1. /\ Constructing' = Constructing \union {b} /\ promised \subseteq promised'
        /\ fetched' = fetched
    BY Zenon, <1>3 DEF StartReconstruction, Constructing, engine
  <2>2. store.synced => {b} \X MissingColumns(store, b) \subseteq promised'
    BY Zenon, <1>3 DEF StartReconstruction
  <2>3. store.synced => Backed(b)'
    BY Zenon, <2>2 DEF Backed
  <2> QED
    BY Zenon, <1>1, <2>1, <2>3
<1> QED
  BY Zenon, <1>2, <1>3

\* A block or an envelope is set aside only while it lacks columns.
LEMMA DelayUntilColumnsSound ==
  ASSUME IInv, store' = store, NEW o \in Objects, NEW q \in {"untilBlobs", "untilData"},
         NEW state, DelayUntilColumns(o, q, state)
  PROVE  Sound
<1> DEFINE b == o.root
<1>1. b \in Blocks
  BY Zenon, Places0, ObjectFields
<1>2. /\ q \in Queues /\ q \notin {"untilBlock", "untilSlot", "untilEnvelope"}
  BY DEF Queues
<1>3. PICK w : w = ParkAlone(where, o, q, b)
  BY Zenon
<1>4. DOMAIN w = Objects
  BY Zenon, <1>3, Places0 DEF ParkAlone, Drop
<1>5. \A x \in Objects : w[x] = Done \/ w[x] = where[x] \/ w[x] = Parked(q, b)
  BY Zenon, <1>3, Places0 DEF ParkAlone, Drop
<1>6. CASE BlockDataColumnAvailability(b) = "Complete"
  <2>1. Still /\ RetryNow(o, FALSE)
    BY Zenon, <1>6 DEF DelayUntilColumns, Still, Constructing, rebuild, engine
  <2> QED
    BY Zenon, <2>1, Retries DEF RetryNow
<1>7. ASSUME MissingColumns(store, b) # {}, promised \subseteq promised', fetched' = fetched,
             Constructing' \subseteq Blocks,
             store.synced => \A x \in Constructing' : x \in Constructing \/ Backed(x)',
             DOMAIN where' = Objects,
             \A x \in Objects : \/ where'[x] = Done \/ where'[x] = where[x]
                                \/ where'[x] = Parked(q, b)
                                \/ \E st : where'[x] = Spawned(x, store, promised, st)
      PROVE  Sound
  <2>1. \A x \in Objects : where'[x] = Parked(q, b) => Moved(x)
    BY Zenon, <1>1, <1>2, <1>7, ParkedMoves
  <2>2. ASSUME NEW x \in Objects PROVE where'[x] = where[x] \/ Moved(x)
    <3>1. where'[x] = Done => Moved(x)
      BY Zenon DEF Moved
    <3>2. (\E st : where'[x] = Spawned(x, store, promised, st)) => Moved(x)
      BY Zenon, <1>7, SpawnedMoves, Places0
    <3> QED
      BY Zenon, <1>7, <2>1, <3>1, <3>2
  <2> QED
    BY Zenon, <1>7, <2>2, Begun
<1>8. CASE BlockDataColumnAvailability(b) # "Complete"
  <2>1. MissingColumns(store, b) # {}
    BY Zenon, <1>8 DEF BlockDataColumnAvailability
  <2>2. /\ promised \subseteq promised' /\ Constructing' \subseteq Blocks /\ fetched' = fetched
        /\ store.synced => \A x \in Constructing' : x \in Constructing \/ Backed(x)'
    <3>1. \/ StartReconstruction(b) \/ UNCHANGED rebuild
          \/ RequestBlobs(b) /\ UNCHANGED <<started, promised, rebuilding>>
      BY Zenon, <1>8 DEF DelayUntilColumns
    <3>2. CASE UNCHANGED rebuild
      BY Zenon, <3>2 DEF rebuild, engine, Constructing, IInv, TypeOK
    <3>3. CASE RequestBlobs(b) /\ UNCHANGED <<started, promised, rebuilding>>
      BY Zenon, <3>3, RequestKeeps DEF Constructing, IInv, TypeOK
    <3>4. CASE StartReconstruction(b)
      BY Zenon, <1>1, <3>4, StartedBacks
    <3> QED
      BY Zenon, <3>1, <3>2, <3>3, <3>4
  <2>3. \/ where' = Retry(where, {o}, store, promised, FALSE)
        \/ where' = ParkAlone(where, o, q, b)
        \/ where' = Retry(ParkAlone(where, o, q, b), WaitingColumns(b), store, promised, state)
    BY Zenon, <1>8 DEF DelayUntilColumns
  <2>4. CASE where' = Retry(where, {o}, store, promised, FALSE)
    <3>1. DOMAIN where' = Objects
      BY Zenon, <2>4, Places0 DEF Retry
    <3>2. \A x \in Objects : where'[x] = where[x] \/ where'[x] = Spawned(x, store, promised, FALSE)
      BY Zenon, <2>4, Places0 DEF Retry
    <3> QED
      BY Zenon, <1>7, <2>1, <2>2, <3>1, <3>2
  <2>5. CASE where' = ParkAlone(where, o, q, b)
    BY Zenon, <1>7, <1>3, <1>4, <1>5, <2>1, <2>2, <2>5
  <2>6. CASE where' = Retry(ParkAlone(where, o, q, b), WaitingColumns(b), store, promised, state)
    <3>1. where' = Retry(w, WaitingColumns(b), store, promised, state)
      BY Zenon, <1>3, <2>6
    <3>2. DOMAIN where' = Objects
      BY Zenon, <1>4, <3>1 DEF Retry
    <3>3. \A x \in Objects : where'[x] = w[x] \/ where'[x] = Spawned(x, store, promised, state)
      BY Zenon, <1>4, <3>1 DEF Retry
    <3>4. \A x \in Objects : \/ where'[x] = Done \/ where'[x] = where[x]
                             \/ where'[x] = Parked(q, b)
                             \/ \E st : where'[x] = Spawned(x, store, promised, st)
      BY Zenon, <1>5, <3>3
    <3> QED
      BY Zenon, <1>7, <2>1, <2>2, <3>2, <3>4
  <2> QED
    BY Zenon, <2>3, <2>4, <2>5, <2>6
<1> QED
  BY Zenon, <1>6, <1>8

-----------------------------------------------------------------------------
(* The steps that change the store. *)

\* While nothing is finalized and no column is lost.
LEMMA GrowsWithin ==
  ASSUME IInv, store' \in Stores, store'.synced = store.synced,
         store'.finalized = store.finalized,
         store.rejected \subseteq store'.rejected, store.columns \subseteq store'.columns,
         promised \subseteq promised' \union store'.columns, fetched' = fetched
  PROVE  Grows
<1>1. FinalizedSlot(store) \in Nat /\ FinalizedSlot(store') = FinalizedSlot(store)
  BY Zenon, StoreFields, Places0 DEF FinalizedSlot
<1>2. FinalizedSlot(store) <= FinalizedSlot(store')
  BY <1>1
<1> QED
  BY Zenon, <1>2 DEF Grows

\* The root of a block is remembered as rejected only if the block is condemned.
LEMMA RejectedSound ==
  ASSUME IInv, NEW o \in Objects, Rejected(o)
  PROVE  Sound
<1>1. /\ Constructing' = Constructing /\ fetched' = fetched /\ promised' = promised
      /\ where' = Drop(where, {o})
  BY Zenon DEF Rejected, Close, Constructing, rebuild, engine
<1>2. CASE store' = store
  BY Zenon, <1>1, <1>2, Drops DEF Still
<1>3. CASE /\ o.kind = "block" /\ where[o] = Message("reject")
           /\ store' = [store EXCEPT !.rejected = @ \union {o.root}]
  <2>1. o.root \in Blocks /\ store \in Stores
    BY Zenon, Places0, ObjectFields
  <2>2. /\ store' \in Stores /\ store'.synced = store.synced /\ store'.finalized = store.finalized
        /\ store'.rejected = store.rejected \union {o.root} /\ store'.columns = store.columns
        /\ store'.imported = store.imported /\ store'.slot = store.slot
        /\ store'.payloads = store.payloads
    BY <1>3, <2>1 DEF Stores
  <2>3. Grows
    BY Zenon, <1>1, <2>2, GrowsWithin
  <2>4. Condemned(o.root)
    BY Zenon, <1>3 DEF IInv, Places, Judged
  <2>5. \A x \in Objects : Awaits(store', where[x])
    <3>1. \A x \in Objects : Awaits(store, where[x])
      BY Zenon DEF IInv, Places
    <3> QED
      BY Zenon, <2>2, <3>1 DEF Awaits, MissingColumns
  <2>6. DOMAIN where' = Objects /\ \A x \in Objects : where'[x] = where[x] \/ where'[x] = Done
    BY Zenon, <1>1, Places0, DropOf
  <2>7. \A x \in Objects : Moved(x)
    BY Zenon, <2>5, <2>6 DEF Moved
  <2> QED
    BY Zenon, <1>1, <2>2, <2>3, <2>4, <2>6, <2>7 DEF Sound, IInv, TypeOK
<1> QED
  BY Zenon, <1>2, <1>3 DEF Rejected, Received

\* An envelope wakes what waits for the payload.
LEMMA AcceptEnvelopeSound ==
  ASSUME IInv, NEW o \in Objects, AcceptEnvelope(o)
  PROVE  Sound
<1>1. Constructing' = Constructing /\ fetched' = fetched /\ promised' = promised
  BY Zenon DEF AcceptEnvelope, Constructing, rebuild, engine
<1>2. o.root \in Blocks /\ store \in Stores
  BY Zenon, Places0, ObjectFields
<1>3. /\ store' \in Stores /\ store'.synced = store.synced /\ store'.finalized = store.finalized
      /\ store'.rejected = store.rejected /\ store'.columns = store.columns
      /\ store'.imported = store.imported /\ store'.slot = store.slot
      /\ store'.payloads = store.payloads \union {o.root}
  BY Zenon, <1>2 DEF Stores, AcceptEnvelope
<1>4. Grows
  BY Zenon, <1>1, <1>3, GrowsWithin
<1>5. DOMAIN where' = Objects
  BY Zenon, Places0 DEF AcceptEnvelope, Retry, Drop
<1>6. \A x \in Objects : \/ where'[x] = Spawned(x, store', promised, FALSE)
                         \/ where'[x] = Done
                         \/ where'[x] = where[x] /\ where[x] # Parked("untilEnvelope", o.root)
  BY Zenon, Places0 DEF AcceptEnvelope, Retry, Drop, InQueue
<1>7. ASSUME NEW x \in Objects, where[x] # Parked("untilEnvelope", o.root)
      PROVE  Awaits(store', where[x])
  <2>1. Awaits(store, where[x])
    BY Zenon DEF IInv, Places
  <2>2. where[x].at = "untilEnvelope" => where[x].key # o.root
    BY Zenon, <1>7, <2>1 DEF Awaits, Queues
  <2> QED
    BY Zenon, <1>3, <2>1, <2>2 DEF Awaits, MissingColumns
<1>8. \A x \in Objects : where'[x] = Spawned(x, store', promised, FALSE) => Moved(x)
  BY Zenon, <1>3, SpawnedLaterMoves
<1>9. \A x \in Objects : Moved(x)
  BY Zenon, <1>6, <1>7, <1>8 DEF Moved
<1> QED
  BY Zenon, <1>1, <1>3, <1>4, <1>5, <1>9 DEF Sound, IInv, TypeOK

\* The clock wakes what waits for the slot.
LEMMA TickSound ==
  ASSUME IInv, Tick
  PROVE  Sound
<1>1. Constructing' = Constructing /\ fetched' = fetched /\ promised' = promised
  BY Zenon DEF Tick, Constructing, rebuild, engine
<1>2. store \in Stores /\ store.slot \in Nat
  BY Zenon, Places0, StoreFields
<1>3. /\ store' \in Stores /\ store'.synced = store.synced /\ store'.finalized = store.finalized
      /\ store'.rejected = store.rejected /\ store'.columns = store.columns
      /\ store'.imported = store.imported /\ store'.slot \in Nat
      /\ store'.payloads = store.payloads
  BY <1>2 DEF Stores, Tick
<1>4. Grows
  BY Zenon, <1>1, <1>3, GrowsWithin
<1>5. DOMAIN where' = Objects
  BY Zenon, Places0 DEF Tick, Retry
<1>6. \A x \in Objects : \/ where'[x] = Spawned(x, store', promised, FALSE)
                         \/ /\ where'[x] = where[x]
                            /\ \A slot \in 0 .. store'.slot : where[x] # Parked("untilSlot", slot)
  BY Zenon, Places0 DEF Tick, Retry
<1>7. ASSUME NEW x \in Objects,
             \A slot \in 0 .. store'.slot : where[x] # Parked("untilSlot", slot)
      PROVE  Awaits(store', where[x])
  <2>1. Awaits(store, where[x])
    BY Zenon DEF IInv, Places
  <2>2. ASSUME where[x].at = "untilSlot"
        PROVE  where[x].key > store'.slot
    <3>1. where[x].key \in Nat /\ where[x].key \notin 0 .. store'.slot
      BY Zenon, <1>7, <2>1, <2>2 DEF Awaits, Queues
    <3> QED
      BY <1>3, <3>1
  <2> QED
    BY Zenon, <1>3, <2>1, <2>2 DEF Awaits, MissingColumns
<1>8. \A x \in Objects : Moved(x)
  BY Zenon, <1>3, <1>6, <1>7, SpawnedLaterMoves DEF Moved
<1> QED
  BY Zenon, <1>1, <1>3, <1>4, <1>5, <1>8 DEF Sound, IInv, TypeOK

\* There are finitely many columns.
LEMMA FiniteColumns ==
  IsFiniteSet(Columns) /\ Cardinality(Columns) \in Nat
<1>1. Columns \subseteq 0 .. NumberOfColumns
  BY ColumnsAssumption
<1>2. IsFiniteSet(0 .. NumberOfColumns)
  BY FS_Interval, ColumnsAssumption
<1>3. IsFiniteSet(Columns)
  BY Zenon, <1>1, <1>2, FS_Subset
<1> QED
  BY Zenon, <1>3, FS_CardinalityType

\* A block that lacks no column has them all.
LEMMA CompleteHasAll ==
  ASSUME NEW s, NEW b, Info[b].blobs, MissingColumns(s, b) = {}
  PROVE  AllColumns(s, b)
<1>1. {c \in Columns : <<b, c>> \in s.columns} = Columns
  BY Zenon DEF MissingColumns
<1>2. Cardinality(Columns) >= Cardinality(Columns)
  BY FiniteColumns
<1> QED
  BY Zenon, <1>1, <1>2 DEF AllColumns, AcceptedColumns

\* The last column completes the block: whoever waits for the data is retried.
LEMMA AcceptColumnsSound ==
  ASSUME IInv, NEW w, NEW b \in Blocks, NEW new, new \subseteq Nat,
         NEW last \in new, \A d \in new : d <= last,
         DOMAIN w = Objects, \A x \in Objects : w[x] = where[x] \/ w[x] = Done,
         AcceptColumns(w, b, new), fetched' = fetched, Constructing' = Constructing
  PROVE  Sound
<1> DEFINE upTo(c) == WithColumns(store, b, {d \in new : d <= c})
           enough == {c \in new : ShouldRetryBlock(upTo(c), b)}
<1>1. store \in Stores /\ DOMAIN where = Objects
  BY Zenon, Places0
<1>2. store' = WithColumns(store, b, new) /\ promised' = promised \ ({b} \X new)
  BY Zenon DEF AcceptColumns
<1>3. /\ store' \in Stores /\ store'.synced = store.synced /\ store'.finalized = store.finalized
      /\ store'.rejected = store.rejected /\ store'.columns = store.columns \union ({b} \X new)
      /\ store'.imported = store.imported /\ store'.slot = store.slot
      /\ store'.payloads = store.payloads
  BY <1>1, <1>2 DEF WithColumns, Stores
<1>4. Grows
  <2>1. promised \subseteq promised' \union store'.columns
    BY Zenon, <1>2, <1>3
  <2> QED
    BY Zenon, <1>3, <2>1, GrowsWithin
<1>5. PICK s : s = upTo(Min(enough))
  BY Zenon
<1>6. PICK block : /\ block = IF enough = {} THEN w
                              ELSE Retry(w, InQueue("untilBlobs", b), s, promised, FALSE)
                   /\ where' = IF AllColumns(store', b)
                               THEN Retry(block, InQueue("untilData", b), store', promised, FALSE)
                               ELSE block
  BY Zenon, <1>2, <1>5 DEF AcceptColumns
<1>7. Behind(s)'
  <2>1. {d \in new : d <= Min(enough)} \subseteq new
    OBVIOUS
  <2>2. PICK some : some = {d \in new : d <= Min(enough)}
    BY Zenon
  <2>3. s = WithColumns(store, b, some) /\ some \subseteq Nat /\ some \subseteq new
    BY Zenon, <1>5, <2>1, <2>2
  <2>4. /\ s \in Stores /\ s.synced = store.synced /\ s.rejected = store.rejected
        /\ s.columns = store.columns \union ({b} \X some)
    BY <1>1, <2>3 DEF WithColumns, Stores
  <2>5. s.columns \subseteq store'.columns
    BY Zenon, <1>3, <2>3, <2>4
  <2> QED
    BY Zenon, <1>3, <2>4, <2>5 DEF Behind
<1>8. ASSUME Info[b].blobs, MissingColumns(store', b) = {}
      PROVE  AllColumns(store', b) /\ enough # {}
  <2>1. AllColumns(store', b)
    BY Zenon, <1>8, CompleteHasAll
  <2>2. {d \in new : d <= last} = new
    BY Zenon
  <2>3. upTo(last) = store'
    BY Zenon, <1>2, <2>2
  <2>4. ShouldRetryBlock(upTo(last), b)
    BY Zenon, <2>1, <2>3 DEF ShouldRetryBlock
  <2> QED
    BY Zenon, <2>1, <2>4
<1> HIDE DEF enough, upTo
<1>9. DOMAIN block = Objects /\ DOMAIN where' = Objects
  BY Zenon, <1>6 DEF Retry
<1>10. \A x \in Objects :
           \/ where'[x] = Spawned(x, store', promised, FALSE)
           \/ where'[x] = block[x] /\ (AllColumns(store', b) => where[x] # Parked("untilData", b))
  BY Zenon, <1>6, <1>9 DEF Retry, InQueue
<1>11. \A x \in Objects :
           \/ block[x] = Spawned(x, s, promised, FALSE)
           \/ block[x] = w[x] /\ (enough # {} => where[x] # Parked("untilBlobs", b))
  BY Zenon, <1>6, <1>9 DEF Retry, InQueue
<1>12. ASSUME NEW x \in Objects,
              AllColumns(store', b) => where[x] # Parked("untilData", b),
              enough # {} => where[x] # Parked("untilBlobs", b)
       PROVE  Awaits(store', where[x])
  <2>1. Awaits(store, where[x])
    BY Zenon DEF IInv, Places
  <2>2. ASSUME where[x].at \in {"untilBlobs", "untilData"}
        PROVE  MissingColumns(store', where[x].key) # {}
    <3>1. PICK k : k = where[x].key
      BY Zenon
    <3>2. k \in Blocks /\ MissingColumns(store, k) # {} /\ where[x] = Parked(where[x].at, k)
      BY Zenon, <2>1, <2>2, <3>1 DEF Awaits, Queues
    <3>3. CASE k = b
      <4>1. Info[b].blobs
        BY Zenon, <3>2, <3>3 DEF MissingColumns
      <4> QED
        BY Zenon, <1>8, <1>12, <2>2, <3>1, <3>2, <3>3, <4>1
    <3>4. CASE k # b
      <4>1. \A c : <<k, c>> \in store'.columns => <<k, c>> \in store.columns
        BY <1>3, <3>4
      <4> QED
        BY Zenon, <3>1, <3>2, <4>1 DEF MissingColumns
    <3> QED
      BY Zenon, <3>3, <3>4
  <2> QED
    BY Zenon, <1>3, <2>1, <2>2 DEF Awaits
<1>13. ASSUME NEW x \in Objects
       PROVE  Moved(x)
  <2>1. CASE where'[x] = Spawned(x, store', promised, FALSE)
    BY Zenon, <1>3, <2>1, SpawnedLaterMoves
  <2>2. CASE where'[x] = Spawned(x, s, promised, FALSE)
    BY Zenon, <1>7, <2>2 DEF Moved
  <2>3. CASE where'[x] = Done
    BY Zenon, <2>3 DEF Moved
  <2>4. CASE /\ where'[x] = where[x]
             /\ AllColumns(store', b) => where[x] # Parked("untilData", b)
             /\ enough # {} => where[x] # Parked("untilBlobs", b)
    BY Zenon, <1>12, <2>4 DEF Moved
  <2> QED
    BY Zenon, <1>10, <1>11, <2>1, <2>2, <2>3, <2>4
<1> QED
  BY Zenon, <1>3, <1>4, <1>9, <1>13 DEF Sound, IInv, TypeOK

\* A column is accepted, or has been already.
LEMMA AcceptColumnSound ==
  ASSUME IInv, NEW o \in Objects, AcceptColumn(o)
  PROVE  Sound
<1>1. fetched' = fetched /\ Constructing' = Constructing
  BY Zenon, RequestKeeps DEF AcceptColumn, Constructing, engine
<1>2. CASE <<o.root, o.n>> \in store.columns
  <2>1. where' = Drop(where, {o}) /\ store' = store /\ promised' = promised
    BY Zenon, <1>2 DEF AcceptColumn
  <2> QED
    BY Zenon, <1>1, <2>1, Drops DEF Still
<1>3. CASE <<o.root, o.n>> \notin store.columns
  <2>1. o.root \in Blocks /\ o.n \in Nat
    BY Zenon, Places0, ObjectFields
  <2>2. {o.n} \subseteq Nat /\ o.n \in {o.n} /\ \A d \in {o.n} : d <= o.n
    BY <2>1
  <2>3. PICK w : w = Drop(where, {o})
    BY Zenon
  <2>4. AcceptColumns(w, o.root, {o.n})
    BY Zenon, <1>3, <2>3 DEF AcceptColumn
  <2>5. DOMAIN w = Objects /\ \A x \in Objects : w[x] = where[x] \/ w[x] = Done
    BY Zenon, <2>3, Places0, DropOf
  <2> QED
    BY ZenonT(40), <1>1, <2>1, <2>2, <2>4, <2>5, AcceptColumnsSound
<1> QED
  BY Zenon, <1>2, <1>3

\* A reconstruction delivers the columns that are missing.
LEMMA ReconstructSound ==
  ASSUME IInv, NEW b \in Blocks, Reconstruct(b)
  PROVE  Sound
<1>1. fetched' = fetched /\ Constructing' = Constructing
  BY Zenon DEF Reconstruct, Constructing, engine
<1>2. CASE UNCHANGED <<store, promised, where>>
  BY Zenon, <1>1, <1>2, Places0, Aside
<1>3. CASE MissingColumns(store, b) # {} /\ AcceptColumns(where, b, MissingColumns(store, b))
  <2>1. MissingColumns(store, b) \subseteq Columns
    BY Zenon DEF MissingColumns
  <2>2. PICK last \in MissingColumns(store, b) : \A d \in MissingColumns(store, b) : d <= last
    BY Zenon, <1>3, <2>1, LastColumn
  <2>3. MissingColumns(store, b) \subseteq Nat
    BY Zenon, <2>1, ColumnsAssumption
  <2> QED
    BY Zenon, <1>1, <1>3, <2>2, <2>3, Places0, AcceptColumnsSound
<1> QED
  BY Zenon, <1>2, <1>3 DEF Reconstruct

\* Finalization drops columns below the finalized slot only, and what waits for
\* a block that is orphaned waits for one that is not imported.
LEMMA AcceptBlockSound ==
  ASSUME IInv, NEW o \in Objects, AcceptBlock(o)
  PROVE  Sound
<1> DEFINE b == o.root
           f == Info[b].finalizes
           inserted == [store EXCEPT !.imported = @ \union {b}]
<1>1. /\ promised' = promised /\ fetched' = fetched
      /\ o.kind = "block" /\ where[o] = Message("accept")
  BY Zenon DEF AcceptBlock, Received
<1>2. /\ b \in Blocks /\ store \in Stores /\ DOMAIN where = Objects
      /\ f \in Blocks /\ Slot(f) \in Nat /\ FinalizedSlot(store) \in Nat
  BY Zenon, Places0, ObjectFields, Known, StoreFields
<1>3. CASE Superseded(b)
  <2>1. where' = Drop(where, {o}) /\ store' = store /\ Constructing' = Constructing
    BY Zenon, <1>3 DEF AcceptBlock, Close, Constructing
  <2> QED
    BY Zenon, <1>1, <2>1, Drops DEF Still
<1>4. CASE ~Superseded(b)
  <2>1. \/ store' = inserted
        \/ Slot(f) > FinalizedSlot(store) /\ store' = Finalize(inserted, f)
    BY Zenon, <1>4 DEF AcceptBlock
  <2>2. PICK t : t = inserted
    BY Zenon
  <2>3. /\ t \in Stores /\ t.synced = store.synced /\ t.rejected = store.rejected
         /\ t.slot = store.slot /\ t.finalized = store.finalized /\ t.columns = store.columns
         /\ t.imported = store.imported \union {b} /\ t.payloads = store.payloads
    BY <1>2, <2>2 DEF Stores
  <2>4. ASSUME store' = Finalize(t, f)
         PROVE  /\ store' \in Stores /\ store'.synced = t.synced /\ store'.rejected = t.rejected
                /\ store'.slot = t.slot /\ store'.finalized = f
                /\ store'.imported \subseteq t.imported /\ store'.payloads \subseteq t.payloads
                /\ store'.columns = {bc \in t.columns : Slot(f) <= Slot(bc[1])}
    <3>1. PICK kept : /\ kept \subseteq t.imported
                      /\ store' = [t EXCEPT !.finalized = f,
                                            !.imported  = kept,
                                            !.payloads  = {x \in @ : x \in kept /\ f \in Ancestors[x]},
                                            !.envelopes = {x \in @ : Slot(f) <= Slot(x)},
                                            !.columns   = {bc \in @ : Slot(f) <= Slot(bc[1])}]
      BY Zenon, <2>4 DEF Finalize
    <3> QED
      BY Zenon, <1>2, <2>3, <3>1 DEF Stores
  <2>5. /\ store' \in Stores /\ store'.synced = store.synced /\ store'.rejected = store.rejected
        /\ store'.slot = store.slot
        /\ store'.imported \subseteq store.imported \union {b}
        /\ store'.payloads \subseteq store.payloads /\ store'.columns \subseteq store.columns
    BY Zenon, <2>1, <2>2, <2>3, <2>4
  <2>6. \/ store'.finalized = store.finalized /\ store'.columns = store.columns
        \/ /\ store'.finalized = f /\ Slot(f) > FinalizedSlot(store)
           /\ store'.columns = {bc \in store.columns : Slot(f) <= Slot(bc[1])}
    BY Zenon, <2>1, <2>2, <2>3, <2>4
  <2>7. FinalizedSlot(store) <= FinalizedSlot(store')
    BY <1>2, <2>6 DEF FinalizedSlot
  <2>8. ASSUME NEW bc \in store.columns
        PROVE  bc \in store'.columns \/ Slot(bc[1]) < FinalizedSlot(store')
    <3>1. bc[1] \in Blocks
      BY Zenon, <1>2, StoreFields
    <3>2. Slot(bc[1]) \in Nat
      BY Zenon, <3>1, Known
    <3> QED
      BY <1>2, <2>6, <3>2 DEF FinalizedSlot
  <2>9. Grows
    BY Zenon, <1>1, <2>5, <2>7, <2>8 DEF Grows
  <2>10. Constructing' \subseteq Constructing
    BY Zenon, <1>4 DEF AcceptBlock, Constructing
  <2>11. ~Info[b].gloas => Backed(b)
    BY Zenon, <1>1 DEF IInv, Places, Judged
  <2>12. PICK w : w = Retry(Drop(where, {o}), InQueue("untilBlock", b), store', promised, FALSE)
    BY Zenon
  <2>13. PICK gone : where' = w \/ where' = Drop(w, gone)
    BY Zenon, <1>4, <2>12 DEF AcceptBlock
  <2>14. DOMAIN w = Objects /\ DOMAIN where' = Objects
    BY Zenon, <1>2, <2>12, <2>13 DEF Retry, Drop
  <2>15. \A x \in Objects : where'[x] = Done \/ where'[x] = w[x]
    BY Zenon, <2>13, <2>14 DEF Drop
  <2>16. \A x \in Objects : \/ w[x] = Spawned(x, store', promised, FALSE)
                            \/ w[x] = Done
                            \/ w[x] = where[x] /\ where[x] # Parked("untilBlock", b)
    BY Zenon, <1>2, <2>12 DEF Retry, Drop, InQueue
  <2>17. ASSUME NEW x \in Objects, where[x] # Parked("untilBlock", b)
         PROVE  Awaits(store', where[x])
    <3>1. Awaits(store, where[x])
      BY Zenon DEF IInv, Places
    <3>2. where[x].at = "untilBlock" => where[x].key # b
      BY Zenon, <2>17, <3>1 DEF Awaits, Queues
    <3>3. \A k : MissingColumns(store, k) \subseteq MissingColumns(store', k)
      BY Zenon, <2>5 DEF MissingColumns
    <3> QED
      BY Zenon, <2>5, <3>1, <3>2, <3>3 DEF Awaits
  <2>18. ASSUME NEW x \in Objects
         PROVE  Moved(x)
    <3>1. CASE where'[x] = Spawned(x, store', promised, FALSE)
      BY Zenon, <2>5, <3>1, SpawnedLaterMoves
    <3>2. CASE where'[x] = Done
      BY Zenon, <3>2 DEF Moved
    <3>3. CASE where'[x] = where[x] /\ where[x] # Parked("untilBlock", b)
      BY Zenon, <2>17, <3>3 DEF Moved
    <3> QED
      BY Zenon, <2>15, <2>16, <3>1, <3>2, <3>3
  <2> QED
    BY Zenon, <2>5, <2>9, <2>10, <2>11, <2>14, <2>18 DEF Sound, IInv, TypeOK
<1> QED
  BY Zenon, <1>3, <1>4

-----------------------------------------------------------------------------
(* The theorems. *)

\* The invariant: every object is where it may be, and every construction of
\* columns and every import before its columns is backed by promises or by blobs
\* of the execution engine (Mutator::run and the tasks it spawns).
THEOREM Inductive == Spec => []IInv
<1>1. Init => IInv
  <2>1. SUFFICES ASSUME Init PROVE IInv
    OBVIOUS
  <2>2. PICK synced \in BOOLEAN :
            store = [slot |-> scenario.first, synced |-> synced, finalized |-> Anchor,
                     imported |-> {Anchor}, rejected |-> {}, columns |-> {},
                     payloads |-> {}, envelopes |-> {}]
    BY Zenon, <2>1 DEF Init
  <2>3. scenario \in Scenarios /\ scenario.first \in Nat /\ Anchor \in Blocks
    BY Zenon, <2>1, ScenariosAssumption, InfoAssumption DEF Init
  <2>4. store \in Stores
    BY <2>2, <2>3 DEF Stores
  <2>5. store.imported = {Anchor} /\ store.rejected = {} /\ store.finalized = Anchor
    BY <2>2
  <2>6. \A o \in Objects : where[o] = Idle
    BY Zenon, <2>1 DEF Init
  <2>7. Idle.at = "idle" /\ \A a : Idle # Message(a)
    BY DEF Idle, Message
  <2>8. Places
    BY Zenon, <2>6, <2>7 DEF Places, Awaits, Judged, Queues
  <2>9. TypeOK
    BY Zenon, <2>1, <2>3, <2>4 DEF TypeOK, Constructing, Init
  <2>10. Backed(Anchor)
    <3>1. MissingColumns(store, Anchor) = {}
      BY Zenon, InfoAssumption DEF MissingColumns
    <3> QED
      BY <3>1 DEF Backed
  <2> QED
    BY Zenon, <2>1, <2>5, <2>8, <2>9, <2>10
       DEF IInv, Init, Constructing, StartedAreBacked, ImportedAreBacked, RejectedAreInvalid
<1>2. IInv /\ [Next]_vars => IInv'
  <2>1. SUFFICES ASSUME IInv, [Next]_vars PROVE IInv'
    OBVIOUS
  <2>2. CASE Next
    <3>1. scenario' = scenario
      BY Zenon, <2>2 DEF Next
    <3>2. ASSUME NEW o \in Objects, Submit(o) \/ RunTask(o) \/ Verify(o) PROVE Sound
      BY Zenon, <2>1, <3>2, SubmitSound, RunTaskSound, VerifySound
    <3>3. ASSUME NEW o \in Objects, Handle(o) PROVE Sound
      <4>1. CASE Ignored(o) \/ AcceptAttestation(o)
        BY Zenon, <2>1, <4>1, ClosesSound
      <4>2. CASE Rejected(o)
        BY Zenon, <2>1, <4>2, RejectedSound
      <4>3. CASE DelayUntilSlot(o)
        BY Zenon, <2>1, <4>3, DelayUntilSlotSound
      <4>4. CASE DelayUntilParent(o)
        BY Zenon, <2>1, <4>4, DelayUntilParentSound
      <4>5. CASE DelayAttestationUntilBlock(o)
        BY Zenon, <2>1, <4>5, DelayAttestationUntilBlockSound
      <4>6. CASE DelayEnvelopeUntilBlock(o)
        BY Zenon, <2>1, <4>6, DelayEnvelopeUntilBlockSound
      <4>7. CASE DelayUntilPayload(o)
        BY Zenon, <2>1, <4>7, DelayUntilPayloadSound
      <4>8. CASE DelayUntilBlobs(o) \/ DelayUntilData(o)
        <5>1. PICK q \in {"untilBlobs", "untilData"} : \E state \in BOOLEAN : DelayUntilColumns(o, q, state)
          BY Zenon, <4>8 DEF DelayUntilBlobs, DelayUntilData
        <5>2. store' = store
          BY Zenon, <4>8 DEF DelayUntilBlobs, DelayUntilData
        <5> QED
          BY Zenon, <2>1, <5>1, <5>2, DelayUntilColumnsSound
      <4>9. CASE DelayUntilState(o)
        BY Zenon, <2>1, <4>9, DelayUntilStateSound
      <4>10. CASE AcceptEnvelope(o)
        BY Zenon, <2>1, <4>10, AcceptEnvelopeSound
      <4>11. CASE AcceptColumn(o)
        BY Zenon, <2>1, <4>11, AcceptColumnSound
      <4>12. CASE AcceptBlock(o)
        BY Zenon, <2>1, <4>12, AcceptBlockSound
      <4> QED
        BY Zenon, <3>3, <4>1, <4>2, <4>3, <4>4, <4>5, <4>6, <4>7, <4>8, <4>9, <4>10, <4>11, <4>12
           DEF Handle
    <3>4. CASE Tick
      BY Zenon, <2>1, <3>1, <3>4, TickSound, SoundStep
    <3>5. ASSUME NEW b \in Blocks, Reconstruct(b) PROVE Sound
      BY Zenon, <2>1, <3>5, ReconstructSound
    <3>6. CASE \/ PruneStateCache
               \/ \E b \in Blocks : \/ PreprocessState(b) \/ FailReconstruction(b)
                                    \/ AbandonReconstruction(b) \/ FailConstruction(b)
      BY Zenon, <2>1, <3>1, <3>6, RestSound, SoundStep
    <3>7. ASSUME NEW b \in Blocks, ConstructSidecars(b) PROVE Sound
      BY Zenon, <2>1, <3>7, ConstructSound
    <3>8. Sound => IInv'
      BY Zenon, <2>1, <3>1, SoundStep
    <3> QED
      BY Zenon, <2>2, <3>2, <3>3, <3>4, <3>5, <3>6, <3>7, <3>8 DEF Next, EndReconstruction
  <2>3. CASE UNCHANGED vars
    <3>1. /\ scenario' = scenario /\ store' = store /\ Constructing' = Constructing
          /\ fetched' = fetched /\ promised' = promised /\ where' = where
      BY Zenon, <2>3 DEF vars, rebuild, engine, Constructing
    <3>2. Sound
      BY Zenon, <2>1, <3>1, Places0, Aside
    <3> QED
      BY Zenon, <2>1, <3>1, <3>2, SoundStep
  <2> QED
    BY Zenon, <2>1, <2>2, <2>3
<1> QED
  BY <1>1, <1>2, PTL DEF Spec

\* An object in one of the mutator's delayed_until_* maps waits for something
\* that the store still lacks, however late the outcome of its validation came.
THEOREM NoWakeUpIsLost == Spec => []NothingWaitsInVain
<1>1. IInv => NothingWaitsInVain
  BY Zenon DEF IInv, Places, Awaits, NothingWaitsInVain
<1> QED
  BY <1>1, Inductive, PTL

\* A block that was imported before its columns has a promise of each one, unless
\* columns were constructed for it from the execution engine's blobs.
THEOREM PromisesCoverImports == Spec => []ImportedHasDataOrPromise
<1>1. IInv => ImportedHasDataOrPromise
  BY Zenon DEF IInv, ImportedAreBacked, Backed, ImportedHasDataOrPromise
<1> QED
  BY <1>1, Inductive, PTL

\* The roots in the rejected blocks of the store are of invalid blocks and of
\* blocks that descend from one.
THEOREM RejectionsAreDeserved == Spec => []RejectedAreInvalid
<1>1. IInv => RejectedAreInvalid
  BY Zenon DEF IInv
<1> QED
  BY <1>1, Inductive, PTL

=============================================================================
