-------------------------- MODULE AtomicStateCache --------------------------
(***************************************************************************)
(* What the beacon state cache promises its callers: one map from block    *)
(* roots to states by slot, and calls that each take effect at one instant *)
(* between their invocation and their return, as if under one lock.  A     *)
(* state enters the map when an insert stores it, or when a query has      *)
(* computed it and the map has none that will do, and leaves it only when  *)
(* a prune reaches its block.  StateCache.tla shows the two-level locking  *)
(* of state_cache/src/state_cache.rs to implement this.                    *)
(***************************************************************************)
EXTENDS Naturals

CONSTANTS Calls,      \* activations of the cache's methods
          Roots,      \* block roots
          Slots,      \* slots of the cached states
          Requests,   \* the arguments of calls, as in StateCache
          None

VARIABLES states,     \* states[r][s]: the state cached for block r at slot s
          running     \* running[c]: the arguments of call c, or None

vars == <<states, running>>

NoStates == [s \in Slots |-> "absent"]

Init == /\ states = [r \in Roots |-> NoStates]
        /\ running = [c \in Calls |-> None]

Call(c, q) ==
  /\ running[c] = None
  /\ running' = [running EXCEPT ![c] = q]
  /\ UNCHANGED states

Is(c, ops) == running[c] # None /\ running[c].op \in ops

Return(c) == running[c] # None /\ running' = [running EXCEPT ![c] = None]

\* The call stores a state of its block and slot, as the last thing it does.
Store(c, kind) ==
  /\ states' = [states EXCEPT ![running[c].root][running[c].slot] = kind]
  /\ Return(c)

\* insert stores over whatever there is.
Insert(c) == Is(c, {"insert"}) /\ Store(c, "bare")

\* A state comes with block rewards ("rewarded") or without ("bare").
Asked(q) == IF q.op = "process" /\ ~q.ignoreMissingRewards THEN "rewarded" ELSE "bare"

\* What a query stores is better than what there is: it replaces no state that
\* would have answered the query, and gives up no rewards.
Remember(c) ==
  LET q == running[c]
      found == states[q.root][q.slot]
  IN  /\ Is(c, {"process", "try"})
      /\ q.op = "try" => q.storeResult
      /\ found = "absent" \/ (found = "bare" /\ Asked(q) = "rewarded")
      /\ Store(c, Asked(q))

\* The states of a block that a prune drops.
Drops(q, r, s) == r \notin q.preserved /\ (r \in q.pruned \/ s <= q.lastPruned)

\* A running prune reaches a block.
Prune(c, r) ==
  /\ Is(c, {"prune"})
  /\ states' = [states EXCEPT ![r] =
                  [s \in Slots |-> IF Drops(running[c], r, s) THEN "absent" ELSE states[r][s]]]
  /\ UNCHANGED running

Next == \E c \in Calls :
          \/ \E q \in Requests : Call(c, q)
          \/ Insert(c) \/ Remember(c) \/ \E r \in Roots : Prune(c, r)
          \/ Return(c) /\ UNCHANGED states

Spec == Init /\ [][Next]_vars
=============================================================================
