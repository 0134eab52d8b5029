--------------------------- MODULE MCDelayedObjects ---------------------------
(***************************************************************************)
(* Small instances of DelayedObjects.  Each scenario is a handful of       *)
(* objects that meet in one of the mutator's queues; they arrive in every  *)
(* order, at any time, to a node that is syncing and to one that is synced.*)
(***************************************************************************)
EXTENDS DelayedObjects

B(parent, slot, gloas, blobs) ==
    [parent |-> parent, slot |-> slot, gloas |-> gloas, blobs |-> blobs,
     full |-> FALSE, invalid |-> FALSE, known |-> TRUE, finalizes |-> 0]

MCInfo ==
    [b \in 0..13 |->
        CASE b = 0  -> B(0, 0, TRUE, FALSE)
          [] b = 1  -> B(0, 1, FALSE, TRUE)
          [] b = 2  -> B(1, 2, FALSE, FALSE)
          [] b = 3  -> B(0, 1, TRUE, TRUE)
          [] b = 4  -> [B(9, 2, FALSE, FALSE) EXCEPT !.known = FALSE]
          [] b = 5  -> [B(0, 1, FALSE, FALSE) EXCEPT !.invalid = TRUE]
          [] b = 6  -> B(5, 2, FALSE, FALSE)
          [] b = 7  -> B(0, 1, FALSE, FALSE)
          [] b = 8  -> [B(7, 2, FALSE, FALSE) EXCEPT !.finalizes = 7]
          [] b = 9  -> [B(0, 1, FALSE, FALSE) EXCEPT !.known = FALSE]
          [] b = 10 -> [B(9, 2, FALSE, FALSE) EXCEPT !.known = FALSE]
          [] b = 11 -> B(0, 1, TRUE, FALSE)
          [] b = 12 -> [B(11, 2, TRUE, FALSE) EXCEPT !.full = TRUE]
          [] b = 13 -> [B(0, 1, FALSE, TRUE) EXCEPT !.invalid = TRUE]]

MCAncestors[b \in DOMAIN MCInfo] ==
    {b} \union (IF b = 0 THEN {} ELSE MCAncestors[MCInfo[b].parent])

Object(kind, b, n, slot, ok) ==
    [kind |-> kind, root |-> b, n |-> n, slot |-> slot, ok |-> ok, seen |-> FALSE,
     el |-> FALSE]
Block(b) == Object("block", b, 0, MCInfo[b].slot, TRUE)
Column(b, c) == Object("column", b, c, MCInfo[b].slot, TRUE)
Envelope(b) == Object("envelope", b, 0, MCInfo[b].slot, TRUE)
Attestation(b, index, slot) == Object("attestation", b, index, slot, TRUE)
Bad(o) == [o EXCEPT !.ok = FALSE]
Seen(o) == [o EXCEPT !.seen = TRUE]
FromEngine(b) == {[Seen(Column(b, c)) EXCEPT !.el = TRUE] : c \in 1..3}

Between(first, last, objects) ==
    [first |-> first, last |-> last, objects |-> objects, complete |-> FALSE]
Complete(s) == [s EXCEPT !.complete = TRUE]

MCScenarios ==
    { \* a block before Gloas, early, with half of the columns or with a bad one
      Between(0, 1, {Block(1), Column(1, 1), Column(1, 2)}),
      Between(1, 1, {Block(1), Column(1, 1), Bad(Column(1, 3))}),
      \* half of the columns, one of them twice
      Between(1, 1, {Block(1), Column(1, 1), Column(1, 2), Seen(Column(1, 2))}),
      \* a child that meets the early import of its parent
      Between(2, 2, {Block(1), Block(2), Column(1, 1), Column(1, 2)}),
      \* all columns
      Complete(Between(1, 1, {Block(1), Column(1, 1), Column(1, 2), Column(1, 3)})),
      Complete(Between(1, 1, {Block(3), Envelope(3)} \union {Column(3, c) : c \in 1..3})),
      \* blobs from the execution engine
      Between(1, 1, {Block(1), Column(1, 1)} \union FromEngine(1)),
      Between(1, 1, {Block(3), Envelope(3), Column(3, 1)} \union FromEngine(3)),
      \* payloads: a full child and an attestation wait for an envelope
      Complete(Between(1, 2, {Block(11), Block(12), Envelope(11), Envelope(12),
                              Attestation(11, 1, 2)})),
      Between(1, 1, {Block(11), Envelope(11), Bad(Envelope(11))}),
      \* invalid blocks, with a child or with columns
      Between(1, 2, {Block(5), Block(6), Attestation(5, 0, 1)}),
      Between(1, 1, {Block(13), Column(13, 1), Column(13, 2)}),
      \* queues that are full: two blocks of a future slot, two without a parent
      Between(0, 1, {Block(7), Block(9), Attestation(7, 0, 1)}),
      Between(2, 2, {Block(9), Block(10), Block(4)}),
      \* forks, one of which is finalized, and copies with a bad signature
      Between(2, 2, {Block(7), Bad(Block(7)), Block(8), Block(9), Block(10)}),
      Complete(Between(1, 2, {Block(7), Bad(Block(7)), Block(8)})),
      Between(1, 4, {Block(7), Block(8), Attestation(7, 0, 2), Attestation(9, 0, 1)}) }
=============================================================================
