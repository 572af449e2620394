----------------------------- MODULE MCKeyInput -----------------------------
(***************************************************************************)
(* Two programs read standard input while the shell polls its queue.       *)
(***************************************************************************)
EXTENDS KeyInput

TwoPrograms == <<"p1", "p2">>

\* What the steps to come depend on: not the slots of the rings that hold no
\* key, not the register after its use, and not the last values returned.
Waiting(ring, first, n, size) == [i \in 1 .. n |-> ring[(first + i - 1) % size]]

Relevant ==
  <<current, state, pc, IF pc = "store" THEN byte ELSE 0, KEYBOARD, hung,
    INPUT.head, Waiting(INPUT.bytes, INPUT.head, INPUT.length, INPUT_CAPACITY),
    QUEUE.tail, Waiting(QUEUE.slots, QUEUE.tail, QueueLength, QUEUE_CAPACITY)>>
=============================================================================
