---------------------------- MODULE BoundedQueue ----------------------------
(***************************************************************************)
(* What a key queue promises: keys leave in the order they came, each once *)
(* and unchanged; a key that finds the queue full is the one that is lost. *)
(***************************************************************************)
EXTENDS Naturals, Sequences

CONSTANT CAPACITY

VARIABLES
  items,   \* keys waiting, oldest first
  taken    \* what the last reader was given

Init == items = <<>> /\ taken = <<>>

Push ==
  /\ Len(items) < CAPACITY
  /\ Len(items') = Len(items) + 1
  /\ SubSeq(items', 1, Len(items)) = items
  /\ UNCHANGED taken

Take ==
  \E n \in 1 .. Len(items) :
    /\ taken' = SubSeq(items, 1, n)
    /\ items' = SubSeq(items, n + 1, Len(items))

Step == [Push \/ Take]_<<items, taken>>

Spec == Init /\ [][Push \/ Take]_<<items, taken>>
=============================================================================
