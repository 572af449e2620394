----------------------------- MODULE FramePool -----------------------------
(***************************************************************************)
(* What the frame allocator promises: a frame that nobody holds is handed  *)
(* out while there is one, and a frame that is given back may be handed    *)
(* out again.  The reported count is the number of frames left.            *)
(***************************************************************************)
EXTENDS Naturals, FiniteSets

VARIABLES usable,   \* the frames that may be used: they stay the same
          held, count

Init == held = {} /\ count = Cardinality(usable)

Allocate ==
    /\ \E f \in usable \ held : held' = held \cup {f}
    /\ count' = count - 1
    /\ UNCHANGED usable

Release ==
    /\ \E f \in held : held' = held \ {f}
    /\ count' = count + 1
    /\ UNCHANGED usable

vars == <<usable, held, count>>

Step == [Allocate \/ Release]_vars

Spec == Init /\ [][Allocate \/ Release]_vars
=============================================================================
