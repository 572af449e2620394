---------------------------- MODULE TextEditing ----------------------------
(***************************************************************************)
(* What a text editor does, in terms of characters and lines.  A text t is *)
(* a sequence of characters, each the sequence of its bytes, and p the     *)
(* number of characters before the cursor.                                 *)
(***************************************************************************)
EXTENDS Integers, Sequences, SequencesExt

Newline == <<10>>

Size(t) == FoldLeft(LAMBDA n, char : n + Len(char), 0, t)

\* Where the line of a position begins and ends.
Start(t, p) == CHOOSE s \in 0 .. p :
  /\ s = 0 \/ t[s] = Newline
  /\ \A i \in s + 1 .. p : t[i] # Newline
End(t, p) == CHOOSE e \in p .. Len(t) :
  /\ e = Len(t) \/ t[e + 1] = Newline
  /\ \A i \in p + 1 .. e : t[i] # Newline

\* The position of a column in the line that begins at s, or the line's end.
InLine(t, s, column) == IF column < End(t, s) - s THEN s + column ELSE End(t, s)

Above(t, p) == IF Start(t, p) = 0 THEN p
               ELSE InLine(t, Start(t, Start(t, p) - 1), p - Start(t, p))
Below(t, p) == IF End(t, p) = Len(t) THEN p
               ELSE InLine(t, End(t, p) + 1, p - Start(t, p))

Repeat(Step(_), n, p) == FoldLeft(LAMBDA q, i : Step(q), p, [i \in 1 .. n |-> i])

Moves(t, p, page) ==
  {q \in {p - 1, p + 1} : q \in 0 .. Len(t)}
  \cup {Start(t, p), End(t, p), Above(t, p), Below(t, p)}
  \cup {Repeat(LAMBDA q : Above(t, q), page, p), Repeat(LAMBDA q : Below(t, q), page, p)}

\* The texts and positions one key may lead to.
Edits(t, p, typed, limit, page) ==
  {<<InsertAt(t, p + 1, char), p + 1>> : char \in IF Size(t) < limit THEN typed ELSE {}}
  \cup (IF p > 0 THEN {<<RemoveAt(t, p), p - 1>>} ELSE {})
  \cup (IF p < Len(t) THEN {<<RemoveAt(t, p + 1), p>>} ELSE {})
  \cup {<<t, q>> : q \in Moves(t, p, page)}
=============================================================================
