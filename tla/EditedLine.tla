----------------------------- MODULE EditedLine -----------------------------
(***************************************************************************)
(* What the shell's prompt promises: a line of text with a cursor in it,   *)
(* and the lines entered before, the latest first, to be called back.  The *)
(* text that was being typed comes back after the latest of them.          *)
(***************************************************************************)
EXTENDS Naturals, Sequences, SequencesExt

CONSTANTS WIDTH, DEPTH, BYTES

VARIABLES
  text, cursor,
  past,    \* lines entered, the latest first
  age,     \* which of them is shown: 0 for none
  draft    \* the text typed before the first was called back

vars == <<text, cursor, past, age, draft>>

Init == text = <<>> /\ cursor = 0 /\ past = <<>> /\ age = 0 /\ draft = <<>>

\* An edit of the text: what is shown is no longer an earlier line.
Edited(new, at) ==
  /\ text' = new /\ cursor' = at
  /\ age' = 0
  /\ UNCHANGED <<past, draft>>

Insert == \E byte \in BYTES : Len(text) < WIDTH /\ Edited(InsertAt(text, cursor + 1, byte), cursor + 1)
Backspace == cursor > 0 /\ Edited(RemoveAt(text, cursor), cursor - 1)
Delete == cursor < Len(text) /\ Edited(RemoveAt(text, cursor + 1), cursor)

Move == cursor' \in 0 .. Len(text) /\ UNCHANGED <<text, past, age, draft>>

Show(a, line) == age' = a /\ text' = line /\ cursor' = Len(line) /\ UNCHANGED past

Older ==
  /\ past # <<>>
  /\ LET a == IF age < Len(past) THEN age + 1 ELSE age
     IN  Show(a, past[a])
  /\ draft' = IF age = 0 THEN text ELSE draft

Newer ==
  /\ age > 0
  /\ Show(age - 1, IF age = 1 THEN draft ELSE past[age - 1])
  /\ UNCHANGED draft

\* A line is remembered unless it is empty or the same as the latest one.
Enter ==
  /\ past' = IF text = <<>> \/ (past # <<>> /\ text = Head(past)) THEN past
             ELSE SubSeq(<<text>> \o past, 1, IF Len(past) < DEPTH THEN Len(past) + 1 ELSE DEPTH)
  /\ text' = <<>> /\ cursor' = 0 /\ age' = 0
  /\ UNCHANGED draft

\* Ctrl-C empties the line, and the place in the history is kept.
Interrupt == text' = <<>> /\ cursor' = 0 /\ UNCHANGED <<past, age, draft>>

Next == Insert \/ Backspace \/ Delete \/ Move \/ Older \/ Newer \/ Enter \/ Interrupt

Step == [Next]_vars

Spec == Init /\ [][Next]_vars
=============================================================================
