----------------------------- MODULE CommandLine -----------------------------
(***************************************************************************)
(* The command line of the shell (shell/mod.rs): LineEditor, a buffer that *)
(* is shifted in place, CommandHistory, a ring of lines with a draft, and  *)
(* the keys of the shell's loop `run' that act on them.  What a command    *)
(* does when it is executed belongs to other modules.                      *)
(***************************************************************************)
EXTENDS Integers, Sequences, SequencesExt

CONSTANTS
  Printable,          \* bytes of characters, the space among them
  INPUT_CAPACITY,
  HISTORY_CAPACITY

Space == 32

\* What the constants must satisfy.
CommandLineAssumption ==
  /\ INPUT_CAPACITY \in Nat \ {0} /\ HISTORY_CAPACITY \in Nat \ {0}
  /\ Printable \subseteq 32 .. 126 /\ Space \in Printable

VARIABLES
  line,      \* the LineEditor: bytes, length, cursor
  history    \* the CommandHistory: entries, lengths, next, count, browsing, draft, draft_len

vars == <<line, history>>

None == -1
Blank == [i \in 0 .. INPUT_CAPACITY - 1 |-> 0]
Slots == 0 .. HISTORY_CAPACITY - 1

Init ==
  /\ line = [bytes |-> Blank, length |-> 0, cursor |-> 0]
  /\ history = [entries |-> [s \in Slots |-> Blank], lengths |-> [s \in Slots |-> 0],
                next |-> 0, count |-> 0, browsing |-> None, draft |-> Blank, draft_len |-> 0]

(* ------------------------------ LineEditor ----------------------------- *)

\* slice::copy_within(from..until, to), and copy_from_slice of the first n bytes.
CopyWithin(bytes, from, until, to) ==
  [i \in DOMAIN bytes |-> IF i \in to .. to + (until - from) - 1 THEN bytes[i - to + from] ELSE bytes[i]]

CopyFirst(target, source, n) == [i \in DOMAIN target |-> IF i < n THEN source[i] ELSE target[i]]

\* The lengths are those of lines of the editor, so that none is cut.
replace(bytes, length) ==
  [bytes |-> CopyFirst(line.bytes, bytes, length), length |-> length, cursor |-> length]

insert(byte) ==
  [bytes |-> [CopyWithin(line.bytes, line.cursor, line.length, line.cursor + 1) EXCEPT ![line.cursor] = byte],
   length |-> line.length + 1, cursor |-> line.cursor + 1]

backspace ==
  [bytes |-> CopyWithin(line.bytes, line.cursor, line.length, line.cursor - 1),
   length |-> line.length - 1, cursor |-> line.cursor - 1]

\* Mutant: the byte after the deleted one stays where it is.
DeleteShort ==
  [line EXCEPT !.bytes = CopyWithin(line.bytes, line.cursor + 2, line.length, line.cursor + 1),
               !.length = @ - 1]

delete ==
  [line EXCEPT !.bytes = CopyWithin(line.bytes, line.cursor + 1, line.length, line.cursor),
               !.length = @ - 1]

clear == [line EXCEPT !.length = 0, !.cursor = 0]

(* ---------------------------- CommandHistory --------------------------- *)

\* The slot of the entry of a given age, 0 being the latest.
IndexOf(age) == (history.next + HISTORY_CAPACITY - 1 - age) % HISTORY_CAPACITY

\* as_bytes of the line, and the entry of a slot.
Text == [i \in 1 .. line.length |-> line.bytes[i - 1]]
Entry(slot) == [i \in 1 .. history.lengths[slot] |-> history.entries[slot][i - 1]]

IsLatest == history.count > 0 /\ Entry(IndexOf(0)) = Text

record ==
  IF line.length = 0 \/ IsLatest THEN [history EXCEPT !.browsing = None]
  ELSE [history EXCEPT
         !.entries[history.next] = CopyFirst(@, line.bytes, line.length),
         !.lengths[history.next] = line.length,
         !.next = (@ + 1) % HISTORY_CAPACITY,
         !.count = IF @ < HISTORY_CAPACITY THEN @ + 1 ELSE @,
         !.browsing = None]

abandon_browsing == [history EXCEPT !.browsing = None]

ShowSlot(slot) == line' = replace(history.entries[slot], history.lengths[slot])

older ==
  /\ history.count > 0
  /\ LET fresh == history.browsing = None
         age == IF fresh THEN 0
                ELSE IF history.browsing + 1 < history.count THEN history.browsing + 1 ELSE history.count - 1
     IN  /\ history' = [history EXCEPT
              !.browsing = age,
              !.draft_len = IF fresh THEN line.length ELSE @,
              !.draft = IF fresh THEN CopyFirst(@, line.bytes, line.length) ELSE @]
         /\ ShowSlot(IndexOf(age))

newer ==
  /\ history.browsing # None
  /\ IF history.browsing = 0
     THEN /\ history' = abandon_browsing
          /\ line' = replace(history.draft, history.draft_len)
     ELSE /\ history' = [history EXCEPT !.browsing = @ - 1]
          /\ ShowSlot((history.next + HISTORY_CAPACITY - history.browsing) % HISTORY_CAPACITY)

(* ---------------------- the keys of the shell's loop -------------------- *)

KeyEnter ==
  /\ history' = record
  /\ line' = clear

KeyBackspace ==
  /\ line.cursor > 0
  /\ line' = backspace
  /\ history' = abandon_browsing

KeyInterrupt ==
  /\ line' = clear
  /\ UNCHANGED history

\* A printable byte; Tab is a space.
KeyInsert(byte) ==
  /\ line.length < INPUT_CAPACITY
  /\ line' = insert(byte)
  /\ history' = abandon_browsing

KeyDelete ==
  /\ line.cursor < line.length
  /\ line' = delete
  /\ history' = abandon_browsing

\* Left, Right, Home and End.
KeyMove ==
  /\ \/ line.cursor > 0 /\ line' = [line EXCEPT !.cursor = @ - 1]
     \/ line.cursor < line.length /\ line' = [line EXCEPT !.cursor = @ + 1]
     \/ line' = [line EXCEPT !.cursor = 0]
     \/ line' = [line EXCEPT !.cursor = line.length]
  /\ UNCHANGED history

Next ==
  \/ KeyEnter
  \/ KeyBackspace
  \/ KeyInterrupt
  \/ \E byte \in Printable : KeyInsert(byte)
  \/ KeyDelete
  \/ KeyMove
  \/ older
  \/ newer

Spec == Init /\ [][Next]_vars

(* ------------------------------ properties ----------------------------- *)

Model == INSTANCE EditedLine WITH
  WIDTH <- INPUT_CAPACITY, DEPTH <- HISTORY_CAPACITY, BYTES <- Printable,
  text <- Text,
  cursor <- line.cursor,
  past <- [n \in 1 .. history.count |-> Entry(IndexOf(n - 1))],
  age <- history.browsing + 1,
  draft <- [i \in 1 .. history.draft_len |-> history.draft[i - 1]]

\* The buffers of LineEditor, shifted in place and never cleared, and the ring
\* of CommandHistory, overwritten as it wraps, are a line of text and a list
\* of the latest lines: no byte of a longer line shows through a shorter one,
\* the oldest entry is the one that is lost, and the draft comes back as it was.
ImplementsEditedLine == Model!Spec

=============================================================================
