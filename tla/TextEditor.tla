----------------------------- MODULE TextEditor -----------------------------
(***************************************************************************)
(* The full-screen editor of the shell (shell/mod.rs): a buffer of bytes   *)
(* that must stay valid UTF-8 with the cursor on a character boundary, as  *)
(* the editor panics otherwise, and the session around it: opening, saving *)
(* with a write that may fail, and leaving with unsaved changes.           *)
(***************************************************************************)
EXTENDS Integers, FiniteSets, Sequences, SequencesExt

CONSTANTS
  Typed,              \* bytes of keys that insert themselves: 10 and printable ones
  Files,              \* contents a program may give the file
  EDITOR_MAX_BYTES,
  PAGE                \* lines of a page, 12 in the code

\* What the constants must satisfy.
TextEditorAssumption ==
  /\ EDITOR_MAX_BYTES \in Nat /\ PAGE \in Nat
  /\ Typed \subseteq {10} \cup 32 .. 126

VARIABLES
  mode,      \* "closed", "edit", or "confirm" while the question is open
  bytes, cursor, dirty,   \* struct TextEditor
  file,      \* the contents of the file on the data disk
  opened     \* the contents that were read when the editor was opened

vars == <<mode, bytes, cursor, dirty, file, opened>>

(* -------------------------------- UTF-8 -------------------------------- *)

\* Offsets count from 0, as in the code: byte i is bytes[i + 1].
Continuation(byte) == byte \in 128 .. 191

is_char_boundary(text, i) == i = Len(text) \/ (i < Len(text) /\ ~Continuation(text[i + 1]))

CharWidth(byte) ==
  CASE byte < 128 -> 1
    [] byte \in 194 .. 223 -> 2
    [] byte \in 224 .. 239 -> 3
    [] byte \in 240 .. 244 -> 4
    [] OTHER -> 0

\* core::str::from_utf8: every character has the bytes its first announces.
ValidUtf8(text) ==
  /\ text # <<>> => ~Continuation(text[1])
  /\ \A i \in 1 .. Len(text) :
       ~Continuation(text[i]) =>
         /\ CharWidth(text[i]) > 0
         /\ i + CharWidth(text[i]) - 1 <= Len(text)
         /\ \A j \in i + 1 .. Len(text) :
              j < i + CharWidth(text[i]) <=> \A n \in i + 1 .. j : Continuation(text[n])

(* ------------------------------- movement ------------------------------ *)

Least(set) == CHOOSE i \in set : \A j \in set : i <= j
Greatest(set) == CHOOSE i \in set : \A j \in set : j <= i

previous_boundary == Greatest({i \in 0 .. cursor - 1 : is_char_boundary(bytes, i)})
next_boundary == Least({i \in cursor + 1 .. Len(bytes) : is_char_boundary(bytes, i)})

\* Offset of the first byte of the line of offset i, and of its end.
LineStart(i) == Greatest({0} \cup {k \in 1 .. i : bytes[k] = 10})
LineEnd(i) == Least({Len(bytes)} \cup {k \in i .. Len(bytes) - 1 : bytes[k + 1] = 10})

CharsIn(from, until) == Cardinality({i \in from .. until - 1 : is_char_boundary(bytes, i)})

None == -1

\* Mutant: a line that is too short is entered at its beginning.
VerticalToStart(at, down) ==
  LET column == CharsIn(LineStart(at), at)
      target_start == IF down THEN IF LineEnd(at) < Len(bytes) THEN LineEnd(at) + 1 ELSE None
                      ELSE IF LineStart(at) > 0 THEN LineStart(LineStart(at) - 1) ELSE None
      nth == {i \in target_start .. LineEnd(target_start) - 1 :
                is_char_boundary(bytes, i) /\ CharsIn(target_start, i) = column}
  IN  CASE target_start = None -> None
        [] target_start # None /\ nth # {} -> Least(nth)
        [] OTHER -> target_start

vertical_cursor_target(at, down) ==
  LET column == CharsIn(LineStart(at), at)
      target_start == IF down THEN IF LineEnd(at) < Len(bytes) THEN LineEnd(at) + 1 ELSE None
                      ELSE IF LineStart(at) > 0 THEN LineStart(LineStart(at) - 1) ELSE None
      target_end == LineEnd(target_start)
      nth == {i \in target_start .. target_end - 1 :
                is_char_boundary(bytes, i) /\ CharsIn(target_start, i) = column}
  IN  CASE target_start = None -> None
        [] target_start # None /\ nth # {} -> Least(nth)
        [] OTHER -> target_end

\* Up to PAGE vertical moves, ending at the first that has no line to go to.
PageTarget(down) ==
  FoldLeft(LAMBDA at, n : LET target == vertical_cursor_target(at, down)
                          IN  IF target = None THEN at ELSE target,
           cursor, [n \in 1 .. PAGE |-> n])

(* ------------------------------- keys ---------------------------------- *)

Init ==
  /\ mode = "closed"
  /\ bytes = <<>> /\ cursor = 0 /\ dirty = FALSE
  /\ file \in Files
  /\ opened = <<>>

\* edit_disk_file up to its loop.  A file that does not exist is an empty one.
Open ==
  /\ mode = "closed"
  /\ Len(file) <= EDITOR_MAX_BYTES
  /\ ValidUtf8(file)
  /\ mode' = "edit"
  /\ bytes' = file /\ cursor' = Len(file) /\ dirty' = FALSE
  /\ opened' = file
  /\ UNCHANGED file

insert(byte) ==
  /\ mode = "edit"
  /\ Len(bytes) < EDITOR_MAX_BYTES
  /\ bytes' = InsertAt(bytes, cursor + 1, byte)
  /\ cursor' = cursor + 1
  /\ dirty' = TRUE
  /\ UNCHANGED <<mode, file, opened>>

\* Vec::drain of the bytes from one offset up to another.
Drained(from, until) == SubSeq(bytes, 1, from) \o SubSeq(bytes, until + 1, Len(bytes))

backspace ==
  /\ mode = "edit"
  /\ cursor > 0
  /\ bytes' = Drained(previous_boundary, cursor)
  /\ cursor' = previous_boundary
  /\ dirty' = TRUE
  /\ UNCHANGED <<mode, file, opened>>

delete ==
  /\ mode = "edit"
  /\ cursor < Len(bytes)
  /\ bytes' = Drained(cursor, next_boundary)
  /\ dirty' = TRUE
  /\ UNCHANGED <<mode, cursor, file, opened>>

MoveTo(target) ==
  /\ mode = "edit"
  /\ cursor' = target
  /\ UNCHANGED <<mode, bytes, dirty, file, opened>>

move_left == cursor > 0 /\ MoveTo(previous_boundary)
move_right == cursor < Len(bytes) /\ MoveTo(next_boundary)
move_line_boundary(to_end) == MoveTo(IF to_end THEN LineEnd(cursor) ELSE LineStart(cursor))
move_vertical(down) ==
  /\ vertical_cursor_target(cursor, down) # None
  /\ MoveTo(vertical_cursor_target(cursor, down))
move_page(down) == MoveTo(PageTarget(down))

\* Ctrl-S: the editor is left when the file is written; when the write fails
\* nothing changes, the editor included.
Save ==
  /\ mode = "edit"
  /\ mode' = "closed"
  /\ file' = bytes
  /\ UNCHANGED <<bytes, cursor, dirty, opened>>

\* Ctrl-Q or Escape, and the answer to the question: Y or another key.
Quit ==
  /\ mode = "edit"
  /\ mode' = IF dirty THEN "confirm" ELSE "closed"
  /\ UNCHANGED <<bytes, cursor, dirty, file, opened>>

Answer ==
  /\ mode = "confirm"
  /\ mode' \in {"closed", "edit"}
  /\ UNCHANGED <<bytes, cursor, dirty, file, opened>>

\* A program writes the file.
ProgramWrites ==
  /\ file' \in Files
  /\ UNCHANGED <<mode, bytes, cursor, dirty, opened>>

Next ==
  \/ Open
  \/ \E byte \in Typed : insert(byte)
  \/ backspace
  \/ delete
  \/ move_left
  \/ move_right
  \/ \E to_end \in BOOLEAN : move_line_boundary(to_end)
  \/ \E down \in BOOLEAN : move_vertical(down)
  \/ \E down \in BOOLEAN : move_page(down)
  \/ Save
  \/ Quit
  \/ Answer
  \/ ProgramWrites

Spec == Init /\ [][Next]_vars

(* ------------------------------ properties ----------------------------- *)

\* The buffer stays valid UTF-8 within its limit, and the cursor on a character
\* boundary: every `expect' and every slice of the editor relies on it, and a
\* panic here stops the kernel.
BufferIsText ==
  /\ ValidUtf8(bytes) /\ Len(bytes) <= EDITOR_MAX_BYTES
  /\ cursor \in 0 .. Len(bytes) /\ is_char_boundary(bytes, cursor)

\* A buffer that is not dirty is the one that was read: leaving the editor
\* without a question loses no change, whatever was typed, deleted or answered.
CleanMeansUnchanged == mode # "closed" /\ ~dirty => bytes = opened

\* The characters of the buffer.
Characters ==
  FoldLeft(LAMBDA chars, byte :
             IF Continuation(byte) /\ chars # <<>>
             THEN Append(Front(chars), Append(Last(chars), byte)) ELSE Append(chars, <<byte>>),
           <<>>, bytes)

Position == CharsIn(0, cursor)
Text == INSTANCE TextEditing

EditStep ==
  \/ Open
  \/ <<Characters, Position>>' \in
       Text!Edits(Characters, Position, {<<byte>> : byte \in Typed}, EDITOR_MAX_BYTES, PAGE)

\* The editor's work on byte offsets is editing by characters and lines: a key
\* inserts, removes or passes one whole character, Up, Down and the page keys
\* keep the column in characters where the line is long enough and stop at its
\* end where it is not, also at the first and the last line.
EditsText == [][EditStep]_<<bytes, cursor>>
=============================================================================
