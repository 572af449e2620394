------------------------------ MODULE MCShell -------------------------------
(***************************************************************************)
(* What happens around the user: programs crossing into the kernel and     *)
(* back, the command line and its history, the text editor, the current    *)
(* directory and the terminal.  The modules share no state, so that an     *)
(* interleaving of them would reach nothing new: a behaviour is one of the *)
(* component that part names, and UserMode keeps an initial state in those *)
(* of the others.                                                          *)
(***************************************************************************)
EXTENDS UserMode, Sequences

VARIABLES part,
          line, history,                                  \* CommandLine
          mode, bytes, cursor, dirty, file, opened,       \* TextEditor
          current_dir, current_dir_is_ext2, ext2, lost,   \* WorkingDirectory
          writer, shown, reported, tidy                   \* Terminal

(* ------------------------------ the instances --------------------------- *)

\* A letter and the space, in short lines and a short history.
Commands == INSTANCE CommandLine WITH
    Printable <- {32, 97}, INPUT_CAPACITY <- 2, HISTORY_CAPACITY <- 2

\* Characters of one, two and three bytes; a file that is no UTF-8 text and
\* one that is too long.
Editor == INSTANCE TextEditor WITH
    Typed <- {10, 97}, EDITOR_MAX_BYTES <- 4, PAGE <- 2,
    Files <- {<<>>, <<195, 169, 10, 97>>, <<10, 226, 130, 172>>, <<97, 195>>,
              <<97, 97, 97, 97, 97>>}

\* One letter, one bad character, and a directory that both systems may have.
Directories == INSTANCE WorkingDirectory WITH
    Letters <- {"a"}, Others <- {"!"}, INPUT_LENGTH <- 4, PATH_CAPACITY <- 5,
    NAME_CAPACITY <- 2, MAX_DIRECTORIES <- 2, Initrd <- {<<>>, <<"a">>}

\* Command lines that fit the row of their prompt, fill it and go on in the
\* next ones, and output with and without an end of line.
Screen == INSTANCE Terminal WITH
    line <- shown, WIDTH <- 5, HEIGHT <- 8, SCROLLBACK_LINE_CAPACITY <- 3,
    SCROLLBACK_COLUMN_CAPACITY <- 4, MAX_LINES <- 3,
    Inputs <- {<<>>, <<"a">>, <<"b", "a", "a">>}, Outputs <- {<<>>, <<"o">>, <<"o", "\n">>}

ASSUME /\ Commands!CommandLineAssumption /\ Editor!TextEditorAssumption
       /\ Directories!WorkingDirectoryAssumption /\ Screen!TerminalAssumption

(* ------------------------------- one of them ---------------------------- *)

lineVars   == <<line, history>>
editorVars == <<mode, bytes, cursor, dirty, file, opened>>
pathVars   == <<current_dir, current_dir_is_ext2, ext2, lost>>
screenVars == <<writer, shown, reported, tidy>>
otherVars  == <<lineVars, editorVars, pathVars, screenVars>>
partsVars  == <<part, vars, otherVars>>

\* A component that takes no part has no state.
Off(v) == v = 0

PartsInit ==
    /\ part \in {"user", "line", "editor", "path", "screen"}
    /\ Init
    /\ part # "user" => /\ stack = [t \in UserTasks |-> CHOOSE s \in Stacks : TRUE]
                        /\ current = CHOOSE t \in KernelTasks : TRUE
    /\ IF part = "line" THEN Commands!Init ELSE Off(line) /\ Off(history)
    /\ IF part = "editor" THEN Editor!Init
       ELSE Off(mode) /\ Off(bytes) /\ Off(cursor) /\ Off(dirty) /\ Off(file) /\ Off(opened)
    /\ IF part = "path" THEN Directories!Init
       ELSE Off(current_dir) /\ Off(current_dir_is_ext2) /\ Off(ext2) /\ Off(lost)
    /\ IF part = "screen" THEN Screen!Init
       ELSE Off(writer) /\ Off(shown) /\ Off(reported) /\ Off(tidy)

PartsNext ==
    \/ part = "user" /\ Next /\ UNCHANGED <<part, otherVars>>
    \/ /\ part = "line" /\ Commands!Next
       /\ UNCHANGED <<part, vars, editorVars, pathVars, screenVars>>
    \/ /\ part = "editor" /\ Editor!Next
       /\ UNCHANGED <<part, vars, lineVars, pathVars, screenVars>>
    \/ /\ part = "path" /\ Directories!Next
       /\ UNCHANGED <<part, vars, lineVars, editorVars, screenVars>>
    \/ /\ part = "screen" /\ Screen!Next
       /\ UNCHANGED <<part, vars, lineVars, editorVars, pathVars>>

PartsSpec == PartsInit /\ [][PartsNext]_partsVars

\* What the steps to come depend on.  Of the command line, not the bytes beyond
\* the lengths.  Of the editor, not its buffer when it is closed, nor what was
\* read once it is dirty.  Of the terminal, not the screen while scrolled back,
\* as it is drawn anew before it matters, and hardly a character once the
\* terminal is not tidy.
Relevant ==
    CASE part = "user" -> <<part, vars>>
      [] part = "line" ->
           <<part, Commands!Text, line.cursor, [s \in Commands!Slots |-> Commands!Entry(s)],
             history.next, history.count, history.browsing,
             [i \in 1 .. history.draft_len |-> history.draft[i - 1]]>>
      [] part = "editor" ->
           IF mode = "closed" THEN <<part, file>>
           ELSE <<part, mode, bytes, cursor, dirty, file, IF dirty THEN <<>> ELSE opened>>
      [] part = "path" -> <<part, pathVars>>
      [] part = "screen" /\ tidy ->
           <<part, [writer EXCEPT !.screen = IF writer.offset = 0 THEN @ ELSE {}], shown, reported>>
      [] part = "screen" /\ ~tidy ->
           <<part, [writer EXCEPT !.screen = {},
                                  !.history = [k \in DOMAIN @ |-> @[k].id],
                                  !.cells = [k \in DOMAIN @ |-> [@[k] EXCEPT !.byte = " "]],
                                  !.overlay = {}],
             Len(shown.bytes), shown.cursor, reported>>

(* ------------------------------- properties ----------------------------- *)

\* CommandLine: the buffers and the ring are a line of text and its history.
ImplementsEditedLine ==
    /\ part = "line" => Commands!Model!Init
    /\ [][part = "line" => Commands!Model!Step]_lineVars

\* TextEditor: a key edits whole characters and moves by characters and lines,
\* the buffer stays valid UTF-8 with the cursor on a boundary, and one that is
\* not dirty is the one that was read.
EditorKeepsText ==
    /\ [](part = "editor" => Editor!BufferIsText /\ Editor!CleanMeansUnchanged)
    /\ [][part = "editor" => Editor!EditStep]_<<bytes, cursor>>

\* WorkingDirectory: every argument resolves to the walk its names describe, and
\* the shell is in a directory of the file system it shows.
PathsFollowNames ==
    part = "path" => Directories!ResolvesByNames /\ Directories!CurrentIsDirectory

\* Terminal: the screen shows the lines of the history, and a scrolled-back view
\* never starts before the oldest line kept.
ScreenShowsHistory == part = "screen" => Screen!ScreenIsHistory /\ Screen!ViewInHistory
=============================================================================
