------------------------------ MODULE Terminal ------------------------------
(***************************************************************************)
(* The text terminal on the framebuffer (console/framebuffer.rs) and the   *)
(* shell's use of it (shell/mod.rs): printing with wrapping and scrolling, *)
(* the command line that is redrawn in place, and the scrollback view.     *)
(* The terminal keeps what it shows twice, as pixels and as a history of   *)
(* lines from which the scrollback is drawn.                               *)
(*                                                                         *)
(* Coordinates count units of eight pixels, in which a character is one    *)
(* square: MARGIN and CHAR_WIDTH are 1 and LINE_HEIGHT is 2.  A square     *)
(* holds the set of the characters drawn there since it was last cleared,  *)
(* because drawing one does not clear it.  Colours are left out, and so is *)
(* the text editor's screen, which starts and ends with clear.             *)
(***************************************************************************)
EXTENDS Integers, Sequences, SequencesExt

CONSTANTS WIDTH, HEIGHT,             \* of the screen
          SCROLLBACK_LINE_CAPACITY, SCROLLBACK_COLUMN_CAPACITY,
          Inputs,                    \* command lines
          Outputs,                   \* what a program prints at a time
          MAX_LINES                  \* bound: lines printed since the last clear

\* What the constants must satisfy.
TerminalAssumption ==
    /\ WIDTH >= 4 /\ HEIGHT >= 4
    /\ SCROLLBACK_LINE_CAPACITY >= 1

VARIABLES writer,   \* the FramebufferWriter
          line,     \* the shell's command line and cursor
          reported, \* report_finished_apps has yet to redraw the command line
          tidy      \* since the last clear nothing was printed while a command
                    \* line was open, and its cursor was at its end whenever it
                    \* was finished or the screen was drawn again

vars == <<writer, line, reported, tidy>>

MARGIN == 1
LINE_HEIGHT == 2
Blank == " "
None == <<>>
Characters == {Blank, ">", "^", "!"} \cup (UNION {ToSet(s) : s \in Inputs \cup Outputs} \ {"\n"})

Squares == (0..(WIDTH - 1)) \X (0..(HEIGHT - 1))
Dark == [s \in Squares |-> {}]

Ink(byte) == IF byte = Blank THEN {} ELSE {byte}
ClearCharacter(screen, at) == IF at \in Squares THEN [screen EXCEPT ![at] = {}] ELSE screen
DrawCharacter(screen, at, byte) ==
    IF at \in Squares THEN [screen EXCEPT ![at] = @ \cup Ink(byte)] ELSE screen

SaturatingSub(a, b) == IF a < b THEN 0 ELSE a - b

(* ------------------------------- history ------------------------------- *)

TerminalLine(id) == [id |-> id, bytes |-> [c \in 0..(SCROLLBACK_COLUMN_CAPACITY - 1) |-> Blank]]

PushLine(history, id) ==
    LET longer == Append(history, TerminalLine(id))
    IN  IF Len(longer) > SCROLLBACK_LINE_CAPACITY THEN Tail(longer) ELSE longer

\* Lines are added one id after the other until the last one is id.
ensure_history_line(history, id) ==
    IF history = <<>> THEN PushLine(history, id)
    ELSE LET from == Last(history).id
         IN  FoldLeft(LAMBDA h, k : PushLine(h, from + k), history,
                      [k \in 1..SaturatingSub(id, from) |-> k])

set_history_cell(history, id, column, byte) ==
    LET put(h) == [k \in DOMAIN h |-> IF h[k].id = id THEN [h[k] EXCEPT !.bytes[column] = byte]
                                      ELSE h[k]]
    IN  IF column >= SCROLLBACK_COLUMN_CAPACITY THEN history
        ELSE IF \E k \in DOMAIN history : history[k].id = id THEN put(history)
        ELSE IF history = <<>> \/ id >= Last(history).id THEN put(ensure_history_line(history, id))
        ELSE history

trim_history_after(history, id) == SelectSeq(history, LAMBDA l : l.id <= id)

(* ------------------------------- printing ------------------------------ *)

\* clear: everything but the colour starts again.
Cleared ==
    [x |-> MARGIN, y |-> MARGIN, screen |-> Dark,
     origin |-> None,       \* where the command line starts: x, y, line id
     cells |-> <<>>,        \* its characters: square, line id, column, byte
     overlay |-> None,      \* the cursor: square and the byte under it
     history |-> <<TerminalLine(0)>>, current |-> 0, offset |-> 0]

\* Mutant: the characters of the command line are remembered where they were.
ScrollUpForgetCells(w, rows) ==
    LET up(at) == <<at[1], SaturatingSub(at[2], rows)>>
    IN  [w EXCEPT
            !.screen = [s \in Squares |-> IF s[2] + rows < HEIGHT
                                          THEN w.screen[<<s[1], s[2] + rows>>] ELSE {}],
            !.origin = IF @ = None THEN None ELSE [@ EXCEPT !.at = up(@)],
            !.overlay = IF @ = None THEN None ELSE [@ EXCEPT !.at = up(@)]]

\* scroll_up: what is remembered about the command line moves along.
scroll_up(w, rows) ==
    LET up(at) == <<at[1], SaturatingSub(at[2], rows)>>
    IN  [w EXCEPT
            !.screen = [s \in Squares |-> IF s[2] + rows < HEIGHT
                                          THEN w.screen[<<s[1], s[2] + rows>>] ELSE {}],
            !.origin = IF @ = None THEN None ELSE [@ EXCEPT !.at = up(@)],
            !.overlay = IF @ = None THEN None ELSE [@ EXCEPT !.at = up(@)],
            !.cells = [k \in DOMAIN @ |-> [@[k] EXCEPT !.at = up(@)]]]

new_line(w) ==
    LET next == [w EXCEPT !.x = MARGIN, !.current = @ + 1,
                          !.history = ensure_history_line(@, w.current + 1)]
    IN  IF w.y + LINE_HEIGHT + MARGIN + LINE_HEIGHT > HEIGHT
        THEN scroll_up(next, LINE_HEIGHT)
        ELSE [next EXCEPT !.y = @ + LINE_HEIGHT]

wrap_if_needed(w) == IF w.x + 1 + MARGIN >= WIDTH THEN new_line(w) ELSE w

draw_ascii_char(w, byte) ==
    [w EXCEPT !.history = set_history_cell(@, w.current, w.x - MARGIN, byte),
              !.screen = DrawCharacter(@, <<w.x, w.y>>, byte),
              !.x = @ + 1]

VisibleRows == (HEIGHT - 2 * MARGIN) \div LINE_HEIGHT

\* The lines up to the current one or, scrolled back, up to offset lines before
\* it, with a status line in the last row.
render_history_view(w) ==
    LET viewing == w.offset # 0
        bottom == IF viewing THEN SaturatingSub(VisibleRows, 2)
                  ELSE LET row == SaturatingSub(w.y, MARGIN) \div LINE_HEIGHT
                       IN  IF row < VisibleRows THEN row ELSE VisibleRows - 1
        oldest == IF w.history = <<>> THEN w.current ELSE w.history[1].id
        end == IF SaturatingSub(w.current, w.offset) > oldest
               THEN SaturatingSub(w.current, w.offset) ELSE oldest
        count == IF viewing /\ VisibleRows - 1 < bottom + 1 THEN VisibleRows - 1 ELSE bottom + 1
        shown(s) == {l \in ToSet(w.history) :
                        /\ l.id \in SaturatingSub(end, SaturatingSub(count, 1))..end
                        /\ s[2] = MARGIN + SaturatingSub(bottom, end - l.id) * LINE_HEIGHT
                        /\ s[1] - MARGIN \in 0..(WIDTH - 2 * MARGIN - 1)
                        /\ s[1] - MARGIN < SCROLLBACK_COLUMN_CAPACITY}
        status(s) == viewing /\ s[1] >= MARGIN /\ s[2] = MARGIN + (VisibleRows - 1) * LINE_HEIGHT
    IN  [w EXCEPT !.screen = [s \in Squares |->
            UNION {Ink(l.bytes[s[1] - MARGIN]) : l \in shown(s)}
            \cup (IF status(s) THEN {"status"} ELSE {})]]

RenderIfViewing(w) == IF w.offset # 0 THEN render_history_view(w) ELSE w

\* write_str and write_bytes.
Put(w, bytes) ==
    LET put(v, b) == IF b = "\n" THEN new_line(v) ELSE draw_ascii_char(wrap_if_needed(v), b)
    IN  RenderIfViewing(FoldLeft(put, w, bytes))

(* ---------------------------- command line ----------------------------- *)

remove_cursor_overlay(w) ==
    IF w.overlay = None THEN w
    ELSE [w EXCEPT !.overlay = None,
                   !.screen = DrawCharacter(ClearCharacter(@, w.overlay.at),
                                            w.overlay.at, w.overlay.byte)]

draw_cursor_overlay(w, byte) ==
    LET at == <<w.x, w.y>>
    IN  [w EXCEPT !.overlay = [at |-> at, byte |-> byte],
                  !.screen = IF at \in Squares THEN [@ EXCEPT ![at] = {"cursor"}] ELSE @]

begin_input_line(w) ==
    [w EXCEPT !.origin = [at |-> <<w.x, w.y>>, id |-> w.current], !.cells = <<>>]

finish_input_line(w) == [remove_cursor_overlay(w) EXCEPT !.origin = None, !.cells = <<>>]

\* One character of the new line: drawn if it is new, has changed or has moved;
\* the square it was in before is cleared.  known characters were there.
RedrawHere(v, k, byte, known) ==
    LET at == <<v.x, v.y>>
        cell == [at |-> at, id |-> v.current, column |-> v.x - MARGIN, byte |-> byte]
        moved == k <= known /\ v.cells[k].at # at
        left == IF moved THEN [v EXCEPT !.screen = ClearCharacter(@, v.cells[k].at)] ELSE v
        drawn == IF k > known \/ v.cells[k].byte # byte \/ moved
                 THEN draw_ascii_char([left EXCEPT !.screen = ClearCharacter(@, at)], byte)
                 ELSE [left EXCEPT !.x = @ + 1]
    IN  [drawn EXCEPT !.history = set_history_cell(@, cell.id, cell.column, byte),
                      !.cells = IF k <= Len(@) THEN [@ EXCEPT ![k] = cell] ELSE Append(@, cell)]

\* The old characters leave the history, and the writer goes back to the origin.
BackToOrigin(w) ==
    [remove_cursor_overlay(w) EXCEPT
        !.history = FoldLeft(LAMBDA h, c : set_history_cell(h, c.id, c.column, Blank), @, w.cells),
        !.current = w.origin.id, !.x = w.origin.at[1], !.y = w.origin.at[2]]

RedrawCharacters(w, bytes, known) ==
    FoldLeft(LAMBDA v, k : RedrawHere(wrap_if_needed(v), k, bytes[k], known), w,
             [k \in DOMAIN bytes |-> k])

\* The squares of characters the line no longer has are cleared.
DropRest(w, length, known) ==
    [w EXCEPT !.screen = FoldLeft(LAMBDA s, c : ClearCharacter(s, c.at), @,
                                  SubSeq(w.cells, length + 1, known)),
              !.history = trim_history_after(@, w.current),
              !.cells = SubSeq(@, 1, length)]

PlaceCursor(w, bytes, cursor) ==
    IF cursor < Len(bytes)
    THEN draw_cursor_overlay([w EXCEPT !.x = w.cells[cursor + 1].at[1],
                                       !.y = w.cells[cursor + 1].at[2]], bytes[cursor + 1])
    ELSE draw_cursor_overlay(wrap_if_needed(w), Blank)

redraw_input_line(w, bytes, cursor) ==
    LET known == Len(w.cells)
    IN  IF w.origin = None THEN w
        ELSE PlaceCursor(DropRest(RedrawCharacters(BackToOrigin(w), bytes, known),
                                  Len(bytes), known),
                         bytes, cursor)

(* ------------------------------- the shell ----------------------------- *)

redraw_command_line(w, l) == redraw_input_line(w, l.bytes, l.cursor)

print_prompt(w) == begin_input_line(Put(w, <<">">>))

scrollback_page(w, up) ==
    LET oldest == IF w.history = <<>> THEN w.current ELSE w.history[1].id
        available == SaturatingSub(w.current, oldest)
        page == IF VisibleRows \div 2 > 1 THEN VisibleRows \div 2 ELSE 1
        far == w.offset + page
    IN  render_history_view([w EXCEPT !.offset =
            IF ~up THEN SaturatingSub(@, page) ELSE IF far < available THEN far ELSE available])

\* Any key but the paging ones leaves the scrollback first.
scrollback_to_bottom(w, l) ==
    IF w.offset = 0 THEN w
    ELSE redraw_command_line(render_history_view([w EXCEPT !.offset = 0]), l)

EmptyLine == [bytes |-> <<>>, cursor |-> 0]
AtEnd == writer.origin = None \/ line.cursor = Len(line.bytes)
LiveOrAtEnd == writer.offset = 0 \/ AtEnd

Init ==
    /\ writer = print_prompt(Put(Cleared, <<"!", "\n">>))
    /\ line = EmptyLine
    /\ reported = FALSE
    /\ tidy = TRUE

\* A key that edits the line, moves its cursor or brings a line of the history.
Edit(bytes, cursor) ==
    LET edited == [bytes |-> bytes, cursor |-> cursor]
    IN  /\ ~reported
        /\ writer' = redraw_command_line(scrollback_to_bottom(writer, line), edited)
        /\ line' = edited
        /\ tidy' = (tidy /\ LiveOrAtEnd)
        /\ UNCHANGED reported

\* Enter: the command prints, and unless it has started a program the prompt
\* comes back.  A cursor inside the line is not moved to its end on the screen.
Enter(output, started) ==
    LET done == Put(finish_input_line(scrollback_to_bottom(writer, line)), <<"\n">> \o output)
    IN  /\ ~reported
        /\ writer' = IF started THEN done ELSE print_prompt(done)
        /\ line' = EmptyLine
        /\ tidy' = (tidy /\ AtEnd)
        /\ UNCHANGED reported

\* The command clear.
EnterClear ==
    /\ ~reported
    /\ writer' = print_prompt(Cleared)
    /\ line' = EmptyLine
    /\ tidy' = TRUE
    /\ UNCHANGED reported

\* Ctrl-C.
Interrupt ==
    LET cleared == redraw_command_line(scrollback_to_bottom(writer, line), EmptyLine)
    IN  /\ ~reported
        /\ writer' = print_prompt(Put(finish_input_line(cleared), <<"^", "\n">>))
        /\ line' = EmptyLine
        /\ tidy' = (tidy /\ LiveOrAtEnd)
        /\ UNCHANGED reported

Page(up) ==
    LET paged == scrollback_page(writer, up)
    IN  /\ ~reported
        /\ writer' = IF paged.offset = 0 THEN redraw_command_line(paged, line) ELSE paged
        /\ tidy' = (tidy /\ AtEnd)
        /\ UNCHANGED <<line, reported>>

\* report_finished_apps: a message and a new prompt, wherever the shell is, and
\* then the line once more.
Report ==
    /\ ~reported
    /\ writer' = print_prompt(Put(finish_input_line(writer), <<"!", "\n">>))
    /\ reported' = TRUE
    /\ tidy' = (tidy /\ AtEnd)
    /\ UNCHANGED line

RedrawReported ==
    /\ reported
    /\ writer' = redraw_command_line(writer, line)
    /\ reported' = FALSE
    /\ UNCHANGED <<line, tidy>>

\* A program writes to the console.  While no command line is open this is as if
\* the command or the prompt had printed it.
Output(bytes) ==
    /\ bytes # <<>>
    /\ writer' = Put(writer, bytes)
    /\ tidy' = (tidy /\ writer.origin = None)
    /\ UNCHANGED <<line, reported>>

Bounded == writer.current <= MAX_LINES

Next ==
    \/ Bounded /\ \E bytes \in Inputs : \E cursor \in 0..Len(bytes) : Edit(bytes, cursor)
    \/ Bounded /\ \E output \in Outputs, started \in BOOLEAN : Enter(output, started)
    \/ EnterClear
    \/ Bounded /\ Interrupt
    \/ Bounded /\ \E up \in BOOLEAN : Page(up)
    \/ Bounded /\ Report
    \/ RedrawReported
    \/ Bounded /\ \E output \in Outputs : Output(output)

Spec == Init /\ [][Next]_vars

(* ------------------------------ properties ----------------------------- *)

\* A scrolled-back view never starts before the oldest line that is kept,
\* whatever is printed, reported or redrawn meanwhile.
ViewInHistory ==
    tidy /\ writer.offset # 0 => writer.offset < Len(writer.history)

\* What is on the screen is what the scrollback would show: line by line, with
\* nothing left of what was erased, moved, wrapped or scrolled, and the cursor
\* over one character.  It holds as long as tidy does: the shell does not move
\* to the end of an open command line before it prints or draws the screen
\* again, and what is printed over an open line is not known to it.
ScreenIsHistory ==
    tidy /\ writer.offset = 0 =>
        LET w == writer
            row(id) == IF w.origin = None THEN w.y - (w.current - id) * LINE_HEIGHT
                       ELSE w.origin.at[2] + (id - w.origin.id) * LINE_HEIGHT
            expected(s) == {l.bytes[s[1] - MARGIN] : l \in {l \in ToSet(w.history) :
                               /\ row(l.id) = s[2]
                               /\ s[1] - MARGIN \in DOMAIN l.bytes}} \ {Blank}
        IN  \A s \in Squares :
                w.screen[s] = IF w.overlay # None /\ w.overlay.at = s THEN {"cursor"}
                              ELSE expected(s)
=============================================================================
