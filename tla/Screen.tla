------------------------------- MODULE Screen -------------------------------
(***************************************************************************)
(* The text screen (drivers/vga.c): a buffer of the last lines written, a  *)
(* cursor in it, and the part of it that is copied to video memory.        *)
(*                                                                         *)
(* The main program writes.  The keyboard interrupt scrolls, and writes    *)
(* for Ctrl+C and Ctrl+L; it may come between any two rows that the main   *)
(* program copies, and between the spaces of a tab.  Colours are left out. *)
(***************************************************************************)
EXTENDS Integers, Sequences, FiniteSets

CONSTANTS
  VGA_WIDTH, VGA_HEIGHT, TERMINAL_HISTORY_LINES,
  TabStop,
  Glyph,         \* what putchar prints as it is
  CtrlCText,     \* what the handler of Ctrl+C writes
  CtrlLText,     \* what the handler of Ctrl+L writes on the empty screen
  Place,         \* where programs put the cursor or a character: <<x, y>>
  MaxMarks       \* bound: cells of the buffer that are not blank

Space   == "space"
Control == {"newline", "return", "backspace"}
Cell    == Glyph \cup {Space}

\* There is a screen; what programs and handlers print are characters.
ASSUME TerminalAssumption ==
  /\ {VGA_WIDTH, VGA_HEIGHT, TERMINAL_HISTORY_LINES, TabStop} \subseteq Nat \ {0}
  /\ CtrlCText \in Seq(Cell \cup Control) /\ CtrlLText \in Seq(Cell \cup Control)
  /\ Place \subseteq Int \X Int

VARIABLES
  term,          \* terminal_buffer, row, column, history_lines, scroll_offset
  screen,        \* video memory, by rows
  drawing,       \* a vga_sync_display of the main program: top_line and the next row
  pending,       \* spaces a tab has still to print
  torn,          \* history: an interrupt changed what a vga_sync_display was copying
  paper          \* history: what a teletype would have printed since vga_clear

display == <<term, screen, drawing, pending, torn, paper>>

Columns == 0 .. VGA_WIDTH - 1
Rows == 0 .. VGA_HEIGHT - 1
BufferLines == 0 .. TERMINAL_HISTORY_LINES - 1

Blank     == [x \in Columns |-> Space]
NoDrawing == [top |-> 0, y |-> VGA_HEIGHT]

Pred(n) == IF n > 0 THEN n - 1 ELSE 0

(***************************************************************************)
(* The buffer.                                                             *)
(***************************************************************************)
ClearLine(t, y) == [t EXCEPT !.buf[y] = Blank]

ShiftHistoryUp_keepsRow(t) ==                                        \* slip
  ClearLine([t EXCEPT !.buf = [y \in BufferLines |-> @[IF y + 1 \in BufferLines THEN y + 1 ELSE y]],
                      !.lines = Pred(@), !.offset = Pred(@)],
            TERMINAL_HISTORY_LINES - 1)

ShiftHistoryUp(t) ==
  ClearLine([t EXCEPT !.buf = [y \in BufferLines |-> @[IF y + 1 \in BufferLines THEN y + 1 ELSE y]],
                      !.lines = Pred(@), !.row = Pred(@), !.offset = Pred(@)],
            TERMINAL_HISTORY_LINES - 1)

BottomView(t) == IF t.lines > VGA_HEIGHT THEN t.lines - VGA_HEIGHT ELSE 0

\* vga_ensure_cursor_visible, without the drawing.
ToBottom(t) == [t EXCEPT !.offset = BottomView(t)]

Cleared ==
  [buf |-> [y \in BufferLines |-> Blank], row |-> 0, column |-> 0, lines |-> 1, offset |-> 0]

PutEntryAt(t, c, x, y) ==
  IF x \in Columns /\ y \in BufferLines
  THEN [t EXCEPT !.buf[y][x] = c, !.lines = IF y >= @ THEN y + 1 ELSE @]
  ELSE t

\* vga_scroll.  When the buffer is full both tests may shift.
VgaScroll(t) ==
  LET room    == IF t.lines >= TERMINAL_HISTORY_LINES THEN ShiftHistoryUp(t) ELSE t
      below   == IF room.row + 1 >= TERMINAL_HISTORY_LINES THEN ShiftHistoryUp(room)
                 ELSE [room EXCEPT !.row = @ + 1]
      counted == [below EXCEPT !.lines = IF below.row >= @ THEN below.row + 1 ELSE @]
  IN ToBottom(ClearLine(counted, counted.row))

Putchar(t, c) ==
  CASE c = "newline" -> VgaScroll([t EXCEPT !.column = 0])
    [] c = "return"  -> [t EXCEPT !.column = 0]
    [] c = "backspace" /\ t.column = 0 -> t
    [] c = "backspace" /\ t.column > 0 ->
         PutEntryAt([t EXCEPT !.column = @ - 1], Space, t.column - 1, t.row)
    [] OTHER ->
         LET put == PutEntryAt(t, c, t.column, t.row)
         IN IF t.column + 1 >= VGA_WIDTH THEN VgaScroll([put EXCEPT !.column = 0])
            ELSE ToBottom([put EXCEPT !.column = @ + 1])

\* Whether vga_putchar copies the buffer to the screen.
Redraws(t, c) == c # "return" /\ ~(c = "backspace" /\ t.column = 0)

SetCursor(t, x, y) ==
  LET u == [t EXCEPT !.column = IF x \in Columns THEN x ELSE @]
  IN IF y \in BufferLines
     THEN ToBottom([u EXCEPT !.row = y, !.lines = IF @ <= y THEN y + 1 ELSE @]) ELSE u

(***************************************************************************)
(* The view.                                                               *)
(***************************************************************************)
LineShown(t, n) == IF n < t.lines THEN t.buf[n] ELSE Blank

\* A whole vga_sync_display.
View(t) == [y \in Rows |-> LineShown(t, t.offset + y)]

VgaScrollUp(t) == [t EXCEPT !.offset = Pred(@)]
VgaScrollDown(t) == [t EXCEPT !.offset = IF @ < BottomView(t) THEN @ + 1 ELSE @]

PageUp(t) == [t EXCEPT !.offset = IF @ > VGA_HEIGHT THEN @ - VGA_HEIGHT ELSE 0]

PageDown(t) ==
  [t EXCEPT !.offset = IF @ + VGA_HEIGHT < BottomView(t) THEN @ + VGA_HEIGHT ELSE BottomView(t)]

(***************************************************************************)
(* What a teletype prints: the last lines of the paper, and the carriage.  *)
(* <<>> once a program has put characters elsewhere.                       *)
(***************************************************************************)
Untracked == [lines |-> << >>, carriage |-> 0]
NewPaper  == [lines |-> <<Blank>>, carriage |-> 0]

LastLines(s) == SubSeq(s, Len(s) - TERMINAL_HISTORY_LINES + 1, Len(s))

Feed(p) ==
  LET longer == Append(p.lines, Blank)
  IN [lines |-> IF Len(longer) > TERMINAL_HISTORY_LINES THEN LastLines(longer) ELSE longer,
      carriage |-> 0]

Typed(p, c) ==
  CASE p = Untracked -> p
    [] p # Untracked /\ c = "newline" -> Feed(p)
    [] p # Untracked /\ c = "return" -> [p EXCEPT !.carriage = 0]
    [] p # Untracked /\ c = "backspace" ->
         IF p.carriage = 0 THEN p
         ELSE [p EXCEPT !.carriage = @ - 1, !.lines[Len(p.lines)][p.carriage - 1] = Space]
    [] OTHER ->
         LET q == [p EXCEPT !.lines[Len(p.lines)][p.carriage] = c]
         IN IF p.carriage + 1 \in Columns THEN [q EXCEPT !.carriage = @ + 1] ELSE Feed(q)

(***************************************************************************)
(* The main program.                                                       *)
(***************************************************************************)
Idle == drawing = NoDrawing

\* The buffer becomes t, and is copied from its first row on.
ThenDraw(t) ==
  /\ term' = t
  /\ drawing' = [top |-> t.offset, y |-> 0]
  /\ torn' = FALSE

Emit(c) ==
  /\ paper' = Typed(paper, c)
  /\ IF Redraws(term, c) THEN ThenDraw(Putchar(term, c))
     ELSE term' = Putchar(term, c) /\ UNCHANGED <<drawing, torn>>
  /\ UNCHANGED screen

Write(c) == Idle /\ pending = 0 /\ Emit(c) /\ UNCHANGED pending

Tab ==
  /\ Idle /\ pending = 0
  /\ pending' = TabStop - (term.column % TabStop)
  /\ UNCHANGED <<term, screen, drawing, torn, paper>>

TabSpace == Idle /\ pending > 0 /\ Emit(Space) /\ pending' = pending - 1

DrawRow ==
  /\ ~Idle
  /\ screen' = [screen EXCEPT ![drawing.y] = LineShown(term, drawing.top + drawing.y)]
  /\ drawing' = IF drawing.y + 1 = VGA_HEIGHT THEN NoDrawing ELSE [drawing EXCEPT !.y = @ + 1]
  /\ UNCHANGED <<term, pending, torn, paper>>

Clear ==
  /\ Idle /\ pending = 0
  /\ ThenDraw(Cleared)
  /\ paper' = NewPaper
  /\ UNCHANGED <<screen, pending>>

MoveCursor(x, y) ==
  /\ Idle /\ pending = 0
  /\ paper' = Untracked
  /\ IF y \in BufferLines THEN ThenDraw(SetCursor(term, x, y))
     ELSE term' = SetCursor(term, x, y) /\ UNCHANGED <<drawing, torn>>
  /\ UNCHANGED <<screen, pending>>

\* vga_put_entry_at called by a program: one cell, on the screen if in view.
PutCell(c, x, y) ==
  /\ Idle /\ pending = 0
  /\ term' = PutEntryAt(term, c, x, y)
  /\ screen' = IF x \in Columns /\ y \in BufferLines /\ y - term.offset \in Rows
               THEN [screen EXCEPT ![y - term.offset][x] = c] ELSE screen
  /\ paper' = Untracked
  /\ UNCHANGED <<drawing, pending, torn>>

(***************************************************************************)
(* The keyboard interrupt: whole, between steps of the main program.       *)
(***************************************************************************)
Interrupt(t, redraw) ==
  /\ term' = t
  /\ screen' = IF redraw THEN View(t) ELSE screen
  /\ torn' = IF Idle THEN torn /\ ~redraw ELSE torn \/ t # term
  /\ UNCHANGED <<drawing, pending>>

\* What the handler writes, one character after the other.
Wrote(d, c) == [term |-> Putchar(d.term, c), paper |-> Typed(d.paper, c)]

Written(t, p, s) ==
  LET done[n \in 0 .. Len(s)] == IF n = 0 THEN [term |-> t, paper |-> p] ELSE Wrote(done[n - 1], s[n])
  IN done[Len(s)]

HandlerScrolls ==
  /\ \/ Interrupt(VgaScrollUp(term), term.offset > 0)
     \/ Interrupt(VgaScrollDown(term), term.offset < BottomView(term))
     \/ Interrupt(PageUp(term), TRUE)
     \/ Interrupt(PageDown(term), TRUE)
  /\ UNCHANGED paper

HandlerCtrlC ==
  LET after == Written(term, paper, CtrlCText)
  IN Interrupt(after.term, TRUE) /\ paper' = after.paper

HandlerCtrlL ==
  LET after == Written(Cleared, NewPaper, CtrlLText)
  IN Interrupt(after.term, TRUE) /\ paper' = after.paper

ScreenInit ==
  /\ term = Cleared
  /\ screen = [y \in Rows |-> Blank]
  /\ drawing = NoDrawing
  /\ pending = 0
  /\ torn = FALSE
  /\ paper = NewPaper

Marks(t) == Cardinality({p \in BufferLines \X Columns : t.buf[p[1]][p[2]] # Space})

Main ==
  \/ \E c \in Glyph \cup Control : Write(c)
  \/ Tab \/ TabSpace \/ DrawRow \/ Clear
  \/ \E p \in Place : MoveCursor(p[1], p[2]) \/ \E c \in Glyph : PutCell(c, p[1], p[2])

Handler == HandlerScrolls \/ HandlerCtrlC \/ HandlerCtrlL

ScreenNext == (Main \/ Handler) /\ Marks(term') <= MaxMarks

ScreenSpec == ScreenInit /\ [][ScreenNext]_display

(***************************************************************************)
(* Properties.                                                             *)
(***************************************************************************)

\* Once a copy has ended that no interrupt disturbed, the screen is the part of
\* the buffer at scroll_offset, which never passes the last full view: however
\* the text was scrolled before and after.
ScreenShowsBuffer ==
  /\ term.offset <= BottomView(term)
  /\ Idle /\ ~torn => screen = View(term)

\* As long as programs only write text, the buffer holds the last lines that a
\* teletype would have printed, and the cursor is on the last of them.
BufferHoldsText ==
  paper # Untracked =>
    /\ term.lines = Len(paper.lines) /\ term.row = term.lines - 1
    /\ term.column = paper.carriage
    /\ \A i \in DOMAIN paper.lines : term.buf[i - 1] = paper.lines[i]

ScreenShowsText == ScreenShowsBuffer /\ BufferHoldsText
=============================================================================
