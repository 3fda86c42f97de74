----------------------------- MODULE MCLibrary -----------------------------
(***************************************************************************)
(* The kernel's heap, the clock, the text screen and minesweeper for TLC.  *)
(* They share nothing that is modelled: each is explored while the others  *)
(* stand at their beginning.  The requests to the heap fit exactly, split  *)
(* a block, leave too little to split, or ask for nothing.                 *)
(***************************************************************************)
EXTENDS Heap, Screen, Clock, Minesweeper

\* Half days, and jumps to 1972, 2000 and 2100
MCTicks == {725, 788 * 1440, 10227 * 1440, 36525 * 1440}

MCZones == {330, -210}

\* The year 1970, the last days of February 1972, 2000 and 2100, and where ntp_sync
\* puts the clock
MCObserved == (-25568 .. -25560) \union (0 .. 400) \union (785 .. 795) \union (11010 .. 11020)
                \union (47535 .. 47545)

\* Ctrl+C breaks the line and prints a prompt, Ctrl+L prints one.
MCCtrlC == <<"newline", "a">>
MCCtrlL == <<"a">>

\* Inside the buffer, at its end, and past both edges.
MCPlace == {<<1, 1>>, <<0, 4>>, <<2, 0>>, <<0, 5>>}

\* Two zeros beside the numbers; a board with no safe neighbour of a 0.
MCFirst == <<4, 2, 1>>
MCGame  == {<<2, 2, 2>>, <<4, 2, 1>>}

MCInit == Init /\ ClockInit /\ ScreenInit /\ MinesweeperInit

NoBlocks == Init
NoTime   == system_time = 0 /\ unix_timestamp = 0 /\ timezone_offset_minutes = 0
NoText   == ScreenInit
NoMines  == MinesweeperInit

MCNext ==
  \/ NoTime /\ NoText /\ NoMines /\ Next
       /\ UNCHANGED <<clock, display, minesweeper>>
  \/ NoBlocks /\ NoText /\ NoMines /\ ClockNext
       /\ UNCHANGED <<vars, display, minesweeper>>
  \/ NoBlocks /\ NoTime /\ NoMines /\ ScreenNext
       /\ UNCHANGED <<vars, clock, minesweeper>>
  \/ NoBlocks /\ NoTime /\ NoText /\ MinesweeperNext
       /\ UNCHANGED <<vars, clock, display>>

MCSpec == MCInit /\ [][MCNext]_<<vars, clock, display, minesweeper>>
=============================================================================
