---------------------------- MODULE Minesweeper ----------------------------
(***************************************************************************)
(* The rules of the minesweeper application (apps/apps.c): the placing of  *)
(* the mines, the opening of a cell, which opens the cells around it when  *)
(* none of them is mined, and flags.  A cell is its column and its row.    *)
(***************************************************************************)
EXTENDS Integers, FiniteSets, Sequences

CONSTANTS
  First,         \* the game of minesweeper_init: <<width, height, mines>>
  Game,          \* the games started after it
  MaxFlags       \* bound: cells flagged at a time

VARIABLES
  game,          \* minesweeper_data_t; revealed and flagged as sets of cells
  everFlagged    \* history: cells flagged at some time in this game

minesweeper == <<game, everFlagged>>

Mine == 9

Cells(w, h) == (0 .. w - 1) \X (0 .. h - 1)

\* The eight neighbours and the cell itself, in the order of the loops.
Offsets ==
  <<<<-1, -1>>, <<0, -1>>, <<1, -1>>, <<-1, 0>>, <<0, 0>>, <<1, 0>>, <<-1, 1>>, <<0, 1>>, <<1, 1>>>>

Beside(cell, i) == <<cell[1] + Offsets[i][1], cell[2] + Offsets[i][2]>>

Around(w, h, cell) == {Beside(cell, i) : i \in 1 .. 9} \cap Cells(w, h)

\* Where mine number k goes.  When one lies there, the loop tries it again, for ever.
MinePlace(w, k) == <<(k * 3 + w) % w, k \div w>>

Mines(w, n) == {MinePlace(w, k) : k \in 0 .. n - 1}

Field(w, h, n) ==
  [c \in Cells(w, h) |->
     IF c \in Mines(w, n) THEN Mine ELSE Cardinality(Around(w, h, c) \cap Mines(w, n))]

NewGame(w, h, n) ==
  [width |-> w, height |-> h, mine_count |-> n, revealed_count |-> 0, flags_remaining |-> n,
   game_over |-> FALSE, game_won |-> FALSE, field |-> Field(w, h, n),
   revealed |-> {}, flagged |-> {}]

\* The loop that places the mines ends.
Placed(w, n) == Cardinality(Mines(w, n)) = n

\* The arrays are those that minesweeper_init took for its own board
ASSUME GameAssumption ==
  /\ \A g \in Game \cup {First} :
       g[1] \in Nat /\ g[2] \in Nat /\ g[3] \in Nat /\ g[3] < g[1] * g[2]
  /\ \A g \in Game : g[1] * g[2] <= First[1] * First[2]
  /\ Placed(First[1], First[3])

Complete_everyCell(g) == g.revealed_count = g.width * g.height       \* slip

Complete(g) == g.revealed_count = g.width * g.height - g.mine_count

\* What returns at once from minesweeper_reveal_cell
Refused(g, cell) ==
  cell \notin Cells(g.width, g.height) \/ g.game_over \/ cell \in g.revealed \cup g.flagged

Opened(g, cell) ==
  LET opened == [g EXCEPT !.revealed = @ \cup {cell}, !.revealed_count = @ + 1]
  IN IF g.field[cell] = Mine THEN [opened EXCEPT !.game_over = TRUE]
     ELSE IF Complete(opened) THEN [opened EXCEPT !.game_won = TRUE, !.game_over = TRUE]
     ELSE opened

\* The calls it makes of itself, which open the cells around a 0
Calls(g, cell) == IF g.field[cell] = 0 THEN [i \in 1 .. 9 |-> Beside(cell, i)] ELSE <<>>

\* The games that opening cells may lead to, with calls that are still to be made
Openings(g) ==
  [game : [width : {g.width}, height : {g.height}, mine_count : {g.mine_count},
           flags_remaining : {g.flags_remaining}, field : {g.field}, flagged : {g.flagged},
           revealed : SUBSET DOMAIN g.field, revealed_count : Nat,
           game_over : BOOLEAN, game_won : BOOLEAN],
   calls : Seq(Int \X Int)]

NextCall(s) ==
  LET cell == Head(s.calls)
  IN IF Refused(s.game, cell) THEN [s EXCEPT !.calls = Tail(@)]
     ELSE [game |-> Opened(s.game, cell), calls |-> Calls(s.game, cell) \o Tail(s.calls)]

\* The recursion, depth first: the calls of a call are made before those that wait.
Recursion(g) ==
  LET after[s \in Openings(g)] == IF s.calls = <<>> THEN s ELSE after[NextCall(s)]
  IN  after

RevealCell(g, x, y) == Recursion(g)[[game |-> g, calls |-> <<<<x, y>>>>]].game

FlagCell(g, x, y) ==
  LET cell == <<x, y>>
  IN CASE cell \notin Cells(g.width, g.height) \/ g.game_over \/ cell \in g.revealed -> g
       [] OTHER ->
            IF cell \in g.flagged
            THEN [g EXCEPT !.flagged = @ \ {cell}, !.flags_remaining = @ + 1]
            ELSE [g EXCEPT !.flagged = @ \cup {cell}, !.flags_remaining = @ - 1]

StartGame(w, h, n) ==
  /\ Placed(w, n)
  /\ game' = NewGame(w, h, n)
  /\ everFlagged' = {}

Reveal(x, y) ==
  /\ game' = RevealCell(game, x, y)
  /\ UNCHANGED everFlagged

Flag(x, y) ==
  /\ game' = FlagCell(game, x, y)
  /\ Cardinality(game'.flagged) <= MaxFlags
  /\ everFlagged' = everFlagged \cup game'.flagged

MinesweeperInit == game = NewGame(First[1], First[2], First[3]) /\ everFlagged = {}

\* Coordinates reach one cell beyond each edge.
MinesweeperNext ==
  \/ \E g \in Game : StartGame(g[1], g[2], g[3])
  \/ \E x \in -1 .. game.width, y \in -1 .. game.height : Reveal(x, y) \/ Flag(x, y)

MinesweeperSpec == MinesweeperInit /\ [][MinesweeperNext]_minesweeper

(***************************************************************************)
(* Properties.                                                             *)
(***************************************************************************)

\* The game is won exactly when all cells without a mine are open, whatever
\* opened them and wherever flags stood in the way; it is lost exactly when a
\* mine is open, and then one is: opening never runs on over a mine.  The cells
\* around an open 0 are open, unless a flag held them back.
CellsOpen ==
  LET mines == {c \in DOMAIN game.field : game.field[c] = Mine}
  IN /\ game.game_won <=> game.revealed = DOMAIN game.field \ mines
     /\ game.game_over /\ ~game.game_won <=> game.revealed \cap mines # {}
     /\ Cardinality(game.revealed \cap mines) <= 1
     /\ Cardinality(game.flagged) + game.flags_remaining = Cardinality(mines)
     /\ game.flagged \cap game.revealed = {}
     /\ \A c \in game.revealed :
          game.field[c] = 0 => Around(game.width, game.height, c) \subseteq game.revealed \cup everFlagged
=============================================================================
