------------------------------- MODULE Snake -------------------------------
(***************************************************************************)
(* The snake game (games/games.c).  One turn of its loop is one action: at *)
(* most one key is taken from the keyboard's buffer, whose content is any. *)
(* The body is an array of which the first cells are the snake; the others *)
(* keep what earlier games left there.                                     *)
(***************************************************************************)
EXTENDS Integers

CONSTANTS
  RightWall, TopWall, BottomWall,     \* the left wall is column 0
  FirstHead, FirstFood,               \* where a game begins: <<x, y>>
  Body,          \* indices of the body's cells
  MaxScore       \* bound: the score at which no food is eaten any more

VARIABLES
  body, length, direction, food, score,
  phase,         \* "shell", "playing", "ended" or "hung"
  grown          \* history: the last turn ate

snake == <<body, length, direction, food, score, phase, grown>>

Up == 0
ToRight == 1
Down == 2
ToLeft == 3

Opposite(d) == (d + 2) % 4

GameSnake ==
  /\ phase = "shell"
  /\ body' = [i \in Body |-> IF i < 3 THEN <<FirstHead[1] - i, FirstHead[2]>> ELSE body[i]]
  /\ length' = 3 /\ direction' = ToRight /\ score' = 0
  /\ food' = FirstFood
  /\ phase' = "playing"
  /\ grown' = FALSE

Ahead(p, d) ==
  CASE d = Up      -> <<p[1], p[2] - 1>>
    [] d = ToRight -> <<p[1] + 1, p[2]>>
    [] d = Down    -> <<p[1], p[2] + 1>>
    [] d = ToLeft  -> <<p[1] - 1, p[2]>>

Move_keepsNeck(b, d) ==                                              \* slip
  [i \in Body |-> CASE i = 0 -> Ahead(b[0], d) [] i > 1 /\ i < length -> b[i - 1] [] OTHER -> b[i]]

Move(b, d) ==
  [i \in Body |-> CASE i = 0 -> Ahead(b[0], d) [] i > 0 /\ i < length -> b[i - 1] [] OTHER -> b[i]]

OnWall(p) == p[1] <= 0 \/ p[1] >= RightWall \/ p[2] <= TopWall \/ p[2] >= BottomWall

\* The snake of a new game lies between the walls, beside the food; the array holds
\* the longest snake.
ASSUME SnakeAssumption ==
  /\ MaxScore \in Nat
  /\ Body \subseteq Nat
  /\ \E n \in Body : Body = 0 .. n /\ 20 + MaxScore <= 10 * n
  /\ FirstHead \in Int \X Int
  /\ \A i \in 0 .. 2 : LET p == <<FirstHead[1] - i, FirstHead[2]>>
                       IN  ~OnWall(p) /\ p # FirstFood

CheckCollision(b) == OnWall(b[0]) \/ \E i \in 1 .. length - 1 : b[0] = b[i]

\* Where snake_place_food puts the food: the same place in every round of its loop.
FoodPlace(s) ==
  <<((s * 7 + 13) % (RightWall - 2)) + 1, ((s * 11 + 17) % (BottomWall - TopWall - 2)) + TopWall + 1>>

\* The food after a turn that ate.  The loop never ends when the place lies on
\* the snake, whose new last cell has not been set yet.
PlaceFood(b, n, s, goesOn) ==
  /\ food' = FoodPlace(s)
  /\ phase' = IF \E i \in 0 .. n - 1 : b[i] = FoodPlace(s) THEN "hung" ELSE goesOn

\* A turn of the loop with direction d; quit when the key was q.
Turn(d, quit) ==
  LET b == Move(body, d)
      goesOn == IF quit \/ CheckCollision(b) THEN "ended" ELSE "playing"
  IN /\ direction' = d
     /\ body' = b
     /\ IF b[0] = food
        THEN /\ score < MaxScore
             /\ score' = score + 10
             /\ length' = length + 1
             /\ PlaceFood(b, length + 1, score + 10, goesOn)
             /\ grown' = TRUE
        ELSE /\ phase' = goesOn
             /\ grown' = FALSE
             /\ UNCHANGED <<length, food, score>>

Play ==
  /\ phase = "playing"
  /\ \/ Turn(direction, FALSE)                                        \* no key, or another one
     \/ \E d \in (0 .. 3) \ {Opposite(direction)} : Turn(d, FALSE)      \* w, a, s, d
     \/ Turn(direction, TRUE)                                         \* q

\* The key that returns to the shell.
Leave == phase = "ended" /\ phase' = "shell" /\ UNCHANGED <<body, length, direction, food, score, grown>>

Hangs == phase = "hung" /\ UNCHANGED snake

SnakeInit ==
  /\ body = [i \in Body |-> <<0, 0>>]
  /\ length = 0 /\ direction = 0 /\ food = <<0, 0>> /\ score = 0
  /\ phase = "shell"
  /\ grown = FALSE

SnakeNext == GameSnake \/ Play \/ Leave \/ Hangs

SnakeSpec == SnakeInit /\ [][SnakeNext]_snake

(***************************************************************************)
(* Property.                                                               *)
(***************************************************************************)

\* However the player turns, and whatever an earlier and longer game left in the
\* array: the snake is a chain of different cells between the walls, has one
\* cell for every 10 points and three more, and the food lies beside it.  Its
\* last cell counts from the turn after it has eaten.
SnakeIsWhole ==
  phase = "playing" =>
    LET last == IF grown THEN length - 2 ELSE length - 1
    IN /\ length * 10 = 30 + score
       /\ \A i \in 0 .. last : ~OnWall(body[i]) /\ body[i] # food
       /\ \A i \in 0 .. last - 1 : \E d \in 0 .. 3 : body[i] = Ahead(body[i + 1], d)
       /\ \A i, j \in 0 .. last : i # j => body[i] # body[j]
=============================================================================
