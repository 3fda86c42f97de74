\* Lines and texts of three characters, a history of two lines, three lines entered;
\* two variables, three scripts within each other; 136 bytes, sizes of eight bits.
SPECIFICATION MCSpec
CONSTANTS
  SHELL_BUFFER_SIZE = 4
  MAX_HISTORY = 2
  NANO_SIZE = 4
  Printable = {97}
  Builtins <- TwoBuiltins
  MaxEntered = 3
  Files <- MCFiles
  Hashed <- MCHashed
  Numeral <- MCNumeral
  MAX_VARIABLES = 2
  Cut <- MCCut
  MaxDepth = 3
  HEAP_SIZE = 136
  HEADER = 24
  Word = 256
  Request = {0, 1, 16, 40, 250}
  Count = {1, 13}
  RightWall = 5
  TopWall = 0
  BottomWall = 4
  FirstHead <- MCFirstHead
  FirstFood <- MCFirstFood
  Body = {0, 1, 2, 3, 4}
  MaxScore = 20
INVARIANTS LineEndsAtCursor HistoryIsRecent RunsToFirstCommand LastStoredWins HeldFits SnakeIsWhole
PROPERTIES NanoSavesTyped
