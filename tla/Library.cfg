\* Eighty-eight bytes of heap with headers of 12; a screen of two by two.
SPECIFICATION MCSpec
CONSTANTS
  HEAP_START = 16
  HEAP_SIZE = 88
  HDR = 12
  WORD = 128
  Requests = {0, 7, 18, 40}
  NtpEpoch = 36816480
  Ticks <- MCTicks
  Zones <- MCZones
  Observed <- MCObserved
  VGA_WIDTH = 2
  VGA_HEIGHT = 2
  TERMINAL_HISTORY_LINES = 5
  TabStop = 2
  Glyph = {"a"}
  CtrlCText <- MCCtrlC
  CtrlLText <- MCCtrlL
  Place <- MCPlace
  MaxMarks = 2
  First <- MCFirst
  Game <- MCGame
  MaxFlags = 2
INVARIANTS PayloadsDisjoint UsedIsExact AllFreeIsPristine ScreenShowsText CellsOpen
PROPERTIES HeldIsStable DatesFollow
