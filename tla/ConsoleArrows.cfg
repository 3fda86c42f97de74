\* A ring and a line of two characters; shift, H and Enter.
SPECIFICATION ConsoleSpec
CONSTANTS
  KEYBOARD_BUFFER_SIZE = 3
  Scancodes = {42, 35, 28}
  SHELL_BUFFER_SIZE = 3
  MAX_HISTORY = 2
  NANO_SIZE = 3
  Builtins <- LsOnly
  MaxEntered = 2
PROPERTY ArrowsCycleHistory
CHECK_DEADLOCK FALSE
