\* A ring of two characters; shift, ctrl, caps lock, Up and C.
SPECIFICATION FairSpec
CONSTANTS
  KEYBOARD_BUFFER_SIZE = 3
  Scancodes = {42, 29, 58, 72, 46}
PROPERTIES RefinesKeyQueue EveryKeyIsFetched
