\* A table of four files, three of them there at the start; restarts.
SPECIFICATION Spec
CONSTANTS
  MAX_FILES = 4
  Names = {"home", "long", "longer"}
  Clip <- ClipLong
  Texts = {"", "x"}
  EmptyText = ""
  SECTOR_NODES = 2
  DriveMayFail = FALSE
PROPERTY FilesPersist
