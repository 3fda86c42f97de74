\* Tables of two entries, 16 pages; 12 frames, of which two are reserved, in
\* words of five bits; the first 4 pages identity-mapped.
SPECIFICATION Spec
CONSTANTS
  TOTAL_PAGES = 12
  RESERVED = 2
  WORD_BITS = 5
  ENTRIES = 2
  IDENTITY_PAGES = 4
INVARIANTS FreeIsExact Accounted TablesFormTree
PROPERTIES RefinesPageMap
CHECK_DEADLOCK FALSE
