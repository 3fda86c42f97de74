\* One file, started with nixlang: run refuses it.
SPECIFICATION ScriptSpec
CONSTANTS
  Files <- MCFiles
  Hashed <- MCHashed
  Numeral <- MCNumeral
  MAX_VARIABLES = 2
  Cut <- MCCut
  MaxDepth = 1
INVARIANT RunsEveryLine
