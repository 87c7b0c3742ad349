CONSTANTS
  Codes = {f, g}
  Objects = {o}
  Blocks <- MCBlocks
  Names <- MCNames
  Reserved <- MCReserved
  MaxFrames = 3
  MaxArgs = 2
  Parts = {"builtins", "strings", "arrays", "hashes"}
  Texts <- MCTexts
  TextPatterns <- MCPatterns
  Words <- MCWords
  Numbers <- MCNumbers
  MaxLen = 6
  MaxPieces = 8
  Elements = {1, 2}
  Indexes = {0, 1, 2, 3}
  PopsEmpty = FALSE
  ForeachChanges = {"push", "pop", "shift", "unshift", "set"}
  MapChanges = {"pop", "shift"}
  MaxSize = 3
  ArrayLoops = 1
  Keys = {1, 2, 3}
  End = 4
  Values = {1, 2}
  ReadsMissing = TRUE
  UsesValue = TRUE
  DeletesAny = FALSE
  MaxPairs = 2
  HashLoops = 2
SPECIFICATION PartsSpec
CHECK_DEADLOCK FALSE
CONSTRAINT TableBound
INVARIANTS
  BuiltinsAnswer
  TablesInverse
  TextMethods
PROPERTIES
  Ends
  ArrayIsList
  LoopsKeepPlace
