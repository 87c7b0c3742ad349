CONSTANTS
  Names = {"expr", "NUM", "stmt"}
  Keys = {"k1", "k2", "k3"}
  Data = {1, 2}
  HashOf <- Hashes
  InitialSize = 1
  Parts = {"tables", "parse", "overflow", "errors", "rules", "ranks", "codes", "lines", "blocks", "words", "strings", "configs"}
  TableGrammars <- AllGrammars
  TableOptions <- Compressing
SPECIFICATION PartsSpec
CHECK_DEADLOCK FALSE
INVARIANTS
  LookaheadExact
  ActionsExact
  ParserExact
  ErrorsSeen
  
  EachOnceInOrder
PROPERTIES
  Refines
  LoopsEnd
