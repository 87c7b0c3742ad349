CONSTANTS
  Names = {"expr", "NUM", "stmt"}
  Keys = {"k1", "k2", "k3"}
  Data = {1, 2}
  HashOf <- Hashes
  InitialSize = 1
  Parts = {"tables"}
  TableGrammars <- Examples
  TableOptions <- Unsorted
SPECIFICATION PartsSpec
CHECK_DEADLOCK FALSE
INVARIANT TablesExact
