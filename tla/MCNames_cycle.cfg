SPECIFICATION PartsSpec
CONSTANTS
  Parts = {"loader"}
  Disks <- CycleDisks
  Modules <- MCModules
  Main = "main"
  Ids = {"f", "g", "C", "D"}
  MaxScopes = 6
INVARIANT LoadedOnce
