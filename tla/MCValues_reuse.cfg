SPECIFICATION PartsSpec
CONSTANTS
  Parts = {"foreach"}
  AssignsLoop = TRUE
  Outer = 1
  Scripts = {"quiet"}
  DestroyVar = 1
  Overwrites = TRUE
  Steps = FALSE
  Frames = {"block"}
  MaxCells = 3
  MaxStack = 2
  MaxInt = 0
CHECK_DEADLOCK FALSE
PROPERTY TurnsAreNew
