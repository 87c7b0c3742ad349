SPECIFICATION PartsSpec
CONSTANTS
  Parts = {"drops", "destroy", "foreach", "operators"}
  AssignsLoop = FALSE
  Outer = 1
  Scripts = {"quiet"}
  DestroyVar = 1
  Overwrites = TRUE
  Steps = FALSE
  Frames = {"block"}
  MaxCells = 3
  MaxStack = 2
  MaxInt = 0
CHECK_DEADLOCK FALSE
INVARIANTS
  CountsExact
  BetweenOps
PROPERTIES
  DestroyDrains
  OperatorsExact
  TurnsAreNew
