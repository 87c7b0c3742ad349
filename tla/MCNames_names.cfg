SPECIFICATION PartsSpec
CONSTANTS
  Parts = {"trees", "pads", "loader", "classes"}
  Disks <- LibDisks
  Modules <- MCModules
  Main = "main"
  Ids = {"f", "g", "C", "D"}
  MaxScopes = 6
CONSTRAINT PadsBound
INVARIANTS
  JumpsAndLevels
  LexicalScoping
  ModulesLoaded
  MethodsFound
PROPERTIES
  Refines
  DefinitionsHold
