SPECIFICATION Spec
CONSTANTS
  Program = "all"
  MaxHeight = 20
  MaxMarks = 7
  Files <- MCFiles
  Functions <- MCFunctions
  End <- MCEnd
  Code <- MCCode
  ScopeAt <- MCScopeAt
  DepthAt <- MCDepthAt
  Scopes <- MCScopes
  Parent <- MCParent
  Kind <- MCKind
  EntryDepth <- MCEntryDepth
  LoopOf <- MCLoopOf
  ReturnScopes <- MCReturnScopes
  FnScope <- MCFnScope
  NParams <- MCNParams
  Defaults <- MCDefaults
  Root <- RootScope
  Main = "main"
CONSTRAINT Bounded
INVARIANTS
  TypeOK
  NoPadding
  MarksPresent
  MarkOwned
  OnTrack
PROPERTY
  NestedExecuteRestores
