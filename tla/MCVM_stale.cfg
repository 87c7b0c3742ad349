SPECIFICATION Spec
CONSTANTS
  Program = "stale"
  MaxHeight = 16
  MaxMarks = 6
  Files <- MCFiles
  Functions <- MCFunctions
  End <- MCEnd
  Code <- MCCode
  ScopeAt <- MCScopeAt
  DepthAt <- MCDepthAt
  Scopes <- MCScopes
  Parent <- MCParent
  Kind <- MCKind
  EntryDepth <- MCEntryDepth
  LoopOf <- MCLoopOf
  ReturnScopes <- MCReturnScopes
  FnScope <- MCFnScope
  NParams <- MCNParams
  Defaults <- MCDefaults
  Root <- RootScope
  Main = "main"
CONSTRAINT Bounded
INVARIANT ArgumentsOwn
