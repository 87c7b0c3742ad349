CONSTANTS
  ClosesTwice = FALSE
  MaxFds = 3
  MaxObjects = 4
  Parts = {"handles", "files", "sockets"}
  FileTexts <- MCTexts
  FileModes = {"rb", "w", "a", "r+"}
  Offsets <- MCOffsets
  StreamBuffer = 1
  UsesClosed = FALSE
  MaxLength = 2
  HostAddress <- MCHosts
  EmptyHost = ""
  Ports = {80, 8888, 65535}
  Message <- MCMessage
  ReadBuffer = 2
  Lengths = {0, 1, 3}
  MaxSent = 4
SPECIFICATION PartsSpec
CHECK_DEADLOCK FALSE
INVARIANTS
  OwnDescriptor
  IterationIsSafe
  NothingLost
PROPERTIES
  ReadsToTheEnd
  ReadReturns
