CONSTANTS
  Kinds = {"Timer", "Idle", "TCP"}
  Texts = {"line"}
  OneRequest = TRUE
  WritesUndef = FALSE
  Count = 1
  MaxHandles = 2
  Parts = {"loop", "lines", "paths", "escapes"}
  Headers = {"X-A", "x_a", "Content-Type", "long"}
  LongHeaders = {"long"}
  MaxText = 2
SPECIFICATION PartsSpec
CHECK_DEADLOCK FALSE
INVARIANTS
  MessageTaken
  ComesBack
PROPERTIES
  RunsOwn
  CountdownEnds
