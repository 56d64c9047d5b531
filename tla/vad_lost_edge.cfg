SPECIFICATION Spec
CONSTANTS
  Lengths = {0, 1, 3}
  WindowLen = 2
  StartWindows = 1
  StopWindows = 2
  Preroll = 4
  MaxChunks = 4
INVARIANTS EdgesAlternate
CHECK_DEADLOCK FALSE
