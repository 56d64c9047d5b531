SPECIFICATION ListeningSpec
CONSTANTS
  Rates = {2, 3}
  ChannelCounts = {1, 2}
  OutRate = 2
  OutChannels = 1
  ChunkLengths = {1, 3}
  BlockFrames = 2
  MaxCaptured = 6
  Lengths = {0, 1, 3}
  WindowLen = 2
  StartWindows = 1
  StopWindows = 2
  Preroll = 4
  MaxChunks = 5
  MaxCalls = 4
  MaxCancels = 2
  MaxFrames = 5
  Granularity = 1
  WindowDurations = {3, 4}
  OverlapDurations = {1, 2}
  MaxSpoken = 3
  WordLengths = {1, 2}
  Gaps = {0, 2}
INVARIANTS SessionsAreIndependent GateIsSound TranscriptIsWhole
PROPERTIES SessionContract CallsReturn FinalIsUtterance
CHECK_DEADLOCK FALSE
