SPECIFICATION BrowserSpec
CONSTANTS
  MaxGenerations = 3
  MaxNewTokens = 2
  MaxRuns = 3
  MaxSentenceWords = 5
  MinWords = 2
  JoinLead = 1
  JoinTail = 1
  MaxClip = 4
  MaxWindows = 3
  MaxBargeIns = 2
  QueueChunks = 1
  LeadSeconds = 1
  MaxCaptured = 3
  MaxTail = 3
  MaxTime = 3
INVARIANTS RepliesAreWhole ClausesMakeTheSentence AudioIsCurrent
PROPERTIES EngineAnswers StopReleases
CHECK_DEADLOCK FALSE
