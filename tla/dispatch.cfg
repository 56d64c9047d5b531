SPECIFICATION ErrandsSpec
CONSTANTS
  WellFormed = {1}
  MaxUtterances = 1
  MaxInterrupts = 1
  MaxCalls = 2
  MaxPiece = 2
  MaxChars = 7
  CallsAlone = TRUE
  MaxErrandTurns = 2
  MaxErrandSentences = 2
  MaxBargeIns = 1
  ToolSets = {1}
  ContextSize = 11
  BatchTokens = 5
  MaxTokens = 1
  VocabBos = TRUE
  TemplateBos = TRUE
  Prefixed = FALSE
  RestoreClears = FALSE
  MaxMessages = 3
INVARIANTS ConclusionsFollow BargeInLosesOneCallOnly CallsReadAsWritten ErrandInOrder
PROPERTIES BothEndsAreTold
CHECK_DEADLOCK FALSE
