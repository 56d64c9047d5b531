SPECIFICATION ErrandSpec
CONSTANTS
  CallsAlone = FALSE
  MaxErrandTurns = 1
  MaxErrandSentences = 3
  MaxBargeIns = 0
INVARIANTS ChunkerTrustsItsInput
CHECK_DEADLOCK FALSE
