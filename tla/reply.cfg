SPECIFICATION Spec
CONSTANTS
  MaxTurns = 2
  MaxWords = 2
  BatchSize = 1
  MaxSegments = 1
  MaxInterrupts = 1
INVARIANTS SpeechInOrder WorkIsCurrent
PROPERTIES FinishedIsSpoken
