SPECIFICATION SpecLongChunk
CONSTANTS
  Capacity = 1
  AgentData <- MCAgentData
  AgentSystem <- MCAgentSystem
  Failures = {}
  InputData = {"edge", "media"}
  InputSystem = {"stop"}
  MaxInput = 3
INVARIANTS BargeInComposes
PROPERTIES UtteranceSurvives SpeechSilences ShutdownEndsAll
