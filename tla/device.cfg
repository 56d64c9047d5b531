SPECIFICATION AudioSpec
CONSTANTS
  SentData = {"media", "durable"}
  SentSystem = {"interrupt", "other"}
  MaxSent = 4
  RingSize = 2
  ChunkSize = 2
  CaptureSize = 3
  ChunkFrames = 2
  MaxSamples = 6
  MaxBuffer = 3
INVARIANTS SamplesAreCurrent
PROPERTIES ImplementsPump InterruptApplied NoWakeupLost DropReturns
CHECK_DEADLOCK FALSE
