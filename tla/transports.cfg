SPECIFICATION TransportsSpec
CONSTANTS
  Cap = 1
  RingCapacity = 4
  MaxCommands = 2
  MaxTasks = 1
  MaxRuns = 2
  TranscriptCapacity = 1
  MaxTurns = 3
  MaxWebhookTasks = 2
INVARIANTS TasksAreKeptApart
PROPERTIES TasksAreReported CloseIsSeen ReplaysWhatWasReported
CHECK_DEADLOCK FALSE
