SPECIFICATION SpecHanging
CONSTANTS
  Capacity = 1
  OnData <- MCOnData
  OnSystem <- MCOnSystem
  Failures = {TRUE, FALSE}
  UpData = {"edge", "media", "durable"}
  UpSystem = {"interrupt", "stop", "other"}
  MaxIn = 3
INVARIANTS IInv LanesBounded
PROPERTIES MailboxSpec OutputFollowsCause InterruptHandled
