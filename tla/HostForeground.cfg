SPECIFICATION FairSpec
CONSTANTS
  MaxGeneration = 2
  MaxInbox = 1
  QueueCapacity = 2
  MaxAttempts = 3
INVARIANTS
  QuietUntilRestart
  ForegroundRuns
  SlotIsBound
PROPERTY
  CommandsHandled
