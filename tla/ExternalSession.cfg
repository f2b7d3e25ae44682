SPECIFICATION FairSpec
CONSTANTS
  MaxCredits = 2
  WarmFrames = 1
  MaxGeneration = 2
  MaxOps = 4
  MaxWork = 16
  MaxLosses = 1
  NormalCapacity = 1
INVARIANTS
  CreditsExact
  FramesInOrder
  BacklogBounded
  ForegroundRuns
PROPERTIES
  NoFrameForAnOldSurface
  BlockedProducerProceeds
CHECK_DEADLOCK FALSE
