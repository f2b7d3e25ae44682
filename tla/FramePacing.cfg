\* Two lifecycle events, or a restart, or a context loss and an event, against
\* the render, JavaScript, upload and main threads, with either clock.
SPECIFICATION FairSpec
CONSTANTS
  MaxOps = 2
  MaxGeneration = 2
  MaxSession = 2
  MaxCommands = 1
  Capacity = 1
  MaxRequests = 1
  MaxSkips = 1
  WarmFrames = 1
INVARIANTS LatchIsBacked
PROPERTIES DemandTaken PendingLands ClockStops
CHECK_DEADLOCK FALSE
