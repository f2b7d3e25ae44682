\* One restart, with the channel and the warm window of the code.
SPECIFICATION FairSpec
CONSTANTS
  MaxOps = 2
  MaxGeneration = 1
  MaxSession = 2
  MaxCommands = 0
  Capacity = 2
  MaxRequests = 1
  MaxSkips = 0
  WarmFrames = 3
PROPERTIES RafServed
CHECK_DEADLOCK FALSE
