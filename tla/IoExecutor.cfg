SPECIFICATION FairSpec
CONSTANTS
  Workers = {w1, w2}
  Hosts = {h1, h2}
  PoolCount = 2
  AgingInterval = 2
  Kinds <- MCKinds
  MaxPending = 2
INVARIANTS RunningExact WaitingExact NoIdleWorker RetiredForgotten
PROPERTIES ShareKept AcceptedDrains BackgroundServed
CHECK_DEADLOCK FALSE
