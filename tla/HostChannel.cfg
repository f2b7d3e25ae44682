\* Two sender threads mix all kinds of command, drops, notifications and
\* cancelled receives.
SPECIFICATION FairSpec
CONSTANTS
  Threads = {t1, t2}
  Streams = {touch}
  NoStream = none
  NormalCapacity = 2
  ReliableCapacity = 1
  MaxCommands = 3
INVARIANTS CountersExact OrderPreserved NothingVanishes NoLostWakeup
PROPERTIES RecvNotices
CHECK_DEADLOCK FALSE
