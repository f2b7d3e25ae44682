\* x86-64: the store of shutting_down may be delayed past shutdown's look at the
\* gate.
SPECIFICATION Spec
CONSTANTS
  Threads = {t1, t2}
  MaxGeneration = 1
  MaxRetires = 0
  StoreBuffer = TRUE
INVARIANTS ShutdownIsFinal
CHECK_DEADLOCK FALSE
