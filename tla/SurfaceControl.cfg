\* x86-64: two threads race over two generations with the render thread and with
\* the store buffer of shutdown's flag, which arm64's behaviours never fill.
SPECIFICATION FairSpec
CONSTANTS
  Threads = {t1, t2}
  MaxGeneration = 2
  MaxRetires = 1
  StoreBuffer = TRUE
INVARIANTS NeverReleasesLive
PROPERTIES RetiredIsReleased ImplementsPromise
CHECK_DEADLOCK FALSE
