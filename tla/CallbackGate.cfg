\* Three threads post, dispatch, run and destroy, nested.
SPECIFICATION FairSpec
CONSTANTS
  Threads = {t1, t2, t3}
  MaxActive = 2
  MaxPosts = 4
  MaxDepth = 4
INVARIANTS QuietAfterDestroy FreedExactlyLast
PROPERTIES DestroyReturns
CHECK_DEADLOCK FALSE
