\* Three threads do everything to a deque of two elements.
SPECIFICATION FairSpec
CONSTANTS
  t1 = t1
  t2 = t2
  t3 = t3
  v1 = v1
  v2 = v2
  AtFront = AtFront
  AtBack = AtBack
  Threads <- MCThreads
  Values <- MCValues
  Contents <- MCContents
  MaxCount = 3
INVARIANTS Accounting NoLostWakeup EraseNotStranded
PROPERTIES PermitIsTaken KeepsPromise
CHECK_DEADLOCK FALSE
