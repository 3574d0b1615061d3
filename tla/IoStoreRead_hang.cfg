SPECIFICATION Spec
CONSTANTS
  t1 = t1
  t2 = t2
  Threads <- TwoThreads
  LastBlock = 1
  Readables <- Truncated
  Corrupt <- NoCorrupt
  NumHandles = 2
  IndexWidth = 3
  MaxReads = 3
  Free = Free
PROPERTIES ReadReturns
CHECK_DEADLOCK FALSE
