SPECIFICATION Spec
CONSTANTS
  t1 = t1
  t2 = t2
  Threads <- TwoThreads
  LastBlock = 2
  Readables <- WholeOrCut
  Corrupt <- OneCorrupt
  NumHandles = 2
  IndexWidth = 3
  MaxReads = 1
  Free = Free
INVARIANTS TypeOK HandleExclusive BufferExclusive OkIsRight ErrorHasCause
PROPERTIES WholeFileReadReturns
CHECK_DEADLOCK FALSE
