SPECIFICATION PoolSpec
CONSTANTS
  global = global
  pakchunk0 = pakchunk0
  optional = optional
  Nothing = Nothing
  w1 = w1
  w2 = w2
  ArchivePaths <- ThreeArchives
  Workers <- TwoWorkers
  Throwing <- OneBad
INVARIANTS PoolTypeOK Drained
PROPERTIES PoolPromiseKept MountReturns
CHECK_DEADLOCK FALSE
