SPECIFICATION Spec
CONSTANTS
  BlockSize = 2
  PartitionSize = 32
  Lengths <- FourChunks
  PackedSize = 2
  Padding = 1
  Target = 3
  PatchedLengths = {2, 3, 4}
  PackedSizes = {1, 3}
  Versions = {8}
  SeedCounts = {0, 1}
  SignatureSize = 2
  Encryption = {FALSE, TRUE}
  Trees <- TwoTrees
  OffsetLimit = 64
  SizeLimit = 8
  WordLimit = 1024
  IntLimit = 64
  MaxWrites = 1
INVARIANTS NamesSurvive
CHECK_DEADLOCK FALSE
