SPECIFICATION Spec
CONSTANTS
  global = global
  pakchunk0 = pakchunk0
  uasset = uasset
  umap = umap
  Skin = Skin
  Lobby = Lobby
  Archives <- TwoArchives
  Files <- SharedPath
  NumThreads = 2
  NumWorkers = 2
INVARIANTS FilesOnce MountedIsFound
PROPERTIES PromiseKept
CHECK_DEADLOCK FALSE
