SPECIFICATION Spec
CONSTANTS
  GameData = GameData
  DefaultPart = DefaultPart
  LastCell = 4
  NewBlockCount = 2
  MaxSize = 2
  Faults <- AllFaults
  MaxCalls = 3
  MaxDeaths = 2
CONSTRAINT FewMishaps
INVARIANTS TypeOK OriginalsKept FlagMeansRevertible
PROPERTIES RevertRestores SwapInstalls BackupGoesHome
