SPECIFICATION Spec
CONSTANTS
  GameData = GameData
  DefaultPart = DefaultPart
  LastCell = 3
  NewBlockCount = 1
  MaxSize = 1
  Faults <- WriteFault
  MaxCalls = 2
  MaxDeaths = 0
PROPERTIES RevertedMeansPristine
