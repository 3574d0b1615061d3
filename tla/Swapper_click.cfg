SPECIFICATION Spec
CONSTANTS
  Deps = {oodle, other}
  Oodle = oodle
  MaxVersion = 2
  Genuine = 1
  Keys = {k1}
  NoKey = NoKey
  MaxLaunches = 3
  Registry <- MCRegistry
  NameOf <- MCNameOf
  Filters <- MCFilters
  Matches <- MCMatches
  PageSize = 2
  Schemas <- MCSchemas
  ScriptObjects <- MCScriptObjects
  Packages <- MCPackages
  LenOf <- MCLenOf
  WideNames = {}
  CharacterPartPathsToSearch <- Paths
  CharacterPartNamesToSearch <- Names
  AssetNames <- MCAssetNames
  AssetSections <- Sections
CONSTRAINT PagesAlone
CHECK_DEADLOCK FALSE
INVARIANTS TypeOK ReadyMeansCurrent ConfigIsMemory AcceptedIsEntitled EverySkinListed ContainerIsCurrent DialogTellsTruth ClassesAreDeclared
PROPERTIES ConvertDiesOnly ConversionShowsClicked StartEnds
