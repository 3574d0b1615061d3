SPECIFICATION Spec
CONSTANTS
  SkipMax = 3
  ValueMax = 3
  Classes <- SomeClasses
  MaskBits = 1
  MaxCut = 2
INVARIANTS PackLosesNothing LoadedIsBuilt ReadsWhatIsThere CrashOnlyWithoutOwnProperty
