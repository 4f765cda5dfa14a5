CONSTANTS
  File <- MCFile
  Main = "m"
  NoFile = "none"
  Name <- MCName
  NoName = "none"
  Slash <- MCSlash
  BaseOf <- MCBaseOf
  MainBase = "main"
  DtSoname <- MCDtSoname
  StrtabFirst = {"b"}
  Found <- AnywhereFound
  MAX_OBJECTS = 4
  NeededLists <- SonameNeededLists
  PreloadLists <- OnePreloadLists
SPECIFICATION Spec
INVARIANT
  DestructorsHaveRun
CHECK_DEADLOCK FALSE
