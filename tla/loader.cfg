CONSTANTS
  File <- MCFile
  Main = "m"
  NoFile = "none"
  Name <- MCName
  NoName = "none"
  Slash <- MCSlash
  BaseOf <- MCBaseOf
  MainBase = "main"
  DtSoname <- MCDtSoname
  StrtabFirst = {"b"}
  Found <- MCFound
  MAX_OBJECTS = 4
  NeededLists <- MCNeededLists
  PreloadLists <- MCPreloadLists
SPECIFICATION Spec
INVARIANTS
  TypeOK
  NameOpenedOnce
  DependenciesStayBound
  ClosureIsLoaded
  OnlyCyclesAreRefused
  CodeRunsInFinishedObjects
PROPERTIES
  Termination
  ImplementsStartup
CHECK_DEADLOCK FALSE
