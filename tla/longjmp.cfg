SPECIFICATION LibrarySpec
CHECK_DEADLOCK FALSE
CONSTANTS
  Parts = {"jumps"}

  Page = 2
  Top = 16
  Taken = {0, 1, 14, 15}
  Library <- ShiftedWithBss
  Program = {}

  CommandLine <- CommandLines
  EnvironmentSize = {0, 2}

  Requester <- Requesters
  Environment <- PathLists
  Option <- OptionLists
  Site <- Sites
  SystemDir <- SystemDirs
  Cwd = "."
  NotSet = NotSet

  Processes <- ProcessImages
  Name = {"f", "g", "h"}
  Hash <- HashOf
  Resolver <- ResolverOf

  Setting <- Settings
  Vector <- Vectors
  Letter <- Letters
  LongOption <- LongOptions

  MAX = 127
  StringCall <- StringCalls
  Source <- Texts
  Delimiter = {44}
  MaxToken = 3
  MaxString = 3

  FormatCall <- FormatCalls
  Sizes <- BufferSizes
  MAX_WIDTH = 10
  MAX_PRECISION = 20
  NUM_BUF = 16
  FLOAT_BUF = 12
  SCALE = 32
  ErrorText <- ErrorName
  SIZE_MAX = 1000000
  INT_MAX = 35
  Leftover <- Leftovers

  SECONDS = 2
  MINUTES = 3
  HOURS = 2
  TICKS = 3
  LastYear = 2400
  MaxConversions = 2
  Time <- EdgeTimes
  Asked = {1, 2, 3}
  MaxSignals = 2

  Input <- FiveBytes
  IN_BUF_SIZE = 3
  Dir = {"a", "b"}
  Directory <- FourEntries
  DirBuf = 2
  MaxFailures = 1
  MaxOpens = 2
  NoEntry = 0

  MaxFd = 3
  IsRoot = TRUE
  Code = {4}
  MaxCalls = 3
  UptimeText <- UptimeBytes
  ULONG_MAX = 255

  UNIT = 16
  Stride = 48
  Index = 2
  Storage = 48
  Limit = 6
  Size <- FrameSizes
  Align = {16, 32}

  SlotCount = 1
  UNGETC_BUF_SIZE = 2
  FileFd = {d3}
  ModeUsed = {"r", "r+", "w", "w+", "a+", "bad"}
  File = {f1}
  FileNone = NoFile
  Nul = nul
  Newline = nl
  FileByte = {nul, nl}
  DeviceSize = 3

  DoubleFormat <- EightBits
  FloatFormat <- SixBits
  LIFT = 4
  Second <- Chosen
  Power <- Powers

  Arch <- OnlyX86_64
  MaxDepth = 2
  Worked = {1, 2}
  ReturnValue = {0, 2}

  Agent = {t1, t2}
  Bit = {0}
INVARIANTS
  StackPointerIsRestored
