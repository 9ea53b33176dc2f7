SPECIFICATION Spec
CONSTANTS
  a = a
  b = b
  \* Aggregates
  Numbers <- MCNumbers
  MaxElements = 3
  \* LineStats
  Half = 4
  SampleSize = 2
  Arrivals = {1, 2}
  Intervals = {0, 1, 2}
  \* StopWatches
  Second = 2
  Pack = 3
  NoTime = none
  MaxTime = 3
  \* PointsInTime
  Zones <- MCZones
  Shifts = {0, 500, 750, 1750}
  MaxInstant = 2500
  \* Containers
  Values = {0, 1}
  Keys = {a, b}
  NoKey = none
  MaxSize = 3
  MaxDepth = 2
  \* Dispatch
  Receivers = {a, b}
  HalfLevels = 2
  Levels = {0, 2}
  MaxInstalled = 2
  Finders = {t, u}
  TreeEvents = {a, b}
  Sources = {s1, s2, s3}
  LastToken = 4
  MaxNested = 2
  \* Reports
  Reporters = {t, u}
  Monitors = {m, n}
  MonitorIds = {i, j}
  GlobalId = g
  Severities = {0, 1}
  DebugLevel = 1
  \* ByteBuffer
  Appenders = {t, u}
  InitSize = 1
  IncSize = 2
  MaxBuffer = 5
  Lengths = {1, 3}
  \* GOStrings
  Chars = {a, b}
  NUL = nul
  Texts <- MCTexts
  PrintSize = 3
  MaxText = 3
  \* IniFiles
  IniUsers = {t, u}
  SectionNames = {m}
  FieldNames = {m, n}
  IniValues = {a, null, empty}
  NullText = null
  EmptyText = empty
  MaxFields = 2
  \* DiskFiles
  FileBytes = {a, stop}
  StopSet = {stop}
  Zero = zero
  EofByte = eof
  Chunk = 1
  MaxFile = 3
  \* Arguments
  InPlace = 1
  Increment = 1
  ArgNumbers = {a}
  ArgTexts = {b}
  NoText = null
  MaxArgs = 3
  MaxTexts = 2
  MaxOdd = 1
INVARIANTS
  FiguresRight
  
  ContentsRight
CHECK_DEADLOCK FALSE
