SPECIFICATION JobsSpec
CONSTANTS
  Lens = {1, 2, 4, 5}
  Sums = {0, 1, 2}
  ARITH_MAX = 1
  IntValues <- MCIntValues
  ExtraLens <- MCExtraLens
  AutoLens <- MCAutoLens
  MIN_AUTO_EXTRA = 2
  MAX_AUTO_EXTRA = 3
  TMOUT_LIMIT = 1
  EffBlock = 2
  EFF_MIN_LEN = 2
  EFF_MAX_PERC = 60
  SpeedScores = {10, 300}
  SizeMults = {1, 12}
  Handicaps = {0, 5}
  Depths = {0, 30}
  Factors = {0, 2, 5}
  HAVOC_CYCLES = 1
  HAVOC_CYCLES_INIT = 4
  SPLICE_HAVOC = 1
  HAVOC_MIN = 2
  HAVOC_MAX_MULT = 4
  SPLICE_CYCLES = 2
  StageValues = 256
  MAX_FILE = 7
  Blocks <- MCBlocks
  UserTokens = {1}
  AutoTokens = {2}
  StartLens = {1, 3}
  SpliceBytes = {0, 1}
  ARITH_LIMIT = 35
  INTERESTING_8 = {128, 255, 0, 1, 16, 32, 64, 100, 127}
  INTERESTING_16 = {65408, 65535, 0, 1, 16, 32, 64, 100, 127, 32768, 65407, 128, 255, 256, 512, 1000, 1024, 4096, 32767}
  ByteSample = {0, 1, 15, 16, 32, 64, 65, 97, 127, 128, 200, 255}
  WordSample = {0, 1, 127, 128, 255, 256, 384, 511, 1000, 4660, 16705, 32767, 32768, 33023, 65280, 65407, 65500, 65535}
  MaxLen = 7
  TRIM_MIN_BYTES = 1
  TRIM_START_STEPS = 4
  TRIM_END_STEPS = 8
  Originals <- MCOriginals
  Programs <- MCPrograms
  SetSteps = 2
  SetMinSize = 2
  StartSteps = 2
  AnalyzeFiles <- MCFiles
  Parsers <- MCParsers
  MaxLate = 1
  MaxAutoExtra = 6
  ToolRuns = 2
  ToolTimeouts = {TRUE, FALSE}
  MeasuredCores = 3
  CompilerFlags <- MCFlags
  BuildEnvs <- MCEnvs
  Ratios = {100, 60, 150}
  Scans <- MCScans
  Objects = {o1, o2}
  MapWidth = 2
  CountMod = 2
  MaxSteps = 3
  MaxRuns = 2
  ArgLists <- MCArgLists
  PathLists <- MCPathLists
  MaxToolOptions = 3
  PassInputs <- MCPassInputs
  NodeLimit = 4
  HeapThreads = {h1, h2}
  AllocLens = {0, 3, 9, 20}
  HeapPage = 16
  MaxMem = 30
  SizeLimit = 64
  MaxBuffers = 2
  QemuBlocks = {q1, q2}
  MaxChildren = 2
  PipeRoom = 1
  MaxExecuted = 3
INVARIANTS StagesRight HavocRight SkipsAreRepeats TrimKeepsSeed TminRight AnalyzeRight RunsRight VerdictSound BuildSound TrampolinesPlaced TraceIsSteps LaunchAgrees ProgramSideRight
PROPERTIES SeedWorkEnds EveryToolEnds
CHECK_DEADLOCK FALSE
