SPECIFICATION CampaignSpec
CONSTANTS
  Inputs = {"a", "b"}
  Words <- MCWords
  CountBits = {1, 2}
  Traces <- MCTraces
  CAL_CYCLES = 2
  CAL_CYCLES_LONG = 3
  CAL_CHANCES = 2
  KEEP_UNIQUE = 1
  FoundTokens <- MCFound
  DictLines <- MCLines
  MAX_AUTO_EXTRAS = 3
  USE_AUTO_EXTRAS = 2
  MaxHits = 2
  MaxEntries = 4
  MaxScore = 2
  MaxCycles = 2
  Stride = 2
  Slots = 3
  TargetCount = 2
  MaxSelections = 6
  Windows <- MCWindows
  Log7200 <- MCLog7200
  Fuzzers = {f1, f2}
  LogCount = 2
  Bases = {100, 101, 103}
  MaxAppends = 1
  StatTargets = 2
  SeedCount = 2
  AvgUs = {500, 300000}
  Took = {1, 90, 1100, 2000}
  Given = {5}
  FoundStats = {0, 3, 40}
  SkipCrashes = TRUE
  Procs = {p1, p2, p3}
  CoreTotal = 2
  NoAffinity = {p3}
  OptionSets <- MCOptionSets
  EnvironmentSets <- MCEnvironments
  BinaryFiles = {"missing", "script", "plain", "instrumented", "persistent"}
  ScreenTargets <- MCTargetSets
  StatsPeriod = 1
  PlotPeriod = 1
  ClockSteps = {1, 2}
  Rates = {0, 20}
  Quiet = 0
  MaxClock = 2
  MaxQuiet = 1
  Minutes = {121}
  QuietCycles = {0, 101}
  Runnable = {1, 3, 9}
  CoreCount = 4
  MaxUpdates = 3
INVARIANTS CalibrationRight DictionaryRight SelectionRight SegmentsRight  CoresRight OptionsAgree
PROPERTIES QueueRight ScreenRight
CHECK_DEADLOCK FALSE
