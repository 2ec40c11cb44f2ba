SPECIFICATION Spec
CONSTANTS
  MaxRuns = 2
  LoopCount = 2
  Modes = {"persistent"}
INVARIANT StopKillsRunner
