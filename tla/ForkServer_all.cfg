SPECIFICATION FairSpec
CONSTANTS
  MaxRuns = 4
  LoopCount = 2
  Modes = {"persistent", "plain", "direct"}
INVARIANTS
  CallsSound
PROPERTIES
  Refinement
  CallsEnd
