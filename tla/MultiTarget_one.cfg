CONSTANTS
  NTargets = 1
  MaxSeeds = 3
  MaxCycles = 4
  Tokens = {t1}
  t1 = t1
  USE_AUTO_EXTRAS = 1
  MAX_AUTO_EXTRAS = 2
SPECIFICATION Spec
INVARIANT SingleSound
PROPERTIES SingleFresh StopEnds
CHECK_DEADLOCK FALSE
