CONSTANTS
  NTargets = 2
  MaxSeeds = 2
  MaxCycles = 2
  Tokens = {t1}
  t1 = t1
  USE_AUTO_EXTRAS = 1
  MAX_AUTO_EXTRAS = 2
SPECIFICATION Spec
PROPERTIES Refinement
CHECK_DEADLOCK FALSE
