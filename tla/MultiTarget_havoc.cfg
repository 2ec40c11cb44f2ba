CONSTANTS
  NTargets = 1
  MaxSeeds = 2
  MaxCycles = 2
  Tokens = {t1}
  t1 = t1
  USE_AUTO_EXTRAS = 1
  MAX_AUTO_EXTRAS = 2
SPECIFICATION Spec
INVARIANT HavocDivPositive
CHECK_DEADLOCK FALSE
