CONSTANTS
  NTargets = 2
  MaxSeeds = 2
  MaxCycles = 1
  t1 = t1
  t2 = t2
  t3 = t3
  Tokens <- MCTokens
  USE_AUTO_EXTRAS = 1
  MAX_AUTO_EXTRAS = 2
SPECIFICATION Spec
INVARIANT TargetsSound
SYMMETRY Symmetry
CHECK_DEADLOCK FALSE
