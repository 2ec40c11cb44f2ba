SPECIFICATION Spec
CONSTANTS
  Targets = {a, b}
  Indices = {1, 2}
  Exprs = {0, 1, 2}
  MAX_LOG_NUM = 2
  MAX_VEC_SIZE = 1
  MaxLogged = 3
  MaxCuts = 1
INVARIANTS
  RingSound
  WritesToCurrent
PROPERTY
  Refinement
