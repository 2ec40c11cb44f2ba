SPECIFICATION ScreenSpec
CONSTANTS
  ScreenTargets = {{0}, {0, 1}}
  StatsPeriod = 1
  PlotPeriod = 1
  ClockSteps = {1, 2}
  Rates = {0, 20}
  Quiet = 0
  MaxClock = 2
  MaxQuiet = 1
INVARIANT StartTimeRight
CHECK_DEADLOCK FALSE
