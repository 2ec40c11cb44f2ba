SPECIFICATION SetupSpec
CONSTANTS
  OptionSets = {{}, {"N"}, {"c"}, {"d", "N", "c"}}
  EnvironmentSets = {{}}
  BinaryFiles = {"instrumented"}
INVARIANT OptionsKept
CHECK_DEADLOCK FALSE
