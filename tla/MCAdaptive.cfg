SPECIFICATION AdaptiveSpec
CONSTANTS
  Size = 5
  Level <- MCLevel
PROPERTIES WrongStepsDown
CHECK_DEADLOCK FALSE
