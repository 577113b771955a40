SPECIFICATION Spec

CONSTANTS
  N = 2
  Items = 1
  PipeCap = 1
  TimeoutSets = {{1}}

PROPERTIES
  CleanStageIsNotTimedOut

CHECK_DEADLOCK FALSE
