SPECIFICATION Spec

CONSTANTS
  Streams = {"stdout", "stderr"}
  MaxLines = 2
  PipeCap = 1
  BufferLines = 1
  Policies = {"dropNewest"}
  Matching <- MCMatching
  Fallible = {"stderr"}

PROPERTIES
  PipesAreDrained

CHECK_DEADLOCK FALSE
