SPECIFICATION Spec

CONSTANTS
  N = 3
  Items = 1
  PipeCap = 1
  TimeoutSets = {{1}}

INVARIANTS
  NothingIsLeft
  KillIsExplained
  BlameIsRight

PROPERTIES
  FiltersFinish
  CutEnds

\* The chain ends.
CHECK_DEADLOCK FALSE
