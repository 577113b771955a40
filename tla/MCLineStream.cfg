SPECIFICATION Spec

CONSTANTS
  Streams = {"stdout", "stderr"}
  MaxLines = 2
  PipeCap = 1
  BufferLines = 1
  Policies = {"block", "dropNewest"}
  Matching <- MCMatching
  Fallible = {"stderr"}

INVARIANTS
  InOrder
  DropsAreCounted
  ClosedAfterDrains
  ProbeIsExact

PROPERTIES
  EndEndsStream
  RangeFinishes
  DropNeverStalls

\* A process that nobody waits for may end with the consumer gone.
CHECK_DEADLOCK FALSE
