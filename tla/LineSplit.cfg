SPECIFICATION Spec

CONSTANTS
  MaxLineBytes = 3
  ReadBufSize = 4
  MaxText = 8

INVARIANTS
  LinesAreCut
  NothingIsLost

\* The program stops when drainLines has returned.
CHECK_DEADLOCK FALSE
