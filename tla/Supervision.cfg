SPECIFICATION Spec

CONSTANTS
  MaxRuns = 3
  Limits = {0, 1}
  Unlimited = Unlimited
  Threshold = 1
  Base = 4
  Factor = 3
  MaxBackoff = 20
  MaxDuration = 22

INVARIANTS
  NoOverlap
  VerdictMatches
  RestartsAreCounted

PROPERTIES
  OnlyFailuresAreRepeated
  DelaysGrow
  CancelEnds

\* The loop ends, and an unlimited supervisor is explored for MaxRuns runs.
CHECK_DEADLOCK FALSE
