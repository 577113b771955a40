SPECIFICATION Spec

CONSTANTS
  Keys <- MCKeys
  Rules <- MCRules
  Fallback = "notFound"
  Callers = {c1, c2}
  Savers = {s1, s2}
  Fits <- MCFits
  MaxCalls = 3
  MaxReplays = 3

SYMMETRY Symmetry

INVARIANTS
  SaveCovers
  ReplayRepeats

\* The test ends when the bounds are reached.
CHECK_DEADLOCK FALSE
