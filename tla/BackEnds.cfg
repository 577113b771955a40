SPECIFICATION BackEndsSpec

CONSTANTS
  Controllers = {memory, pids}
  Pids = {p1, p2, p3}
  MaxMkdirs = 2
  MaxSweeps = 2
  Starters = {s1, s2}
  Adopters = {a1}
  Closers = {c1, c2}
  Users = {u1}
  Children = {k1}
  Nobody = Nobody

INVARIANTS
  CapsAreInForce
  KillIsHonest
  HandleIsOwn
  RunsOnlyInJob

PROPERTIES
  WinImplementsContainer
  EveryCallEnds

\* A closed job does nothing more.
CHECK_DEADLOCK FALSE
