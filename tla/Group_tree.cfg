SPECIFICATION Spec

CONSTANTS
  Starts = {s1}
  Streaming = {}
  Kids = {k1}
  Daemons = {k1}
  Exts = {e1}
  Privileged = {k1}
  Callers = {c1, c2}
  Mechanisms = {"ProcessGroup", "CgroupV2", "JobObject"}
  Suspendable = {}
  Free = Free
  JobUnit = JobUnit
  Outside = Outside
  NoProc = NoProc

INVARIANTS
  NoOrphan
  HandlesAreContained
  EveryHandleStopped

PROPERTIES
  ImplementsContainer

\* The program stops when every call has been made and every process is gone.
CHECK_DEADLOCK FALSE
