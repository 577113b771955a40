SPECIFICATION FairSpec

CONSTANTS
  Starts = {s1}
  Streaming = {s1}
  Kids = {k1}
  Daemons = {k1}
  Exts = {}
  Privileged = {s1}
  Callers = {c1, c2}
  Mechanisms = {"ProcessGroup", "CgroupV2", "JobObject"}
  Suspendable = {"ProcessGroup"}
  Free = Free
  JobUnit = JobUnit
  Outside = Outside
  NoProc = NoProc

INVARIANTS
  JobOpenWhileStarting

PROPERTIES
  NoSpawnOnceClosed
  CallsReturn
  ReapedOnceClosed
  KilledHandleIsDone

\* The program stops when every call has been made and every process is gone.
CHECK_DEADLOCK FALSE
