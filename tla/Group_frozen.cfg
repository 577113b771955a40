SPECIFICATION FairSpec

CONSTANTS
  Starts = {s1}
  Streaming = {}
  Kids = {}
  Daemons = {}
  Exts = {}
  Privileged = {}
  Callers = {c1}
  Mechanisms = {"CgroupV2"}
  Suspendable = {"CgroupV2"}
  Free = Free
  JobUnit = JobUnit
  Outside = Outside
  NoProc = NoProc

PROPERTIES
  SuspendedGroupIsClosed

\* The program stops when every call has been made and every process is gone.
CHECK_DEADLOCK FALSE
