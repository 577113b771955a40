--------------------------- MODULE BackEndsProofs ---------------------------
(***************************************************************************)
(* The contract of sys.Job, proved for each back end at any size: the      *)
(* cgroup back end for any set of controllers, any processes and any       *)
(* bounds on the attempts and on the sweep; the Job Object for any number  *)
(* of starts, adoptions, closes, unlocked calls and processes, whichever   *)
(* steps of Windows fail; and then both together.                          *)
(***************************************************************************)
EXTENDS BackEnds, TLAPS

-----------------------------------------------------------------------------
(* The cgroup back end *)

Making == {"new", "mkdir", "limits", "caps", "open", "fallback"}

\* Until the directory is open nobody is in it, and it is gone where newJob gives up.
NewInv ==
    /\ pc \in Making =>
          /\ backend = "none" /\ killed = "none" /\ ~fd
          /\ members = {} /\ doomed = {}
    /\ pc \in {"new", "mkdir", "fallback"} => ~dir
    /\ pc = "caps" => want \subseteq enabled
    /\ pc = "open" => want \subseteq enabled \cap caps
    /\ backend = "none" => pc \in Making
    /\ backend = "pgroup" => want = {}
    /\ backend \in {"pgroup", "error"} => pc = "closed" /\ ~dir /\ ~fd /\ members = {}
    /\ backend = "cgroup" => want \subseteq enabled \cap caps
    /\ pc \notin Making \cup {"closed"} => backend = "cgroup"

\* Success means that everybody is doomed, or that nobody looked.  In a frozen cgroup the
\* sweep has everybody behind it or on its list, and nobody can be added.
SweepInv ==
    /\ killed = "nil" => /\ members \subseteq doomed \/ unread
                         /\ pc \in {"drain", "remove", "closed"}
    /\ pc \in {"use", "kill", "freeze", "list", "signal", "thaw", "verdict"} => killed = "none"
    /\ pc \in Making \cup {"use", "kill", "freeze"} => ~held
    /\ held /\ pc = "signal" => frozen = "yes" /\ members \subseteq doomed \cup snapshot
    /\ held /\ pc # "signal" => members \subseteq doomed

CgroupInv == TypeOK /\ NewInv /\ SweepInv

\* newJob: the choice of the back end, and its ways to fail.
LEMMA NewSteps ==
    ASSUME CgroupInv,
           \/ NoCgroup \/ HasCgroup \/ Mkdir \/ MkdirGivesUp \/ EnableControllers \/ LimitsFail
           \/ CapsWritten \/ OpenDir \/ OpenFails \/ Fallback
           \/ \E c \in Controllers : WriteCap(c)
    PROVE  CgroupInv'
  <1> USE CgroupAssumption DEF CgroupAssumption, CgroupInv, NewInv, SweepInv, TypeOK, Making, At, limitVars, newVars,
          treeVars, killVars, history, newOther
  <1>1. CASE NoCgroup
    BY <1>1 DEF NoCgroup
  <1>2. CASE HasCgroup
    BY <1>2 DEF HasCgroup
  <1>3. CASE Mkdir
    <2>1. mkdirs' \in 0 .. MaxMkdirs
      BY <1>3 DEF Mkdir
    <2>2. CASE dir' = TRUE /\ pc' = (IF want = {} THEN "open" ELSE "limits")
      BY <1>3, <2>1, <2>2 DEF Mkdir
    <2>3. CASE UNCHANGED <<dir, pc>>
      BY <1>3, <2>1, <2>3 DEF Mkdir
    <2>4. CASE pc' = "fallback" /\ UNCHANGED dir
      BY <1>3, <2>1, <2>4 DEF Mkdir
    <2> QED BY <1>3, <2>2, <2>3, <2>4 DEF Mkdir
  <1>4. CASE MkdirGivesUp
    BY <1>4 DEF MkdirGivesUp
  <1>5. CASE EnableControllers
    BY <1>5 DEF EnableControllers, ToEnable
  <1>6. CASE LimitsFail
    BY <1>6 DEF LimitsFail, ToEnable
  <1>7. CASE CapsWritten
    BY <1>7 DEF CapsWritten
  <1>8. CASE OpenDir
    BY <1>8 DEF OpenDir
  <1>9. CASE OpenFails
    BY <1>9 DEF OpenFails
  <1>10. CASE Fallback
    BY <1>10 DEF Fallback
  <1>11. CASE \E c \in Controllers : WriteCap(c)
    BY <1>11 DEF WriteCap
  <1> QED BY <1>1, <1>2, <1>3, <1>4, <1>5, <1>6, <1>7, <1>8, <1>9, <1>10, <1>11

\* Kill, by cgroup.kill or by the sweep, and Close.
LEMMA KillSteps ==
    ASSUME CgroupInv,
           \/ StartKill \/ CgroupKill \/ NoCgroupKill \/ WriteFreeze \/ ListMembers
           \/ SweepGivesUp \/ Swept \/ Thaw \/ Verdict \/ Drained \/ DrainRound \/ Remove
           \/ Unread \/ Unwritten \/ \E p \in Pids : SignalOne(p)
    PROVE  CgroupInv'
  <1> USE CgroupAssumption DEF CgroupAssumption, CgroupInv, NewInv, SweepInv, TypeOK, Making, At, limitVars, newVars,
          treeVars, killVars, history, killOther
  <1>1. CASE StartKill
    BY <1>1 DEF StartKill
  <1>2. CASE CgroupKill
    BY <1>2 DEF CgroupKill
  <1>3. CASE NoCgroupKill
    BY <1>3 DEF NoCgroupKill
  <1>4. CASE WriteFreeze
    BY <1>4 DEF WriteFreeze
  <1>5. CASE ListMembers
    <2>1. CASE members = {}
      BY <1>5, <2>1 DEF ListMembers
    <2>2. CASE members # {}
      <3>1. /\ pc = "list" /\ pc' = "signal" /\ snapshot' = members
            /\ held' = (frozen = "yes")
            /\ UNCHANGED <<killOther, treeVars, killed, unread>>
        BY <1>5, <2>2 DEF ListMembers
      <3>2. round' \in 0 .. MaxSweeps
        BY <1>5, <2>2 DEF ListMembers
      <3>3. SweepInv'
        BY <3>1
      <3> QED BY <3>1, <3>2, <3>3
    <2> QED BY <2>1, <2>2
  <1>6. CASE SweepGivesUp
    BY <1>6 DEF SweepGivesUp
  <1>7. CASE Swept
    BY <1>7 DEF Swept
  <1>8. CASE Thaw
    BY <1>8 DEF Thaw
  <1>9. CASE Verdict
    BY <1>9 DEF Verdict
  <1>10. CASE Drained
    BY <1>10 DEF Drained
  <1>11. CASE DrainRound
    BY <1>11 DEF DrainRound
  <1>12. CASE Remove
    BY <1>12 DEF Remove
  <1>13. ASSUME NEW p \in Pids, SignalOne(p) PROVE CgroupInv'
    <2>1. /\ pc = "signal" /\ UNCHANGED <<killOther, pc, members, frozen, round, killed, unread>>
          /\ snapshot' = snapshot \ {p}
      BY <1>13 DEF SignalOne
    <2>2. CASE doomed' = doomed \cup ({p} \cap members) /\ UNCHANGED held
      <3>1. TypeOK' /\ NewInv'
        BY <2>1, <2>2
      <3>2. SweepInv'
        BY <2>1, <2>2
      <3> QED BY <3>1, <3>2
    <2>3. CASE held' = FALSE /\ UNCHANGED doomed
      <3>1. TypeOK' /\ NewInv'
        BY <2>1, <2>3
      <3>2. SweepInv'
        BY <2>1, <2>3
      <3> QED BY <3>1, <3>2
    <2> QED BY <1>13, <2>2, <2>3 DEF SignalOne
  <1>14. CASE Unread
    <2>1. UNCHANGED <<killOther, treeVars, snapshot, held>>
      BY <1>14 DEF Unread
    <2>2. CASE At("list", "thaw") /\ UNCHANGED <<round, killed, unread>>
      BY <2>1, <2>2
    <2>3. CASE At("verdict", "drain") /\ round' = 0 /\ killed' = "nil" /\ unread' = TRUE
      <3>1. 0 \in 0 .. MaxSweeps
        OBVIOUS
      <3> QED BY <2>1, <2>3, <3>1
    <2>4. CASE At("drain", "remove") /\ UNCHANGED <<round, killed, unread>>
      BY <2>1, <2>4
    <2> QED BY <1>14, <2>2, <2>3, <2>4 DEF Unread
  <1>15. CASE Unwritten
    BY <1>15 DEF Unwritten
  <1> QED BY <1>1, <1>2, <1>3, <1>4, <1>5, <1>6, <1>7, <1>8, <1>9, <1>10, <1>11, <1>12, <1>13,
             <1>14, <1>15

\* The processes and the freezer: whoever could fork must be doomed, or no success told.
LEMMA TreeSteps ==
    ASSUME CgroupInv,
           \/ Suspend \/ Resume \/ Freezes
           \/ \E p \in Pids : Place(p) \/ Fork(p) \/ Die(p)
    PROVE  CgroupInv'
  <1> USE CgroupAssumption DEF CgroupAssumption, CgroupInv, NewInv, SweepInv, TypeOK, Making, At, limitVars, newVars,
          treeVars, killVars, history, treeOther
  <1>1. CASE Suspend \/ Freezes
    BY <1>1 DEF Suspend, Freezes
  <1>5. CASE Resume
    <2>1. TypeOK' /\ NewInv'
      BY <1>5 DEF Resume
    <2>2. SweepInv'
      BY <1>5 DEF Resume
    <2> QED BY <2>1, <2>2
  <1>2. CASE \E p \in Pids : Place(p)
    BY <1>2 DEF Place
  <1>3. CASE \E p \in Pids : Fork(p)
    BY <1>3 DEF Fork
  <1>4. CASE \E p \in Pids : Die(p)
    BY <1>4 DEF Die
  <1> QED BY <1>1, <1>2, <1>3, <1>4, <1>5

\* The inductive invariant of a cgroup job.
THEOREM CgroupInvCorrect == Init /\ [][Next]_vars => []CgroupInv
  <1>1. Init => CgroupInv
    <2> SUFFICES ASSUME Init PROVE CgroupInv
      OBVIOUS
    <2>1. TypeOK
      <3>1. 0 \in 0 .. MaxMkdirs /\ 0 \in 0 .. MaxSweeps
        BY CgroupAssumption DEF CgroupAssumption
      <3> QED BY <3>1 DEF Init, TypeOK
    <2>2. NewInv
      BY DEF Init, NewInv, Making
    <2>3. SweepInv
      BY DEF Init, SweepInv, Making
    <2> QED BY <2>1, <2>2, <2>3 DEF CgroupInv
  <1>2. CgroupInv /\ [Next]_vars => CgroupInv'
    <2> SUFFICES ASSUME CgroupInv, [Next]_vars PROVE CgroupInv'
      OBVIOUS
    <2>1. CASE UNCHANGED vars
      BY <2>1
      DEF vars, limitVars, newVars, treeVars, killVars, history, Making, CgroupInv, TypeOK, NewInv, SweepInv
    <2>2. CASE Code
      BY <2>2, NewSteps, KillSteps DEF Code
    <2>3. CASE Next /\ ~Code
      BY <2>3, KillSteps, TreeSteps DEF Next
    <2> QED BY <2>1, <2>2, <2>3
  <1> QED BY <1>1, <1>2, PTL

\* What the invariant says of the caps and of Kill (job_linux.go:24-25, 119-141).
LEMMA CgroupInvImplies == CgroupInv => NeverUncapped /\ KillIsHonest
  BY DEF CgroupInv, TypeOK, NewInv, SweepInv, Making, NeverUncapped, KillIsHonest

-----------------------------------------------------------------------------
(* The Windows back end *)

\* Before newJob has returned there is nothing to call; after, its caps are in force.
MakeInv ==
    /\ making # "made" =>
          /\ handle = "unset" /\ lock = Nobody /\ ~closed /\ inJob = {}
          /\ \A c \in Callers : call[c] = "idle"
    /\ making = "cpu" => "cpu" \in wanted /\ "killOnClose" \in limits /\ wanted \ {"cpu"} \subseteq limits
    /\ making = "made" => handle # "unset" /\ wanted \cup {"killOnClose"} \subseteq limits
    /\ making \in {"extended", "cpu"} => object = "ownJob"
    /\ making = "failed" => object = "nothing"

\* Group.mu: a Start or an Adopt under way holds it, and then the group is open.
LockInv ==
    /\ lock # Nobody => ~closed
    /\ \A s \in Starters :
          /\ call[s] \notin {"adopt", "take", "use", "release"}
          /\ call[s] \in {"spawn", "assign", "resume"} => lock = s
    /\ \A a \in Adopters :
          /\ call[a] \in {"idle", "adopt", "failed", "returned"}
          /\ call[a] = "adopt" => lock = a
    /\ \A c \in Closers : call[c] \in {"idle", "take", "use", "release", "returned"}
    /\ \A u \in Users : call[u] \in {"idle", "take", "use", "returned"}

\* One Close takes the handle, and the handle is the job's own until it releases it.
CloseInv ==
    /\ \A c \in Closers :
          /\ call[c] # "idle" => closed
          /\ call[c] \in {"take", "use", "release"} =>
                /\ handle = "set"
                /\ \A d \in Closers \ {c} : call[d] \notin {"take", "use", "release"}
    /\ handle = "set" => object = "ownJob"
    /\ handle = "invalid" => closed /\ inJob = {}

\* Where the child of a Start is on its way.
ChildInv ==
    \A s \in Starters :
        /\ call[s] \in {"idle", "spawn"} => process[s] = "none"
        /\ call[s] \in {"assign", "resume", "cleanup"} => process[s] \in {"suspended", "dead"}
        /\ call[s] = "assign" => s \notin inJob
        /\ call[s] = "resume" /\ process[s] = "suspended" => s \in inJob
        /\ call[s] = "wait" => process[s] = "dead"
        /\ call[s] = "failed" => process[s] \in {"none", "dead"}
        /\ process[s] = "running" => s \in inJob

WinInv == WinTypeOK /\ MakeInv /\ LockInv /\ CloseInv /\ ChildInv

\* newJob, before anybody can call.
LEMMA MakeSteps ==
    ASSUME WinInv, Make
    PROVE  WinInv'
  <1> USE WinAssumption DEF WinInv, MakeInv, LockInv, CloseInv, ChildInv, WinTypeOK,
          Callers, Processes, makeVars, handleVars, groupVars, processVars, Unlock, To
  <1>1. CASE MakeFails
    BY <1>1 DEF MakeFails, makeOther
  <1>2. CASE CreateJobObject
    BY <1>2 DEF CreateJobObject, makeOther
  <1>3. CASE SetExtended
    BY <1>3 DEF SetExtended, Made, Caps, Extended, makeOther
  <1>4. CASE SetCpuRate
    BY <1>4 DEF SetCpuRate, Made, Caps, makeOther
  <1> QED BY <1>1, <1>2, <1>3, <1>4 DEF Make

\* A call begins: under Group.mu, but for the calls that Group makes without it.
LEMMA BeginSteps ==
    ASSUME WinInv, NEW c \in Callers, Begin(c)
    PROVE  WinInv'
  <1> USE WinAssumption DEF WinInv, MakeInv, LockInv, CloseInv, ChildInv, WinTypeOK,
          Callers, Processes, makeVars, handleVars, groupVars, processVars, Unlock, To
  <1>1. CASE StartEnters(c)
    BY <1>1 DEF StartEnters, Enters
  <1>2. CASE AdoptEnters(c)
    BY <1>2 DEF AdoptEnters, Enters
  <1>3. CASE CloseEnters(c)
    BY <1>3 DEF CloseEnters
  <1>4. CASE UserEnters(c)
    BY <1>4 DEF UserEnters
  <1> QED BY <1>1, <1>2, <1>3, <1>4 DEF Begin

\* The steps of a Start that has the lock, or cleans up without it.
LEMMA StartSteps ==
    ASSUME WinInv, NEW s \in Callers,
           \/ Spawn(s) \/ AssignProcess(s) \/ AssignRefused(s)
           \/ ResumeProcess(s) \/ ResumeFails(s) \/ CleanUp(s) \/ WaitChild(s)
    PROVE  WinInv'
  <1> USE WinAssumption DEF WinInv, MakeInv, LockInv, CloseInv, ChildInv, WinTypeOK,
          Callers, Processes, makeVars, handleVars, groupVars, processVars, Unlock, To
  <1>1. CASE Spawn(s)
    BY <1>1 DEF Spawn, Becomes, Terminated
  <1>2. CASE AssignProcess(s)
    BY <1>2 DEF AssignProcess, Becomes, Terminated
  <1>3. CASE AssignRefused(s)
    BY <1>3 DEF AssignRefused, Becomes, Terminated
  <1>4. CASE ResumeProcess(s)
    BY <1>4 DEF ResumeProcess, Becomes, Terminated
  <1>5. CASE ResumeFails(s)
    BY <1>5 DEF ResumeFails, Becomes, Terminated
  <1>6. CASE CleanUp(s)
    BY <1>6 DEF CleanUp, Becomes, Terminated
  <1>7. CASE WaitChild(s)
    BY <1>7 DEF WaitChild, Becomes, Terminated
  <1> QED BY <1>1, <1>2, <1>3, <1>4, <1>5, <1>6, <1>7

\* Adopt, and the calls that take the handle.
LEMMA CallSteps ==
    ASSUME WinInv, NEW c \in Callers,
           AdoptProcess(c) \/ TakeHandle(c) \/ UseHandle(c) \/ ReadStats(c) \/ Release(c)
    PROVE  WinInv'
  <1> USE WinAssumption DEF WinInv, MakeInv, LockInv, CloseInv, ChildInv, WinTypeOK,
          Callers, Processes, makeVars, handleVars, groupVars, processVars, Unlock, To
  <1>1. CASE AdoptProcess(c)
    BY <1>1 DEF AdoptProcess, Terminated
  <1>2. CASE TakeHandle(c)
    BY <1>2 DEF TakeHandle, Terminated
  <1>3. CASE UseHandle(c)
    BY <1>3 DEF UseHandle, Terminated
  <1>4. CASE ReadStats(c)
    BY <1>4 DEF ReadStats, Terminated
  <1>5. CASE Release(c)
    BY <1>5 DEF Release, Terminated
  <1> QED BY <1>1, <1>2, <1>3, <1>4, <1>5

\* What Windows and the processes do.
LEMMA SystemSteps ==
    ASSUME WinInv, System
    PROVE  WinInv'
  <1> USE WinAssumption DEF WinInv, MakeInv, LockInv, CloseInv, ChildInv, WinTypeOK,
          Callers, Processes, makeVars, handleVars, groupVars, processVars, Unlock, To
  <1>1. CASE Recycle
    BY <1>1 DEF Recycle, systemOther
  <1>2. CASE \E p \in Processes : Exits(p)
    BY <1>2 DEF Exits, Terminated, systemOther
  <1>3. CASE \E p \in Processes, k \in Children : SpawnsChild(p, k)
    BY <1>3 DEF SpawnsChild, Becomes, systemOther
  <1> QED BY <1>1, <1>2, <1>3 DEF System

\* The inductive invariant of the Windows back end under the calls of Group.
THEOREM WinInvCorrect == WinSpec => []WinInv
  <1>1. WinInit => WinInv
    BY WinAssumption
    DEF WinInit, WinInv, WinTypeOK, MakeInv, LockInv, CloseInv, ChildInv, Callers, Processes
  <1>2. WinInv /\ [WinNext]_winVars => WinInv'
    <2> SUFFICES ASSUME WinInv, [WinNext]_winVars PROVE WinInv'
      OBVIOUS
    <2>1. CASE UNCHANGED winVars
      BY <2>1
      DEF winVars, makeVars, handleVars, groupVars, processVars, WinInv, WinTypeOK, MakeInv,
          LockInv, CloseInv, ChildInv
    <2>2. ASSUME NEW c \in Callers, Begin(c) \/ Continue(c) PROVE WinInv'
      BY <2>2, BeginSteps, StartSteps, CallSteps DEF Continue
    <2> QED BY <2>1, <2>2, MakeSteps, SystemSteps DEF WinNext
  <1> QED BY <1>1, <1>2, PTL DEF WinSpec

\* A child runs only in the job, and after an error of Start not at all
\* (job_windows.go:58-60, 136-161).
THEOREM RunsOnlyInJobCorrect == WinSpec => []RunsOnlyInJob
  <1>1. WinInv => RunsOnlyInJob
    BY DEF WinInv, ChildInv, RunsOnlyInJob
  <1> QED BY <1>1, WinInvCorrect, PTL

\* Start, Adopt and Close use the handle only while it names their job
\* (job_windows.go:64), for every number of them and whatever is done with its value.
THEOREM HandleIsOwnCorrect == WinSpec => []HandleIsOwn
  <1>1. WinInv => HandleIsOwn
    <2> SUFFICES ASSUME WinInv PROVE HandleIsOwn
      OBVIOUS
    <2>1. ASSUME NEW s \in Starters \cup Adopters,
                 call[s] \in {"spawn", "assign", "resume", "adopt", "use", "release"}
          PROVE  object = "ownJob"
      BY <2>1, WinAssumption DEF WinInv, WinTypeOK, MakeInv, LockInv, CloseInv, Callers
    <2>2. ASSUME NEW c \in Closers, call[c] \in {"take", "use", "release"}
          PROVE  object = "ownJob"
      BY <2>2 DEF WinInv, CloseInv
    <2>3. \A c \in Closers : call[c] \in {"idle", "take", "use", "release", "returned"}
      BY DEF WinInv, LockInv
    <2> QED BY <2>1, <2>2, <2>3 DEF HandleIsOwn, Callers, WinInv, CloseInv
  <1> QED BY <1>1, WinInvCorrect, PTL

\* A process is in the job only with every cap that was asked for in force, and a newJob
\* that failed has kept no handle (job_windows.go:94, 110).
THEOREM WinNeverUncappedCorrect == WinSpec => []WinNeverUncapped
  <1>1. WinInv => WinNeverUncapped
    BY DEF WinInv, MakeInv, WinNeverUncapped
  <1> QED BY <1>1, WinInvCorrect, PTL

-----------------------------------------------------------------------------
(* WinJob implements Container *)

Phase == IF ~closed THEN "open" ELSE IF handle = "set" THEN "closing" ELSE "closed"

\* A step that leaves closed and the handle alone is a step of the container if processes
\* only leave the job, or only enter it and, once it is closed, only children do.
LEMMA WinBoxMoves ==
    ASSUME WinInv, WinInv', UNCHANGED <<closed, handle>>,
           \/ inJob' \subseteq inJob
           \/ /\ inJob \subseteq inJob' /\ Phase # "closed"
              /\ closed => inJob' \ inJob \subseteq Children
    PROVE  [WinBox!CNext]_(WinBox!cvars)
  <1>1. inJob \cup inJob' \subseteq (Starters \cup Adopters) \cup Children
    BY DEF WinInv, WinTypeOK, Processes
  <1>2. CASE inJob' \subseteq inJob
    <2>1. WinBox!Leave(inJob \ inJob')
      BY <1>2 DEF WinBox!Leave
    <2> QED BY <1>1, <2>1 DEF WinBox!CNext
  <1>3. CASE /\ inJob \subseteq inJob' /\ Phase # "closed"
             /\ closed => inJob' \ inJob \subseteq Children
    <2>1. WinBox!Enter(inJob' \ inJob)
      BY <1>3, WinAssumption DEF WinBox!Enter, Phase
    <2> QED BY <1>1, <2>1 DEF WinBox!CNext
  <1> QED BY <1>2, <1>3

\* newJob moves no process and leaves the group open: the container stutters.
LEMMA WinBoxMake ==
    ASSUME WinInv, WinInv', Make
    PROVE  [WinBox!CNext]_(WinBox!cvars)
  <1>1. ~closed /\ ~closed' /\ inJob' = inJob
    BY DEF Make, MakeFails, CreateJobObject, SetExtended, SetCpuRate, Made, makeOther, groupVars,
           processVars, WinInv, MakeInv
  <1> QED BY <1>1 DEF WinBox!cvars

\* Of the calls, only the first Close and the release move the phase; Assign and Adopt let
\* processes enter, the others let them leave or do nothing to the job.
LEMMA WinBoxCall ==
    ASSUME WinInv, WinInv', NEW c \in Callers, Begin(c) \/ Continue(c)
    PROVE  [WinBox!CNext]_(WinBox!cvars)
  <1> USE DEF makeVars, handleVars, groupVars, processVars
  <1>1. CASE CloseEnters(c) /\ ~closed
    <2>1. closed' /\ handle = "set" /\ handle' = "set" /\ inJob' = inJob
      BY <1>1 DEF CloseEnters, WinInv, WinTypeOK, MakeInv, CloseInv
    <2>2. WinBox!BeginClose
      BY <1>1, <2>1 DEF WinBox!BeginClose
    <2> QED BY <2>2 DEF WinBox!CNext
  <1>2. CASE Release(c)
    <2>1. c \in Closers
      BY <1>2 DEF Release, WinInv, LockInv, Callers
    <2>2. closed /\ closed' /\ handle = "set" /\ handle' = "invalid" /\ inJob' = {}
      BY <1>2, <2>1 DEF Release, Terminated, WinInv, MakeInv, CloseInv
    <2>3. WinBox!FinishClose
      BY <2>2 DEF WinBox!FinishClose
    <2> QED BY <2>3 DEF WinBox!CNext
  <1>3. CASE AssignProcess(c) \/ AdoptProcess(c)
    <2>1. lock = c /\ ~closed
      BY <1>3, WinAssumption DEF AssignProcess, AdoptProcess, WinInv, LockInv, Callers
    <2>2. UNCHANGED <<closed, handle>> /\ inJob \subseteq inJob'
      BY <1>3 DEF AssignProcess, AdoptProcess
    <2> QED BY <2>1, <2>2, WinBoxMoves DEF Phase
  <1>4. CASE \/ StartEnters(c) \/ AdoptEnters(c) \/ (CloseEnters(c) /\ closed) \/ UserEnters(c)
             \/ Spawn(c) \/ AssignRefused(c) \/ ResumeProcess(c) \/ ResumeFails(c)
             \/ CleanUp(c) \/ WaitChild(c) \/ TakeHandle(c) \/ UseHandle(c) \/ ReadStats(c)
    <2>1. UNCHANGED <<closed, handle>> /\ inJob' \subseteq inJob
      BY <1>4
      DEF StartEnters, AdoptEnters, Enters, CloseEnters, UserEnters, Spawn, AssignRefused,
          ResumeProcess, ResumeFails, CleanUp, WaitChild, TakeHandle, UseHandle, ReadStats,
          Terminated
    <2> QED BY <2>1, WinBoxMoves
  <1> QED BY <1>1, <1>2, <1>3, <1>4 DEF Begin, Continue

\* Processes exit, and the child of a member enters the job with it; a reused handle value
\* is nothing to the container.
LEMMA WinBoxSystem ==
    ASSUME WinInv, WinInv', System
    PROVE  [WinBox!CNext]_(WinBox!cvars)
  <1> USE DEF systemOther, makeVars, groupVars, processVars
  <1>1. CASE Recycle
    BY <1>1, WinBoxMoves DEF Recycle
  <1>2. ASSUME NEW p \in Processes, Exits(p) PROVE [WinBox!CNext]_(WinBox!cvars)
    BY <1>2, WinBoxMoves DEF Exits, Terminated
  <1>3. ASSUME NEW p \in Processes, NEW k \in Children, SpawnsChild(p, k)
        PROVE  [WinBox!CNext]_(WinBox!cvars)
    <2>1. CASE p \in inJob
      <3>1. Phase # "closed"
        BY <2>1 DEF Phase, WinInv, WinTypeOK, MakeInv, CloseInv
      <3> QED BY <1>3, <2>1, <3>1, WinBoxMoves DEF SpawnsChild
    <2>2. CASE p \notin inJob
      BY <1>3, <2>2, WinBoxMoves DEF SpawnsChild
    <2> QED BY <2>1, <2>2
  <1> QED BY <1>1, <1>2, <1>3 DEF System

\* The Job Object and the calls of Group on it implement the kill-on-drop container.
THEOREM WinContainerCorrect == WinSpec => WinImplementsContainer
  <1>1. WinInit => WinBox!CInit
    BY DEF WinInit, WinBox!CInit
  <1>2. WinInv /\ WinInv' /\ [WinNext]_winVars => [WinBox!CNext]_(WinBox!cvars)
    <2> SUFFICES ASSUME WinInv, WinInv', [WinNext]_winVars PROVE [WinBox!CNext]_(WinBox!cvars)
      OBVIOUS
    <2>1. CASE UNCHANGED winVars
      BY <2>1, WinBoxMoves DEF winVars, handleVars, groupVars, processVars
    <2> QED BY <2>1, WinBoxMake, WinBoxCall, WinBoxSystem DEF WinNext
  <1> QED BY <1>1, <1>2, WinInvCorrect, PTL DEF WinSpec, WinImplementsContainer, WinBox!CSpec

-----------------------------------------------------------------------------
(* Both back ends *)

\* A build has one of the two back ends: each moves as its own module says, or not at all.
LEMMA EachBackEnd ==
    BackEndsSpec => (Init /\ [][Next]_vars) /\ WinSpec
  <1>1. BackEndsInit => Init /\ WinInit
    BY DEF BackEndsInit
  <1>2. [Linux \/ Windows]_allVars => [Next]_vars
    BY DEF Linux, Windows, allVars
  <1>3. [Linux \/ Windows]_allVars => [WinNext]_winVars
    BY DEF Linux, Windows, allVars
  <1> QED BY <1>1, <1>2, <1>3, PTL DEF BackEndsSpec, WinSpec

\* "Fails fast rather than hand back an uncapped tree" (job_linux.go:24-25), whichever
\* step of either newJob fails.
THEOREM CapsAreInForceCorrect == BackEndsSpec => []CapsAreInForce
  <1>1. NeverUncapped /\ WinNeverUncapped => CapsAreInForce
    BY DEF CapsAreInForce
  <1> QED BY <1>1, EachBackEnd, CgroupInvCorrect, CgroupInvImplies, WinNeverUncappedCorrect, PTL

\* Kill that returns nil and has read its verdict has left nobody who could fork on, and no
\* sweep of a frozen cgroup is outrun (job_linux.go:119-141, 187-191).
THEOREM KillIsHonestCorrect == BackEndsSpec => []KillIsHonest
  BY EachBackEnd, CgroupInvCorrect, CgroupInvImplies, PTL

\* The Windows half of the contract: the handle, the children, the container
\* (job_windows.go:58-64, 125-172, 242-251).
THEOREM WindowsCorrect ==
    BackEndsSpec => []HandleIsOwn /\ []RunsOnlyInJob /\ WinImplementsContainer
  BY EachBackEnd, HandleIsOwnCorrect, RunsOnlyInJobCorrect, WinContainerCorrect, PTL
=============================================================================
