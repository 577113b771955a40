-------------------------------- MODULE Group --------------------------------
(***************************************************************************)
(* A processkit Group: one OS container, the goroutines that call into it  *)
(* concurrently, and the processes in it (group.go, running.go, and what   *)
(* the three back ends of internal/sys do to processes).                   *)
(*                                                                         *)
(* A process of Starts is the direct child of one Group.Start call and     *)
(* also names the goroutine that makes the call and the handle it returns. *)
(* Kids are what those processes fork.  Exts were started outside the      *)
(* group and may be adopted.  A caller makes one teardown call: Close,     *)
(* Shutdown or Signal(SignalKill).                                         *)
(*                                                                         *)
(* The back ends differ in what contains a process.  In a process group    *)
(* (ProcessGroup) every started child leads a unit of its own and the job  *)
(* is a list of such units, plus lone adopted processes; a descendant that *)
(* calls setsid leaves.  A cgroup (CgroupV2) and a Job Object (JobObject)  *)
(* are one kernel unit, JobUnit, that nobody leaves.                       *)
(*                                                                         *)
(* A kill may fail.  A process of Privileged may come to run as another    *)
(* user, out of reach of a signal (EPERM, which a process group drops); on *)
(* a kernel without cgroup.kill the bounded sweep may leave any member; a  *)
(* TerminateJobObject may fail.  Close goes on to release the job, and     *)
(* spared is a history variable, read by the properties and by no action's *)
(* guard: whom the kill of Close was aimed at and left, and what those     *)
(* fork from then on.  "dead" is a process that SIGKILL is pending for,    *)
(* too: it runs no more.                                                   *)
(***************************************************************************)
EXTENDS Naturals, FiniteSets

CONSTANTS
    Starts,      \* Group.Start calls: the goroutine, its child and its handle
    Streaming,   \* the starts that pipe their output (StreamLines, OverflowBlock)
    Kids,        \* processes that members fork
    Daemons,     \* the kids that call setsid
    Exts,        \* processes started outside the group
    Privileged,  \* those of them all that may come to run as another user
    Callers,     \* goroutines that tear the group down
    Mechanisms,  \* what NewGroup may choose: "ProcessGroup", "CgroupV2", "JobObject"
    Suspendable, \* the mechanisms with which the program calls Suspend and Resume
    Free,        \* Group.mu is not held
    JobUnit,     \* the cgroup or the Job Object
    Outside,     \* a containment unit that is none of the group's
    NoProc       \* no root process

OSProcs == Starts \cup Kids \cup Exts
Units == OSProcs \cup {JobUnit, Outside}

\* What job.Kill and job.Signal are aimed at: a whole unit, or one process.
Targets == {"group", "solo"} \X (OSProcs \cup {JobUnit})

ASSUME GroupAssumption ==
    /\ Streaming \subseteq Starts
    /\ Daemons \subseteq Kids
    /\ Privileged \subseteq OSProcs
    /\ Starts \cap Kids = {} /\ Starts \cap Exts = {} /\ Kids \cap Exts = {}
    /\ Callers \cap Starts = {}
    /\ Free \notin Starts \cup Callers
    /\ JobUnit \notin OSProcs /\ Outside \notin OSProcs /\ JobUnit # Outside
    /\ NoProc \notin OSProcs
    /\ Mechanisms \subseteq {"ProcessGroup", "CgroupV2", "JobObject"}
    /\ Suspendable \subseteq Mechanisms

VARIABLES
    \* ---- Group ----
    mu,        \* who holds Group.mu across steps: Free or a start
    closed,    \* Group.closed
    procs,     \* Group.procs, the registered handles
    \* ---- the goroutines ----
    startPc,   \* where each Start call is
    callPc,    \* where each teardown call is
    op,        \* which call a caller makes
    snap,      \* the procs slice a caller copied under the lock
    todo,      \* what a caller's job.Kill has still to signal
    expired,   \* Shutdown calls whose grace timer fired or context ended
    \* ---- RunningProcess ----
    stop,      \* handles whose stop channel is closed
    done,      \* handles whose done channel is closed
    drain,     \* the drain goroutine of each handle
    ctxDone,   \* starts whose context is cancelled
    \* ---- sys.Job ----
    mechanism, \* what NewGroup chose, fixed from then on
    targets,   \* what the job tears down (pgids and solo, or the one unit)
    jobOpen,   \* job.Close has not run
    spared,    \* history: what the kill of Close left alive, and its progeny
    \* ---- the operating system ----
    status,    \* "none", "live" or "dead"
    unit,      \* the containment unit each process is in
    frozen,    \* stopped processes, and JobUnit when the cgroup is frozen
    root       \* the start or external process a kid descends from

groupVars == <<mu, closed, procs>>
callVars  == <<callPc, op, snap, todo, expired>>
procVars  == <<stop, done, drain, ctxDone>>
jobVars   == <<mechanism, targets, jobOpen, spared>>
osVars    == <<status, unit, frozen, root>>
vars == <<groupVars, startPc, callVars, procVars, jobVars, osVars>>

StartPcs == {"idle", "locked", "spawned", "cleanup", "registered", "started", "failed"}
CallPcs  == {"idle", "snapshot", "grace", "lock", "kill", "sweep", "stopping",
             "closed", "returned"}

TypeOK ==
    /\ mechanism \in Mechanisms
    /\ mu \in Starts \cup {Free}
    /\ closed \in BOOLEAN
    /\ procs \subseteq Starts
    /\ startPc \in [Starts -> StartPcs]
    /\ callPc \in [Callers -> CallPcs]
    /\ op \in [Callers -> {"none", "close", "shutdown", "kill"}]
    /\ snap \in [Callers -> SUBSET Starts]
    /\ todo \in [Callers -> SUBSET Targets]
    /\ expired \subseteq Callers
    /\ stop \subseteq Starts
    /\ done \subseteq Starts
    /\ drain \in [Starts -> {"none", "reading", "blocked", "eof"}]
    /\ ctxDone \subseteq Starts
    /\ targets \subseteq Targets
    /\ jobOpen \in BOOLEAN
    /\ spared \subseteq {p \in OSProcs : status[p] # "none"}
    /\ status \in [OSProcs -> {"none", "live", "dead"}]
    /\ unit \in [OSProcs -> Units]
    /\ frozen \subseteq OSProcs \cup {JobUnit}
    /\ root \in [Kids -> Starts \cup Exts \cup {NoProc}]

-----------------------------------------------------------------------------
(* The operating system's view *)

Live == {p \in OSProcs : status[p] = "live"}

\* The processes a signal aimed at t reaches.
Hit(t) == {p \in OSProcs : IF t[1] = "group" THEN unit[p] = t[2] ELSE p = t[2]}

Contained == {p \in OSProcs : \E t \in targets : p \in Hit(t)}

IsFrozen(p) == p \in frozen \/ unit[p] \in frozen

Runs(p) == status[p] = "live" /\ ~IsFrozen(p)

\* The processes that keep s's output open: s, and every descendant, each of which
\* inherited the pipes if there are any.
PipeHolders(s) == {s} \cup {k \in Kids : s \in Streaming /\ root[k] = s}

Kill(S) == status' = [p \in OSProcs |->
                        IF p \in S /\ status[p] = "live" THEN "dead" ELSE status[p]]

Init ==
    /\ mechanism \in Mechanisms
    /\ mu = Free
    /\ closed = FALSE
    /\ procs = {}
    /\ startPc = [s \in Starts |-> "idle"]
    /\ callPc = [c \in Callers |-> "idle"]
    /\ op = [c \in Callers |-> "none"]
    /\ snap = [c \in Callers |-> {}]
    /\ todo = [c \in Callers |-> {}]
    /\ expired = {}
    /\ stop = {}
    /\ done = {}
    /\ drain = [s \in Starts |-> "none"]
    /\ ctxDone = {}
    /\ targets = IF mechanism = "ProcessGroup" THEN {} ELSE {<<"group", JobUnit>>}
    /\ jobOpen = TRUE
    /\ spared = {}
    /\ status = [p \in OSProcs |-> IF p \in Exts THEN "live" ELSE "none"]
    /\ unit = [p \in OSProcs |-> Outside]
    /\ frozen = {}
    /\ root = [k \in Kids |-> NoProc]

-----------------------------------------------------------------------------
(* Group.Start.  Configure, spawn, Assign and the registration happen under *)
(* Group.mu; only the drains and the reaper are launched after the unlock.  *)

\* The operators named ...Mutant are wrong versions of the definition after them,
\* never used by the specification: each property is shown to refute one.
AdmitsMutant == TRUE            \* the closed test is forgotten
AdmitsUntilReleasedMutant == jobOpen

\* The closed test made with the lock held.
Admits == ~closed

StartLock(s) ==
    /\ startPc[s] = "idle"
    /\ mu = Free
    /\ IF Admits
       THEN mu' = s /\ startPc' = [startPc EXCEPT ![s] = "locked"]
       ELSE mu' = mu /\ startPc' = [startPc EXCEPT ![s] = "failed"]
    /\ UNCHANGED <<closed, procs, callVars, procVars, jobVars, osVars>>

\* An early return that forgets to unlock.
StartFailsMutant(s) ==
    /\ startPc[s] = "locked"
    /\ startPc' = [startPc EXCEPT ![s] = "failed"]
    /\ UNCHANGED <<groupVars, callVars, procVars, jobVars, osVars>>

\* Configure, preparePipes or exec's Start fails: nothing was spawned.
StartFails(s) ==
    /\ startPc[s] = "locked"
    /\ mu' = Free
    /\ startPc' = [startPc EXCEPT ![s] = "failed"]
    /\ UNCHANGED <<closed, procs, callVars, procVars, jobVars, osVars>>

\* Where the kernel puts the child: in a process group of its own (Setpgid), in
\* the cgroup (CLONE_INTO_CGROUP), or nowhere yet and suspended (CREATE_SUSPENDED).
SpawnUnit(s) == CASE mechanism = "ProcessGroup" -> s
                  [] mechanism = "CgroupV2"     -> JobUnit
                  [] mechanism = "JobObject"    -> Outside

Spawn(s) ==
    /\ startPc[s] = "locked"
    /\ startPc' = [startPc EXCEPT ![s] = "spawned"]
    /\ status' = [status EXCEPT ![s] = "live"]
    /\ unit' = [unit EXCEPT ![s] = SpawnUnit(s)]
    /\ frozen' = IF mechanism = "JobObject" THEN frozen \cup {s} ELSE frozen
    /\ UNCHANGED <<groupVars, callVars, procVars, jobVars, root>>

AssignedMutant(s) == {}

\* What Assign adds to the job's list: the child's process group.
Assigned(s) == IF mechanism = "ProcessGroup" THEN {<<"group", s>>} ELSE {}

\* exec's Start returns once the child has called execve.  A child cloned into a
\* frozen cgroup does not get that far until it is thawed or killed.
SpawnReturns(s) == JobUnit \notin frozen \/ status[s] = "dead"

\* Assign succeeds; the handle is appended to procs and the lock released.
Register(s) ==
    /\ startPc[s] = "spawned"
    /\ SpawnReturns(s)
    /\ targets' = targets \cup Assigned(s)
    /\ unit' = IF mechanism = "JobObject" THEN [unit EXCEPT ![s] = JobUnit] ELSE unit
    /\ frozen' = frozen \ {s}
    /\ procs' = procs \cup {s}
    /\ mu' = Free
    /\ startPc' = [startPc EXCEPT ![s] = "registered"]
    /\ UNCHANGED <<closed, callVars, procVars, mechanism, jobOpen, spared, status, root>>

\* Assign fails.  Only the Job Object's can: it terminates the child, still
\* suspended, if TerminateProcess works, and Start gives the lock up.
AssignFails(s) ==
    /\ mechanism = "JobObject"
    /\ startPc[s] = "spawned"
    /\ Kill({s}) \/ UNCHANGED status
    /\ mu' = Free
    /\ startPc' = [startPc EXCEPT ![s] = "cleanup"]
    /\ UNCHANGED <<closed, procs, callVars, procVars, jobVars, unit, frozen, root>>

\* Then Process.Kill and Process.Wait, without the lock.
CleanUp(s) ==
    /\ startPc[s] = "cleanup"
    /\ Kill({s})
    /\ startPc' = [startPc EXCEPT ![s] = "failed"]
    /\ UNCHANGED <<groupVars, callVars, procVars, jobVars, unit, frozen, root>>

\* launchDrains, then the reaper goroutine; Start returns the handle.
Launch(s) ==
    /\ startPc[s] = "registered"
    /\ drain' = [drain EXCEPT ![s] = IF s \in Streaming THEN "reading" ELSE "eof"]
    /\ startPc' = [startPc EXCEPT ![s] = "started"]
    /\ UNCHANGED <<groupVars, callVars, stop, done, ctxDone, jobVars, osVars>>

StartStep(s) == StartLock(s) \/ StartFails(s) \/ Spawn(s) \/ Register(s)
                \/ AssignFails(s) \/ CleanUp(s) \/ Launch(s)

-----------------------------------------------------------------------------
(* The goroutines of a handle.  Non-streaming handles have no drain: theirs *)
(* is at "eof" from the launch on.                                          *)

\* A line has been read, the Lines channel is full and its consumer is away.
DrainBlocks(s) ==
    /\ drain[s] = "reading"
    /\ s \notin stop \cup ctxDone
    /\ drain' = [drain EXCEPT ![s] = "blocked"]
    /\ UNCHANGED <<groupVars, startPc, callVars, stop, done, ctxDone, jobVars, osVars>>

\* The consumer comes back and takes a line.
ConsumerReceives(s) ==
    /\ drain[s] = "blocked"
    /\ drain' = [drain EXCEPT ![s] = "reading"]
    /\ UNCHANGED <<groupVars, startPc, callVars, stop, done, ctxDone, jobVars, osVars>>

SendReleasedByCtxMutant(s) == s \in ctxDone
SendReleasedByStopMutant(s) == s \in stop

\* emit's select leaves by stop or by the cancelled start context.
SendReleased(s) == s \in stop \cup ctxDone

DrainReleased(s) ==
    /\ drain[s] = "blocked"
    /\ SendReleased(s)
    /\ drain' = [drain EXCEPT ![s] = "reading"]
    /\ UNCHANGED <<groupVars, startPc, callVars, stop, done, ctxDone, jobVars, osVars>>

DrainEOF(s) ==
    /\ drain[s] = "reading"
    /\ PipeHolders(s) \cap Live = {}
    /\ drain' = [drain EXCEPT ![s] = "eof"]
    /\ UNCHANGED <<groupVars, startPc, callVars, stop, done, ctxDone, jobVars, osVars>>

\* reap: the drains are over, cmd.Wait returns, Lines and done are closed.
Reap(s) ==
    /\ startPc[s] = "started"
    /\ drain[s] = "eof"
    /\ status[s] = "dead"
    /\ s \notin done
    /\ done' = done \cup {s}
    /\ UNCHANGED <<groupVars, startPc, callVars, stop, drain, ctxDone, jobVars, osVars>>

\* The start context ends; exec's watcher then kills the direct child.  Ending
\* before the spawn is a StartFails, ending after the reaping has no effect.
CtxCancel(s) ==
    /\ s \in procs \ done
    /\ s \notin ctxDone
    /\ ctxDone' = ctxDone \cup {s}
    /\ UNCHANGED <<groupVars, startPc, callVars, stop, done, drain, jobVars, osVars>>

CtxKill(s) ==
    /\ s \in ctxDone
    /\ s \in Live
    /\ Kill({s})
    /\ UNCHANGED <<groupVars, startPc, callVars, procVars, jobVars, unit, frozen, root>>

\* RunningProcess.Kill, on a handle Start returned or Processes listed.  Process.Kill
\* may be refused.
HandleKill(s) ==
    /\ s \in procs
    /\ s \notin done
    /\ stop' = stop \cup {s}
    /\ Kill({s}) \/ (s \in Privileged /\ UNCHANGED status)
    /\ UNCHANGED <<groupVars, startPc, callVars, done, drain, ctxDone, jobVars,
                   unit, frozen, root>>

HandleStep(s) == DrainBlocks(s) \/ ConsumerReceives(s) \/ DrainReleased(s)
                 \/ DrainEOF(s) \/ Reap(s) \/ CtxCancel(s) \/ CtxKill(s) \/ HandleKill(s)

-----------------------------------------------------------------------------
(* Teardown calls.  pc "closed" is the Close that found the group open; a   *)
(* later Close, and Signal(SignalKill), end at "returned".                  *)

Goto(c, pc) == callPc' = [callPc EXCEPT ![c] = pc]

CallClose(c) ==
    /\ callPc[c] = "idle"
    /\ op' = [op EXCEPT ![c] = "close"]
    /\ Goto(c, "lock")
    /\ UNCHANGED <<groupVars, startPc, snap, todo, expired, procVars, jobVars, osVars>>

\* Shutdown sends SIGTERM; where there is no signal tier it goes on to Close.
\* What the signal does to a member is a later Exit of that member.
CallShutdown(c) ==
    /\ callPc[c] = "idle"
    /\ op' = [op EXCEPT ![c] = "shutdown"]
    /\ Goto(c, IF mechanism = "JobObject" THEN "lock" ELSE "snapshot")
    /\ UNCHANGED <<groupVars, startPc, snap, todo, expired, procVars, jobVars, osVars>>

\* Signal(SignalKill) is job.Kill, without Group.mu.
CallSignalKill(c) ==
    /\ callPc[c] = "idle"
    /\ op' = [op EXCEPT ![c] = "kill"]
    /\ Goto(c, "kill")
    /\ UNCHANGED <<groupVars, startPc, snap, todo, expired, procVars, jobVars, osVars>>

\* waitGrace copies procs under the lock, then arms the timer.
GraceSnapshot(c) ==
    /\ callPc[c] = "snapshot"
    /\ mu = Free
    /\ snap' = [snap EXCEPT ![c] = procs]
    /\ Goto(c, "grace")
    /\ UNCHANGED <<groupVars, startPc, op, todo, expired, procVars, jobVars, osVars>>

GraceExpires(c) ==
    /\ callPc[c] = "grace"
    /\ c \notin expired
    /\ expired' = expired \cup {c}
    /\ UNCHANGED <<groupVars, startPc, callPc, op, snap, todo, procVars, jobVars, osVars>>

\* The timer and the context end the wait.
GraceCut(c) == c \in expired

\* waitGrace watches the handles it copied and nothing else, and stops the timer.
GraceOver(c) ==
    /\ callPc[c] = "grace"
    /\ snap[c] \subseteq done \/ GraceCut(c)
    /\ expired' = expired \ {c}
    /\ Goto(c, "lock")
    /\ UNCHANGED <<groupVars, startPc, op, snap, todo, procVars, jobVars, osVars>>

\* Shutdown's own copy is used again.
HandlesToStopMutant(c) == IF op[c] = "shutdown" THEN snap[c] ELSE procs

\* The handles Close will stop: procs as it is when closed is set.
HandlesToStop(c) == procs

CloseLock(c) ==
    /\ callPc[c] = "lock"
    /\ mu = Free
    /\ IF closed
       THEN /\ Goto(c, "returned")
            /\ UNCHANGED <<closed, snap>>
       ELSE /\ closed' = TRUE
            /\ snap' = [snap EXCEPT ![c] = HandlesToStop(c)]
            /\ Goto(c, "kill")
    /\ UNCHANGED <<mu, procs, startPc, op, todo, expired, procVars, jobVars, osVars>>

KillListMutant == {t \in targets : t[1] = "group"}

\* job.Kill copies the list of targets, then signals them one after the other.
KillList == targets

KillSnapshot(c) ==
    /\ callPc[c] = "kill"
    /\ todo' = [todo EXCEPT ![c] = KillList]
    /\ Goto(c, "sweep")
    /\ UNCHANGED <<groupVars, startPc, op, snap, expired, procVars, jobVars, osVars>>

\* What a kill aimed at t may leave alive: processes that run as another user; what
\* the sweep without cgroup.kill did not find, was refused or was outrun by;
\* everything, when TerminateJobObject fails.
Leftovers(t) == CASE mechanism = "ProcessGroup" -> SUBSET (Hit(t) \cap Live \cap Privileged)
                  [] mechanism = "CgroupV2"     -> SUBSET (Hit(t) \cap Live)
                  [] mechanism = "JobObject"    -> {{}, Hit(t) \cap Live}

\* The sweep without cgroup.kill freezes and thaws, and drops the errors of both.
FrozenAfterKill == IF mechanism = "CgroupV2"
                   THEN {frozen, frozen \ {JobUnit}, frozen \cup {JobUnit}}
                   ELSE {frozen}

KillOne(c, t) ==
    /\ callPc[c] = "sweep"
    /\ t \in todo[c]
    /\ \E left \in Leftovers(t) :
          /\ Kill(Hit(t) \ left)
          /\ spared' = IF op[c] = "kill" \/ mechanism = "JobObject" THEN spared
                                                                ELSE spared \cup left
    /\ frozen' \in FrozenAfterKill
    /\ todo' = [todo EXCEPT ![c] = @ \ {t}]
    /\ UNCHANGED <<groupVars, startPc, callPc, op, snap, expired, procVars, mechanism,
                   targets, jobOpen, unit, root>>

SignalKillReturns(c) ==
    /\ op[c] = "kill"
    /\ callPc[c] = "sweep"
    /\ todo[c] = {}
    /\ Goto(c, "returned")
    /\ UNCHANGED <<groupVars, startPc, op, snap, todo, expired, procVars, jobVars, osVars>>

KillReturnedMutant(c) == callPc[c] = "sweep"

\* job.Kill has signalled every target, and Close goes on whatever came of it.
KillReturned(c) == callPc[c] = "sweep" /\ todo[c] = {}

\* job.Close.  Closing the last handle of a Job Object ends what is left in it; a
\* process group has nothing to release, and a cgroup with survivors stays.
ReleaseJob(c) ==
    /\ op[c] # "kill"
    /\ KillReturned(c)
    /\ jobOpen' = FALSE
    /\ IF mechanism = "JobObject" THEN Kill(Contained) ELSE UNCHANGED status
    /\ Goto(c, "stopping")
    /\ UNCHANGED <<groupVars, startPc, op, snap, todo, expired, procVars, mechanism,
                   targets, spared, unit, frozen, root>>

StopOne(c, s) ==
    /\ callPc[c] = "stopping"
    /\ s \in snap[c]
    /\ stop' = stop \cup {s}
    /\ snap' = [snap EXCEPT ![c] = @ \ {s}]
    /\ UNCHANGED <<groupVars, startPc, callPc, op, todo, expired, done, drain, ctxDone,
                   jobVars, osVars>>

CloseReturns(c) ==
    /\ callPc[c] = "stopping"
    /\ snap[c] = {}
    /\ Goto(c, "closed")
    /\ UNCHANGED <<groupVars, startPc, op, snap, todo, expired, procVars, jobVars, osVars>>

Call(c) == CallClose(c) \/ CallShutdown(c) \/ CallSignalKill(c)

CallStep(c) ==
    \/ GraceSnapshot(c) \/ GraceExpires(c) \/ GraceOver(c)
    \/ CloseLock(c) \/ KillSnapshot(c) \/ (\E t \in Targets : KillOne(c, t))
    \/ SignalKillReturns(c) \/ ReleaseJob(c)
    \/ (\E s \in Starts : StopOne(c, s)) \/ CloseReturns(c)

-----------------------------------------------------------------------------
(* Calls that change only the container, and the processes themselves *)

\* Group.Adopt, under Group.mu.  A process group takes the process as a leader if
\* setpgid works and alone otherwise; the kernel containers move it in.
Adopt(e) ==
    /\ mu = Free
    /\ Admits
    /\ IF mechanism = "ProcessGroup"
       THEN \/ /\ e \in Live
               /\ unit' = [unit EXCEPT ![e] = e]
               /\ targets' = targets \cup {<<"group", e>>}
            \/ /\ targets' = targets \cup {<<"solo", e>>}
               /\ UNCHANGED unit
       ELSE /\ e \in Live
            /\ unit' = [unit EXCEPT ![e] = JobUnit]
            /\ UNCHANGED targets
    /\ UNCHANGED <<groupVars, startPc, callVars, procVars, mechanism, jobOpen, spared,
                   status, frozen, root>>

\* Neither call looks at closed or takes a lock: after Close they act on survivors.
Suspends == mechanism \in Suspendable /\ (jobOpen \/ Contained \cap Live # {})

\* SIGSTOP to every member, or the cgroup freezer: the freezer holds newcomers too.
Suspend ==
    /\ Suspends
    /\ \E missed \in SUBSET Privileged :
          frozen' = CASE mechanism = "ProcessGroup" -> frozen \cup ((Contained \cap Live) \ missed)
                      [] mechanism = "CgroupV2"     -> frozen \cup {JobUnit}
                      [] mechanism = "JobObject"    -> frozen    \* ErrUnsupported
    /\ UNCHANGED <<groupVars, startPc, callVars, procVars, jobVars, status, unit, root>>

Resume ==
    /\ Suspends
    /\ \E missed \in SUBSET Privileged :
          frozen' = CASE mechanism = "ProcessGroup" -> frozen \ (Contained \ missed)
                      [] mechanism = "CgroupV2"     -> frozen \ {JobUnit}
                      [] mechanism = "JobObject"    -> frozen
    /\ UNCHANGED <<groupVars, startPc, callVars, procVars, jobVars, status, unit, root>>

Exit(p) ==
    /\ Runs(p)
    /\ Kill({p})
    /\ UNCHANGED <<groupVars, startPc, callVars, procVars, jobVars, unit, frozen, root>>

Fork(q, k) ==
    /\ Runs(q)
    /\ status[k] = "none"
    /\ status' = [status EXCEPT ![k] = "live"]
    /\ unit' = [unit EXCEPT ![k] = unit[q]]
    /\ root' = [root EXCEPT ![k] = IF q \in Kids THEN root[q] ELSE q]
    /\ spared' = IF q \in spared THEN spared \cup {k} ELSE spared
    /\ UNCHANGED <<groupVars, startPc, callVars, procVars, mechanism, targets, jobOpen,
                   frozen>>

\* setsid takes a descendant out of a process group.
Setsid(k) ==
    /\ k \in Daemons
    /\ mechanism = "ProcessGroup"
    /\ Runs(k)
    /\ unit[k] # Outside
    /\ unit' = [unit EXCEPT ![k] = Outside]
    /\ UNCHANGED <<groupVars, startPc, callVars, procVars, jobVars, status, frozen, root>>

OSStep ==
    \/ \E p \in OSProcs : Exit(p)
    \/ \E q \in OSProcs, k \in Kids : Fork(q, k)
    \/ \E k \in Kids : Setsid(k)

Next ==
    \/ \E s \in Starts : StartStep(s) \/ HandleStep(s)
    \/ \E c \in Callers : Call(c) \/ CallStep(c)
    \/ \E e \in Exts : Adopt(e)
    \/ Suspend \/ Resume
    \/ OSStep

\* The goroutines run: a Start that has taken the lock, a teardown call that was
\* made, the drains, the reaper, exec's context watcher (whose one kill may be refused
\* by a privileged child) and the grace timer.
\* Nobody promises that a program makes a call, that a consumer reads its lines,
\* or that a process exits by itself.
Fairness ==
    /\ \A s \in Starts :
        /\ WF_vars(startPc[s] = "locked" /\ StartStep(s))
        /\ WF_vars(Register(s) \/ AssignFails(s))
        /\ WF_vars(CleanUp(s)) /\ WF_vars(Launch(s))
        /\ WF_vars(DrainReleased(s)) /\ WF_vars(DrainEOF(s))
        /\ WF_vars(Reap(s))
    /\ \A s \in Starts \ Privileged : WF_vars(CtxKill(s))
    /\ \A c \in Callers : WF_vars(CallStep(c))

Spec == Init /\ [][Next]_vars
FairSpec == Spec /\ Fairness

-----------------------------------------------------------------------------
(* Safety *)

\* The processes that Close answers for: what the job contains, and the children of
\* Start but for one that a failed Start has not cleaned up yet.
Answerable == Contained \cup {s \in Starts : startPc[s] # "cleanup"}

\* No live process escapes the teardown: once Close has released the job, all that is
\* alive of what it contains or what Start spawned is what the kill was aimed at and
\* could not end, and its progeny; and a Job Object leaves not even that.  Whatever was
\* being started, adopted, forked, frozen or killed when Close was called (group.go, the
\* comment on the lock in Start, and Close).
NoOrphan ==
    ~jobOpen => /\ Answerable \cap Live \subseteq spared
                /\ mechanism = "JobObject" => Answerable \cap Live = {}

\* Start either is seen by Close or sees it: no child is spawned once closed is
\* set, although Close sets it and returns without waiting for idle Starts.
NoSpawnOnceClosed ==
    [][closed => \A s \in Starts : status[s] = "none" => status'[s] = "none"]_vars

\* Configure, Assign and Adopt, which use the job's descriptor or handle, never
\* run on a job that Close has released, nor between Kill and Close.
JobOpenWhileStarting ==
    (\E s \in Starts : startPc[s] \in {"locked", "spawned"}) => jobOpen /\ ~closed

\* A registered process that is alive can be reached by a kill: it is in the
\* job's containment from the moment its handle is visible.
HandlesAreContained == procs \cap Live \subseteq Contained

\* The Close that tore the group down stopped every handle ever registered, also
\* one whose Start was under way when a Shutdown took its own copy of procs.
EveryHandleStopped ==
    (\E c \in Callers : callPc[c] = "closed") => procs \subseteq stop

\* Close as the abstract container.
Box == INSTANCE Container WITH
         Direct   <- Starts \cup Exts,
         Indirect <- Kids,
         members  <- Contained \cap Live,
         spared   <- spared \cap Contained \cap Live,
         phase    <- IF ~closed THEN "open" ELSE IF jobOpen THEN "closing" ELSE "closed"

\* The group implements the kill-on-drop container.
ImplementsContainer == Box!CSpec

-----------------------------------------------------------------------------
(* Why it is safe: the inductive invariant of GroupProofs *)

\* Between the closed test and the registration a start holds the lock, and as
\* long as anybody holds the lock the group is open; the job outlives that.
LockInv ==
    /\ \A s \in Starts : startPc[s] \in {"locked", "spawned"} => mu = s
    /\ mu # Free => ~closed
    /\ ~jobOpen => closed

\* A live child is under way in the locked section or registered, and a
\* registered one is in a unit that the job tears down.
HandleInv ==
    \A s \in Starts :
        /\ s \in Live => startPc[s] \in {"spawned", "cleanup", "registered", "started"}
        /\ s \in procs <=> startPc[s] \in {"registered", "started"}
        /\ startPc[s] = "spawned" => unit[s] = SpawnUnit(s)
        /\ s \in procs => <<"group", unit[s]>> \in targets

TargetInv ==
    /\ mechanism # "ProcessGroup" => <<"group", JobUnit>> \in targets
    /\ \A t \in targets : t[1] = "solo" => t[2] \in Exts

\* The caller that set closed and has not returned yet.
Closing(c) == callPc[c] \in {"kill", "sweep", "stopping"} /\ op[c] # "kill"

\* All that lives in a target that this caller has dealt with is spared, and after the
\* release in any target.  A Job Object, which the release empties, spares nobody.
SweepInv ==
    /\ \A c \in Callers : Closing(c) => closed
    /\ ~closed \/ mechanism = "JobObject" => spared = {}
    /\ \A c \in Callers, t \in targets :
          mechanism # "JobObject" /\ Closing(c) /\ callPc[c] = "sweep" /\ t \notin todo[c]
             => Hit(t) \cap Live \subseteq spared
    /\ \A t \in targets : ~jobOpen => Hit(t) \cap Live \subseteq spared

\* A handle that is registered has been stopped or is on the closer's list.
StopInv ==
    \A c \in Callers :
        /\ Closing(c) => procs \subseteq stop \cup snap[c]
        /\ callPc[c] \in {"stopping", "closed"} => closed
        /\ callPc[c] = "stopping" => op[c] # "kill"
        /\ callPc[c] = "closed" => procs \subseteq stop

Inv == TypeOK /\ LockInv /\ HandleInv /\ TargetInv /\ SweepInv /\ StopInv

-----------------------------------------------------------------------------
(* Liveness *)

\* Every teardown call returns, in spite of Starts that hold the lock, a Lines
\* channel nobody reads, members that ignore SIGTERM and kills that fail; unless a
\* sweep whose thaw failed has left the cgroup frozen, and with it a Start's child.
CallsReturn ==
    \A c \in Callers :
        callPc[c] # "idle" ~> callPc[c] \in {"closed", "returned"} \/ JobUnit \in frozen

\* Close leaks neither the drain nor the reaper (group.go:337-338): after it every
\* registered handle is done, also one whose drain was blocked on a full channel, unless
\* a process that the kill spared, or that had left the group, keeps its output open.
ReapedOnceClosed ==
    \A s \in Starts :
        closed /\ s \in procs
            ~> \/ s \in done
               \/ \E p \in PipeHolders(s) \cap Live : p \in spared \/ p \notin Contained

\* RunningProcess.Kill, or the end of the start context, is enough for a handle to
\* be done without any Close, unless the signal is refused, the handle was stopped by
\* a Close that spared its child, or a descendant lives on with its output pipe.
KilledHandleIsDone ==
    \A s \in Starts :
        s \in procs /\ s \in stop \cup ctxDone
            ~> \/ s \in done
               \/ s \in Live /\ s \in Privileged \cup spared
               \/ \E k \in Kids \cap Live : k \in PipeHolders(s)

-----------------------------------------------------------------------------
(* What the documentation says and the code does not do *)

\* "A suspended group is still killed by Group.Close" (group.go:272): also when
\* it stays suspended.
SuspendedGroupIsClosed ==
    \A c \in Callers :
        <>[](JobUnit \in frozen)
            => (callPc[c] = "lock" ~> callPc[c] \in {"closed", "returned"})
=============================================================================
