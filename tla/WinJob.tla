------------------------------- MODULE WinJob -------------------------------
(***************************************************************************)
(* The Windows back end (internal/sys/job_windows.go) under the calls that *)
(* Group makes: a Job Object behind a handle that Close gives back to the  *)
(* kernel, which may give the same value to somebody else; children that   *)
(* are created suspended, assigned and then resumed, with a failure at any *)
(* of these steps; and Signal(SignalKill) and Stats, which Group calls     *)
(* without its lock.                                                       *)
(*                                                                         *)
(* Each caller makes one call.  A Start is also the child it creates, an   *)
(* Adopt the external process that it is given.                            *)
(***************************************************************************)
CONSTANTS Starters,  \* calls of Group.Start
          Adopters,  \* calls of Group.Adopt
          Closers,   \* calls of Group.Close, or of Shutdown, which comes to the same
          Users,     \* calls of Group.Signal(SignalKill) and of Group.Stats
          Children,  \* processes that the processes in the job spawn
          Nobody

ASSUME WinAssumption ==
    /\ Nobody \notin Starters \cup Adopters \cup Closers \cup Users
    /\ Starters \cap (Adopters \cup Closers \cup Users \cup Children) = {}
    /\ Adopters \cap (Closers \cup Users \cup Children) = {}
    /\ Closers \cap Users = {}

Callers == Starters \cup Adopters \cup Closers \cup Users
Processes == Starters \cup Adopters \cup Children

VARIABLES
    wanted,   \* the caps that Limits asks for
    limits,   \* what SetInformationJobObject has put on the job
    object,   \* what the handle value names: "nothing", "ownJob" or "another"
    handle,   \* winJob.handle: "unset", "set" or "invalid"
    making,   \* where newJob is
    lock,     \* who holds Group.mu
    closed,   \* Group.closed
    call,     \* where each caller is
    process,  \* "none", "suspended", "running" or "dead"
    inJob     \* the live processes in the job

makeVars == <<wanted, limits, making>>
handleVars == <<object, handle>>
groupVars == <<lock, closed>>
processVars == <<process, inJob>>
winVars == <<makeVars, handleVars, groupVars, call, processVars>>

\* The cap on processes travels with the one on memory.
Caps == {"memory", "cpu"}

\* What the extended-limit class carries, with the kill on close.
Extended == {"memory"}

WinTypeOK ==
    /\ wanted \subseteq Caps /\ limits \subseteq wanted \cup {"killOnClose"}
    /\ object \in {"nothing", "ownJob", "another"}
    /\ handle \in {"unset", "set", "invalid"}
    /\ making \in {"create", "extended", "cpu", "made", "failed"}
    /\ lock \in Callers \cup {Nobody} /\ closed \in BOOLEAN
    /\ call \in [Callers -> {"idle", "spawn", "assign", "resume", "cleanup", "wait", "adopt",
                             "take", "use", "release", "failed", "returned"}]
    /\ process \in [Processes -> {"none", "suspended", "running", "dead"}]
    /\ inJob \subseteq {p \in Processes : process[p] \in {"suspended", "running"}}

\* An external process runs before it is adopted.
WinInit ==
    /\ wanted \in SUBSET Caps /\ limits = {} /\ making = "create"
    /\ object = "nothing" /\ handle = "unset"
    /\ lock = Nobody /\ closed = FALSE
    /\ call = [c \in Callers |-> "idle"]
    /\ process = [p \in Processes |-> IF p \in Adopters THEN "running" ELSE "none"]
    /\ inJob = {}

-----------------------------------------------------------------------------
(* newJob *)

makeOther == <<wanted, handle, groupVars, call, processVars>>

MakeFails ==
    /\ making \in {"create", "extended", "cpu"}
    /\ making' = "failed"
    /\ object' = "nothing"                \* CloseHandle, or nothing made yet
    /\ UNCHANGED <<makeOther, limits>>

CreateJobObject ==
    /\ making = "create" /\ making' = "extended"
    /\ object' = "ownJob"
    /\ UNCHANGED <<makeOther, limits>>

Made(next) ==
    /\ making' = next
    /\ handle' = IF next = "made" THEN "set" ELSE handle
    /\ UNCHANGED <<wanted, object, groupVars, call, processVars>>

\* The mutant sets the flags of the caps in place of the kill on close.
SetExtendedMutant ==
    /\ making = "extended"
    /\ limits' = wanted \cap Extended
    /\ Made(IF "cpu" \in wanted THEN "cpu" ELSE "made")
SetExtended ==
    /\ making = "extended"
    /\ limits' = {"killOnClose"} \cup (wanted \cap Extended)
    /\ Made(IF "cpu" \in wanted THEN "cpu" ELSE "made")

\* The mutant drops the error of the second class.
SetCpuRateMutant ==
    /\ making = "cpu"
    /\ UNCHANGED limits
    /\ Made("made")
SetCpuRate ==
    /\ making = "cpu"
    /\ limits' = limits \cup {"cpu"}
    /\ Made("made")

-----------------------------------------------------------------------------
(* Group.Start: Configure, spawn, Assign and registration under Group.mu *)

To(c, place) == call' = [call EXCEPT ![c] = place]
Becomes(p, state) == process' = [process EXCEPT ![p] = state]
Terminated(S) ==
    /\ process' = [p \in Processes |-> IF p \in S THEN "dead" ELSE process[p]]
    /\ inJob' = inJob \ S

\* A closed group refuses the call; else the caller leaves with the lock.
Enters(c, place) ==
    /\ making = "made" /\ call[c] = "idle" /\ lock = Nobody
    /\ IF closed THEN To(c, "failed") /\ UNCHANGED lock ELSE To(c, place) /\ lock' = c
    /\ UNCHANGED <<makeVars, handleVars, closed, processVars>>

Unlock == lock' = Nobody

StartEnters(s) == s \in Starters /\ Enters(s, "spawn")

\* The mutant does not set the creation flag.
SpawnMutant(s) ==
    /\ s \in Starters /\ call[s] = "spawn"
    /\ \/ Becomes(s, "running") /\ To(s, "assign") /\ UNCHANGED lock
       \/ To(s, "failed") /\ UNCHANGED process /\ Unlock
    /\ UNCHANGED <<makeVars, handleVars, closed, inJob>>
\* CREATE_SUSPENDED, of Configure.
Spawn(s) ==
    /\ s \in Starters /\ call[s] = "spawn"
    /\ \/ Becomes(s, "suspended") /\ To(s, "assign") /\ UNCHANGED lock
       \/ To(s, "failed") /\ UNCHANGED process /\ Unlock
    /\ UNCHANGED <<makeVars, handleVars, closed, inJob>>

AssignProcess(s) ==
    /\ s \in Starters /\ call[s] = "assign"
    /\ process[s] = "suspended"
    /\ inJob' = inJob \cup {s}
    /\ To(s, "resume")
    /\ UNCHANGED <<makeVars, handleVars, groupVars, process>>

\* OpenProcess or AssignProcessToJobObject fails: the guard terminates the child, if
\* it can open it.
AssignRefused(s) ==
    /\ s \in Starters /\ call[s] = "assign"
    /\ Becomes(s, "dead") \/ UNCHANGED process
    /\ To(s, "cleanup") /\ Unlock
    /\ UNCHANGED <<makeVars, handleVars, closed, inJob>>

ResumeProcess(s) ==
    /\ s \in Starters /\ call[s] = "resume"
    /\ IF process[s] = "suspended" THEN Becomes(s, "running") ELSE UNCHANGED process
    /\ To(s, "returned") /\ Unlock
    /\ UNCHANGED <<makeVars, handleVars, closed, inJob>>

\* TerminateProcess, whose error is dropped.
ResumeFails(s) ==
    /\ s \in Starters /\ call[s] = "resume"
    /\ Terminated({s}) \/ UNCHANGED processVars
    /\ To(s, "cleanup") /\ Unlock
    /\ UNCHANGED <<makeVars, handleVars, closed>>

\* Process.Kill and Wait on the handle that CreateProcess gave.
CleanUp(s) ==
    /\ s \in Starters /\ call[s] = "cleanup"
    /\ Terminated({s})
    /\ To(s, "wait")
    /\ UNCHANGED <<makeVars, handleVars, groupVars>>

WaitChild(s) ==
    /\ s \in Starters /\ call[s] = "wait"
    /\ process[s] = "dead"
    /\ To(s, "failed")
    /\ UNCHANGED <<makeVars, handleVars, groupVars, processVars>>

-----------------------------------------------------------------------------
(* Group.Adopt *)

AdoptEnters(a) == a \in Adopters /\ Enters(a, "adopt")

\* A process that has exited is a success and joins nothing.
AdoptProcess(a) ==
    /\ a \in Adopters /\ call[a] = "adopt"
    /\ \/ To(a, "returned") /\ inJob' = inJob \cup {p \in {a} : process[p] = "running"}
       \/ To(a, "failed") /\ UNCHANGED inJob
    /\ Unlock
    /\ UNCHANGED <<makeVars, handleVars, closed, process>>

-----------------------------------------------------------------------------
(* Group.Close: Kill and Close of the job, without Group.mu.  Signal(SignalKill)    *)
(* calls the same Kill, and Stats takes the handle in the same way.                 *)

CloseEnters(c) ==
    /\ c \in Closers /\ making = "made" /\ call[c] = "idle" /\ lock = Nobody
    /\ closed' = TRUE
    /\ To(c, IF closed THEN "returned" ELSE "take")
    /\ UNCHANGED <<makeVars, handleVars, lock, processVars>>

UserEnters(u) ==
    /\ u \in Users /\ making = "made" /\ call[u] = "idle"
    /\ To(u, "take")
    /\ UNCHANGED <<makeVars, handleVars, groupVars, processVars>>

\* The copy of the handle under winJob.mu; the use comes after the unlock.
TakeHandle(c) ==
    /\ call[c] = "take"
    /\ To(c, IF handle = "set" THEN "use" ELSE "returned")
    /\ UNCHANGED <<makeVars, handleVars, groupVars, processVars>>

\* TerminateJobObject may fail.  A value that names nothing is an error, one that names
\* another job ends the processes of that one.
UseHandle(c) ==
    /\ call[c] = "use"
    /\ \/ object = "ownJob" /\ Terminated(inJob)
       \/ UNCHANGED processVars
    /\ To(c, IF c \in Closers THEN "release" ELSE "returned")
    /\ UNCHANGED <<makeVars, handleVars, groupVars>>

\* Two queries, or the zero snapshot of a value that TakeHandle found invalid.
ReadStats(u) ==
    /\ u \in Users /\ call[u] = "use"
    /\ To(u, "returned")
    /\ UNCHANGED <<makeVars, handleVars, groupVars, processVars>>

\* The mutant forgets that the value is no longer its own.
ReleaseMutant(c) ==
    /\ call[c] = "release"
    /\ object' = "nothing" /\ UNCHANGED handle
    /\ IF "killOnClose" \in limits THEN Terminated(inJob) ELSE UNCHANGED processVars
    /\ To(c, "returned")
    /\ UNCHANGED <<makeVars, groupVars>>
\* CloseHandle of the last handle ends what is left in the job.
Release(c) ==
    /\ call[c] = "release"
    /\ object' = "nothing" /\ handle' = "invalid"
    /\ IF "killOnClose" \in limits THEN Terminated(inJob) ELSE UNCHANGED processVars
    /\ To(c, "returned")
    /\ UNCHANGED <<makeVars, groupVars>>

-----------------------------------------------------------------------------
(* Windows *)

systemOther == <<makeVars, handle, groupVars, call>>

\* Another CreateJobObject of the program is given the value.
Recycle ==
    /\ handle # "unset" /\ object = "nothing"
    /\ object' = "another"
    /\ UNCHANGED <<systemOther, processVars>>

\* A child is born where its parent is.
SpawnsChild(p, k) ==
    /\ process[p] = "running" /\ k \in Children /\ process[k] = "none"
    /\ Becomes(k, "running")
    /\ inJob' = IF p \in inJob THEN inJob \cup {k} ELSE inJob
    /\ UNCHANGED <<systemOther, object>>

\* By itself or by somebody else, exec's context watcher among them.
Exits(p) ==
    /\ process[p] \in {"suspended", "running"}
    /\ Terminated({p})
    /\ UNCHANGED <<systemOther, object>>

-----------------------------------------------------------------------------

Make == MakeFails \/ CreateJobObject \/ SetExtended \/ SetCpuRate

Begin(c) == StartEnters(c) \/ AdoptEnters(c) \/ CloseEnters(c) \/ UserEnters(c)

Continue(c) ==
    \/ Spawn(c) \/ AssignProcess(c) \/ AssignRefused(c) \/ ResumeProcess(c) \/ ResumeFails(c)
    \/ CleanUp(c) \/ WaitChild(c) \/ AdoptProcess(c)
    \/ TakeHandle(c) \/ UseHandle(c) \/ ReadStats(c) \/ Release(c)

System == Recycle \/ \E p \in Processes : Exits(p) \/ \E k \in Children : SpawnsChild(p, k)

WinNext == Make \/ (\E c \in Callers : Begin(c) \/ Continue(c)) \/ System

\* A call that was made runs on.  Nobody has to call, and no process has to exit.
Calls == \E c \in Callers : Continue(c)

WinSpec == WinInit /\ [][WinNext]_winVars

-----------------------------------------------------------------------------

\* A failed newJob leaks no handle (job_windows.go:94, 110), and a process is put into
\* a job only with every cap that was asked for in force.
WinNeverUncapped ==
    /\ making = "failed" => object = "nothing"
    /\ inJob # {} => wanted \cup {"killOnClose"} \subseteq limits

\* "mu guards handle: Assign/Kill read it while Close nulls it" (job_windows.go:64).
\* Start, Adopt and Close, whose use of the handle outlasts that lock, use it only while
\* it names their job, because Group orders them; the calls that Group does not order
\* can reach the released value only if they copied it before the release.
HandleIsOwn ==
    /\ \A c \in Callers \ Users :
          call[c] \in {"spawn", "assign", "resume", "adopt", "use", "release"} => object = "ownJob"
    /\ \A u \in Users : call[u] = "take" /\ handle = "set" => object = "ownJob"

\* "Each child is created suspended, assigned to the job, then resumed, closing the race
\* where a fast child forks a grandchild before it is inside the job"
\* (job_windows.go:58-60): a child runs only in the job, and after an error not at all.
RunsOnlyInJob ==
    \A s \in Starters :
        /\ process[s] = "running" => s \in inJob
        /\ call[s] = "failed" => process[s] \in {"none", "dead"}

\* The job is a kill-on-drop container that spares nobody: whatever TerminateJobObject
\* did, nothing is left in it when its handle has been closed.
WinBox == INSTANCE Container WITH
            Direct   <- Starters \cup Adopters,
            Indirect <- Children,
            members  <- inJob,
            spared   <- {},
            phase    <- IF ~closed THEN "open" ELSE IF handle = "set" THEN "closing" ELSE "closed"

WinImplementsContainer == WinBox!CSpec

\* Every call ends: no child stays suspended outside of everything, and no step that
\* fails keeps a caller.
WinCallsEnd == []<>(\A c \in Callers : call[c] \in {"idle", "failed", "returned"})
=============================================================================
