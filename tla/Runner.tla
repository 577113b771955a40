------------------------------- MODULE Runner -------------------------------
(***************************************************************************)
(* JobRunner.Output (runner.go): one command runs to its end inside a      *)
(* private kill-on-drop job, under the context of the caller and its own   *)
(* deadline.  The child, a descendant inside the job and one that left it  *)
(* are the processes; both descendants hold the captured pipes.            *)
(*                                                                         *)
(* The module has no specification of its own: Supervision calls it again  *)
(* and again.                                                              *)
(***************************************************************************)

VARIABLES
    ctx,      \* the caller's context: "live", "cancelled" or "expired"
    timeout,  \* inv.Timeout > 0
    due,      \* the run's own deadline has elapsed
    runCtx,   \* runCtx.Err(): "live", "cancelled" or "deadline"
    pc,       \* where Output is
    child,    \* the direct child is alive
    kin,      \* a descendant in the job is alive
    stray,    \* a descendant outside the job is alive
    spared,   \* history: the kill of this run failed to end the descendant
    late,     \* waitDelay has elapsed
    ended,    \* how the child ended
    result    \* what Output returned

ctxVars == <<ctx, timeout, due, runCtx>>
treeVars == <<child, kin, stray, spared, ended>>
runnerVars == <<ctxVars, pc, treeVars, late, result>>

Exits == {"exit0", "exit1", "exit2"}

\* A child dies "killed" by this package or "signalled" by somebody else (a fault of its
\* own, the kernel out of memory); the Outcome of both is a signal.
Outcomes == Exits \cup {"timedOut", "killed", "signalled"}         \* of a Result

\* A StartError may wrap a transient errno ("busy"), the error of the run's own context
\* ("refused") or something else.
StartErrors == {"startError", "busy", "refused"}
Errors == StartErrors \cup {"notFound", "cancelled"}

RunnerTypeOK ==
    /\ ctx \in {"live", "cancelled", "expired"}
    /\ timeout \in BOOLEAN /\ due \in BOOLEAN
    /\ runCtx \in {"live", "cancelled", "deadline"}
    /\ pc \in {"start", "spawn", "assign", "clean", "wait", "kill", "check", "resolve", "done"}
    /\ child \in BOOLEAN /\ kin \in BOOLEAN /\ stray \in BOOLEAN /\ late \in BOOLEAN
    /\ spared \in BOOLEAN
    /\ ended \in Exits \cup {"none", "killed", "signalled"}
    /\ result \in Outcomes \cup Errors \cup {"none"}

RunnerInit ==
    /\ ctx = "live" /\ timeout \in BOOLEAN /\ due = FALSE /\ runCtx = "live"
    /\ pc = "done"
    /\ child = FALSE /\ kin = FALSE /\ stray = FALSE /\ spared = FALSE /\ late = FALSE
    /\ ended = "none" /\ result = "none"

Cause(c) == CASE c = "live" -> "live" [] c = "cancelled" -> "cancelled" [] OTHER -> "deadline"

Running == pc # "done"

-----------------------------------------------------------------------------
(* The contexts *)

CallerEnds ==
    /\ ctx = "live"
    /\ ctx' \in {"cancelled", "expired"}
    /\ UNCHANGED <<timeout, due, runCtx, pc, treeVars, late, result>>

\* The end of a parent context reaches its children after the parent reports it.
Propagate ==
    /\ Running
    /\ ctx # "live" /\ runCtx = "live"
    /\ runCtx' = Cause(ctx)
    /\ UNCHANGED <<ctx, timeout, due, pc, treeVars, late, result>>

DeadlineElapses ==
    /\ Running
    /\ timeout /\ ~due
    /\ due' = TRUE
    /\ runCtx' = IF runCtx = "live" THEN "deadline" ELSE runCtx
    /\ UNCHANGED <<ctx, timeout, pc, treeVars, late, result>>

-----------------------------------------------------------------------------
(* The processes *)

treeOther == <<ctxVars, pc, late, result>>

ChildExits ==
    /\ child
    /\ child' = FALSE
    /\ ended' \in Exits \cup {"signalled"}
    /\ UNCHANGED <<treeOther, kin, stray, spared>>

ChildForks ==
    /\ child /\ ~kin
    /\ kin' = TRUE
    /\ UNCHANGED <<treeOther, child, stray, spared, ended>>

\* setsid(2) takes a process out of a process group.
KinEscapes ==
    /\ kin
    /\ kin' = FALSE /\ stray' = TRUE
    /\ UNCHANGED <<treeOther, child, spared, ended>>

DescendantExits ==
    /\ \/ kin /\ kin' = FALSE /\ UNCHANGED stray
       \/ stray /\ stray' = FALSE /\ UNCHANGED kin
    /\ UNCHANGED <<treeOther, child, spared, ended>>

\* exec's watcher kills the child, and only the child, when runCtx is done.
CtxKill ==
    /\ child
    /\ runCtx # "live"
    /\ child' = FALSE
    /\ ended' = "killed"
    /\ UNCHANGED <<treeOther, kin, stray, spared>>

-----------------------------------------------------------------------------
(* Output *)

\* The private job dies with the call; deferred cancel() stops the timer.
Return(r) ==
    /\ result' = r
    /\ pc' = "done"
    /\ UNCHANGED <<ctxVars, treeVars, late>>

CancelOr(r) == IF ctx # "live" THEN "cancelled" ELSE r

\* A new run has a new job, which what another run left behind is not in.
Call ==
    /\ pc' = "start"
    /\ due' = FALSE
    /\ runCtx' = Cause(ctx)
    /\ late' = FALSE
    /\ ended' = "none"
    /\ result' = "none"
    /\ kin' = FALSE /\ stray' = (stray \/ kin) /\ spared' = FALSE
    /\ UNCHANGED <<ctx, timeout, child>>

CancelledBefore ==
    /\ pc = "start"
    /\ IF ctx # "live"
       THEN Return("cancelled")
       ELSE pc' = "spawn" /\ UNCHANGED <<ctxVars, treeVars, late, result>>

\* NewJob or Configure fails.
JobFails == pc = "spawn" /\ Return("startError")

\* exec's Start refuses a context that is done.
StartRefused == pc = "spawn" /\ runCtx # "live" /\ Return(CancelOr("refused"))

StartFails ==
    /\ pc = "spawn" /\ runCtx = "live"
    /\ \E error \in {"startError", "busy", "notFound"} : Return(CancelOr(error))

Spawn ==
    /\ pc = "spawn"
    /\ runCtx = "live"
    /\ child' = TRUE
    /\ pc' = "assign"
    /\ UNCHANGED <<ctxVars, kin, stray, spared, ended, late, result>>

Assign == pc = "assign" /\ pc' = "wait" /\ UNCHANGED <<ctxVars, treeVars, late, result>>

\* Only the Assign of the Job Object fails, with a child that is still suspended: it
\* has not exited nor forked, and is terminated.
AssignFails ==
    /\ pc = "assign"
    /\ ended \in {"none", "killed"} /\ ~kin
    /\ child' = FALSE
    /\ pc' = "clean"
    /\ UNCHANGED <<ctxVars, kin, stray, spared, ended, late, result>>

AssignCleanUp == pc = "clean" /\ Return(CancelOr("startError"))

\* DelayElapsesMutant: WaitDelay is not set.
\* cmd.WaitDelay starts when the child is gone or the context is done.
DelayElapsesMutant == FALSE /\ late' = late /\ UNCHANGED <<ctxVars, pc, treeVars, result>>
DelayElapses ==
    /\ pc = "wait"
    /\ ~child \/ runCtx # "live"
    /\ ~late
    /\ late' = TRUE
    /\ UNCHANGED <<ctxVars, pc, treeVars, result>>

\* cmd.Wait: the child is gone and its pipes are closed, by their holders or by force.
WaitReturns ==
    /\ pc = "wait"
    /\ ~child
    /\ late \/ ~(kin \/ stray)
    /\ pc' = "kill"
    /\ UNCHANGED <<ctxVars, treeVars, late, result>>

\* Nothing is done about what the child left behind.
KillTreeMutant ==
    /\ pc = "kill"
    /\ pc' = "check"
    /\ UNCHANGED <<ctxVars, treeVars, late, result>>

\* job.Kill, which may fail to end a descendant; its error is ignored.
KillTree ==
    /\ pc = "kill"
    /\ child' = FALSE
    /\ \/ kin' = FALSE /\ UNCHANGED spared
       \/ kin /\ spared' = TRUE /\ UNCHANGED kin
    /\ pc' = "check"
    /\ UNCHANGED <<ctxVars, stray, ended, late, result>>

\* The caller's context is not looked at after the run.
CheckCancelMutant ==
    /\ pc = "check"
    /\ pc' = "resolve" /\ UNCHANGED <<ctxVars, treeVars, late, result>>
CheckCancel ==
    /\ pc = "check"
    /\ IF ctx # "live"
       THEN Return("cancelled")
       ELSE pc' = "resolve" /\ UNCHANGED <<ctxVars, treeVars, late, result>>

Resolve ==
    /\ pc = "resolve"
    /\ Return(IF timeout /\ runCtx = "deadline" THEN "timedOut" ELSE ended)

Output ==
    \/ CancelledBefore \/ JobFails \/ StartRefused \/ StartFails \/ Spawn
    \/ Assign \/ AssignFails \/ AssignCleanUp \/ WaitReturns \/ KillTree \/ CheckCancel \/ Resolve

Environment ==
    \/ CallerEnds \/ Propagate \/ DeadlineElapses
    \/ ChildExits \/ ChildForks \/ KinEscapes \/ DescendantExits \/ CtxKill \/ DelayElapses

-----------------------------------------------------------------------------
(* Safety of one run *)

\* A Result tells how the child ended.  An exit or a foreign signal is one that the child
\* died of; a kill by this package is never passed off as the child's own death, but
\* reported as the caller's cancellation, as a timeout (of a run that has one, because it
\* elapsed or, in the last moment, the caller's deadline did), or as a start that failed
\* half-way (runner.go:52-57,166-167).
VerdictMatches ==
    /\ result \in Exits \cup {"signalled"} => ended = result
    /\ result # "killed"
    /\ result = "timedOut" => timeout /\ (due \/ ctx = "expired")
    /\ ~Running /\ ended = "killed" =>
          \/ result = "cancelled" /\ ctx # "live"
          \/ result = "timedOut" /\ due
          \/ result = "startError"
=============================================================================
