-------------------------- MODULE SupervisionProofs -------------------------
(***************************************************************************)
(* Proofs about Supervision.tla and the Runner below it, for any budget,   *)
(* threshold and backoff, whichever verb is used and however runs end.     *)
(***************************************************************************)
EXTENDS Supervision, FiniteSetTheorems, TLAPS

(* One run *)

\* Nobody of the tree is alive before the child is started, nor after the job is gone but
\* whom its kill spared, and what is known of the end of the child where Output is.
TreeInv ==
    /\ pc \in {"start", "spawn", "clean", "check", "resolve", "done"} => ~child /\ (kin => spared)
    /\ pc = "kill" => ~child
    /\ pc \in {"start", "spawn"} => ended = "none"
    /\ pc \in {"kill", "check", "resolve"} => ended # "none"
    /\ pc \in {"assign", "wait"} /\ ~child => ended # "none"

\* Why a context is done.
ContextInv ==
    /\ Running => result = "none"
    /\ due => timeout
    /\ runCtx = "cancelled" => ctx = "cancelled"
    /\ runCtx = "deadline" => ctx = "expired" \/ due

\* Who was killed, and what it is called.
KillInv ==
    /\ ended = "killed" => runCtx # "live"
    /\ pc = "resolve" /\ ended = "killed" => due /\ runCtx = "deadline"

RunInv == RunnerTypeOK /\ TreeInv /\ ContextInv /\ KillInv /\ VerdictMatches

\* The contexts end at any time, each at most once and for one cause.
LEMMA ContextSteps ==
    ASSUME RunInv, CallerEnds \/ Propagate \/ DeadlineElapses
    PROVE  RunInv'
  <1> USE DEF RunInv, RunnerTypeOK, TreeInv, ContextInv, KillInv, VerdictMatches, Running,
          treeVars, Exits
  <1>1. CASE CallerEnds
    BY <1>1 DEF CallerEnds
  <1>2. CASE Propagate
    BY <1>2 DEF Propagate, Cause
  <1>3. CASE DeadlineElapses
    BY <1>3 DEF DeadlineElapses
  <1> QED BY <1>1, <1>2, <1>3

\* The processes of a run: the child ends once, and kin of a dead child only leave.
LEMMA ProcessSteps ==
    ASSUME RunInv, ChildExits \/ ChildForks \/ KinEscapes \/ DescendantExits \/ CtxKill
    PROVE  RunInv'
  <1>1. /\ UNCHANGED <<ctx, timeout, due, runCtx, pc, late, result>>
        /\ child' \in BOOLEAN /\ kin' \in BOOLEAN /\ stray' \in BOOLEAN
        /\ spared' = spared
    BY DEF ChildExits, ChildForks, KinEscapes, DescendantExits, CtxKill, treeOther, ctxVars,
           RunInv, RunnerTypeOK
  <1>2. \/ child /\ ~child' /\ kin' = kin /\ ended' \in Exits \cup {"signalled"}
        \/ child /\ ~child' /\ kin' = kin /\ ended' = "killed" /\ runCtx # "live"
        \/ child' = child /\ ended' = ended /\ (kin' => kin \/ child)
    <2>1. CASE ChildExits \/ CtxKill
      BY <2>1 DEF ChildExits, CtxKill
    <2>2. CASE ChildForks \/ KinEscapes
      BY <2>2 DEF ChildForks, KinEscapes
    <2>3. CASE DescendantExits
      <3>1. UNCHANGED <<child, ended>>
        BY <2>3 DEF DescendantExits
      <3>2. kin' => kin
        BY <2>3 DEF DescendantExits
      <3> QED BY <3>1, <3>2
    <2> QED BY <2>1, <2>2, <2>3
  <1>3. RunnerTypeOK'
    BY <1>1, <1>2 DEF RunInv, RunnerTypeOK
  <1>4. TreeInv'
    BY <1>1, <1>2 DEF RunInv, TreeInv, Exits
  <1>5. ContextInv'
    BY <1>1 DEF RunInv, ContextInv, Running
  <1>6. ended' = ended \/ pc \notin {"resolve", "done"}
    BY <1>2 DEF RunInv, TreeInv
  <1>7. KillInv'
    BY <1>1, <1>2, <1>6 DEF RunInv, KillInv, Exits
  <1>8. VerdictMatches'
    BY <1>1, <1>6 DEF RunInv, ContextInv, VerdictMatches, Running, Exits
  <1> QED BY <1>3, <1>4, <1>5, <1>7, <1>8 DEF RunInv

\* Output returns with nobody left that the kill did not spare, and what it returns matches how the child ended.
LEMMA Returns ==
    ASSUME RunInv, NEW r \in Outcomes \cup Errors, Return(r),
           ~child, kin => spared,
           r \in Exits \cup {"signalled"} => ended = r,
           r # "killed",
           r = "timedOut" => timeout /\ (due \/ ctx = "expired"),
           ended = "killed" => \/ r = "cancelled" /\ ctx # "live"
                               \/ r = "timedOut" /\ due
                               \/ r = "startError"
    PROVE  RunInv'
  BY DEF Return, RunInv, RunnerTypeOK, TreeInv, ContextInv, KillInv, VerdictMatches, Running,
         ctxVars, treeVars

\* The steps of JobRunner.Output, each after the kill that its return relies on.
LEMMA OutputSteps ==
    ASSUME RunInv, Output \/ DelayElapses
    PROVE  RunInv'
  <1>1. CASE CancelledBefore \/ CheckCancel
    <2>1. CASE ctx # "live"
      <3>1. Return("cancelled") /\ ~child /\ (kin => spared)
        BY <1>1, <2>1 DEF CancelledBefore, CheckCancel, RunInv, TreeInv
      <3> QED BY <2>1, <3>1, Returns DEF Errors, Exits
    <2>2. CASE ctx = "live"
      BY <1>1, <2>2
      DEF CancelledBefore, CheckCancel, RunInv, RunnerTypeOK, TreeInv, ContextInv, KillInv,
          VerdictMatches, Running, ctxVars, treeVars
    <2> QED BY <2>1, <2>2
  <1>2. CASE JobFails \/ StartRefused \/ StartFails \/ AssignCleanUp
    <2>1. ~child /\ (kin => spared)
      BY <1>2 DEF JobFails, StartRefused, StartFails, AssignCleanUp, RunInv, TreeInv
    <2>2. CASE ended = "killed"
      <3>1. Return(CancelOr("startError"))
        BY <1>2, <2>2 DEF JobFails, StartRefused, StartFails, AssignCleanUp, RunInv, TreeInv
      <3> QED BY <2>1, <2>2, <3>1, Returns DEF CancelOr, Errors, StartErrors, Exits
    <2>3. CASE ended # "killed"
      <3>1. \E r \in Errors : Return(r)
        BY <1>2
        DEF JobFails, StartRefused, StartFails, AssignCleanUp, CancelOr, Errors, StartErrors
      <3> QED BY <2>1, <2>3, <3>1, Returns DEF Errors, StartErrors, Exits
    <2> QED BY <2>2, <2>3
  <1>3. CASE Spawn \/ Assign \/ AssignFails
    <2>1. /\ UNCHANGED <<ctxVars, kin, stray, spared, ended, late, result>> /\ pc # "done"
          /\ \/ pc = "spawn" /\ child' = TRUE /\ pc' = "assign"
             \/ pc = "assign" /\ child' = child /\ pc' = "wait"
             \/ pc = "assign" /\ ~kin /\ child' = FALSE /\ pc' = "clean"
      <3>1. CASE Spawn
        BY <3>1 DEF Spawn
      <3>2. CASE Assign \/ AssignFails
        BY <3>2 DEF Assign, AssignFails, treeVars
      <3> QED BY <1>3, <3>1, <3>2
    <2>2. RunnerTypeOK'
      <3>1. child' \in BOOLEAN /\ pc' \in {"assign", "wait", "clean"}
        BY <2>1 DEF RunInv, RunnerTypeOK
      <3> QED BY <2>1, <3>1 DEF RunInv, RunnerTypeOK, ctxVars
    <2>3. TreeInv'
      BY <2>1 DEF RunInv, RunnerTypeOK, TreeInv
    <2>4. pc' \notin {"done", "resolve"} \/ pc' = pc
      BY <2>1
    <2>5. ContextInv' /\ KillInv'
      BY <2>1, <2>4 DEF RunInv, ContextInv, KillInv, Running, ctxVars
    <2>6. VerdictMatches'
      BY <2>1, <2>4 DEF RunInv, VerdictMatches, Running, ctxVars
    <2> QED BY <2>2, <2>3, <2>5, <2>6 DEF RunInv
  <1>4. CASE DelayElapses \/ WaitReturns \/ KillTree
    <2>1. /\ UNCHANGED <<ctxVars, stray, ended, result>> /\ pc # "done" /\ late' \in BOOLEAN
          /\ \/ pc' = pc /\ UNCHANGED <<child, kin, spared>>
             \/ pc = "wait" /\ ~child /\ pc' = "kill" /\ UNCHANGED <<child, kin, spared>>
             \/ /\ pc = "kill" /\ pc' = "check" /\ child' = FALSE /\ spared' \in BOOLEAN
                /\ kin' \in BOOLEAN /\ (kin' => spared')
      BY <1>4 DEF DelayElapses, WaitReturns, KillTree, treeVars, RunInv, RunnerTypeOK
    <2>2. RunnerTypeOK'
      <3>1. child' \in BOOLEAN /\ kin' \in BOOLEAN /\ pc' \in {pc, "kill", "check"}
        BY <2>1 DEF RunInv, RunnerTypeOK
      <3> QED BY <2>1, <3>1 DEF RunInv, RunnerTypeOK, ctxVars
    <2>3. TreeInv'
      BY <2>1 DEF RunInv, RunnerTypeOK, TreeInv
    <2>4. pc' \notin {"done", "resolve"} \/ pc' = pc
      BY <2>1
    <2>5. ContextInv' /\ KillInv'
      BY <2>1, <2>4 DEF RunInv, ContextInv, KillInv, Running, ctxVars
    <2>6. VerdictMatches'
      BY <2>1, <2>4 DEF RunInv, VerdictMatches, Running, ctxVars
    <2> QED BY <2>2, <2>3, <2>5, <2>6 DEF RunInv
  <1>5. CASE Resolve
    <2>1. /\ ~child /\ (kin => spared) /\ ended \in Exits \cup {"killed", "signalled"}
          /\ runCtx = "deadline" => ctx = "expired" \/ due
          /\ ended = "killed" => timeout /\ due /\ runCtx = "deadline"
      BY <1>5 DEF Resolve, RunInv, RunnerTypeOK, TreeInv, KillInv, ContextInv
    <2> QED BY <1>5, <2>1, Returns DEF Resolve, Outcomes, Exits
  <1> QED BY <1>1, <1>2, <1>3, <1>4, <1>5 DEF Output

\* One run keeps its part of the invariant, whatever its contexts and processes do.
LEMMA RunSteps ==
    ASSUME RunInv, Output \/ Environment
    PROVE  RunInv'
  BY ContextSteps, ProcessSteps, OutputSteps DEF Environment

-----------------------------------------------------------------------------
(* The loop *)

\* A run is under way only in one phase, and every other phase counts the runs it follows.
PhaseInv ==
    /\ phase \in {"top", "run", "storm", "delay", "over"}
    /\ runs \in Nat /\ restarts \in Nat
    /\ phase # "run" => ~Running
    /\ phase = "top" => runs = restarts
    /\ phase \in {"run", "storm", "delay"} => runs = restarts + 1
    /\ runs <= restarts + 1
    /\ phase # "over" => verdict = "none"

\* A loop that sleeps has a restart left.
BudgetInv ==
    /\ budget \in Nat \cup {Unlimited}
    /\ budget # Unlimited => restarts <= budget
    /\ phase \in {"storm", "delay"} /\ budget # Unlimited => restarts < budget
    /\ verdict = "exhausted" => restarts = budget /\ runs = restarts + 1

\* The crashes that the score holds are not those that a pause has paid for.
StormInv ==
    /\ score \in Nat /\ pauses \in Nat /\ crashes \in Nat
    /\ pauses * (Threshold + 1) + score <= crashes
    /\ phase = "storm" => score > Threshold

\* Why the loop goes on.
RetryInv ==
    /\ verb \in Retries \cup {"supervise"}
    /\ verb = "supervise" => retryIf = {}
    /\ phase \in {"storm", "delay"} \/ (phase = "top" /\ runs > 0) =>
          /\ ~Terminal
          /\ verb \in Retries => Retried

LoopInv == RunInv /\ PhaseInv /\ BudgetInv /\ StormInv /\ RetryInv

\* Between two runs Output does not move, and the processes and contexts leave its result.
LEMMA IdleSteps ==
    ASSUME ~Running, Output \/ Environment
    PROVE  UNCHANGED <<pc, result>>
  <1>1. ~Output
    BY DEF Running, Output, CancelledBefore, JobFails, StartRefused, StartFails, Spawn, Assign,
           AssignFails, AssignCleanUp, WaitReturns, KillTree, CheckCancel, Resolve
  <1> QED
    BY <1>1
    DEF Environment, CallerEnds, Propagate, DeadlineElapses, ChildExits, ChildForks, KinEscapes,
        DescendantExits, CtxKill, DelayElapses, treeOther

\* What the run does inside an iteration changes nothing that the loop counts.
LEMMA InsideRun ==
    ASSUME LoopInv, Output \/ Environment, UNCHANGED <<confVars, loopVars>>
    PROVE  LoopInv'
  <1> USE DEF LoopInv, confVars, loopVars
  <1>1. RunInv'
    BY RunSteps
  <1>2. PhaseInv' /\ RetryInv'
    <2>1. CASE phase = "run"
      BY <2>1 DEF PhaseInv, RetryInv
    <2>2. CASE phase # "run"
      <3>1. UNCHANGED <<pc, result>>
        BY <2>2, IdleSteps DEF PhaseInv
      <3> QED BY <3>1 DEF PhaseInv, RetryInv, Running, Terminal, Retried, Accepted, Success,
                      Sentinels
    <2> QED BY <2>1, <2>2
  <1>3. BudgetInv' /\ StormInv'
    BY DEF BudgetInv, StormInv
  <1> QED BY <1>1, <1>2, <1>3

\* The loop concludes and touches nothing else.
LEMMA Concludes ==
    ASSUME LoopInv, NEW v, Conclude(v), crashes' \in Nat, crashes <= crashes',
           v = "exhausted" => restarts = budget /\ runs = restarts + 1,
           phase # "run" \/ ~Running
    PROVE  LoopInv'
  <1> USE DEF LoopInv, Conclude, confVars, runnerVars, ctxVars, treeVars
  <1>1. RunInv'
    BY DEF RunInv, RunnerTypeOK, TreeInv, ContextInv, KillInv, VerdictMatches, Running
  <1>2. PhaseInv' /\ BudgetInv'
    BY DEF PhaseInv, BudgetInv, Running
  <1>3. RetryInv'
    BY DEF RetryInv
  <1>4. StormInv'
    <2>1. pauses * (Threshold + 1) \in Nat
      BY SupervisionAssumption DEF StormInv, SupervisionAssumption
    <2> QED BY <2>1 DEF StormInv
  <1> QED BY <1>1, <1>2, <1>3, <1>4

\* A crash is counted once, as one.
LEMMA CountsCrash ==
    ASSUME crashes \in Nat, CountCrash
    PROVE  crashes' \in Nat /\ crashes <= crashes' /\ (Crashed => crashes' = crashes + 1)
  BY DEF CountCrash

\* The steps that end the loop: only RunOut says that the budget is exhausted.
LEMMA EndSteps ==
    ASSUME LoopInv, TopCancelled \/ RunCancelled \/ Predicate \/ Satisfied \/ RunOut
                    \/ SleepCancelled
    PROVE  LoopInv'
  <1>0. crashes \in Nat
    BY DEF LoopInv, StormInv
  <1>1. CASE TopCancelled \/ RunCancelled \/ Predicate \/ SleepCancelled
    BY <1>0, <1>1, Concludes
    DEF TopCancelled, RunCancelled, Predicate, SleepCancelled, Returned
  <1>2. CASE Satisfied
    <2>1. StopVerdict("policy") # "exhausted"
      BY DEF StopVerdict
    <2> QED BY <1>0, <1>2, <2>1, CountsCrash, Concludes DEF Satisfied, AfterRun, Returned
  <1>3. CASE RunOut
    <2>1. restarts = budget /\ runs = restarts + 1 /\ ~Running
      BY <1>3
      DEF RunOut, Exhausted, AfterRun, Returned, LoopInv, PhaseInv, BudgetInv
    <2> QED BY <1>0, <1>3, <2>1, CountsCrash, Concludes DEF RunOut
  <1> QED BY <1>1, <1>2, <1>3

\* An iteration begins with no process of the one before.
LEMMA BeginStep ==
    ASSUME LoopInv, BeginRun
    PROVE  LoopInv'
  <1> USE DEF LoopInv, BeginRun, Call, confVars
  <1>1. ~child /\ ~kin'
    BY DEF PhaseInv, Running, RunInv, TreeInv
  <1>2. RunInv'
    BY <1>1 DEF RunInv, RunnerTypeOK, TreeInv, ContextInv, KillInv, VerdictMatches, Running, Cause, Exits
  <1>3. PhaseInv' /\ BudgetInv' /\ RetryInv' /\ StormInv'
    BY DEF PhaseInv, BudgetInv, RetryInv, StormInv, Running
  <1> QED BY <1>2, <1>3

\* Going on: the decision, the storm pause and the delay.
LEMMA SleepSteps ==
    ASSUME LoopInv, Again \/ StormOver \/ DelayOver
    PROVE  LoopInv'
  <1> USE DEF LoopInv, confVars, runnerVars, ctxVars, treeVars
  <1>1. UNCHANGED <<runnerVars, confVars, runs, verdict>>
    BY DEF Again, StormOver, DelayOver
  <1>2. RunInv'
    BY <1>1 DEF RunInv, RunnerTypeOK, TreeInv, ContextInv, KillInv, VerdictMatches, Running
  <1>3. CASE Again
    <2>1. /\ phase = "run" /\ ~Running /\ phase' \in {"storm", "delay"} /\ UNCHANGED <<restarts, pauses>>
          /\ ~Terminal /\ WantsRestart /\ ~Exhausted
      BY <1>3 DEF Again, AfterRun, Returned, Sleep
    <2>2. PhaseInv' /\ BudgetInv'
      BY <1>1, <2>1 DEF PhaseInv, BudgetInv, Exhausted, Running
    <2>3. RetryInv'
      <3>1. verb \in Retries => Retried
        BY <2>1 DEF WantsRestart
      <3> QED
        BY <1>1, <2>1, <3>1
        DEF RetryInv, Terminal, Retried, Accepted, Success, Sentinels
    <2>4. StormInv'
      <3>1. crashes' \in Nat /\ crashes <= crashes' /\ (Crashed => crashes' = crashes + 1)
        BY <1>3, CountsCrash DEF Again, StormInv
      <3>2. score' \in Nat /\ (score' <= score \/ (Crashed /\ score' <= score + 1))
        BY <1>3 DEF Again, Record, StormInv
      <3>3. phase' = "storm" => score' > Threshold
        BY <1>3 DEF Again, Sleep
      <3>4. pauses * (Threshold + 1) \in Nat
        BY SupervisionAssumption DEF StormInv, SupervisionAssumption
      <3> QED BY <2>1, <3>1, <3>2, <3>3, <3>4 DEF StormInv
    <2> QED BY <1>2, <2>2, <2>3, <2>4
  <1>4. CASE StormOver
    <2>1. /\ phase = "storm" /\ phase' = "delay" /\ pauses' = pauses + 1 /\ score' = 0
          /\ UNCHANGED <<restarts, crashes>>
      BY <1>4 DEF StormOver, Sleep
    <2>2. PhaseInv' /\ BudgetInv'
      BY <1>1, <2>1 DEF PhaseInv, BudgetInv, Running
    <2>3. RetryInv'
      BY <1>1, <2>1 DEF RetryInv, Terminal, Retried, Accepted, Success, Sentinels
    <2>4. StormInv'
      <3>1. (pauses + 1) * (Threshold + 1) = pauses * (Threshold + 1) + (Threshold + 1)
        BY SupervisionAssumption DEF StormInv, SupervisionAssumption
      <3>2. pauses * (Threshold + 1) \in Nat
        BY SupervisionAssumption DEF StormInv, SupervisionAssumption
      <3> QED BY <2>1, <3>1, <3>2, SupervisionAssumption DEF StormInv, SupervisionAssumption
    <2> QED BY <1>2, <2>2, <2>3, <2>4
  <1>5. CASE DelayOver
    <2>1. /\ phase = "delay" /\ phase' = "top" /\ restarts' = restarts + 1
          /\ UNCHANGED <<score, pauses, crashes>>
      BY <1>5 DEF DelayOver
    <2>2. PhaseInv' /\ BudgetInv'
      BY <1>1, <2>1, SupervisionAssumption
      DEF PhaseInv, BudgetInv, Running, SupervisionAssumption
    <2>3. RetryInv'
      BY <1>1, <2>1 DEF RetryInv, Terminal, Retried, Accepted, Success, Sentinels
    <2>4. StormInv'
      BY <2>1 DEF StormInv
    <2> QED BY <1>2, <2>2, <2>3, <2>4
  <1> QED BY <1>3, <1>4, <1>5

\* The inductive invariant of the two loops and of the run inside them.
THEOREM LoopInvCorrect == Spec => []LoopInv
  <1>1. Init => LoopInv
    <2> SUFFICES ASSUME Init PROVE LoopInv
      OBVIOUS
    <2>1. RunInv
      BY DEF Init, RunnerInit, RunInv, RunnerTypeOK, TreeInv, ContextInv, KillInv,
             VerdictMatches, Running, Exits
    <2>2. /\ phase = "top" /\ pc = "done" /\ verdict = "none"
          /\ runs = 0 /\ restarts = 0 /\ score = 0 /\ pauses = 0 /\ crashes = 0
      BY DEF Init, RunnerInit
    <2>3. /\ budget \in Limits \cup {Unlimited}
          /\ \/ verb = "supervise" /\ retryIf = {}
             \/ verb \in Retries
      BY DEF Init
    <2>4. PhaseInv /\ RetryInv
      BY <2>2, <2>3 DEF PhaseInv, RetryInv, Running, Retries
    <2>5. BudgetInv /\ StormInv
      BY <2>2, <2>3, SupervisionAssumption DEF BudgetInv, StormInv, SupervisionAssumption
    <2> QED BY <2>1, <2>4, <2>5 DEF LoopInv
  <1>2. LoopInv /\ [Next]_vars => LoopInv'
    <2> SUFFICES ASSUME LoopInv, [Next]_vars PROVE LoopInv'
      OBVIOUS
    <2>1. CASE Next
      BY <2>1, InsideRun, EndSteps, BeginStep, SleepSteps DEF Next, Loop
    <2>2. CASE UNCHANGED vars
      <3>1. RunInv'
        BY <2>2
        DEF vars, runnerVars, ctxVars, treeVars, LoopInv, RunInv, RunnerTypeOK, TreeInv,
            ContextInv, KillInv, VerdictMatches, Running
      <3>2. PhaseInv' /\ BudgetInv' /\ StormInv'
        BY <2>2
        DEF vars, runnerVars, confVars, loopVars, LoopInv, PhaseInv, BudgetInv, StormInv, Running
      <3>3. RetryInv'
        BY <2>2
        DEF vars, runnerVars, confVars, loopVars, LoopInv, RetryInv, Terminal, Retried, Accepted,
            Success, Sentinels
      <3> QED BY <3>1, <3>2, <3>3 DEF LoopInv
    <2> QED BY <2>1, <2>2
  <1> QED BY <1>1, <1>2, PTL DEF Spec

\* When Output has returned, and before the next run starts its child, the tree of the
\* command is gone: "no overlap, no orphan" (supervisor.go:101-103).
THEOREM NoOverlapCorrect == Spec => []NoOverlap
  <1>1. LoopInv => NoOverlap
    BY DEF LoopInv, RunInv, RunnerTypeOK, TreeInv, NoOverlap, Running
  <1> QED BY <1>1, LoopInvCorrect, PTL

\* A Result tells how the child ended, and a kill is a cancellation, a timeout or a failed
\* start (runner.go:52-57), in whichever order exit, deadline and cancellation come.
THEOREM VerdictMatchesCorrect == Spec => []VerdictMatches
  <1>1. LoopInv => VerdictMatches
    BY DEF LoopInv, RunInv
  <1> QED BY <1>1, LoopInvCorrect, PTL

\* n restarts are n + 1 runs within the budget, and each storm pause has been paid for by
\* more crashes than the threshold (supervisor.go:396).
THEOREM RestartsAreCountedCorrect == Spec => []RestartsAreCounted
  <1>1. LoopInv => RestartsAreCounted
    <2> SUFFICES ASSUME LoopInv PROVE RestartsAreCounted
      OBVIOUS
    <2>1. pauses * (Threshold + 1) <= crashes
      <3>1. pauses * (Threshold + 1) \in Nat
        BY SupervisionAssumption DEF LoopInv, StormInv, SupervisionAssumption
      <3> QED BY <3>1 DEF LoopInv, StormInv
    <2> QED BY <2>1 DEF LoopInv, PhaseInv, BudgetInv, RestartsAreCounted
  <1> QED BY <1>1, LoopInvCorrect, PTL

\* What a verb accepts, a cancelled context, and what the classifier does not ask for are
\* never run again (command.go:205, 299).
THEOREM OnlyFailuresAreRepeatedCorrect == Spec => OnlyFailuresAreRepeated
  <1> DEFINE Repeats ==
        runs' > runs /\ runs > 0 =>
          /\ result # "cancelled"
          /\ verb = "Run" => result \notin okCodes \cup {"exit0"}
          /\ verb = "Probe" => result \notin {"exit0", "exit1"}
          /\ verb = "ExitCode" => result \notin Exits
          /\ retryIf = {"ErrTimeout"} => result = "timedOut"
  <1>1. LoopInv /\ [Next]_vars => [Repeats]_vars
    <2> SUFFICES ASSUME LoopInv, Next, runs' > runs, runs > 0 PROVE Repeats
      OBVIOUS
    <2>1. phase = "top"
      <3>1. runs' # runs
        BY DEF LoopInv, PhaseInv
      <3> QED
        BY <3>1
        DEF Next, Loop, TopCancelled, BeginRun, RunCancelled, Predicate, Satisfied, RunOut, Again,
            SleepCancelled, StormOver, DelayOver, Conclude, loopVars
    <2>2. ~Terminal /\ (verb \in Retries => Retried)
      BY <2>1 DEF LoopInv, RetryInv
    <2>3. ASSUME verb \in Retries PROVE ~Accepted
      BY <2>2, <2>3 DEF Retried
    <2>4. ASSUME retryIf = {"ErrTimeout"} PROVE result = "timedOut"
      <3>1. verb \in Retries
        BY <2>4 DEF LoopInv, RetryInv
      <3>2. Sentinels(result) \cap {"ErrTimeout"} # {}
        BY <2>2, <2>4, <3>1 DEF Retried
      <3> QED BY <3>2 DEF Sentinels
    <2> QED BY <2>2, <2>3, <2>4 DEF Terminal, Accepted, Success, Retries
  <1> QED BY <1>1, LoopInvCorrect, PTL DEF Spec, OnlyFailuresAreRepeated

-----------------------------------------------------------------------------
(* The delays *)

\* Induction on natural numbers, as a fact about sets: of the numbers outside S, one would
\* be the last of the smallest of the sets 0 .. i.
LEMMA AllNumbers ==
    ASSUME NEW S, 0 \in S, \A n \in Nat : n \in S => n + 1 \in S
    PROVE  Nat \subseteq S
  <1> DEFINE Outside == {0 .. i : i \in Nat \ S}
  <1> SUFFICES ASSUME Outside # {} PROVE FALSE
    OBVIOUS
  <1>1. Outside \subseteq FiniteSubsetsOf(Nat)
    <2>1. ASSUME NEW i \in Nat PROVE 0 .. i \in FiniteSubsetsOf(Nat)
      BY FS_Interval DEF FiniteSubsetsOf
    <2> QED BY <2>1
  <1>2. PICK T \in Outside :
          \A U \in Outside : ~(<<U, T>> \in StrictSubsetOrdering(Nat))
    <2> HIDE DEF Outside
    <2> QED BY <1>1, FS_StrictSubsetOrderingWellFounded, WFMin
  <1>3. PICK i \in Nat \ S : T = 0 .. i
    OBVIOUS
  <1>4. i # 0 /\ i - 1 \in Nat /\ i - 1 + 1 = i
    BY <1>3
  <1>5. 0 .. (i - 1) \in Outside
    BY <1>3, <1>4
  <1>6. /\ 0 .. (i - 1) \subseteq T /\ i \in T /\ i \notin 0 .. (i - 1)
        /\ 0 .. (i - 1) \in SUBSET Nat /\ T \in SUBSET Nat
    BY <1>3, <1>4
  <1> HIDE DEF Outside
  <1> QED BY <1>2, <1>5, <1>6 DEF StrictSubsetOrdering

\* The powers of the rate up to the n-th.
Tables(n) ==
    {g \in [0 .. n -> Nat] : g[0] = 1 /\ \A i \in 1 .. n : g[i] = Rate * g[i - 1]}

\* There is one such table for each n, and only one.
LEMMA OneTable ==
    /\ Rate \in Nat /\ Rate >= 1
    /\ \A n \in Nat : Tables(n) # {}
    /\ \A n \in Nat : \A m, k \in Nat : \A g \in Tables(m), h \in Tables(k) :
          n <= m /\ n <= k => g[n] = h[n]
  <1>1. Rate \in Nat /\ Rate >= 1
    BY SupervisionAssumption DEF SupervisionAssumption, Rate
  <1>2. \A n \in Nat : Tables(n) # {}
    <2> DEFINE S == {n \in Nat : Tables(n) # {}}
    <2>1. 0 \in S
      <3>1. [i \in 0 .. 0 |-> 1] \in Tables(0)
        BY DEF Tables
      <3> QED BY <3>1
    <2>2. ASSUME NEW n \in Nat, n \in S PROVE n + 1 \in S
      <3>1. PICK g \in Tables(n) : TRUE
        BY <2>2
      <3>2. /\ g \in [0 .. n -> Nat] /\ g[0] = 1
            /\ \A i \in 1 .. n : g[i] = Rate * g[i - 1]
        BY DEF Tables
      <3> DEFINE h == [i \in 0 .. (n + 1) |-> IF i <= n THEN g[i] ELSE Rate * g[n]]
      <3>3. \A i \in 0 .. (n + 1) : i <= n => i \in 0 .. n
        OBVIOUS
      <3>4. Rate * g[n] \in Nat
        <4>1. g[n] \in Nat
          BY <3>2
        <4> QED BY <1>1, <4>1
      <3>5. h \in [0 .. (n + 1) -> Nat]
        BY <3>2, <3>3, <3>4
      <3>6. h[0] = 1
        BY <3>2
      <3>7. ASSUME NEW i \in 1 .. (n + 1) PROVE h[i] = Rate * h[i - 1]
        <4>1. i - 1 \in 0 .. (n + 1) /\ i - 1 <= n /\ i \in 0 .. (n + 1)
          OBVIOUS
        <4>2. h[i - 1] = g[i - 1]
          BY <4>1
        <4>3. CASE i <= n
          <5>1. i \in 1 .. n /\ h[i] = g[i]
            BY <4>1, <4>3
          <5> QED BY <3>2, <4>2, <5>1
        <4>4. CASE i = n + 1
          <5>1. h[i] = Rate * g[n] /\ i - 1 = n
            BY <4>1, <4>4
          <5> QED BY <4>2, <5>1
        <4> QED BY <4>3, <4>4
      <3>8. h \in Tables(n + 1)
        <4> HIDE DEF h
        <4> QED BY <3>5, <3>6, <3>7 DEF Tables
      <3> QED BY <3>8
    <2> HIDE DEF S
    <2>3. Nat \subseteq S
      BY <2>1, <2>2, AllNumbers
    <2> QED BY <2>3 DEF S
  <1>3. \A n \in Nat : \A m, k \in Nat : \A g \in Tables(m), h \in Tables(k) :
          n <= m /\ n <= k => g[n] = h[n]
    <2> DEFINE Same(n) == \A m, k \in Nat : \A g \in Tables(m), h \in Tables(k) :
                             n <= m /\ n <= k => g[n] = h[n]
    <2> DEFINE S == {n \in Nat : Same(n)}
    <2>1. 0 \in S
      BY DEF Tables
    <2>2. ASSUME NEW n \in Nat, n \in S PROVE n + 1 \in S
      <3>1. ASSUME NEW m \in Nat, NEW k \in Nat, NEW g \in Tables(m), NEW h \in Tables(k),
                   n + 1 <= m, n + 1 <= k
            PROVE  g[n + 1] = h[n + 1]
        <4>1. n <= m /\ n <= k /\ n + 1 \in 1 .. m /\ n + 1 \in 1 .. k /\ n + 1 - 1 = n
          BY <3>1
        <4>2. g[n] = h[n]
          BY <2>2, <4>1
        <4>3. g[n + 1] = Rate * g[n + 1 - 1] /\ h[n + 1] = Rate * h[n + 1 - 1]
          BY <4>1 DEF Tables
        <4> QED BY <4>1, <4>2, <4>3
      <3> QED BY <3>1
    <2> HIDE DEF S
    <2>3. Nat \subseteq S
      BY <2>1, <2>2, AllNumbers
    <2> QED BY <2>3 DEF S
  <1> QED BY <1>1, <1>2, <1>3

\* So Power is what its recursive definition says.
LEMMA PowerIs ==
    /\ Power[0] = 1
    /\ \A n \in Nat : Power[n] \in Nat /\ Power[n + 1] = Rate * Power[n]
  <1> DEFINE Table(n) == CHOOSE g : g \in Tables(n)
  <1> DEFINE f == [n \in Nat |-> Table(n)[n]]
  <1>1. \A n \in Nat : Table(n) \in Tables(n)
    BY OneTable
  <1> HIDE DEF Table
  <1>2. f[0] = 1
    BY <1>1 DEF Tables
  <1>3. ASSUME NEW n \in Nat PROVE f[n + 1] = Rate * f[n] /\ f[n] \in Nat
    <2>1. n + 1 \in Nat /\ n + 1 \in 1 .. (n + 1) /\ n + 1 - 1 = n /\ n <= n /\ n <= n + 1
      OBVIOUS
    <2>2. Table(n) \in Tables(n) /\ Table(n + 1) \in Tables(n + 1)
      BY <1>1, <2>1
    <2>3. Table(n + 1)[n + 1] = Rate * Table(n + 1)[n]
      BY <2>1, <2>2 DEF Tables
    <2>4. Table(n + 1)[n] = Table(n)[n]
      BY <2>1, <2>2, OneTable
    <2>5. Table(n)[n] \in Nat
      BY <2>2 DEF Tables
    <2> QED BY <2>1, <2>3, <2>4, <2>5
  <1> DEFINE Body(g) == [n \in Nat |-> IF n = 0 THEN 1 ELSE Rate * g[n - 1]]
  <1>4. f = Body(f)
    <2> HIDE DEF f
    <2>1. ASSUME NEW n \in Nat
          PROVE  f[n] = IF n = 0 THEN 1 ELSE Rate * f[n - 1]
      <3>1. CASE n = 0
        BY <1>2, <3>1
      <3>2. CASE n # 0
        <4>1. n - 1 \in Nat /\ n - 1 + 1 = n
          BY <3>2
        <4>2. f[n - 1 + 1] = Rate * f[n - 1]
          BY <1>3, <4>1
        <4> QED BY <3>2, <4>1, <4>2
      <3> QED BY <3>1, <3>2
    <2>2. f = [n \in Nat |-> f[n]]
      BY DEF f
    <2> QED BY <2>1, <2>2
  <1>5. Power = CHOOSE g : g = Body(g)
    BY DEF Power
  <1>6. Power = Body(Power)
    <2> HIDE DEF f, Body
    <2> QED BY <1>4, <1>5
  <1>7. Power[0] = 1 /\ \A n \in Nat : Power[n + 1] = Rate * Power[n]
    <2>1. ASSUME NEW n \in Nat PROVE Power[n] = IF n = 0 THEN 1 ELSE Rate * Power[n - 1]
      BY <1>6
    <2>2. ASSUME NEW n \in Nat PROVE Power[n + 1] = Rate * Power[n]
      <3>1. n + 1 \in Nat /\ n + 1 # 0 /\ n + 1 - 1 = n
        OBVIOUS
      <3>2. Power[n + 1] = Rate * Power[n + 1 - 1]
        BY <2>1, <3>1
      <3> QED BY <3>1, <3>2
    <2> QED BY <2>1, <2>2
  <1>8. Nat \subseteq {n \in Nat : Power[n] \in Nat}
    <2> DEFINE S == {n \in Nat : Power[n] \in Nat}
    <2>1. 0 \in S
      BY <1>7
    <2>2. ASSUME NEW n \in Nat, n \in S PROVE n + 1 \in S
      <3>1. Power[n] \in Nat /\ Power[n + 1] = Rate * Power[n]
        BY <1>7, <2>2
      <3>2. Power[n + 1] \in Nat
        BY <3>1, OneTable
      <3> QED BY <3>2
    <2> HIDE DEF S
    <2> QED BY <2>1, <2>2, AllNumbers DEF S
  <1> QED BY <1>7, <1>8

\* The delay before one more restart is no shorter, and none is above the cap.
LEMMA BackoffGrows ==
    ASSUME NEW n \in Nat
    PROVE  /\ Backoff(n) \in Nat /\ Backoff(n + 1) \in Nat
           /\ Backoff(n) <= Backoff(n + 1) /\ Backoff(n) <= Cap
           /\ Cap \in Nat /\ Cap <= MaxDuration
  <1> DEFINE limit == IF MaxBackoff = 0 THEN Base ELSE MaxBackoff
  <1> DEFINE a == Base * Power[n]
  <1> DEFINE b == Base * Power[n + 1]
  <1>1. /\ Base \in Nat /\ MaxBackoff \in Nat /\ MaxDuration \in Nat /\ limit \in Nat
        /\ Base <= MaxDuration /\ MaxBackoff <= MaxDuration
    BY SupervisionAssumption DEF SupervisionAssumption
  <1>2. a \in Nat /\ b \in Nat /\ a <= b
    <2> DEFINE p == Power[n]
    <2>1. p \in Nat /\ Power[n + 1] = Rate * p /\ Rate \in Nat /\ Rate >= 1
      BY PowerIs, OneTable
    <2> DEFINE more == (Rate - 1) * p
    <2> HIDE DEF p
    <2>2. more \in Nat /\ Rate * p = p + more
      BY <2>1
    <2> HIDE DEF more
    <2>3. Base * (p + more) = Base * p + Base * more /\ Base * p \in Nat /\ Base * more \in Nat
      BY <1>1, <2>1, <2>2
    <2>4. a = Base * p /\ b = Base * p + Base * more
      BY <2>1, <2>2, <2>3 DEF p
    <2> HIDE DEF a, b
    <2> QED BY <2>3, <2>4
  <1>3. /\ Backoff(n) = IF Base = 0 \/ verb \in Retries THEN Base ELSE Least(a, limit)
        /\ Backoff(n + 1) = IF Base = 0 \/ verb \in Retries THEN Base ELSE Least(b, limit)
        /\ Cap = IF verb \in Retries \/ MaxBackoff = 0 THEN Base ELSE MaxBackoff
    BY DEF Backoff, Cap
  <1> HIDE DEF a, b
  <1> QED BY <1>1, <1>2, <1>3 DEF Least

\* Jitter keeps a growing delay from shrinking by more than it can take off, and in range.
LEMMA JitterBounds ==
    ASSUME NEW d \in Nat, NEW e \in Nat, d <= e, NEW m \in Nat, e <= m, m <= MaxDuration,
           NEW x \in Jittered(d), NEW y \in Jittered(e)
    PROVE  /\ x \in Nat /\ y \in Nat /\ x <= MaxDuration
           /\ IF jitter THEN 2 * y <= 3 * m /\ y <= MaxDuration /\ x <= 3 * y + 2
                        ELSE x <= y /\ y <= m
  <1>1. MaxDuration \in Nat
    BY SupervisionAssumption DEF SupervisionAssumption
  <1>2. CASE ~jitter
    <2>1. x = d /\ y = e
      BY <1>2 DEF Jittered
    <2> QED BY <1>1, <1>2, <2>1
  <1>3. CASE jitter
    <2>1. /\ x = Least((d * 2) \div 4, MaxDuration) \/ x = Least((d * 5) \div 4, MaxDuration)
          /\ y = Least((e * 2) \div 4, MaxDuration) \/ y = Least((e * 5) \div 4, MaxDuration)
      BY <1>3 DEF Jittered
    <2> QED BY <1>1, <1>3, <2>1 DEF Least
  <1> QED BY <1>2, <1>3

\* The last sleep was the jitter of a delay that the next one does not fall below.
DelayInv ==
    /\ restarts \in Nat
    /\ \E d \in Nat : d <= Backoff(restarts) /\ delay \in Jittered(d)

\* One fact about each step of the two loops: it sleeps, or leaves the delay alone.
LEMMA DelaySteps ==
    ASSUME [Next]_vars
    PROVE  /\ verb' = verb /\ jitter' = jitter
           /\ restarts' = restarts \/ restarts' = restarts + 1
           /\ \/ delay' = delay
              \/ delay' \in Jittered(Backoff(restarts)) /\ restarts' = restarts
           /\ phase' = "delay" /\ phase # "delay" => delay' \in Jittered(Backoff(restarts))
  <1>1. CASE Loop
    <2>1. CASE TopCancelled \/ RunCancelled \/ Predicate \/ Satisfied \/ RunOut
                 \/ SleepCancelled
      BY <2>1
      DEF TopCancelled, RunCancelled, Predicate, Satisfied, RunOut, SleepCancelled, Conclude,
          confVars
    <2>2. CASE BeginRun \/ DelayOver
      BY <2>2 DEF BeginRun, DelayOver, confVars
    <2>3. CASE Again
      BY <2>3 DEF Again, Sleep, confVars
    <2>4. CASE StormOver
      BY <2>4 DEF StormOver, Sleep, confVars
    <2> QED BY <1>1, <2>1, <2>2, <2>3, <2>4 DEF Loop
  <1>2. CASE UNCHANGED <<confVars, loopVars>>
    BY <1>2 DEF confVars, loopVars
  <1> QED BY <1>1, <1>2 DEF Next, vars

\* What was slept last bounds what will be, after any number of restarts.
LEMMA DelayInvCorrect == Spec => []DelayInv
  <1>1. Init => DelayInv
    <2> SUFFICES ASSUME Init PROVE DelayInv
      OBVIOUS
    <2>1. restarts = 0 /\ delay = 0 /\ MaxDuration \in Nat
      BY SupervisionAssumption DEF Init, SupervisionAssumption
    <2>2. Backoff(0) \in Nat
      BY BackoffGrows
    <2>3. 0 \in Jittered(0)
      BY <2>1 DEF Jittered, Least
    <2> QED BY <2>1, <2>2, <2>3 DEF DelayInv
  <1>2. LoopInv /\ DelayInv /\ [Next]_vars => DelayInv'
    <2> SUFFICES ASSUME LoopInv, DelayInv, [Next]_vars PROVE DelayInv'
      OBVIOUS
    <2>1. /\ verb' = verb /\ jitter' = jitter
          /\ restarts' = restarts \/ restarts' = restarts + 1
          /\ \/ delay' = delay
             \/ delay' \in Jittered(Backoff(restarts)) /\ restarts' = restarts
      BY DelaySteps
    <2>2. restarts \in Nat /\ restarts' \in Nat
      BY <2>1 DEF DelayInv
    <2>3. /\ Backoff(restarts) \in Nat /\ Backoff(restarts + 1) \in Nat
          /\ Backoff(restarts) <= Backoff(restarts + 1)
      BY <2>2, BackoffGrows
    <2>4. PICK d \in Nat : d <= Backoff(restarts) /\ delay' \in Jittered(d)
      <3>1. CASE delay' = delay
        BY <3>1 DEF DelayInv
      <3>2. CASE delay' \in Jittered(Backoff(restarts))
        BY <2>3, <3>2
      <3> QED BY <2>1, <3>1, <3>2
    <2>5. d <= Backoff(restarts')
      <3>1. CASE restarts' = restarts
        BY <2>4, <3>1
      <3>2. CASE restarts' = restarts + 1
        <4>1. Backoff(restarts') = Backoff(restarts + 1)
          BY <3>2
        <4> QED BY <2>3, <2>4, <4>1
      <3> QED BY <2>1, <3>1, <3>2
    <2>6. Backoff(restarts)' = Backoff(restarts')
      BY <2>1 DEF Backoff
    <2>7. Jittered(d)' = Jittered(d)
      BY <2>1 DEF Jittered
    <2> QED BY <2>2, <2>4, <2>5, <2>6, <2>7 DEF DelayInv
  <1> QED BY <1>1, <1>2, LoopInvCorrect, PTL DEF Spec

\* Restarts back off: from one sleep to the next the delay does not shrink by more than the
\* jitter takes off, whatever the base, the factor and the cap (supervisor.go:333-365).
THEOREM DelaysGrowCorrect == Spec => DelaysGrow
  <1> DEFINE Grows ==
        phase' = "delay" /\ phase # "delay" =>
          IF jitter THEN /\ 2 * delay' <= 3 * Cap /\ delay' <= MaxDuration
                         /\ delay <= 3 * delay' + 2
                    ELSE delay <= delay' /\ delay' <= Cap
  <1>1. LoopInv /\ DelayInv /\ [Next]_vars => [Grows]_vars
    <2> SUFFICES ASSUME LoopInv, DelayInv, [Next]_vars,
                        phase' = "delay", phase # "delay"
                 PROVE  Grows
      OBVIOUS
    <2>1. delay' \in Jittered(Backoff(restarts)) /\ restarts \in Nat
      BY DelaySteps DEF DelayInv
    <2>2. /\ Backoff(restarts) \in Nat /\ Backoff(restarts) <= Cap
          /\ Cap \in Nat /\ Cap <= MaxDuration
      BY <2>1, BackoffGrows
    <2>3. PICK d \in Nat : d <= Backoff(restarts) /\ delay \in Jittered(d)
      BY DEF DelayInv
    <2> QED BY <2>1, <2>2, <2>3, JitterBounds
  <1>2. Spec => [][Grows]_vars
    <2> HIDE DEF Grows
    <2> QED BY <1>1, DelayInvCorrect, LoopInvCorrect, PTL DEF Spec
  <1> QED BY <1>2 DEF DelaysGrow

-----------------------------------------------------------------------------
(* The types *)

\* How a loop is configured does not change while it runs.
ConfInv ==
    /\ policy \in {"always", "never", "on-crash"}
    /\ budget \in Limits \cup {Unlimited}
    /\ storming \in BOOLEAN /\ jitter \in BOOLEAN
    /\ stopWhen \subseteq Outcomes /\ okCodes \subseteq Exits

\* A run crashes once, and is counted when the loop looks at its result.
CrashInv ==
    /\ runs <= MaxRuns /\ restarts <= runs /\ crashes <= runs
    /\ phase = "run" => crashes <= restarts
    /\ verdict \in {"none", "cancelled", "error", "value", "predicate", "policy", "exhausted"}

\* The loops keep both.
LEMMA CountsStep ==
    ASSUME LoopInv, ConfInv, CrashInv, [Next]_vars
    PROVE  ConfInv' /\ CrashInv'
  <1>1. /\ runs \in Nat /\ restarts \in Nat /\ crashes \in Nat
        /\ MaxRuns \in Nat /\ runs <= MaxRuns /\ restarts <= runs /\ crashes <= runs
        /\ phase = "run" => crashes <= restarts /\ runs = restarts + 1
        /\ phase \in {"storm", "delay"} => runs = restarts + 1
        /\ phase = "top" => runs = restarts
    BY SupervisionAssumption
    DEF LoopInv, PhaseInv, StormInv, CrashInv, SupervisionAssumption
  <1>2. CASE UNCHANGED <<confVars, loopVars>>
    BY <1>2 DEF confVars, loopVars, ConfInv, CrashInv
  <1>3. CASE Loop
    <2>1. UNCHANGED confVars
      BY <1>3
      DEF Loop, TopCancelled, BeginRun, RunCancelled, Predicate, Satisfied, RunOut, Again,
          SleepCancelled, StormOver, DelayOver, Conclude
    <2>2. ConfInv'
      BY <2>1 DEF confVars, ConfInv
    <2>3. CrashInv'
      <3>1. CASE TopCancelled \/ RunCancelled \/ Predicate \/ SleepCancelled
        BY <1>1, <3>1
        DEF TopCancelled, RunCancelled, Predicate, SleepCancelled, Conclude, CrashInv
      <3>2. CASE Satisfied \/ RunOut
        <4>1. /\ phase = "run" /\ phase' = "over" /\ UNCHANGED <<runs, restarts>>
              /\ crashes' \in Nat /\ crashes' <= crashes + 1
              /\ verdict' \in {StopVerdict("policy"), StopVerdict("exhausted")}
          BY <1>1, <3>2 DEF Satisfied, RunOut, Conclude, AfterRun, Returned, CountCrash
        <4>2. verdict' \in {"error", "value", "policy", "exhausted"}
          BY <4>1 DEF StopVerdict
        <4> QED BY <1>1, <4>1, <4>2 DEF CrashInv
      <3>3. CASE BeginRun
        <4>1. /\ phase = "top" /\ phase' = "run" /\ runs < MaxRuns /\ runs' = runs + 1
              /\ UNCHANGED <<restarts, crashes, verdict>>
          BY <3>3 DEF BeginRun
        <4> QED BY <1>1, <4>1 DEF CrashInv
      <3>4. CASE Again
        <4>1. /\ phase = "run" /\ phase' \in {"storm", "delay"}
              /\ UNCHANGED <<runs, restarts, verdict>>
              /\ crashes' \in Nat /\ crashes' <= crashes + 1
          BY <1>1, <3>4 DEF Again, AfterRun, Returned, CountCrash, Sleep
        <4> QED BY <1>1, <4>1 DEF CrashInv
      <3>5. CASE StormOver \/ DelayOver
        <4>1. /\ phase \in {"storm", "delay"} /\ phase' \in {"delay", "top"}
              /\ UNCHANGED <<runs, crashes, verdict>>
              /\ restarts' = restarts \/ restarts' = restarts + 1
          BY <3>5 DEF StormOver, DelayOver, Sleep
        <4> QED BY <1>1, <4>1 DEF CrashInv
      <3> QED BY <1>3, <3>1, <3>2, <3>3, <3>4, <3>5 DEF Loop
    <2> QED BY <2>2, <2>3
  <1> QED BY <1>2, <1>3 DEF Next, vars

\* The variables of the two loops keep their types: what they count is bounded by the runs,
\* and no sleep is longer than a time.Duration can say (supervisor.go:353-365).
THEOREM SupervisionTypesCorrect == Spec => []TypeOK
  <1>1. Init => ConfInv /\ CrashInv
    <2> SUFFICES ASSUME Init PROVE ConfInv /\ CrashInv
      OBVIOUS
    <2>1. ConfInv
      BY DEF Init, ConfInv, Outcomes, Exits
    <2> QED BY <2>1, SupervisionAssumption DEF Init, CrashInv, SupervisionAssumption
  <1>2. LoopInv /\ ConfInv /\ CrashInv /\ [Next]_vars => ConfInv' /\ CrashInv'
    BY CountsStep
  <1>3. LoopInv /\ DelayInv /\ ConfInv /\ CrashInv => TypeOK
    <2> SUFFICES ASSUME LoopInv, DelayInv, ConfInv, CrashInv PROVE TypeOK
      OBVIOUS
    <2>1. delay \in 0 .. MaxDuration
      <3>1. PICK d \in Nat : d <= Backoff(restarts) /\ delay \in Jittered(d)
        BY DEF DelayInv
      <3>2. /\ Backoff(restarts) \in Nat /\ Backoff(restarts) <= Cap
            /\ Cap \in Nat /\ Cap <= MaxDuration
        BY BackoffGrows DEF DelayInv
      <3>3. d <= d /\ d <= Cap
        BY <3>1, <3>2
      <3>4. delay \in Nat /\ delay <= MaxDuration
        BY <3>1, <3>2, <3>3, JitterBounds
      <3> QED BY <3>4, SupervisionAssumption DEF SupervisionAssumption
    <2>2. score \in 0 .. MaxRuns /\ pauses \in 0 .. MaxRuns /\ crashes \in 0 .. MaxRuns
      <3>1. /\ score \in Nat /\ pauses \in Nat /\ crashes \in Nat /\ runs \in Nat
            /\ Threshold \in Nat /\ MaxRuns \in Nat
            /\ pauses * (Threshold + 1) + score <= crashes
            /\ crashes <= runs /\ runs <= MaxRuns
        BY SupervisionAssumption
        DEF LoopInv, PhaseInv, StormInv, CrashInv, SupervisionAssumption
      <3>2. /\ pauses * (Threshold + 1) = pauses * Threshold + pauses
            /\ pauses * Threshold \in Nat
        BY <3>1
      <3> QED BY <3>1, <3>2
    <2>3. runs \in 0 .. MaxRuns /\ restarts \in 0 .. MaxRuns
      BY SupervisionAssumption DEF LoopInv, PhaseInv, CrashInv, SupervisionAssumption
    <2>4. /\ RunnerTypeOK /\ verb \in Retries \cup {"supervise"}
          /\ phase \in {"top", "run", "storm", "delay", "over"}
      BY DEF LoopInv, RunInv, RetryInv, PhaseInv
    <2> QED BY <2>1, <2>2, <2>3, <2>4 DEF TypeOK, ConfInv, CrashInv
  <1> QED BY <1>1, <1>2, <1>3, LoopInvCorrect, DelayInvCorrect, PTL DEF Spec
=============================================================================
