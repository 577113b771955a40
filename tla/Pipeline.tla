------------------------------ MODULE Pipeline ------------------------------
(***************************************************************************)
(* Pipeline.Output (pipeline.go): a chain of processes in one kill-on-drop *)
(* job, each stage's stdout an OS pipe into the next one's stdin, with a   *)
(* deadline per stage and one for the chain, and the pipefail fold that    *)
(* attributes the chain's outcome to one stage.                            *)
(*                                                                         *)
(* Stage i writes to pipe i; stage i + 1 reads it.  An item is a chunk of  *)
(* output.  A stage's stderr and the last stage's stdout are captured, and *)
(* always drained.                                                         *)
(***************************************************************************)
EXTENDS Naturals, FiniteSets

CONSTANTS N,          \* number of stages
          Items,      \* bound: items the first stage writes
          PipeCap,    \* items an OS pipe holds
          TimeoutSets \* the sets of stages with a deadline of their own to consider

Stages == 1 .. N
Pipes == 1 .. (N - 1)

ASSUME PipelineAssumption ==
    /\ N \in Nat /\ N >= 2              \* fewer stages are ErrTooFewStages
    /\ Items \in Nat /\ PipeCap \in Nat \ {0}
    /\ TimeoutSets \subseteq SUBSET Stages

VARIABLES
    ctx,        \* the caller's context: "live", "cancelled" or "expired"
    chainTimed, \* p.timeout > 0
    timed,      \* the stages with stage.timeout > 0
    chainDue,   \* the deadline of the chain ended runCtx
    due,        \* the stages whose own deadline ended their context
    pc,         \* where Output is
    next,       \* the stage the start loop is at
    parentEnds, \* the pipes whose two ends the parent holds
    alive,      \* the stages that run
    hung,       \* the stages that do nothing more
    kin,        \* the stages a descendant of which runs, holding its stdout and stderr
    spared,     \* history: the stages that a kill of the job failed to end, or a descendant
    ended,      \* how each stage ended
    todo,       \* items the first stage has still to write
    hold,       \* the stages that hold an item they have read
    pipe,       \* items in each pipe
    late,       \* waitDelay has elapsed
    unchecked,  \* the stages marked WithUncheckedInPipe
    result      \* what Output returned

ctxVars == <<ctx, chainTimed, timed, chainDue, due>>
codeVars == <<pc, next, parentEnds, late, unchecked, result>>
procVars == <<alive, hung, kin, spared, ended>>
dataVars == <<todo, hold, pipe>>
vars == <<ctxVars, codeVars, procVars, dataVars>>

\* A stage "failed" with a code that is no ok-code, or by a signal of somebody else.
Ends == {"none", "clean", "failed", "sigpipe", "killed"}
StageOutcomes == (Ends \ {"none"}) \cup {"timedOut"}
Results == [kind : {"none", "cancelled", "error", "chainTimeout"}]
             \cup [kind : {"stage"}, by : Stages, outcome : StageOutcomes, success : BOOLEAN]

TypeOK ==
    /\ ctx \in {"live", "cancelled", "expired"} /\ chainTimed \in BOOLEAN /\ chainDue \in BOOLEAN
    /\ timed \in TimeoutSets /\ due \subseteq timed
    /\ pc \in {"enter", "start", "failKill", "failWait", "close", "wait", "kill",
               "cancelled?", "timedOut?", "fold", "returned"}
    /\ next \in 1 .. (N + 1)
    /\ parentEnds \subseteq Pipes
    /\ alive \subseteq Stages /\ hung \subseteq Stages /\ kin \subseteq Stages
    /\ spared \subseteq Stages
    /\ ended \in [Stages -> Ends]
    /\ todo \in 0 .. Items /\ hold \subseteq Stages
    /\ pipe \in [Pipes -> 0 .. PipeCap]
    /\ late \in BOOLEAN
    /\ unchecked \subseteq Stages
    /\ result \in Results

Init ==
    /\ ctx = "live" /\ chainTimed \in BOOLEAN /\ timed \in TimeoutSets
    /\ chainDue = FALSE /\ due = {}
    /\ pc = "enter" /\ next = 1 /\ parentEnds = {}
    /\ alive = {} /\ hung = {} /\ kin = {} /\ spared = {}
    /\ ended = [i \in Stages |-> "none"]
    /\ todo = Items /\ hold = {} /\ pipe = [i \in Pipes |-> 0]
    /\ late = FALSE /\ unchecked = {}
    /\ result = [kind |-> "none"]

Running == pc # "returned"

-----------------------------------------------------------------------------
(* Contexts: the caller's, the chain's below it, the stages' below that *)

RunDone == ctx # "live" \/ chainDue
StageDone(i) == RunDone \/ i \in due

\* runCtx.Err() is DeadlineExceeded: the chain's deadline passed, or the caller's.
DeadlineSeen == chainDue \/ ctx = "expired"

CallerEnds ==
    /\ Running
    /\ ctx = "live"
    /\ ctx' \in {"cancelled", "expired"}
    /\ UNCHANGED <<chainTimed, timed, chainDue, due, codeVars, procVars, dataVars>>

ChainDeadline ==
    /\ Running
    /\ chainTimed /\ ~RunDone
    /\ chainDue' = TRUE
    /\ UNCHANGED <<ctx, chainTimed, timed, due, codeVars, procVars, dataVars>>

\* The context of a stage is made when the start loop reaches the stage and cancelled
\* when Output returns.
StageDeadline(i) ==
    /\ Running /\ pc # "enter"
    /\ i \in timed /\ i <= next /\ ~StageDone(i)
    /\ due' = due \cup {i}
    /\ UNCHANGED <<ctx, chainTimed, timed, chainDue, codeVars, procVars, dataVars>>

-----------------------------------------------------------------------------
(* The processes *)

Dies(i, how) ==
    /\ alive' = alive \ {i}
    /\ ended' = [ended EXCEPT ![i] = how]

HasWriter(p) == p \in alive \/ p \in kin \/ p \in parentEnds
HasReader(p) == p + 1 \in alive \/ p \in parentEnds

Works(i) == i \in alive /\ i \notin hung

Read(i) ==
    /\ Works(i) /\ i > 1 /\ i \notin hold
    /\ pipe[i - 1] > 0
    /\ pipe' = [pipe EXCEPT ![i - 1] = @ - 1]
    /\ hold' = hold \cup {i}
    /\ UNCHANGED <<ctxVars, codeVars, procVars, todo>>

HasItem(i) == IF i = 1 THEN todo > 0 ELSE i \in hold

WriteItem(i) ==
    /\ Works(i)
    /\ HasItem(i)
    /\ i < N => HasReader(i) /\ pipe[i] < PipeCap
    /\ pipe' = IF i < N THEN [pipe EXCEPT ![i] = @ + 1] ELSE pipe
    /\ todo' = IF i = 1 THEN todo - 1 ELSE todo
    /\ hold' = hold \ {i}
    /\ UNCHANGED <<ctxVars, codeVars, procVars>>

\* A write to a pipe without a reader.
BrokenPipe(i) ==
    /\ Works(i)
    /\ HasItem(i)
    /\ i < N /\ ~HasReader(i)
    /\ Dies(i, "sigpipe")
    /\ UNCHANGED <<ctxVars, codeVars, hung, kin, spared, dataVars>>

AtEOF(i) == i > 1 => pipe[i - 1] = 0 /\ ~HasWriter(i - 1)

\* A filter exits when it has written everything and its input has ended.
Finish(i) ==
    /\ Works(i)
    /\ ~HasItem(i) /\ AtEOF(i)
    /\ Dies(i, "clean") \/ Dies(i, "failed")
    /\ UNCHANGED <<ctxVars, codeVars, hung, kin, spared, dataVars>>

\* A stage may also exit early, hang, or leave a descendant behind.
Quit(i) ==
    /\ Works(i)
    /\ Dies(i, "clean") \/ Dies(i, "failed")
    /\ UNCHANGED <<ctxVars, codeVars, hung, kin, spared, dataVars>>

Hang(i) ==
    /\ Works(i)
    /\ hung' = hung \cup {i}
    /\ UNCHANGED <<ctxVars, codeVars, alive, kin, spared, ended, dataVars>>

Fork(i) ==
    /\ Works(i) /\ i \notin kin
    /\ kin' = kin \cup {i}
    /\ UNCHANGED <<ctxVars, codeVars, alive, hung, spared, ended, dataVars>>

KinExits(i) ==
    /\ i \in kin
    /\ kin' = kin \ {i}
    /\ UNCHANGED <<ctxVars, codeVars, alive, hung, spared, ended, dataVars>>

\* exec's watcher kills the direct child of a stage whose context is done.
StageKill(i) ==
    /\ i \in alive
    /\ StageDone(i)
    /\ Dies(i, "killed")
    /\ UNCHANGED <<ctxVars, codeVars, hung, kin, spared, dataVars>>

Progress(i) == Read(i) \/ WriteItem(i) \/ BrokenPipe(i) \/ Finish(i)

-----------------------------------------------------------------------------
(* Output *)

codeOther == <<ctxVars, procVars, dataVars>>

Return(r) ==
    /\ result' = r
    /\ pc' = "returned"

CancelOr(r) == IF ctx # "live" THEN [kind |-> "cancelled"] ELSE r

Enter ==
    /\ pc = "enter"
    /\ IF ctx # "live"
       THEN Return([kind |-> "cancelled"])
       ELSE pc' = "start" /\ UNCHANGED result
    /\ UNCHANGED <<codeOther, next, parentEnds, late, unchecked>>

JobFails ==
    /\ pc = "enter" /\ ctx = "live"
    /\ Return([kind |-> "error"])
    /\ UNCHANGED <<codeOther, next, parentEnds, late, unchecked>>

OpenPipe == parentEnds' = parentEnds \cup ({next} \cap Pipes)

StartStage ==
    /\ pc = "start" /\ next <= N
    /\ ~StageDone(next)
    /\ OpenPipe
    /\ alive' = alive \cup {next}
    /\ next' = next + 1
    /\ UNCHANGED <<ctxVars, hung, kin, spared, ended, dataVars, pc, late, unchecked, result>>

\* os.Pipe, Configure, Start or Assign fails; exec's Start refuses a context that is
\* done.  A child that could not be assigned is terminated.
StageFails ==
    /\ pc = "start" /\ next <= N
    /\ OpenPipe
    /\ pc' = "failKill"
    /\ UNCHANGED <<codeOther, next, late, unchecked, result>>

AllStarted ==
    /\ pc = "start" /\ next = N + 1
    /\ pc' = "close"
    /\ UNCHANGED <<codeOther, next, parentEnds, late, unchecked, result>>

\* job.Kill, which may fail to end some; its error is ignored.
JobKill ==
    /\ alive' \in SUBSET alive /\ kin' \in SUBSET kin
    /\ spared' = spared \cup alive' \cup kin'
    /\ ended' = [i \in Stages |-> IF i \in alive \ alive' THEN "killed" ELSE ended[i]]
    /\ UNCHANGED <<ctxVars, hung, dataVars>>

\* fail: the parent's ends are closed before the stages are waited for.  The mutant
\* forgets the job.
FailKillMutant ==
    /\ pc = "failKill"
    /\ parentEnds' = {}
    /\ pc' = "failWait"
    /\ UNCHANGED <<codeOther, next, late, unchecked, result>>
FailKill ==
    /\ pc = "failKill"
    /\ JobKill
    /\ parentEnds' = {}
    /\ pc' = "failWait"
    /\ UNCHANGED <<next, late, unchecked, result>>

FailWait ==
    /\ pc = "failWait"
    /\ alive = {} /\ (late \/ kin = {})
    /\ Return(CancelOr([kind |-> "error"]))
    /\ UNCHANGED <<codeOther, next, parentEnds, late, unchecked>>

\* Without this the reader of a pipe never sees its end, nor the writer a broken pipe.
CloseEndsMutant ==
    /\ pc = "close"
    /\ pc' = "wait"
    /\ UNCHANGED <<codeOther, next, parentEnds, late, unchecked, result>>
CloseEnds ==
    /\ pc = "close"
    /\ parentEnds' = {}
    /\ pc' = "wait"
    /\ UNCHANGED <<codeOther, next, late, unchecked, result>>

\* DelayElapsesMutant: WaitDelay is not set.
DelayElapsesMutant == FALSE /\ late' = late /\ UNCHANGED <<codeOther, pc, next, parentEnds, unchecked, result>>
DelayElapses ==
    /\ pc \in {"wait", "failWait"}
    /\ alive = {} /\ ~late
    /\ late' = TRUE
    /\ UNCHANGED <<codeOther, pc, next, parentEnds, unchecked, result>>

\* wg.Wait: every cmd.Wait has returned.
WaitAll ==
    /\ pc = "wait"
    /\ alive = {} /\ (late \/ kin = {})
    /\ pc' = "kill"
    /\ UNCHANGED <<codeOther, next, parentEnds, late, unchecked, result>>

KillTree ==
    /\ pc = "kill"
    /\ JobKill
    /\ pc' = "cancelled?"
    /\ UNCHANGED <<next, parentEnds, late, unchecked, result>>

CheckCancel ==
    /\ pc = "cancelled?"
    /\ IF ctx # "live"
       THEN Return([kind |-> "cancelled"])
       ELSE pc' = "timedOut?" /\ UNCHANGED result
    /\ UNCHANGED <<codeOther, next, parentEnds, late, unchecked>>

\* The whole-chain deadline is left to the stages.
CheckTimeoutMutant ==
    /\ pc = "timedOut?"
    /\ pc' = "fold"
    /\ UNCHANGED <<codeOther, next, parentEnds, late, unchecked, result>>
CheckTimeout ==
    /\ pc = "timedOut?"
    /\ IF chainTimed /\ DeadlineSeen
       THEN Return([kind |-> "chainTimeout"])
       ELSE pc' = "fold" /\ UNCHANGED result
    /\ UNCHANGED <<codeOther, next, parentEnds, late, unchecked>>

-----------------------------------------------------------------------------
(* The fold: resolveOutcome for each stage, then pipefail *)

\* stageCtxs[i].Err() is DeadlineExceeded: by the stage's own deadline, or by another when
\* it passes after the chain has been looked at.
Outcome(i) == IF i \in due \/ (i \in timed /\ DeadlineSeen) THEN "timedOut" ELSE ended[i]

Clean(i) == Outcome(i) = "clean"

Least(S) == CHOOSE i \in S : \A j \in S : i <= j

\* failures, in stage order
Failed(u) == {i \in Stages \ u : ~Clean(i)}

\* The first failure is blamed, a victim or not.
BlamedMutant(u) == IF Failed(u) = {} THEN N ELSE Least(Failed(u))
Blamed(u) ==
    LET culprits == {i \in Failed(u) : Outcome(i) # "sigpipe"}
    IN  IF culprits # {} THEN Least(culprits)
        ELSE IF Failed(u) # {} THEN Least(Failed(u)) ELSE N

\* The code of an unchecked last stage joins the ok-codes when nobody failed; a signal has
\* no code.
Forgiven(u, coded) == Failed(u) = {} /\ N \in u /\ Outcome(N) = "failed" /\ coded

Fold ==
    /\ pc = "fold"
    /\ \E u \in SUBSET Stages, coded \in BOOLEAN :
          /\ unchecked' = u
          /\ Return([kind |-> "stage", by |-> Blamed(u), outcome |-> Outcome(Blamed(u)),
                     success |-> Clean(Blamed(u)) \/ Forgiven(u, coded)])
    /\ UNCHANGED <<codeOther, next, parentEnds, late>>

Output ==
    \/ Enter \/ JobFails \/ StartStage \/ StageFails \/ AllStarted \/ FailKill \/ FailWait
    \/ CloseEnds \/ WaitAll \/ KillTree \/ CheckCancel \/ CheckTimeout \/ Fold

Next ==
    \/ Output \/ DelayElapses
    \/ CallerEnds \/ ChainDeadline
    \/ \E i \in Stages :
          \/ StageDeadline(i) \/ StageKill(i) \/ Progress(i)
          \/ Quit(i) \/ Hang(i) \/ Fork(i) \/ KinExits(i)

\* The caller's goroutine, exec's watchers and waitDelay run.  A stage that neither
\* hangs nor exits early works until its input ends.
Fairness ==
    /\ WF_vars(Output) /\ WF_vars(DelayElapses)
    /\ \A i \in Stages : WF_vars(StageKill(i)) /\ WF_vars(Progress(i))

Spec == Init /\ [][Next]_vars /\ Fairness

-----------------------------------------------------------------------------

\* Whatever fails, and whichever stage it is: when Output has returned no stage runs and
\* no descendant but of those that job.Kill failed to end (pipeline.go:137,222), and the
\* parent holds no end of a pipe.
NothingIsLeft == ~Running => alive = {} /\ kin \subseteq spared /\ parentEnds = {}

\* A chain that is reported by a stage's verdict was not cut short: a stage that was
\* killed had passed its own deadline, and is reported as timed out.
KillIsExplained ==
    result.kind = "stage" =>
        \A i \in Stages : ended[i] = "killed" => i \in due /\ Outcome(i) = "timedOut"

\* bash's pipefail, leftmost first, with victims of a broken pipe after culprits
\* (pipeline.go:330-335): a successful chain has no checked failure, the stage blamed
\* is a checked failure when there is one, and to its left there are only victims; a
\* victim is blamed only when nobody else failed.
BlameIsRight ==
    result.kind = "stage" =>
        LET b == result.by
            bad(i) == i \notin unchecked /\ ~Clean(i)
        IN  /\ result.success => \A i \in Stages : ~bad(i)
            /\ (\E i \in Stages : bad(i)) => bad(b)
            /\ \A i \in 1 .. (b - 1) : bad(i) => Outcome(i) = "sigpipe"
            /\ bad(b) /\ Outcome(b) = "sigpipe" =>
                  \A i \in Stages : bad(i) => Outcome(i) = "sigpipe" /\ b <= i

\* A stage's own timeout "kills only that stage and is attributed to it"
\* (pipeline.go:58-59): a stage that exited cleanly before its deadline, while the
\* chain went on, is not reported as timed out.
CleanStageIsNotTimedOut ==
    \A i \in Stages :
        [](ended[i] = "clean" /\ i \notin due /\ alive # {} =>
              [](result.kind = "stage" /\ result.by = i /\ ctx = "live" => result.outcome # "timedOut"))

\* Filters finish, readers see the end of their input and writers a reader that has
\* gone: a chain in which nobody hangs or leaves a descendant behind is waited for, and
\* so is what the kill of a chain that failed to start has spared (pipeline.go:138-140).
Waiting == pc \in {"wait", "failWait"}
FiltersFinish == Waiting ~> ~Waiting \/ hung # {} \/ kin # {}

\* The caller's context and the chain's deadline end the chain, whoever hangs and
\* whatever a descendant holds open.
CutEnds == RunDone ~> ~Running
=============================================================================
