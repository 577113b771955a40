------------------------------ MODULE Observers -----------------------------
(***************************************************************************)
(* Who watches a RunningProcess from other goroutines: Wait, WaitAny and   *)
(* WaitAll (batch.go), the poll-based probes (probe.go) and Profile with   *)
(* its sampler (stats.go), against the reaper that publishes the end of    *)
(* the process (running.go).  OutputAll and its semaphore are here too,    *)
(* and so is the sampler of Group.SampleStats with the reader of its       *)
(* channel.                                                                *)
(*                                                                         *)
(* Observers only read, so one of them is observed at a time.              *)
(***************************************************************************)
EXTENDS Naturals, FiniteSets, Functions

CONSTANTS P,        \* processes 1 .. P, in the order in which a caller lists them
          Slots,    \* OutputAll: concurrency
          MaxTicks  \* bound: ticks of a sampler

Procs == 1 .. P

ASSUME ObserversAssumption == P \in Nat \ {0} /\ Slots \in Nat \ {0} /\ MaxTicks \in Nat

VARIABLES
    ctx,      \* the observer's context: "live" or "done"
    stage,    \* where the reaper of each process is
    pid,      \* whose process the pid of each handle is: "own", "none", "other"
    outcome,  \* p.outcome, or "waitErr" when p.waitErr is set instead
    kind,     \* the observer
    pc,       \* where its caller is
    seen,     \* the outcomes collected, by process
    answer,   \* what it returned
    sampler,  \* where the sampler goroutine of Profile or SampleStats is
    reading,  \* whose metrics it has just read
    samples,  \* whose metrics it has kept
    ticks     \* ticks taken

procVars == <<stage, pid, outcome>>
obsVars == <<kind, pc, seen, answer>>
samplerVars == <<sampler, reading, samples, ticks>>
vars == <<ctx, procVars, obsVars, samplerVars>>

Kinds == {"WaitAny", "WaitAll", "Profile", "WaitFor", "OutputAll", "SampleStats"}
Stages == {"running", "zombie", "reaped", "written", "done"}

TypeOK ==
    /\ ctx \in {"live", "done"}
    /\ stage \in [Procs -> Stages]
    /\ pid \in [Procs -> {"own", "none", "other"}]
    /\ outcome \in [Procs -> {"none", "exited", "waitErr"}]
    /\ kind \in Kinds
    /\ pc \in {"wait", "check", "exited?", "late?", "sleep", "join", "returned"}
    /\ seen \in [Procs -> {"unseen", "none", "exited", "waitErr", "error"}]
    /\ answer \in {"none", "outcome", "waitErr", "ctxErr", "ready", "exited", "notReady", "batch",
                  "closed", "left"}
    /\ sampler \in {"off", "select", "check", "read", "recheck", "keep", "stopped",
                   "stats", "send", "rest"}
    /\ reading \in {"none", "own", "other"}
    /\ samples \subseteq {"own", "other"}
    /\ ticks \in 0 .. MaxTicks

Init ==
    /\ ctx = "live"
    /\ kind \in Kinds
    /\ stage = [i \in Procs |-> "running"]
    /\ pid = [i \in Procs |-> "own"] /\ outcome = [i \in Procs |-> "none"]
    /\ pc = IF kind = "WaitFor" THEN "check" ELSE "wait"
    /\ seen = [i \in Procs |-> "unseen"] /\ answer = "none"
    /\ sampler = CASE kind = "Profile"     -> "select"
                   [] kind = "SampleStats" -> "stats"
                   [] OTHER                -> "off"
    /\ reading = "none" /\ samples = {} /\ ticks = 0

CtxDone ==
    /\ ctx = "live" /\ ctx' = "done"
    /\ UNCHANGED <<procVars, obsVars, samplerVars>>

-----------------------------------------------------------------------------
(* The process and its reaper *)

Step(i, from, to) ==
    /\ stage[i] = from
    /\ stage' = [stage EXCEPT ![i] = to]
    /\ UNCHANGED <<ctx, obsVars, samplerVars>>

Exit(i) == Step(i, "running", "zombie") /\ UNCHANGED <<pid, outcome>>

\* The wait4 of cmd.Wait gives the pid back.
WaitPid(i) ==
    /\ Step(i, "zombie", "reaped")
    /\ pid' = [pid EXCEPT ![i] = "none"]
    /\ UNCHANGED outcome

\* Without a ProcessState the wait has failed.
WriteOutcome(i) ==
    /\ Step(i, "reaped", "written")
    /\ \E end \in {"exited", "waitErr"} : outcome' = [outcome EXCEPT ![i] = end]
    /\ UNCHANGED pid

CloseDone(i) == Step(i, "written", "done") /\ UNCHANGED <<pid, outcome>>

Recycle(i) ==
    /\ pid[i] = "none"
    /\ pid' = [pid EXCEPT ![i] = "other"]
    /\ UNCHANGED <<ctx, stage, outcome, obsVars, samplerVars>>

\* <-p.done; the mutant takes the end of the process for its publication.
DoneMutant(i) == stage[i] \in {"reaped", "written", "done"}
Done(i) == stage[i] = "done"

-----------------------------------------------------------------------------
(* WaitAny and WaitAll; Wait is WaitAny of one process *)

obsOther == <<ctx, procVars, kind, samplerVars>>

Return(a) == answer' = a /\ pc' = "returned"

\* A select over done and ctx.Done() takes either when both are ready.
CtxReturns ==
    /\ pc \in {"wait", "sleep"} /\ kind \in {"WaitAny", "WaitAll", "WaitFor"}
    /\ ctx = "done"
    /\ Return("ctxErr")
    /\ UNCHANGED <<obsOther, seen>>

See(i) == seen' = [seen EXCEPT ![i] = outcome[i]]

Answer(i) == IF outcome[i] = "waitErr" THEN "waitErr" ELSE "outcome"

AnyReturns ==
    /\ kind = "WaitAny" /\ pc = "wait"
    /\ \E i \in Procs : Done(i) /\ See(i) /\ Return(Answer(i))
    /\ UNCHANGED obsOther

\* Processes are waited for in input order, until one could not be.
AllNext ==
    /\ kind = "WaitAll" /\ pc = "wait"
    /\ \E i \in Procs :
          /\ seen[i] = "unseen" /\ \A j \in 1 .. (i - 1) : seen[j] # "unseen"
          /\ Done(i)
          /\ See(i)
          /\ IF i = P \/ outcome[i] = "waitErr"
             THEN Return(Answer(i))
             ELSE UNCHANGED <<answer, pc>>
    /\ UNCHANGED obsOther

-----------------------------------------------------------------------------
(* pollUntil, for WaitFor and WaitForPort on process 1 *)

At(k, from) == kind = k /\ pc = from /\ UNCHANGED <<obsOther, seen>>

PollCheck ==
    /\ At("WaitFor", "check")
    /\ Return("ready") \/ (pc' = "exited?" /\ UNCHANGED answer)

\* The mutant asks only the deadline.
PollExitedMutant ==
    /\ At("WaitFor", "exited?")
    /\ pc' = "late?" /\ UNCHANGED answer
PollExited ==
    /\ At("WaitFor", "exited?")
    /\ IF Done(1) THEN Return("exited") ELSE pc' = "late?" /\ UNCHANGED answer

PollLate ==
    /\ At("WaitFor", "late?")
    /\ Return("notReady") \/ (pc' = "sleep" /\ UNCHANGED answer)

PollWakes == At("WaitFor", "sleep") /\ pc' = "check" /\ UNCHANGED answer

-----------------------------------------------------------------------------
(* Profile of process 1 *)

samplerOther == <<ctx, procVars, obsVars>>

SamplerAt(from, to) ==
    /\ sampler = from /\ sampler' = to
    /\ UNCHANGED samplerOther

SamplerStops ==
    /\ \/ SamplerAt("select", "stopped") /\ (Done(1) \/ ctx = "done")
       \/ (SamplerAt("send", "stopped") \/ SamplerAt("rest", "stopped")) /\ ctx = "done"
    /\ UNCHANGED <<reading, samples, ticks>>

\* The ticker may win the select although the process is done.
Tick ==
    /\ ticks < MaxTicks
    /\ SamplerAt("select", "check") \/ SamplerAt("rest", "stats")
    /\ ticks' = ticks + 1
    /\ UNCHANGED <<reading, samples>>

SampleCheck ==
    /\ SamplerAt("check", IF Done(1) THEN "select" ELSE "read")
    /\ UNCHANGED <<reading, samples, ticks>>

\* /proc of a pid that nobody has yields no metric.
SampleRead ==
    /\ SamplerAt("read", "recheck")
    /\ reading' = pid[1]
    /\ UNCHANGED <<samples, ticks>>

\* The mutant drops the check after the read.
SampleRecheckMutant ==
    /\ SamplerAt("recheck", "keep")
    /\ UNCHANGED <<reading, samples, ticks>>
SampleRecheck ==
    /\ SamplerAt("recheck", IF Done(1) THEN "select" ELSE "keep")
    /\ UNCHANGED <<reading, samples, ticks>>

\* HasCPU and HasMem are false for a pid that nobody has.
SampleKeep ==
    /\ SamplerAt("keep", "select")
    /\ samples' = samples \cup ({reading} \ {"none"})
    /\ UNCHANGED <<reading, ticks>>

\* p.Wait
ProfileWaits ==
    /\ At("Profile", "wait")
    /\ Done(1) \/ ctx = "done"
    /\ pc' = "join" /\ UNCHANGED answer

\* <-sampleDone
Join ==
    /\ At("Profile", "join")
    /\ sampler = "stopped"
    /\ Return("outcome")

-----------------------------------------------------------------------------
(* SampleStats: the sampler hands each snapshot to the reader of its channel *)

\* g.Stats; a sample that fails closes the channel.
SampleGroup ==
    /\ SamplerAt("stats", "send") \/ SamplerAt("stats", "stopped")
    /\ UNCHANGED <<reading, samples, ticks>>

\* The channel has no buffer: the two meet.
Receive ==
    /\ kind = "SampleStats" /\ pc = "wait"
    /\ sampler = "send" /\ sampler' = "rest"
    /\ UNCHANGED <<ctx, procVars, obsVars, reading, samples, ticks>>

ReaderEnds ==
    /\ At("SampleStats", "wait")
    /\ sampler = "stopped"
    /\ Return("closed")

\* A reader may leave without draining.
ReaderLeaves == At("SampleStats", "wait") /\ Return("left")

-----------------------------------------------------------------------------
(* OutputAll over P commands: "exited" in seen is a collected result *)

\* A command runs under the context, so its run ends by itself or with it.
Holding == {i \in Procs : seen[i] = "none"}

Acquire(i) ==
    /\ kind = "OutputAll" /\ pc = "wait"
    /\ seen[i] = "unseen" /\ Cardinality(Holding) < Slots
    /\ seen' = [seen EXCEPT ![i] = "none"]
    /\ UNCHANGED <<obsOther, answer, pc>>

Collect(i) ==
    /\ kind = "OutputAll" /\ i \in Holding
    /\ \/ Done(i) /\ seen' = [seen EXCEPT ![i] = IF outcome[i] = "exited" THEN "exited" ELSE "error"]
       \/ ctx = "done" /\ seen' = [seen EXCEPT ![i] = "error"]
    /\ UNCHANGED <<obsOther, answer, pc>>

BatchReturns ==
    /\ At("OutputAll", "wait")
    /\ Range(seen) \subseteq {"exited", "error"}
    /\ Return("batch")

-----------------------------------------------------------------------------

Observe ==
    \/ CtxReturns \/ AnyReturns \/ AllNext \/ PollExited \/ PollLate \/ PollCheck \/ PollWakes
    \/ ProfileWaits \/ Join \/ BatchReturns \/ Receive \/ ReaderEnds
    \/ \E i \in Procs : Acquire(i) \/ Collect(i)

Sample == SampleGroup \/ SampleCheck \/ SampleRead \/ SampleRecheck \/ SampleKeep

Reap(i) == WaitPid(i) \/ WriteOutcome(i) \/ CloseDone(i)

Next ==
    \/ CtxDone \/ Observe \/ Sample \/ Tick \/ SamplerStops \/ ReaderLeaves
    \/ \E i \in Procs : Exit(i) \/ Reap(i) \/ Recycle(i)

\* Goroutines run; a select that finds the context or a done channel ready in round
\* after round takes it in the end.  A process need not exit, a check need not pass
\* and a deadline need not be near.
Fairness ==
    /\ WF_vars(Observe) /\ WF_vars(Sample) /\ SF_vars(SamplerStops)
    /\ SF_vars(CtxReturns)
    /\ \A i \in Procs : WF_vars(Reap(i))

Spec == Init /\ [][Next]_vars /\ Fairness

-----------------------------------------------------------------------------

\* Outcomes and wait errors are read without a lock, after done (batch.go:28-29,
\* running.go:54-55): no observer returns one that the reaper has not written.  WaitAll
\* returns them all, or "the first process's wait error", with every process before it
\* seen and none after (batch.go:35-38).
OutcomeIsPublished ==
    answer \in {"outcome", "waitErr"} /\ kind \in {"WaitAny", "WaitAll"} =>
        /\ Range(seen) \subseteq {"unseen", "exited", "waitErr"}
        /\ answer = "outcome" => "waitErr" \notin Range(seen)
        /\ answer = "outcome" /\ kind = "WaitAll" => "unseen" \notin Range(seen)
        /\ answer = "outcome" /\ kind = "WaitAny" => "exited" \in Range(seen)
        /\ answer = "waitErr" =>
              \E i \in Procs :
                  /\ seen[i] = "waitErr"
                  /\ kind = "WaitAll" => \A j \in Procs \ {i} :
                                            seen[j] = IF j < i THEN "exited" ELSE "unseen"

\* The profile that Profile returns changes no more, and the metrics of a process that
\* was given a recycled pid get into it only where done cannot tell yet: between the
\* wait4 of the reaper and close(done).  The second look at done keeps a read out that
\* the end of the process overtook (stats.go:190-196).
ProfileIsHonest ==
    [][/\ kind = "Profile" /\ pc = "returned" => UNCHANGED samplerVars
       /\ sampler # "keep" /\ sampler' = "keep" /\ reading = "other" =>
             stage[1] \in {"reaped", "written"}]_vars

\* Once every process has exited, or the context is done, every observer returns: a
\* probe that cannot pass any more says so promptly (probe.go:107-109).  SampleStats
\* ends by its context only, and then its sampler ends too, whatever its reader does.
ObserverReturns ==
    ctx = "done" \/ (kind # "SampleStats" /\ \A i \in Procs : stage[i] # "running")
        ~> pc = "returned" /\ sampler \in {"off", "stopped"}
=============================================================================
