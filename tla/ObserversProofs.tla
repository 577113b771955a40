-------------------------- MODULE ObserversProofs ---------------------------
(***************************************************************************)
(* Proofs about Observers.tla, for any number of processes, slots and      *)
(* ticks, whichever observer watches and however pids are given away.      *)
(***************************************************************************)
EXTENDS Observers, TLAPS

\* The outcome, or the error of the wait, is written before done is closed, and a pid is given away only after wait4.
ReaperInv ==
    \A i \in Procs :
        /\ stage[i] \in {"written", "done"} => outcome[i] \in {"exited", "waitErr"}
        /\ pid[i] # "own" => stage[i] \in {"reaped", "written", "done"}

\* What the waiters have seen, while they wait and when they return it.
WaiterInv ==
    /\ answer \in {"outcome", "waitErr"} => pc = "returned"
    /\ kind = "WaitAny" /\ pc = "wait" => \A i \in Procs : seen[i] = "unseen"
    /\ kind = "WaitAll" /\ pc = "wait" =>
          \A i \in Procs :
              /\ seen[i] \in {"unseen", "exited"}
              /\ seen[i] = "exited" => \A j \in 1 .. (i - 1) : seen[j] = "exited"
    /\ kind \in {"WaitAny", "WaitAll"} /\ answer = "outcome" =>
          /\ \A i \in Procs : seen[i] \in {"unseen", "exited"}
          /\ kind = "WaitAll" => \A i \in Procs : seen[i] = "exited"
          /\ kind = "WaitAny" => \E i \in Procs : seen[i] = "exited"
    /\ kind \in {"WaitAny", "WaitAll"} /\ answer = "waitErr" =>
          \E i \in Procs :
              /\ seen[i] = "waitErr"
              /\ \A j \in Procs \ {i} :
                    /\ seen[j] \in {"unseen", "exited"}
                    /\ kind = "WaitAll" => seen[j] = IF j < i THEN "exited" ELSE "unseen"

\* A profile is returned when its sampler has stopped, and a reading of another process is
\* made after the wait4 of this one.
SamplerInv ==
    /\ kind = "Profile" /\ pc = "returned" => sampler = "stopped"
    /\ reading = "other" => stage[1] \in {"reaped", "written", "done"}

ObserverInv == TypeOK /\ ReaperInv /\ WaiterInv /\ SamplerInv

\* A process only moves on, and what was published stays so.
LEMMA ProcSteps ==
    ASSUME ObserverInv, NEW i \in Procs, Exit(i) \/ Reap(i) \/ Recycle(i)
    PROVE  ObserverInv'
  <1>1. /\ UNCHANGED <<ctx, obsVars, samplerVars>>
        /\ \A j \in Procs \ {i} : stage'[j] = stage[j] /\ pid'[j] = pid[j]
                                    /\ outcome'[j] = outcome[j]
        /\ \/ stage[i] = "running" /\ stage'[i] = "zombie" /\ pid'[i] = pid[i]
                /\ outcome'[i] = outcome[i]
           \/ stage[i] = "zombie" /\ stage'[i] = "reaped" /\ pid'[i] = "none"
                /\ outcome'[i] = outcome[i]
           \/ stage[i] = "reaped" /\ stage'[i] = "written" /\ pid'[i] = pid[i]
                /\ outcome'[i] \in {"exited", "waitErr"}
           \/ stage[i] = "written" /\ stage'[i] = "done" /\ pid'[i] = pid[i]
                /\ outcome'[i] = outcome[i]
           \/ stage'[i] = stage[i] /\ pid[i] = "none" /\ pid'[i] = "other"
                /\ outcome'[i] = outcome[i]
    <2>1. CASE Exit(i) \/ Recycle(i)
      BY <2>1 DEF Exit, Recycle, Step, ObserverInv, TypeOK
    <2>2. CASE Reap(i)
      BY <2>2 DEF Reap, WaitPid, WriteOutcome, CloseDone, Step, ObserverInv, TypeOK
    <2> QED BY <2>1, <2>2
  <1>2. TypeOK'
    <2>1. /\ stage' \in [Procs -> Stages] /\ pid' \in [Procs -> {"own", "none", "other"}]
          /\ outcome' \in [Procs -> {"none", "exited", "waitErr"}]
      BY DEF Exit, Reap, WaitPid, WriteOutcome, CloseDone, Recycle, Step, ObserverInv, TypeOK,
             Stages
    <2> QED BY <1>1, <2>1 DEF ObserverInv, TypeOK, obsVars, samplerVars
  <1>3. ReaperInv'
    BY <1>1 DEF ObserverInv, ReaperInv
  <1>4. WaiterInv'
    BY <1>1 DEF ObserverInv, WaiterInv, obsVars
  <1>5. SamplerInv'
    <2>1. 1 \in Procs
      BY ObserversAssumption DEF Procs
    <2>2. stage[1] \in {"reaped", "written", "done"} => stage'[1] \in {"reaped", "written", "done"}
      <3>1. CASE i = 1
        BY <1>1, <3>1
      <3>2. CASE i # 1
        BY <1>1, <2>1, <3>2
      <3> QED BY <3>1, <3>2
    <2> QED BY <1>1, <2>2 DEF ObserverInv, SamplerInv, obsVars, samplerVars
  <1> QED BY <1>2, <1>3, <1>4, <1>5 DEF ObserverInv

\* The waiters read what done has published, WaitAll in input order and up to the first
\* process that could not be waited for.
LEMMA WaiterSteps ==
    ASSUME ObserverInv, AnyReturns \/ AllNext
    PROVE  ObserverInv'
  <1>1. PICK i \in Procs :
          /\ Done(i) /\ See(i) /\ UNCHANGED obsOther /\ pc = "wait"
          /\ \/ kind = "WaitAny" /\ Return(Answer(i))
             \/ /\ kind = "WaitAll" /\ seen[i] = "unseen"
                /\ \A j \in 1 .. (i - 1) : seen[j] # "unseen"
                /\ IF i = P \/ outcome[i] = "waitErr" THEN Return(Answer(i))
                                                     ELSE UNCHANGED <<answer, pc>>
    BY DEF AnyReturns, AllNext
  <1>2. /\ outcome[i] \in {"exited", "waitErr"}
        /\ seen'[i] = outcome[i] /\ \A j \in Procs \ {i} : seen'[j] = seen[j]
        /\ seen' \in [Procs -> {"unseen", "none", "exited", "waitErr", "error"}]
    <2>1. outcome[i] \in {"exited", "waitErr"}
      BY <1>1 DEF Done, ObserverInv, ReaperInv
    <2> QED BY <1>1, <2>1 DEF See, ObserverInv, TypeOK
  <1>3. /\ UNCHANGED <<ctx, procVars, kind, samplerVars>> /\ kind # "Profile"
        /\ pc' \in {pc, "returned"} /\ answer' \in {answer, "outcome", "waitErr"}
    BY <1>1 DEF obsOther, Return, Answer
  <1>4. TypeOK'
    BY <1>2, <1>3 DEF ObserverInv, TypeOK, procVars, samplerVars
  <1>5. ReaperInv' /\ SamplerInv'
    BY <1>3 DEF ObserverInv, ReaperInv, SamplerInv, procVars, samplerVars
  <1>6. answer \notin {"outcome", "waitErr"}
    BY <1>1 DEF ObserverInv, WaiterInv
  <1>7. CASE kind = "WaitAny"
    <2>1. /\ pc' = "returned" /\ answer' = Answer(i)
          /\ \A j \in Procs \ {i} : seen'[j] = "unseen"
      BY <1>1, <1>2, <1>7 DEF ObserverInv, WaiterInv, Return
    <2>2. WaiterInv'
      BY <1>2, <1>3, <1>7, <2>1 DEF WaiterInv, Answer
    <2> QED BY <1>4, <1>5, <2>2 DEF ObserverInv
  <1>8. CASE kind = "WaitAll"
    <2>1. \A j \in Procs : j = i \/ j \in 1 .. (i - 1) \/ (i < j /\ i \in 1 .. (j - 1))
      BY DEF Procs
    <2>2. \A j \in 1 .. (i - 1) : j \in Procs /\ j < i
      BY ObserversAssumption DEF Procs, ObserversAssumption
    <2>0. \A k \in Procs :
            /\ seen[k] \in {"unseen", "exited"}
            /\ seen[k] = "exited" => \A j \in 1 .. (k - 1) : seen[j] = "exited"
      <3>1. kind = "WaitAll" /\ pc = "wait"
        BY <1>1, <1>8
      <3> QED BY <3>1 DEF ObserverInv, WaiterInv
    <2>3. \A j \in Procs \ {i} : seen[j] = IF j < i THEN "exited" ELSE "unseen"
      <3>1. seen[i] = "unseen" /\ \A j \in 1 .. (i - 1) : seen[j] # "unseen"
        BY <1>1, <1>8
      <3>2. \A j \in 1 .. (i - 1) : seen[j] = "exited"
        BY <2>0, <2>2, <3>1
      <3>3. ASSUME NEW j \in Procs, i < j PROVE seen[j] = "unseen"
        <4>1. i \in 1 .. (j - 1)
          BY <3>3 DEF Procs
        <4> QED BY <2>0, <3>1, <4>1
      <3> QED BY <2>1, <3>2, <3>3 DEF Procs
    <2>4. \A j \in Procs : j < i => j \in 1 .. (i - 1)
      BY DEF Procs
    <2>5. CASE outcome[i] = "waitErr"
      <3>1. pc' = "returned" /\ answer' = "waitErr" /\ seen'[i] = "waitErr"
        BY <1>1, <1>2, <1>8, <2>5 DEF Return, Answer
      <3>2. WaiterInv'
        BY <1>2, <1>3, <1>8, <2>3, <3>1 DEF WaiterInv
      <3> QED BY <1>4, <1>5, <3>2 DEF ObserverInv
    <2>6. CASE outcome[i] # "waitErr" /\ i = P
      <3>1. pc' = "returned" /\ answer' = "outcome" /\ seen'[i] = "exited"
        BY <1>1, <1>2, <1>8, <2>6 DEF Return, Answer
      <3>2. \A j \in Procs : seen'[j] = "exited"
        BY <1>2, <2>3, <2>6, <3>1 DEF Procs
      <3>3. WaiterInv'
        BY <1>3, <1>8, <3>1, <3>2 DEF WaiterInv
      <3> QED BY <1>4, <1>5, <3>3 DEF ObserverInv
    <2>7. CASE outcome[i] # "waitErr" /\ i # P
      <3>1. UNCHANGED <<pc, answer>> /\ seen'[i] = "exited"
        BY <1>1, <1>2, <1>8, <2>7
      <3>2. \A j \in Procs : seen'[j] = IF j <= i THEN "exited" ELSE "unseen"
        BY <1>2, <2>3, <3>1 DEF Procs
      <3>3. ASSUME NEW j \in Procs, seen'[j] = "exited", NEW k \in 1 .. (j - 1)
            PROVE  seen'[k] = "exited"
        <4>1. j <= i
          BY <3>2, <3>3
        <4>2. k \in Procs /\ k <= i
          BY <4>1, ObserversAssumption DEF Procs, ObserversAssumption
        <4> QED BY <3>2, <4>2
      <3>4. WaiterInv'
        BY <1>1, <1>3, <1>6, <1>8, <3>1, <3>2, <3>3 DEF WaiterInv
      <3> QED BY <1>4, <1>5, <3>4 DEF ObserverInv
    <2> QED BY <2>5, <2>6, <2>7
  <1> QED BY <1>1, <1>7, <1>8

\* The other steps of the observer's own goroutine.
LEMMA CallerSteps ==
    ASSUME ObserverInv,
           \/ CtxDone \/ CtxReturns \/ PollExited \/ PollLate \/ PollCheck \/ PollWakes
           \/ ProfileWaits \/ Join \/ BatchReturns \/ ReaderEnds \/ ReaderLeaves
           \/ \E i \in Procs : Acquire(i) \/ Collect(i)
    PROVE  ObserverInv'
  <1>1. /\ UNCHANGED <<procVars, kind, samplerVars>> /\ ctx' \in {"live", "done"}
        /\ pc' \in {"wait", "check", "exited?", "late?", "sleep", "join", "returned"}
        /\ answer' \in {"none", "outcome", "waitErr", "ctxErr", "ready", "exited", "notReady",
                        "batch", "closed", "left"}
        /\ answer' \in {"outcome", "waitErr"} => pc' = "returned"
        /\ kind = "Profile" /\ pc' = "returned" => sampler = "stopped"
        /\ \/ UNCHANGED <<pc, answer, seen>>
           \/ UNCHANGED seen /\ answer' \notin {"outcome", "waitErr"} /\ pc' = "returned"
           \/ kind \notin {"WaitAny", "WaitAll"}
        /\ seen' \in [Procs -> {"unseen", "none", "exited", "waitErr", "error"}]
    <2>1. CASE CtxDone \/ CtxReturns
      BY <2>1 DEF CtxDone, CtxReturns, Return, obsOther, obsVars, ObserverInv, TypeOK, SamplerInv,
                  WaiterInv
    <2>2. CASE PollExited \/ PollLate \/ PollCheck \/ PollWakes
      BY <2>2 DEF PollExited, PollLate, PollCheck, PollWakes, At, Return, obsOther, ObserverInv,
                  TypeOK, WaiterInv
    <2>3. CASE ProfileWaits \/ Join \/ BatchReturns \/ ReaderEnds \/ ReaderLeaves
      BY <2>3 DEF ProfileWaits, Join, BatchReturns, ReaderEnds, ReaderLeaves, At, Return, obsOther,
                  ObserverInv, TypeOK, WaiterInv
    <2>4. CASE \E i \in Procs : Acquire(i) \/ Collect(i)
      BY <2>4 DEF Acquire, Collect, obsOther, ObserverInv, TypeOK, WaiterInv
    <2> QED BY <2>1, <2>2, <2>3, <2>4
  <1>2. TypeOK'
    BY <1>1 DEF ObserverInv, TypeOK, procVars, samplerVars
  <1>3. ReaperInv' /\ SamplerInv'
    BY <1>1 DEF ObserverInv, ReaperInv, SamplerInv, procVars, samplerVars
  <1>4. WaiterInv'
    BY <1>1 DEF ObserverInv, WaiterInv
  <1> QED BY <1>2, <1>3, <1>4 DEF ObserverInv

\* The sampler has stopped for good when a profile is returned.
LEMMA SamplerSteps ==
    ASSUME ObserverInv, Sample \/ Tick \/ SamplerStops \/ Receive
    PROVE  ObserverInv' /\ sampler # "stopped"
  <1>1. /\ UNCHANGED <<ctx, procVars, obsVars>> /\ sampler # "stopped"
        /\ sampler' \in {"off", "select", "check", "read", "recheck", "keep", "stopped",
                         "stats", "send", "rest"}
        /\ reading' \in {reading, pid[1]}
        /\ samples' \in {samples, samples \cup ({reading} \ {"none"})}
        /\ ticks' \in 0 .. MaxTicks
    <2>1. ticks \in 0 .. MaxTicks /\ (ticks < MaxTicks => ticks + 1 \in 0 .. MaxTicks)
      BY ObserversAssumption DEF ObserverInv, TypeOK
    <2>2. CASE Sample
      BY <2>1, <2>2 DEF Sample, SampleGroup, SampleCheck, SampleRead, SampleRecheck, SampleKeep,
                        SamplerAt, samplerOther
    <2>3. CASE Tick \/ SamplerStops \/ Receive
      BY <2>1, <2>3 DEF Tick, SamplerStops, Receive, SamplerAt, samplerOther, obsVars
    <2> QED BY <2>2, <2>3
  <1>2. 1 \in Procs
    BY ObserversAssumption DEF Procs
  <1>3. TypeOK'
    <2>1. reading \in {"none", "own", "other"} /\ pid[1] \in {"none", "own", "other"}
          /\ samples \subseteq {"own", "other"}
      BY <1>2 DEF ObserverInv, TypeOK
    <2>2. reading' \in {"none", "own", "other"} /\ samples' \subseteq {"own", "other"}
      BY <1>1, <2>1
    <2> QED BY <1>1, <2>2 DEF ObserverInv, TypeOK, procVars, obsVars
  <1>4. ReaperInv' /\ WaiterInv'
    BY <1>1 DEF ObserverInv, ReaperInv, WaiterInv, procVars, obsVars
  <1>5. SamplerInv'
    BY <1>1, <1>2 DEF ObserverInv, ReaperInv, SamplerInv, procVars, obsVars
  <1> QED BY <1>1, <1>3, <1>4, <1>5 DEF ObserverInv

-----------------------------------------------------------------------------

\* The invariant holds before the call.
LEMMA ObserverInit == Init => ObserverInv
  <1> SUFFICES ASSUME Init PROVE ObserverInv
    OBVIOUS
  <1>1. TypeOK
    <2>1. sampler \in {"off", "select", "stats"}
      BY DEF Init
    <2>2. pc \in {"check", "wait"}
      BY DEF Init
    <2> QED BY <2>1, <2>2, ObserversAssumption DEF Init, TypeOK, Stages
  <1>2. ReaperInv /\ WaiterInv /\ SamplerInv
    BY DEF Init, ReaperInv, WaiterInv, SamplerInv
  <1> QED BY <1>1, <1>2 DEF ObserverInv

\* Every step of the reapers, the sampler and the call keeps it.
LEMMA ObserverNext == ObserverInv /\ [Next]_vars => ObserverInv'
  <1> SUFFICES ASSUME ObserverInv, [Next]_vars PROVE ObserverInv'
    OBVIOUS
  <1>1. CASE \E i \in Procs : Exit(i) \/ Reap(i) \/ Recycle(i)
    BY <1>1, ProcSteps
  <1>2. CASE CtxDone \/ Observe \/ ReaderLeaves
    BY <1>2, WaiterSteps, CallerSteps, SamplerSteps DEF Observe
  <1>3. CASE Sample \/ Tick \/ SamplerStops
    BY <1>3, SamplerSteps
  <1>4. CASE UNCHANGED vars
    BY <1>4 DEF ObserverInv, TypeOK, ReaperInv, WaiterInv, SamplerInv, vars, procVars, obsVars,
                samplerVars
  <1> QED BY <1>1, <1>2, <1>3, <1>4 DEF Next

\* The inductive invariant: the order in which the reaper publishes, what the waiters have
\* seen, and when the sampler stops.
THEOREM ObserverInvCorrect == Spec => []ObserverInv
  BY ObserverInit, ObserverNext, PTL DEF Spec

\* No waiter returns an outcome or an error that the reaper has not written, and WaitAll
\* returns all outcomes or the first error.
THEOREM OutcomeIsPublishedCorrect == Spec => []OutcomeIsPublished
  <1>1. ObserverInv => OutcomeIsPublished
    <2> SUFFICES ASSUME ObserverInv, answer \in {"outcome", "waitErr"},
                        kind \in {"WaitAny", "WaitAll"}
                 PROVE  OutcomeIsPublished
      BY DEF OutcomeIsPublished
    <2>1. DOMAIN seen = Procs
      BY DEF ObserverInv, TypeOK
    <2>2. CASE answer = "outcome"
      <3>1. \A i \in Procs : seen[i] \in {"unseen", "exited"}
        BY <2>2 DEF ObserverInv, WaiterInv
      <3>2. kind = "WaitAll" => \A i \in Procs : seen[i] = "exited"
        BY <2>2 DEF ObserverInv, WaiterInv
      <3>3. kind = "WaitAny" => \E i \in Procs : seen[i] = "exited"
        BY <2>2 DEF ObserverInv, WaiterInv
      <3> QED BY <2>1, <2>2, <3>1, <3>2, <3>3 DEF OutcomeIsPublished, Range
    <2>3. CASE answer = "waitErr"
      <3>1. PICK i \in Procs :
              /\ seen[i] = "waitErr"
              /\ \A j \in Procs \ {i} :
                    /\ seen[j] \in {"unseen", "exited"}
                    /\ kind = "WaitAll" => seen[j] = IF j < i THEN "exited" ELSE "unseen"
        BY <2>3 DEF ObserverInv, WaiterInv
      <3>2. Range(seen) \subseteq {"unseen", "exited", "waitErr"}
        BY <2>1, <3>1 DEF Range
      <3> QED BY <2>3, <3>1, <3>2 DEF OutcomeIsPublished
    <2> QED BY <2>2, <2>3
  <1> QED BY <1>1, ObserverInvCorrect, PTL

\* A profile that was returned changes no more, and another process gets into it only
\* between the wait4 and the close of done.
THEOREM ProfileIsHonestCorrect == Spec => ProfileIsHonest
  <1>1. ASSUME ObserverInv, [Next]_vars
        PROVE  [/\ kind = "Profile" /\ pc = "returned" => UNCHANGED samplerVars
                /\ sampler # "keep" /\ sampler' = "keep" /\ reading = "other" =>
                     stage[1] \in {"reaped", "written"}]_vars
    <2>1. CASE Sample \/ Tick \/ SamplerStops \/ Receive
      <3>1. ~(kind = "Profile" /\ pc = "returned")
        BY <2>1, SamplerSteps, <1>1 DEF ObserverInv, SamplerInv
      <3>2. sampler # "keep" /\ sampler' = "keep" => ~Done(1)
        BY <2>1 DEF Sample, SampleGroup, SampleCheck, SampleRead, SampleRecheck, SampleKeep,
                    Tick, SamplerStops, Receive, SamplerAt
      <3>3. reading = "other" /\ ~Done(1) => stage[1] \in {"reaped", "written"}
        BY <1>1 DEF ObserverInv, SamplerInv, Done
      <3> QED BY <3>1, <3>2, <3>3
    <2>2. CASE UNCHANGED samplerVars
      BY <2>2 DEF samplerVars
    <2>3. (Sample \/ Tick \/ SamplerStops \/ Receive) \/ UNCHANGED samplerVars
      <3>1. CASE \E i \in Procs : Exit(i) \/ Reap(i) \/ Recycle(i) \/ Acquire(i) \/ Collect(i)
        BY <3>1 DEF Exit, Reap, WaitPid, WriteOutcome, CloseDone, Recycle, Step, Acquire, Collect,
                    obsOther
      <3>2. CASE CtxDone \/ ReaderLeaves \/ CtxReturns \/ AnyReturns \/ AllNext
        BY <3>2 DEF CtxDone, ReaderLeaves, CtxReturns, AnyReturns, AllNext, At, obsOther
      <3>3. CASE PollExited \/ PollLate \/ PollCheck \/ PollWakes \/ ProfileWaits \/ Join
                   \/ BatchReturns \/ ReaderEnds
        BY <3>3 DEF PollExited, PollLate, PollCheck, PollWakes, ProfileWaits, Join, BatchReturns,
                    ReaderEnds, At, obsOther
      <3>4. CASE UNCHANGED vars
        BY <3>4 DEF vars
      <3> QED BY <1>1, <3>1, <3>2, <3>3, <3>4 DEF Next, Observe
    <2> QED BY <2>1, <2>2, <2>3
  <1> QED BY <1>1, ObserverInvCorrect, PTL DEF Spec, ProfileIsHonest
=============================================================================
