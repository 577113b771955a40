----------------------------- MODULE Supervision ----------------------------
(***************************************************************************)
(* The two loops that drive a JobRunner: Supervisor.Run (supervisor.go)    *)
(* and the retrying verbs of Cmd (command.go).  Both call Output, look at  *)
(* what it returned, sleep, and call it again.                             *)
(*                                                                         *)
(* Time is abstract: a sleep ends when it ends, and the failure score      *)
(* decays by any amount between two crashes.  How long a loop would sleep  *)
(* before a restart is computed as the code does, in units of time.        *)
(***************************************************************************)
EXTENDS Runner, Naturals

CONSTANTS MaxRuns,     \* bound: runs explored when the restarts are not limited
          Limits,      \* restart budgets to consider
          Unlimited,   \* the budget of a supervisor without WithMaxRestarts
          Threshold,   \* the failure score above which the storm guard pauses
          Base, Factor, MaxBackoff,  \* WithBackoff and WithMaxBackoff
          MaxDuration  \* math.MaxInt64

ASSUME SupervisionAssumption ==
    /\ MaxRuns \in Nat \ {0} /\ Limits \subseteq 0 .. (MaxRuns - 1) /\ Threshold \in Nat
    /\ Unlimited \notin Nat
    /\ Base \in Nat /\ Factor \in Nat /\ MaxBackoff \in Nat
    /\ MaxDuration \in Nat /\ Base <= MaxDuration /\ MaxBackoff <= MaxDuration

VARIABLES
    verb,     \* "supervise", or one of the retrying verbs
    policy,   \* the RestartPolicy; of a retry, always "on-crash"
    budget,   \* maxRestarts; of a retry, maxAttempts - 1
    storming, \* stormPause > 0
    jitter,   \* of a supervisor
    stopWhen, \* the outcomes the StopWhen predicate matches
    okCodes,  \* the exits that WithOkCodes adds to exit 0
    retryIf,  \* the errors that the classifier of WithRetry accepts
    phase,    \* where the loop is
    runs,     \* how often Output was called
    restarts,
    delay,    \* the last sleep before a restart
    score,    \* stormState.score
    pauses,   \* stormPauses
    crashes,  \* how many runs crashed
    verdict   \* what the loop returned

confVars == <<verb, policy, budget, storming, jitter, stopWhen, okCodes, retryIf>>
loopVars == <<phase, runs, restarts, delay, score, pauses, crashes, verdict>>
vars == <<runnerVars, confVars, loopVars>>

Retries == {"Run", "ExitCode", "Probe"}

\* What errors.Is and IsTransient say of the error of a verb: nothing of an exit.
Sentinels(r) ==
    CASE r = "cancelled"   -> {"ErrCancelled"}
      [] r = "timedOut"    -> {"ErrTimeout"}
      [] r = "notFound"    -> {"ErrNotFound"}
      [] r = "busy"        -> {"ErrStart", "transient"}
      [] r = "refused"     -> {"ErrStart", "context.DeadlineExceeded"}
      [] r = "startError"  -> {"ErrStart"}
      [] OTHER             -> {}

TypeOK ==
    /\ RunnerTypeOK
    /\ verb \in Retries \cup {"supervise"}
    /\ policy \in {"always", "never", "on-crash"}
    /\ budget \in Limits \cup {Unlimited}
    /\ storming \in BOOLEAN /\ jitter \in BOOLEAN
    /\ stopWhen \subseteq Outcomes /\ okCodes \subseteq Exits
    /\ phase \in {"top", "run", "storm", "delay", "over"}
    /\ runs \in 0 .. MaxRuns /\ restarts \in 0 .. MaxRuns /\ delay \in 0 .. MaxDuration
    /\ score \in 0 .. MaxRuns /\ pauses \in 0 .. MaxRuns /\ crashes \in 0 .. MaxRuns
    /\ verdict \in {"none", "cancelled", "error", "value", "predicate", "policy", "exhausted"}

Init ==
    /\ RunnerInit
    /\ okCodes \in {{}, {"exit1"}}
    /\ \/ /\ verb = "supervise"
          /\ policy \in {"always", "never", "on-crash"}
          /\ budget \in Limits \cup {Unlimited}
          /\ storming \in BOOLEAN /\ jitter \in BOOLEAN
          /\ stopWhen \in {{}, {"exit1"}}
          /\ retryIf = {}
       \/ /\ verb \in Retries
          /\ policy = "on-crash"
          /\ budget \in Limits
          /\ storming = FALSE /\ jitter = FALSE
          /\ stopWhen = {}
          /\ retryIf \in {{}, {"ErrTimeout"}, {"transient"}, {"any"}}
    /\ phase = "top"
    /\ runs = 0 /\ restarts = 0 /\ delay = 0 /\ score = 0 /\ pauses = 0 /\ crashes = 0
    /\ verdict = "none"

-----------------------------------------------------------------------------
(* The loop *)

Conclude(v) ==
    /\ verdict' = v
    /\ phase' = "over"
    /\ UNCHANGED <<runnerVars, confVars, runs, restarts, delay, score, pauses>>

\* Supervisor.Run looks at the context before each run, retryRun does not.
TopCancelled ==
    /\ phase = "top"
    /\ verb = "supervise"
    /\ ctx # "live"
    /\ Conclude("cancelled")
    /\ UNCHANGED crashes

BeginRun ==
    /\ phase = "top"
    /\ verb = "supervise" => ctx = "live"
    /\ runs < MaxRuns
    /\ Call
    /\ phase' = "run"
    /\ runs' = runs + 1
    /\ UNCHANGED <<confVars, restarts, delay, score, pauses, crashes, verdict>>

Returned == phase = "run" /\ ~Running

\* errors.Is(err, ErrCancelled)
Terminal == result = "cancelled"

RunCancelled ==
    /\ Returned
    /\ Terminal
    /\ Conclude("cancelled")
    /\ UNCHANGED crashes

Completed == result \in Outcomes
Success == result \in okCodes \cup {"exit0"}
Crashed == ~Success

\* What resultRun, resultExitCode and resultProbe accept: a Probe does not ask okCodes.
Accepted ==
    CASE verb = "Run"      -> Success
      [] verb = "ExitCode" -> result \in Exits
      [] verb = "Probe"    -> result \in {"exit0", "exit1"}

Predicate ==
    /\ Returned /\ ~Terminal
    /\ verb = "supervise" /\ result \in stopWhen
    /\ Conclude("predicate")
    /\ UNCHANGED crashes

\* The mutant asks the classifier about what the verb accepts.
RetriedMutant == retryIf = {"any"} \/ Sentinels(result) \cap retryIf # {}
Retried == ~Accepted /\ (retryIf = {"any"} \/ Sentinels(result) \cap retryIf # {})

WantsRestart ==
    IF verb \in Retries THEN Retried
    ELSE policy = "always" \/ (policy = "on-crash" /\ Crashed)

\* restarts >= maxRestarts; tries >= maxAttempts
Exhausted == budget # Unlimited /\ restarts >= budget

AfterRun == Returned /\ ~Terminal /\ ~(verb = "supervise" /\ result \in stopWhen)

CountCrash == crashes' = crashes + (IF Crashed THEN 1 ELSE 0)

StopVerdict(reason) ==
    IF verb \in Retries THEN IF Accepted THEN "value" ELSE "error"
    ELSE IF Completed THEN reason ELSE "error"

Satisfied ==
    /\ AfterRun
    /\ ~WantsRestart
    /\ CountCrash
    /\ Conclude(StopVerdict("policy"))

RunOut ==
    /\ AfterRun
    /\ WantsRestart
    /\ Exhausted
    /\ CountCrash
    /\ Conclude(StopVerdict("exhausted"))

\* stormState.record: the score decays by an amount that time decides, then grows.
Record == score' \in 1 .. (score + 1)

Least(a, b) == IF a < b THEN a ELSE b

\* math.Pow(factor, n), where "a factor below 1 or non-finite is treated as 1".
Rate == IF Factor >= 1 THEN Factor ELSE 1
Power[n \in Nat] == IF n = 0 THEN 1 ELSE Rate * Power[n - 1]

\* The mutant takes the factor after the cap.
BackoffMutant(n) == Least(Base, MaxBackoff) * Power[n]

\* backoffDelay, saturated at the limit; a retry sleeps the same every time.
Backoff(n) ==
    LET limit == IF MaxBackoff = 0 THEN Base ELSE MaxBackoff
    IN  IF Base = 0 \/ verb \in Retries THEN Base ELSE Least(Base * Power[n], limit)

\* applyJitter: anything from a half to just below one and a half; the two ends, in quarters.
Jittered(d) ==
    IF jitter THEN {Least((d * quarters) \div 4, MaxDuration) : quarters \in {2, 5}} ELSE {d}

Sleep ==
    /\ phase' = "delay"
    /\ delay' \in Jittered(Backoff(restarts))

Again ==
    /\ AfterRun
    /\ WantsRestart
    /\ ~Exhausted
    /\ CountCrash
    /\ IF Crashed /\ storming THEN Record ELSE UNCHANGED score
    /\ IF Crashed /\ storming /\ score' > Threshold
       THEN phase' = "storm" /\ UNCHANGED delay
       ELSE Sleep
    /\ UNCHANGED <<runnerVars, confVars, runs, restarts, pauses, verdict>>

SleepCancelled ==
    /\ phase \in {"storm", "delay"}
    /\ ctx # "live"
    /\ Conclude("cancelled")
    /\ UNCHANGED crashes

\* The score is kept after the pause.
StormOverMutant ==
    /\ phase = "storm"
    /\ pauses' = pauses + 1
    /\ Sleep
    /\ UNCHANGED <<runnerVars, confVars, runs, restarts, score, crashes, verdict>>
StormOver ==
    /\ phase = "storm"
    /\ pauses' = pauses + 1
    /\ score' = 0
    /\ Sleep
    /\ UNCHANGED <<runnerVars, confVars, runs, restarts, crashes, verdict>>

DelayOver ==
    /\ phase = "delay"
    /\ restarts' = restarts + 1
    /\ phase' = "top"
    /\ UNCHANGED <<runnerVars, confVars, runs, delay, score, pauses, crashes, verdict>>

Loop ==
    \/ TopCancelled \/ BeginRun \/ RunCancelled \/ Predicate \/ Satisfied \/ RunOut \/ Again
    \/ SleepCancelled \/ StormOver \/ DelayOver

Next ==
    \/ Loop
    \/ (Output \/ Environment) /\ UNCHANGED <<confVars, loopVars>>

\* The goroutine of the caller runs; contexts propagate, exec's watcher kills, and
\* timers that the code arms fire.  Nothing makes a process exit or a caller cancel.
Fairness ==
    /\ WF_vars(Loop)
    /\ WF_vars(Output /\ UNCHANGED <<confVars, loopVars>>)
    /\ WF_vars(Propagate /\ UNCHANGED <<confVars, loopVars>>)
    /\ WF_vars(CtxKill /\ UNCHANGED <<confVars, loopVars>>)
    /\ WF_vars(DelayElapses /\ UNCHANGED <<confVars, loopVars>>)

Spec == Init /\ [][Next]_vars /\ Fairness

-----------------------------------------------------------------------------

\* When Output has returned, whichever way, the tree of the command is gone but for what
\* its kill failed to end (runner.go:45-47,114), so "the next run never starts until the
\* previous one has fully exited and been reaped ... no overlap, no orphan"
\* (supervisor.go:101-103).
NoOverlap == ~Running \/ pc \in {"start", "spawn", "clean"} => ~child /\ (kin => spared)

\* A run is the first or a restart, and the budget bounds them: n restarts are n + 1
\* runs, and the budget is spent exactly when it is said to be exhausted.  A storm pause
\* is taken only after enough crashes of its own: "a fresh storm must rebuild"
\* (supervisor.go:396).
RestartsAreCounted ==
    /\ runs <= restarts + 1
    /\ phase \in {"run", "storm", "delay"} => runs = restarts + 1
    /\ budget # Unlimited => restarts <= budget
    /\ verdict = "exhausted" => restarts = budget /\ runs = restarts + 1
    /\ pauses * (Threshold + 1) <= crashes

\* "A cancelled context is terminal - never retried, whatever retryIf says"
\* (command.go:299), and so is an answer: "It stops on the first success"
\* (command.go:205), where a code in okCodes, 1 for Probe and any code for ExitCode is
\* one.  A classifier for timeouts alone repeats nothing that did not run out of time.
OnlyFailuresAreRepeated ==
    [][runs' > runs /\ runs > 0 =>
         /\ result # "cancelled"
         /\ verb = "Run" => result \notin okCodes \cup {"exit0"}
         /\ verb = "Probe" => result \notin {"exit0", "exit1"}
         /\ verb = "ExitCode" => result \notin Exits
         /\ retryIf = {"ErrTimeout"} => result = "timedOut"]_vars

\* A retry has no cap of its own, and "a non-positive" limit is the base.
Cap == IF verb \in Retries \/ MaxBackoff = 0 THEN Base ELSE MaxBackoff

\* Restarts back off: from one sleep to the next the delay never shrinks, up to the cap,
\* and jitter changes it by half of itself at most, past the end of the type's range too
\* ("saturates rather than wrapping", supervisor.go:353).
DelaysGrow ==
    [][phase' = "delay" /\ phase # "delay" =>
         IF jitter THEN /\ 2 * delay' <= 3 * Cap /\ delay' <= MaxDuration
                        /\ delay <= 3 * delay' + 2
                   ELSE delay <= delay' /\ delay' <= Cap]_vars

\* Whatever the loop does, the end of the caller's context ends it: a run is killed,
\* its pipes are given up after waitDelay, and a sleep is cut short.
CancelEnds == ctx # "live" ~> phase = "over"
=============================================================================
