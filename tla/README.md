# A TLA+ verification of processkit-go

processkit runs operating-system processes for Go programs so that none of them
outlives the code that started it: every child lives in a kill-on-drop
container (a cgroup v2, a POSIX process group or a Windows Job Object), its
output is streamed through bounded channels, and the loops on top of it
(supervisor, retry, pipeline, batches, probes) stay correct under deadlines,
cancellation and descendants that hold on to pipes. This directory models that
behaviour, checks the models with TLC and proves every safety property that the
checks state with TLAPS.

Contents: 1 inventory, 2 modules, 3 runs, 4 fairness, 5 proofs, 6 where code
and documentation disagree, 7 what is not modelled, 8 plan, 9 how to run it.

## 1. Inventory

| Part | Source | State it keeps | Operations | Correct when |
|---|---|---|---|---|
| Group | `group.go` | `mu`, `closed`, `procs`, the job | Start, Close, Shutdown, Signal, Suspend, Resume, Adopt, Processes, Stats | only what the kill could not end survives a close; Start and Close never miss each other; every teardown call returns; handles are all stopped |
| RunningProcess | `running.go` | `stop`, `done`, `lines`, `outcome`, the reaper goroutine | Wait, Lines, Kill, the reap | the outcome is published once, after all output; the handle is done when its process is |
| Streaming | `stream.go` | two pipes, two drain goroutines with an accumulator each, the Lines channel, `dropped` | drain, tee, split into lines, emit under OverflowBlock or OverflowDropNewest | the lines do not depend on how reads cut the stream; they come in order, none twice, each delivered, counted as dropped or released; a full channel never outlives the handle |
| Probes | `probe.go` | none (consumes Lines, polls) | WaitForLine, WaitFor, WaitForPort | exact consumption, prompt answer when the process is gone |
| JobRunner | `runner.go` | a private job, two contexts | Output | an honest verdict; nothing left when it returns but what its kill could not end |
| Supervisor | `supervisor.go`, `clock.go` | restarts, storm score, last result | Run | runs never overlap; budgets and storms are respected; delays grow up to the cap; cancellation is terminal |
| Retry | `command.go`, `errors.go`, `classify.go` | attempt counter | Run, ExitCode and Probe through `retryRun` | only failures that the classifier accepts are repeated, never an answer of the verb |
| Pipeline | `pipeline.go` | one job, pipe ends of the parent, stage contexts | Output | nothing left on any path that the kill could end; the right stage is blamed |
| Batches | `batch.go` | a semaphore | WaitAny, WaitAll, OutputAll | everybody returns, with published outcomes |
| Metrics | `stats.go` | a sampler goroutine, accumulators | Profile, SampleStats, CPUTime, PeakMemoryBytes | samples are of the process itself; a profile is final; a sampler ends with its context |
| Linux back end | `internal/sys/job_linux.go` | the cgroup directory, its descriptor | newJob, Configure, Kill, Suspend, Close | never uncapped when caps were asked for; honest, bounded kill |
| Process groups | `internal/sys/job_unix.go` | the list of pgids and lone pids | Assign, Adopt, Signal, Kill | all the list is signalled |
| Windows back end | `internal/sys/job_windows.go` | the job handle, its own lock | newJob, Configure, Assign, Adopt, Kill, Stats, Close | a child is contained before it runs; the handle is used while it is the job's own; a failure strands nobody |
| Test doubles | `processkittest/` | rules and cursors, recorded entries, replay slots, the cassette file | On/OnSequence/Fallback, Record, Save, Replay | replay repeats the recording; a save covers what preceded it |
| Cmd, CliClient, Result, errors, log | the rest | immutable values | builders, accessors | (pure) |

How they interact. `Group.Start` holds `mu` over spawn, `job.Assign` and the
registration of the handle; only then are the drains and the reaper started.
The reaper waits for the drains, then for the process, writes the outcome,
closes `Lines` and then `done`, on which every waiter, probe and sampler
selects. `Close` sets `closed` and copies `procs` under `mu`, kills and
releases the job without it, and closes the `stop` channel of every handle,
which releases drains that are blocked in a send. `JobRunner` and `Pipeline`
use the same jobs directly, one per call, with `exec`'s own goroutines
(context watcher, `WaitDelay`) in between. `Supervisor.Run` and `retryRun`
call a `ProcessRunner` again and again; the test doubles are other
implementations of that interface.

The hard behaviour is the interleaving of those goroutines with each other,
with processes that exit, fork, call `setsid` or hold pipes open, with two
contexts and several timers, and partial failure in every multi-step start.
`PROJECT.json` lists 40 such places ("hazards") with the property that watches
each, or the reason why none does.

## 2. Modules

| Module | Models | State and actions |
|---|---|---|
| `Container` | the promise of a Group, without locks or processes' details: open, closing, closed; members enter only while it is not closed; the kill of a close may spare some, which may breed; a closed one holds nobody else | the abstract specification |
| `Group` | `group.go` + `running.go` with the effect of the three back ends | one goroutine per `Start` and per teardown call with a program counter; `mu`, `closed`, `procs`, `snap` (the copied slice), `todo` (what `job.Kill` has still to signal), `targets` (pgids, lone pids or the one kernel unit), and the processes with their `unit`, `frozen` flag and `root`; the history variable `spared` |
| `GroupProofs` | the theorems about `Group` | |
| `LineStream`, `MCLineStream` | the output of one streaming process | two pipes with finite capacity, two drains (`read`, `send`, `eof`, or `failed` with their tee), the channel, the two closes of the reaper, and a consumer that probes, ranges or walks away |
| `LineSplit` | `drainLines` | the text as kinds of bytes, the chunk of the last read, the accumulator, the lines emitted as sequences of positions; a reference that splits the whole text at once |
| `Runner` | `JobRunner.Output` step by step | the caller's context and the run's own, whose error is fixed when it first ends; the child, which may die by a foreign signal, a descendant in the job and one that left it; a kill that may fail; no specification of its own |
| `Supervision` | `Supervisor.Run` and `retryRun` around `Runner` | configuration chosen in `Init` (policy, budget, storms, jitter; or the verb, okCodes and classifier), the phase of the loop, restart and crash counters, the storm score, the last delay |
| `Pipeline` | `Pipeline.Output` | the start loop, stages that read, write, hang, fork, die; the pipe ends of the parent; deadlines; kills that may fail; the fold over outcomes |
| `Observers` | `batch.go`, `pollUntil`, `Profile`, `SampleStats` against two reapers | for each process the stages running, zombie, reaped, written, done, its outcome or wait error, and whose process its pid is |
| `CgroupJob` | `job_linux.go` step by step | `newJob` with a failure at every step, and freeze, sweep, thaw, drain, remove against members that fork, with the errors that the code drops (`Unread`, `Unwritten`, a refused signal) |
| `WinJob` | `job_windows.go` step by step, under the calls of `Group` | `newJob` in its two steps, the handle and what its value names, `Group.mu`, one program counter per call (two Starts, an Adopt, two Closes, an unlocked Kill or Stats), processes that are suspended, running or dead |
| `BackEnds` | the contract of `sys.Job` | extends `CgroupJob` and `WinJob`; a build has one of the two |
| `BackEndsProofs` | the theorems about the two back ends and their common contract | |
| `Doubles`, `MCDoubles` | the test doubles | concurrent recording of a script into a list of entries per key, concurrent saves with a truncating write, and a later replay of whatever is in the file |
| `SupervisionProofs`, `PipelineProofs`, `LineStreamProofs`, `LineSplitProofs`, `ObserversProofs`, `DoublesProofs` | the theorems about the module each is named after | |

Every definition of a module that stands for code is listed with its lines in
`PROJECT.json` ("map"). Operators called `...Mutant` are wrong versions of the
definition below them; they belong to no specification and show, for each
property, a mistake in the code that the property would find.

Composition. `Supervision` extends `Runner` and calls its `Output` steps, so
the loops are checked against every interleaving inside a run. `Group`
instantiates `Container` under the refinement mapping `members <- Contained
\cap Live`, `spared <- spared \cap Contained \cap Live` and `phase <- IF ~closed THEN "open" ELSE IF jobOpen THEN "closing"
ELSE "closed"`; `ImplementsContainer` is checked as a property. `CgroupJob` and
`WinJob` open up what `Group` takes as one mechanism each, and `WinJob`
implements `Container` too (`members <- inJob`, nobody spared, the phase from `closed` and the
handle), so the promise that `Group` makes is the one that the Job Object keeps
on its own. `BackEnds` extends both and states what every back end owes its
caller. `LineStream` opens up the drain and the reaper that `Group` has in four
and one steps, and takes for its lines what `LineSplit` emits.

Abstractions that are worth knowing:

* A teardown step of `Group` is one call of the back end per target; the three
  back ends differ in `SpawnUnit`, `Assigned`, `Adopt`, `Suspend` and in
  whether `setsid` leaves the unit.
* Signals other than SIGKILL, SIGSTOP and SIGCONT appear as what they may
  cause: an exit of the process.
* A kill may fail, and every module with a kill has one that does. What the kill of
  a close, or of a run or chain, was aimed at and did not end is put into the
  history variable `spared`, which no guard reads; what a spared process of
  `Group` forks is spared too. In `Group` the three back ends fail differently
  (`Leftovers`): a process group leaves processes that run as another user
  (`Privileged`; `deliver` drops EPERM, `job_unix.go:78-85`), the fallback sweep
  of a cgroup any member (it can be outrun, refused, or unable to read the list of
  members, on which it reports success having signalled nobody), and a
  TerminateJobObject that fails all of them, until the release of the handle
  ends them. Close then goes on to release the job and to stop the handles, and
  returns the kill's error, if there is one (`group.go:335-346`); so Close may
  return with survivors, and without an error (EPERM, an unreadable list).
  The sweep may also leave the cgroup frozen (`FrozenAfterKill`).
* A process counts as dead once SIGKILL is pending for it; that it is gone from the
  process table a moment later is in `CgroupJob` (`doomed`, `Die`).
* Process ids are not reused in `Group` and `CgroupJob`; they are in
  `Observers`. Handle values are reused in `WinJob`.
* In `LineStream` a line is `<<stream, n>>`. There is one consumer. A tee fails
  once, for good, before a read that mirrors to it; the chunk that the failing
  mirror has just read, of which `drainLines` still emits a remainder, counts
  as not yet read. That a probe reports the end only if no line matches is said of
  the lines that reached the channel: a dropped or released line may match.
* In `LineSplit` a byte is its position, so that a lost, repeated or moved byte
  shows; its kind is a character, CR or LF. The bytes are those a decoder
  returns, if there is one.
* `Supervision` has no clock: a delay ends when it ends, the storm score decays
  by any amount. The length of a delay is computed in units, with `MaxDuration`
  for `math.MaxInt64`; the factor is a whole number and its power is `Power`, the
  delay of a retry is its own limit (`Cap`), and jitter takes one of its two ends.
* Cmd's verbs differ by what they accept (`Accepted`), and an error by what
  `errors.Is` and `IsTransient` say of it (`Sentinels`).
* A child of `Runner` or `Pipeline` that dies by a signal of somebody else (a fault,
  the kernel out of memory) is "signalled", or among the "failed" stages, of
  which only one with an exit code can be forgiven (`coded`); "killed" is a
  death by this package.
* In `Runner` and `Pipeline` the error of `job.Kill` is dropped (`runner.go:114`,
  `pipeline.go:138`, `:222`) and what it spared stays. The deferred `job.Close`,
  which on Windows ends even that, is left out: the model has more survivors
  than the code.
* `CgroupJob` has the errors that Kill and Close drop: a list that cannot be
  read counts as empty (`Unread`, with the history variable `unread`), a
  cgroup.freeze that cannot be written changes nothing (`Unwritten`), a signal
  may be refused (`SignalOne`). `held` remembers a sweep whose cgroup was
  frozen when listed and stayed so.
* `WinJob` has one user of the handle beside Group's own calls: Kill and Stats
  take it the same way.
* In `Pipeline` every stage is a filter that may also quit, hang or fork; an
  item stands for a chunk of output.
* `Observers` has both ends of a wait, an outcome and a wait error.
* `Doubles` keeps the recorded entries by key, as Replay groups them, and knows
  the text of a cassette by how many entries of each key it holds; `Fits` are the
  counts whose text Replay is willing to read (64 MiB, `cassette.go:157-165`).
  Its checks of the version and of each entry pass everything that Save writes.
  One caller's calls of a key are told from overlapping ones.

## 3. Runs

| Run | Instance | What it shows |
|---|---|---|
| `group_tree` | 1 start, 1 kid that may call setsid or come to run as another user, 1 external process, 2 callers, all mechanisms | `NoOrphan`, `HandlesAreContained`, `EveryHandleStopped` and the refinement of `Container` |
| `group_live` | 1 streaming start whose child may come to run as another user, 1 kid that may call setsid, 2 callers, all mechanisms, suspension of process groups | teardown calls return, handles are reaped (`CallsReturn`, `ReapedOnceClosed`, `KilledHandleIsDone`), and Start against Close (`JobOpenWhileStarting`, `NoSpawnOnceClosed`) |
| `group_frozen` | 1 start in a suspended cgroup | violates `SuspendedGroupIsClosed` (section 6) |
| `line_stream` | 2 streams of 2 lines, pipes and channel of 1, a tee on stderr that may fail | order, accounting, closes, probe and liveness of the drains for both policies |
| `tee_failure` | the same with OverflowDropNewest, which never blocks a drain | violates `PipesAreDrained` (section 6) |
| `line_split` | every text of at most 8 bytes, reads of at most 4, cap 3 | `LinesAreCut`: short lines come out exactly, long ones cost bounded memory and pieces; `NothingIsLost`: every byte once, in order |
| `supervised_runs` | 3 runs with kills that may fail, budgets 0, 1 and none, threshold 1, delays 4, 12, 20 of a range of 22 | verdicts, no overlap, counted restarts and earned storms, only failures repeated (for each verb and kind of classifier), delays that grow, cancellation that ends everything |
| `pipeline` | 3 stages, 1 item, a deadline on the first and perhaps on the chain, kills that may fail | nothing left but what a kill spared, explained kills, blame, end of filters, end by cancellation |
| `pipeline_timeout` | 2 stages, deadline on the first | violates `CleanStageIsNotTimedOut` (section 6) |
| `back_ends` | Linux: 2 controllers, 3 pids, 2 attempts, 2 sweeps, unnoticed read, write and signal errors. Windows: 2 starts, 1 adoption, 2 closes, 1 unlocked call, 1 grandchild | caps in force before the first process, honest bounded kill, the handle used while it is its own, children that run only in the job, the refinement of `Container`, and calls that end |
| `observers` | 2 processes, 1 slot, 2 ticks | published outcomes and wait errors, final and honest profiles, and every observer and sampler ends |
| `test_doubles` | 3 keys, 2 callers, 2 savers, 3 calls, 3 replays per key, a cassette of 3 entries too large to replay | a save covers what preceded it, replay repeats the recording |

Why the bounds are enough to meet the interesting cases.

* Group: one start and two teardown calls are the smallest instance in which
  Start races Close, Close races Close, and a Shutdown in its grace races a
  Close; the kid adds forks between the copy of the target list and the signal,
  the external process adds adoption as leader and alone. Nothing in the code
  compares two starts; the theorems hold for any number. `group_tree` has no
  suspension and only the kid may be out of reach of a signal; `group_live` has
  both a privileged child and a kid that leaves by setsid, so that every escape
  clause of its liveness properties is met. A frozen cgroup comes, in both,
  from a sweep whose thaw fails, and from Suspend in `group_frozen`.
* LineStream: with capacity 1 everywhere, two lines per stream fill the pipe,
  the drain's hand and the channel at once, and two drains compete for one
  slot.
* LineSplit: with reads longer than the cap, one read may hold a full piece and
  more, a line may be cut at each of its bytes, and two pieces plus CR LF fit
  into the text: two chunks of four bytes, or one and four of one byte.
* Supervision: `MaxRuns` cuts unlimited supervisors only, which show a restart
  after a restart; threshold 1 lets a storm pause happen and be rebuilt within
  three runs. The third delay meets the cap, and its jitter the end of the
  range.
* Pipeline: three stages have a first, a middle and a last one, so that a
  victim can stand left of a culprit and right of an unchecked one. A deadline on
  the first stage need not pass, which is the case without one. One item never
  fills a pipe: filters wait for an end of file, or die of a broken pipe, but
  a writer that blocks on a full pipe is not among the checked behaviours (two
  items are 4.6 million states). The theorems hold for any number.
* CgroupJob: the limits 32 and 50 of the code are constants of the module; two
  rounds are enough for a fork to outrun the sweep, and any of its reads,
  writes and signals may fail in either.
* WinJob: two Starts contend for the lock with two Closes and an Adopt, and the
  unlocked call may hold the handle across the release and the reuse of its
  value. A build has one back end, so their states are not multiplied.
* Doubles: two results of one key and three replays reach the end of a slot and
  pass it; three are more than Replay reads. Callers and savers are symmetric and only invariants are checked.

Deadlock checking is off because every instance may really come to rest: all
calls have been made and all processes are gone, or a bound is reached.

## 4. Fairness

Weak fairness is assumed of goroutines that nothing blocks (a Start that has
the lock, a teardown call, a drain, the reaper, `exec`'s context watcher), of
timers the code arms itself (grace, `WaitDelay`, backoff) and, in `CgroupJob`,
of the kernel carrying out a SIGKILL or a freeze. In `WinJob` it is assumed of
every call that was made. In `Observers` the select of
a sampler and the one of a polling wait are strongly fair: Go chooses among
ready cases at random, so a case that is ready in round after round is taken.
`LineStream` assumes that a consumer inside a range or a probe goes on; a
consumer may leave at any moment otherwise.

The context watcher of a privileged child gets no fairness, since its one kill may
be refused.

Never assumed: that a program makes a call, that a process exits, that a kill
ends what it is aimed at, that a consumer reads or a reader of `SampleStats`
stays, that a context is cancelled, that a check of a probe succeeds,
that a descendant lets go of a pipe. The liveness properties name what may therefore
stay for ever: `CallsReturn` a cgroup that a failed thaw has left frozen;
`ReapedOnceClosed` an output pipe held by a process that the kill spared or that had
left the group; `KilledHandleIsDone` a child that is privileged or spared, or a
descendant with the pipe.

In `Pipeline` a stage that neither hangs nor quits works on; `FiltersFinish` says what
that is worth, on the success path and, where the kill has spared stages, on the
failing one, which must close its pipe ends before it waits (`pipeline.go:139-144`).

## 5. Proofs

### The group

`GroupProofs` proves, for every number of starts, kids, external processes and
callers and every set of mechanisms, from `GroupAssumption` alone (the sets of
names are disjoint):

* `TypeCorrect`: `Spec => []TypeOK`;
* `InvCorrect`: `Spec => []Inv`, the inductive invariant;
* `NoOrphanCorrect`, `HandlesAreContainedCorrect`,
  `JobOpenWhileStartingCorrect`, `EveryHandleStoppedCorrect`: the safety
  properties of the runs `group_tree` and `group_live`, from `Inv`;
* `NoSpawnOnceClosedCorrect`: the action property, from `Inv`;
* `ContainerCorrect`: `Spec => ImplementsContainer`, the refinement;
* `ClosedHoldsTheSparedCorrect`: what the container promises, carried over to the
  group: once closed it holds the spared and nobody else.

`NoOrphan` says that whoever is alive after the release was aimed at by the kill and
not ended by it, or descends from such a process: no child slips past a Close, and in
a Job Object nobody is left at all. It speaks of what the job contains and of the
children of Start, but for one whose Assign failed and whose Start is about to kill
it. It is not inductive: it follows from what the closer has done target by target,
and from nobody having been able to add a target or a member meanwhile. `Inv` says so
in parts:

* `LockInv`: between its closed test and its registration a Start holds the
  lock, and while anybody holds it the group is open;
* `HandleInv`: a live child is on its way through the locked section or
  registered, and a registered one sits in a unit that is a target;
* `TargetInv`: the kernel unit is always a target, lone targets are adopted
  processes;
* `SweepInv`: all that lives in a target the closer has dealt with is spared, and
  after the release in any target; a Job Object, which the release empties, spares
  nobody. This is the heart: it is preserved by a fork because a fork needs a live
  parent in the same unit, and the child of a spared one is spared, by `setsid`
  because it only leaves, by Adopt and Start because both need the group open;
* `StopInv`: every registered handle is stopped or on the closer's list.

The proof has one lemma per group of actions (`StartSteps`, `CallSteps`,
`ContainerSteps`, `HandleSteps`, `ForkStep`, `SetsidStep`, `AdoptStep`), each
with a step per action. Steps that only kill or only take processes away share
`FewerLive` and `KillShrinks`.

The refinement rests on `Inv` too. `BoxMoves` says what it takes for a step that
leaves `closed` and the job alone to be a step of the container: members only
leave, or they only enter and, in a closed group, only forked ones do. In a released
job only the spared fork, for `SweepInv` leaves it without other members, and then the
container breeds. `KillOne` is the container's `Kill`, with those it leaves as `Left`. Its two
corollaries cover the actions: `BoxDeaths` those that move nobody between units,
`BoxEntries` Spawn, Register and Adopt, which need the group open. Only
`CloseLock` and `ReleaseJob` move the phase, the latter with the spared left, or, in
a Job Object, with nobody.

### The back ends

`BackEndsProofs` proves of Windows, for every number of starts, adoptions,
closes, unlocked calls and processes, from `WinAssumption` (the names of
different kinds of caller and process differ): `RunsOnlyInJobCorrect`,
`HandleIsOwnCorrect`, `WinNeverUncappedCorrect`, and `WinContainerCorrect`, the
second refinement of `Container`. They rest on `WinInvCorrect`, `WinSpec =>
[]WinInv`. `HandleIsOwn` is not inductive: nothing in it keeps a Close from
releasing the handle between two steps of a Start. `WinInv` adds

* `MakeInv`: nobody calls before newJob has returned, and then every wanted
  limit and the killOnClose flag are in force;
* `LockInv`: a Start or an Adopt under way holds `Group.mu`, and while anybody
  does the group is open;
* `CloseInv`: at most one Close is between taking and releasing the handle, the
  handle names the job's own object until then, and a released job is empty,
  which is where killOnClose is needed when TerminateJobObject fails;
* `ChildInv`: a child is suspended or dead on its way from spawn to resume, and
  in the job before it is resumed.

In the refinement, `WinBoxMake`, `WinBoxCall` and `WinBoxSystem` map the steps
of newJob, of the calls and of Windows; most of them by `WinBoxMoves`.

Of Linux it proves `CgroupInvCorrect` for any controllers, processes and bounds
on the attempts and sweeps, from `CgroupAssumption` (finitely many processes,
positive bounds). `NewInv` says what each step of newJob has achieved and, where
it gives up, undone. `KillIsHonest` is about what Kill may promise although it drops
errors: success means that every member is doomed, unless the list it judged by was
unreadable, and a sweep whose cgroup was frozen when listed, stayed so and was refused
by nobody has doomed every member, whatever it reports. The second part is what the
freeze is for. `SweepInv` makes both inductive: while such a sweep is under way
everybody is doomed or still on its list, and nobody can be added to a frozen cgroup;
after it a doomed process cannot fork.

Its last part puts the two together. `EachBackEnd` shows that a build takes
steps of one back end and stutters for the other, so the theorems of both carry
over to `BackEndsSpec`: `CapsAreInForceCorrect`, `KillIsHonestCorrect` and
`WindowsCorrect`, the properties of the run `back_ends`.

### Runs that are repeated

`SupervisionProofs` proves `NoOverlapCorrect`, `VerdictMatchesCorrect`,
`RestartsAreCountedCorrect` and the action property
`OnlyFailuresAreRepeatedCorrect` for every budget, threshold, backoff and
number of runs, from `SupervisionAssumption`. `LoopInvCorrect` is about one run
and the loop around it. Of the run it says

* `TreeInv`: where Output is, what can be alive and what is known of the child's
  end. `NoOverlap` needs it because a run that starts must find the tree of the
  last one dead or spared by its kill, which only the step that killed it knows;
* `ContextInv`, `KillInv`: why a context is done, and that a child was killed
  only when the run's own context was. After the check of the caller's context
  a killed child can only have run out of its own time, which is what makes
  `VerdictMatches` inductive in every order of exit, foreign signal, deadline and
  cancellation. A run may be reported as timed out because of its caller's deadline
  (section 6), but then its child was not killed;

and of the loop

* `PhaseInv`, `BudgetInv`: runs and restarts move together, and a loop that
  sleeps has a restart left;
* `StormInv`: `pauses * (Threshold + 1) + score <= crashes`. A pause sets the
  score to zero, so that it is paid for by crashes no other pause has used;
* `RetryInv`: a loop that is going on has been asked to, by the policy or the
  classifier, and still is after the sleep, since nothing changes the result
  between two runs (`IdleSteps`).

`DelaysGrowCorrect` proves that the delays grow, up to the cap, for every base,
factor, cap and number of restarts. It has an invariant of its own, `DelayInv`:
the last delay comes, by jitter, from one no longer than the backoff that is due
now, for restarts only go up and backoff grows with them. That it grows
(`BackoffGrows`) rests on `Power` being what its recursive definition says
(`PowerIs`), which is proved and not assumed: for each n there is one table of
the powers up to the n-th and only one (`OneTable`), and `Power` reads the n-th
entry of the n-th. The induction is `AllNumbers`, a fact about sets: a set that
holds 0 and, with each number, the next one holds them all, because inclusion
among finite sets is well-founded. `JitterBounds` is about one delay.
`SupervisionTypesCorrect` is `Spec => []TypeOK`.

### The chain

`PipelineProofs` proves `NothingIsLeftCorrect`, `KillIsExplainedCorrect` and
`BlameIsRightCorrect` for every number of stages and items. `ChainInv` has

* `LeftInv`: what is alive and open on each path through Output, the failing
  ones included, and that past a kill it is what the kill spared;
* `CauseInv`: until Output looks, a killed stage has a context that is done.
  The look at the caller's context leaves the two deadlines as causes, the look
  at the chain's leaves the stage's own, and that is `KillIsExplained`;
* `StartedInv`: a stage the start loop has passed runs or has ended, so the
  fold meets only outcomes.

`BlameIsRight` needs no induction over the stages: `LeastIsLeast`, on
`LeastNumber`, says what the leftmost culprit is, and
`BlamedIsRight` the rest. `LeastNumber` holds for any set of numbers, because
inclusion among their initial segments is well-founded.

### Output

`LineStreamProofs` proves `InOrderCorrect`, `DropsAreCountedCorrect`,
`ClosedAfterDrainsCorrect` and `ProbeIsExactCorrect` for every number of lines,
size of pipe and channel, and both policies, from `StreamAssumption`, for a
process with stdout, stderr or both. `StreamInv` has

* `QueueInv`: a pipe holds consecutive lines, from the one after the last that
  its drain took to the last one written, and a drain that has seen the end left
  none;
* `SentInv`: what is in the channel or received is no line that a drain still
  has to emit. `InOrder` needs it for the line that is sent next;
* `CloseInv`: once the channel is closed no drain can send;
* `ProbeInv`: a probe that goes on has seen no match among what was received,
  and one that has reported the end leaves an empty channel, so that what it
  reported stays true.

Receiving moves a line from the channel to the consumer and changes none
(`TakeKeepsSent`, with `MoveHead`), sending adds one (`SendAppends`, with
`ExtendTail`).

`LineSplitProofs` proves `NothingIsLostCorrect`, `LinesAreCutCorrect`,
`MemoryIsBounded` and `SplitTypesCorrect` for every cap, size of the read buffer
and text. `SplitInv` says

* `WindowInv`: the line under way and the rest of the read are the last bytes of
  the text, in their order, and the former has no LF;
* `EmittedInv`: the lines emitted hold the bytes before those, in their order
  and without an LF, and every byte they lack is a terminator. A CR at the end
  of what has been read counts as one only when drainLines has returned: before
  that another read may follow it;
* `SizeInv`: their length is below the cap and one read;
* `CutInv`: how many lines have been emitted. Counted are the lines that end
  before the one under way and the pieces that are as long as the cap. There is
  a line emitted for each that has ended, one more when a piece of the line under
  way has been flushed, and never more than one for each of those counted. If
  the lines of the text are short, nothing is ever flushed, and the piece with
  the number of a line has the bytes of that line without its terminators.

`TrimmedLine` is the heart of the first three: what `trimLineEnd` takes from a
line that ends in LF or with the text is a terminator. `EmitPiece` serves the
three steps that emit. `LinesAreCut` is not inductive, since it says how many
pieces there are only when drainLines has returned. `CutInv` says it of every
prefix of the text, so it has one lemma for each way a prefix grows, about
texts and sequences of lines rather than about the variables: `ReadOnCut` (more
has been read and nothing emitted), `EmitLineCut` (up to an LF), `FragmentCut`
(a full piece) and `EndCut` (the remainder). Each compares two sets of ends of
lines, of which the later has at most one end more, by their cardinalities; no
induction over the text is needed.

### Observers

`ObserversProofs` proves `OutcomeIsPublishedCorrect` and the action property
`ProfileIsHonestCorrect` for every number of processes, slots and ticks.
`ReaperInv` is the order in which the reaper publishes (wait4, outcome, done);
`WaiterInv` says that whoever has seen `done` has read an outcome or a wait error,
that WaitAll has seen outcomes only of the processes before the one it waits for, and
`SamplerInv` that a reading of another process was made after the wait4 of this
one and that a profile is returned after its sampler has stopped.

### Test doubles

`DoublesProofs` proves `SaveCoversCorrect` and `ReplayRepeatsCorrect` for every
script, every number of commands, callers and savers, wherever a Save fails and
wherever the recording program dies, from `DoublesAssumption`. Neither is
inductive: they relate what is in the file to what callers have seen, and a
capture, a return, a snapshot and a write lie between. `DoublesInv` goes through
them in that order:

* `CountInv`: of every command, the results captured are those returned and
  those that a caller is about to return. `SaveCovers` needs it at the snapshot,
  and it would not hold if a result were returned before it is captured;
* `OrderInv`: of a command that has not overlapped itself, what was captured is
  what its callers have seen, in that order, and at most one result more;
* `CopyInv`: a snapshot, and with it the file, has no more entries of a command
  than were captured, and no fewer than were returned when it was taken;
* `AloneInv`: the file of a Save that no other overlaps is the empty one that it
  opened, and what it has written stays, whole, until the next Save. Whether Replay
  reads it is another matter (`Fits`), as Save knows no limit;
* `SlotInv`: a slot is as far as its command has been replayed, or at its end,
  and what was served is the entry captured in that place.

`CaptureOrder` and `ReturnOrder` are the two steps that move `OrderInv` and
`CountInv`. `DoublesTypesCorrect` is `Spec => []TypeOK`.

### What is only model-checked

* Every liveness property: `CallsReturn`, `ReapedOnceClosed`,
  `KilledHandleIsDone`, `EndEndsStream`, `RangeFinishes`, `DropNeverStalls`,
  `FiltersFinish`, `CutEnds`, `CancelEnds`, `EveryCallEnds`, `ObserverReturns`.
  The provers have no rule for fairness and `ENABLED`.

Every invariant, action property and refinement that a passing run checks is a
theorem as well, for every value of the bounds that cut the runs.

## 6. Where code and documentation disagree

Checked by a run that must fail:

1. `group_frozen`. `group.go:272` says that a suspended group is still killed
   by Close. With the cgroup back end, a Start into a frozen cgroup does not
   come back from `exec` and holds the group's lock, so Close waits for it.
2. `tee_failure`. `stream.go:101-102` says that the background drain keeps the process
   from deadlocking on a full pipe. When a tee or a decoder fails, so does the
   read that goes through it (`stream.go:365`, `:373`); the drain ends, its error
   is dropped, and a child that goes on writing blocks on a pipe that nobody
   reads, until it is killed.
3. `pipeline_timeout`. A stage that exited cleanly in time is reported as timed
   out when a later stage runs past the first one's deadline, because the
   context of the stage is read at the end (`pipeline.go:246`).

Seen while modelling, and stated here only:

* `group.go:348` promises the grace period of Shutdown to the members;
  `waitGrace` watches only handles (`group.go:375`), so an adopted process, or a
  descendant whose leader has gone, is killed right after its SIGTERM.
* The guard of `stats.go:190` against a recycled pid asks whether `done` is
  closed, which happens after the pid was given back. `ProfileIsHonest` states
  the window that is left; `CPUTime` and `PeakMemoryBytes`, which look once, have
  it twice.
* `Group.Start` registers a handle before it makes its Lines channel
  (`group.go:224-230`). A handle that another goroutine takes from `Processes`
  in between returns a closed channel from `Lines`, and `WaitForLine` refuses
  it; the read of the field also races with its assignment.
* On Windows, `Signal(SignalKill)` and `Stats` copy the handle and use it
  without Group's lock. Racing a Close they may reach a value that the kernel
  has given to another job: `HandleIsOwn` states that these two, and only when
  the copy preceded the release, are exposed.
* Jitter is applied after the cap, so a delay may exceed `WithMaxBackoff`
  (`supervisor.go:180`, "caps the per-restart backoff delay") by half.
  `DelaysGrow` therefore allows that much.
* A remainder of output that ends in CR without LF loses the CR, and a line
  whose last full piece ends right before its LF is followed by an empty piece;
  `LineSplit` has both.
* A second, concurrent Close returns at once (`group.go:326`) although the
  first is still killing.
* Close can return nil with survivors: a process group drops EPERM
  (`job_unix.go:78-85`) and the fallback sweep of a cgroup takes a list it cannot
  read for an empty one (`job_linux.go:187-191`). It can also return an error with
  survivors, and calling it again does nothing (`group.go:326`). `NoOrphan` and
  `Container` therefore except the spared, which `group.go:322` ("hard-kills every
  process in the group") does not. The fallback's thaw may fail too
  (`job_linux.go:137`): survivors then stay frozen, and a Start after a
  Signal(SignalKill) that ended so waits like that of `group_frozen`.
* "Close never leaks the drain/reap goroutines" (`group.go:337-338`) is so of drains
  that are blocked in a send. One that reads a pipe which a spared or escaped
  process holds goes on reading; `ReapedOnceClosed` excepts it.
* A run's own deadline that elapses before `exec` starts the child is a
  StartError (`runner.go:93-99`), not the captured timeout of
  `command.go:121-124`, and a classifier that retries timeouts does not retry
  it. At that deadline only the direct child is killed; the
  rest of the tree follows after `WaitDelay` at the latest.
* If a parent's deadline passes between `runner.go:117` and `:122` the run, if it
  has a timeout, is reported as its own timeout, and a chain or a stage that has one
  between `pipeline.go:225` and `:232` or `:246`. `VerdictMatches` allows it by
  name and `Outcome` of `Pipeline` has it; a child that was killed is reported right
  even so.
* A descendant that called `setsid` in a process group survives Close, by
  design.
* Replay refuses a cassette of more than 64 MiB (`cassette.go:157-165`); Save
  writes one of any size and reports success. `SaveCovers` is about what Save
  writes.
* Two overlapping Saves of a recorder may leave the older snapshot, or a text
  that no Replay accepts; `SaveCovers` therefore speaks of a Save that no other
  overlaps.

## 7. What is not modelled

Builders, accessors, logging and `CliClient` keep no mutable state. Parsing of
`/proc`, cgroup files and JSON, the wording and sanitising of errors, the unit
conversions of `internal/sys` (`nanosFromUnit`, `saturatingMulU64`, `cpuMax`,
`cpuHardCapRate`) are functions on data without state, which tests reach. Not
modelled for want of a claim to check it against: the reuse of a process-group
id that `job_unix.go:54` still lists, for the code has no defence against it,
and what a decoder does. Out of TLAPS' reach, so left to TLC: liveness and
`ENABLED`.

## 8. Plan

Modelled, in this order: Container, Group, LineStream, Runner and Supervision,
Pipeline, Observers, CgroupJob, Doubles; then LineSplit, WinJob and BackEnds,
tees that fail, verbs, classifiers and delays in Supervision, and SampleStats.

Proved: the safety of Group and of both back ends, and that Group and WinJob
implement Container; then the safety of Supervision, Pipeline, LineStream,
LineSplit and Observers; then what was left of it, the delays of Supervision,
the cutting of LineSplit and the whole of Doubles (section 5).

Left: the liveness properties, which only the runs check.

## 9. How to run it

`tlc -config Group_tree.cfg Group` (and so on, one `.cfg` per run, the module
is in `PROJECT.json`); `tlapm GroupProofs.tla`, and likewise for the other seven
modules called `...Proofs`.
