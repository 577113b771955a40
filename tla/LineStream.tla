----------------------------- MODULE LineStream -----------------------------
(***************************************************************************)
(* The output of one process started with StreamLines: two OS pipes, one   *)
(* drain goroutine per pipe, the bounded Lines channel they share, the     *)
(* reaper, and a consumer that may probe with WaitForLine, range over      *)
(* Lines, or walk away (stream.go, running.go, probe.go).                  *)
(*                                                                         *)
(* A line is <<stream, n>>: the n-th line the process wrote to it.  How    *)
(* bytes become lines is not in this module.                               *)
(***************************************************************************)
EXTENDS Naturals, Sequences

CONSTANTS Streams,    \* the piped streams
          MaxLines,   \* bound: lines the process writes to each stream
          PipeCap,    \* lines an OS pipe holds
          BufferLines,\* capacity of the Lines channel
          Policies,   \* the overflow policies to consider: "block", "dropNewest"
          Matching,   \* the lines WaitForLine's match accepts
          Fallible    \* streams with a tee whose writes, or a decoder that, may fail

Lines == Streams \X (1 .. MaxLines)

ASSUME StreamAssumption ==
    /\ Streams \subseteq {"stdout", "stderr"}
    /\ MaxLines \in Nat /\ PipeCap \in Nat \ {0}
    /\ BufferLines \in Nat \ {0}          \* resolve replaces a value <= 0 by 1024
    /\ Policies \subseteq {"block", "dropNewest"}
    /\ Matching \subseteq Lines /\ Fallible \subseteq Streams

VARIABLES
    policy,      \* startConfig.overflow
    launched,    \* launchDrains has run, the reaper after it
    \* ---- the processes ----
    alive,       \* the direct child runs
    heir,        \* a descendant that inherited the pipes runs
    produced,    \* lines written to each stream so far
    pipe,        \* what each OS pipe holds
    \* ---- the drains ----
    drainPc,     \* "read", "send" (in emit's select), "eof" or "failed"
    hold,        \* the number of the line a drain is delivering
    called,      \* how many lines each stream's callback has seen
    \* ---- RunningProcess ----
    chan,        \* the Lines channel
    linesClosed, \* close(p.lines)
    done,        \* close(p.done)
    dropped,     \* p.dropped
    lost,        \* lines given up when stop or the context released a send
    stop,        \* close(p.stop)
    ctxDone,     \* the start context is cancelled
    \* ---- the consumer ----
    consumer,    \* "idle", "scan", "wait", "ranging", "finished" or "gone"
    buffered,    \* WaitForLine's loop counter
    received,    \* every line the consumer has received
    probe        \* what WaitForLine returned, and after how many lines

procVars  == <<alive, heir, produced, pipe>>
drainVars == <<drainPc, hold, called>>
runVars   == <<chan, linesClosed, done, dropped, lost>>
stopVars  == <<stop, ctxDone>>
consVars  == <<consumer, buffered, received, probe>>
config == <<policy, launched>>
vars == <<config, procVars, drainVars, runVars, stopVars, consVars>>

Results == {"none", "ready", "ended", "timeout", "cancelled"}

TypeOK ==
    /\ policy \in Policies /\ launched \in BOOLEAN
    /\ alive \in BOOLEAN /\ heir \in BOOLEAN
    /\ produced \in [Streams -> 0 .. MaxLines]
    /\ pipe \in [Streams -> Seq(1 .. MaxLines)]
    /\ drainPc \in [Streams -> {"read", "send", "eof", "failed"}]
    /\ hold \in [Streams -> 0 .. MaxLines]
    /\ called \in [Streams -> 0 .. MaxLines]
    /\ chan \in Seq(Lines) /\ Len(chan) <= BufferLines
    /\ linesClosed \in BOOLEAN /\ done \in BOOLEAN
    /\ dropped \in Nat /\ lost \in Nat
    /\ stop \in BOOLEAN /\ ctxDone \in BOOLEAN
    /\ consumer \in {"idle", "scan", "wait", "ranging", "finished", "gone"}
    /\ buffered \in 0 .. BufferLines
    /\ received \in Seq(Lines)
    /\ probe \in [result : Results, after : Nat]

Init ==
    /\ policy \in Policies
    /\ launched = FALSE
    /\ alive = TRUE
    /\ heir \in BOOLEAN
    /\ produced = [s \in Streams |-> 0]
    /\ pipe = [s \in Streams |-> <<>>]
    /\ drainPc = [s \in Streams |-> "read"]
    /\ hold = [s \in Streams |-> 0]
    /\ called = [s \in Streams |-> 0]
    /\ chan = <<>>
    /\ linesClosed = FALSE
    /\ done = FALSE
    /\ dropped = 0
    /\ lost = 0
    /\ stop = FALSE
    /\ ctxDone = FALSE
    /\ consumer = "idle"
    /\ buffered = 0
    /\ received = <<>>
    /\ probe = [result |-> "none", after |-> 0]

-----------------------------------------------------------------------------
(* The process.  A write to a full pipe blocks it. *)

Write(s) ==
    /\ alive
    /\ produced[s] < MaxLines
    /\ Len(pipe[s]) < PipeCap
    /\ produced' = [produced EXCEPT ![s] = @ + 1]
    /\ pipe' = [pipe EXCEPT ![s] = Append(@, produced[s] + 1)]
    /\ UNCHANGED <<config, alive, heir, drainVars, runVars, stopVars, consVars>>

Exit ==
    /\ alive
    /\ alive' = FALSE
    /\ UNCHANGED <<config, heir, produced, pipe, drainVars, runVars, stopVars, consVars>>

HeirExits ==
    /\ heir
    /\ heir' = FALSE
    /\ UNCHANGED <<config, alive, produced, pipe, drainVars, runVars, stopVars, consVars>>

-----------------------------------------------------------------------------
(* The drains.  drainLines reads a line and hands it to lineSink.emit, which *)
(* calls the callback and then selects on the channel.                       *)

\* The handle is in Group.Processes before this: unlocked first, launched then.
LaunchDrains ==
    /\ ~launched
    /\ launched' = TRUE
    /\ UNCHANGED <<policy, procVars, drainVars, runVars, stopVars, consVars>>

\* The line buffer is not emptied: the line is delivered again.
DrainReadMutant(s) ==
    /\ launched /\ drainPc[s] = "read"
    /\ pipe[s] # <<>>
    /\ called[s] < MaxLines
    /\ hold' = [hold EXCEPT ![s] = Head(pipe[s])]
    /\ called' = [called EXCEPT ![s] = @ + 1]
    /\ drainPc' = [drainPc EXCEPT ![s] = "send"]
    /\ UNCHANGED <<config, procVars, runVars, stopVars, consVars>>
DrainRead(s) ==
    /\ launched /\ drainPc[s] = "read"
    /\ pipe[s] # <<>>
    /\ hold' = [hold EXCEPT ![s] = Head(pipe[s])]
    /\ pipe' = [pipe EXCEPT ![s] = Tail(@)]
    /\ called' = [called EXCEPT ![s] = @ + 1]
    /\ drainPc' = [drainPc EXCEPT ![s] = "send"]
    /\ UNCHANGED <<config, alive, heir, produced, runVars, stopVars, consVars>>

EmitEnds(s) == drainPc' = [drainPc EXCEPT ![s] = "read"] /\ UNCHANGED <<hold, called>>

HasRoom == Len(chan) < BufferLines

Send(s) ==
    /\ drainPc[s] = "send"
    /\ HasRoom
    /\ chan' = Append(chan, <<s, hold[s]>>)
    /\ EmitEnds(s)
    /\ UNCHANGED <<config, procVars, linesClosed, done, dropped, lost, stopVars, consVars>>

\* OverflowDropNewest: the default case of the select.
DropsMutant == ~HasRoom      \* the overflow policy is not consulted
DropsNeverMutant == FALSE    \* the select has no default case
Drops == policy = "dropNewest" /\ ~HasRoom

Drop(s) ==
    /\ drainPc[s] = "send"
    /\ Drops
    /\ dropped' = dropped + 1
    /\ EmitEnds(s)
    /\ UNCHANGED <<config, procVars, chan, linesClosed, done, lost, stopVars, consVars>>

\* OverflowBlock: stop and the start context are cases of the same select, so Go
\* may take one of them although the channel has room.
ReleasesMutant == policy = "block" /\ ctxDone    \* a case of the select is missing
Releases == policy = "block" /\ (stop \/ ctxDone)

Release(s) ==
    /\ drainPc[s] = "send"
    /\ Releases
    /\ lost' = lost + 1
    /\ EmitEnds(s)
    /\ UNCHANGED <<config, procVars, chan, linesClosed, done, dropped, stopVars, consVars>>

\* The tee or the decoder returns an error: the drain is over, the pipe is not.
DrainFails(s) ==
    /\ s \in Fallible
    /\ launched /\ drainPc[s] = "read"
    /\ drainPc' = [drainPc EXCEPT ![s] = "failed"]
    /\ UNCHANGED <<config, procVars, hold, called, runVars, stopVars, consVars>>

\* Read returns io.EOF when the pipe is empty and nobody holds its write end.
DrainEOF(s) ==
    /\ launched /\ drainPc[s] = "read"
    /\ pipe[s] = <<>>
    /\ ~alive /\ ~heir
    /\ drainPc' = [drainPc EXCEPT ![s] = "eof"]
    /\ UNCHANGED <<config, procVars, hold, called, runVars, stopVars, consVars>>

-----------------------------------------------------------------------------
(* The reaper, and the ways to end the process from outside *)

\* drainWG.Wait, then cmd.Wait.
ReapReadyMutant == launched /\ ~alive    \* cmd.Wait is not preceded by drainWG.Wait
ReapReady == launched /\ ~alive /\ \A s \in Streams : drainPc[s] \in {"eof", "failed"}

\* The reaper returns early when the handle was stopped.
CloseLinesMutant ==
    /\ ReapReady
    /\ ~linesClosed /\ ~stop
    /\ linesClosed' = TRUE
    /\ UNCHANGED <<config, procVars, drainVars, chan, done, dropped, lost, stopVars, consVars>>
CloseLines ==
    /\ ReapReady
    /\ ~linesClosed
    /\ linesClosed' = TRUE
    /\ UNCHANGED <<config, procVars, drainVars, chan, done, dropped, lost, stopVars, consVars>>

CloseDone ==
    /\ linesClosed
    /\ ~done
    /\ done' = TRUE
    /\ UNCHANGED <<config, procVars, drainVars, chan, linesClosed, dropped, lost, stopVars,
                   consVars>>

\* Group.Close: the whole tree is killed, then the handle is stopped.
GroupKill ==
    /\ alive \/ heir
    /\ alive' = FALSE
    /\ heir' = FALSE
    /\ UNCHANGED <<config, produced, pipe, drainVars, runVars, stopVars, consVars>>

GroupStop ==
    /\ ~alive /\ ~heir
    /\ ~stop
    /\ stop' = TRUE
    /\ UNCHANGED <<config, procVars, drainVars, runVars, ctxDone, consVars>>

\* RunningProcess.Kill: the handle is stopped, then the direct child is killed.
KillHandle ==
    /\ ~done
    /\ ~stop
    /\ stop' = TRUE
    /\ alive' = FALSE
    /\ UNCHANGED <<config, heir, produced, pipe, drainVars, runVars, ctxDone, consVars>>

CtxCancel ==
    /\ ~done
    /\ ~ctxDone
    /\ ctxDone' = TRUE
    /\ UNCHANGED <<config, procVars, drainVars, runVars, stop, consVars>>

\* exec's watcher kills the direct child when the start context ends.
CtxKill ==
    /\ ctxDone
    /\ alive
    /\ alive' = FALSE
    /\ UNCHANGED <<config, heir, produced, pipe, drainVars, runVars, stopVars, consVars>>

-----------------------------------------------------------------------------
(* The consumer: WaitForLine, then a range over Lines *)

consOther == <<config, procVars, drainVars, linesClosed, done, dropped, lost, stopVars>>

Matches(l) == l \in Matching

Take ==
    /\ chan # <<>>
    /\ received' = Append(received, Head(chan))
    /\ chan' = Tail(chan)

\* The probe returns r; a line it has just received counts.
Return(r) ==
    /\ probe' = [result |-> r, after |-> Len(received')]
    /\ consumer' = "ranging"

\* A handle without a channel yet: the probe says that streaming is not enabled, and
\* the next call may find it.  The number of lines buffered at entry is scanned before the timer is looked at.
StartProbe ==
    /\ launched /\ consumer = "idle"
    /\ consumer' = "scan"
    /\ buffered' = Len(chan)
    /\ UNCHANGED <<consOther, chan, received, probe>>

ScanLine ==
    /\ consumer = "scan"
    /\ buffered > 0
    /\ Take
    /\ IF Matches(Head(chan))
       THEN Return("ready") /\ UNCHANGED buffered
       ELSE buffered' = buffered - 1 /\ UNCHANGED <<consumer, probe>>
    /\ UNCHANGED consOther

ScanOver ==
    /\ consumer = "scan"
    /\ buffered = 0
    /\ consumer' = "wait"
    /\ UNCHANGED <<consOther, chan, buffered, received, probe>>

WaitLine ==
    /\ consumer = "wait"
    /\ Take
    /\ IF Matches(Head(chan))
       THEN Return("ready")
       ELSE UNCHANGED <<consumer, probe>>
    /\ UNCHANGED <<consOther, buffered>>

\* A receive from a closed channel yields what is buffered first.
StreamEndedMutant == linesClosed
StreamEnded == linesClosed /\ chan = <<>>

WaitEnded ==
    /\ consumer = "wait"
    /\ StreamEnded
    /\ UNCHANGED <<consOther, chan, buffered, received>>
    /\ Return("ended")

\* The probe's own timer and context.
WaitCut ==
    /\ consumer = "wait"
    /\ UNCHANGED <<consOther, chan, buffered, received>>
    /\ Return("timeout") \/ Return("cancelled")

\* Lines of a handle without a channel yet is a channel that is closed already.
StartRange ==
    /\ consumer = "idle"
    /\ consumer' = IF launched THEN "ranging" ELSE "finished"
    /\ UNCHANGED <<consOther, chan, buffered, received, probe>>

RangeLine ==
    /\ consumer = "ranging"
    /\ Take
    /\ UNCHANGED <<consOther, consumer, buffered, probe>>

RangeEnds ==
    /\ consumer = "ranging"
    /\ StreamEnded
    /\ consumer' = "finished"
    /\ UNCHANGED <<consOther, chan, buffered, received, probe>>

Abandon ==
    /\ consumer \in {"idle", "ranging"}
    /\ consumer' = "gone"
    /\ UNCHANGED <<consOther, chan, buffered, received, probe>>

Consume == ScanLine \/ ScanOver \/ WaitLine \/ WaitEnded \/ RangeLine \/ RangeEnds

Drain(s) == DrainRead(s) \/ Send(s) \/ Drop(s) \/ Release(s) \/ DrainEOF(s)

Next ==
    \/ LaunchDrains
    \/ \E s \in Streams : Write(s) \/ Drain(s) \/ DrainFails(s)
    \/ Exit \/ HeirExits
    \/ CloseLines \/ CloseDone
    \/ GroupKill \/ GroupStop \/ KillHandle \/ CtxCancel \/ CtxKill
    \/ StartProbe \/ StartRange \/ WaitCut \/ Abandon \/ Consume

\* The drains, the reaper, exec's watcher and a consumer that has not walked away
\* run.  Nothing makes a process write or exit, a caller close, or a timer fire.
Fairness ==
    /\ \A s \in Streams : WF_vars(Drain(s))
    /\ WF_vars(LaunchDrains) /\ WF_vars(CloseLines) /\ WF_vars(CloseDone) /\ WF_vars(CtxKill)
    /\ WF_vars(Consume)

Spec == Init /\ [][Next]_vars /\ Fairness

-----------------------------------------------------------------------------
(* Safety *)

\* Every line that went into the channel, in the order in which it did.
Sent == received \o chan

\* How many lines of s the drain is done with.
Emitted(s) == called[s] - (IF drainPc[s] = "send" THEN 1 ELSE 0)

\* ... and none of a stream that is not piped.
EmittedOf(name) == IF name \in Streams THEN Emitted(name) ELSE 0

\* Whatever overflows and whatever is torn down, the lines of a stream reach the
\* consumer in the order in which the process wrote them, and none twice.
InOrder ==
    \A i, j \in 1 .. Len(Sent) :
        i < j /\ Sent[i][1] = Sent[j][1] => Sent[i][2] < Sent[j][2]

\* Every line is accounted for once: it went into the channel, it was dropped and
\* counted by DroppedLines, or a release gave it up.  Under OverflowBlock "No line is
\* lost" (stream.go:46), as long as nobody stops the handle or ends its context.
DropsAreCounted ==
    /\ EmittedOf("stdout") + EmittedOf("stderr") = Len(Sent) + dropped + lost
    /\ policy = "block" => dropped = 0 /\ (~stop /\ ~ctxDone => lost = 0)
    /\ policy = "dropNewest" => lost = 0

\* The channel is never closed under a drain (a send on a closed channel panics),
\* and when it is closed all output is in it, except that of a stream whose tee or
\* decoder failed: callbacks have seen every line.
ClosedAfterDrains ==
    linesClosed =>
        \A s \in Streams : \/ drainPc[s] = "eof" /\ called[s] = produced[s]
                          \/ drainPc[s] = "failed"

\* WaitForLine returns the first matching line and has consumed the channel "up to
\* and including the matched line" (probe.go:24); it says that the output ended
\* without a match only if no line that reached the channel matches: one that was dropped
\* or released may.
ProbeIsExact ==
    LET before == {i \in 1 .. Len(received) : i <= probe.after /\ Matches(received[i])}
    IN  /\ probe.result = "ready" => before = {probe.after}
        /\ probe.result \in {"ended", "timeout", "cancelled"} => before = {}
        /\ probe.result = "ended" =>
             linesClosed /\ probe.after = Len(Sent) /\ ~ \E i \in DOMAIN Sent : Matches(Sent[i])

-----------------------------------------------------------------------------
(* Liveness *)

\* Closing the group ends the handle, with a full channel that nobody reads, and so
\* does cancelling the start context, once no descendant holds the pipes
\* (stream.go:218-222).
EndEndsStream == (stop \/ ctxDone) /\ ~heir /\ (stop => ~alive) ~> done

\* A consumer that does not walk away gets to the end of the range once the
\* process and its descendants are gone.
RangeFinishes ==
    consumer = "ranging" /\ ~alive /\ ~heir ~> consumer \in {"finished", "gone"}

\* Under OverflowDropNewest "a slow consumer can never stall the process"
\* (stream.go:52): what was written leaves the pipe whatever the consumer does, unless
\* the drain itself has failed.
DropNeverStalls ==
    \A s \in Streams :
        policy = "dropNewest" /\ Len(pipe[s]) = PipeCap
            ~> Len(pipe[s]) < PipeCap \/ drainPc[s] = "failed"

-----------------------------------------------------------------------------
(* What the documentation says and the code does not do *)

\* "Configuring any stderr consumer also drains stderr in the background, so the
\* process can't deadlock on a full stderr pipe" (stream.go:101-102): a full pipe is
\* drained until the process is gone.
PipesAreDrained ==
    \A s \in Streams : Len(pipe[s]) = PipeCap ~> Len(pipe[s]) < PipeCap \/ ~alive
=============================================================================
