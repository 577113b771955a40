-------------------------- MODULE LineStreamProofs --------------------------
(***************************************************************************)
(* Proofs about LineStream.tla, for any number of lines, pipes and a Lines *)
(* channel of any capacity, either overflow policy and any match.          *)
(***************************************************************************)
EXTENDS LineStream, SequenceTheorems, TLAPS

-----------------------------------------------------------------------------
(* Queues *)

\* Moving the head of the second of two queues to the end of the first.
LEMMA MoveHead ==
    ASSUME NEW S, NEW r \in Seq(S), NEW c \in Seq(S), c # <<>>
    PROVE  Append(r, Head(c)) \o Tail(c) = r \o c
  <1>1. Head(c) \in S /\ Tail(c) \in Seq(S) /\ Head(c) = c[1] /\ Len(c) \in Nat \ {0}
    BY HeadTailProperties, EmptySeq
  <1>2. c = <<Head(c)>> \o Tail(c)
    <2>1. SubSeq(c, 1, Len(c)) = <<c[1]>> \o SubSeq(c, 1 + 1, Len(c))
      BY <1>1, SubSeqRecursiveFirst
    <2> QED BY <1>1, <2>1, SubSeqFull, TailIsSubSeq
  <1>3. <<Head(c)>> \in Seq(S) /\ Append(r, Head(c)) = r \o <<Head(c)>>
    BY <1>1, AppendIsConcat
  <1>4. (r \o <<Head(c)>>) \o Tail(c) = r \o (<<Head(c)>> \o Tail(c))
    BY <1>1, <1>3, ConcatAssociative
  <1> QED BY <1>2, <1>3, <1>4

\* Adding to the end of the second of two queues.
LEMMA ExtendTail ==
    ASSUME NEW S, NEW r \in Seq(S), NEW c \in Seq(S), NEW l \in S
    PROVE  r \o Append(c, l) = Append(r \o c, l)
  <1>1. r \o c \in Seq(S) /\ <<l>> \in Seq(S)
    BY ConcatProperties
  <1>2. Append(c, l) = c \o <<l>> /\ Append(r \o c, l) = (r \o c) \o <<l>>
    BY <1>1, AppendIsConcat
  <1> QED BY <1>1, <1>2, ConcatAssociative

\* The tail of a queue of consecutive numbers is one.
LEMMA Consecutive ==
    ASSUME NEW S, NEW q \in Seq(S), q # <<>>, NEW c \in Int,
           \A i \in 1 .. Len(q) : q[i] = c + i
    PROVE  /\ Head(q) = c + 1 /\ Head(q) \in S
           /\ Len(q) \in Nat \ {0} /\ Tail(q) \in Seq(S) /\ Len(Tail(q)) = Len(q) - 1
           /\ \A i \in 1 .. Len(Tail(q)) : Tail(q)[i] = c + 1 + i
  <1>1. /\ Head(q) \in S /\ Tail(q) \in Seq(S) /\ Len(Tail(q)) = Len(q) - 1
        /\ \A i \in 1 .. Len(Tail(q)) : Tail(q)[i] = q[i + 1]
    BY HeadTailProperties
  <1>2. Len(q) \in Nat \ {0}
    BY EmptySeq
  <1>3. Head(q) = q[1]
    BY <1>2
  <1>4. q[1] = c + 1
    BY <1>2
  <1>5. ASSUME NEW i \in 1 .. Len(Tail(q)) PROVE Tail(q)[i] = c + 1 + i
    <2>1. i + 1 \in 1 .. Len(q) /\ i \in Int
      BY <1>1, <1>2
    <2>2. q[i + 1] = c + (i + 1)
      BY <2>1
    <2> QED BY <1>1, <2>1, <2>2
  <1> QED BY <1>1, <1>2, <1>3, <1>4, <1>5

-----------------------------------------------------------------------------
(* The invariant *)

\* A pipe holds the lines that follow those its callback has seen, and a drain delivers
\* the last of these.
QueueInv ==
    \A s \in Streams :
        /\ Len(pipe[s]) = produced[s] - called[s]
        /\ \A i \in 1 .. Len(pipe[s]) : pipe[s][i] = called[s] + i
        /\ drainPc[s] = "send" => hold[s] = called[s] /\ called[s] > 0
        /\ drainPc[s] = "eof" => pipe[s] = <<>> /\ ~alive

\* Nothing is in the channel that a drain is not done with.
SentInv ==
    /\ \A s \in Streams : \A i \in 1 .. Len(Sent) : Sent[i][1] = s => Sent[i][2] <= Emitted(s)
    /\ InOrder

\* The channel is closed when no drain can send any more.
CloseInv == linesClosed => ~alive /\ \A s \in Streams : drainPc[s] \in {"eof", "failed"}

\* A probe that has not returned has seen no match, and what it has said of the lines
\* received stays true.
ProbeInv ==
    /\ consumer \in {"idle", "scan", "wait"} =>
          probe.result = "none" /\ \A i \in 1 .. Len(received) : ~Matches(received[i])
    /\ probe.after <= Len(received)
    /\ probe.result = "ended" => chan = <<>>
    /\ ProbeIsExact

StreamInv == TypeOK /\ QueueInv /\ SentInv /\ DropsAreCounted /\ CloseInv /\ ProbeInv

-----------------------------------------------------------------------------
(* The channel *)

\* The consumer moves the head of the channel to what it has received.
LEMMA TakeKeepsSent ==
    ASSUME TypeOK, Take
    PROVE  /\ received' \in Seq(Lines) /\ chan' \in Seq(Lines)
           /\ Len(received') = Len(received) + 1 /\ Len(chan') = Len(chan) - 1
           /\ \A i \in 1 .. Len(received) : received'[i] = received[i]
           /\ received'[Len(received) + 1] = Head(chan)
           /\ Sent' = Sent
  <1>1. received \in Seq(Lines) /\ chan \in Seq(Lines) /\ chan # <<>>
    BY DEF TypeOK, Take
  <1>2. received' = Append(received, Head(chan)) /\ chan' = Tail(chan)
    BY DEF Take
  <1>3. Head(chan) \in Lines /\ chan' \in Seq(Lines) /\ Len(chan') = Len(chan) - 1
    BY <1>1, <1>2, HeadTailProperties
  <1>4. /\ received' \in Seq(Lines) /\ Len(received') = Len(received) + 1
        /\ \A i \in 1 .. Len(received) : received'[i] = received[i]
        /\ received'[Len(received) + 1] = Head(chan)
    BY <1>1, <1>2, <1>3, AppendProperties
  <1>5. Sent' = Sent
    BY <1>1, <1>2, MoveHead DEF Sent
  <1> QED BY <1>3, <1>4, <1>5

\* A drain adds to it.
LEMMA SendAppends ==
    ASSUME TypeOK, NEW l \in Lines, chan' = Append(chan, l), received' = received
    PROVE  /\ chan' \in Seq(Lines) /\ Len(chan') = Len(chan) + 1
           /\ Len(Sent') = Len(Sent) + 1
           /\ \A i \in 1 .. Len(Sent) : Sent'[i] = Sent[i]
           /\ Sent'[Len(Sent) + 1] = l
  <1>1. received \in Seq(Lines) /\ chan \in Seq(Lines) /\ Sent \in Seq(Lines)
    BY ConcatProperties DEF TypeOK, Sent
  <1>2. Sent' = Append(Sent, l)
    BY <1>1, ExtendTail DEF Sent
  <1>3. chan' \in Seq(Lines) /\ Len(chan') = Len(chan) + 1
    BY <1>1, AppendProperties
  <1> HIDE DEF Sent
  <1> QED BY <1>1, <1>2, <1>3, AppendProperties

\* The lines sent are lines, and as many as were received and are in the channel.
LEMMA SentType ==
    ASSUME TypeOK
    PROVE  /\ Sent \in Seq(Lines) /\ Len(Sent) \in Nat /\ Len(received) \in Nat
           /\ \A i \in 1 .. Len(received) : received[i] \in Lines
           /\ \A i \in 1 .. Len(Sent) : Sent[i] \in Lines /\ Sent[i][1] \in Streams
                                          /\ Sent[i][2] \in 1 .. MaxLines
           /\ chan = <<>> => Sent = received
  <1>1. received \in Seq(Lines) /\ chan \in Seq(Lines)
    BY DEF TypeOK
  <1>2. Sent \in Seq(Lines) /\ Len(Sent) \in Nat /\ Len(received) \in Nat
    BY <1>1, ConcatProperties, LenProperties DEF Sent
  <1>3. \A i \in 1 .. Len(Sent) : Sent[i] \in Lines
    BY <1>2, ElementOfSeq
  <1>4. \A i \in 1 .. Len(received) : received[i] \in Lines
    BY <1>1, ElementOfSeq
  <1>5. chan = <<>> => Sent = received
    BY <1>1, ConcatEmptySeq DEF Sent
  <1> QED BY <1>2, <1>3, <1>4, <1>5 DEF Lines

-----------------------------------------------------------------------------
(* The steps *)

\* What the process writes goes to the end of a pipe, under the next number.
LEMMA WriteKeepsQueue ==
    ASSUME TypeOK, QueueInv, NEW s \in Streams, Write(s)
    PROVE  /\ produced' \in [Streams -> 0 .. MaxLines] /\ pipe' \in [Streams -> Seq(1 .. MaxLines)]
           /\ QueueInv'
  <1>1. /\ produced[s] \in 0 .. MaxLines /\ produced[s] + 1 \in 1 .. MaxLines
        /\ called[s] \in 0 .. MaxLines /\ pipe[s] \in Seq(1 .. MaxLines)
    BY StreamAssumption DEF Write, TypeOK
  <1>2. /\ produced' = [produced EXCEPT ![s] = produced[s] + 1]
        /\ pipe' = [pipe EXCEPT ![s] = Append(pipe[s], produced[s] + 1)]
        /\ alive /\ alive' = alive /\ UNCHANGED drainVars
    BY DEF Write
  <1>3. /\ Append(pipe[s], produced[s] + 1) \in Seq(1 .. MaxLines)
        /\ Len(Append(pipe[s], produced[s] + 1)) = Len(pipe[s]) + 1
        /\ Len(pipe[s]) \in Nat
        /\ \A i \in 1 .. Len(pipe[s]) : Append(pipe[s], produced[s] + 1)[i] = pipe[s][i]
        /\ Append(pipe[s], produced[s] + 1)[Len(pipe[s]) + 1] = produced[s] + 1
    BY <1>1, AppendProperties, LenProperties
  <1>4. produced' \in [Streams -> 0 .. MaxLines] /\ pipe' \in [Streams -> Seq(1 .. MaxLines)]
    BY <1>1, <1>2, <1>3 DEF TypeOK
  <1>5. /\ produced'[s] = produced[s] + 1 /\ pipe'[s] = Append(pipe[s], produced[s] + 1)
        /\ \A t \in Streams \ {s} : produced'[t] = produced[t] /\ pipe'[t] = pipe[t]
    BY <1>2 DEF TypeOK
  <1>6. Len(pipe[s]) = produced[s] - called[s]
        /\ \A i \in 1 .. Len(pipe[s]) : pipe[s][i] = called[s] + i
    BY DEF QueueInv
  <1>7. Len(pipe'[s]) = produced'[s] - called[s]
    BY <1>1, <1>3, <1>5, <1>6
  <1>8. ASSUME NEW i \in 1 .. Len(pipe'[s]) PROVE pipe'[s][i] = called[s] + i
    <2>1. CASE i \in 1 .. Len(pipe[s])
      BY <2>1, <1>3, <1>5, <1>6
    <2>2. CASE i = Len(pipe[s]) + 1
      BY <2>2, <1>1, <1>3, <1>5, <1>6
    <2> QED BY <2>1, <2>2, <1>3, <1>5
  <1>9. QueueInv'
    BY <1>2, <1>5, <1>7, <1>8 DEF QueueInv, drainVars
  <1> QED BY <1>4, <1>9

\* The process, the reaper and those who stop the handle touch neither the drains nor what
\* they have delivered.
LEMMA OuterSteps ==
    ASSUME StreamInv,
           \/ LaunchDrains \/ (\E s \in Streams : Write(s)) \/ Exit \/ HeirExits
           \/ CloseLines \/ CloseDone
           \/ GroupKill \/ GroupStop \/ KillHandle \/ CtxCancel \/ CtxKill
    PROVE  StreamInv'
  <1>1. /\ UNCHANGED <<policy, drainVars, chan, dropped, lost, consVars>>
        /\ alive' => alive
        /\ stop => stop'
        /\ ctxDone => ctxDone'
        /\ linesClosed => linesClosed'
        /\ linesClosed' => linesClosed \/ ReapReady
    <2>1. CASE LaunchDrains \/ (\E s \in Streams : Write(s)) \/ Exit \/ HeirExits
      BY <2>1
      DEF LaunchDrains, Write, Exit, HeirExits, procVars, runVars, stopVars, config
    <2>2. CASE CloseLines \/ CloseDone
      BY <2>2 DEF CloseLines, CloseDone, procVars, runVars, stopVars, config
    <2>3. CASE GroupKill \/ GroupStop \/ KillHandle \/ CtxCancel \/ CtxKill
      BY <2>3
      DEF GroupKill, GroupStop, KillHandle, CtxCancel, CtxKill, procVars, runVars, stopVars,
          config
    <2> QED BY <2>1, <2>2, <2>3
  <1>2. /\ launched' \in BOOLEAN /\ alive' \in BOOLEAN /\ heir' \in BOOLEAN
        /\ linesClosed' \in BOOLEAN /\ done' \in BOOLEAN /\ stop' \in BOOLEAN
        /\ ctxDone' \in BOOLEAN
    <2>1. CASE LaunchDrains \/ (\E s \in Streams : Write(s)) \/ Exit \/ HeirExits
      BY <2>1
      DEF LaunchDrains, Write, Exit, HeirExits, procVars, runVars, stopVars, config, StreamInv,
          TypeOK
    <2>2. CASE CloseLines \/ CloseDone
      BY <2>2 DEF CloseLines, CloseDone, procVars, runVars, stopVars, config, StreamInv, TypeOK
    <2>3. CASE GroupKill \/ GroupStop \/ KillHandle \/ CtxCancel \/ CtxKill
      BY <2>3
      DEF GroupKill, GroupStop, KillHandle, CtxCancel, CtxKill, procVars, runVars, stopVars,
          config, StreamInv, TypeOK
    <2> QED BY <2>1, <2>2, <2>3
  <1>3. /\ produced' \in [Streams -> 0 .. MaxLines] /\ pipe' \in [Streams -> Seq(1 .. MaxLines)]
        /\ QueueInv'
    <2>1. CASE \E s \in Streams : Write(s)
      BY <2>1, WriteKeepsQueue DEF StreamInv
    <2>2. CASE UNCHANGED <<produced, pipe>>
      BY <2>2, <1>1 DEF StreamInv, TypeOK, QueueInv, drainVars
    <2>3. UNCHANGED <<produced, pipe>> \/ \E s \in Streams : Write(s)
      BY DEF LaunchDrains, Exit, HeirExits, CloseLines, CloseDone, GroupKill, GroupStop,
             KillHandle, CtxCancel, CtxKill, procVars
    <2> QED BY <2>1, <2>2, <2>3
  <1>4. TypeOK'
    BY <1>1, <1>2, <1>3 DEF StreamInv, TypeOK, drainVars, consVars
  <1>5. Sent' = Sent /\ \A s : Emitted(s)' = Emitted(s)
    BY <1>1 DEF Sent, Emitted, drainVars, consVars
  <1>6. SentInv'
    BY <1>5 DEF StreamInv, SentInv, InOrder
  <1>7. DropsAreCounted'
    BY <1>1, <1>5 DEF StreamInv, DropsAreCounted, EmittedOf
  <1>8. CloseInv'
    BY <1>1 DEF StreamInv, CloseInv, ReapReady, drainVars
  <1>9. ProbeInv'
    BY <1>1, <1>5 DEF StreamInv, ProbeInv, ProbeIsExact, consVars, Matches
  <1> QED BY <1>3, <1>4, <1>6, <1>7, <1>8, <1>9 DEF StreamInv

\* A drain takes the next line of its pipe.
LEMMA ReadKeepsQueue ==
    ASSUME TypeOK, QueueInv, NEW s \in Streams, DrainRead(s)
    PROVE  TypeOK' /\ QueueInv'
  <1>1. /\ pipe[s] \in Seq(1 .. MaxLines) /\ pipe[s] # <<>> /\ MaxLines \in Nat
        /\ called[s] \in 0 .. MaxLines /\ produced[s] \in 0 .. MaxLines
        /\ Len(pipe[s]) = produced[s] - called[s]
        /\ \A i \in 1 .. Len(pipe[s]) : pipe[s][i] = called[s] + i
    BY StreamAssumption DEF DrainRead, TypeOK, QueueInv
  <1>2. /\ Head(pipe[s]) = called[s] + 1 /\ Head(pipe[s]) \in 1 .. MaxLines
        /\ Len(pipe[s]) \in Nat \ {0} /\ Tail(pipe[s]) \in Seq(1 .. MaxLines)
        /\ Len(Tail(pipe[s])) = Len(pipe[s]) - 1
        /\ \A i \in 1 .. Len(Tail(pipe[s])) : Tail(pipe[s])[i] = called[s] + 1 + i
    <2> DEFINE q == pipe[s]
               c == called[s]
               L == 1 .. MaxLines
    <2>1. /\ q \in Seq(L) /\ q # <<>> /\ c \in Int
          /\ \A i \in 1 .. Len(q) : q[i] = c + i
      BY <1>1
    <2> HIDE DEF q, c, L
    <2>2. /\ Head(q) = c + 1 /\ Head(q) \in L
          /\ Len(q) \in Nat \ {0} /\ Tail(q) \in Seq(L)
          /\ Len(Tail(q)) = Len(q) - 1
          /\ \A i \in 1 .. Len(Tail(q)) : Tail(q)[i] = c + 1 + i
      BY <2>1, Consecutive
    <2> QED BY <2>2 DEF q, c, L
  <1>3. called[s] + 1 \in 0 .. MaxLines
    BY <1>1, <1>2
  <1>4. /\ UNCHANGED <<config, alive, heir, produced, runVars, stopVars, consVars>>
        /\ hold' = [hold EXCEPT ![s] = called[s] + 1]
        /\ pipe' = [pipe EXCEPT ![s] = Tail(pipe[s])]
        /\ called' = [called EXCEPT ![s] = called[s] + 1]
        /\ drainPc' = [drainPc EXCEPT ![s] = "send"]
    BY <1>2 DEF DrainRead
  <1>5. /\ hold' \in [Streams -> 0 .. MaxLines] /\ called' \in [Streams -> 0 .. MaxLines]
        /\ pipe' \in [Streams -> Seq(1 .. MaxLines)]
        /\ drainPc' \in [Streams -> {"read", "send", "eof", "failed"}]
    BY <1>2, <1>3, <1>4 DEF TypeOK
  <1>6. TypeOK'
    BY <1>4, <1>5 DEF TypeOK, config, runVars, stopVars, consVars
  <1>7. /\ hold'[s] = called[s] + 1 /\ pipe'[s] = Tail(pipe[s]) /\ called'[s] = called[s] + 1
        /\ drainPc'[s] = "send"
        /\ \A t \in Streams \ {s} : /\ hold'[t] = hold[t] /\ pipe'[t] = pipe[t]
                                    /\ called'[t] = called[t] /\ drainPc'[t] = drainPc[t]
    BY <1>4 DEF TypeOK
  <1>8. Len(Tail(pipe[s])) = produced[s] - (called[s] + 1) /\ called[s] + 1 > 0
    BY <1>1, <1>2
  <1>9. UNCHANGED <<alive, produced>>
    BY <1>4
  <1>10. ASSUME NEW t \in Streams
         PROVE  /\ Len(pipe'[t]) = produced[t] - called'[t]
                /\ \A i \in 1 .. Len(pipe'[t]) : pipe'[t][i] = called'[t] + i
                /\ drainPc'[t] = "send" => hold'[t] = called'[t] /\ called'[t] > 0
                /\ drainPc'[t] = "eof" => pipe'[t] = <<>> /\ ~alive
    <2>1. CASE t = s
      BY <2>1, <1>2, <1>7, <1>8
    <2>2. CASE t # s
      BY <2>2, <1>7 DEF QueueInv
    <2> QED BY <2>1, <2>2
  <1>11. QueueInv'
    BY <1>9, <1>10 DEF QueueInv
  <1> QED BY <1>6, <1>11

\* As long as nothing is delivered, nothing is owed to the consumer and nothing counted.
LEMMA ReadSteps ==
    ASSUME StreamInv, NEW s \in Streams, DrainRead(s) \/ DrainFails(s) \/ DrainEOF(s)
    PROVE  StreamInv'
  <1>1. /\ UNCHANGED <<config, alive, heir, produced, runVars, stopVars, consVars>>
        /\ drainPc[s] = "read"
        /\ \A t \in Streams \ {s} : drainPc'[t] = drainPc[t] /\ called'[t] = called[t]
        /\ \/ drainPc'[s] = "send" /\ called'[s] = called[s] + 1
           \/ drainPc'[s] \in {"eof", "failed"} /\ called'[s] = called[s]
    <2>1. CASE DrainRead(s)
      BY <2>1 DEF DrainRead, StreamInv, TypeOK
    <2>2. CASE DrainFails(s) \/ DrainEOF(s)
      BY <2>2 DEF DrainFails, DrainEOF, procVars, StreamInv, TypeOK
    <2> QED BY <2>1, <2>2
  <1>2. TypeOK' /\ QueueInv'
    <2>1. CASE DrainRead(s)
      BY <2>1, ReadKeepsQueue DEF StreamInv
    <2>2. CASE DrainFails(s) \/ DrainEOF(s)
      <3>1. /\ UNCHANGED <<config, procVars, hold, called, runVars, stopVars, consVars>>
            /\ drainPc' \in [Streams -> {"read", "send", "eof", "failed"}]
        BY <2>2 DEF DrainFails, DrainEOF, StreamInv, TypeOK
      <3>2. TypeOK'
        BY <3>1 DEF StreamInv, TypeOK, config, procVars, runVars, stopVars, consVars
      <3>3. drainPc'[s] = "eof" => pipe[s] = <<>> /\ ~alive
        BY <2>2 DEF DrainFails, DrainEOF, StreamInv, TypeOK
      <3>4. drainPc'[s] # "send"
        BY <2>2 DEF DrainFails, DrainEOF, StreamInv, TypeOK
      <3>5. QueueInv'
        BY <1>1, <3>1, <3>3, <3>4 DEF StreamInv, QueueInv, procVars
      <3> QED BY <3>2, <3>5
    <2> QED BY <2>1, <2>2
  <1>3. Sent' = Sent
    BY <1>1 DEF Sent, runVars, consVars
  <1>4. \A t \in Streams : Emitted(t)' = Emitted(t)
    <2>1. \A t \in Streams : called[t] \in Nat
      BY StreamAssumption DEF StreamInv, TypeOK
    <2> QED BY <1>1, <2>1 DEF Emitted
  <1>5. SentInv'
    <2>1. \A i \in 1 .. Len(Sent) : Sent[i][1] \in Streams
      BY SentType DEF StreamInv
    <2> QED BY <1>3, <1>4, <2>1 DEF StreamInv, SentInv, InOrder
  <1>6. DropsAreCounted'
    <2>1. \A name : EmittedOf(name)' = EmittedOf(name)
      BY <1>4 DEF EmittedOf
    <2> QED BY <1>1, <1>3, <2>1 DEF StreamInv, DropsAreCounted, config, runVars, stopVars
  <1>7. CloseInv'
    BY <1>1 DEF StreamInv, CloseInv, runVars
  <1>8. ProbeInv'
    BY <1>1, <1>3 DEF StreamInv, ProbeInv, ProbeIsExact, Matches, consVars, runVars
  <1> QED BY <1>2, <1>5, <1>6, <1>7, <1>8 DEF StreamInv

\* Every line that a drain is done with is sent, dropped or lost.
LEMMA DeliverSteps ==
    ASSUME StreamInv, NEW s \in Streams, Send(s) \/ Drop(s) \/ Release(s)
    PROVE  StreamInv'
  <1>1. /\ UNCHANGED <<config, procVars, hold, called, linesClosed, done, stopVars, consVars>>
        /\ drainPc[s] = "send" /\ drainPc' = [drainPc EXCEPT ![s] = "read"]
    BY DEF Send, Drop, Release, EmitEnds
  <1>2. /\ drainPc'[s] = "read" /\ \A t \in Streams \ {s} : drainPc'[t] = drainPc[t]
        /\ drainPc' \in [Streams -> {"read", "send", "eof", "failed"}]
    BY <1>1 DEF StreamInv, TypeOK
  <1>3. /\ hold[s] = called[s] /\ called[s] \in 1 .. MaxLines
        /\ <<s, hold[s]>> \in Lines
        /\ \A t \in Streams : called[t] \in Nat
    BY <1>1, StreamAssumption DEF StreamInv, TypeOK, QueueInv, Lines
  <1>4. ~linesClosed /\ probe.result # "ended"
    BY <1>1 DEF StreamInv, CloseInv, ProbeInv, ProbeIsExact
  <1>5. /\ Emitted(s) = called[s] - 1 /\ Emitted(s)' = called[s]
        /\ \A t \in Streams \ {s} : Emitted(t)' = Emitted(t)
        /\ \A t \in Streams : Emitted(t) \in Int /\ Emitted(t)' \in Int
    BY <1>1, <1>2, <1>3 DEF Emitted
  <1>6. EmittedOf("stdout")' + EmittedOf("stderr")'
          = EmittedOf("stdout") + EmittedOf("stderr") + 1
    <2>1. s = "stdout" \/ s = "stderr"
      BY StreamAssumption
    <2>2. CASE s = "stdout"
      BY <2>2, <1>3, <1>5 DEF EmittedOf
    <2>3. CASE s = "stderr"
      BY <2>3, <1>3, <1>5 DEF EmittedOf
    <2> QED BY <2>1, <2>2, <2>3
  <1>7. QueueInv'
    BY <1>1, <1>2 DEF StreamInv, QueueInv, procVars
  <1>8. CloseInv'
    BY <1>1, <1>4 DEF CloseInv
  <1>9. ProbeInv'
    BY <1>1, <1>4 DEF StreamInv, ProbeInv, ProbeIsExact, Matches, consVars
  <1>10. CASE Send(s)
    <2>1. chan' = Append(chan, <<s, hold[s]>>) /\ UNCHANGED <<dropped, lost>> /\ HasRoom
      BY <1>10 DEF Send
    <2>2. /\ chan' \in Seq(Lines) /\ Len(chan') = Len(chan) + 1
          /\ Len(Sent') = Len(Sent) + 1
          /\ \A i \in 1 .. Len(Sent) : Sent'[i] = Sent[i]
          /\ Sent'[Len(Sent) + 1] = <<s, called[s]>>
      BY <1>1, <1>3, <2>1, SendAppends DEF StreamInv, consVars
    <2>3. /\ Len(Sent) \in Nat
          /\ \A i \in 1 .. Len(Sent) : Sent[i][1] \in Streams /\ Sent[i][2] \in Nat
      BY SentType, StreamAssumption DEF StreamInv
    <2>4. TypeOK'
      <3>1. Len(chan') <= BufferLines
        BY <2>1, <2>2, StreamAssumption, LenProperties DEF HasRoom, StreamInv, TypeOK
      <3> QED BY <1>1, <1>2, <2>1, <2>2, <3>1
              DEF StreamInv, TypeOK, config, procVars, stopVars, consVars
    <2>5. /\ \A t \in Streams : \A i \in 1 .. Len(Sent) :
                Sent[i][1] = t => Sent[i][2] <= Emitted(t)
          /\ Len(Sent') = Len(Sent) + 1
      BY <2>2 DEF StreamInv, SentInv
    <2>6. ASSUME NEW t \in Streams, NEW i \in 1 .. Len(Sent'), Sent'[i][1] = t
          PROVE  Sent'[i][2] <= Emitted(t)'
      <3>1. CASE i \in 1 .. Len(Sent)
        <4>1. Sent'[i] = Sent[i] /\ Sent[i][2] <= Emitted(t) /\ Sent[i][2] \in Nat
          BY <2>2, <2>3, <2>5, <2>6, <3>1
        <4>2. Emitted(t) <= Emitted(t)' /\ Emitted(t) \in Int /\ Emitted(t)' \in Int
          BY <1>3, <1>5
        <4> QED BY <4>1, <4>2
      <3>2. CASE i = Len(Sent) + 1
        <4>1. Sent'[i] = <<s, called[s]>>
          BY <2>2, <3>2
        <4>2. t = s /\ Emitted(s)' = called[s]
          BY <1>5, <2>6, <4>1
        <4> QED BY <4>1, <4>2, <1>3
      <3>3. i \in 1 .. Len(Sent) \/ i = Len(Sent) + 1
        <4>1. Len(Sent) \in Nat /\ i \in 1 .. (Len(Sent) + 1)
          BY <2>3, <2>5
        <4> QED BY <4>1
      <3> QED BY <3>1, <3>2, <3>3
    <2>7. InOrder'
      <3> SUFFICES ASSUME NEW i \in 1 .. Len(Sent'), NEW j \in 1 .. Len(Sent'), i < j,
                          Sent'[i][1] = Sent'[j][1]
                   PROVE  Sent'[i][2] < Sent'[j][2]
        BY DEF InOrder
      <3>1. i \in 1 .. Len(Sent) /\ (j \in 1 .. Len(Sent) \/ j = Len(Sent) + 1)
        <4>1. Len(Sent) \in Nat /\ i \in 1 .. (Len(Sent) + 1) /\ j \in 1 .. (Len(Sent) + 1)
          BY <2>3, <2>5
        <4> QED BY <4>1
      <3>2. CASE j \in 1 .. Len(Sent)
        BY <3>1, <3>2, <2>2 DEF StreamInv, SentInv, InOrder
      <3>3. CASE j = Len(Sent) + 1
        <4>1. Sent[i][1] = s /\ Sent[i][2] <= called[s] - 1
          BY <3>1, <3>3, <1>5, <2>2, <2>5
        <4> QED BY <3>1, <3>3, <4>1, <1>3, <2>2, <2>3
      <3> QED BY <3>1, <3>2, <3>3
    <2>8. SentInv'
      BY <2>6, <2>7 DEF SentInv
    <2>9. DropsAreCounted'
      BY <1>1, <1>6, <2>1, <2>2, <2>3
      DEF StreamInv, TypeOK, DropsAreCounted, config, stopVars
    <2> QED BY <1>7, <1>8, <1>9, <2>4, <2>8, <2>9 DEF StreamInv
  <1>11. CASE Drop(s) \/ Release(s)
    <2>1. /\ chan' = chan
          /\ \/ dropped' = dropped + 1 /\ lost' = lost /\ policy = "dropNewest"
             \/ lost' = lost + 1 /\ dropped' = dropped /\ policy = "block" /\ (stop \/ ctxDone)
      BY <1>11 DEF Drop, Drops, Release, Releases
    <2>2. TypeOK'
      <3>1. dropped' \in Nat /\ lost' \in Nat
        BY <2>1 DEF StreamInv, TypeOK
      <3>2. chan' = chan
        BY <2>1
      <3>3. TypeOK /\ UNCHANGED <<policy, launched, alive, heir, produced, pipe, hold, called,
                                  linesClosed, done, stop, ctxDone, consumer, buffered,
                                  received, probe>>
        BY <1>1 DEF StreamInv, config, procVars, stopVars, consVars
      <3> QED BY <1>2, <3>1, <3>2, <3>3 DEF TypeOK
    <2>3. Sent' = Sent
      BY <1>1, <2>1 DEF Sent, consVars
    <2>4. SentInv'
      <3>1. \A i \in 1 .. Len(Sent) : Sent[i][1] \in Streams /\ Sent[i][2] \in Nat
        BY SentType, StreamAssumption DEF StreamInv
      <3>2. \A t \in Streams : Emitted(t) <= Emitted(t)'
        BY <1>3, <1>5
      <3> QED BY <1>5, <2>3, <3>1, <3>2 DEF StreamInv, SentInv, InOrder
    <2>5. DropsAreCounted'
      <3>1. Len(Sent) \in Nat /\ dropped \in Nat /\ lost \in Nat
        BY SentType DEF StreamInv, TypeOK
      <3>2. EmittedOf("stdout") + EmittedOf("stderr") = Len(Sent) + dropped + lost
        BY DEF StreamInv, DropsAreCounted
      <3>3. EmittedOf("stdout")' + EmittedOf("stderr")' = Len(Sent') + dropped' + lost'
        BY <1>6, <2>1, <2>3, <3>1, <3>2
      <3>4. UNCHANGED <<policy, stop, ctxDone>>
        BY <1>1 DEF config, stopVars
      <3>5. /\ policy = "block" => dropped' = 0 /\ (~stop /\ ~ctxDone => lost' = 0)
            /\ policy = "dropNewest" => lost' = 0
        BY <2>1 DEF StreamInv, DropsAreCounted
      <3> QED BY <3>3, <3>4, <3>5 DEF DropsAreCounted
    <2> QED BY <1>7, <1>8, <1>9, <2>2, <2>4, <2>5 DEF StreamInv
  <1> QED BY <1>10, <1>11

-----------------------------------------------------------------------------
(* The consumer *)

\* A step of the consumer that keeps what was sent cannot disturb the drains.
LEMMA ConsumerLeavesRest ==
    ASSUME StreamInv, UNCHANGED consOther, Sent' = Sent
    PROVE  QueueInv' /\ SentInv' /\ DropsAreCounted' /\ CloseInv'
  <1>1. \A s : Emitted(s)' = Emitted(s)
    BY DEF Emitted, consOther, drainVars
  <1>2. QueueInv' /\ CloseInv'
    BY DEF StreamInv, QueueInv, CloseInv, consOther, procVars, drainVars
  <1>3. SentInv'
    BY <1>1 DEF StreamInv, SentInv, InOrder
  <1>4. DropsAreCounted'
    BY <1>1 DEF StreamInv, DropsAreCounted, EmittedOf, consOther, config, stopVars
  <1> QED BY <1>2, <1>3, <1>4

\* The consumer goes from one phase to the next and receives nothing.
LEMMA PhaseSteps ==
    ASSUME StreamInv, StartProbe \/ ScanOver \/ StartRange \/ RangeEnds \/ Abandon
    PROVE  StreamInv'
  <1>1. /\ UNCHANGED <<consOther, chan, received, probe>>
        /\ consumer' \in {"scan", "wait", "ranging", "finished", "gone"}
        /\ consumer' \in {"scan", "wait"} => consumer \in {"idle", "scan", "wait"}
        /\ buffered' \in 0 .. BufferLines
    <2>1. CASE StartProbe
      <3>1. Len(chan) \in 0 .. BufferLines
        BY StreamAssumption, LenProperties DEF StreamInv, TypeOK
      <3> QED BY <2>1, <3>1 DEF StartProbe
    <2>2. CASE ScanOver \/ StartRange \/ RangeEnds \/ Abandon
      BY <2>2 DEF ScanOver, StartRange, RangeEnds, Abandon, StreamInv, TypeOK
    <2> QED BY <2>1, <2>2
  <1>2. TypeOK'
    BY <1>1 DEF StreamInv, TypeOK, consOther, config, procVars, drainVars, stopVars
  <1>3. Sent' = Sent
    BY <1>1 DEF Sent
  <1>4. ProbeInv'
    BY <1>1, <1>3 DEF StreamInv, ProbeInv, ProbeIsExact, Matches, consOther
  <1> QED BY <1>1, <1>2, <1>3, <1>4, ConsumerLeavesRest DEF StreamInv

\* The probe gives up, or the output has ended.
LEMMA CutSteps ==
    ASSUME StreamInv, WaitEnded \/ WaitCut
    PROVE  StreamInv'
  <1>1. PICK r \in {"ended", "timeout", "cancelled"} :
          /\ UNCHANGED <<consOther, chan, buffered, received>>
          /\ consumer = "wait" /\ consumer' = "ranging"
          /\ probe' = [result |-> r, after |-> Len(received)]
          /\ r = "ended" => linesClosed /\ chan = <<>>
    <2>1. CASE WaitEnded
      BY <2>1 DEF WaitEnded, Return, StreamEnded
    <2>2. CASE WaitCut
      BY <2>2 DEF WaitCut, Return
    <2> QED BY <2>1, <2>2
  <1>2. /\ Len(received) \in Nat /\ Sent' = Sent
        /\ chan = <<>> => Sent = received
        /\ DOMAIN Sent = 1 .. Len(Sent)
        /\ \A i \in 1 .. Len(received) : ~Matches(received[i])
    <2>1. Sent \in Seq(Lines)
      BY SentType DEF StreamInv
    <2>2. Sent' = Sent
      BY <1>1 DEF Sent
    <2>3. \A i \in 1 .. Len(received) : ~Matches(received[i])
      BY <1>1 DEF StreamInv, ProbeInv
    <2> QED BY <2>1, <2>2, <2>3, SentType, LenProperties DEF StreamInv
  <1>3. probe' \in [result : Results, after : Nat]
    BY <1>1, <1>2 DEF Results
  <1>4. TypeOK'
    BY <1>1, <1>3 DEF StreamInv, TypeOK, consOther, config, procVars, drainVars, stopVars
  <1>5. ProbeIsExact'
    BY <1>1, <1>2 DEF ProbeIsExact, Matches, consOther
  <1>6. ProbeInv'
    BY <1>1, <1>2, <1>5 DEF ProbeInv
  <1> QED BY <1>1, <1>2, <1>4, <1>6, ConsumerLeavesRest DEF StreamInv

\* The consumer receives a line: while it probes, one that does not match keeps it going
\* and one that does ends the probe.
LEMMA LineSteps ==
    ASSUME StreamInv, ScanLine \/ WaitLine \/ RangeLine
    PROVE  StreamInv'
  <1>1. /\ Take /\ UNCHANGED consOther
        /\ buffered' \in 0 .. BufferLines
        /\ \/ /\ consumer \in {"scan", "wait"} /\ consumer' = "ranging"
              /\ Matches(Head(chan))
              /\ probe' = [result |-> "ready", after |-> Len(received')]
           \/ /\ UNCHANGED <<consumer, probe>>
              /\ \/ consumer \in {"scan", "wait"} /\ ~Matches(Head(chan))
                \/ consumer = "ranging"
    <2>1. CASE ScanLine
      <3>1. buffered > 0 => buffered - 1 \in 0 .. BufferLines
        BY StreamAssumption DEF StreamInv, TypeOK
      <3>2. buffered \in 0 .. BufferLines
        BY DEF StreamInv, TypeOK
      <3> QED BY <2>1, <3>1, <3>2 DEF ScanLine, Return
    <2>2. CASE WaitLine \/ RangeLine
      <3>1. buffered \in 0 .. BufferLines
        BY DEF StreamInv, TypeOK
      <3> QED BY <2>2, <3>1 DEF WaitLine, RangeLine, Return
    <2> QED BY <2>1, <2>2
  <1>2. /\ received' \in Seq(Lines) /\ chan' \in Seq(Lines)
        /\ Len(received') = Len(received) + 1 /\ Len(chan') = Len(chan) - 1
        /\ \A i \in 1 .. Len(received) : received'[i] = received[i]
        /\ received'[Len(received) + 1] = Head(chan)
        /\ Sent' = Sent
    BY <1>1, TakeKeepsSent DEF StreamInv
  <1>3. /\ Len(received) \in Nat /\ chan # <<>> /\ Len(chan') <= BufferLines
        /\ probe \in [result : Results, after : Nat] /\ probe.after <= Len(received)
    BY <1>1, <1>2, SentType, StreamAssumption, LenProperties DEF StreamInv, TypeOK, ProbeInv, Take
  <1>4. probe.result # "ended"
    BY <1>3 DEF StreamInv, ProbeInv
  <1>5. consumer' \in {"scan", "wait", "ranging"}
        /\ probe' \in [result : Results, after : Nat]
    BY <1>1, <1>2, <1>3 DEF Results
  <1>6. TypeOK'
    BY <1>1, <1>2, <1>3, <1>5
    DEF StreamInv, TypeOK, consOther, config, procVars, drainVars, stopVars
  <1>7. CASE /\ consumer \in {"scan", "wait"} /\ consumer' = "ranging"
             /\ Matches(Head(chan))
             /\ probe' = [result |-> "ready", after |-> Len(received')]
    <2>1. \A i \in 1 .. Len(received) : ~Matches(received[i])
      BY <1>7 DEF StreamInv, ProbeInv
    <2>2. \A i \in 1 .. Len(received') : Matches(received'[i]) <=> i = Len(received')
      BY <1>2, <1>3, <1>7, <2>1
    <2>3. probe'.result = "ready" /\ probe'.after = Len(received') /\ Len(received') \in Nat \ {0}
      BY <1>2, <1>3, <1>7
    <2>4. ProbeIsExact'
      BY <2>2, <2>3 DEF ProbeIsExact, Matches
    <2>5. ProbeInv'
      BY <1>7, <2>3, <2>4 DEF ProbeInv
    <2> QED BY <1>1, <1>2, <1>6, <2>5, ConsumerLeavesRest DEF StreamInv
  <1>8. CASE /\ UNCHANGED <<consumer, probe>>
             /\ \/ consumer \in {"scan", "wait"} /\ ~Matches(Head(chan))
                \/ consumer = "ranging"
    <2>1. consumer \in {"scan", "wait"} =>
             probe.result = "none" /\ \A i \in 1 .. Len(received') : ~Matches(received'[i])
      BY <1>2, <1>3, <1>8 DEF StreamInv, ProbeInv
    <2>2. {i \in 1 .. Len(received') : i <= probe.after /\ Matches(received'[i])}
            = {i \in 1 .. Len(received) : i <= probe.after /\ Matches(received[i])}
      BY <1>2, <1>3
    <2>3. ProbeIsExact'
      BY <1>4, <1>8, <2>2 DEF StreamInv, ProbeInv, ProbeIsExact, Matches
    <2>4. ProbeInv'
      BY <1>2, <1>3, <1>4, <1>8, <2>1, <2>3 DEF ProbeInv, Matches
    <2> QED BY <1>1, <1>2, <1>6, <2>4, ConsumerLeavesRest DEF StreamInv
  <1> QED BY <1>1, <1>7, <1>8

-----------------------------------------------------------------------------

\* The inductive invariant: what the pipes hold, what the drains are done with, and what
\* the consumer has seen.
THEOREM StreamInvCorrect == Spec => []StreamInv
  <1>1. Init => StreamInv
    <2> SUFFICES ASSUME Init PROVE StreamInv
      OBVIOUS
    <2>1. Sent = <<>> /\ Len(Sent) = 0
      BY DEF Init, Sent
    <2>2. TypeOK
      <3>1. <<>> \in Seq(1 .. MaxLines) /\ <<>> \in Seq(Lines) /\ Len(<<>>) = 0
        OBVIOUS
      <3>2. probe \in [result : Results, after : Nat]
        BY DEF Init, Results
      <3>3. /\ produced \in [Streams -> 0 .. MaxLines] /\ hold \in [Streams -> 0 .. MaxLines]
            /\ called \in [Streams -> 0 .. MaxLines] /\ pipe \in [Streams -> Seq(1 .. MaxLines)]
            /\ drainPc \in [Streams -> {"read", "send", "eof", "failed"}]
        BY <3>1, StreamAssumption DEF Init
      <3>4. chan \in Seq(Lines) /\ Len(chan) <= BufferLines /\ received \in Seq(Lines)
            /\ buffered \in 0 .. BufferLines
        BY <3>1, StreamAssumption DEF Init
      <3> QED BY <3>2, <3>3, <3>4 DEF Init, TypeOK
    <2>3. QueueInv /\ CloseInv
      BY DEF Init, QueueInv, CloseInv
    <2>4. SentInv
      BY <2>1 DEF SentInv, InOrder
    <2>5. DropsAreCounted
      BY <2>1 DEF Init, DropsAreCounted, EmittedOf, Emitted
    <2>6. ProbeInv
      BY DEF Init, ProbeInv, ProbeIsExact
    <2> QED BY <2>2, <2>3, <2>4, <2>5, <2>6 DEF StreamInv
  <1>2. StreamInv /\ [Next]_vars => StreamInv'
    <2> SUFFICES ASSUME StreamInv, [Next]_vars PROVE StreamInv'
      OBVIOUS
    <2>1. CASE \/ LaunchDrains \/ (\E s \in Streams : Write(s)) \/ Exit \/ HeirExits
               \/ CloseLines \/ CloseDone
               \/ GroupKill \/ GroupStop \/ KillHandle \/ CtxCancel \/ CtxKill
      BY <2>1, OuterSteps
    <2>2. ASSUME NEW s \in Streams, Drain(s) \/ DrainFails(s) PROVE StreamInv'
      BY <2>2, ReadSteps, DeliverSteps DEF Drain
    <2>3. CASE StartProbe \/ StartRange \/ WaitCut \/ Abandon \/ Consume
      BY <2>3, PhaseSteps, CutSteps, LineSteps DEF Consume
    <2>4. CASE UNCHANGED vars
      <3>1. TypeOK' /\ ProbeInv'
        BY <2>4 DEF StreamInv, TypeOK, ProbeInv, ProbeIsExact, Matches, Sent, vars, config,
                    procVars, drainVars, runVars, stopVars, consVars
      <3>2. Sent' = Sent /\ UNCHANGED consOther
        BY <2>4 DEF Sent, consOther, vars, config, procVars, drainVars, runVars, stopVars,
                    consVars
      <3> QED BY <3>1, <3>2, ConsumerLeavesRest DEF StreamInv
    <2> QED BY <2>1, <2>2, <2>3, <2>4 DEF Next
  <1> QED BY <1>1, <1>2, PTL DEF Spec

\* The lines of a stream reach the consumer in the order in which the process wrote them
\* and none twice, whatever overflows, fails, or is torn down.
THEOREM InOrderCorrect == Spec => []InOrder
  <1>1. StreamInv => InOrder
    BY DEF StreamInv, SentInv
  <1> QED BY <1>1, StreamInvCorrect, PTL

\* Every line that a drain is done with was sent, or dropped and counted, or given up by a
\* release; under OverflowBlock none is lost before the handle or its context is stopped.
THEOREM DropsAreCountedCorrect == Spec => []DropsAreCounted
  <1>1. StreamInv => DropsAreCounted
    BY DEF StreamInv
  <1> QED BY <1>1, StreamInvCorrect, PTL

\* The Lines channel is closed after the drains have seen the end of their pipes, and the
\* callbacks have had every line by then.
THEOREM ClosedAfterDrainsCorrect == Spec => []ClosedAfterDrains
  <1>1. StreamInv => ClosedAfterDrains
    <2> SUFFICES ASSUME StreamInv, linesClosed, NEW s \in Streams, drainPc[s] # "failed"
                 PROVE  drainPc[s] = "eof" /\ called[s] = produced[s]
      BY DEF ClosedAfterDrains
    <2>1. drainPc[s] = "eof" /\ pipe[s] = <<>> /\ Len(pipe[s]) = produced[s] - called[s]
      BY DEF StreamInv, CloseInv, QueueInv
    <2>2. called[s] \in Int /\ produced[s] \in Int
      BY StreamAssumption DEF StreamInv, TypeOK
    <2>3. Len(<<>>) = 0
      OBVIOUS
    <2> QED BY <2>1, <2>2, <2>3
  <1> QED BY <1>1, StreamInvCorrect, PTL

\* WaitForLine returns the first line that matches, having received up to it, and reports
\* an end without a match only when there is none in all of the output.
THEOREM ProbeIsExactCorrect == Spec => []ProbeIsExact
  <1>1. StreamInv => ProbeIsExact
    BY DEF StreamInv, ProbeInv
  <1> QED BY <1>1, StreamInvCorrect, PTL
=============================================================================
