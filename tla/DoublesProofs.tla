---------------------------- MODULE DoublesProofs ---------------------------
(***************************************************************************)
(* Proofs about Doubles.tla, for any commands, script, number of callers   *)
(* and of savers, and wherever a Save fails or the recording program dies. *)
(***************************************************************************)
EXTENDS Doubles, FiniteSetTheorems, SequenceTheorems, TLAPS

-----------------------------------------------------------------------------
(* The invariant *)

\* Only a result is captured and returned.
ReplyInv == \A c \in Callers : call[c].pc \in {"returning", "captured"} => call[c].reply \in Outcomes

Captured(c, k) == call[c].pc = "captured" /\ call[c].key = k
CapturedFor(k) == {c \in Callers : Captured(c, k)}

\* A command that has not overlapped itself has one call at a time, and what its callers
\* have seen is what was captured for it, but for the result about to be returned.
OrderInv ==
    /\ \A c, d \in Callers :
          /\ call[c].pc # "idle" /\ call[d].pc # "idle"
          /\ call[c].key = call[d].key /\ call[c].key \notin overlap
          => c = d
    /\ \A k \in Keys \ overlap :
          /\ \A c \in Callers : Captured(c, k) => rec[k] = Append(saw[k], call[c].reply)
          /\ (\A c \in Callers : ~Captured(c, k)) => rec[k] = saw[k]

\* Of every command, overlapped or not, each result captured has been returned or is
\* about to be.
CountInv == \A k \in Keys : Len(saw[k]) + Cardinality(CapturedFor(k)) = Len(rec[k])

\* A copy of the list has what was returned before it was made, and no more than the list.
CopyInv ==
    /\ \A s \in Savers : \A k \in Keys :
          saver[s].owed[k] <= saver[s].n[k] /\ saver[s].n[k] <= Len(rec[k])
    /\ \A k \in Keys : file.n[k] <= Len(rec[k])

\* A Save that is alone is the only one, and the file it writes to is the empty one that
\* it has opened; what it has written stays until the next Save.
AloneInv ==
    /\ \A s, t \in Savers :
          saver[s].pc # "idle" /\ saver[t].pc # "idle" /\ saver[s].alone => s = t
    /\ \A s \in Savers : saver[s].pc = "write" /\ saver[s].alone => file.text = "empty"
    /\ \A n \in owed : /\ \A s \in Savers : saver[s].pc = "idle"
                       /\ file.text = "whole" /\ \A k \in Keys : n[k] <= file.n[k]

Upto(i, n) == IF i < n THEN i ELSE n

\* A slot is as far as its command has been replayed, or at its end; nothing is replayed
\* before a load.
SlotInv ==
    /\ mode # "replay" => \A k \in Keys : served[k] = <<>>
    /\ \A k \in Keys :
          /\ slots[k] = Upto(Len(served[k]), file.n[k])
          /\ \A i \in 1 .. Len(served[k]) :
                served[k][i] = IF file.n[k] = 0 THEN "miss" ELSE rec[k][Upto(i, file.n[k])]

DoublesInv == TypeOK /\ ReplyInv /\ OrderInv /\ CountInv /\ CopyInv /\ AloneInv /\ SlotInv

-----------------------------------------------------------------------------
(* Types *)

\* Values that the variables start from or go back to.
LEMMA Values ==
    /\ Nothing \in Counts /\ \A k \in Keys : Nothing[k] = 0
    /\ Idle \in [pc : {"idle"}, key : Keys, reply : Replies]
    /\ AtRest \in [pc : {"idle"}, n : Counts, owed : Counts, alone : BOOLEAN]
    /\ AtRest.n = Nothing /\ AtRest.owed = Nothing
    /\ <<>> \in Seq(Outcomes) /\ <<>> \in Seq(Outcomes \cup {"miss"}) /\ Len(<<>>) = 0
  <1>1. Nothing \in Counts /\ \A k \in Keys : Nothing[k] = 0
    BY DEF Nothing, Counts
  <1>2. (CHOOSE k \in Keys : TRUE) \in Keys
    BY DoublesAssumption
  <1>3. <<>> \in Seq(Outcomes) /\ <<>> \in Seq(Outcomes \cup {"miss"}) /\ Len(<<>>) = 0
    OBVIOUS
  <1> QED BY <1>1, <1>2, <1>3 DEF Idle, AtRest, Replies

\* The lengths of lists of results are counts.
LEMMA LengthsAreCounts ==
    ASSUME NEW q \in [Keys -> Seq(Outcomes)]
    PROVE  Lengths(q) \in Counts /\ \A k \in Keys : Lengths(q)[k] = Len(q[k])
  <1>1. \A k \in Keys : Len(q[k]) \in Nat
    OBVIOUS
  <1> QED BY <1>1 DEF Lengths, Counts

\* The types and the replies hold at the start.
LEMMA TypeInit == Init => TypeOK /\ ReplyInv
  <1> SUFFICES ASSUME Init PROVE TypeOK /\ ReplyInv
    OBVIOUS
  <1>1. /\ ctx \in {"live", "done"} /\ calls \in 0 .. MaxCalls
        /\ cursor \in [DOMAIN Rules -> Nat]
        /\ mode \in {"record", "replay", "loadError"} /\ slots \in [Keys -> Nat]
        /\ overlap \subseteq Keys /\ owed \subseteq Counts
    BY DoublesAssumption DEF Init
  <1>2. /\ rec \in [Keys -> Seq(Outcomes)] /\ saw \in [Keys -> Seq(Outcomes)]
        /\ served \in [Keys -> Seq(Outcomes \cup {"miss"})]
    BY Values DEF Init
  <1>3. call \in [Callers -> [pc : {"idle", "parked", "captured", "returning"}, key : Keys,
                              reply : Replies]]
    BY Values DEF Init
  <1>4. saver \in [Savers -> [pc : {"idle", "open", "write"}, n : Counts, owed : Counts,
                              alone : BOOLEAN]]
    BY Values DEF Init
  <1>5. file \in [text : {"missing", "empty", "whole", "torn"}, n : Counts]
    BY Values DEF Init
  <1>6. ReplyInv
    BY Values DEF Init, ReplyInv
  <1> QED BY <1>1, <1>2, <1>3, <1>4, <1>5, <1>6 DEF TypeOK

\* A call that a command begins is parked, or holds a result, or is over.
Begun(c, k) ==
    \/ call' = call
    \/ \E r \in Outcomes :
          call' = [call EXCEPT ![c] = [pc |-> "returning", key |-> k, reply |-> r]]
    \/ call' = [call EXCEPT ![c] = [pc |-> "parked", key |-> k, reply |-> "pending"]]

\* What Output makes of the caller, of the cursors and of the overlaps.
LEMMA OutputEffect ==
    ASSUME TypeOK, NEW c \in Callers, NEW k \in Keys, Output(c, k)
    PROVE  /\ cursor' \in [DOMAIN Rules -> Nat] /\ calls' \in 0 .. MaxCalls
           /\ call[c].pc = "idle" /\ Begun(c, k)
           /\ overlap \subseteq overlap' /\ overlap' \subseteq Keys
           /\ (\E d \in Callers : call[d].pc # "idle" /\ call[d].key = k) => k \in overlap'
           /\ UNCHANGED <<ctx, rec, saw, saveVars, replayVars>>
  <1> DEFINE m == Match(k)
  <1> DEFINE pc == CASE m.reply = "pending" -> "parked"
                     [] m.reply \in Outcomes -> "returning"
                     [] OTHER -> "idle"
  <1>1. cursor' = m.cursor /\ calls' = calls + 1 /\ calls < MaxCalls /\ call[c].pc = "idle"
    BY DEF Output, Called
  <1>2. m.cursor \in [DOMAIN Rules -> Nat]
    <2> DEFINE i == Matched(k)
    <2>1. cursor \in [DOMAIN Rules -> Nat]
      BY DEF TypeOK
    <2> HIDE DEF i
    <2>2. [cursor EXCEPT ![i] = @ + 1] \in [DOMAIN Rules -> Nat]
      <3>1. CASE i \in DOMAIN Rules
        <4>1. cursor[i] + 1 \in Nat
          BY <2>1, <3>1
        <4> QED BY <2>1, <4>1
      <3>2. CASE i \notin DOMAIN Rules
        BY <2>1, <3>2
      <3> QED BY <3>1, <3>2
    <2>3. m.cursor = cursor \/ m.cursor = [cursor EXCEPT ![i] = @ + 1]
      BY DEF Match, i
    <2> QED BY <2>1, <2>2, <2>3
  <1>3. call' = IF pc = "idle" THEN call
                ELSE [call EXCEPT ![c] = [pc |-> pc, key |-> k, reply |-> m.reply]]
    BY DEF Output
  <1> HIDE DEF m
  <1>4. \/ pc = "idle"
        \/ pc = "returning" /\ m.reply \in Outcomes
        \/ pc = "parked" /\ m.reply = "pending"
    BY DEF Outcomes
  <1> HIDE DEF pc
  <1>5. Begun(c, k)
    BY <1>3, <1>4 DEF Begun
  <1>6. /\ overlap' = overlap \cup {k : d \in {d \in Callers : call[d].pc # "idle" /\ call[d].key = k}}
        /\ UNCHANGED <<ctx, rec, saw, saveVars, replayVars>>
    BY DEF Output
  <1>7. calls' \in 0 .. MaxCalls /\ overlap \subseteq Keys
    BY <1>1, DoublesAssumption DEF TypeOK
  <1> QED BY <1>1, <1>2, <1>5, <1>6, <1>7

\* Types are kept by what a caller and its context do.
LEMMA CallerTypes ==
    ASSUME TypeOK, ReplyInv,
           \/ Cancel
           \/ \E c \in Callers : \/ \E k \in Keys : Output(c, k)
                                 \/ OutputStdin(c) \/ Unpark(c) \/ Capture(c) \/ ReturnResult(c)
    PROVE  TypeOK' /\ ReplyInv'
  <1> DEFINE CallTypes == [pc : {"idle", "parked", "captured", "returning"}, key : Keys,
                           reply : Replies]
  <1>1. /\ call \in [Callers -> CallTypes] /\ rec \in [Keys -> Seq(Outcomes)]
        /\ saw \in [Keys -> Seq(Outcomes)] /\ Outcomes \subseteq Replies
        /\ Idle \in CallTypes /\ Idle.pc = "idle"
    BY Values DEF TypeOK, Replies
  <1>2. CASE Cancel
    BY <1>2 DEF Cancel, TypeOK, ReplyInv, saveVars, replayVars
  <1>3. ASSUME NEW c \in Callers, NEW k \in Keys, Output(c, k) PROVE TypeOK' /\ ReplyInv'
    <2>1. /\ cursor' \in [DOMAIN Rules -> Nat] /\ calls' \in 0 .. MaxCalls
          /\ Begun(c, k) /\ overlap' \subseteq Keys
          /\ UNCHANGED <<ctx, rec, saw, saveVars, replayVars>>
      BY <1>3, OutputEffect
    <2>2. call' \in [Callers -> CallTypes] /\ ReplyInv'
      <3>1. CASE call' = call
        BY <1>1, <3>1 DEF ReplyInv
      <3>2. ASSUME NEW r \in Outcomes,
                   call' = [call EXCEPT ![c] = [pc |-> "returning", key |-> k, reply |-> r]]
            PROVE  call' \in [Callers -> CallTypes] /\ ReplyInv'
        <4>1. [pc |-> "returning", key |-> k, reply |-> r] \in CallTypes
          BY <1>1
        <4> QED BY <1>1, <3>2, <4>1 DEF ReplyInv
      <3>3. CASE call' = [call EXCEPT ![c] = [pc |-> "parked", key |-> k, reply |-> "pending"]]
        <4>1. [pc |-> "parked", key |-> k, reply |-> "pending"] \in CallTypes
          BY DEF Replies
        <4> QED BY <1>1, <3>3, <4>1 DEF ReplyInv
      <3> QED BY <2>1, <3>1, <3>2, <3>3 DEF Begun
    <2> QED BY <2>1, <2>2 DEF TypeOK, saveVars, replayVars
  <1>4. ASSUME NEW c \in Callers, OutputStdin(c) PROVE TypeOK' /\ ReplyInv'
    <2>1. calls' \in 0 .. MaxCalls
      BY <1>4, DoublesAssumption DEF OutputStdin, Called, TypeOK
    <2> QED BY <1>4, <2>1 DEF OutputStdin, TypeOK, ReplyInv, saveVars, replayVars
  <1>5. ASSUME NEW c \in Callers, Unpark(c) PROVE TypeOK' /\ ReplyInv'
    <2>1. call' \in [Callers -> CallTypes] /\ ReplyInv'
      BY <1>1, <1>5 DEF Unpark, ReplyInv
    <2> QED BY <1>5, <2>1 DEF Unpark, TypeOK, saveVars, replayVars
  <1>6. ASSUME NEW c \in Callers, Capture(c) PROVE TypeOK' /\ ReplyInv'
    <2>1. call' \in [Callers -> CallTypes] /\ ReplyInv'
      <3>1. call[c].reply \in Outcomes /\ call' = [call EXCEPT ![c].pc = "captured"]
        BY <1>6 DEF Capture, ReplyInv
      <3> QED BY <1>1, <3>1 DEF ReplyInv
    <2>2. rec' \in [Keys -> Seq(Outcomes)]
      <3>1. call[c].reply \in Outcomes /\ call[c].key \in Keys
        BY <1>1, <1>6 DEF Capture, ReplyInv
      <3>2. Append(rec[call[c].key], call[c].reply) \in Seq(Outcomes)
        BY <1>1, <3>1
      <3> QED BY <1>1, <1>6, <3>2 DEF Capture
    <2> QED BY <1>6, <2>1, <2>2 DEF Capture, TypeOK, saveVars, replayVars
  <1>7. ASSUME NEW c \in Callers, ReturnResult(c) PROVE TypeOK' /\ ReplyInv'
    <2>1. call' \in [Callers -> CallTypes] /\ ReplyInv'
      BY <1>1, <1>7 DEF ReturnResult, ReplyInv
    <2>2. saw' \in [Keys -> Seq(Outcomes)]
      <3>1. call[c].reply \in Outcomes /\ call[c].key \in Keys
        BY <1>1, <1>7 DEF ReturnResult, Returned, ReplyInv
      <3>2. Append(saw[call[c].key], call[c].reply) \in Seq(Outcomes)
        BY <1>1, <3>1
      <3> QED BY <1>1, <1>7, <3>2 DEF ReturnResult
    <2> QED BY <1>7, <2>1, <2>2 DEF ReturnResult, TypeOK, saveVars, replayVars
  <1> QED BY <1>2, <1>3, <1>4, <1>5, <1>6, <1>7

\* Types are kept by what a Save does.
LEMMA SaverTypes ==
    ASSUME TypeOK, ReplyInv, NEW s \in Savers,
           Save(s) \/ OpenFile(s) \/ WriteFile(s) \/ SaveFails(s)
    PROVE  TypeOK' /\ ReplyInv'
  <1> DEFINE SaveTypes == [pc : {"idle", "open", "write"}, n : Counts, owed : Counts,
                           alone : BOOLEAN]
  <1> DEFINE FileTypes == [text : {"missing", "empty", "whole", "torn"}, n : Counts]
  <1>1. saver \in [Savers -> SaveTypes] /\ file \in FileTypes /\ owed \subseteq Counts
    BY DEF TypeOK
  <1>2. saver' \in [Savers -> SaveTypes] /\ file' \in FileTypes /\ owed' \subseteq Counts
    <2>1. CASE Save(s)
      <3> DEFINE alone == \A t \in Savers : saver[t].pc = "idle"
      <3> DEFINE mine == [pc |-> "open", n |-> Lengths(rec), owed |-> Lengths(saw),
                          alone |-> alone]
      <3>1. mine \in SaveTypes
        BY LengthsAreCounts DEF TypeOK
      <3>2. saver' = [t \in Savers |-> IF t = s THEN mine ELSE [saver[t] EXCEPT !.alone = FALSE]]
        BY <2>1 DEF Save
      <3> HIDE DEF mine
      <3>3. \A t \in Savers : [saver[t] EXCEPT !.alone = FALSE] \in SaveTypes
        BY <1>1
      <3>4. saver' \in [Savers -> SaveTypes]
        BY <3>1, <3>2, <3>3
      <3> QED BY <1>1, <2>1, <3>4 DEF Save
    <2>2. CASE OpenFile(s)
      BY <1>1, <2>2, Values DEF OpenFile
    <2>3. CASE WriteFile(s)
      <3>1. file' \in FileTypes
        BY <1>1, <2>3 DEF WriteFile, Overwritten
      <3>2. saver' \in [Savers -> SaveTypes] /\ owed' \subseteq Counts
        BY <1>1, <2>3, Values DEF WriteFile
      <3> QED BY <3>1, <3>2
    <2>4. CASE SaveFails(s)
      <3>1. saver' \in [Savers -> SaveTypes] /\ owed' \subseteq Counts
        BY <1>1, <2>4, Values DEF SaveFails
      <3>2. ASSUME NEW m \in [Keys -> 0 .. MaxCalls],
                   file' = [text |-> "torn", n |-> Larger(m, file.n)]
            PROVE  file' \in FileTypes
        <4>1. Larger(m, file.n) \in Counts
          BY <1>1, DoublesAssumption DEF Larger, Counts
        <4> QED BY <3>2, <4>1
      <3> QED BY <1>1, <2>4, <3>1, <3>2 DEF SaveFails
    <2> QED BY <2>1, <2>2, <2>3, <2>4
  <1>3. UNCHANGED <<recVars, replayVars>>
    BY DEF Save, OpenFile, WriteFile, SaveFails
  <1> QED BY <1>2, <1>3 DEF TypeOK, ReplyInv, recVars, replayVars

\* What an entry list of a loaded cassette is.
LEMMA EntriesOfKey ==
    ASSUME TypeOK, CopyInv, NEW k \in Keys
    PROVE  /\ EntriesOf(k) \in Seq(Outcomes) /\ Len(EntriesOf(k)) = file.n[k]
           /\ file.n[k] \in Nat /\ file.n[k] <= Len(rec[k])
           /\ \A i \in 1 .. file.n[k] : EntriesOf(k)[i] = rec[k][i] /\ rec[k][i] \in Outcomes
  <1> DEFINE r == rec[k]
  <1> DEFINE n == file.n[k]
  <1>1. r \in Seq(Outcomes) /\ n \in Nat /\ n <= Len(r) /\ Len(r) \in Nat
    BY DEF TypeOK, CopyInv, Counts
  <1> HIDE DEF r, n
  <1>2. \A i \in 1 .. n : r[i] \in Outcomes
    BY <1>1
  <1>3. /\ SubSeq(r, 1, n) \in Seq(Outcomes)
        /\ Len(SubSeq(r, 1, n)) = n
        /\ \A i \in 1 .. n : SubSeq(r, 1, n)[i] = r[i]
    BY <1>1, <1>2
  <1> QED BY <1>1, <1>2, <1>3 DEF EntriesOf, r, n

\* What replaying a command serves, and where it leaves the slot.
Served(k) == IF file.n[k] = 0 THEN "miss" ELSE rec[k][Upto(slots[k] + 1, file.n[k])]
Slot(k) == IF slots[k] < file.n[k] THEN slots[k] + 1 ELSE slots[k]

\* Replay serves the next entry, or the last one again, or a miss.
LEMMA ReplayEffect ==
    ASSUME TypeOK, CopyInv, NEW k \in Keys, Replay(k)
    PROVE  /\ mode = "replay" /\ UNCHANGED <<recVars, saveVars, mode>>
           /\ Served(k) \in Outcomes \cup {"miss"} /\ Slot(k) \in Nat
           /\ served' = [served EXCEPT ![k] = Append(@, Served(k))]
           /\ slots' = [slots EXCEPT ![k] = Slot(k)]
  <1> DEFINE e == EntriesOf(k)
  <1> DEFINE m == file.n[k]
  <1>1. /\ e \in Seq(Outcomes) /\ Len(e) = m /\ m \in Nat
        /\ \A i \in 1 .. m : e[i] = rec[k][i] /\ rec[k][i] \in Outcomes
    BY EntriesOfKey
  <1>2. slots[k] \in Nat /\ slots \in [Keys -> Nat] /\ Slot(k) \in Nat
    BY DEF TypeOK, Slot
  <1>3. mode = "replay" /\ UNCHANGED <<recVars, saveVars, mode>>
    BY DEF Replay
  <1>4. CASE e = <<>>
    <2>1. m = 0
      BY <1>1, <1>4
    <2>2. Served(k) = "miss" /\ Slot(k) = slots[k]
      BY <1>2, <2>1 DEF Served, Slot
    <2>3. served' = [served EXCEPT ![k] = Append(@, "miss")] /\ slots' = slots
      BY <1>4 DEF Replay
    <2>4. slots' = [slots EXCEPT ![k] = slots[k]]
      BY <1>2, <2>3
    <2> QED BY <1>2, <1>3, <2>2, <2>3, <2>4
  <1>5. CASE e # <<>>
    <2>1. m \in Nat \ {0}
      BY <1>1, <1>5, EmptySeq
    <2>2. /\ served' = [served EXCEPT ![k] = Append(@, Play(k).outcome)]
          /\ slots' = [slots EXCEPT ![k] = Play(k).next]
      BY <1>5 DEF Replay
    <2>3. /\ Play(k).outcome = Served(k) /\ Play(k).next = Slot(k)
          /\ Served(k) \in Outcomes
      <3>1. CASE slots[k] >= m
        <4>1. Play(k) = [outcome |-> e[m], next |-> slots[k]]
          BY <1>1, <3>1 DEF Play, Last
        <4>2. Upto(slots[k] + 1, m) = m /\ ~(slots[k] < m)
          BY <1>2, <2>1, <3>1 DEF Upto
        <4>3. Served(k) = rec[k][m] /\ Slot(k) = slots[k]
          BY <2>1, <4>2 DEF Served, Slot
        <4> QED BY <1>1, <2>1, <4>1, <4>3
      <3>2. CASE slots[k] < m
        <4> DEFINE i == slots[k] + 1
        <4>1. i \in 1 .. m /\ ~(slots[k] >= m)
          BY <1>2, <2>1, <3>2
        <4>2. Play(k) = [outcome |-> e[i], next |-> i]
          BY <1>1, <4>1 DEF Play
        <4>3. Upto(i, m) = i
          BY <2>1, <4>1 DEF Upto
        <4>4. Served(k) = rec[k][i] /\ Slot(k) = i
          BY <2>1, <3>2, <4>3 DEF Served, Slot
        <4> QED BY <1>1, <4>1, <4>2, <4>4
      <3> QED BY <1>2, <2>1, <3>1, <3>2
    <2> QED BY <1>2, <1>3, <2>2, <2>3
  <1> QED BY <1>4, <1>5

-----------------------------------------------------------------------------
(* What is recorded *)

\* A step of caller c that captures and returns nothing.
LEMMA NothingCaptured ==
    ASSUME TypeOK, OrderInv, CountInv, NEW c \in Callers,
           call' \in [Callers -> [pc : {"idle", "parked", "captured", "returning"},
                                  key : Keys, reply : Replies]],
           \A d \in Callers \ {c} : call'[d] = call[d],
           call'[c].pc # "captured", call[c].pc # "captured",
           UNCHANGED <<rec, saw>>, overlap \subseteq overlap',
           \/ call'[c].pc = "idle"
           \/ \A d \in Callers \ {c} :
                 call[d].pc # "idle" /\ call[d].key = call'[c].key => call[d].key \in overlap'
    PROVE  OrderInv' /\ CountInv'
  <1>1. ASSUME NEW k PROVE CapturedFor(k)' = CapturedFor(k)
    BY DEF CapturedFor, Captured
  <1>2. CountInv'
    BY <1>1 DEF CountInv
  <1>3. ASSUME NEW a \in Callers, NEW b \in Callers,
               call'[a].pc # "idle", call'[b].pc # "idle",
               call'[a].key = call'[b].key, call'[a].key \notin overlap'
        PROVE  a = b
    <2>1. CASE a # c /\ b # c
      BY <1>3, <2>1 DEF OrderInv
    <2>2. CASE a = c /\ b # c
      BY <1>3, <2>2
    <2>3. CASE a # c /\ b = c
      BY <1>3, <2>3
    <2> QED BY <2>1, <2>2, <2>3
  <1>4. ASSUME NEW k \in Keys, k \notin overlap'
        PROVE  /\ \A d \in Callers :
                    Captured(d, k)' => rec'[k] = Append(saw'[k], call'[d].reply)
               /\ (\A d \in Callers : ~Captured(d, k)') => rec'[k] = saw'[k]
    <2>1. \A d \in Callers : Captured(d, k)' <=> Captured(d, k)
      BY DEF Captured
    <2>2. \A d \in Callers : Captured(d, k) => call'[d] = call[d]
      BY DEF Captured
    <2> QED BY <1>4, <2>1, <2>2 DEF OrderInv
  <1>5. OrderInv'
    BY <1>3, <1>4 DEF OrderInv
  <1> QED BY <1>2, <1>5

\* The callers that are about to return a result can be counted.
LEMMA CapturedFinite ==
    ASSUME NEW k
    PROVE  IsFiniteSet(CapturedFor(k)) /\ Cardinality(CapturedFor(k)) \in Nat
  <1>1. CapturedFor(k) \subseteq Callers /\ IsFiniteSet(Callers)
    BY DoublesAssumption DEF CapturedFor
  <1> QED BY <1>1, FS_Subset, FS_CardinalityType

\* Capturing: one entry more, and one more call about to return.
LEMMA CaptureOrder ==
    ASSUME TypeOK, ReplyInv, OrderInv, CountInv, NEW c \in Callers, Capture(c)
    PROVE  OrderInv' /\ CountInv'
  <1>0. PICK x \in Keys, r \in Outcomes : x = call[c].key /\ r = call[c].reply
    BY DEF Capture, TypeOK, ReplyInv
  <1>1. /\ call[c].pc = "returning" /\ call' = [call EXCEPT ![c].pc = "captured"]
        /\ rec' = [rec EXCEPT ![x] = Append(@, r)]
        /\ saw' = saw /\ overlap' = overlap
    BY <1>0 DEF Capture
  <1>2. /\ rec \in [Keys -> Seq(Outcomes)]
        /\ call'[c].pc = "captured" /\ call'[c].key = x /\ call'[c].reply = r
        /\ \A d \in Callers \ {c} : call'[d] = call[d]
    BY <1>0, <1>1 DEF TypeOK
  <1>3. /\ ~Captured(c, x) /\ CapturedFor(x)' = CapturedFor(x) \cup {c}
        /\ \A k \in Keys \ {x} : CapturedFor(k)' = CapturedFor(k)
    BY <1>0, <1>1, <1>2 DEF CapturedFor, Captured
  <1>4. /\ rec'[x] = Append(rec[x], r) /\ rec[x] \in Seq(Outcomes)
        /\ \A k \in Keys \ {x} : rec'[k] = rec[k]
    BY <1>1, <1>2
  <1>5. CountInv'
    <2>1. Len(saw[x]) + Cardinality(CapturedFor(x)') = Len(rec'[x])
      <3>1. Cardinality(CapturedFor(x)') = Cardinality(CapturedFor(x)) + 1
        <4>1. IsFiniteSet(CapturedFor(x)) /\ c \notin CapturedFor(x)
          BY <1>3, CapturedFinite DEF CapturedFor
        <4> QED BY <1>3, <4>1, FS_AddElement
      <3>2. Len(rec'[x]) = Len(rec[x]) + 1
        BY <1>2, <1>4
      <3>3. Len(saw[x]) + Cardinality(CapturedFor(x)) = Len(rec[x]) /\ Len(saw[x]) \in Nat
        BY <1>2 DEF CountInv, TypeOK
      <3> QED BY <3>1, <3>2, <3>3, CapturedFinite
    <2>2. \A k \in Keys \ {x} : Len(saw[k]) + Cardinality(CapturedFor(k)') = Len(rec'[k])
      BY <1>3, <1>4 DEF CountInv
    <2> QED BY <1>1, <2>1, <2>2 DEF CountInv
  <1>6. ASSUME NEW a \in Callers, NEW b \in Callers,
               call'[a].pc # "idle", call'[b].pc # "idle",
               call'[a].key = call'[b].key, call'[a].key \notin overlap'
        PROVE  a = b
    <2>1. /\ call[a].pc # "idle" /\ call[a].key = call'[a].key
          /\ call[b].pc # "idle" /\ call[b].key = call'[b].key
      BY <1>0, <1>1, <1>2, <1>6
    <2> QED BY <1>1, <1>6, <2>1 DEF OrderInv
  <1>7. ASSUME NEW k \in Keys, k \notin overlap'
        PROVE  /\ \A d \in Callers :
                    Captured(d, k)' => rec'[k] = Append(saw'[k], call'[d].reply)
               /\ (\A d \in Callers : ~Captured(d, k)') => rec'[k] = saw'[k]
    <2>1. CASE k = x
      <3>1. \A d \in Callers : call[d].pc # "idle" /\ call[d].key = x => d = c
        BY <1>0, <1>1, <1>7, <2>1 DEF OrderInv
      <3>2. \A d \in Callers : ~Captured(d, x)
        BY <1>1, <3>1 DEF Captured
      <3>3. rec[x] = saw[x]
        BY <1>1, <1>2, <1>7, <2>1, <3>2 DEF OrderInv
      <3>4. \A d \in Callers : Captured(d, x)' <=> d = c
        BY <1>2, <3>2 DEF Captured
      <3> QED BY <1>1, <1>2, <1>4, <2>1, <3>3, <3>4
    <2>2. CASE k # x
      <3>1. \A d \in Callers : Captured(d, k)' <=> Captured(d, k)
        BY <1>0, <1>1, <1>2, <2>2 DEF Captured
      <3>2. \A d \in Callers : Captured(d, k) => call'[d] = call[d]
        BY <1>1, <1>2 DEF Captured
      <3> QED BY <1>1, <1>4, <1>7, <2>2, <3>1, <3>2 DEF OrderInv
    <2> QED BY <2>1, <2>2
  <1>8. OrderInv'
    BY <1>6, <1>7 DEF OrderInv
  <1> QED BY <1>5, <1>8

\* Returning: one result more has been seen, and one call less is about to return.
LEMMA ReturnOrder ==
    ASSUME TypeOK, ReplyInv, OrderInv, CountInv, NEW c \in Callers, ReturnResult(c)
    PROVE  OrderInv' /\ CountInv'
  <1>0. PICK x \in Keys, r \in Outcomes : x = call[c].key /\ r = call[c].reply
    BY DEF ReturnResult, Returned, TypeOK, ReplyInv
  <1>1. /\ call[c].pc = "captured" /\ call' = [call EXCEPT ![c] = Idle]
        /\ saw' = [saw EXCEPT ![x] = Append(@, r)]
        /\ rec' = rec /\ overlap' = overlap
    BY <1>0 DEF ReturnResult, Returned
  <1>2. /\ saw \in [Keys -> Seq(Outcomes)] /\ call'[c].pc = "idle"
        /\ \A d \in Callers \ {c} : call'[d] = call[d]
    BY <1>1, Values DEF TypeOK
  <1>3. /\ Captured(c, x) /\ CapturedFor(x)' = CapturedFor(x) \ {c}
        /\ \A k \in Keys \ {x} : CapturedFor(k)' = CapturedFor(k)
    BY <1>0, <1>1, <1>2 DEF CapturedFor, Captured
  <1>4. /\ saw'[x] = Append(saw[x], r) /\ saw[x] \in Seq(Outcomes)
        /\ \A k \in Keys \ {x} : saw'[k] = saw[k]
    BY <1>1, <1>2
  <1>5. CountInv'
    <2>1. Len(saw'[x]) + Cardinality(CapturedFor(x)') = Len(rec[x])
      <3>1. Cardinality(CapturedFor(x)') = Cardinality(CapturedFor(x)) - 1
        <4>1. IsFiniteSet(CapturedFor(x)) /\ c \in CapturedFor(x)
          BY <1>3, CapturedFinite DEF CapturedFor
        <4> QED BY <1>3, <4>1, FS_RemoveElement
      <3>2. Len(saw'[x]) = Len(saw[x]) + 1
        BY <1>2, <1>4
      <3>3. Len(saw[x]) + Cardinality(CapturedFor(x)) = Len(rec[x]) /\ Len(saw[x]) \in Nat
        BY <1>2 DEF CountInv
      <3> QED BY <3>1, <3>2, <3>3, CapturedFinite
    <2>2. \A k \in Keys \ {x} : Len(saw'[k]) + Cardinality(CapturedFor(k)') = Len(rec[k])
      BY <1>3, <1>4 DEF CountInv
    <2> QED BY <1>1, <2>1, <2>2 DEF CountInv
  <1>6. ASSUME NEW a \in Callers, NEW b \in Callers,
               call'[a].pc # "idle", call'[b].pc # "idle",
               call'[a].key = call'[b].key, call'[a].key \notin overlap'
        PROVE  a = b
    <2>1. a # c /\ b # c
      BY <1>2, <1>6
    <2> QED BY <1>1, <1>2, <1>6, <2>1 DEF OrderInv
  <1>7. ASSUME NEW k \in Keys, k \notin overlap'
        PROVE  /\ \A d \in Callers :
                    Captured(d, k)' => rec'[k] = Append(saw'[k], call'[d].reply)
               /\ (\A d \in Callers : ~Captured(d, k)') => rec'[k] = saw'[k]
    <2>1. CASE k = x
      <3>1. rec[x] = Append(saw[x], r)
        BY <1>0, <1>1, <1>3, <1>7, <2>1 DEF OrderInv
      <3>2. \A d \in Callers : call[d].pc # "idle" /\ call[d].key = x => d = c
        BY <1>0, <1>1, <1>7, <2>1 DEF OrderInv
      <3>3. \A d \in Callers : ~Captured(d, x)'
        BY <1>2, <3>2 DEF Captured
      <3> QED BY <1>1, <1>4, <2>1, <3>1, <3>3
    <2>2. CASE k # x
      <3>1. \A d \in Callers : Captured(d, k)' <=> Captured(d, k)
        BY <1>0, <1>1, <1>2, <2>2 DEF Captured
      <3>2. \A d \in Callers : Captured(d, k)' => call'[d] = call[d]
        BY <1>2 DEF Captured
      <3> QED BY <1>1, <1>4, <1>7, <2>2, <3>1, <3>2 DEF OrderInv
    <2> QED BY <2>1, <2>2
  <1>8. OrderInv'
    BY <1>6, <1>7 DEF OrderInv
  <1> QED BY <1>5, <1>8

\* What a caller does, all told: the lists only grow, and what is in a file or in the
\* hands of a Save stays.
LEMMA CallerStep ==
    ASSUME DoublesInv,
           \/ Cancel
           \/ \E c \in Callers : \/ \E k \in Keys : Output(c, k)
                                 \/ OutputStdin(c) \/ Unpark(c) \/ Capture(c) \/ ReturnResult(c)
    PROVE  DoublesInv'
  <1>1. TypeOK' /\ ReplyInv'
    BY CallerTypes DEF DoublesInv
  <1>2. UNCHANGED <<saveVars, replayVars>> /\ mode = "record"
    BY DEF Cancel, Output, Called, OutputStdin, Unpark, Capture, ReturnResult, Recording
  <1>3. \A k \in Keys : Len(rec[k]) \in Nat /\ Len(rec'[k]) \in Nat /\ Len(rec[k]) <= Len(rec'[k])
    <2>1. CASE rec' = rec
      <3>1. \A k \in Keys : Len(rec[k]) \in Nat
        BY DEF DoublesInv, TypeOK
      <3> QED BY <2>1, <3>1
    <2>2. ASSUME NEW c \in Callers, Capture(c), NEW k \in Keys
          PROVE  Len(rec[k]) \in Nat /\ Len(rec'[k]) \in Nat /\ Len(rec[k]) <= Len(rec'[k])
      <3>1. PICK x \in Keys, r \in Outcomes : rec' = [rec EXCEPT ![x] = Append(@, r)]
        BY <2>2 DEF Capture, DoublesInv, TypeOK, ReplyInv
      <3>2. rec \in [Keys -> Seq(Outcomes)]
        BY DEF DoublesInv, TypeOK
      <3> QED BY <3>1, <3>2
    <2>3. rec' = rec \/ \E c \in Callers : Capture(c)
      BY DEF Cancel, Output, OutputStdin, Unpark, ReturnResult
    <2> QED BY <2>1, <2>2, <2>3
  <1>4. OrderInv' /\ CountInv'
    <2>1. CASE Cancel
      <3>1. UNCHANGED <<call, rec, saw, overlap>>
        BY <2>1 DEF Cancel
      <3> QED BY <3>1 DEF DoublesInv, OrderInv, CountInv, CapturedFor, Captured
    <2>2. ASSUME NEW c \in Callers, NEW k \in Keys, Output(c, k) PROVE OrderInv' /\ CountInv'
      <3>1. /\ call[c].pc = "idle" /\ Begun(c, k) /\ overlap \subseteq overlap'
            /\ (\E d \in Callers : call[d].pc # "idle" /\ call[d].key = k) => k \in overlap'
            /\ rec' = rec /\ saw' = saw
        BY <2>2, OutputEffect DEF DoublesInv
      <3>2. /\ \A d \in Callers \ {c} : call'[d] = call[d]
            /\ call'[c].pc = "idle" \/ (call'[c].key = k /\ call'[c].pc # "captured")
        BY <3>1 DEF Begun, DoublesInv, TypeOK
      <3>3. \A d \in Callers \ {c} :
               call[d].pc # "idle" /\ call[d].key = k => call[d].key \in overlap'
        BY <3>1
      <3> QED BY <1>1, <3>1, <3>2, <3>3, NothingCaptured DEF DoublesInv, TypeOK
    <2>3. ASSUME NEW c \in Callers, OutputStdin(c) PROVE OrderInv' /\ CountInv'
      <3>1. UNCHANGED <<call, rec, saw, overlap>>
        BY <2>3 DEF OutputStdin
      <3> QED BY <3>1 DEF DoublesInv, OrderInv, CountInv, CapturedFor, Captured
    <2>4. ASSUME NEW c \in Callers, Unpark(c) PROVE OrderInv' /\ CountInv'
      <3>1. /\ call[c].pc = "parked" /\ call'[c].pc = "idle"
            /\ \A d \in Callers \ {c} : call'[d] = call[d]
            /\ rec' = rec /\ saw' = saw /\ overlap' = overlap
        BY <2>4, Values DEF Unpark, DoublesInv, TypeOK
      <3> QED BY <1>1, <3>1, NothingCaptured DEF DoublesInv, TypeOK
    <2>5. ASSUME NEW c \in Callers, Capture(c) PROVE OrderInv' /\ CountInv'
      BY <2>5, CaptureOrder DEF DoublesInv
    <2>6. ASSUME NEW c \in Callers, ReturnResult(c) PROVE OrderInv' /\ CountInv'
      BY <2>6, ReturnOrder DEF DoublesInv
    <2> QED BY <2>1, <2>2, <2>3, <2>4, <2>5, <2>6
  <1>5. CopyInv'
    <2>1. ASSUME NEW s \in Savers, NEW k \in Keys
          PROVE  saver[s].owed[k] <= saver[s].n[k] /\ saver[s].n[k] <= Len(rec'[k])
      <3>1. saver[s].n[k] \in Nat /\ saver[s].n[k] <= Len(rec[k])
        BY DEF DoublesInv, CopyInv, TypeOK, Counts
      <3> QED BY <1>3, <3>1 DEF DoublesInv, CopyInv
    <2>2. ASSUME NEW k \in Keys PROVE file.n[k] <= Len(rec'[k])
      <3>1. file.n[k] \in Nat /\ file.n[k] <= Len(rec[k])
        BY DEF DoublesInv, CopyInv, TypeOK, Counts
      <3> QED BY <1>3, <3>1
    <2> QED BY <1>2, <2>1, <2>2 DEF CopyInv, saveVars
  <1>6. AloneInv'
    BY <1>2 DEF DoublesInv, AloneInv, saveVars
  <1>7. SlotInv'
    <2>1. \A k \in Keys : served[k] = <<>> /\ slots[k] = Upto(Len(served[k]), file.n[k])
      BY <1>2 DEF DoublesInv, SlotInv
    <2>2. 1 .. Len(<<>>) = {}
      OBVIOUS
    <2> QED BY <1>2, <2>1, <2>2 DEF SlotInv, saveVars, replayVars
  <1> QED BY <1>1, <1>4, <1>5, <1>6, <1>7 DEF DoublesInv

-----------------------------------------------------------------------------
(* What is saved *)

\* A snapshot has what was returned: a result is captured first.
LEMMA SnapshotCovers ==
    ASSUME TypeOK, CountInv, NEW k \in Keys
    PROVE  Lengths(saw)[k] <= Lengths(rec)[k] /\ Lengths(rec)[k] = Len(rec[k])
  <1>1. rec \in [Keys -> Seq(Outcomes)] /\ saw \in [Keys -> Seq(Outcomes)]
    BY DEF TypeOK
  <1>2. Lengths(saw)[k] = Len(saw[k]) /\ Lengths(rec)[k] = Len(rec[k])
    BY <1>1, LengthsAreCounts
  <1>3. Len(saw[k]) \in Nat /\ Len(rec[k]) \in Nat
    BY <1>1
  <1>4. Len(saw[k]) + Cardinality(CapturedFor(k)) = Len(rec[k])
    BY DEF CountInv
  <1> QED BY <1>2, <1>3, <1>4, CapturedFinite

\* What is copied or written is never more than the list.
LEMMA SaverCopies ==
    ASSUME DoublesInv, NEW s \in Savers,
           Save(s) \/ OpenFile(s) \/ WriteFile(s) \/ SaveFails(s)
    PROVE  CopyInv'
  <1>1. rec' = rec /\ \A k \in Keys : Len(rec[k]) \in Nat
    BY DEF Save, OpenFile, WriteFile, SaveFails, recVars, DoublesInv, TypeOK
  <1>2. /\ \A t \in Savers : saver[t].n \in Counts
        /\ \A t \in Savers : \A k \in Keys :
              saver[t].owed[k] <= saver[t].n[k] /\ saver[t].n[k] <= Len(rec[k])
        /\ file.n \in Counts /\ \A k \in Keys : file.n[k] <= Len(rec[k])
        /\ saver \in [Savers -> [pc : {"idle", "open", "write"}, n : Counts, owed : Counts,
                                 alone : BOOLEAN]]
    BY DEF DoublesInv, CopyInv, TypeOK
  <1>3. ASSUME NEW t \in Savers, NEW k \in Keys
        PROVE  saver'[t].owed[k] <= saver'[t].n[k] /\ saver'[t].n[k] <= Len(rec[k])
    <2>1. CASE Save(s)
      <3>1. CASE t = s
        <4>1. saver'[t].owed = Lengths(saw) /\ saver'[t].n = Lengths(rec)
          BY <2>1, <3>1 DEF Save
        <4>2. Lengths(rec)[k] <= Len(rec[k])
          BY <1>1, SnapshotCovers DEF DoublesInv
        <4> QED BY <4>1, <4>2, SnapshotCovers DEF DoublesInv
      <3>2. CASE t # s
        <4>1. saver'[t] = [saver[t] EXCEPT !.alone = FALSE]
          BY <2>1, <3>2 DEF Save
        <4> QED BY <1>2, <4>1
      <3> QED BY <3>1, <3>2
    <2>2. CASE OpenFile(s)
      BY <1>2, <2>2 DEF OpenFile
    <2>3. CASE WriteFile(s) \/ SaveFails(s)
      <3>1. saver' = [saver EXCEPT ![s] = AtRest]
        BY <2>3 DEF WriteFile, SaveFails
      <3>2. CASE t = s
        <4>1. saver'[t].owed[k] = 0 /\ saver'[t].n[k] = 0
          BY <1>2, <3>1, <3>2, Values
        <4> QED BY <1>1, <4>1
      <3>3. CASE t # s
        BY <1>2, <3>1, <3>3
      <3> QED BY <3>2, <3>3
    <2> QED BY <2>1, <2>2, <2>3
  <1>4. ASSUME NEW k \in Keys PROVE file'.n[k] <= Len(rec[k])
    <2>1. CASE file' = file
      BY <1>2, <2>1
    <2>2. CASE OpenFile(s)
      <3>1. file'.n[k] = 0
        BY <2>2, Values DEF OpenFile
      <3> QED BY <1>1, <3>1
    <2>3. CASE WriteFile(s)
      BY <1>2, <2>3 DEF WriteFile, Overwritten
    <2>4. ASSUME NEW m \in [Keys -> 0 .. MaxCalls], \A l \in Keys : m[l] <= saver[s].n[l],
                 file' = [text |-> "torn", n |-> Larger(m, file.n)]
          PROVE  file'.n[k] <= Len(rec[k])
      <3>1. file'.n[k] \in {m[k], file.n[k]}
        BY <2>4 DEF Larger
      <3>2. m[k] \in Nat /\ saver[s].n[k] \in Nat /\ m[k] <= saver[s].n[k]
        BY <1>2, <2>4, DoublesAssumption DEF Counts
      <3>3. saver[s].n[k] <= Len(rec[k])
        BY <1>2
      <3>4. m[k] <= Len(rec[k])
        BY <1>1, <3>2, <3>3
      <3> QED BY <1>2, <3>1, <3>4
    <2> QED BY <2>1, <2>2, <2>3, <2>4 DEF Save, SaveFails
  <1> QED BY <1>1, <1>3, <1>4 DEF CopyInv

\* A Save that was alone has written all that it copied to an empty file; any other step
\* of a Save is one of a time when nothing is owed.
LEMMA SaverAlone ==
    ASSUME DoublesInv, NEW s \in Savers,
           Save(s) \/ OpenFile(s) \/ WriteFile(s) \/ SaveFails(s)
    PROVE  AloneInv'
  <1>1. /\ saver \in [Savers -> [pc : {"idle", "open", "write"}, n : Counts, owed : Counts,
                                 alone : BOOLEAN]]
        /\ \A t, u \in Savers :
              saver[t].pc # "idle" /\ saver[u].pc # "idle" /\ saver[t].alone => t = u
        /\ \A t \in Savers : saver[t].pc = "write" /\ saver[t].alone => file.text = "empty"
        /\ AtRest.pc = "idle"
    BY Values DEF DoublesInv, TypeOK, AloneInv
  <1>2. CASE Save(s)
    <2> DEFINE alone == \A t \in Savers : saver[t].pc = "idle"
    <2>1. /\ saver'[s].pc = "open" /\ saver'[s].alone = alone
          /\ \A t \in Savers \ {s} : saver'[t].pc = saver[t].pc /\ ~saver'[t].alone
          /\ file' = file /\ owed' = {}
      BY <1>1, <1>2 DEF Save
    <2>2. ASSUME NEW t \in Savers, NEW u \in Savers,
                 saver'[t].pc # "idle", saver'[u].pc # "idle", saver'[t].alone
          PROVE  t = u
      BY <2>1, <2>2
    <2>3. \A t \in Savers : saver'[t].pc = "write" /\ saver'[t].alone => file'.text = "empty"
      BY <2>1
    <2> QED BY <2>1, <2>2, <2>3 DEF AloneInv
  <1>3. CASE ~Save(s)
    <2>1. saver[s].pc # "idle" /\ owed = {}
      BY <1>3 DEF OpenFile, WriteFile, SaveFails, DoublesInv, AloneInv
    <2>2. \A t \in Savers \ {s} : saver'[t] = saver[t]
      BY <1>1, <1>3 DEF OpenFile, WriteFile, SaveFails
    <2>3. saver'[s].alone /\ saver'[s].pc # "idle" => saver[s].alone
      BY <1>1, <1>3 DEF OpenFile, WriteFile, SaveFails
    <2>4. ASSUME NEW t \in Savers, NEW u \in Savers,
                 saver'[t].pc # "idle", saver'[u].pc # "idle", saver'[t].alone
          PROVE  t = u
      <3>1. saver[t].pc # "idle" /\ saver[u].pc # "idle" /\ saver[t].alone
        BY <2>1, <2>2, <2>3, <2>4
      <3> QED BY <1>1, <3>1
    <2>5. ASSUME NEW t \in Savers, saver'[t].pc = "write", saver'[t].alone
          PROVE  file'.text = "empty"
      <3>1. saver[t].alone
        BY <2>2, <2>3, <2>5
      <3>2. t = s
        BY <1>1, <2>1, <2>2, <2>5, <3>1
      <3> QED BY <1>1, <1>3, <2>5, <3>2 DEF OpenFile, WriteFile, SaveFails
    <2>6. ASSUME NEW n \in owed'
          PROVE  /\ \A t \in Savers : saver'[t].pc = "idle"
                 /\ file'.text = "whole" /\ \A k \in Keys : n[k] <= file'.n[k]
      <3>1. WriteFile(s)
        BY <1>3, <2>1, <2>6 DEF OpenFile, SaveFails
      <3>2. saver[s].alone /\ n = saver[s].owed /\ saver[s].pc = "write"
        BY <2>6, <3>1 DEF WriteFile
      <3>3. file' = [text |-> "whole", n |-> saver[s].n]
        BY <1>1, <3>1, <3>2 DEF WriteFile, Overwritten
      <3>4. \A k \in Keys : n[k] <= saver[s].n[k]
        BY <3>2 DEF DoublesInv, CopyInv
      <3>5. saver'[s].pc = "idle"
        BY <1>1, <3>1 DEF WriteFile
      <3>6. \A t \in Savers \ {s} : saver[t].pc = "idle"
        BY <1>1, <2>1, <3>2
      <3> QED BY <2>2, <3>3, <3>4, <3>5, <3>6
    <2> QED BY <2>4, <2>5, <2>6 DEF AloneInv
  <1> QED BY <1>2, <1>3

\* A step of a Save changes nothing that is recorded, and nothing has been replayed.
LEMMA SaverStep ==
    ASSUME DoublesInv, NEW s \in Savers,
           Save(s) \/ OpenFile(s) \/ WriteFile(s) \/ SaveFails(s)
    PROVE  DoublesInv'
  <1>1. TypeOK' /\ ReplyInv'
    BY SaverTypes DEF DoublesInv
  <1>2. UNCHANGED <<recVars, replayVars>> /\ mode = "record"
    BY DEF Save, OpenFile, WriteFile, SaveFails, Recording
  <1>3. OrderInv' /\ CountInv'
    BY <1>2 DEF recVars, DoublesInv, OrderInv, CountInv, CapturedFor, Captured
  <1>4. SlotInv'
    <2>1. \A k \in Keys : served[k] = <<>> /\ slots[k] = Upto(Len(served[k]), file.n[k])
      BY <1>2 DEF DoublesInv, SlotInv
    <2>2. 1 .. Len(<<>>) = {} /\ Len(<<>>) = 0
      OBVIOUS
    <2>3. \A k \in Keys : file.n[k] \in Nat /\ file'.n[k] \in Nat
      BY <1>1 DEF DoublesInv, TypeOK, Counts
    <2>4. \A k \in Keys : slots[k] = 0 /\ Upto(0, file'.n[k]) = 0
      BY <2>1, <2>2, <2>3 DEF Upto
    <2> QED BY <1>2, <2>1, <2>2, <2>4 DEF SlotInv, replayVars
  <1> QED BY <1>1, <1>3, <1>4, SaverCopies, SaverAlone DEF DoublesInv

-----------------------------------------------------------------------------
(* What is replayed *)

\* Loading changes only the mode.
LEMMA LoadStep == DoublesInv /\ Load => DoublesInv'
  <1> SUFFICES ASSUME DoublesInv, Load PROVE DoublesInv'
    OBVIOUS
  <1>1. /\ UNCHANGED <<recVars, saveVars, slots, served>>
        /\ mode' \in {"replay", "loadError"} /\ mode = "record"
    BY DEF Load, Recording
  <1>2. TypeOK' /\ ReplyInv'
    BY <1>1 DEF recVars, saveVars, DoublesInv, TypeOK, ReplyInv
  <1>3. OrderInv' /\ CountInv' /\ CopyInv' /\ AloneInv'
    BY <1>1 DEF recVars, saveVars, DoublesInv, OrderInv, CountInv, CapturedFor, Captured,
                CopyInv, AloneInv
  <1>4. SlotInv'
    BY <1>1 DEF recVars, saveVars, DoublesInv, SlotInv
  <1> QED BY <1>2, <1>3, <1>4 DEF DoublesInv

\* A replayed command is served what the invariant says of its slot.
LEMMA ReplayStep ==
    ASSUME DoublesInv, NEW k \in Keys, Replay(k)
    PROVE  DoublesInv'
  <1>1. /\ mode = "replay" /\ UNCHANGED <<recVars, saveVars, mode>>
        /\ Served(k) \in Outcomes \cup {"miss"} /\ Slot(k) \in Nat
        /\ served' = [served EXCEPT ![k] = Append(@, Served(k))]
        /\ slots' = [slots EXCEPT ![k] = Slot(k)]
    BY ReplayEffect DEF DoublesInv
  <1>2. /\ served \in [Keys -> Seq(Outcomes \cup {"miss"})] /\ slots \in [Keys -> Nat]
        /\ \A l \in Keys : file.n[l] \in Nat
    BY DEF DoublesInv, TypeOK, Counts
  <1>3. TypeOK' /\ ReplyInv'
    <2>1. served' \in [Keys -> Seq(Outcomes \cup {"miss"})] /\ slots' \in [Keys -> Nat]
      BY <1>1, <1>2
    <2> QED BY <1>1, <2>1 DEF recVars, saveVars, DoublesInv, TypeOK, ReplyInv
  <1>4. OrderInv' /\ CountInv' /\ CopyInv' /\ AloneInv'
    BY <1>1 DEF recVars, saveVars, DoublesInv, OrderInv, CountInv, CapturedFor, Captured,
                CopyInv, AloneInv
  <1>5. ASSUME NEW l \in Keys
        PROVE  /\ slots'[l] = Upto(Len(served'[l]), file.n[l])
               /\ \A i \in 1 .. Len(served'[l]) :
                     served'[l][i] = IF file.n[l] = 0 THEN "miss"
                                     ELSE rec[l][Upto(i, file.n[l])]
    <2>1. /\ slots[l] = Upto(Len(served[l]), file.n[l])
          /\ \A i \in 1 .. Len(served[l]) :
                served[l][i] = IF file.n[l] = 0 THEN "miss" ELSE rec[l][Upto(i, file.n[l])]
      BY DEF DoublesInv, SlotInv
    <2>2. CASE l # k
      <3>1. slots'[l] = slots[l] /\ served'[l] = served[l]
        BY <1>1, <1>2, <2>2
      <3> QED BY <2>1, <3>1
    <2>3. CASE l = k
      <3>1. /\ slots'[l] = Slot(k) /\ served'[l] = Append(served[k], Served(k))
            /\ served[k] \in Seq(Outcomes \cup {"miss"})
        BY <1>1, <1>2, <2>3
      <3>2. /\ Len(served[k]) \in Nat /\ Len(served'[l]) = Len(served[k]) + 1
            /\ served'[l][Len(served[k]) + 1] = Served(k)
            /\ \A i \in 1 .. Len(served[k]) : served'[l][i] = served[k][i]
        BY <1>1, <3>1
      <3>3. Slot(k) = Upto(Len(served[k]) + 1, file.n[k])
        BY <1>2, <2>1, <2>3, <3>2 DEF Slot, Upto
      <3>4. file.n[k] # 0 => Upto(slots[k] + 1, file.n[k]) = Upto(Len(served[k]) + 1, file.n[k])
        BY <1>2, <2>1, <2>3, <3>2 DEF Upto
      <3>5. Served(k) = IF file.n[k] = 0 THEN "miss"
                        ELSE rec[k][Upto(Len(served[k]) + 1, file.n[k])]
        BY <3>4 DEF Served
      <3>6. ASSUME NEW i \in 1 .. Len(served'[l])
            PROVE  served'[l][i] = IF file.n[l] = 0 THEN "miss"
                                   ELSE rec[l][Upto(i, file.n[l])]
        <4>1. i \in 1 .. Len(served[k]) \/ i = Len(served[k]) + 1
          BY <3>2
        <4> QED BY <2>1, <2>3, <3>2, <3>5, <4>1
      <3> QED BY <2>3, <3>1, <3>2, <3>3, <3>6
    <2> QED BY <2>2, <2>3
  <1>6. SlotInv'
    BY <1>1, <1>5 DEF SlotInv, recVars, saveVars
  <1> QED BY <1>3, <1>4, <1>6 DEF DoublesInv

-----------------------------------------------------------------------------
(* The theorems *)

\* Nothing is recorded, saved or replayed at the start.
LEMMA DoublesInit == Init => DoublesInv
  <1> SUFFICES ASSUME Init PROVE DoublesInv
    OBVIOUS
  <1>1. TypeOK /\ ReplyInv
    BY TypeInit
  <1>2. /\ \A c \in Callers : call[c].pc = "idle"
        /\ \A s \in Savers : saver[s] = AtRest
        /\ rec = [k \in Keys |-> <<>>] /\ saw = [k \in Keys |-> <<>>]
        /\ served = [k \in Keys |-> <<>>] /\ slots = [k \in Keys |-> 0]
        /\ file.n = Nothing /\ owed = {} /\ AtRest.pc = "idle"
    BY Values DEF Init
  <1>3. Len(<<>>) = 0 /\ 1 .. 0 = {}
    OBVIOUS
  <1>4. OrderInv
    BY <1>2 DEF OrderInv, Captured
  <1>5. CountInv
    <2>1. ASSUME NEW k \in Keys PROVE Len(saw[k]) + Cardinality(CapturedFor(k)) = Len(rec[k])
      <3>1. CapturedFor(k) = {}
        BY <1>2 DEF CapturedFor, Captured
      <3>2. Len(saw[k]) = 0 /\ Len(rec[k]) = 0
        BY <1>2, <1>3
      <3> QED BY <3>1, <3>2, FS_EmptySet
    <2> QED BY <2>1 DEF CountInv
  <1>6. CopyInv
    <2>1. \A k \in Keys : Len(rec[k]) = 0
      BY <1>2, <1>3
    <2>2. \A s \in Savers : \A k \in Keys : saver[s].owed[k] = 0 /\ saver[s].n[k] = 0
      BY <1>2, Values
    <2>3. \A k \in Keys : file.n[k] = 0
      BY <1>2, Values
    <2> QED BY <2>1, <2>2, <2>3 DEF CopyInv
  <1>7. AloneInv
    BY <1>2 DEF AloneInv
  <1>8. SlotInv
    <2>1. \A k \in Keys : served[k] = <<>> /\ slots[k] = 0 /\ Len(served[k]) = 0 /\ file.n[k] = 0
      BY <1>2, <1>3, Values
    <2> QED BY <1>3, <2>1 DEF SlotInv, Upto
  <1> QED BY <1>1, <1>4, <1>5, <1>6, <1>7, <1>8 DEF DoublesInv

\* The doubles keep their invariant.
THEOREM DoublesInvariant == Spec => []DoublesInv
  <1>1. DoublesInv /\ [Next]_vars => DoublesInv'
    <2> SUFFICES ASSUME DoublesInv, [Next]_vars PROVE DoublesInv'
      OBVIOUS
    <2>1. CASE UNCHANGED vars
      <3> USE <2>1 DEF vars, recVars, saveVars, replayVars
      <3>1. TypeOK' /\ ReplyInv'
        BY DEF DoublesInv, TypeOK, ReplyInv
      <3>2. OrderInv' /\ CountInv'
        BY DEF DoublesInv, OrderInv, CountInv, CapturedFor, Captured
      <3>3. CopyInv' /\ AloneInv'
        BY DEF DoublesInv, CopyInv, AloneInv
      <3>4. SlotInv'
        BY DEF DoublesInv, SlotInv
      <3> QED BY <3>1, <3>2, <3>3, <3>4 DEF DoublesInv
    <2>2. ASSUME NEW c \in Callers,
                 \/ \E k \in Keys : Output(c, k)
                 \/ OutputStdin(c) \/ Unpark(c) \/ Capture(c) \/ ReturnResult(c)
          PROVE  DoublesInv'
      BY <2>2, CallerStep
    <2>3. CASE Cancel
      BY <2>3, CallerStep
    <2>4. ASSUME NEW s \in Savers, Save(s) \/ OpenFile(s) \/ WriteFile(s) \/ SaveFails(s)
          PROVE  DoublesInv'
      BY <2>4, SaverStep
    <2>5. CASE Load
      BY <2>5, LoadStep
    <2>6. ASSUME NEW k \in Keys, Replay(k) PROVE DoublesInv'
      BY <2>6, ReplayStep
    <2> QED BY <2>1, <2>2, <2>3, <2>4, <2>5, <2>6 DEF Next
  <1> QED BY <1>1, DoublesInit, PTL DEF Spec

\* The types of the doubles' state: what every number and list of them is.
THEOREM DoublesTypesCorrect == Spec => []TypeOK
  <1>1. DoublesInv => TypeOK
    BY DEF DoublesInv
  <1> QED BY <1>1, DoublesInvariant, PTL

\* A Save that no other overlapped leaves a cassette that a later process can read, with
\* as many results of each command as had been returned when Save was called.
THEOREM SaveCoversCorrect == Spec => []SaveCovers
  <1>1. DoublesInv => SaveCovers
    BY EntriesOfKey DEF DoublesInv, SaveCovers, AloneInv
  <1> QED BY <1>1, DoublesInvariant, PTL

\* What the invariant says of a reply that was served for a command.
LEMMA ServedReply ==
    ASSUME DoublesInv, NEW k \in Keys, k \notin overlap, NEW i \in DOMAIN served[k]
    PROVE  LET last == Len(EntriesOf(k))
               at == IF i < last THEN i ELSE last
           IN  /\ served[k][i] = "miss" <=> last = 0
               /\ at \in DOMAIN saw[k] => served[k][i] = saw[k][at]
  <1> DEFINE last == file.n[k]
  <1>1. /\ Len(EntriesOf(k)) = last /\ last \in Nat /\ last <= Len(rec[k])
        /\ \A j \in 1 .. last : rec[k][j] \in Outcomes
    BY EntriesOfKey DEF DoublesInv
  <1>2. i \in 1 .. Len(served[k]) /\ i \in Nat \ {0}
    BY DEF DoublesInv, TypeOK
  <1>3. served[k][i] = IF last = 0 THEN "miss" ELSE rec[k][Upto(i, last)]
    BY <1>2 DEF DoublesInv, SlotInv
  <1>4. last # 0 => Upto(i, last) \in 1 .. last
    BY <1>1, <1>2 DEF Upto
  <1>5. served[k][i] = "miss" <=> last = 0
    BY <1>1, <1>3, <1>4 DEF Outcomes
  <1>6. \A j \in DOMAIN saw[k] : rec[k][j] = saw[k][j]
    <2>1. saw[k] \in Seq(Outcomes) /\ ReplyInv /\ k \in Keys
      BY DEF DoublesInv, TypeOK
    <2>2. rec[k] = saw[k] \/ \E r \in Outcomes : rec[k] = Append(saw[k], r)
      BY <2>1 DEF DoublesInv, OrderInv, ReplyInv, Captured
    <2> QED BY <2>1, <2>2
  <1>7. Upto(i, last) \in DOMAIN saw[k] => served[k][i] = saw[k][Upto(i, last)]
    <2>1. 0 \notin DOMAIN saw[k]
      BY DEF DoublesInv, TypeOK
    <2>2. CASE last = 0
      BY <1>2, <2>1, <2>2 DEF Upto
    <2>3. CASE last # 0
      BY <1>3, <1>6, <2>3
    <2> QED BY <2>2, <2>3
  <1> QED BY <1>1, <1>5, <1>7 DEF Upto

\* Replay repeats, command by command, what the recording program saw.
THEOREM ReplayRepeatsCorrect == Spec => []ReplayRepeats
  <1>1. DoublesInv => ReplayRepeats
    BY ServedReply DEF ReplayRepeats
  <1> QED BY <1>1, DoublesInvariant, PTL
=============================================================================
