------------------------------- MODULE Doubles ------------------------------
(***************************************************************************)
(* The test doubles stacked as the tests stack them: a RecordingRunner     *)
(* around a recording RecordReplayRunner around a ScriptedRunner, Save,    *)
(* and a later process that replays the cassette                           *)
(* (processkittest/doubles.go, cassette.go, cassette_unix.go).             *)
(*                                                                         *)
(* A key is program + args + dir, and the recorded entries are kept by     *)
(* key, as Replay groups them: nothing depends on their order across keys. *)
(* An entry is known by its outcome; a list of them that Save copies, or   *)
(* the text of a cassette, by how many entries of each key it holds.       *)
(***************************************************************************)
EXTENDS Naturals, Sequences, FiniteSets, SequencesExt

CONSTANTS Keys,      \* the match keys of the commands that are run
          Rules,     \* ScriptedRunner.rules: [accepts : SUBSET Keys, replies : Seq(Replies)]
          Fallback,  \* the reply to a command that no rule accepts
          Callers, Savers,  \* goroutines of the recording program
          Fits,      \* the counts of entries whose text is within maxCassetteBytes
          MaxCalls,  \* bound: commands run while recording
          MaxReplays \* bound: commands run on replay, per key

Outcomes == {"ok", "fail", "timedOut", "signalled"}
Replies == Outcomes \cup {"err", "pending"}

ASSUME DoublesAssumption ==
    /\ Keys # {} /\ IsFiniteSet(Callers)
    /\ \A i \in DOMAIN Rules : /\ Rules[i].accepts \subseteq Keys
                               /\ Rules[i].replies \in Seq(Replies) /\ Rules[i].replies # <<>>
    /\ Fallback \in Replies \cup {"notFound"}
    /\ MaxCalls \in Nat /\ MaxReplays \in Nat

VARIABLES
    ctx,     \* the context of the recorded calls: "live" or "done"
    calls,   \* how many RecordingRunner.calls holds
    cursor,  \* rule.cursor, by rule
    call,    \* what each caller does: [pc, key, reply]
    rec,     \* RecordReplayRunner.rec, by key
    saver,   \* what each Save does: [pc, n, owed, alone]
    file,    \* the cassette: [text, n]
    mode,    \* "record", or "replay", or "loadError" when Replay failed
    slots,   \* replaySlot.next, by key
    \* ---- what a test observes ----
    saw,     \* the results returned for each key, in order
    overlap, \* keys that two calls ran at the same time
    owed,    \* how many results the last Save must have written, if it was alone
    served   \* the replayed outcomes of each key; "miss" for ErrCassetteMiss

recVars == <<ctx, calls, cursor, call, rec, saw, overlap>>
saveVars == <<saver, file, owed>>
replayVars == <<mode, slots, served>>
vars == <<recVars, saveVars, replayVars>>

\* How many entries, or results, of each key.
Counts == [Keys -> Nat]
Lengths(q) == [k \in Keys |-> Len(q[k])]
Nothing == [k \in Keys |-> 0]

Idle == [pc |-> "idle", key |-> CHOOSE k \in Keys : TRUE, reply |-> "err"]
AtRest == [pc |-> "idle", n |-> Nothing, owed |-> Nothing, alone |-> TRUE]

TypeOK ==
    /\ ctx \in {"live", "done"}
    /\ calls \in 0 .. MaxCalls
    /\ cursor \in [DOMAIN Rules -> Nat]
    /\ call \in [Callers -> [pc : {"idle", "parked", "captured", "returning"}, key : Keys,
                             reply : Replies]]
    /\ rec \in [Keys -> Seq(Outcomes)]
    /\ saver \in [Savers -> [pc : {"idle", "open", "write"}, n : Counts, owed : Counts,
                              alone : BOOLEAN]]
    /\ file \in [text : {"missing", "empty", "whole", "torn"}, n : Counts]
    /\ mode \in {"record", "replay", "loadError"} /\ slots \in [Keys -> Nat]
    /\ saw \in [Keys -> Seq(Outcomes)] /\ overlap \subseteq Keys /\ owed \subseteq Counts
    /\ served \in [Keys -> Seq(Outcomes \cup {"miss"})]

Init ==
    /\ ctx = "live" /\ calls = 0 /\ cursor = [i \in DOMAIN Rules |-> 0]
    /\ call = [c \in Callers |-> Idle] /\ rec = [k \in Keys |-> <<>>]
    /\ saver = [s \in Savers |-> AtRest] /\ file = [text |-> "missing", n |-> Nothing]
    /\ mode = "record" /\ slots = [k \in Keys |-> 0]
    /\ saw = [k \in Keys |-> <<>>] /\ overlap = {} /\ owed = {}
    /\ served = [k \in Keys |-> <<>>]

Recording == mode = "record"

-----------------------------------------------------------------------------
(* Output while recording *)

Accepting(k) == {i \in DOMAIN Rules : k \in Rules[i].accepts}
Matched(k) == CHOOSE i \in Accepting(k) : \A j \in Accepting(k) : i <= j

\* A sequence past its end repeats its last reply.
Match(k) ==
    LET i == Matched(k)
        n == Len(Rules[i].replies)
    IN  IF Accepting(k) = {} THEN [reply |-> Fallback, cursor |-> cursor]
        ELSE IF cursor[i] >= n THEN [reply |-> Rules[i].replies[n], cursor |-> cursor]
        ELSE [reply |-> Rules[i].replies[cursor[i] + 1], cursor |-> [cursor EXCEPT ![i] = @ + 1]]

\* RecordingRunner records every command before it passes it on.
Called(c) ==
    /\ Recording /\ call[c].pc = "idle"
    /\ calls < MaxCalls /\ calls' = calls + 1

\* The call is recorded, passed on, and answered by the script; an error is returned
\* as it is.
Output(c, k) ==
    LET m == Match(k)
        pc == CASE m.reply = "pending" -> "parked"
                [] m.reply \in Outcomes -> "returning"
                [] OTHER -> "idle"
    IN  /\ Called(c)
        /\ cursor' = m.cursor
        /\ call' = IF pc = "idle" THEN call
                   ELSE [call EXCEPT ![c] = [pc |-> pc, key |-> k, reply |-> m.reply]]
        /\ overlap' = overlap \cup {k : d \in {d \in Callers : call[d].pc # "idle" /\ call[d].key = k}}
        /\ UNCHANGED <<ctx, rec, saw, saveVars, replayVars>>

\* A command with stdin is refused by the recorder, before its inner runner.
OutputStdin(c) ==
    /\ Called(c)
    /\ UNCHANGED <<ctx, cursor, call, rec, saw, overlap, saveVars, replayVars>>

Cancel ==
    /\ Recording /\ ctx = "live" /\ ctx' = "done"
    /\ UNCHANGED <<calls, cursor, call, rec, saw, overlap, saveVars, replayVars>>

Unpark(c) ==
    /\ Recording /\ call[c].pc = "parked" /\ ctx = "done"
    /\ call' = [call EXCEPT ![c] = Idle]
    /\ UNCHANGED <<ctx, calls, cursor, rec, saw, overlap, saveVars, replayVars>>

Capture(c) ==
    /\ Recording /\ call[c].pc = "returning"
    /\ rec' = [rec EXCEPT ![call[c].key] = Append(@, call[c].reply)]
    /\ call' = [call EXCEPT ![c].pc = "captured"]
    /\ UNCHANGED <<ctx, calls, cursor, saw, overlap, saveVars, replayVars>>

\* The result is returned before it is captured.
ReturnedMutant(c) == call[c].pc \in {"returning", "captured"}
Returned(c) == call[c].pc = "captured"

ReturnResult(c) ==
    /\ Recording /\ Returned(c)
    /\ saw' = [saw EXCEPT ![call[c].key] = Append(@, call[c].reply)]
    /\ call' = [call EXCEPT ![c] = Idle]
    /\ UNCHANGED <<ctx, calls, cursor, rec, overlap, saveVars, replayVars>>

-----------------------------------------------------------------------------
(* Save *)

\* A snapshot is taken under the lock; the rest of Save runs without it.
Save(s) ==
    /\ Recording /\ saver[s].pc = "idle"
    /\ LET alone == \A t \in Savers : saver[t].pc = "idle"
       IN  saver' = [t \in Savers |->
               IF t = s THEN [pc |-> "open", n |-> Lengths(rec), owed |-> Lengths(saw),
                            alone |-> alone]
               ELSE [saver[t] EXCEPT !.alone = FALSE]]
    /\ owed' = {}
    /\ UNCHANGED <<recVars, file, replayVars>>

\* O_TRUNC
OpenFile(s) ==
    /\ Recording /\ saver[s].pc = "open"
    /\ file' = [text |-> "empty", n |-> Nothing]
    /\ saver' = [saver EXCEPT ![s].pc = "write"]
    /\ UNCHANGED <<recVars, owed, replayVars>>

\* Each Save writes from the start of the file: a shorter text leaves the end of a
\* longer one behind.  Of two copies of the list one holds all that the other does.
Overwritten(n) ==
    IF file.text = "empty" \/ \A k \in Keys : file.n[k] <= n[k] THEN [text |-> "whole", n |-> n]
    ELSE [text |-> "torn", n |-> file.n]

WriteFile(s) ==
    /\ Recording /\ saver[s].pc = "write"
    /\ file' = Overwritten(saver[s].n)
    /\ owed' = IF saver[s].alone THEN {saver[s].owed} ELSE {}
    /\ saver' = [saver EXCEPT ![s] = AtRest]
    /\ UNCHANGED <<recVars, replayVars>>

Larger(m, n) == [k \in Keys |-> IF m[k] > n[k] THEN m[k] ELSE n[k]]

\* Save returns the error of the open, of the chmod, or of a write that the disk cut
\* short, with the text of some of the entries.
SaveFails(s) ==
    /\ Recording /\ saver[s].pc \in {"open", "write"}
    /\ \/ file' = file
       \/ /\ saver[s].pc = "write"
          /\ \E m \in [Keys -> 0 .. MaxCalls] :
               /\ \A k \in Keys : m[k] <= saver[s].n[k]
               /\ file' = [text |-> "torn", n |-> Larger(m, file.n)]
    /\ saver' = [saver EXCEPT ![s] = AtRest]
    /\ UNCHANGED <<recVars, owed, replayVars>>

-----------------------------------------------------------------------------
(* Replay: by a new process, whether the recording one has finished or died *)

\* A missing file, one too large, or a text that is no JSON, is a load error.  The checks of
\* the version and of each entry pass what Save wrote: the version is its own, and every
\* outcome here has its code, its signal or its timeout.
Readable == file.text = "whole" /\ file.n \in Fits

Load ==
    /\ Recording
    /\ mode' = IF Readable THEN "replay" ELSE "loadError"
    /\ UNCHANGED <<recVars, saveVars, slots, served>>

EntriesOf(k) == SubSeq(rec[k], 1, file.n[k])

\* An exhausted slot starts again.
PlayMutant(k) ==
    [outcome |-> EntriesOf(k)[(slots[k] % Len(EntriesOf(k))) + 1], next |-> slots[k] + 1]
Play(k) ==
    IF slots[k] >= Len(EntriesOf(k)) THEN [outcome |-> Last(EntriesOf(k)), next |-> slots[k]]
    ELSE [outcome |-> EntriesOf(k)[slots[k] + 1], next |-> slots[k] + 1]

Replay(k) ==
    /\ mode = "replay" /\ Len(served[k]) < MaxReplays
    /\ IF EntriesOf(k) = <<>>
       THEN /\ served' = [served EXCEPT ![k] = Append(@, "miss")]
            /\ UNCHANGED slots
       ELSE /\ served' = [served EXCEPT ![k] = Append(@, Play(k).outcome)]
            /\ slots' = [slots EXCEPT ![k] = Play(k).next]
    /\ UNCHANGED <<recVars, saveVars, mode>>

-----------------------------------------------------------------------------

Next ==
    \/ \E c \in Callers :
          \/ \E k \in Keys : Output(c, k)
          \/ OutputStdin(c) \/ Unpark(c) \/ Capture(c) \/ ReturnResult(c)
    \/ Cancel
    \/ \E s \in Savers : Save(s) \/ OpenFile(s) \/ WriteFile(s) \/ SaveFails(s)
    \/ Load
    \/ \E k \in Keys : Replay(k)

Spec == Init /\ [][Next]_vars

-----------------------------------------------------------------------------

\* "it rewrites the full file each time, so runs recorded after a Save are still covered
\* by a later Save" (cassette.go:237): once a Save that no other overlapped has returned,
\* the file is a whole cassette with as many results of each command as had been returned,
\* which Replay reads back (unless it is larger than what Replay reads at all: Save has no
\* such limit).
SaveCovers ==
    \A n \in owed : /\ file.text = "whole"
                   /\ \A k \in Keys : n[k] <= Len(EntriesOf(k))

\* "serves the recorded results", "in capture order then repeating the last forever"
\* (cassette.go:91, 124): replay repeats, command by command, what the recording
\* program saw of it, unless that ran it twice at the same time; a miss means that no
\* result of the command was saved, and a half-written cassette serves nothing.
ReplayRepeats ==
    \A k \in Keys \ overlap : \A i \in DOMAIN served[k] :
        LET last == Len(EntriesOf(k))
            at == IF i < last THEN i ELSE last
        IN  /\ served[k][i] = "miss" <=> last = 0
            /\ at \in DOMAIN saw[k] => served[k][i] = saw[k][at]
=============================================================================
