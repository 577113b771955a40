------------------------------ MODULE LineSplit ------------------------------
(***************************************************************************)
(* How drainLines (stream.go) cuts the bytes of one output stream into     *)
(* lines.  What it emits must not depend on how the operating system cuts  *)
(* the stream into reads, except for lines as long as the cap, which it    *)
(* may emit in pieces so that memory stays bounded.                        *)
(*                                                                         *)
(* A byte is its position in the stream; text says of each position        *)
(* whether it is an ordinary character, a CR or an LF.  LineStream takes   *)
(* what is emitted here as its lines.                                      *)
(***************************************************************************)
EXTENDS Naturals, SequencesExt

CONSTANTS MaxLineBytes,  \* the cap of WithMaxLineBytes
          ReadBufSize,   \* the size of the read buffer
          MaxText        \* bound: bytes that the stream delivers

ASSUME SplitAssumption ==
    /\ MaxLineBytes \in Nat \ {0}      \* resolve replaces a value <= 0 by 1 MiB
    /\ ReadBufSize \in Nat \ {0} /\ MaxText \in Nat

VARIABLES
    text,   \* the kinds of the bytes read so far
    chunk,  \* what is left of the last read
    acc,    \* bytes of the line under way
    out,    \* the lines emitted
    ended,  \* the last read returned an error, io.EOF among them
    done    \* drainLines has returned

vars == <<text, chunk, acc, out, ended, done>>

Kinds == {"char", "CR", "LF"}
Bytes == 1 .. Len(text)

SplitTypeOK ==
    /\ text \in Seq(Kinds) /\ Len(text) <= MaxText
    /\ chunk \in Seq(Bytes) /\ acc \in Seq(Bytes)
    /\ out \in Seq(Seq(Bytes))
    /\ ended \in BOOLEAN /\ done \in BOOLEAN

Init ==
    /\ text = <<>> /\ chunk = <<>> /\ acc = <<>> /\ out = <<>>
    /\ ended = FALSE /\ done = FALSE

-----------------------------------------------------------------------------

Positions(first, last) == [i \in 1 .. (last - first + 1) |-> first + i - 1]

Ends(line, kind) == line # <<>> /\ text[Last(line)] = kind

\* The CR goes only when no LF has gone before it.
TrimLineEndMutant(line) ==
    IF Ends(line, "LF") \/ Ends(line, "CR") THEN Front(line) ELSE line

\* One LF, then one CR.
TrimLineEnd(line) ==
    LET body == IF Ends(line, "LF") THEN Front(line) ELSE line
    IN  IF Ends(body, "CR") THEN Front(body) ELSE body

Emit(line) == out' = Append(out, line)

\* The chunk is used up and what is left of the line is below the cap.
ChunkDone == chunk = <<>> /\ Len(acc) < MaxLineBytes

\* src.Read: some bytes, an error, or both.  An error ends the stream wherever it is.
Read ==
    /\ ChunkDone /\ ~ended
    /\ \E n \in 0 .. ReadBufSize, err \in BOOLEAN :
         /\ n > 0 \/ err
         /\ Len(text) + n <= MaxText
         /\ \E new \in [1 .. n -> Kinds] : text' = text \o new
         /\ chunk' = Positions(Len(text) + 1, Len(text) + n)
         /\ ended' = err
    /\ UNCHANGED <<acc, out, done>>

LFs == {i \in DOMAIN chunk : text[chunk[i]] = "LF"}

\* The rest of the chunk is thrown away with the line.
TakeLineMutant ==
    /\ \E i \in LFs :
         /\ \A j \in LFs : i <= j
         /\ Emit(TrimLineEnd(acc \o SubSeq(chunk, 1, i)))
         /\ chunk' = <<>>
    /\ acc' = <<>>
    /\ UNCHANGED <<text, ended, done>>
TakeLine ==
    /\ \E i \in LFs :
         /\ \A j \in LFs : i <= j
         /\ Emit(TrimLineEnd(acc \o SubSeq(chunk, 1, i)))
         /\ chunk' = SubSeq(chunk, i + 1, Len(chunk))
    /\ acc' = <<>>
    /\ UNCHANGED <<text, ended, done>>

TakeRest ==
    /\ chunk # <<>> /\ LFs = {}
    /\ acc' = acc \o chunk
    /\ chunk' = <<>>
    /\ UNCHANGED <<text, out, ended, done>>

\* A newline-free run that has reached the cap is emitted verbatim, piece by piece.
FlushFragment ==
    /\ chunk = <<>> /\ Len(acc) >= MaxLineBytes
    /\ Emit(SubSeq(acc, 1, MaxLineBytes))
    /\ acc' = SubSeq(acc, MaxLineBytes + 1, Len(acc))
    /\ UNCHANGED <<text, chunk, ended, done>>

\* The remainder without a newline is a line too.
Finish ==
    /\ ChunkDone /\ ended /\ ~done
    /\ IF acc # <<>> THEN Emit(TrimLineEnd(acc)) ELSE UNCHANGED out
    /\ acc' = <<>> /\ done' = TRUE
    /\ UNCHANGED <<text, chunk, ended>>

Next == Read \/ TakeLine \/ TakeRest \/ FlushFragment \/ Finish

Spec == Init /\ [][Next]_vars

-----------------------------------------------------------------------------
(* The lines of a text, cut at once and without a cap *)

\* Where its lines end: at each LF, and at its end.
LineEnds == {i \in Bytes : text[i] = "LF" \/ i = Len(text)}

\* The bytes of the line that ends at e, and which line it is.
LineTo(e) == {i \in 1 .. e : \A j \in i .. (e - 1) : text[j] # "LF"}
LineNumber(e) == Cardinality({d \in LineEnds : d <= e})

\* No line has as many bytes before its LF as the cap.
LinesAreShort ==
    \A i \in Bytes : \E j \in i .. (i + MaxLineBytes - 1) : j \notin Bytes \/ text[j] = "LF"

\* What is no part of a line: an LF, and a CR that an LF or the end follows.
Terminators ==
    {i \in Bytes : \/ text[i] = "LF"
                   \/ text[i] = "CR" /\ (i = Len(text) \/ text[i + 1] = "LF")}

FullPieces == {p \in DOMAIN out : Len(out[p]) = MaxLineBytes}

\* "splitting it into lines" (stream.go:234): a text whose lines are shorter than the
\* cap comes out as its lines, one by one, wherever the reads cut it: inside a line,
\* between CR and LF, before the end of file or together with it.  A longer line is
\* "flushed as a fragment so memory stays bounded" (stream.go:237): the accumulator
\* never holds more than one read above the cap, and no piece has bytes of two lines.
\* The price is at most one more piece for each that is as long as the cap: a cap that
\* falls on a chunk boundary right before the LF adds an empty piece and nothing else.
LinesAreCut ==
    LET lines == Cardinality(LineEnds)
    IN  /\ Len(acc) < MaxLineBytes + ReadBufSize
        /\ \A p \in DOMAIN out : \A i, j \in DOMAIN out[p] :
              \A b \in out[p][i] .. out[p][j] : text[b] # "LF"
        /\ done => Len(out) \in lines .. (lines + Cardinality(FullPieces))
        /\ done /\ LinesAreShort =>
              /\ Len(out) = lines
              /\ \A e \in LineEnds : Range(out[LineNumber(e)]) = LineTo(e) \ Terminators

\* The pieces of the text: the lines emitted, the line under way, and the rest of the read.
Pieces == Append(Append(out, acc), chunk)

\* Whatever the cap, the reads and the errors, every byte is kept once and in its
\* place, until drainLines returns and after; only terminators go, and an LF always.
NothingIsLost ==
    /\ \A p, q \in DOMAIN Pieces : \A i \in DOMAIN Pieces[p], j \in DOMAIN Pieces[q] :
          p < q \/ (p = q /\ i < j) => Pieces[p][i] < Pieces[q][j]
    /\ \A b \in Bytes \ Terminators : \E p \in DOMAIN Pieces : \E i \in DOMAIN Pieces[p] :
          Pieces[p][i] = b
    /\ \A p \in DOMAIN out : \A i \in DOMAIN out[p] : text[out[p][i]] # "LF"
=============================================================================
