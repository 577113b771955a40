-------------------------- MODULE LineSplitProofs ---------------------------
(***************************************************************************)
(* No byte of a stream is lost, doubled or moved by drainLines, the line   *)
(* it holds in memory is bounded, and what it emits is the lines of the    *)
(* text, for any cap, any size of the read buffer and any stream.          *)
(***************************************************************************)
EXTENDS LineSplit, FiniteSetTheorems, SequenceTheorems, TLAPS

-----------------------------------------------------------------------------
(* Runs *)

\* Consecutive positions, from c + 1 on.
Run(s, c) == s \in Seq(Nat) /\ \A i \in 1 .. Len(s) : s[i] = c + i

\* A part of a run is one.
LEMMA PartOfRun ==
    ASSUME NEW s, NEW c \in Int, Run(s, c),
           NEW m \in Nat \ {0}, NEW n \in Nat, m <= n + 1, n <= Len(s)
    PROVE  Run(SubSeq(s, m, n), c + (m - 1)) /\ Len(SubSeq(s, m, n)) = n - m + 1
  <1>1. /\ s \in Seq(Nat) /\ Len(s) \in Nat
        /\ \A i \in 1 .. Len(s) : s[i] = c + i /\ s[i] \in Nat
    BY DEF Run
  <1>2. \A i \in m .. n : i \in 1 .. Len(s)
    BY <1>1
  <1>3. \A i \in m .. n : s[i] \in Nat
    BY <1>1, <1>2
  <1>4. /\ SubSeq(s, m, n) \in Seq(Nat)
        /\ Len(SubSeq(s, m, n)) = IF m <= n THEN n - m + 1 ELSE 0
        /\ \A i \in 1 .. (n - m + 1) : SubSeq(s, m, n)[i] = s[m + i - 1]
    BY <1>3, SubSeqProperties
  <1>5. ASSUME NEW i \in 1 .. (n - m + 1) PROVE SubSeq(s, m, n)[i] = c + (m - 1) + i
    <2>1. m + i - 1 \in 1 .. Len(s)
      BY <1>1
    <2>2. s[m + i - 1] = c + (m + i - 1)
      BY <1>1, <2>1
    <2> QED BY <1>4, <2>2
  <1>6. Len(SubSeq(s, m, n)) = n - m + 1
    BY <1>4
  <1> QED BY <1>4, <1>5, <1>6 DEF Run

\* A run followed by the next one is one.
LEMMA JoinRuns ==
    ASSUME NEW s, NEW t, NEW c \in Int, Run(s, c), Run(t, c + Len(s))
    PROVE  Run(s \o t, c) /\ Len(s \o t) = Len(s) + Len(t)
  <1>1. /\ s \in Seq(Nat) /\ t \in Seq(Nat) /\ Len(s) \in Nat /\ Len(t) \in Nat
        /\ \A i \in 1 .. Len(s) : s[i] = c + i
        /\ \A i \in 1 .. Len(t) : t[i] = c + Len(s) + i
    BY DEF Run
  <1>2. /\ s \o t \in Seq(Nat) /\ Len(s \o t) = Len(s) + Len(t)
        /\ \A i \in 1 .. (Len(s) + Len(t)) :
             (s \o t)[i] = IF i <= Len(s) THEN s[i] ELSE t[i - Len(s)]
    BY <1>1, ConcatProperties
  <1>3. ASSUME NEW i \in 1 .. (Len(s) + Len(t)) PROVE (s \o t)[i] = c + i
    <2>1. CASE i <= Len(s)
      BY <1>1, <1>2, <2>1
    <2>2. CASE i > Len(s)
      <3>1. i - Len(s) \in 1 .. Len(t)
        BY <1>1, <2>2
      <3>2. t[i - Len(s)] = c + Len(s) + (i - Len(s))
        BY <1>1, <3>1
      <3> QED BY <1>1, <1>2, <2>2, <3>2
    <2> QED BY <1>1, <2>1, <2>2
  <1> QED BY <1>2, <1>3 DEF Run

\* A run without its last byte.
LEMMA FrontOf ==
    ASSUME NEW s, NEW c \in Int, Run(s, c), s # <<>>
    PROVE  /\ Run(Front(s), c) /\ Len(Front(s)) = Len(s) - 1
           /\ Len(s) \in Nat \ {0} /\ Last(s) = c + Len(s)
  <1> DEFINE n == Len(s) - 1
  <1>1. s \in Seq(Nat) /\ Len(s) \in Nat \ {0} /\ s[Len(s)] = c + Len(s)
    BY EmptySeq DEF Run
  <1>2. n \in Nat /\ 1 <= n + 1 /\ n <= Len(s) /\ c + (1 - 1) = c /\ n - 1 + 1 = n
    BY <1>1
  <1>3. Front(s) = SubSeq(s, 1, n) /\ Last(s) = s[Len(s)]
    BY DEF Front, Last
  <1> HIDE DEF n
  <1>4. Run(SubSeq(s, 1, n), c + (1 - 1)) /\ Len(SubSeq(s, 1, n)) = n - 1 + 1
    BY <1>2, PartOfRun
  <1> QED BY <1>1, <1>2, <1>3, <1>4 DEF n

-----------------------------------------------------------------------------
(* Pieces of a stream *)

\* The pieces hold none but the first c bytes.
Within(o, c) == \A p \in DOMAIN o : \A i \in DOMAIN o[p] : o[p][i] \in 1 .. c

Ordered(o) ==
    \A p, q \in DOMAIN o : \A i \in DOMAIN o[p], j \in DOMAIN o[q] :
       p < q \/ (p = q /\ i < j) => o[p][i] < o[q][j]

Holds(o, b) == \E p \in DOMAIN o : \E i \in DOMAIN o[p] : o[p][i] = b

\* No piece has bytes of two lines.
OneLine(t, o) ==
    \A p \in DOMAIN o : \A i, j \in DOMAIN o[p] : \A b \in o[p][i] .. o[p][j] : t[b] # "LF"

\* A byte that may be missing: with the whole text read (d), a CR at its end too.
Gone(t, b, d) ==
    \/ t[b] = "LF"
    \/ t[b] = "CR" /\ ((b < Len(t) /\ t[b + 1] = "LF") \/ (d /\ b = Len(t)))

Kept(t, o, c, d) == \A b \in 1 .. c : Gone(t, b, d) \/ Holds(o, b)

\* A piece made of the next bytes of the stream.
LEMMA AppendPiece ==
    ASSUME NEW o \in Seq(Seq(Nat)), NEW e, NEW c \in Nat, NEW n \in Nat,
           Run(e, c), Len(e) <= n,
           Within(o, c), Ordered(o)
    PROVE  /\ Append(o, e) \in Seq(Seq(Nat))
           /\ Within(Append(o, e), c + n) /\ Ordered(Append(o, e))
           /\ \A b : Holds(o, b) => Holds(Append(o, e), b)
           /\ \A b \in (c + 1) .. (c + Len(e)) : Holds(Append(o, e), b)
           /\ \A t : OneLine(t, o) /\ (\A i \in 1 .. Len(e) : t[c + i] # "LF")
                    => OneLine(t, Append(o, e))
  <1> DEFINE a == Append(o, e)
  <1> DEFINE m == Len(o) + 1
  <1>0. e \in Seq(Nat) /\ \A i \in 1 .. Len(e) : e[i] = c + i
    BY DEF Run
  <1>1. /\ a \in Seq(Seq(Nat)) /\ m \in Nat /\ Len(o) \in Nat /\ DOMAIN o = 1 .. Len(o)
        /\ DOMAIN a = 1 .. m /\ m \in DOMAIN a /\ a[m] = e
        /\ \A p \in DOMAIN o : a[p] = o[p] /\ p \in DOMAIN a /\ p < m /\ p \in Nat
        /\ \A p \in DOMAIN a : p \in DOMAIN o \/ p = m
    BY <1>0
  <1>2. /\ \A p \in DOMAIN o : o[p] \in Seq(Nat)
        /\ DOMAIN e = 1 .. Len(e) /\ Len(e) \in Nat
    BY <1>0
  <1>3. ASSUME NEW p \in DOMAIN o, NEW i \in DOMAIN o[p]
        PROVE  o[p][i] \in 1 .. c
    BY DEF Within
  <1> HIDE DEF a, m
  <1>4. Within(a, c + n)
    <2>1. ASSUME NEW p \in DOMAIN a, NEW i \in DOMAIN a[p]
          PROVE  a[p][i] \in 1 .. (c + n)
      <3>1. CASE p \in DOMAIN o
        <4>1. a[p] = o[p] /\ o[p][i] \in 1 .. c
          BY <1>1, <1>3, <3>1, <2>1
        <4> QED BY <4>1
      <3>2. CASE p = m
        <4>1. i \in 1 .. Len(e) /\ a[p][i] = c + i
          BY <1>0, <1>1, <1>2, <3>2, <2>1
        <4> QED BY <4>1, <1>2
      <3> QED BY <1>1, <3>1, <3>2
    <2> QED BY <2>1 DEF Within
  <1>5. Ordered(a)
    <2>1. ASSUME NEW p \in DOMAIN a, NEW q \in DOMAIN a,
                 NEW i \in DOMAIN a[p], NEW j \in DOMAIN a[q],
                 p < q \/ (p = q /\ i < j)
          PROVE  a[p][i] < a[q][j]
      <3>1. CASE p \in DOMAIN o /\ q \in DOMAIN o
        <4>1. a[p] = o[p] /\ a[q] = o[q]
          BY <1>1, <3>1
        <4> QED BY <4>1, <3>1, <2>1 DEF Ordered
      <3>2. CASE p \in DOMAIN o /\ q = m
        <4>1. a[p][i] \in 1 .. c
          BY <1>1, <1>3, <3>2, <2>1
        <4>2. j \in 1 .. Len(e) /\ a[q][j] = c + j
          BY <1>0, <1>1, <1>2, <3>2, <2>1
        <4> QED BY <4>1, <4>2
      <3>3. CASE p = m /\ q = m
        <4>1. /\ i \in 1 .. Len(e) /\ a[p][i] = c + i
              /\ j \in 1 .. Len(e) /\ a[q][j] = c + j
          BY <1>0, <1>1, <1>2, <3>3, <2>1
        <4> QED BY <4>1, <1>1, <3>3, <2>1
      <3>4. CASE p = m /\ q \in DOMAIN o
        BY <1>1, <3>4, <2>1
      <3> QED BY <1>1, <3>1, <3>2, <3>3, <3>4
    <2> QED BY <2>1 DEF Ordered
  <1>6. ASSUME NEW b, Holds(o, b) PROVE Holds(a, b)
    BY <1>1, <1>6 DEF Holds
  <1>7. ASSUME NEW b \in (c + 1) .. (c + Len(e)) PROVE Holds(a, b)
    <2>1. b - c \in 1 .. Len(e) /\ c + (b - c) = b
      BY <1>2
    <2>2. e[b - c] = b
      BY <1>0, <2>1
    <2>3. m \in DOMAIN a /\ b - c \in DOMAIN a[m] /\ a[m][b - c] = b
      BY <1>1, <1>2, <2>1, <2>2
    <2> QED BY <2>3 DEF Holds
  <1>8. ASSUME NEW t, OneLine(t, o), \A i \in 1 .. Len(e) : t[c + i] # "LF"
        PROVE  OneLine(t, a)
    <2>1. ASSUME NEW p \in DOMAIN a, NEW i \in DOMAIN a[p], NEW j \in DOMAIN a[p],
                 NEW b \in a[p][i] .. a[p][j]
          PROVE  t[b] # "LF"
      <3>1. CASE p \in DOMAIN o
        <4>1. a[p] = o[p]
          BY <1>1, <3>1
        <4> QED BY <4>1, <3>1, <2>1, <1>8 DEF OneLine
      <3>2. CASE p = m
        <4>1. /\ i \in 1 .. Len(e) /\ a[p][i] = c + i
              /\ j \in 1 .. Len(e) /\ a[p][j] = c + j
          BY <1>0, <1>1, <1>2, <3>2, <2>1
        <4>2. b - c \in 1 .. Len(e) /\ c + (b - c) = b
          BY <1>2, <4>1, <2>1
        <4>3. t[c + (b - c)] # "LF"
          BY <4>2, <1>8
        <4> QED BY <4>2, <4>3
      <3> QED BY <1>1, <3>1, <3>2
    <2> QED BY <2>1 DEF OneLine
  <1> QED BY <1>1, <1>4, <1>5, <1>6, <1>7, <1>8 DEF a

\* With it the pieces keep the n bytes, if those it leaves out may be missing.
LEMMA AppendKeeps ==
    ASSUME NEW o \in Seq(Seq(Nat)), NEW e, NEW c \in Nat, NEW n \in Nat,
           Run(e, c), Len(e) <= n,
           Within(o, c), Ordered(o), NEW t, NEW d, Kept(t, o, c, d),
           \A b \in (c + Len(e) + 1) .. (c + n) : Gone(t, b, d)
    PROVE  Kept(t, Append(o, e), c + n, d)
  <1>1. /\ \A b : Holds(o, b) => Holds(Append(o, e), b)
        /\ \A b \in (c + 1) .. (c + Len(e)) : Holds(Append(o, e), b)
    BY AppendPiece
  <1>2. Len(e) \in Nat
    BY DEF Run
  <1>3. ASSUME NEW b \in 1 .. (c + n) PROVE Gone(t, b, d) \/ Holds(Append(o, e), b)
    <2>1. CASE b \in 1 .. c
      BY <1>1, <2>1 DEF Kept
    <2>2. CASE b \in (c + 1) .. (c + Len(e))
      BY <1>1, <2>2
    <2>3. CASE b \in (c + Len(e) + 1) .. (c + n)
      BY <2>3
    <2> QED BY <1>2, <2>1, <2>2, <2>3
  <1> QED BY <1>3 DEF Kept

\* A line whose only LF is its last byte, or that ends with the text (d), loses its
\* terminator and nothing else.
LEMMA TrimmedLine ==
    ASSUME text \in Seq(Kinds), NEW line, NEW c \in Nat, NEW d \in BOOLEAN,
           Run(line, c), c + Len(line) <= Len(text),
           \A i \in 1 .. (Len(line) - 1) : text[c + i] # "LF",
           text[c + Len(line)] = "LF" \/ (d /\ c + Len(line) = Len(text))
    PROVE  /\ Run(TrimLineEnd(line), c) /\ Len(TrimLineEnd(line)) <= Len(line)
           /\ \A i \in 1 .. Len(TrimLineEnd(line)) :
                 text[c + i] # "LF" /\ ~Gone(text, c + i, d)
           /\ \A b \in (c + Len(TrimLineEnd(line)) + 1) .. (c + Len(line)) :
                 Gone(text, b, d)
  <1> DEFINE body == IF Ends(line, "LF") THEN Front(line) ELSE line
  <1> DEFINE e == IF Ends(body, "CR") THEN Front(body) ELSE body
  <1> DEFINE l == c + Len(line)
  <1>1. TrimLineEnd(line) = e
    BY DEF TrimLineEnd
  <1>2. Len(line) \in Nat /\ Len(text) \in Nat /\ l \in Nat /\ l <= Len(text)
    BY DEF Run
  <1>3. CASE line = <<>>
    <2>1. body = line
      BY <1>3 DEF Ends
    <2>2. e = line /\ Len(line) = 0
      BY <1>3, <2>1 DEF Ends
    <2> HIDE DEF e
    <2> QED BY <1>1, <1>2, <2>2
  <1>4. CASE line # <<>>
    <2>1. /\ Run(Front(line), c) /\ Len(Front(line)) = Len(line) - 1
          /\ Len(line) \in Nat \ {0} /\ Last(line) = l
      BY <1>4, FrontOf
    <2>2. Ends(line, "LF") <=> text[l] = "LF"
      BY <1>4, <2>1 DEF Ends
    <2>3. /\ Run(body, c) /\ Len(body) \in {Len(line) - 1, Len(line)}
          /\ Len(body) = Len(line) - 1 => text[l] = "LF"
          /\ Len(body) = Len(line) => text[l] # "LF" /\ d /\ l = Len(text)
      <3>1. CASE Ends(line, "LF")
        BY <2>1, <2>2, <3>1
      <3>2. CASE ~Ends(line, "LF")
        BY <2>1, <2>2, <3>2
      <3> QED BY <3>1, <3>2
    <2> HIDE DEF body
    <2>4. ASSUME NEW i \in 1 .. Len(body) PROVE text[c + i] # "LF"
      <3>1. i \in 1 .. (Len(line) - 1) \/ (i = Len(line) /\ Len(body) = Len(line))
        BY <1>2, <2>3
      <3> QED BY <2>3, <3>1 DEF l
    <2>5. ASSUME NEW b \in (c + Len(body) + 1) .. l PROVE text[b] = "LF"
      <3>1. Len(body) = Len(line) - 1 /\ b = l
        BY <1>2, <2>3 DEF l
      <3> QED BY <2>3, <3>1
    <2>6. Len(body) \in Nat /\ c + Len(body) <= Len(text)
      BY <1>2, <2>1, <2>3 DEF l
    <2>7. ASSUME NEW i \in 1 .. Len(body), i < Len(body) PROVE ~Gone(text, c + i, d)
      <3>1. /\ i + 1 \in 1 .. Len(body) /\ c + i + 1 = c + (i + 1)
            /\ c + i # Len(text)
        BY <1>2, <2>6, <2>7
      <3>2. text[c + i] # "LF" /\ text[c + (i + 1)] # "LF"
        BY <2>4, <3>1
      <3> QED BY <3>1, <3>2 DEF Gone
    <2>8. CASE ~Ends(body, "CR")
      <3>1. e = body
        BY <2>8
      <3>2. ASSUME NEW i \in 1 .. Len(body) PROVE ~Gone(text, c + i, d)
        <4>1. CASE i < Len(body)
          BY <2>7, <4>1
        <4>2. CASE i = Len(body)
          <5>1. body # <<>> /\ Len(body) # 0
            BY <2>6, <4>2
          <5>2. Last(body) = c + i
            <6>1. Last(body) = c + Len(body)
              <7>1. Run(body, c) /\ c \in Int /\ body # <<>>
                BY <2>3, <5>1
              <7> HIDE DEF e, l
              <7> QED BY <7>1, FrontOf
            <6> QED BY <4>2, <6>1
          <5>3. text[c + i] # "CR"
            BY <2>8, <5>1, <5>2 DEF Ends
          <5> QED BY <2>4, <5>3 DEF Gone
        <4> QED BY <2>6, <4>1, <4>2
      <3> HIDE DEF e
      <3> QED BY <1>1, <1>2, <2>3, <2>4, <2>5, <3>1, <3>2 DEF Gone, l
    <2>9. CASE Ends(body, "CR")
      <3> DEFINE k == c + Len(body)
      <3>1. body # <<>> /\ text[Last(body)] = "CR" /\ e = Front(body)
        BY <2>9 DEF Ends
      <3>2. /\ Run(Front(body), c) /\ Len(Front(body)) = Len(body) - 1
            /\ Len(body) \in Nat \ {0} /\ Last(body) = k
        BY <2>3, <3>1, FrontOf
      <3>3. Gone(text, k, d)
        <4>1. CASE Len(body) = Len(line)
          BY <2>3, <3>1, <3>2, <4>1 DEF Gone, l
        <4>2. CASE Len(body) = Len(line) - 1
          <5>1. k + 1 = l /\ k < Len(text)
            BY <1>2, <3>2, <4>2 DEF l
          <5> QED BY <2>3, <3>1, <3>2, <4>2, <5>1 DEF Gone
        <4> QED BY <2>3, <4>1, <4>2
      <3>4. Run(e, c) /\ Len(e) = Len(body) - 1 /\ c + Len(e) + 1 = k /\ k \in Nat
        BY <3>1, <3>2
      <3> HIDE DEF e
      <3>5. ASSUME NEW b \in (c + Len(e) + 1) .. l PROVE Gone(text, b, d)
        <4> HIDE DEF k
        <4>1. b \in k .. l
          BY <3>4
        <4>2. b = k \/ b \in (k + 1) .. l
          BY <1>2, <3>4, <4>1
        <4> QED BY <2>5, <3>3, <4>2 DEF Gone, k
      <3>6. /\ Len(e) <= Len(line)
            /\ \A i \in 1 .. Len(e) : i \in 1 .. Len(body) /\ i < Len(body)
        BY <1>2, <2>3, <3>2, <3>4
      <3>7. \A i \in 1 .. Len(e) : text[c + i] # "LF" /\ ~Gone(text, c + i, d)
        BY <2>4, <2>7, <3>6
      <3> QED BY <1>1, <3>4, <3>5, <3>6, <3>7 DEF l
    <2> QED BY <2>8, <2>9
  <1> QED BY <1>3, <1>4

-----------------------------------------------------------------------------
(* What has been emitted of the first c bytes of t *)

Sound(t, o, c, d) ==
    /\ o \in Seq(Seq(Nat)) /\ Within(o, c) /\ Ordered(o)
    /\ OneLine(t, o) /\ Kept(t, o, c, d)

\* Emitting a run without an LF, of the next n bytes.
LEMMA EmitPiece ==
    ASSUME NEW t, NEW o, NEW e, NEW c \in Nat, NEW n \in Nat, NEW d,
           Sound(t, o, c, d), Run(e, c), Len(e) <= n,
           \A i \in 1 .. Len(e) : t[c + i] # "LF",
           \A b \in (c + Len(e) + 1) .. (c + n) : Gone(t, b, d)
    PROVE  Sound(t, Append(o, e), c + n, d)
  <1>1. /\ o \in Seq(Seq(Nat)) /\ Within(o, c) /\ Ordered(o)
        /\ OneLine(t, o) /\ Kept(t, o, c, d)
    BY DEF Sound
  <1>2. /\ Append(o, e) \in Seq(Seq(Nat))
        /\ Within(Append(o, e), c + n) /\ Ordered(Append(o, e))
        /\ OneLine(t, Append(o, e))
    BY <1>1, AppendPiece
  <1>3. Kept(t, Append(o, e), c + n, d)
    BY <1>1, AppendKeeps
  <1> QED BY <1>1, <1>2, <1>3 DEF Sound

\* Reading on, which happens only before drainLines has returned.
LEMMA ReadOn ==
    ASSUME NEW t \in Seq(Kinds), NEW new \in Seq(Kinds), NEW o, NEW c \in Nat,
           c <= Len(t), Sound(t, o, c, FALSE)
    PROVE  Sound(t \o new, o, c, FALSE)
  <1>1. /\ t \o new \in Seq(Kinds) /\ Len(t \o new) = Len(t) + Len(new)
        /\ Len(t) \in Nat /\ Len(new) \in Nat
        /\ \A i \in 1 .. Len(t) : (t \o new)[i] = t[i]
    BY ConcatProperties
  <1> DEFINE u == t \o new
  <1> HIDE DEF u
  <1>2. ASSUME NEW b \in 1 .. c, Gone(t, b, FALSE) PROVE Gone(u, b, FALSE)
    <2>1. b \in 1 .. Len(t) /\ (b < Len(t) => b + 1 \in 1 .. Len(t))
      BY <1>1
    <2> QED BY <1>1, <1>2, <2>1 DEF Gone, u
  <1>3. ASSUME NEW p \in DOMAIN o, NEW i \in DOMAIN o[p], NEW j \in DOMAIN o[p],
               NEW b \in o[p][i] .. o[p][j]
        PROVE  u[b] # "LF"
    <2>1. o[p][i] \in 1 .. c /\ o[p][j] \in 1 .. c /\ t[b] # "LF"
      BY DEF Sound, Within, OneLine
    <2>2. b \in 1 .. Len(t)
      BY <1>1, <2>1
    <2> QED BY <1>1, <2>1, <2>2 DEF u
  <1> QED BY <1>2, <1>3 DEF Sound, OneLine, Kept, u

-----------------------------------------------------------------------------
(* How many pieces the first c bytes of t have become *)

\* The last bytes of the lines that end among the first c: with the whole text read
\* (d), its last byte ends one.
Closed(t, c, d) == {i \in 1 .. c : t[i] = "LF" \/ (d /\ i = Len(t))}

\* The number of the line that ends at e, and what it keeps.
Number(t, c, d, e) == Cardinality({x \in Closed(t, c, d) : x <= e})
LineText(t, e, d) ==
    {b \in 1 .. e : (\A j \in b .. (e - 1) : t[j] # "LF") /\ ~Gone(t, b, d)}

Short(t) ==
    \A i \in 1 .. Len(t) : \E j \in i .. (i + MaxLineBytes - 1) :
       j \notin 1 .. Len(t) \/ t[j] = "LF"

Full(o) == {p \in DOMAIN o : Len(o[p]) = MaxLineBytes}

\* At least one piece for each line, one more when a part of the next line has been
\* emitted, and what is more than one has been emitted at the cap.
Counted(t, o, c, d) ==
    /\ Cardinality(Closed(t, c, d)) <= Len(o)
    /\ Len(o) <= Cardinality(Closed(t, c, d)) + Cardinality(Full(o))
    /\ ~d /\ c > 0 /\ t[c] # "LF" => Cardinality(Closed(t, c, d)) < Len(o)

\* Pieces that are the lines.
Cut(t, o, c, d) ==
    /\ Len(o) = Cardinality(Closed(t, c, d))
    /\ d \/ c = 0 \/ t[c] = "LF"
    /\ \A e \in Closed(t, c, d) : Range(o[Number(t, c, d, e)]) = LineText(t, e, d)

CutAs(t, o, c, d) == Counted(t, o, c, d) /\ (Short(t) => Cut(t, o, c, d))

\* The ends of lines are finitely many, and so are the lines up to each.
LEMMA ClosedIsFinite ==
    ASSUME NEW t, NEW c \in Nat, NEW d
    PROVE  /\ IsFiniteSet(Closed(t, c, d)) /\ Cardinality(Closed(t, c, d)) \in Nat
           /\ \A e \in Closed(t, c, d) :
                Number(t, c, d, e) \in 1 .. Cardinality(Closed(t, c, d))
  <1> DEFINE S == Closed(t, c, d)
  <1>1. IsFiniteSet(S) /\ Cardinality(S) \in Nat
    <2>1. IsFiniteSet(1 .. c) /\ S \in SUBSET (1 .. c)
      BY FS_Interval DEF Closed
    <2> HIDE DEF S
    <2>2. IsFiniteSet(S)
      BY <2>1, FS_Subset
    <2> QED BY <2>2, FS_CardinalityType
  <1>2. ASSUME NEW e \in S PROVE Number(t, c, d, e) \in 1 .. Cardinality(S)
    <2> DEFINE B == {x \in S : x <= e}
    <2>1. B \in SUBSET S /\ e \in B
      BY DEF Closed
    <2>2. Number(t, c, d, e) = Cardinality(B)
      BY DEF Number
    <2> HIDE DEF B, S
    <2>3. IsFiniteSet(B) /\ Cardinality(B) <= Cardinality(S)
      BY <1>1, <2>1, FS_Subset
    <2>4. Cardinality(B) \in Nat /\ Cardinality(B) # 0
      BY <2>1, <2>3, FS_CardinalityType, FS_EmptySet
    <2> QED BY <1>1, <2>2, <2>3, <2>4
  <1> QED BY <1>1, <1>2

\* A piece more is a full piece more if it is one.
LEMMA AppendFull ==
    ASSUME NEW o \in Seq(Seq(Nat)), NEW e \in Seq(Nat)
    PROVE  /\ Cardinality(Full(o)) \in Nat /\ Cardinality(Full(Append(o, e))) \in Nat
           /\ Cardinality(Full(o)) <= Cardinality(Full(Append(o, e)))
           /\ Len(e) = MaxLineBytes
                => Cardinality(Full(Append(o, e))) = Cardinality(Full(o)) + 1
  <1> DEFINE a == Append(o, e)
  <1> DEFINE m == Len(o) + 1
  <1> DEFINE F == Full(o)
  <1> DEFINE G == Full(a)
  <1>1. /\ m \in Nat /\ DOMAIN o = 1 .. Len(o) /\ Len(o) \in Nat
        /\ DOMAIN a = 1 .. m /\ a[m] = e
        /\ \A p \in 1 .. Len(o) : a[p] = o[p]
    OBVIOUS
  <1>2. F \in SUBSET (1 .. Len(o)) /\ m \notin F
    BY <1>1 DEF Full
  <1>3. IF Len(e) = MaxLineBytes THEN G = F \cup {m} ELSE G = F
    <2> HIDE DEF a, m
    <2>1. 1 .. m = (1 .. Len(o)) \cup {m} /\ m \notin 1 .. Len(o)
      BY <1>1 DEF m
    <2> QED BY <1>1, <2>1 DEF Full
  <1>4. IsFiniteSet(1 .. Len(o))
    BY <1>1, FS_Interval
  <1> HIDE DEF F, G, m
  <1>5. IsFiniteSet(F)
    BY <1>2, <1>4, FS_Subset
  <1>6. Cardinality(F) \in Nat /\ Cardinality(F \cup {m}) = Cardinality(F) + 1
    BY <1>2, <1>5, FS_CardinalityType, FS_AddElement
  <1>7. /\ Cardinality(F) \in Nat /\ Cardinality(G) \in Nat
        /\ Cardinality(F) <= Cardinality(G)
        /\ Len(e) = MaxLineBytes => Cardinality(G) = Cardinality(F) + 1
    <2>1. CASE Len(e) = MaxLineBytes
      <3>1. G = F \cup {m}
        BY <1>3, <2>1
      <3>2. Cardinality(G) = Cardinality(F) + 1
        BY <1>6, <3>1
      <3> QED BY <1>6, <3>2
    <2>2. CASE Len(e) # MaxLineBytes
      <3>1. Cardinality(G) = Cardinality(F)
        BY <1>3, <2>2
      <3> QED BY <1>6, <2>2, <3>1
    <2> QED BY <2>1, <2>2
  <1> QED BY <1>7 DEF F, G

\* What a line keeps does not depend on what follows its LF.
LEMMA SameLine ==
    ASSUME NEW t \in Seq(Kinds), NEW u \in Seq(Kinds), Len(t) <= Len(u),
           \A i \in 1 .. Len(t) : u[i] = t[i],
           NEW e \in 1 .. Len(t), t[e] = "LF", NEW d \in BOOLEAN, NEW f \in BOOLEAN
    PROVE  LineText(u, e, f) = LineText(t, e, d)
  <1>1. Len(t) \in Nat /\ Len(u) \in Nat
    OBVIOUS
  <1>2. ASSUME NEW b \in 1 .. e PROVE Gone(u, b, f) <=> Gone(t, b, d)
    <2>1. b \in 1 .. Len(t)
      BY <1>1
    <2>2. CASE b = e
      BY <1>1, <2>1, <2>2 DEF Gone
    <2>3. CASE b < e
      <3>1. /\ b + 1 \in 1 .. Len(t) /\ b < Len(t) /\ b < Len(u)
            /\ b # Len(t) /\ b # Len(u)
        BY <1>1, <2>3
      <3>2. u[b] = t[b] /\ u[b + 1] = t[b + 1]
        BY <2>1, <3>1
      <3> QED BY <3>1, <3>2 DEF Gone
    <2> QED BY <2>2, <2>3
  <1>3. ASSUME NEW b \in 1 .. e, NEW j \in b .. (e - 1) PROVE u[j] = t[j]
    BY <1>1
  <1> QED BY <1>2, <1>3 DEF LineText

\* Reading on ends no line before c.
LEMMA ReadOnCut ==
    ASSUME NEW t \in Seq(Kinds), NEW new \in Seq(Kinds), NEW o, NEW c \in Nat,
           c <= Len(t), CutAs(t, o, c, FALSE)
    PROVE  CutAs(t \o new, o, c, FALSE)
  <1> DEFINE u == t \o new
  <1>1. /\ u \in Seq(Kinds) /\ Len(u) = Len(t) + Len(new)
        /\ Len(t) \in Nat /\ Len(new) \in Nat /\ Len(t) <= Len(u)
        /\ \A i \in 1 .. Len(t) : u[i] = t[i]
    BY ConcatProperties
  <1> HIDE DEF u
  <1>2. \A i \in 1 .. c : i \in 1 .. Len(t) /\ u[i] = t[i]
    BY <1>1
  <1>3. Closed(u, c, FALSE) = Closed(t, c, FALSE)
    BY <1>2 DEF Closed
  <1>4. \A e : Number(u, c, FALSE, e) = Number(t, c, FALSE, e)
    BY <1>3 DEF Number
  <1>5. c > 0 => u[c] = t[c]
    BY <1>2
  <1>6. Counted(u, o, c, FALSE)
    BY <1>3, <1>5 DEF CutAs, Counted
  <1>7. ASSUME Short(u) PROVE Short(t)
    <2>1. ASSUME NEW i \in 1 .. Len(t)
          PROVE  \E j \in i .. (i + MaxLineBytes - 1) : j \notin 1 .. Len(t) \/ t[j] = "LF"
      <3>1. i \in 1 .. Len(u)
        BY <1>1
      <3>2. PICK j \in i .. (i + MaxLineBytes - 1) : j \notin 1 .. Len(u) \/ u[j] = "LF"
        BY <1>7, <3>1 DEF Short
      <3>3. j \notin 1 .. Len(t) \/ t[j] = "LF"
        BY <1>1, <3>2
      <3> QED BY <3>3
    <2> QED BY <2>1 DEF Short
  <1>8. ASSUME Short(u) PROVE Cut(u, o, c, FALSE)
    <2>1. Cut(t, o, c, FALSE)
      BY <1>7, <1>8 DEF CutAs
    <2>2. ASSUME NEW e \in Closed(t, c, FALSE)
          PROVE  LineText(u, e, FALSE) = LineText(t, e, FALSE)
      <3>1. e \in 1 .. Len(t) /\ t[e] = "LF"
        BY <1>2 DEF Closed
      <3>2. FALSE \in BOOLEAN
        OBVIOUS
      <3> QED BY <1>1, <3>1, <3>2, SameLine
    <2>3. /\ Len(o) = Cardinality(Closed(u, c, FALSE))
          /\ FALSE \/ c = 0 \/ u[c] = "LF"
      <3>1. /\ Len(o) = Cardinality(Closed(t, c, FALSE))
            /\ c = 0 \/ t[c] = "LF"
        BY <2>1 DEF Cut
      <3>2. c = 0 \/ u[c] = "LF"
        BY <1>5, <3>1
      <3> QED BY <1>3, <3>1, <3>2
    <2>4. ASSUME NEW e \in Closed(u, c, FALSE)
          PROVE  Range(o[Number(u, c, FALSE, e)]) = LineText(u, e, FALSE)
      <3>1. e \in Closed(t, c, FALSE)
        BY <1>3
      <3>2. Range(o[Number(t, c, FALSE, e)]) = LineText(t, e, FALSE)
        BY <2>1, <3>1 DEF Cut
      <3> QED BY <1>4, <2>2, <3>1, <3>2
    <2> QED BY <2>3, <2>4 DEF Cut
  <1> QED BY <1>6, <1>8 DEF CutAs, u

\* A piece that takes the rest of a line ends one line more.
LEMMA EmitLineCut ==
    ASSUME NEW t \in Seq(Kinds), NEW o \in Seq(Seq(Nat)), NEW e,
           NEW c \in Nat, NEW n \in Nat \ {0}, NEW d \in BOOLEAN,
           CutAs(t, o, c, FALSE), Run(e, c), Len(e) <= n, c + n <= Len(t),
           \A i \in 1 .. (n - 1) : t[c + i] # "LF",
           t[c + n] = "LF" \/ (d /\ c + n = Len(t)),
           \A i \in 1 .. Len(e) : ~Gone(t, c + i, d),
           \A b \in (c + Len(e) + 1) .. (c + n) : Gone(t, b, d)
    PROVE  CutAs(t, Append(o, e), c + n, d)
  <1> DEFINE l == c + n
  <1> DEFINE a == Append(o, e)
  <1> DEFINE S == Closed(t, c, FALSE)
  <1> DEFINE k == Cardinality(S)
  <1>1. /\ l \in Nat /\ l > 0 /\ c < l /\ l <= Len(t) /\ Len(t) \in Nat /\ Len(o) \in Nat
        /\ e \in Seq(Nat) /\ Len(e) \in Nat /\ \A i \in 1 .. Len(e) : e[i] = c + i
    BY DEF Run
  <1>2. Closed(t, l, d) = S \cup {l} /\ l \notin S
    <2>1. ASSUME NEW i \in 1 .. l, i \notin 1 .. c, i # l
          PROVE  t[i] # "LF" /\ i # Len(t)
      <3>1. i - c \in 1 .. (n - 1) /\ c + (i - c) = i /\ i # Len(t)
        BY <1>1, <2>1
      <3>2. t[c + (i - c)] # "LF"
        BY <3>1
      <3> QED BY <3>1, <3>2
    <2>2. \A i \in 1 .. c : i \in 1 .. l /\ i # l /\ i # Len(t)
      BY <1>1
    <2>3. l \in 1 .. l /\ l \notin 1 .. c /\ (t[l] = "LF" \/ (d /\ l = Len(t)))
      BY <1>1
    <2> HIDE DEF l
    <2> QED BY <2>1, <2>2, <2>3 DEF Closed
  <1>3. IsFiniteSet(S) /\ k \in Nat /\ Cardinality(S \cup {l}) = k + 1
    <2>1. IsFiniteSet(S) /\ k \in Nat
      BY ClosedIsFinite
    <2> HIDE DEF S, l
    <2> QED BY <1>2, <2>1, FS_AddElement
  <1>4. Cardinality(Closed(t, l, d)) = k + 1
    BY <1>2, <1>3
  <1>5. /\ a \in Seq(Seq(Nat)) /\ Len(a) = Len(o) + 1 /\ a[Len(o) + 1] = e
        /\ \A p \in 1 .. Len(o) : a[p] = o[p]
    BY <1>1
  <1>6. Counted(t, a, l, d)
    <2>1. /\ Cardinality(Full(o)) \in Nat /\ Cardinality(Full(a)) \in Nat
          /\ Cardinality(Full(o)) <= Cardinality(Full(a))
      BY <1>1, AppendFull
    <2>2. k <= Len(o) /\ Len(o) <= k + Cardinality(Full(o))
      BY DEF CutAs, Counted
    <2>3. d \/ t[l] = "LF"
      OBVIOUS
    <2> HIDE DEF a, k, l
    <2>4. k + 1 <= Len(a) /\ Len(a) <= k + 1 + Cardinality(Full(a))
      BY <1>1, <1>3, <1>5, <2>1, <2>2
    <2> QED BY <1>4, <2>3, <2>4 DEF Counted
  <1>7. ASSUME Short(t) PROVE Cut(t, a, l, d)
    <2>1. Cut(t, o, c, FALSE)
      BY <1>7 DEF CutAs
    <2>2. Len(o) = k /\ (c = 0 \/ t[c] = "LF")
      BY <2>1 DEF Cut
    <2>3. ASSUME NEW x \in S PROVE Range(a[Number(t, l, d, x)]) = LineText(t, x, d)
      <3>1. x \in 1 .. c /\ t[x] = "LF"
        BY DEF Closed
      <3>2. x \in 1 .. Len(t) /\ ~(l <= x)
        BY <1>1, <3>1
      <3>3. {y \in Closed(t, l, d) : y <= x} = {y \in S : y <= x}
        <4> HIDE DEF S, l
        <4> QED BY <1>2, <3>2
      <3>4. Number(t, l, d, x) = Number(t, c, FALSE, x)
        BY <3>3 DEF Number
      <3>5. Number(t, c, FALSE, x) \in 1 .. Len(o)
        BY <2>2, ClosedIsFinite
      <3>6. a[Number(t, l, d, x)] = o[Number(t, c, FALSE, x)]
        <4> HIDE DEF a
        <4> QED BY <1>5, <3>4, <3>5
      <3>7. LineText(t, x, d) = LineText(t, x, FALSE)
        <4>1. /\ FALSE \in BOOLEAN /\ Len(t) <= Len(t)
              /\ \A i \in 1 .. Len(t) : t[i] = t[i]
          BY <1>1
        <4> QED BY <3>1, <3>2, <4>1, SameLine
      <3>8. Range(o[Number(t, c, FALSE, x)]) = LineText(t, x, FALSE)
        BY <2>1 DEF Cut
      <3> QED BY <3>6, <3>7, <3>8
    <2>4. Range(a[Number(t, l, d, l)]) = LineText(t, l, d)
      <3>1. a[Number(t, l, d, l)] = e
        <4>1. \A y \in Closed(t, l, d) : y <= l
          BY <1>1 DEF Closed
        <4>2. Number(t, l, d, l) = Cardinality(Closed(t, l, d))
          <5>1. {y \in Closed(t, l, d) : y <= l} = Closed(t, l, d)
            BY <4>1
          <5> QED BY <5>1 DEF Number
        <4>3. Number(t, l, d, l) = Len(o) + 1
          BY <1>4, <2>2, <4>2
        <4> HIDE DEF a
        <4> QED BY <1>5, <4>3
      <3>2. LineText(t, l, d) = {b \in (c + 1) .. l : ~Gone(t, b, d)}
        <4>1. ASSUME NEW b \in 1 .. l
              PROVE  b \in (c + 1) .. l <=> \A j \in b .. (l - 1) : t[j] # "LF"
          <5>1. CASE b \in (c + 1) .. l
            <6>1. ASSUME NEW j \in b .. (l - 1) PROVE t[j] # "LF"
              <7>1. j - c \in 1 .. (n - 1) /\ c + (j - c) = j
                BY <1>1, <5>1, <6>1
              <7>2. t[c + (j - c)] # "LF"
                BY <7>1
              <7> QED BY <7>1, <7>2
            <6> QED BY <5>1, <6>1
          <5>2. CASE b \notin (c + 1) .. l
            <6>1. c > 0 /\ c \in b .. (l - 1)
              BY <1>1, <5>2, <4>1
            <6> QED BY <2>2, <5>2, <6>1
          <5> QED BY <5>1, <5>2
        <4>2. (c + 1) .. l \subseteq 1 .. l
          BY <1>1
        <4> HIDE DEF l
        <4> QED BY <4>1, <4>2 DEF LineText
      <3>3. Range(e) = {b \in (c + 1) .. l : ~Gone(t, b, d)}
        <4>1. Range(e) = {e[i] : i \in 1 .. Len(e)}
          BY <1>1 DEF Range
        <4>2. ASSUME NEW i \in 1 .. Len(e)
              PROVE  e[i] \in (c + 1) .. l /\ ~Gone(t, e[i], d)
          BY <1>1
        <4>3. ASSUME NEW b \in (c + 1) .. l, ~Gone(t, b, d)
              PROVE  \E i \in 1 .. Len(e) : e[i] = b
          <5>1. b \notin (c + Len(e) + 1) .. l
            BY <4>3
          <5>2. b - c \in 1 .. Len(e) /\ c + (b - c) = b
            BY <1>1, <5>1
          <5>3. e[b - c] = b
            BY <1>1, <5>2
          <5> QED BY <5>2, <5>3
        <4> HIDE DEF l
        <4>4. ASSUME NEW b PROVE b \in Range(e) <=> b \in (c + 1) .. l /\ ~Gone(t, b, d)
          <5>1. CASE b \in Range(e)
            <6>1. PICK i \in 1 .. Len(e) : b = e[i]
              BY <4>1, <5>1
            <6> QED BY <4>2, <5>1, <6>1
          <5>2. CASE b \in (c + 1) .. l /\ ~Gone(t, b, d)
            <6>1. PICK i \in 1 .. Len(e) : b = e[i]
              BY <4>3, <5>2
            <6> QED BY <4>1, <5>2, <6>1
          <5> QED BY <5>1, <5>2
        <4> QED BY <4>4
      <3> QED BY <3>1, <3>2, <3>3
    <2>5. /\ Len(a) = Cardinality(Closed(t, l, d))
          /\ d \/ l = 0 \/ t[l] = "LF"
      <3>1. d \/ t[l] = "LF"
        OBVIOUS
      <3> HIDE DEF a, k, l
      <3> QED BY <1>4, <1>5, <2>2, <3>1
    <2> HIDE DEF a, S, l
    <2>6. ASSUME NEW x \in Closed(t, l, d)
          PROVE  Range(a[Number(t, l, d, x)]) = LineText(t, x, d)
      BY <1>2, <2>3, <2>4
    <2> QED BY <2>5, <2>6 DEF Cut
  <1> HIDE DEF a, l
  <1>8. CutAs(t, a, l, d)
    BY <1>6, <1>7 DEF CutAs
  <1> QED BY <1>8 DEF a, l

\* A piece as long as the cap ends no line.
LEMMA FragmentCut ==
    ASSUME NEW t \in Seq(Kinds), NEW o \in Seq(Seq(Nat)), NEW e, NEW c \in Nat,
           CutAs(t, o, c, FALSE), Run(e, c), Len(e) = MaxLineBytes,
           c + MaxLineBytes <= Len(t), \A i \in 1 .. MaxLineBytes : t[c + i] # "LF"
    PROVE  CutAs(t, Append(o, e), c + MaxLineBytes, FALSE)
  <1> DEFINE n == MaxLineBytes
  <1> DEFINE l == c + n
  <1> DEFINE a == Append(o, e)
  <1> DEFINE k == Cardinality(Closed(t, c, FALSE))
  <1>1. /\ n \in Nat \ {0} /\ l \in Nat /\ c < l /\ Len(t) \in Nat /\ Len(o) \in Nat
        /\ e \in Seq(Nat) /\ k \in Nat
    <2>1. k \in Nat
      BY ClosedIsFinite
    <2> HIDE DEF k
    <2> QED BY <2>1, SplitAssumption DEF Run
  <1>2. ASSUME NEW i \in (c + 1) .. l PROVE i \in 1 .. Len(t) /\ t[i] # "LF"
    <2>1. i - c \in 1 .. n /\ c + (i - c) = i /\ i \in 1 .. Len(t)
      BY <1>1
    <2>2. t[c + (i - c)] # "LF"
      BY <2>1
    <2> QED BY <2>1, <2>2
  <1>3. Closed(t, l, FALSE) = Closed(t, c, FALSE)
    <2>1. \A i \in 1 .. l : i \in 1 .. c \/ i \in (c + 1) .. l
      BY <1>1
    <2>2. 1 .. c \subseteq 1 .. l
      BY <1>1
    <2> HIDE DEF l
    <2> QED BY <1>2, <2>1, <2>2 DEF Closed
  <1>4. Counted(t, a, l, FALSE)
    <2>1. /\ Cardinality(Full(o)) \in Nat /\ Cardinality(Full(a)) \in Nat
          /\ Cardinality(Full(a)) = Cardinality(Full(o)) + 1
      BY <1>1, AppendFull
    <2>2. k <= Len(o) /\ Len(o) <= k + Cardinality(Full(o))
      BY DEF CutAs, Counted
    <2>3. Len(a) = Len(o) + 1
      OBVIOUS
    <2> HIDE DEF a, k, l
    <2>4. k <= Len(a) /\ Len(a) <= k + Cardinality(Full(a)) /\ k < Len(a)
      BY <1>1, <2>1, <2>2, <2>3
    <2> QED BY <1>3, <2>4 DEF Counted, k
  <1>5. ~Short(t)
    <2>1. /\ c + 1 \in 1 .. Len(t)
          /\ \A j \in (c + 1) .. (c + 1 + n - 1) : j \in (c + 1) .. l
      BY <1>1
    <2> QED BY <1>2, <2>1 DEF Short
  <1> HIDE DEF a, l
  <1>6. CutAs(t, a, l, FALSE)
    BY <1>4, <1>5 DEF CutAs
  <1> QED BY <1>6 DEF a, l

\* When the text ends after an LF, or in a line cut at the cap, nothing is left to emit.
LEMMA EndCut ==
    ASSUME NEW t \in Seq(Kinds), NEW o \in Seq(Seq(Nat)), CutAs(t, o, Len(t), FALSE)
    PROVE  CutAs(t, o, Len(t), TRUE)
  <1> DEFINE c == Len(t)
  <1> DEFINE S == Closed(t, c, FALSE)
  <1> DEFINE U == Closed(t, c, TRUE)
  <1> DEFINE k == Cardinality(S)
  <1>1. /\ c \in Nat /\ Len(o) \in Nat /\ k \in Nat /\ IsFiniteSet(S)
        /\ Cardinality(Full(o)) \in Nat
    <2>1. c \in Nat /\ Len(o) \in Nat /\ <<>> \in Seq(Nat)
      OBVIOUS
    <2>2. Cardinality(Full(o)) \in Nat
      BY <2>1, AppendFull
    <2> HIDE DEF c
    <2>3. k \in Nat /\ IsFiniteSet(S)
      BY <2>1, ClosedIsFinite
    <2> QED BY <2>1, <2>2, <2>3
  <1>2. /\ k <= Len(o) /\ Len(o) <= k + Cardinality(Full(o))
        /\ c > 0 /\ t[c] # "LF" => k < Len(o)
    BY DEF CutAs, Counted
  <1>3. c = 0 \/ t[c] = "LF" => U = S
    BY <1>1 DEF Closed
  <1>4. c > 0 /\ t[c] # "LF" => U = S \cup {c} /\ c \notin S
    <2>1. c > 0 => c \in 1 .. c
      BY <1>1
    <2> QED BY <2>1 DEF Closed
  <1> HIDE DEF c, S, U
  <1>5. Cardinality(U) <= Len(o) /\ Len(o) <= Cardinality(U) + Cardinality(Full(o))
    <2>1. CASE c = 0 \/ t[c] = "LF"
      BY <1>2, <1>3, <2>1
    <2>2. CASE ~(c = 0 \/ t[c] = "LF")
      <3>1. c > 0 /\ t[c] # "LF"
        BY <1>1, <2>2
      <3>2. Cardinality(U) = k + 1
        BY <1>1, <1>4, <3>1, FS_AddElement
      <3>3. k < Len(o)
        BY <1>2, <3>1
      <3> HIDE DEF k
      <3> QED BY <1>1, <1>2, <3>2, <3>3
    <2> QED BY <2>1, <2>2
  <1>6. Counted(t, o, c, TRUE)
    BY <1>5 DEF Counted, U
  <1>7. ASSUME Short(t) PROVE Cut(t, o, c, TRUE)
    <2>1. Cut(t, o, c, FALSE)
      BY <1>7 DEF CutAs, c
    <2>2. c = 0 \/ t[c] = "LF"
      BY <2>1 DEF Cut
    <2>3. Closed(t, c, TRUE) = Closed(t, c, FALSE)
      BY <1>3, <2>2 DEF S, U
    <2>4. Len(o) = Cardinality(Closed(t, c, TRUE))
      BY <2>1, <2>3 DEF Cut
    <2>5. ASSUME NEW e \in Closed(t, c, TRUE)
          PROVE  Range(o[Number(t, c, TRUE, e)]) = LineText(t, e, TRUE)
      <3>1. e \in Closed(t, c, FALSE)
        BY <2>3
      <3>2. e \in 1 .. Len(t) /\ t[e] = "LF"
        BY <3>1 DEF Closed, c
      <3>3. LineText(t, e, TRUE) = LineText(t, e, FALSE)
        <4>1. /\ FALSE \in BOOLEAN /\ TRUE \in BOOLEAN /\ Len(t) <= Len(t)
              /\ \A i \in 1 .. Len(t) : t[i] = t[i]
          BY <1>1 DEF c
        <4> QED BY <3>2, <4>1, SameLine
      <3>4. Number(t, c, TRUE, e) = Number(t, c, FALSE, e)
        BY <2>3 DEF Number
      <3>5. Range(o[Number(t, c, FALSE, e)]) = LineText(t, e, FALSE)
        BY <2>1, <3>1 DEF Cut
      <3> QED BY <3>3, <3>4, <3>5
    <2> QED BY <2>4, <2>5 DEF Cut
  <1>8. CutAs(t, o, c, TRUE)
    BY <1>6, <1>7 DEF CutAs
  <1> QED BY <1>8 DEF c

-----------------------------------------------------------------------------
(* The invariant *)

\* The first byte that is in no line emitted, less one.
Start == Len(text) - Len(chunk) - Len(acc)

ShapeInv ==
    /\ text \in Seq(Kinds) /\ Len(text) <= MaxText
    /\ ended \in BOOLEAN /\ done \in BOOLEAN

\* The line under way and the rest of the read are the last bytes of the text, and
\* what is left of a line has no LF.
WindowInv ==
    /\ Start \in Nat /\ Run(acc, Start) /\ Run(chunk, Start + Len(acc))
    /\ \A i \in 1 .. Len(acc) : text[Start + i] # "LF"

EmittedInv == Sound(text, out, Start, done)

\* And their number and their bytes are those of the lines.
CutInv == CutAs(text, out, Start, done)

SizeInv == Len(acc) + Len(chunk) < MaxLineBytes + ReadBufSize

EndInv == done => ended /\ acc = <<>> /\ chunk = <<>>

SplitInv == ShapeInv /\ WindowInv /\ EmittedInv /\ CutInv /\ SizeInv /\ EndInv

\* The invariant holds before the first read.
LEMMA SplitInit == Init => SplitInv
  <1> SUFFICES ASSUME Init PROVE SplitInv
    OBVIOUS
  <1>1. /\ text = <<>> /\ chunk = <<>> /\ acc = <<>> /\ out = <<>>
        /\ ended = FALSE /\ done = FALSE /\ Len(<<>>) = 0
    BY DEF Init
  <1>2. Len(text) = 0 /\ Len(chunk) = 0 /\ Len(acc) = 0
    BY <1>1
  <1>3. Start = 0
    BY <1>2 DEF Start
  <1>4. Run(<<>>, 0)
    BY <1>1 DEF Run
  <1>5. <<>> \in Seq(Kinds) /\ <<>> \in Seq(Seq(Nat)) /\ DOMAIN <<>> = {}
    OBVIOUS
  <1>6. ShapeInv
    <2>1. Len(text) <= MaxText
      BY <1>2, SplitAssumption
    <2> QED BY <1>1, <1>5, <2>1 DEF ShapeInv
  <1>7. EndInv
    BY <1>1 DEF EndInv
  <1>8. SizeInv
    BY <1>2, SplitAssumption DEF SizeInv
  <1>9. WindowInv
    BY <1>1, <1>2, <1>3, <1>4 DEF WindowInv
  <1>10. EmittedInv
    BY <1>1, <1>3, <1>5 DEF EmittedInv, Sound, Within, Ordered, OneLine, Kept
  <1>11. CutInv
    <2>1. Closed(<<>>, 0, FALSE) = {} /\ Full(<<>>) = {}
      BY <1>5 DEF Closed, Full
    <2>2. Cardinality({}) = 0
      BY FS_EmptySet
    <2> DEFINE k == Cardinality(Closed(<<>>, 0, FALSE))
    <2> DEFINE f == Cardinality(Full(<<>>))
    <2> DEFINE m == Len(<<>>)
    <2>3. Counted(<<>>, <<>>, 0, FALSE)
      <3>1. k = 0 /\ f = 0 /\ m = 0
        BY <1>1, <2>1, <2>2
      <3> HIDE DEF k, f, m
      <3>2. k <= m /\ m <= k + f /\ ~(0 > 0)
        BY <3>1
      <3> QED BY <3>2 DEF Counted, k, f, m
    <2>4. Cut(<<>>, <<>>, 0, FALSE)
      BY <1>1, <2>1, <2>2 DEF Cut
    <2> QED BY <1>1, <1>3, <2>3, <2>4 DEF CutInv, CutAs
  <1> QED BY <1>6, <1>7, <1>8, <1>9, <1>10, <1>11 DEF SplitInv

\* What the invariant says of the lengths.
Measures ==
    /\ Start \in Nat /\ Len(text) \in Nat /\ Len(chunk) \in Nat /\ Len(acc) \in Nat
    /\ Start + Len(acc) + Len(chunk) = Len(text)
    /\ text \in Seq(Kinds) /\ chunk \in Seq(Nat) /\ acc \in Seq(Nat)
    /\ Len(acc) + Len(chunk) < MaxLineBytes + ReadBufSize
    /\ MaxLineBytes \in Nat \ {0} /\ ReadBufSize \in Nat \ {0}

\* What the actions need of it.
LEMMA Lengths == SplitInv => Measures
  <1> SUFFICES ASSUME SplitInv PROVE Measures
    OBVIOUS
  <1>1. text \in Seq(Kinds) /\ chunk \in Seq(Nat) /\ acc \in Seq(Nat) /\ Start \in Nat
    BY DEF SplitInv, ShapeInv, WindowInv, Run
  <1>2. Len(text) \in Nat /\ Len(chunk) \in Nat /\ Len(acc) \in Nat
    BY <1>1
  <1> QED BY <1>1, <1>2, SplitAssumption DEF SplitInv, SizeInv, Start, Measures

\* One lemma for each action of drainLines' loop.  A read adds to the chunk.
LEMMA ReadStep == SplitInv /\ Read => SplitInv'
  <1> SUFFICES ASSUME SplitInv, Read PROVE SplitInv'
    OBVIOUS
  <1>1. Measures
    BY Lengths
  <1>2. /\ chunk = <<>> /\ Len(acc) < MaxLineBytes /\ ~ended /\ done = FALSE
        /\ acc' = acc /\ out' = out /\ done' = done
    BY DEF Read, ChunkDone, SplitInv, EndInv, ShapeInv
  <1>3. PICK n \in 0 .. ReadBufSize :
          /\ \E new \in [1 .. n -> Kinds] : text' = text \o new
          /\ chunk' = Positions(Len(text) + 1, Len(text) + n)
          /\ Len(text) + n <= MaxText /\ ended' \in BOOLEAN
    BY DEF Read
  <1>4. PICK new \in [1 .. n -> Kinds] : text' = text \o new
    BY <1>3
  <1>5. new \in Seq(Kinds) /\ Len(new) = n /\ n \in Nat
    BY <1>1 DEF Measures
  <1>6. /\ text' \in Seq(Kinds) /\ Len(text') = Len(text) + n
        /\ \A i \in 1 .. Len(text) : text'[i] = text[i]
    <2>1. text \in Seq(Kinds) /\ Len(text) \in Nat
      BY <1>1 DEF Measures
    <2> QED BY <2>1, <1>4, <1>5, ConcatProperties
  <1>7. Run(chunk', Len(text)) /\ Len(chunk') = n
    <2> DEFINE first == Len(text) + 1
    <2> DEFINE last == Len(text) + n
    <2>1. Len(text) \in Nat /\ last - first + 1 = n
      BY <1>1, <1>5 DEF Measures
    <2>2. chunk' = [i \in 1 .. n |-> first + i - 1]
      BY <1>3, <2>1 DEF Positions
    <2>3. \A i \in 1 .. n : first + i - 1 = Len(text) + i /\ Len(text) + i \in Nat
      BY <2>1
    <2> HIDE DEF first
    <2>4. /\ chunk' \in [1 .. n -> Nat]
          /\ \A i \in 1 .. n : chunk'[i] = Len(text) + i
      BY <2>2, <2>3
    <2>5. chunk' \in Seq(Nat) /\ Len(chunk') = n
      BY <1>5, <2>4
    <2> QED BY <2>4, <2>5 DEF Run
  <1>8. Start' = Start /\ Start + Len(acc) = Len(text) /\ Len(chunk) = 0
    <2>1. Len(chunk) = 0
      BY <1>2
    <2> QED BY <1>1, <1>2, <1>5, <1>6, <1>7, <2>1 DEF Start, Measures
  <1>9. ShapeInv' /\ EndInv'
    BY <1>2, <1>3, <1>6 DEF SplitInv, ShapeInv, EndInv
  <1>10. SizeInv'
    BY <1>1, <1>2, <1>5, <1>7 DEF SizeInv, Measures
  <1>11. WindowInv'
    <2>1. ASSUME NEW i \in 1 .. Len(acc) PROVE text'[Start + i] # "LF"
      <3>1. Start + i \in 1 .. Len(text) /\ text[Start + i] # "LF"
        BY <1>1, <1>8 DEF SplitInv, WindowInv, Measures
      <3> QED BY <1>6, <3>1
    <2> QED BY <1>2, <1>7, <1>8, <2>1 DEF SplitInv, WindowInv
  <1>12. EmittedInv'
    <2>1. Sound(text, out, Start, FALSE) /\ done' = FALSE
      BY <1>2 DEF SplitInv, EmittedInv
    <2>2. text \in Seq(Kinds) /\ Start \in Nat /\ Start <= Len(text)
      BY <1>1, <1>8 DEF Measures
    <2>3. Sound(text \o new, out, Start, FALSE)
      BY <1>5, <2>1, <2>2, ReadOn
    <2> QED BY <1>2, <1>4, <1>8, <2>1, <2>3 DEF EmittedInv
  <1>13. CutInv'
    <2>1. CutAs(text, out, Start, FALSE) /\ done' = FALSE
      BY <1>2 DEF SplitInv, CutInv
    <2>2. /\ text \in Seq(Kinds) /\ new \in Seq(Kinds)
          /\ Start \in Nat /\ Start <= Len(text)
      BY <1>1, <1>5, <1>8 DEF Measures
    <2>3. CutAs(text \o new, out, Start, FALSE)
      BY <2>1, <2>2, ReadOnCut
    <2> QED BY <1>2, <1>4, <1>8, <2>1, <2>3 DEF CutInv
  <1> QED BY <1>9, <1>10, <1>11, <1>12, <1>13 DEF SplitInv

\* The first LF of the chunk ends the line: what precedes it has none.
LEMMA TakeLineStep == SplitInv /\ TakeLine => SplitInv'
  <1> SUFFICES ASSUME SplitInv, TakeLine PROVE SplitInv'
    OBVIOUS
  <1>1. Measures
    BY Lengths
  <1>2. LFs = {j \in 1 .. Len(chunk) : text[chunk[j]] = "LF"}
    BY <1>1 DEF LFs, Measures
  <1>3. PICK i \in 1 .. Len(chunk) :
          /\ text[chunk[i]] = "LF"
          /\ \A j \in 1 .. Len(chunk) : j < i => text[chunk[j]] # "LF"
          /\ Emit(TrimLineEnd(acc \o SubSeq(chunk, 1, i)))
          /\ chunk' = SubSeq(chunk, i + 1, Len(chunk))
    <2>1. PICK i \in LFs :
            /\ \A j \in LFs : i <= j
            /\ Emit(TrimLineEnd(acc \o SubSeq(chunk, 1, i)))
            /\ chunk' = SubSeq(chunk, i + 1, Len(chunk))
      BY DEF TakeLine
    <2>2. i \in 1 .. Len(chunk) /\ text[chunk[i]] = "LF"
      BY <1>2, <2>1
    <2>3. ASSUME NEW j \in 1 .. Len(chunk), j < i PROVE text[chunk[j]] # "LF"
      <3>1. j \notin LFs
        BY <1>1, <2>1, <2>2, <2>3 DEF Measures
      <3> QED BY <1>2, <3>1
    <2> QED BY <2>1, <2>2, <2>3
  <1> DEFINE part == SubSeq(chunk, 1, i)
  <1> DEFINE line == acc \o part
  <1> DEFINE e == TrimLineEnd(line)
  <1>4. /\ out' = Append(out, e) /\ chunk' = SubSeq(chunk, i + 1, Len(chunk))
        /\ acc' = <<>> /\ text' = text /\ ended' = ended /\ done' = done
    BY <1>3 DEF TakeLine, Emit
  <1>5. /\ Run(acc, Start) /\ Run(chunk, Start + Len(acc))
        /\ \A j \in 1 .. Len(acc) : text[Start + j] # "LF"
        /\ \A j \in 1 .. Len(chunk) : chunk[j] = Start + Len(acc) + j
    BY DEF SplitInv, WindowInv, Run
  <1>6. Run(part, Start + Len(acc)) /\ Len(part) = i
    <2>1. /\ i \in Nat /\ 1 \in Nat \ {0} /\ 1 <= i + 1 /\ i <= Len(chunk)
          /\ Start + Len(acc) \in Int
      BY <1>1, <1>3 DEF Measures
    <2>2. /\ Run(SubSeq(chunk, 1, i), Start + Len(acc) + (1 - 1))
          /\ Len(SubSeq(chunk, 1, i)) = i - 1 + 1
      BY <1>5, <2>1, PartOfRun
    <2>3. Start + Len(acc) + (1 - 1) = Start + Len(acc) /\ i - 1 + 1 = i
      BY <2>1
    <2> QED BY <2>2, <2>3
  <1>7. Run(chunk', Start + Len(acc) + i) /\ Len(chunk') = Len(chunk) - i
    <2>1. /\ Len(chunk) \in Nat /\ i + 1 \in Nat \ {0} /\ i + 1 <= Len(chunk) + 1
          /\ Start + Len(acc) \in Int /\ Len(chunk) <= Len(chunk)
      BY <1>1, <1>3 DEF Measures
    <2> DEFINE m == i + 1
    <2>2. Start + Len(acc) + (m - 1) = Start + Len(acc) + i
          /\ Len(chunk) - m + 1 = Len(chunk) - i
      BY <1>1, <1>3 DEF Measures
    <2>3. m \in Nat \ {0} /\ m <= Len(chunk) + 1 /\ chunk' = SubSeq(chunk, m, Len(chunk))
      BY <1>4, <2>1
    <2> HIDE DEF m
    <2>4. /\ Run(SubSeq(chunk, m, Len(chunk)), Start + Len(acc) + (m - 1))
          /\ Len(SubSeq(chunk, m, Len(chunk))) = Len(chunk) - m + 1
      BY <1>5, <2>1, <2>3, PartOfRun
    <2> QED BY <2>2, <2>3, <2>4
  <1>8. Run(line, Start) /\ Len(line) = Len(acc) + i
    <2>1. Start \in Int
      BY <1>1 DEF Measures
    <2> HIDE DEF part
    <2> QED BY <1>5, <1>6, <2>1, JoinRuns
  <1> DEFINE n == Len(acc) + i
  <1>9. n \in Nat /\ Start + n <= Len(text) /\ text[Start + n] = "LF"
    <2>1. chunk[i] = Start + n
      BY <1>1, <1>3, <1>5 DEF Measures
    <2> QED BY <1>1, <1>3, <2>1 DEF Measures
  <1>10. ASSUME NEW j \in 1 .. (n - 1) PROVE text[Start + j] # "LF"
    <2>1. CASE j \in 1 .. Len(acc)
      BY <1>5, <2>1
    <2>2. CASE j \notin 1 .. Len(acc)
      <3> DEFINE k == j - Len(acc)
      <3>1. k \in 1 .. Len(chunk) /\ k < i /\ Start + Len(acc) + k = Start + j
        BY <1>1, <1>3, <2>2 DEF Measures
      <3> HIDE DEF k
      <3>2. text[chunk[k]] # "LF" /\ chunk[k] = Start + Len(acc) + k
        BY <1>3, <1>5, <3>1
      <3> QED BY <3>1, <3>2
    <2> QED BY <2>1, <2>2
  <1>11. /\ Run(e, Start) /\ Len(e) <= n
         /\ \A j \in 1 .. Len(e) : text[Start + j] # "LF" /\ ~Gone(text, Start + j, done)
         /\ \A b \in (Start + Len(e) + 1) .. (Start + n) : Gone(text, b, done)
    <2>1. text \in Seq(Kinds) /\ Start \in Nat /\ done \in BOOLEAN
      BY <1>1 DEF Measures, SplitInv, ShapeInv
    <2> HIDE DEF line
    <2> QED BY <1>8, <1>9, <1>10, <2>1, TrimmedLine
  <1> HIDE DEF e
  <1>12. Len(acc') = 0
    BY <1>4
  <1>13. Start' = Start + n
    <2>1. Len(text') = Len(text) /\ i \in Int
      BY <1>4, <1>3
    <2> HIDE DEF part
    <2>2. Len(text) = Start + Len(acc) + Len(chunk)
      BY <1>1 DEF Measures
    <2> QED BY <1>1, <1>7, <1>12, <2>1, <2>2 DEF Start, Measures
  <1>14. EmittedInv'
    <2>1. Sound(text, out, Start, done) /\ Start \in Nat
      BY <1>1 DEF SplitInv, EmittedInv, Measures
    <2> HIDE DEF n
    <2>2. Sound(text, Append(out, e), Start + n, done)
      BY <1>9, <1>11, <2>1, EmitPiece
    <2> QED BY <1>4, <1>13, <2>2 DEF EmittedInv
  <1>15. WindowInv'
    <2>1. Run(acc', Start')
      BY <1>4, <1>12 DEF Run
    <2>2. Start' + Len(acc') = Start + Len(acc) + i /\ Start' \in Nat
      BY <1>1, <1>3, <1>12, <1>13 DEF Measures
    <2>3. Run(chunk', Start' + Len(acc'))
      BY <1>7, <2>2
    <2> QED BY <1>12, <2>1, <2>2, <2>3 DEF WindowInv
  <1>16. SizeInv'
    BY <1>1, <1>3, <1>7, <1>12 DEF SizeInv, Measures
  <1>17. ShapeInv'
    BY <1>4 DEF SplitInv, ShapeInv
  <1>18. EndInv'
    <2>1. chunk # <<>>
      BY <1>3
    <2> QED BY <1>4, <2>1 DEF SplitInv, EndInv
  <1>19. CutInv'
    <2>1. done = FALSE /\ chunk # <<>>
      BY <1>3 DEF SplitInv, EndInv, ShapeInv
    <2>2. CutAs(text, out, Start, FALSE) /\ out \in Seq(Seq(Nat))
      BY <2>1 DEF SplitInv, CutInv, EmittedInv, Sound
    <2>3. text \in Seq(Kinds) /\ Start \in Nat /\ n \in Nat \ {0} /\ FALSE \in BOOLEAN
      BY <1>1, <1>3 DEF Measures
    <2> HIDE DEF n
    <2>4. /\ \A j \in 1 .. Len(e) : ~Gone(text, Start + j, FALSE)
          /\ \A b \in (Start + Len(e) + 1) .. (Start + n) : Gone(text, b, FALSE)
      BY <1>11, <2>1
    <2>5. CutAs(text, Append(out, e), Start + n, FALSE)
      BY <1>9, <1>10, <1>11, <2>2, <2>3, <2>4, EmitLineCut
    <2> QED BY <1>4, <1>13, <2>1, <2>5 DEF CutInv
  <1> QED BY <1>14, <1>15, <1>16, <1>17, <1>18, <1>19 DEF SplitInv

\* Without an LF the rest of the chunk joins the line under way.
LEMMA TakeRestStep == SplitInv /\ TakeRest => SplitInv'
  <1> SUFFICES ASSUME SplitInv, TakeRest PROVE SplitInv'
    OBVIOUS
  <1>1. Measures
    BY Lengths
  <1>2. /\ chunk # <<>> /\ LFs = {} /\ acc' = acc \o chunk /\ chunk' = <<>>
        /\ text' = text /\ out' = out /\ ended' = ended /\ done' = done
    BY DEF TakeRest
  <1>3. /\ Run(acc, Start) /\ Run(chunk, Start + Len(acc)) /\ Start \in Int
        /\ \A j \in 1 .. Len(acc) : text[Start + j] # "LF"
    BY <1>1 DEF SplitInv, WindowInv, Measures
  <1>4. Run(acc', Start) /\ Len(acc') = Len(acc) + Len(chunk)
    BY <1>2, <1>3, JoinRuns
  <1>5. Len(chunk') = 0
    BY <1>2
  <1>6. Start' = Start
    BY <1>1, <1>2, <1>4, <1>5 DEF Start, Measures
  <1>7. ASSUME NEW j \in 1 .. Len(acc') PROVE text[Start + j] # "LF"
    <2>1. CASE j \in 1 .. Len(acc)
      BY <1>3, <2>1
    <2>2. CASE j \notin 1 .. Len(acc)
      <3> DEFINE k == j - Len(acc)
      <3>1. k \in 1 .. Len(chunk) /\ Start + Len(acc) + k = Start + j
        BY <1>1, <1>4, <2>2 DEF Measures
      <3> HIDE DEF k
      <3>2. chunk[k] = Start + Len(acc) + k /\ k \in DOMAIN chunk
        BY <1>1, <1>3, <3>1 DEF Run, Measures
      <3>3. text[chunk[k]] # "LF"
        BY <1>2, <3>2 DEF LFs
      <3> QED BY <3>1, <3>2, <3>3
    <2> QED BY <2>1, <2>2
  <1>8. WindowInv'
    <2>1. Run(chunk', Start' + Len(acc'))
      BY <1>2, <1>5 DEF Run
    <2> QED BY <1>1, <1>2, <1>4, <1>6, <1>7, <2>1 DEF WindowInv, Measures
  <1>9. SizeInv'
    BY <1>1, <1>4, <1>5 DEF SizeInv, Measures
  <1>10. ShapeInv' /\ EmittedInv' /\ CutInv'
    BY <1>2, <1>6 DEF SplitInv, ShapeInv, EmittedInv, CutInv
  <1>11. EndInv'
    BY <1>2 DEF SplitInv, EndInv
  <1> QED BY <1>8, <1>9, <1>10, <1>11 DEF SplitInv

\* A fragment has no LF, because the line under way has none.
LEMMA FlushStep == SplitInv /\ FlushFragment => SplitInv'
  <1> SUFFICES ASSUME SplitInv, FlushFragment PROVE SplitInv'
    OBVIOUS
  <1>1. Measures
    BY Lengths
  <1> DEFINE n == MaxLineBytes
  <1> DEFINE e == SubSeq(acc, 1, n)
  <1>2. /\ chunk = <<>> /\ Len(acc) >= n /\ n \in Nat \ {0}
        /\ out' = Append(out, e) /\ acc' = SubSeq(acc, n + 1, Len(acc))
        /\ text' = text /\ chunk' = chunk /\ ended' = ended /\ done' = done
    BY <1>1 DEF FlushFragment, Emit, Measures
  <1> HIDE DEF n
  <1>3. /\ Run(acc, Start) /\ Run(chunk, Start + Len(acc)) /\ Start \in Nat
        /\ \A j \in 1 .. Len(acc) : text[Start + j] # "LF"
        /\ Len(acc) \in Nat /\ Len(chunk) = 0
    <2>1. Len(chunk) = 0
      BY <1>2
    <2> QED BY <1>1, <2>1 DEF SplitInv, WindowInv, Measures
  <1>4. Run(e, Start) /\ Len(e) = n
    <2>1. /\ Start \in Int /\ n \in Nat /\ 1 \in Nat \ {0} /\ 1 <= n + 1
          /\ n <= Len(acc) /\ Start + (1 - 1) = Start /\ n - 1 + 1 = n
      BY <1>2, <1>3
    <2>2. /\ Run(SubSeq(acc, 1, n), Start + (1 - 1))
          /\ Len(SubSeq(acc, 1, n)) = n - 1 + 1
      BY <1>3, <2>1, PartOfRun
    <2> QED BY <2>1, <2>2
  <1>5. Run(acc', Start + n) /\ Len(acc') = Len(acc) - n
    <2> DEFINE m == n + 1
    <2>1. /\ Start \in Int /\ m \in Nat \ {0} /\ m <= Len(acc) + 1
          /\ Len(acc) <= Len(acc) /\ acc' = SubSeq(acc, m, Len(acc))
          /\ Start + (m - 1) = Start + n /\ Len(acc) - m + 1 = Len(acc) - n
      BY <1>2, <1>3
    <2> HIDE DEF m
    <2>2. /\ Run(SubSeq(acc, m, Len(acc)), Start + (m - 1))
          /\ Len(SubSeq(acc, m, Len(acc))) = Len(acc) - m + 1
      BY <1>3, <2>1, PartOfRun
    <2> QED BY <2>1, <2>2
  <1> HIDE DEF e
  <1>6. /\ n \in Nat /\ Len(acc) >= n /\ Len(text') = Len(text) /\ Len(chunk') = 0
        /\ Start = Len(text) - Len(acc) /\ Start' = Len(text) - Len(acc')
        /\ Len(text) \in Nat
    <2>1. n \in Nat /\ Len(acc) >= n /\ Len(text') = Len(text) /\ Len(chunk') = 0
      BY <1>2, <1>3
    <2>2. Len(text) \in Nat /\ Len(acc) \in Nat /\ Len(acc') \in Nat
      BY <1>1, <1>3, <1>5, <2>1 DEF Measures
    <2> QED BY <1>3, <2>1, <2>2 DEF Start
  <1>7. Start' = Start + n /\ Start' \in Nat /\ Start' + Len(acc') = Start + Len(acc)
    BY <1>3, <1>5, <1>6
  <1>8. EmittedInv'
    <2>1. Sound(text, out, Start, done)
      BY DEF SplitInv, EmittedInv
    <2>2. /\ \A j \in 1 .. Len(e) : text[Start + j] # "LF"
          /\ \A b \in (Start + Len(e) + 1) .. (Start + n) : Gone(text, b, done)
          /\ n \in Nat /\ Len(e) <= n
      <3>1. Len(e) <= Len(acc)
        BY <1>4, <1>6
      <3>2. \A j \in 1 .. Len(e) : j \in 1 .. Len(acc)
        BY <1>3, <1>4, <1>6, <3>1
      <3>3. (Start + n + 1) .. (Start + n) = {} /\ n <= n
        BY <1>3, <1>6
      <3> QED BY <1>3, <1>4, <1>6, <3>2, <3>3
    <2>3. Sound(text, Append(out, e), Start + n, done)
      BY <1>3, <1>4, <2>1, <2>2, EmitPiece
    <2> QED BY <1>2, <1>7, <2>3 DEF EmittedInv
  <1>9. WindowInv'
    <2>2. ASSUME NEW j \in 1 .. Len(acc') PROVE text[Start' + j] # "LF"
      <3>1. n + j \in 1 .. Len(acc) /\ Start' + j = Start + (n + j)
        BY <1>3, <1>5, <1>6, <1>7
      <3> QED BY <1>3, <3>1
    <2> QED BY <1>2, <1>3, <1>5, <1>7, <2>2 DEF WindowInv
  <1>10. SizeInv'
    BY <1>1, <1>3, <1>5, <1>6 DEF SizeInv, Measures
  <1>11. ShapeInv'
    BY <1>2 DEF SplitInv, ShapeInv
  <1>12. EndInv'
    <2>1. acc # <<>>
      <3>1. Len(acc) # 0
        BY <1>2, <1>3
      <3> QED BY <3>1
    <2> QED BY <1>2, <2>1 DEF SplitInv, EndInv
  <1>13. CutInv'
    <2>1. done = FALSE
      <3>1. acc # <<>>
        <4>1. Len(acc) # 0
          BY <1>2, <1>3
        <4> QED BY <4>1
      <3> QED BY <3>1 DEF SplitInv, EndInv, ShapeInv
    <2>2. CutAs(text, out, Start, FALSE) /\ out \in Seq(Seq(Nat))
      BY <2>1 DEF SplitInv, CutInv, EmittedInv, Sound
    <2>3. /\ text \in Seq(Kinds) /\ Start \in Nat /\ Start + n <= Len(text)
          /\ \A j \in 1 .. n : text[Start + j] # "LF"
      BY <1>1, <1>3, <1>6 DEF Measures
    <2>4. CutAs(text, Append(out, e), Start + n, FALSE)
      BY <1>4, <2>2, <2>3, FragmentCut DEF n
    <2> QED BY <1>2, <1>7, <2>1, <2>4 DEF CutInv
  <1> QED BY <1>8, <1>9, <1>10, <1>11, <1>12, <1>13 DEF SplitInv

\* A CR at the end of the text goes only here.
LEMMA FinishStep == SplitInv /\ Finish => SplitInv'
  <1> SUFFICES ASSUME SplitInv, Finish PROVE SplitInv'
    OBVIOUS
  <1>1. Measures
    BY Lengths
  <1> DEFINE n == Len(acc)
  <1> DEFINE e == TrimLineEnd(acc)
  <1>2. /\ chunk = <<>> /\ ended /\ ~done /\ acc' = <<>> /\ done' = TRUE
        /\ text' = text /\ chunk' = chunk /\ ended' = ended
        /\ (acc # <<>> /\ out' = Append(out, e)) \/ (acc = <<>> /\ out' = out)
    BY DEF Finish, ChunkDone, Emit
  <1>3. /\ Run(acc, Start) /\ Start \in Nat /\ n \in Nat
        /\ \A j \in 1 .. n : text[Start + j] # "LF"
        /\ Len(chunk) = 0 /\ Start + n = Len(text) /\ Len(acc') = 0
        /\ text \in Seq(Kinds)
    <2>1. Len(chunk) = 0 /\ Len(acc') = 0
      BY <1>2
    <2> QED BY <1>1, <2>1 DEF SplitInv, WindowInv, Measures
  <1>4. Start' = Start + n /\ Start' \in Nat
    BY <1>2, <1>3 DEF Start
  <1>5. Sound(text, out, Start, TRUE)
    <2>1. Sound(text, out, Start, FALSE)
      BY <1>2 DEF SplitInv, EmittedInv, ShapeInv
    <2> QED BY <2>1 DEF Sound, Kept, Gone
  <1>6. EmittedInv'
    <2>1. CASE acc = <<>>
      <3>1. Start' = Start
        BY <1>3, <1>4, <2>1
      <3> QED BY <1>2, <1>5, <2>1, <3>1 DEF EmittedInv
    <2>2. CASE acc # <<>>
      <3>1. /\ Run(e, Start) /\ Len(e) <= n
            /\ \A j \in 1 .. Len(e) : text[Start + j] # "LF"
            /\ \A b \in (Start + Len(e) + 1) .. (Start + n) : Gone(text, b, TRUE)
        <4>1. TRUE \in BOOLEAN /\ Start + Len(acc) <= Len(text)
              /\ \A j \in 1 .. (Len(acc) - 1) : text[Start + j] # "LF"
          BY <1>3
        <4> QED BY <1>3, <4>1, TrimmedLine
      <3> HIDE DEF e, n
      <3>2. Sound(text, Append(out, e), Start + n, TRUE)
        BY <1>3, <1>5, <3>1, EmitPiece
      <3> QED BY <1>2, <1>4, <2>2, <3>2 DEF EmittedInv
    <2> QED BY <2>1, <2>2
  <1>7. WindowInv'
    <2>1. Run(acc', Start') /\ Run(chunk', Start' + Len(acc'))
      BY <1>2, <1>3 DEF Run
    <2> QED BY <1>2, <1>3, <1>4, <2>1 DEF WindowInv
  <1>8. SizeInv'
    BY <1>1, <1>2, <1>3 DEF SizeInv, Measures
  <1>9. ShapeInv' /\ EndInv'
    BY <1>2 DEF SplitInv, ShapeInv, EndInv
  <1>10. CutInv'
    <2>1. CutAs(text, out, Start, FALSE) /\ out \in Seq(Seq(Nat))
      BY <1>2, <1>5 DEF SplitInv, CutInv, ShapeInv, Sound
    <2>2. CASE acc = <<>>
      <3>1. Start = Len(text) /\ Start' = Len(text)
        BY <1>3, <1>4, <2>2
      <3>2. CutAs(text, out, Len(text), TRUE)
        BY <1>3, <2>1, <3>1, EndCut
      <3> QED BY <1>2, <2>2, <3>1, <3>2 DEF CutInv
    <2>3. CASE acc # <<>>
      <3>1. TRUE \in BOOLEAN /\ n \in Nat \ {0} /\ Start + n <= Len(text)
            /\ \A j \in 1 .. (n - 1) : text[Start + j] # "LF"
        BY <1>1, <1>3, <2>3, EmptySeq DEF Measures
      <3>2. /\ Run(e, Start) /\ Len(e) <= n
            /\ \A j \in 1 .. Len(e) : ~Gone(text, Start + j, TRUE)
            /\ \A b \in (Start + Len(e) + 1) .. (Start + n) : Gone(text, b, TRUE)
        BY <1>3, <3>1, TrimmedLine
      <3>3. text[Start + n] = "LF" \/ (TRUE /\ Start + n = Len(text))
        BY <1>3
      <3> HIDE DEF e, n
      <3>4. CutAs(text, Append(out, e), Start + n, TRUE)
        BY <1>3, <2>1, <3>1, <3>2, <3>3, EmitLineCut
      <3> QED BY <1>2, <1>4, <2>3, <3>4 DEF CutInv
    <2> QED BY <2>2, <2>3
  <1> QED BY <1>6, <1>7, <1>8, <1>9, <1>10 DEF SplitInv

-----------------------------------------------------------------------------
(* The theorems *)

\* drainLines (stream.go) holds the last bytes read, without a line end among those of
\* the line under way, and has emitted all the bytes before them, in their order, but
\* terminators.
THEOREM SplitInvCorrect == Spec => []SplitInv
  <1>1. Init => SplitInv
    BY SplitInit
  <1>2. SplitInv /\ [Next]_vars => SplitInv'
    <2> SUFFICES ASSUME SplitInv, [Next]_vars PROVE SplitInv'
      OBVIOUS
    <2>1. CASE Read
      BY <2>1, ReadStep
    <2>2. CASE TakeLine
      BY <2>2, TakeLineStep
    <2>3. CASE TakeRest
      BY <2>3, TakeRestStep
    <2>4. CASE FlushFragment
      BY <2>4, FlushStep
    <2>5. CASE Finish
      BY <2>5, FinishStep
    <2>6. CASE UNCHANGED vars
      BY <2>6 DEF vars, SplitInv, ShapeInv, WindowInv, EmittedInv, CutInv, SizeInv, EndInv,
                   Start
    <2> QED BY <2>1, <2>2, <2>3, <2>4, <2>5, <2>6 DEF Next
  <1> QED BY <1>1, <1>2, PTL DEF Spec

\* A sequence is one of the elements it has.
LEMMA ElementsOf ==
    ASSUME NEW S, NEW T, NEW s \in Seq(S), \A i \in 1 .. Len(s) : s[i] \in T
    PROVE  s \in Seq(T)
  <1>1. Len(s) \in Nat /\ s = [i \in 1 .. Len(s) |-> s[i]]
    OBVIOUS
  <1>2. s \in [1 .. Len(s) -> T]
    BY <1>1
  <1> QED BY <1>1, <1>2, SeqDef

\* A run in a stream of m bytes is made of them.
LEMMA RunWithin ==
    ASSUME NEW s, NEW c \in Nat, NEW m \in Nat, Run(s, c), c + Len(s) <= m
    PROVE  s \in Seq(1 .. m)
  <1>1. s \in Seq(Nat) /\ Len(s) \in Nat /\ \A i \in 1 .. Len(s) : s[i] = c + i
    BY DEF Run
  <1>2. \A i \in 1 .. Len(s) : s[i] \in 1 .. m
    BY <1>1
  <1> QED BY <1>1, <1>2, ElementsOf

\* The variables of drainLines keep their types, and a byte is always one of the text.
THEOREM SplitTypesCorrect == Spec => []SplitTypeOK
  <1>1. SplitInv => SplitTypeOK
    <2> SUFFICES ASSUME SplitInv PROVE SplitTypeOK
      OBVIOUS
    <2>1. Measures
      BY Lengths
    <2>2. chunk \in Seq(Bytes) /\ acc \in Seq(Bytes)
      <3>1. /\ Run(acc, Start) /\ Run(chunk, Start + Len(acc))
            /\ Start \in Nat /\ Start + Len(acc) \in Nat /\ Len(text) \in Nat
            /\ Start + Len(acc) <= Len(text)
            /\ Start + Len(acc) + Len(chunk) <= Len(text)
        BY <2>1 DEF SplitInv, WindowInv, Measures
      <3> QED BY <3>1, RunWithin DEF Bytes
    <2>3. out \in Seq(Seq(Bytes))
      <3>1. out \in Seq(Seq(Nat)) /\ Within(out, Start) /\ Start <= Len(text)
        BY <2>1 DEF SplitInv, EmittedInv, Sound, Measures
      <3>2. ASSUME NEW p \in 1 .. Len(out) PROVE out[p] \in Seq(Bytes)
        <4>1. out[p] \in Seq(Nat) /\ p \in DOMAIN out
          BY <3>1
        <4>2. ASSUME NEW i \in 1 .. Len(out[p]) PROVE out[p][i] \in Bytes
          <5>1. i \in DOMAIN out[p]
            BY <4>1
          <5>2. out[p][i] \in 1 .. Start
            BY <3>1, <4>1, <5>1 DEF Within
          <5> QED BY <2>1, <3>1, <5>2 DEF Bytes, Measures
        <4> QED BY <4>1, <4>2, ElementsOf
      <3> QED BY <3>1, <3>2, ElementsOf
    <2> QED BY <2>2, <2>3 DEF SplitTypeOK, SplitInv, ShapeInv
  <1> QED BY <1>1, SplitInvCorrect, PTL

\* "flushed as a fragment so memory stays bounded" (stream.go:237): however long a line
\* is, what drainLines keeps of it and of the read it works on stays below the cap and
\* one read.
THEOREM MemoryIsBounded ==
    Spec => [](Len(acc) + Len(chunk) < MaxLineBytes + ReadBufSize)
  <1>1. SplitInv => Len(acc) + Len(chunk) < MaxLineBytes + ReadBufSize
    BY DEF SplitInv, SizeInv
  <1> QED BY <1>1, SplitInvCorrect, PTL

\* NothingIsLost (drainLines, trimLineEnd of stream.go) for every cap, every size of the
\* read buffer, every text and every way to cut it into reads.
THEOREM NothingIsLostCorrect == Spec => []NothingIsLost
  <1>1. SplitInv => NothingIsLost
    <2> SUFFICES ASSUME SplitInv PROVE NothingIsLost
      OBVIOUS
    <2>1. Measures
      BY Lengths
    <2> DEFINE a == Len(acc)
    <2> DEFINE k == Len(chunk)
    <2>2. /\ Start \in Nat /\ a \in Nat /\ k \in Nat /\ Start + a \in Nat
          /\ Len(text) = Start + a + k /\ text \in Seq(Kinds)
          /\ Run(acc, Start) /\ Run(chunk, Start + a)
          /\ \A j \in 1 .. a : text[Start + j] # "LF"
          /\ Sound(text, out, Start, done)
      BY <2>1 DEF Measures, SplitInv, WindowInv, EmittedInv
    <2> DEFINE o == Append(out, acc)
    <2>3. Sound(text, o, Start + a, done)
      <3>1. /\ \A b \in (Start + Len(acc) + 1) .. (Start + a) : Gone(text, b, done)
            /\ Len(acc) <= a /\ \A j \in 1 .. Len(acc) : text[Start + j] # "LF"
        BY <2>2
      <3> QED BY <2>2, <3>1, EmitPiece
    <2> HIDE DEF o
    <2>4. /\ Ordered(Append(o, chunk))
          /\ \A b : Holds(o, b) => Holds(Append(o, chunk), b)
          /\ \A b \in (Start + a + 1) .. (Start + a + Len(chunk)) :
                Holds(Append(o, chunk), b)
      <3>1. Len(chunk) <= k /\ o \in Seq(Seq(Nat)) /\ Within(o, Start + a) /\ Ordered(o)
        BY <2>2, <2>3 DEF Sound
      <3> HIDE DEF a, k
      <3> QED BY <2>2, <3>1, AppendPiece
    <2>5. Pieces = Append(o, chunk)
      BY DEF Pieces, o
    <2>6. ASSUME NEW b \in Bytes \ Terminators PROVE Holds(Pieces, b)
      <3>1. b \in 1 .. Len(text) /\ ~Gone(text, b, done)
        BY <2>2 DEF Bytes, Terminators, Gone
      <3>2. CASE b \in 1 .. (Start + a)
        BY <2>3, <2>4, <2>5, <3>1, <3>2 DEF Sound, Kept
      <3>3. CASE b \in (Start + a + 1) .. (Start + a + Len(chunk))
        BY <2>4, <2>5, <3>3
      <3> QED BY <2>2, <3>1, <3>2, <3>3
    <2>7. Ordered(Pieces) /\ OneLine(text, out)
      BY <2>2, <2>4, <2>5 DEF Sound
    <2>8. ASSUME NEW p \in DOMAIN out, NEW i \in DOMAIN out[p]
          PROVE  text[out[p][i]] # "LF"
      <3>1. out[p][i] \in Nat /\ out[p][i] \in out[p][i] .. out[p][i]
        <4>1. out[p][i] \in 1 .. Start
          BY <2>2 DEF Sound, Within
        <4> QED BY <2>2, <4>1
      <3> QED BY <2>7, <3>1 DEF OneLine
    <2> QED BY <2>6, <2>7, <2>8 DEF NothingIsLost, Ordered, Holds
  <1> QED BY <1>1, SplitInvCorrect, PTL

\* LinesAreCut for every cap, every size of the read buffer, every text and every way
\* to cut it into reads: what drainLines (stream.go) emits is the lines of the text,
\* except that a line as long as the cap may come in pieces.
THEOREM LinesAreCutCorrect == Spec => []LinesAreCut
  <1>1. SplitInv => LinesAreCut
    <2> SUFFICES ASSUME SplitInv PROVE LinesAreCut
      OBVIOUS
    <2>1. Measures
      BY Lengths
    <2>2. /\ Sound(text, out, Start, done) /\ CutAs(text, out, Start, done)
          /\ SizeInv /\ EndInv
      BY DEF SplitInv, EmittedInv, CutInv
    <2>3. Len(acc) < MaxLineBytes + ReadBufSize
      BY <2>1, <2>2 DEF SizeInv, Measures
    <2>4. OneLine(text, out)
      BY <2>2 DEF Sound
    <2>5. Closed(text, Len(text), TRUE) = LineEnds
      BY DEF Closed, LineEnds, Bytes
    <2>6. ASSUME done
          PROVE  /\ Start = Len(text) /\ Len(out) \in Nat
                 /\ Cardinality(LineEnds) \in Nat
                 /\ CutAs(text, out, Len(text), TRUE)
      <3>1. Len(acc) = 0 /\ Len(chunk) = 0 /\ done = TRUE
        BY <2>2, <2>6 DEF EndInv, SplitInv, ShapeInv
      <3>2. Start = Len(text)
        BY <2>1, <3>1 DEF Measures
      <3>3. Len(out) \in Nat
        BY <2>2 DEF Sound
      <3>4. Cardinality(Closed(text, Len(text), TRUE)) \in Nat
        BY <2>1, ClosedIsFinite DEF Measures
      <3> QED BY <2>2, <2>5, <3>1, <3>2, <3>3, <3>4
    <2>7. ASSUME done
          PROVE  Len(out) \in Cardinality(LineEnds) ..
                                (Cardinality(LineEnds) + Cardinality(FullPieces))
      <3>1. FullPieces = Full(out)
        BY DEF FullPieces, Full
      <3>2. Cardinality(FullPieces) \in Nat
        <4>1. out \in Seq(Seq(Nat)) /\ <<>> \in Seq(Nat)
          BY <2>2 DEF Sound
        <4> QED BY <3>1, <4>1, AppendFull
      <3>3. /\ Cardinality(LineEnds) <= Len(out)
            /\ Len(out) <= Cardinality(LineEnds) + Cardinality(FullPieces)
        BY <2>5, <2>6, <2>7, <3>1 DEF CutAs, Counted
      <3> QED BY <2>6, <2>7, <3>2, <3>3
    <2>8. ASSUME done, LinesAreShort
          PROVE  /\ Len(out) = Cardinality(LineEnds)
                 /\ \A e \in LineEnds :
                       Range(out[LineNumber(e)]) = LineTo(e) \ Terminators
      <3>1. Short(text)
        BY <2>8 DEF LinesAreShort, Short, Bytes
      <3>2. Cut(text, out, Len(text), TRUE)
        BY <2>6, <2>8, <3>1 DEF CutAs
      <3>3. Len(out) = Cardinality(LineEnds)
        BY <2>5, <3>2 DEF Cut
      <3>4. ASSUME NEW e \in LineEnds
            PROVE  Range(out[LineNumber(e)]) = LineTo(e) \ Terminators
        <4>1. Range(out[Number(text, Len(text), TRUE, e)]) = LineText(text, e, TRUE)
          BY <2>5, <3>2 DEF Cut
        <4>2. LineNumber(e) = Number(text, Len(text), TRUE, e)
          BY <2>5 DEF LineNumber, Number
        <4>3. ASSUME NEW b \in 1 .. e PROVE b \in Terminators <=> Gone(text, b, TRUE)
          <5>1. b \in 1 .. Len(text) /\ b \in Bytes /\ (b = Len(text) \/ b < Len(text))
            BY <2>1 DEF LineEnds, Bytes, Measures
          <5> QED BY <5>1 DEF Terminators, Gone
        <4>4. LineText(text, e, TRUE) = LineTo(e) \ Terminators
          BY <4>3 DEF LineText, LineTo
        <4> QED BY <4>1, <4>2, <4>4
      <3> QED BY <3>3, <3>4
    <2> QED BY <2>3, <2>4, <2>7, <2>8 DEF LinesAreCut, OneLine
  <1> QED BY <1>1, SplitInvCorrect, PTL
=============================================================================
