---------------------------- MODULE PipelineProofs --------------------------
(***************************************************************************)
(* Proofs about Pipeline.tla, for a chain of any length, pipes of any size *)
(* and any deadlines, and whatever the stages do.                          *)
(***************************************************************************)
EXTENDS Pipeline, FiniteSetTheorems, TLAPS

\* Any set of natural numbers that is not empty has a least element: the sets 0 .. i are
\* finite, and finite sets are well-founded by inclusion.
LEMMA LeastNumber ==
    ASSUME NEW S, S \subseteq Nat, S # {}
    PROVE  \E i \in S : \A j \in S : i <= j
  <1> DEFINE Initials == {0 .. i : i \in S}
  <1>1. ASSUME NEW T \in Initials PROVE T \in FiniteSubsetsOf(Nat)
    <2>1. PICK i \in Nat : T = 0 .. i
      BY <1>1
    <2>2. IsFiniteSet(0 .. i)
      BY <2>1, FS_Interval
    <2> QED BY <2>1, <2>2 DEF FiniteSubsetsOf
  <1>2. PICK T \in Initials :
          \A U \in Initials : ~(<<U, T>> \in StrictSubsetOrdering(Nat))
    <2>1. Initials # {} /\ Initials \subseteq FiniteSubsetsOf(Nat)
      BY <1>1
    <2> HIDE DEF Initials
    <2> QED BY <2>1, FS_StrictSubsetOrderingWellFounded, WFMin
  <1>3. PICK i \in S : T = 0 .. i
    BY <1>2
  <1>4. ASSUME NEW j \in S PROVE i <= j
    <2>1. 0 .. j \in Initials /\ i \in Nat /\ j \in Nat
      OBVIOUS
    <2>2. ~(0 .. j \subseteq 0 .. i /\ 0 .. j # 0 .. i)
      <3>1. <<0 .. j, T>> \notin StrictSubsetOrdering(Nat)
        BY <1>2, <2>1
      <3>2. 0 .. j \in SUBSET Nat /\ T \in SUBSET Nat
        BY <1>3, <2>1
      <3> QED BY <3>1, <3>2, <1>3 DEF StrictSubsetOrdering
    <2>3. i \in 0 .. i /\ (j < i => i \notin 0 .. j /\ 0 .. j \subseteq 0 .. i)
      BY <2>1
    <2> QED BY <2>1, <2>2, <2>3
  <1> QED BY <1>4

\* Any set of stages has a leftmost one.
LEMMA LeastIsLeast ==
    ASSUME NEW S, S \subseteq Nat, S # {}
    PROVE  Least(S) \in S /\ \A j \in S : Least(S) <= j
  BY LeastNumber DEF Least

-----------------------------------------------------------------------------

\* What is left where Output is: from the kill of the job on, nobody that it did not spare
\* and no pipe end.
LeftInv ==
    /\ pc = "enter" => alive = {} /\ kin = {} /\ parentEnds = {}
    /\ pc \in {"failWait", "cancelled?", "timedOut?", "fold", "returned"} =>
          alive \subseteq spared /\ kin \subseteq spared
    /\ pc \in {"kill", "cancelled?", "timedOut?", "fold", "returned"} => alive = {}
    /\ pc \notin {"start", "failKill", "close"} => parentEnds = {}
    /\ result.kind \in {"stage"} => pc = "returned"

Killed == {i \in Stages : ended[i] = "killed"}

\* Before Output has looked at it, a stage was killed because its context was done; each
\* look leaves one cause less.
CauseInv ==
    /\ chainDue => chainTimed
    /\ pc \notin {"failKill", "failWait", "returned"} => \A i \in Killed : StageDone(i)
    /\ pc = "timedOut?" => \A i \in Killed : chainDue \/ i \in due
    /\ pc = "fold" \/ result.kind = "stage" => Killed \subseteq due

\* Every stage that the start loop has passed runs or has ended.
StartedInv ==
    /\ \A i \in Stages : i < next => i \in alive \/ ended[i] # "none"
    /\ pc \in {"close", "wait", "kill", "cancelled?", "timedOut?", "fold"} => next = N + 1

ChainInv == TypeOK /\ LeftInv /\ CauseInv /\ StartedInv /\ BlameIsRight

\* A context that has ended stays ended, and none ends after Output has returned.
LEMMA ContextSteps ==
    ASSUME ChainInv,
           CallerEnds \/ ChainDeadline \/ \E i \in Stages : StageDeadline(i)
    PROVE  ChainInv'
  <1>1. /\ Running /\ UNCHANGED <<timed, chainTimed, codeVars, procVars, dataVars>>
        /\ due \subseteq due' /\ due' \subseteq timed
        /\ chainDue => chainDue'
        /\ chainDue' => chainTimed
        /\ ctx # "live" => ctx' # "live"
        /\ ctx' \in {"live", "cancelled", "expired"} /\ chainDue' \in BOOLEAN
    <2>1. CASE CallerEnds
      BY <2>1 DEF CallerEnds, ChainInv, TypeOK, CauseInv
    <2>2. CASE ChainDeadline
      BY <2>2 DEF ChainDeadline, ChainInv, TypeOK, CauseInv
    <2>3. CASE \E i \in Stages : StageDeadline(i)
      BY <2>3 DEF StageDeadline, ChainInv, TypeOK, CauseInv
    <2> QED BY <2>1, <2>2, <2>3
  <1>2. TypeOK'
    BY <1>1 DEF ChainInv, TypeOK, codeVars, procVars, dataVars
  <1>3. LeftInv' /\ StartedInv'
    BY <1>1 DEF ChainInv, LeftInv, StartedInv, codeVars, procVars
  <1>4. result'.kind # "stage" /\ result' = result /\ pc' = pc /\ Killed' = Killed
    BY <1>1 DEF ChainInv, LeftInv, Running, codeVars, procVars, Killed
  <1>5. BlameIsRight'
    BY <1>4 DEF BlameIsRight
  <1>6. CauseInv'
    <2>1. \A i : StageDone(i) => StageDone(i)'
      BY <1>1 DEF StageDone, RunDone
    <2> QED BY <1>1, <1>4, <2>1 DEF ChainInv, CauseInv
  <1> QED BY <1>2, <1>3, <1>5, <1>6 DEF ChainInv

\* Stages end only while Output has some to wait for.
LEMMA DeathSteps ==
    ASSUME ChainInv, NEW i \in Stages,
           BrokenPipe(i) \/ Finish(i) \/ Quit(i) \/ StageKill(i)
    PROVE  ChainInv'
  <1>1. PICK how \in Ends \ {"none"} : Dies(i, how) /\ (how = "killed" => StageDone(i))
    <2>1. CASE StageKill(i)
      BY <2>1 DEF StageKill, Ends
    <2>2. CASE ~StageKill(i)
      BY <2>2 DEF BrokenPipe, Finish, Quit, Ends
    <2> QED BY <2>1, <2>2
  <1>2. i \in alive /\ UNCHANGED <<ctxVars, codeVars, hung, kin, spared, dataVars>>
    BY DEF BrokenPipe, Finish, Quit, StageKill, Works
  <1>3. /\ alive' = alive \ {i} /\ ended' \in [Stages -> Ends]
        /\ ended'[i] = how /\ \A j \in Stages \ {i} : ended'[j] = ended[j]
    BY <1>1 DEF Dies, ChainInv, TypeOK
  <1>4. TypeOK'
    BY <1>2, <1>3 DEF ChainInv, TypeOK, ctxVars, codeVars, dataVars
  <1>5. LeftInv' /\ StartedInv'
    BY <1>2, <1>3 DEF ChainInv, LeftInv, StartedInv, codeVars
  <1>6. pc \in {"start", "failKill", "failWait", "close", "wait"} /\ result.kind # "stage"
    BY <1>2 DEF ChainInv, TypeOK, LeftInv
  <1>7. BlameIsRight'
    BY <1>2, <1>6 DEF BlameIsRight, codeVars
  <1>8. CauseInv'
    <2>1. \A j : StageDone(j)' = StageDone(j)
      BY <1>2 DEF StageDone, RunDone, ctxVars
    <2>2. \A j \in Killed' : j \in Killed \/ (j = i /\ StageDone(i))
      BY <1>1, <1>3 DEF Killed
    <2>3. pc \notin {"failKill", "failWait", "returned"} => \A j \in Killed : StageDone(j)
      BY DEF ChainInv, CauseInv
    <2>4. pc' = pc /\ result' = result
      BY <1>2 DEF codeVars
    <2>5. chainDue' => chainTimed'
      BY <1>2 DEF ChainInv, CauseInv, ctxVars
    <2> QED BY <1>6, <2>1, <2>2, <2>3, <2>4, <2>5 DEF CauseInv
  <1> QED BY <1>4, <1>5, <1>7, <1>8 DEF ChainInv

\* What the other steps of a stage and of its descendants leave alone.
LEMMA WorkSteps ==
    ASSUME ChainInv, NEW i \in Stages,
           Read(i) \/ WriteItem(i) \/ Hang(i) \/ Fork(i) \/ KinExits(i)
    PROVE  ChainInv'
  <1>1. /\ UNCHANGED <<ctxVars, codeVars, alive, spared, ended>>
        /\ hung' \subseteq Stages /\ kin' \subseteq Stages
        /\ kin' \subseteq kin \cup alive
    <2>1. CASE Read(i) \/ WriteItem(i)
      BY <2>1 DEF Read, WriteItem, procVars, ChainInv, TypeOK
    <2>2. CASE Hang(i) \/ Fork(i) \/ KinExits(i)
      BY <2>2 DEF Hang, Fork, KinExits, Works, ChainInv, TypeOK
    <2> QED BY <2>1, <2>2
  <1>2. todo' \in 0 .. Items /\ hold' \subseteq Stages /\ pipe' \in [Pipes -> 0 .. PipeCap]
    <2>1. CASE Read(i)
      <3>1. i - 1 \in Pipes
        BY <2>1, PipelineAssumption DEF Read, Stages, Pipes
      <3> QED BY <2>1, <3>1, PipelineAssumption DEF Read, ChainInv, TypeOK
    <2>2. CASE WriteItem(i)
      <3>1. i < N => i \in Pipes
        BY PipelineAssumption DEF Stages, Pipes
      <3>2. pipe' \in [Pipes -> 0 .. PipeCap]
        BY <2>2, <3>1, PipelineAssumption DEF WriteItem, ChainInv, TypeOK
      <3>3. todo' \in 0 .. Items
        BY <2>2, PipelineAssumption DEF WriteItem, HasItem, ChainInv, TypeOK
      <3> QED BY <2>2, <3>2, <3>3 DEF WriteItem, ChainInv, TypeOK
    <2>3. CASE Hang(i) \/ Fork(i) \/ KinExits(i)
      BY <2>3 DEF Hang, Fork, KinExits, dataVars, ChainInv, TypeOK
    <2> QED BY <2>1, <2>2, <2>3
  <1>3. TypeOK'
    BY <1>1, <1>2 DEF ChainInv, TypeOK, ctxVars, codeVars
  <1>4. LeftInv' /\ StartedInv'
    BY <1>1 DEF ChainInv, LeftInv, StartedInv, codeVars
  <1>5. CauseInv'
    <2>1. \A j : StageDone(j)' = StageDone(j)
      BY <1>1 DEF StageDone, RunDone, ctxVars
    <2> QED BY <1>1, <2>1 DEF ChainInv, CauseInv, Killed, ctxVars, codeVars
  <1>6. BlameIsRight'
    <2>1. \A j : Outcome(j)' = Outcome(j) /\ Clean(j)' = Clean(j)
      BY <1>1 DEF Outcome, Clean, DeadlineSeen, ctxVars
    <2> QED BY <1>1, <2>1 DEF ChainInv, BlameIsRight, codeVars
  <1> QED BY <1>3, <1>4, <1>5, <1>6 DEF ChainInv

-----------------------------------------------------------------------------
(* Output *)

\* The steps of Output that end it before the fold.
LEMMA EarlyReturns ==
    ASSUME ChainInv, alive = {}, kin \subseteq spared, parentEnds = {},
           NEW r \in [kind : {"cancelled", "error", "chainTimeout"}], Return(r),
           UNCHANGED <<codeOther, next, parentEnds, late, unchecked>>
    PROVE  ChainInv'
  <1>1. pc' = "returned" /\ result'.kind # "stage" /\ result' \in Results
    BY DEF Return, Results
  <1>2. TypeOK'
    BY <1>1 DEF ChainInv, TypeOK, codeOther, ctxVars, procVars, dataVars
  <1>3. LeftInv' /\ StartedInv'
    BY <1>1 DEF ChainInv, LeftInv, StartedInv, codeOther, procVars
  <1>4. CauseInv' /\ BlameIsRight'
    BY <1>1 DEF ChainInv, CauseInv, BlameIsRight, codeOther, ctxVars
  <1> QED BY <1>2, <1>3, <1>4 DEF ChainInv

\* The steps of Output that start and kill nobody.
LEMMA MoveSteps ==
    ASSUME ChainInv,
           Enter \/ JobFails \/ StageFails \/ AllStarted \/ FailWait \/ CloseEnds \/ WaitAll
             \/ CheckCancel \/ CheckTimeout \/ DelayElapses
    PROVE  ChainInv'
  <1>1. CASE \E r \in [kind : {"cancelled", "error", "chainTimeout"}] :
               Return(r) /\ UNCHANGED <<codeOther, next, parentEnds, late, unchecked>>
    <2>1. alive = {} /\ (pc \in {"enter", "failWait", "cancelled?", "timedOut?"})
      BY <1>1
      DEF Enter, JobFails, StageFails, AllStarted, FailWait, CloseEnds, WaitAll, CheckCancel,
          CheckTimeout, DelayElapses, Return, ChainInv, LeftInv
    <2>2. kin \subseteq spared /\ parentEnds = {}
      BY <2>1 DEF ChainInv, LeftInv
    <2> QED BY <1>1, <2>1, <2>2, EarlyReturns
  <1>2. CASE ~ \E r \in [kind : {"cancelled", "error", "chainTimeout"}] :
               Return(r) /\ UNCHANGED <<codeOther, next, parentEnds, late, unchecked>>
    <2>1. /\ UNCHANGED <<codeOther, next, unchecked, result>> /\ late' \in BOOLEAN
          /\ parentEnds' \subseteq Pipes
          /\ \/ pc' = pc /\ pc \in {"wait", "failWait"} /\ UNCHANGED parentEnds
             \/ pc = "enter" /\ pc' = "start" /\ UNCHANGED parentEnds
             \/ pc = "start" /\ pc' = "failKill"
             \/ pc = "start" /\ pc' = "close" /\ next = N + 1
             \/ pc = "close" /\ pc' = "wait" /\ parentEnds' = {}
             \/ pc = "wait" /\ pc' = "kill" /\ UNCHANGED parentEnds /\ alive = {}
             \/ pc = "cancelled?" /\ pc' = "timedOut?" /\ UNCHANGED parentEnds /\ ctx = "live"
             \/ pc = "timedOut?" /\ pc' = "fold" /\ UNCHANGED parentEnds /\ ~chainDue
      <3>1. CASE Enter \/ JobFails \/ FailWait \/ CheckCancel \/ CheckTimeout
        BY <3>1, <1>2
        DEF Enter, JobFails, FailWait, CheckCancel, CheckTimeout, CancelOr, DeadlineSeen, ChainInv, TypeOK,
            CauseInv
      <3>2. CASE StageFails \/ AllStarted \/ CloseEnds \/ WaitAll \/ DelayElapses
        BY <3>2
        DEF StageFails, AllStarted, CloseEnds, WaitAll, DelayElapses, OpenPipe, ChainInv, TypeOK
      <3> QED BY <3>1, <3>2
    <2>2. TypeOK'
      <3>1. pc' \in {"start", "failKill", "failWait", "close", "wait", "kill", "timedOut?",
                     "fold"}
        BY <2>1
      <3> QED BY <2>1, <3>1 DEF ChainInv, TypeOK, codeOther, ctxVars, procVars, dataVars
    <2>3. LeftInv'
      BY <2>1 DEF ChainInv, LeftInv, codeOther, procVars
    <2>4. StartedInv'
      BY <2>1 DEF ChainInv, StartedInv, codeOther, procVars
    <2>5. result'.kind # "stage"
      BY <2>1 DEF ChainInv, LeftInv
    <2>6. CauseInv'
      <3>1. Killed' = Killed /\ \A j : StageDone(j)' = StageDone(j)
        BY <2>1 DEF Killed, StageDone, RunDone, codeOther, procVars, ctxVars
      <3>2. pc' = "timedOut?" => \A i \in Killed : chainDue' \/ i \in due'
        BY <2>1 DEF ChainInv, CauseInv, StageDone, RunDone, codeOther, ctxVars
      <3>3. pc' = "fold" => Killed \subseteq due'
        BY <2>1 DEF ChainInv, CauseInv, codeOther, ctxVars
      <3>4. pc' \notin {"failKill", "failWait", "returned"} => \A i \in Killed : StageDone(i)
        BY <2>1 DEF ChainInv, CauseInv
      <3>5. chainDue' => chainTimed'
        BY <2>1 DEF ChainInv, CauseInv, codeOther, ctxVars
      <3> QED BY <2>5, <3>1, <3>2, <3>3, <3>4, <3>5 DEF CauseInv
    <2>7. BlameIsRight'
      BY <2>5 DEF BlameIsRight
    <2> QED BY <2>2, <2>3, <2>4, <2>6, <2>7 DEF ChainInv
  <1> QED BY <1>1, <1>2

\* The start loop adds one stage and, unless it is the last, one pipe.
LEMMA StartSteps ==
    ASSUME ChainInv, StartStage
    PROVE  ChainInv'
  <1>1. /\ UNCHANGED <<ctxVars, hung, kin, spared, ended, dataVars, pc, late, unchecked, result>>
        /\ pc = "start" /\ next \in Stages /\ alive' = alive \cup {next} /\ next' = next + 1
        /\ parentEnds' \subseteq Pipes
    BY PipelineAssumption DEF StartStage, OpenPipe, Stages, ChainInv, TypeOK
  <1>2. TypeOK'
    <2>1. next' \in 1 .. (N + 1) /\ alive' \subseteq Stages
      BY <1>1, PipelineAssumption DEF Stages, ChainInv, TypeOK
    <2> QED BY <1>1, <2>1 DEF ChainInv, TypeOK, ctxVars, dataVars
  <1>3. LeftInv'
    BY <1>1 DEF ChainInv, LeftInv
  <1>4. StartedInv'
    <2>1. \A i \in Stages : i < next' => i < next \/ i = next
      BY <1>1, PipelineAssumption DEF Stages
    <2> QED BY <1>1, <2>1 DEF ChainInv, StartedInv
  <1>5. CauseInv'
    BY <1>1 DEF ChainInv, CauseInv, LeftInv, Killed, StageDone, RunDone, ctxVars
  <1>6. BlameIsRight'
    BY <1>1 DEF ChainInv, LeftInv, BlameIsRight
  <1> QED BY <1>2, <1>3, <1>4, <1>5, <1>6 DEF ChainInv

\* The kill of the job ends whatever runs but whom it spares, and when every stage has been
\* waited for it finds none.
LEMMA KillSteps ==
    ASSUME ChainInv, FailKill \/ KillTree
    PROVE  ChainInv'
  <1>1. /\ UNCHANGED <<ctxVars, hung, dataVars, next, late, unchecked, result>>
        /\ alive' \subseteq alive /\ kin' \subseteq kin /\ parentEnds' = {}
        /\ alive' \subseteq spared' /\ kin' \subseteq spared' /\ spared' \subseteq Stages
        /\ ended' \in [Stages -> Ends]
        /\ \A i \in Stages : i \in alive \/ ended[i] # "none" => i \in alive' \/ ended'[i] # "none"
        /\ \/ pc = "failKill" /\ pc' = "failWait"
           \/ pc = "kill" /\ pc' = "cancelled?" /\ alive' = {} /\ \A i \in Stages : ended'[i] = ended[i]
    BY DEF FailKill, KillTree, JobKill, ChainInv, TypeOK, LeftInv, Ends
  <1>2. TypeOK'
    BY <1>1 DEF ChainInv, TypeOK, ctxVars, dataVars
  <1>3. LeftInv'
    BY <1>1 DEF ChainInv, LeftInv
  <1>4. StartedInv'
    BY <1>1 DEF ChainInv, StartedInv
  <1>5. CauseInv'
    BY <1>1 DEF ChainInv, CauseInv, LeftInv, Killed, StageDone, RunDone, ctxVars
  <1>6. BlameIsRight'
    BY <1>1 DEF ChainInv, LeftInv, BlameIsRight
  <1> QED BY <1>2, <1>3, <1>4, <1>5, <1>6 DEF ChainInv

-----------------------------------------------------------------------------
(* The fold *)

\* Whom the fold blames: the leftmost culprit, or the leftmost victim when there is no
\* culprit, or the last stage when there is neither.
LEMMA BlamedIsRight ==
    ASSUME NEW u \in SUBSET Stages
    PROVE  LET b == Blamed(u)
               culprits == {i \in Failed(u) : Outcome(i) # "sigpipe"}
           IN  /\ b \in Stages
               /\ Failed(u) # {} => b \in Failed(u) /\ \A i \in culprits : b <= i
               /\ culprits # {} => b \in culprits
               /\ culprits = {} => \A i \in Failed(u) : b <= i
               /\ Failed(u) = {} => b = N
  <1> DEFINE culprits == {i \in Failed(u) : Outcome(i) # "sigpipe"}
  <1>1. Failed(u) \subseteq Stages /\ culprits \subseteq Failed(u) /\ Stages \subseteq Nat
    BY DEF Failed, Stages
  <1>2. CASE culprits # {}
    <2>1. Blamed(u) = Least(culprits)
      BY <1>2 DEF Blamed
    <2>2. Least(culprits) \in culprits /\ \A i \in culprits : Least(culprits) <= i
      <3>1. culprits \subseteq Nat
        BY <1>1
      <3> HIDE DEF culprits
      <3> QED BY <1>2, <3>1, LeastIsLeast
    <2>3. Failed(u) # {} /\ Blamed(u) \in Stages /\ Blamed(u) \in Failed(u)
      BY <1>1, <1>2, <2>1, <2>2
    <2> QED BY <1>2, <2>1, <2>2, <2>3
  <1>3. CASE culprits = {} /\ Failed(u) # {}
    <2>1. Blamed(u) = Least(Failed(u))
      BY <1>3 DEF Blamed
    <2>2. Failed(u) \subseteq Nat
      BY <1>1
    <2>3. Least(Failed(u)) \in Failed(u) /\ \A i \in Failed(u) : Least(Failed(u)) <= i
      BY <1>3, <2>2, LeastIsLeast
    <2> QED BY <1>1, <1>3, <2>1, <2>3
  <1>4. CASE Failed(u) = {}
    BY <1>1, <1>4, PipelineAssumption DEF Blamed, Stages
  <1> QED BY <1>2, <1>3, <1>4

\* Output reports the stage that the fold blames, with every stage ended.
LEMMA FoldSteps ==
    ASSUME ChainInv, Fold
    PROVE  ChainInv'
  <1>1. PICK u \in SUBSET Stages, coded \in BOOLEAN :
          /\ unchecked' = u
          /\ Return([kind |-> "stage", by |-> Blamed(u), outcome |-> Outcome(Blamed(u)),
                     success |-> Clean(Blamed(u)) \/ Forgiven(u, coded)])
    BY DEF Fold
  <1> DEFINE b == Blamed(u)
             culprits == {i \in Failed(u) : Outcome(i) # "sigpipe"}
  <1>2. /\ b \in Stages
        /\ Failed(u) # {} => b \in Failed(u) /\ \A i \in culprits : b <= i
        /\ culprits # {} => b \in culprits
        /\ culprits = {} => \A i \in Failed(u) : b <= i
        /\ Failed(u) = {} => b = N
    BY BlamedIsRight
  <1>3. /\ UNCHANGED <<codeOther, next, parentEnds, late>> /\ pc = "fold" /\ pc' = "returned"
        /\ alive = {} /\ kin \subseteq spared /\ parentEnds = {} /\ next = N + 1
        /\ Killed \subseteq due /\ (chainDue => chainTimed)
    BY <1>1 DEF Fold, Return, ChainInv, LeftInv, StartedInv, CauseInv
  <1>4. /\ result' = [kind |-> "stage", by |-> b, outcome |-> Outcome(b),
                      success |-> Clean(b) \/ Forgiven(u, coded)]
        /\ unchecked' = u
    BY <1>1 DEF Return
  <1>5. \A i \in Stages : Outcome(i)' = Outcome(i) /\ Clean(i)' = Clean(i)
    BY <1>3 DEF Outcome, Clean, DeadlineSeen, codeOther, ctxVars, procVars
  <1>6. TypeOK'
    <2>1. Outcome(b) \in StageOutcomes
      <3>1. ended[b] \in Ends \ {"none"}
        BY <1>2, <1>3, PipelineAssumption DEF ChainInv, TypeOK, StartedInv, Stages
      <3> QED BY <3>1 DEF Outcome, StageOutcomes
    <2>2. (Clean(b) \/ Forgiven(u, coded)) \in BOOLEAN
      BY DEF Clean, Forgiven
    <2>3. result' \in Results
      BY <1>2, <1>4, <2>1, <2>2 DEF Results
    <2> QED BY <1>3, <1>4, <2>3 DEF ChainInv, TypeOK, codeOther, ctxVars, procVars, dataVars
  <1>7. LeftInv' /\ StartedInv'
    BY <1>3 DEF ChainInv, LeftInv, StartedInv, codeOther, procVars
  <1>8. CauseInv'
    BY <1>3 DEF CauseInv, Killed, codeOther, ctxVars, procVars
  <1>9. BlameIsRight'
    <2> DEFINE bad(i) == i \notin u /\ ~Clean(i)
    <2>1. \A i \in Stages : bad(i) <=> i \in Failed(u)
      BY DEF Failed
    <2>2. \A i \in Stages : i \in culprits <=> bad(i) /\ Outcome(i) # "sigpipe"
      BY <2>1
    <2>3. Clean(b) \/ Forgiven(u, coded) => Failed(u) = {}
      BY <1>2 DEF Failed, Forgiven
    <2>4. \A i \in 1 .. (b - 1) : i \in Stages /\ ~(b <= i)
      BY <1>2, PipelineAssumption DEF Stages
    <2>5. \A i \in 1 .. (b - 1) : bad(i) => Outcome(i) = "sigpipe"
      BY <1>2, <2>1, <2>2, <2>4
    <2>6. bad(b) /\ Outcome(b) = "sigpipe" =>
            \A i \in Stages : bad(i) => Outcome(i) = "sigpipe" /\ b <= i
      BY <1>2, <2>1, <2>2
    <2>7. (\E i \in Stages : bad(i)) => bad(b)
      BY <1>2, <2>1
    <2>8. result'.by = b /\ result'.success = (Clean(b) \/ Forgiven(u, coded))
      BY <1>4
    <2>9. \A i \in Stages : (i \notin unchecked' /\ ~Clean(i)') <=> bad(i)
      BY <1>4, <1>5
    <2> HIDE DEF b, bad, culprits
    <2> QED BY <1>2, <1>5, <2>1, <2>3, <2>4, <2>5, <2>6, <2>7, <2>8, <2>9 DEF BlameIsRight
  <1> QED BY <1>6, <1>7, <1>8, <1>9 DEF ChainInv

-----------------------------------------------------------------------------

\* The inductive invariant: what is left, why stages were killed, who has started and who
\* is blamed.
THEOREM ChainInvCorrect == Spec => []ChainInv
  <1>1. Init => ChainInv
    <2> SUFFICES ASSUME Init PROVE ChainInv
      OBVIOUS
    <2>1. TypeOK
      <3>1. result \in Results
        BY DEF Init, Results
      <3>2. /\ ended \in [Stages -> Ends] /\ pipe \in [Pipes -> 0 .. PipeCap]
            /\ next \in 1 .. (N + 1) /\ todo \in 0 .. Items
        BY PipelineAssumption DEF Init, Ends
      <3> QED BY <3>1, <3>2 DEF Init, TypeOK
    <2>2. LeftInv /\ CauseInv /\ BlameIsRight
      BY DEF Init, LeftInv, CauseInv, Killed, BlameIsRight
    <2>3. StartedInv
      BY PipelineAssumption DEF Init, StartedInv, Stages
    <2> QED BY <2>1, <2>2, <2>3 DEF ChainInv
  <1>2. ChainInv /\ [Next]_vars => ChainInv'
    <2> SUFFICES ASSUME ChainInv, [Next]_vars PROVE ChainInv'
      OBVIOUS
    <2>1. CASE Output \/ DelayElapses
      BY <2>1, MoveSteps, StartSteps, KillSteps, FoldSteps DEF Output
    <2>2. CASE CallerEnds \/ ChainDeadline \/ \E i \in Stages : StageDeadline(i)
      BY <2>2, ContextSteps
    <2>3. ASSUME NEW i \in Stages, StageKill(i) \/ Progress(i) \/ Quit(i) \/ Hang(i)
                                     \/ Fork(i) \/ KinExits(i)
          PROVE  ChainInv'
      BY <2>3, DeathSteps, WorkSteps DEF Progress
    <2>4. CASE UNCHANGED vars
      <3>1. TypeOK'
        BY <2>4 DEF ChainInv, TypeOK, vars, ctxVars, codeVars, procVars, dataVars
      <3>2. LeftInv' /\ StartedInv'
        BY <2>4 DEF ChainInv, LeftInv, StartedInv, vars, codeVars, procVars
      <3>3. CauseInv'
        BY <2>4 DEF ChainInv, CauseInv, Killed, StageDone, RunDone, vars, ctxVars, codeVars,
                    procVars
      <3>4. BlameIsRight'
        BY <2>4 DEF ChainInv, BlameIsRight, Outcome, Clean, DeadlineSeen, vars, ctxVars, codeVars, procVars
      <3> QED BY <3>1, <3>2, <3>3, <3>4 DEF ChainInv
    <2> QED BY <2>1, <2>2, <2>3, <2>4 DEF Next
  <1> QED BY <1>1, <1>2, PTL DEF Spec

\* When Output has returned, after whatever failure and at whatever stage, no stage and no
\* descendant runs and the parent holds no end of a pipe.
THEOREM NothingIsLeftCorrect == Spec => []NothingIsLeft
  <1>1. ChainInv => NothingIsLeft
    BY DEF ChainInv, LeftInv, NothingIsLeft, Running
  <1> QED BY <1>1, ChainInvCorrect, PTL

\* A chain reported by the verdict of a stage was not cut short: the only stages killed are
\* those that passed their own deadline, and they are reported as timed out.
THEOREM KillIsExplainedCorrect == Spec => []KillIsExplained
  <1>1. ChainInv => KillIsExplained
    BY DEF ChainInv, CauseInv, Killed, KillIsExplained, Outcome
  <1> QED BY <1>1, ChainInvCorrect, PTL

\* The fold follows pipefail, with the victims of a broken pipe after its culprits, however
\* many stages fail and whichever are unchecked.
THEOREM BlameIsRightCorrect == Spec => []BlameIsRight
  <1>1. ChainInv => BlameIsRight
    BY DEF ChainInv
  <1> QED BY <1>1, ChainInvCorrect, PTL
=============================================================================
