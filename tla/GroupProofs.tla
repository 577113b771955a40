----------------------------- MODULE GroupProofs -----------------------------
(***************************************************************************)
(* Proofs about Group.tla, for any number of starts, kids, external        *)
(* processes and callers and for each mechanism.                           *)
(***************************************************************************)
EXTENDS Group, TLAPS

\* Killing and nothing else keeps the process table a process table.
LEMMA KillType ==
    ASSUME status \in [OSProcs -> {"none", "live", "dead"}], NEW S, Kill(S)
    PROVE  /\ status' \in [OSProcs -> {"none", "live", "dead"}]
           /\ \A p \in OSProcs : status'[p] = "live" => status[p] = "live"
           /\ \A p \in OSProcs : status'[p] = "none" <=> status[p] = "none"
           /\ \A p \in S \cap OSProcs : status'[p] # "live"
  BY DEF Kill

\* Whom a kill leaves alive is one of the live processes that it was aimed at.
LEMMA LeftoverTypes ==
    ASSUME TypeOK, NEW t, NEW left \in Leftovers(t)
    PROVE  left \subseteq Hit(t) \cap Live /\ left \subseteq OSProcs
  <1>1. mechanism \in {"ProcessGroup", "CgroupV2", "JobObject"}
    BY GroupAssumption DEF TypeOK, GroupAssumption
  <1> QED BY <1>1 DEF Leftovers, Live

\* The groups a started child can be in, and what Assign may add, are well formed.
LEMMA UnitTypes ==
    ASSUME GroupAssumption, mechanism \in Mechanisms, NEW s \in Starts
    PROVE  /\ SpawnUnit(s) \in Units
           /\ Assigned(s) \subseteq Targets
  <1>1. mechanism \in {"ProcessGroup", "CgroupV2", "JobObject"}
    BY DEF GroupAssumption
  <1>2. <<"group", s>> \in Targets
    BY DEF Targets, OSProcs
  <1> QED BY <1>1, <1>2 DEF SpawnUnit, Assigned, Units, OSProcs

\* The steps of Start, of a handle, of the callers, of Adopt and of the operating
\* system keep the types.
LEMMA StartTypes ==
    ASSUME TypeOK, NEW s \in Starts, StartStep(s)
    PROVE  TypeOK'
  <1> USE GroupAssumption DEF TypeOK, StartPcs, groupVars, callVars, procVars, jobVars, osVars
  <1>1. CASE StartLock(s)
    BY <1>1 DEF StartLock
  <1>2. CASE StartFails(s)
    BY <1>2 DEF StartFails
  <1>3. CASE Spawn(s)
    BY <1>3, UnitTypes DEF Spawn, OSProcs
  <1>4. CASE Register(s)
    BY <1>4, UnitTypes DEF Register, OSProcs, Units
  <1>5. CASE AssignFails(s)
    BY <1>5, KillType DEF AssignFails
  <1>6. CASE CleanUp(s)
    BY <1>6, KillType DEF CleanUp
  <1>7. CASE Launch(s)
    BY <1>7 DEF Launch
  <1> QED BY <1>1, <1>2, <1>3, <1>4, <1>5, <1>6, <1>7 DEF StartStep

\* The same for the drains, the reaper and the kills of a handle.
LEMMA HandleTypes ==
    ASSUME TypeOK, NEW s \in Starts, HandleStep(s)
    PROVE  TypeOK'
  <1> USE GroupAssumption DEF TypeOK, groupVars, callVars, procVars, jobVars, osVars
  <1>1. CASE DrainBlocks(s) \/ ConsumerReceives(s) \/ DrainReleased(s) \/ DrainEOF(s)
    BY <1>1 DEF DrainBlocks, ConsumerReceives, DrainReleased, DrainEOF
  <1>2. CASE Reap(s) \/ CtxCancel(s)
    BY <1>2 DEF Reap, CtxCancel
  <1>3. CASE CtxKill(s)
    BY <1>3, KillType DEF CtxKill
  <1>4. CASE HandleKill(s)
    <2>1. /\ status' \in [OSProcs -> {"none", "live", "dead"}]
          /\ \A p \in OSProcs : status'[p] = "none" <=> status[p] = "none"
      BY <1>4, KillType DEF HandleKill
    <2> QED BY <1>4, <2>1 DEF HandleKill
  <1> QED BY <1>1, <1>2, <1>3, <1>4 DEF HandleStep

\* The same for Close, Shutdown and Signal(SignalKill).
LEMMA CallTypes ==
    ASSUME TypeOK, NEW c \in Callers, Call(c) \/ CallStep(c)
    PROVE  TypeOK'
  <1> USE GroupAssumption DEF TypeOK, CallPcs, Goto, groupVars, callVars, procVars, jobVars, osVars
  <1>1. CASE Call(c)
    BY <1>1 DEF Call, CallClose, CallShutdown, CallSignalKill
  <1>2. CASE GraceSnapshot(c) \/ GraceExpires(c) \/ GraceOver(c)
    BY <1>2 DEF GraceSnapshot, GraceExpires, GraceOver
  <1>3. CASE CloseLock(c)
    <2>1. CASE closed
      BY <1>3, <2>1 DEF CloseLock
    <2>2. CASE ~closed
      <3>1. closed' = TRUE /\ snap' \in [Callers -> SUBSET Starts]
        BY <1>3, <2>2 DEF CloseLock, HandlesToStop
      <3>2. callPc' \in [Callers -> CallPcs]
        BY <1>3, <2>2 DEF CloseLock
      <3> QED BY <1>3, <3>1, <3>2 DEF CloseLock
    <2> QED BY <2>1, <2>2
  <1>4. CASE KillSnapshot(c)
    BY <1>4 DEF KillSnapshot, KillList
  <1>5. ASSUME NEW t \in Targets, KillOne(c, t) PROVE TypeOK'
    <2>1. PICK left \in Leftovers(t) :
             /\ Kill(Hit(t) \ left)
             /\ spared' = IF op[c] = "kill" \/ mechanism = "JobObject" THEN spared
                                                                   ELSE spared \cup left
      BY <1>5 DEF KillOne
    <2>2. /\ status' \in [OSProcs -> {"none", "live", "dead"}]
          /\ \A p \in OSProcs : status'[p] = "none" <=> status[p] = "none"
      BY <2>1, KillType
    <2>3. spared' \subseteq {p \in OSProcs : status'[p] # "none"}
      <3>1. left \subseteq {p \in OSProcs : status[p] # "none"}
        BY LeftoverTypes DEF Live
      <3> QED BY <2>1, <2>2, <3>1
    <2>4. frozen' \subseteq OSProcs \cup {JobUnit}
      BY <1>5 DEF KillOne, FrozenAfterKill
    <2> QED BY <1>5, <2>1, <2>2, <2>3, <2>4 DEF KillOne
  <1>6. CASE SignalKillReturns(c) \/ ReleaseJob(c) \/ CloseReturns(c)
    <2>1. /\ UNCHANGED <<groupVars, startPc, op, snap, todo, expired, procVars, mechanism,
                        targets, spared, unit, frozen, root>>
          /\ jobOpen' \in BOOLEAN
      BY <1>6 DEF SignalKillReturns, ReleaseJob, CloseReturns
    <2>2. callPc' \in [Callers -> CallPcs]
      BY <1>6 DEF SignalKillReturns, ReleaseJob, CloseReturns
    <2>3. /\ status' \in [OSProcs -> {"none", "live", "dead"}]
          /\ \A p \in OSProcs : status'[p] = "none" <=> status[p] = "none"
      BY <1>6, KillType DEF SignalKillReturns, ReleaseJob, CloseReturns
    <2> QED BY <2>1, <2>2, <2>3
  <1>7. ASSUME NEW s \in Starts, StopOne(c, s) PROVE TypeOK'
    BY <1>7 DEF StopOne
  <1> QED BY <1>1, <1>2, <1>3, <1>4, <1>5, <1>6, <1>7 DEF CallStep

\* The same for Adopt.
LEMMA AdoptTypes ==
    ASSUME TypeOK, NEW e \in Exts, Adopt(e)
    PROVE  TypeOK'
  <1>1. <<"group", e>> \in Targets /\ <<"solo", e>> \in Targets
    BY DEF Targets, OSProcs
  <1> QED
    BY <1>1, GroupAssumption
    DEF Adopt, TypeOK, Units, OSProcs, groupVars, callVars, procVars

\* The same for exits, forks, setsid, Suspend and Resume.
LEMMA OSTypes ==
    ASSUME TypeOK, OSStep \/ Suspend \/ Resume
    PROVE  TypeOK'
  <1> USE GroupAssumption DEF TypeOK, groupVars, callVars, procVars, jobVars
  <1>1. ASSUME NEW p \in OSProcs, Exit(p) PROVE TypeOK'
    BY <1>1, KillType DEF Exit
  <1>2. ASSUME NEW q \in OSProcs, NEW k \in Kids, Fork(q, k) PROVE TypeOK'
    BY <1>2 DEF Fork, OSProcs, Units
  <1>3. ASSUME NEW k \in Kids, Setsid(k) PROVE TypeOK'
    BY <1>3 DEF Setsid, OSProcs, Units
  <1>4. CASE Suspend \/ Resume
    <2>1. Contained \subseteq OSProcs
      BY DEF Contained
    <2>2. mechanism \in {"ProcessGroup", "CgroupV2", "JobObject"}
      BY DEF GroupAssumption
    <2> QED BY <1>4, <2>1, <2>2 DEF Suspend, Resume
  <1> QED BY <1>1, <1>2, <1>3, <1>4 DEF OSStep

\* Every variable keeps its type: in particular what a caller has to kill and to
\* stop are targets of the job and handles of the group.
THEOREM TypeCorrect == Spec => []TypeOK
  <1>1. Init => TypeOK
    <2> SUFFICES ASSUME Init PROVE TypeOK
      OBVIOUS
    <2>1. <<"group", JobUnit>> \in Targets
      BY DEF Targets
    <2> QED
      BY <2>1, GroupAssumption DEF Init, TypeOK, StartPcs, CallPcs, Units, OSProcs
  <1>2. TypeOK /\ [Next]_vars => TypeOK'
    <2> SUFFICES ASSUME TypeOK, [Next]_vars PROVE TypeOK'
      OBVIOUS
    <2>1. CASE Next
      BY <2>1, StartTypes, HandleTypes, CallTypes, AdoptTypes, OSTypes DEF Next
    <2>2. CASE UNCHANGED vars
      BY <2>2 DEF vars, groupVars, callVars, procVars, jobVars, osVars, TypeOK
    <2> QED BY <2>1, <2>2
  <1> QED BY <1>1, <1>2, PTL DEF Spec

-----------------------------------------------------------------------------
(* The inductive invariant.  One lemma per family of actions; those whose    *)
(* only effect on the invariant's variables is that processes die or handles *)
(* are stopped share the first one.                                          *)

\* A step of no caller, with no new live process, keeps every part of the invariant.
LEMMA FewerLive ==
    ASSUME TypeOK, Inv,
           UNCHANGED <<mu, closed, procs, startPc, callPc, op, snap, todo, targets,
                       jobOpen, spared, mechanism, unit>>,
           stop \subseteq stop', Live' \subseteq Live
    PROVE  LockInv' /\ HandleInv' /\ TargetInv' /\ SweepInv' /\ StopInv'
  <1> USE DEF Inv
  <1>1. LockInv' /\ TargetInv'
    BY DEF LockInv, TargetInv
  <1>2. HandleInv'
    BY DEF HandleInv, SpawnUnit
  <1>3. \A t : Hit(t)' = Hit(t)
    BY DEF Hit
  <1>4. SweepInv'
    BY <1>3 DEF SweepInv, Closing
  <1>5. StopInv'
    BY DEF StopInv, Closing
  <1> QED BY <1>1, <1>2, <1>4, <1>5

\* A kill leaves none of its victims alive and brings nobody to life.
LEMMA KillShrinks ==
    ASSUME TypeOK, NEW S, Kill(S)
    PROVE  Live' \subseteq Live /\ Live' \cap S = {}
  BY KillType DEF Live, TypeOK

\* The drains, the reaper and the kills of a handle only take processes away.
LEMMA HandleSteps ==
    ASSUME Inv, NEW s \in Starts, HandleStep(s)
    PROVE  LockInv' /\ HandleInv' /\ TargetInv' /\ SweepInv' /\ StopInv'
  <1> USE DEF groupVars, callVars, procVars, jobVars, osVars
  <1>0. TypeOK
    BY DEF Inv
  <1>1. CASE DrainBlocks(s) \/ ConsumerReceives(s) \/ DrainReleased(s) \/ DrainEOF(s)
             \/ Reap(s) \/ CtxCancel(s)
    <2>1. UNCHANGED <<groupVars, startPc, callVars, stop, jobVars, osVars>>
      BY <1>1 DEF DrainBlocks, ConsumerReceives, DrainReleased, DrainEOF, Reap, CtxCancel
    <2> QED BY <1>0, <2>1, FewerLive DEF Live
  <1>2. CASE CtxKill(s) \/ HandleKill(s)
    <2>1. /\ UNCHANGED <<groupVars, startPc, callVars, jobVars, unit>>
          /\ stop \subseteq stop' /\ (Kill({s}) \/ UNCHANGED status)
      BY <1>2 DEF CtxKill, HandleKill
    <2> QED BY <1>0, <2>1, FewerLive, KillShrinks DEF Live
  <1> QED BY <1>1, <1>2 DEF HandleStep

\* Exits take processes away, and a frozen group loses and gains none.
LEMMA ContainerSteps ==
    ASSUME Inv, Suspend \/ Resume \/ (\E p \in OSProcs : Exit(p))
    PROVE  LockInv' /\ HandleInv' /\ TargetInv' /\ SweepInv' /\ StopInv'
  <1> USE DEF groupVars, callVars, procVars, jobVars, osVars
  <1>0. TypeOK
    BY DEF Inv
  <1>1. CASE Suspend \/ Resume
    BY <1>0, <1>1, FewerLive DEF Suspend, Resume, Live
  <1>2. ASSUME NEW p \in OSProcs, Exit(p)
        PROVE  LockInv' /\ HandleInv' /\ TargetInv' /\ SweepInv' /\ StopInv'
    BY <1>0, <1>2, FewerLive, KillShrinks DEF Exit
  <1> QED BY <1>1, <1>2

\* A fork inherits the unit of a live parent, which a sweep that is past it
\* has spared, or has killed.
LEMMA ForkStep ==
    ASSUME Inv, NEW q \in OSProcs, NEW k \in Kids, Fork(q, k)
    PROVE  LockInv' /\ HandleInv' /\ TargetInv' /\ SweepInv' /\ StopInv'
  <1> USE GroupAssumption DEF Inv, groupVars, callVars, procVars, jobVars
  <1>0. k \notin Starts /\ k \notin Exts /\ k \in OSProcs /\ q \in Live
    BY DEF GroupAssumption, OSProcs, Fork, Runs, Live
  <1>1. LockInv' /\ TargetInv' /\ StopInv'
    BY DEF Fork, LockInv, TargetInv, StopInv, Closing
  <1>2. \A p \in OSProcs : p # k => unit'[p] = unit[p] /\ (p \in Live' <=> p \in Live)
    BY DEF Fork, TypeOK, Live
  <1>3. HandleInv'
    BY <1>0, <1>2 DEF Fork, HandleInv, SpawnUnit, TypeOK, OSProcs
  \* The newcomer is in its parent's unit: if nothing but the spared lived there, the
  \* parent is one of them.
  <1>4. ASSUME NEW t \in targets, Hit(t) \cap Live \subseteq spared
        PROVE  (Hit(t) \cap Live)' \subseteq spared'
    <2>1. k \in Hit(t)' => k \in spared'
      <3>1. CASE t[1] = "group"
        <4>1. unit'[k] = unit[q]
          BY <1>0 DEF Fork, TypeOK
        <4>2. q \in Hit(t) => q \in spared
          BY <1>0, <1>4
        <4>3. k \in Hit(t)' => q \in Hit(t)
          BY <3>1, <4>1, <1>0 DEF Hit, Live
        <4> QED BY <4>2, <4>3 DEF Fork
      <3>2. CASE t[1] # "group"
        <4>1. t[1] = "solo"
          BY <3>2 DEF TypeOK, Targets
        <4>2. t[2] \in Exts
          BY <4>1 DEF TargetInv
        <4> QED BY <3>2, <4>2, <1>0 DEF Hit
      <3> QED BY <3>1, <3>2
    <2>2. spared \subseteq spared'
      BY DEF Fork
    <2> QED BY <2>1, <2>2, <1>2, <1>4 DEF Hit, Live
  <1>5. SweepInv'
    <2>1. UNCHANGED <<closed, callVars, targets, mechanism, jobOpen>>
      BY DEF Fork
    <2>2. spared = {} => spared' = {}
      BY DEF Fork
    <2> QED BY <1>4, <2>1, <2>2 DEF SweepInv, Closing
  <1> QED BY <1>1, <1>3, <1>5

\* A kid that leaves its unit is in none that an invariant speaks of.
LEMMA SetsidStep ==
    ASSUME Inv, NEW k \in Kids, Setsid(k)
    PROVE  LockInv' /\ HandleInv' /\ TargetInv' /\ SweepInv' /\ StopInv'
  <1> USE GroupAssumption DEF Inv, groupVars, callVars, procVars, jobVars
  <1>0. k \notin Starts /\ k \notin Exts /\ k \in OSProcs /\ Outside \notin OSProcs \cup {JobUnit}
    BY DEF GroupAssumption, OSProcs
  <1>1. LockInv' /\ TargetInv' /\ StopInv'
    BY DEF Setsid, LockInv, TargetInv, StopInv, Closing
  <1>2. Live' = Live /\ (\A p \in OSProcs : p # k => unit'[p] = unit[p]) /\ unit'[k] = Outside
    BY <1>0 DEF Setsid, TypeOK, Live
  <1>3. HandleInv'
    BY <1>0, <1>2 DEF Setsid, HandleInv, SpawnUnit, OSProcs
  <1>4. ASSUME NEW t \in targets PROVE Hit(t)' \subseteq Hit(t)
    <2>1. t[2] # Outside
      BY <1>0 DEF TypeOK, Targets
    <2> QED BY <1>2, <2>1 DEF Hit
  <1>5. SweepInv'
    BY <1>2, <1>4 DEF Setsid, SweepInv, Closing
  <1> QED BY <1>1, <1>3, <1>5

\* While somebody holds the lock the group is open, so nobody is closing.
LEMMA OpenWhileLocked ==
    ASSUME Inv, ~closed
    PROVE  /\ jobOpen
           /\ \A c \in Callers : ~Closing(c) /\ callPc[c] \notin {"stopping", "closed"}
  BY DEF Inv, LockInv, SweepInv, StopInv

\* In an open group only the parts about locks, handles and targets say anything.
LEMMA OpenStep ==
    ASSUME Inv, ~closed, closed' = closed, UNCHANGED <<callVars, jobOpen, spared>>
    PROVE  SweepInv' /\ StopInv'
  BY OpenWhileLocked DEF Inv, SweepInv, StopInv, Closing, callVars

\* Start under the lock: the group is open, so no sweep is under way.
LEMMA StartSteps ==
    ASSUME Inv, NEW s \in Starts, StartStep(s)
    PROVE  LockInv' /\ HandleInv' /\ TargetInv' /\ SweepInv' /\ StopInv'
  <1> USE GroupAssumption DEF Inv, groupVars, callVars, procVars, jobVars, osVars
  <1>0. s # Free /\ s \notin Exts
    BY DEF GroupAssumption
  <1>1. CASE StartLock(s) /\ ~closed
    <2>1. SweepInv' /\ StopInv' /\ TargetInv'
      BY <1>1, OpenStep DEF StartLock, TargetInv
    <2>2. mu = Free /\ mu' = s /\ closed' = closed /\ jobOpen' = jobOpen
      BY <1>1 DEF StartLock, Admits
    <2>3. \A r \in Starts : startPc[r] \notin {"locked", "spawned"}
      BY <2>2 DEF LockInv, GroupAssumption
    <2>4. LockInv'
      BY <1>1, <2>2, <2>3 DEF StartLock, Admits, LockInv, TypeOK
    <2>5. HandleInv'
      BY <1>1 DEF StartLock, Admits, HandleInv, TypeOK, SpawnUnit, Live
    <2> QED BY <2>1, <2>4, <2>5
  <1>2. CASE StartLock(s) /\ closed
    <2>1. UNCHANGED <<groupVars, callVars, procVars, jobVars, osVars>>
      BY <1>2 DEF StartLock, Admits
    <2>2. LockInv' /\ HandleInv'
      BY <1>2 DEF StartLock, Admits, LockInv, HandleInv, TypeOK, SpawnUnit, Live
    <2> QED BY <2>1, <2>2 DEF TargetInv, SweepInv, StopInv, Closing, Hit, Live
  <1>3. CASE StartFails(s)
    <2>1. mu = s /\ ~closed /\ mu' = Free
      BY <1>0, <1>3 DEF StartFails, LockInv
    <2>2. SweepInv' /\ StopInv' /\ TargetInv'
      BY <1>3, <2>1, OpenStep DEF StartFails, TargetInv
    <2>3. LockInv'
      BY <1>3, <2>1 DEF StartFails, LockInv, TypeOK
    <2>4. Live' \subseteq Live \ {s}
      <3>1. CASE StartFails(s)
        BY <3>1 DEF StartFails, HandleInv, Live
      <3> QED BY <1>3, <3>1
    <2>5. HandleInv'
      BY <1>3, <2>4 DEF StartFails, HandleInv, TypeOK, SpawnUnit
    <2> QED BY <2>2, <2>3, <2>5
  <1>4. CASE Spawn(s)
    <2>1. mu = s /\ ~closed
      BY <1>0, <1>4 DEF Spawn, LockInv
    <2>2. SweepInv' /\ StopInv' /\ TargetInv'
      BY <1>4, <2>1, OpenStep DEF Spawn, TargetInv
    <2>3. LockInv'
      BY <1>4, <2>1 DEF Spawn, LockInv, TypeOK
    <2>4. /\ s \in OSProcs /\ Live' \subseteq Live \cup {s}
          /\ unit'[s] = SpawnUnit(s) /\ \A r \in Starts : r # s => unit'[r] = unit[r]
      BY <1>4 DEF Spawn, TypeOK, OSProcs, Live
    <2>5. UNCHANGED <<procs, targets, mechanism>> /\ s \notin procs
      BY <1>4 DEF Spawn, HandleInv
    <2>6. /\ startPc'[s] = "spawned"
          /\ \A r \in Starts : r # s => startPc'[r] = startPc[r]
      BY <1>4 DEF Spawn, TypeOK
    <2>7. \A r \in Starts : SpawnUnit(r)' = SpawnUnit(r)
      BY <2>5 DEF SpawnUnit
    <2>8. HandleInv'
      BY <2>4, <2>5, <2>6, <2>7 DEF HandleInv
    <2> QED BY <2>2, <2>3, <2>8
  <1>5. CASE Register(s)
    <2>1. mu = s /\ ~closed /\ mu' = Free
      BY <1>0, <1>5 DEF Register, LockInv
    <2>2. SweepInv' /\ StopInv'
      BY <1>5, <2>1, OpenStep DEF Register
    <2>3. LockInv'
      BY <1>5, <2>1 DEF Register, LockInv, TypeOK
    <2>4. TargetInv'
      BY <1>5 DEF Register, TargetInv, Assigned
    <2>5. s \in OSProcs /\ mechanism \in {"ProcessGroup", "CgroupV2", "JobObject"}
      BY DEF OSProcs, TypeOK, GroupAssumption
    <2>6. <<"group", unit'[s]>> \in targets'
      <3>1. CASE mechanism = "ProcessGroup"
        BY <1>5, <3>1 DEF Register, HandleInv, SpawnUnit, Assigned
      <3>2. CASE mechanism = "CgroupV2"
        BY <1>5, <3>2 DEF Register, HandleInv, SpawnUnit, TargetInv
      <3>3. CASE mechanism = "JobObject"
        BY <1>5, <2>5, <3>3 DEF Register, TargetInv, TypeOK
      <3> QED BY <2>5, <3>1, <3>2, <3>3
    <2>7. /\ \A r \in Starts : r # s => unit'[r] = unit[r]
          /\ targets \subseteq targets' /\ Live' = Live
      BY <1>5 DEF Register, TypeOK, OSProcs, Live
    <2>8. HandleInv'
      BY <1>5, <2>6, <2>7 DEF Register, HandleInv, TypeOK, SpawnUnit
    <2> QED BY <2>2, <2>3, <2>4, <2>8
  <1>6. CASE Launch(s)
    <2>1. UNCHANGED <<groupVars, callVars, stop, jobVars, osVars>>
      BY <1>6 DEF Launch
    <2>2. LockInv' /\ HandleInv'
      BY <1>6 DEF Launch, LockInv, HandleInv, TypeOK, SpawnUnit, Live
    <2> QED BY <2>1, <2>2 DEF TargetInv, SweepInv, StopInv, Closing, Hit, Live
  <1>7. CASE AssignFails(s)
    <2>1. mu = s /\ ~closed /\ mu' = Free
      BY <1>0, <1>7 DEF AssignFails, LockInv
    <2>2. SweepInv' /\ StopInv' /\ TargetInv'
      BY <1>7, <2>1, OpenStep DEF AssignFails, TargetInv
    <2>3. LockInv'
      BY <1>7, <2>1 DEF AssignFails, LockInv, TypeOK
    <2>4. Live' \subseteq Live
      BY <1>7, KillShrinks DEF AssignFails, Live
    <2>5. HandleInv'
      BY <1>7, <2>4 DEF AssignFails, HandleInv, TypeOK, SpawnUnit
    <2> QED BY <2>2, <2>3, <2>5
  <1>8. CASE CleanUp(s)
    <2>1. UNCHANGED <<groupVars, callVars, procVars, jobVars, unit>>
      BY <1>8 DEF CleanUp
    <2>2. /\ startPc[s] = "cleanup" /\ startPc'[s] = "failed"
          /\ \A r \in Starts : r # s => startPc'[r] = startPc[r]
      BY <1>8 DEF CleanUp, TypeOK
    <2>3. Live' \subseteq Live \ {s}
      BY <1>8, KillShrinks DEF CleanUp
    <2>4. LockInv' /\ TargetInv' /\ StopInv'
      BY <2>1, <2>2 DEF LockInv, TargetInv, StopInv, Closing
    <2>5. HandleInv'
      BY <2>1, <2>2, <2>3 DEF HandleInv, SpawnUnit
    <2>6. SweepInv'
      BY <2>1, <2>3 DEF SweepInv, Closing, Hit
    <2> QED BY <2>4, <2>5, <2>6
  <1> QED BY <1>1, <1>2, <1>3, <1>4, <1>5, <1>6, <1>7, <1>8 DEF StartStep

\* Adopt finds the group open and adds what a later kill reaches.
LEMMA AdoptStep ==
    ASSUME Inv, NEW e \in Exts, Adopt(e)
    PROVE  LockInv' /\ HandleInv' /\ TargetInv' /\ SweepInv' /\ StopInv'
  <1> USE GroupAssumption DEF Inv, groupVars, callVars, procVars
  <1>1. ~closed /\ e \notin Starts
    BY DEF Adopt, Admits, GroupAssumption
  <1>2. SweepInv' /\ StopInv' /\ LockInv'
    BY <1>1, OpenStep DEF Adopt, LockInv
  <1>3. /\ \A s \in Starts : unit'[s] = unit[s]
        /\ targets \subseteq targets' /\ Live' = Live
    BY <1>1 DEF Adopt, TypeOK, OSProcs, Live
  <1>4. HandleInv'
    BY <1>3 DEF Adopt, HandleInv, SpawnUnit
  <1>5. TargetInv'
    BY DEF Adopt, TargetInv
  <1> QED BY <1>2, <1>4, <1>5

\* Close, Shutdown and Signal(SignalKill), up to the release of the job.
LEMMA CallSteps ==
    ASSUME Inv, NEW c \in Callers, Call(c) \/ CallStep(c)
    PROVE  LockInv' /\ HandleInv' /\ TargetInv' /\ SweepInv' /\ StopInv'
  <1> USE GroupAssumption DEF Inv, groupVars, callVars, procVars, jobVars, osVars, Goto
  \* Calls that move only a caller that is not closing.
  <1>1. CASE Call(c) \/ GraceSnapshot(c) \/ GraceExpires(c) \/ GraceOver(c)
             \/ SignalKillReturns(c)
    <2>1. UNCHANGED <<groupVars, startPc, stop, jobVars, osVars>>
      BY <1>1 DEF Call, CallClose, CallShutdown, CallSignalKill, GraceSnapshot,
                  GraceExpires, GraceOver, SignalKillReturns
    <2>2. /\ ~Closing(c)' /\ callPc'[c] \notin {"stopping", "closed"}
          /\ \A d \in Callers : d # c =>
                /\ callPc'[d] = callPc[d] /\ op'[d] = op[d]
                /\ snap'[d] = snap[d] /\ todo'[d] = todo[d]
      BY <1>1 DEF Call, CallClose, CallShutdown, CallSignalKill, GraceSnapshot,
                  GraceExpires, GraceOver, SignalKillReturns, Closing, TypeOK
    <2>3. LockInv' /\ HandleInv' /\ TargetInv'
      BY <2>1 DEF LockInv, HandleInv, TargetInv, SpawnUnit, Live
    <2>4. \A t : Hit(t)' = Hit(t) /\ Live' = Live
      BY <2>1 DEF Hit, Live
    <2>5. SweepInv' /\ StopInv'
      BY <2>1, <2>2, <2>4 DEF SweepInv, StopInv, Closing
    <2> QED BY <2>3, <2>5
  <1>2. CASE CloseLock(c) /\ closed
    <2>1. UNCHANGED <<groupVars, startPc, op, snap, todo, procVars, jobVars, osVars>>
      BY <1>2 DEF CloseLock
    <2>2. callPc' = [callPc EXCEPT ![c] = "returned"]
      BY <1>2 DEF CloseLock
    <2>3. LockInv' /\ HandleInv' /\ TargetInv'
      BY <2>1 DEF LockInv, HandleInv, TargetInv, SpawnUnit, Live
    <2>4. \A t : Hit(t)' = Hit(t) /\ Live' = Live
      BY <2>1 DEF Hit, Live
    <2>5. SweepInv' /\ StopInv'
      BY <2>1, <2>2, <2>4 DEF SweepInv, StopInv, Closing, TypeOK
    <2> QED BY <2>3, <2>5
  <1>3. CASE CloseLock(c) /\ ~closed
    <2>1. UNCHANGED <<mu, procs, startPc, op, todo, procVars, jobVars, osVars>> /\ closed'
      BY <1>3 DEF CloseLock
    <2>2. /\ callPc' = [callPc EXCEPT ![c] = "kill"]
          /\ snap' = [snap EXCEPT ![c] = procs]
          /\ mu = Free
      BY <1>3 DEF CloseLock, HandlesToStop
    <2>3. LockInv' /\ HandleInv' /\ TargetInv'
      BY <2>1, <2>2 DEF LockInv, HandleInv, TargetInv, SpawnUnit, Live
    <2>4. jobOpen /\ \A d \in Callers : ~Closing(d) /\ callPc[d] \notin {"stopping", "closed"}
      BY <1>3, OpenWhileLocked
    <2>5. SweepInv'
      BY <2>1, <2>2, <2>4 DEF SweepInv, Closing, TypeOK
    <2>6. StopInv'
      BY <2>1, <2>2, <2>4 DEF StopInv, Closing, TypeOK
    <2> QED BY <2>3, <2>5, <2>6
  <1>4. CASE KillSnapshot(c)
    <2>1. UNCHANGED <<groupVars, startPc, op, snap, procVars, jobVars, osVars>>
      BY <1>4 DEF KillSnapshot
    <2>2. /\ callPc[c] = "kill"
          /\ callPc' = [callPc EXCEPT ![c] = "sweep"]
          /\ todo' = [todo EXCEPT ![c] = targets]
      BY <1>4 DEF KillSnapshot, KillList
    <2>3. LockInv' /\ HandleInv' /\ TargetInv'
      BY <2>1 DEF LockInv, HandleInv, TargetInv, SpawnUnit, Live
    <2>4. \A t : Hit(t)' = Hit(t) /\ Live' = Live
      BY <2>1 DEF Hit, Live
    <2>5. SweepInv'
      BY <2>1, <2>2, <2>4 DEF SweepInv, Closing, TypeOK
    <2>6. StopInv'
      BY <2>1, <2>2 DEF StopInv, Closing, TypeOK
    <2> QED BY <2>3, <2>5, <2>6
  <1>5. ASSUME NEW t \in Targets, KillOne(c, t)
        PROVE  LockInv' /\ HandleInv' /\ TargetInv' /\ SweepInv' /\ StopInv'
    <2>1. UNCHANGED <<groupVars, startPc, callPc, op, snap, procVars, mechanism, targets,
                      jobOpen, unit>>
      BY <1>5 DEF KillOne
    <2>0. PICK left \in Leftovers(t) :
             /\ Kill(Hit(t) \ left)
             /\ spared' = IF op[c] = "kill" \/ mechanism = "JobObject" THEN spared
                                                                   ELSE spared \cup left
      BY <1>5 DEF KillOne
    <2>2. Live' \subseteq Live /\ Live' \cap Hit(t) \subseteq left
      BY <2>0, KillShrinks
    <2>3. LockInv' /\ HandleInv' /\ TargetInv'
      BY <2>1, <2>2 DEF LockInv, HandleInv, TargetInv, SpawnUnit
    <2>4. \A u : Hit(u)' = Hit(u)
      BY <2>1 DEF Hit
    <2>6. targets \subseteq Targets
      BY DEF TypeOK
    <2>7. SweepInv'
      <3>1. spared \subseteq spared'
        BY <2>0
      <3>2. ~closed \/ mechanism = "JobObject" => spared' = {}
        BY <1>5, <2>0 DEF SweepInv, Closing, KillOne
      \* Another caller that is closing is past its own targets; this one is past t, too.
      <3>3. ASSUME NEW d \in Callers, NEW u \in targets, mechanism # "JobObject", Closing(d),
                   callPc[d] = "sweep", u \notin todo'[d]
            PROVE  Hit(u) \cap Live' \subseteq spared'
        <4>1. CASE u \notin todo[d]
          BY <2>2, <3>1, <3>3, <4>1 DEF SweepInv
        <4>2. CASE u \in todo[d]
          <5>1. u = t /\ d = c
            BY <1>5, <2>6, <3>3, <4>2 DEF KillOne, TypeOK
          <5>2. spared' = spared \cup left
            BY <2>0, <3>3, <5>1 DEF Closing
          <5> QED BY <2>2, <5>1, <5>2
        <4> QED BY <4>1, <4>2
      <3>4. ASSUME NEW u \in targets, ~jobOpen PROVE Hit(u) \cap Live' \subseteq spared'
        BY <2>2, <3>1, <3>4 DEF SweepInv
      <3>5. \A d \in Callers : Closing(d)' = Closing(d)
        BY <2>1 DEF Closing
      <3>6. \A d \in Callers : Closing(d) => closed
        BY DEF SweepInv
      <3> QED BY <2>1, <2>4, <3>2, <3>3, <3>4, <3>5, <3>6 DEF SweepInv
    <2>8. StopInv'
      BY <2>1 DEF StopInv, Closing
    <2> QED BY <2>3, <2>7, <2>8
  <1>6. CASE ReleaseJob(c)
    <2>1. UNCHANGED <<groupVars, startPc, op, snap, todo, procVars, mechanism, targets,
                      spared, unit>>
      BY <1>6 DEF ReleaseJob
    <2>2. /\ op[c] # "kill" /\ callPc[c] = "sweep" /\ todo[c] = {}
          /\ callPc' = [callPc EXCEPT ![c] = "stopping"]
      BY <1>6 DEF ReleaseJob, KillReturned
    <2>0. closed
      BY <2>2 DEF SweepInv, Closing
    <2>5. Live' \subseteq Live /\ \A t : Hit(t)' = Hit(t)
      <3>1. Live' \subseteq Live
        BY <1>6, KillShrinks DEF ReleaseJob, Live
      <3> QED BY <2>1, <3>1 DEF Hit
    <2>3. \A t \in targets : Hit(t) \cap Live' \subseteq spared
      <3>1. CASE mechanism = "JobObject"
        <4>1. Live' \cap Contained = {}
          BY <1>6, <3>1, KillShrinks DEF ReleaseJob
        <4> QED BY <4>1 DEF Contained, Hit
      <3>2. CASE mechanism # "JobObject"
        BY <2>2, <2>5, <3>2 DEF SweepInv, Closing
      <3> QED BY <3>1, <3>2
    <2>4. LockInv' /\ HandleInv' /\ TargetInv'
      <3>1. LockInv' /\ TargetInv'
        BY <1>6, <2>0, <2>1 DEF ReleaseJob, LockInv, TargetInv
      <3>2. HandleInv'
        BY <2>1, <2>5 DEF HandleInv, SpawnUnit
      <3> QED BY <3>1, <3>2
    <2>6. SweepInv'
      <3>1. \A d \in Callers : d # c => callPc'[d] = callPc[d]
        BY <2>2
      <3>2. callPc'[c] = "stopping"
        BY <2>2 DEF TypeOK
      <3>3. \A d \in Callers : Closing(d)' => closed
        BY <2>0, <2>1, <3>1 DEF SweepInv, Closing
      <3>4. \A t \in targets : (Hit(t) \cap Live)' \subseteq spared'
        BY <2>1, <2>3, <2>5
      <3> QED BY <2>0, <2>1, <3>3, <3>4 DEF SweepInv
    <2>7. StopInv'
      BY <2>0, <2>1, <2>2 DEF StopInv, Closing, TypeOK
    <2> QED BY <2>4, <2>6, <2>7
  <1>7. ASSUME NEW s \in Starts, StopOne(c, s)
        PROVE  LockInv' /\ HandleInv' /\ TargetInv' /\ SweepInv' /\ StopInv'
    <2>1. /\ UNCHANGED <<groupVars, startPc, callPc, op, todo, jobVars, osVars>>
          /\ stop' = stop \cup {s} /\ snap' = [snap EXCEPT ![c] = @ \ {s}]
      BY <1>7 DEF StopOne
    <2>2. LockInv' /\ HandleInv' /\ TargetInv'
      BY <2>1 DEF LockInv, HandleInv, TargetInv, SpawnUnit, Live
    <2>3. SweepInv'
      BY <2>1 DEF SweepInv, Closing, Hit, Live
    <2>4. StopInv'
      BY <2>1 DEF StopInv, Closing, TypeOK
    <2> QED BY <2>2, <2>3, <2>4
  <1>8. CASE CloseReturns(c)
    <2>1. /\ UNCHANGED <<groupVars, startPc, op, snap, todo, procVars, jobVars, osVars>>
          /\ callPc[c] = "stopping" /\ callPc' = [callPc EXCEPT ![c] = "closed"]
          /\ snap[c] = {}
      BY <1>8 DEF CloseReturns
    <2>2. LockInv' /\ HandleInv' /\ TargetInv'
      BY <2>1 DEF LockInv, HandleInv, TargetInv, SpawnUnit, Live
    <2>3. SweepInv'
      BY <2>1 DEF SweepInv, Closing, Hit, Live, TypeOK
    <2>4. StopInv'
      BY <2>1 DEF StopInv, Closing, TypeOK
    <2> QED BY <2>2, <2>3, <2>4
  <1> QED BY <1>1, <1>2, <1>3, <1>4, <1>5, <1>6, <1>7, <1>8 DEF CallStep, CloseLock

\* The invariant holds of a new group.
LEMMA InvInit == Init => Inv
  <1> SUFFICES ASSUME Init PROVE Inv
    OBVIOUS
  <1>1. TypeOK
    <2>1. <<"group", JobUnit>> \in Targets
      BY DEF Targets
    <2> QED
      BY <2>1, GroupAssumption DEF Init, TypeOK, StartPcs, CallPcs, Units, OSProcs
  <1>2. \A s \in Starts : s \notin Live
    BY GroupAssumption DEF Init, Live, OSProcs, GroupAssumption
  <1>3. LockInv /\ HandleInv
    BY <1>2 DEF Init, LockInv, HandleInv
  <1>4. TargetInv
    BY DEF Init, TargetInv
  <1>5. SweepInv /\ StopInv
    BY DEF Init, SweepInv, StopInv, Closing
  <1> QED BY <1>1, <1>3, <1>4, <1>5 DEF Inv

\* Every step of every actor keeps the invariant.
LEMMA InvStep == Inv /\ [Next]_vars => Inv'
  <1> SUFFICES ASSUME Inv, [Next]_vars PROVE Inv'
    OBVIOUS
  <1>0. TypeOK
    BY DEF Inv
  <1>1. ASSUME NEW s \in Starts, StartStep(s) PROVE Inv'
    BY <1>0, <1>1, StartTypes, StartSteps DEF Inv
  <1>2. ASSUME NEW s \in Starts, HandleStep(s) PROVE Inv'
    BY <1>0, <1>2, HandleTypes, HandleSteps DEF Inv
  <1>3. ASSUME NEW c \in Callers, Call(c) \/ CallStep(c) PROVE Inv'
    BY <1>0, <1>3, CallTypes, CallSteps DEF Inv
  <1>4. ASSUME NEW e \in Exts, Adopt(e) PROVE Inv'
    BY <1>0, <1>4, AdoptTypes, AdoptStep DEF Inv
  <1>5. CASE Suspend \/ Resume \/ OSStep
    <2>1. TypeOK'
      BY <1>0, <1>5, OSTypes
    <2>2. LockInv' /\ HandleInv' /\ TargetInv' /\ SweepInv' /\ StopInv'
      BY <1>5, ContainerSteps, ForkStep, SetsidStep DEF OSStep
    <2> QED BY <2>1, <2>2 DEF Inv
  <1>6. CASE UNCHANGED vars
    <2>1. TypeOK'
      BY <1>0, <1>6 DEF vars, groupVars, callVars, procVars, jobVars, osVars, TypeOK
    <2>2. LockInv' /\ HandleInv' /\ TargetInv' /\ SweepInv' /\ StopInv'
      BY <1>0, <1>6, FewerLive DEF vars, groupVars, callVars, procVars, jobVars, osVars, Live
    <2> QED BY <2>1, <2>2 DEF Inv
  <1> QED BY <1>1, <1>2, <1>3, <1>4, <1>5, <1>6 DEF Next

\* The inductive invariant holds of every run of the group.
THEOREM InvCorrect == Spec => []Inv
  BY InvInit, InvStep, PTL DEF Spec

-----------------------------------------------------------------------------
(* What follows from it *)

\* Who survives a Close was spared by its kill (Group.Close and the lock in Group.Start):
\* a live child is registered, hence in a target, unless its Start has failed; and after
\* the release all that lives in a target is spared, in a Job Object nobody.
THEOREM NoOrphanCorrect == Spec => []NoOrphan
  <1>1. Inv => NoOrphan
    <2> SUFFICES ASSUME Inv, ~jobOpen
                 PROVE  Answerable \cap Live \subseteq spared
      BY DEF NoOrphan, Inv, SweepInv
    <2> USE DEF Inv
    <2>1. Contained \cap Live \subseteq spared
      BY DEF Contained, SweepInv
    <2>2. ASSUME NEW s \in Starts, s \in Live, startPc[s] # "cleanup" PROVE s \in spared
      <3>1. closed /\ startPc[s] # "spawned"
        BY GroupAssumption DEF LockInv, GroupAssumption
      <3>2. s \in procs
        BY <2>2, <3>1 DEF HandleInv
      <3>3. s \in Hit(<<"group", unit[s]>>)
        BY DEF Hit, OSProcs
      <3> QED BY <2>2, <3>2, <3>3 DEF HandleInv, SweepInv
    <2> QED BY <2>1, <2>2 DEF Answerable
  <1> QED BY <1>1, InvCorrect, PTL

\* Every live registered process is within reach of a kill (sys.Job Configure and
\* Assign, and the order of the steps of Group.Start).
THEOREM HandlesAreContainedCorrect == Spec => []HandlesAreContained
  <1>1. Inv => HandlesAreContained
    <2> SUFFICES ASSUME Inv, NEW s \in procs \cap Live PROVE s \in Contained
      BY DEF HandlesAreContained
    <2>1. s \in Starts /\ <<"group", unit[s]>> \in targets
      BY DEF Inv, TypeOK, HandleInv
    <2>2. s \in Hit(<<"group", unit[s]>>)
      BY <2>1 DEF Hit, OSProcs
    <2> QED BY <2>1, <2>2 DEF Contained, OSProcs
  <1> QED BY <1>1, InvCorrect, PTL

\* The job's descriptor is open whenever Start uses it (the lock in Group.Start).
THEOREM JobOpenWhileStartingCorrect == Spec => []JobOpenWhileStarting
  <1>1. Inv => JobOpenWhileStarting
    BY GroupAssumption DEF Inv, LockInv, JobOpenWhileStarting, GroupAssumption
  <1> QED BY <1>1, InvCorrect, PTL

\* The Close that tore the group down stopped every handle (the loop at its end).
THEOREM EveryHandleStoppedCorrect == Spec => []EveryHandleStopped
  <1>1. Inv => EveryHandleStopped
    BY DEF Inv, StopInv, EveryHandleStopped
  <1> QED BY <1>1, InvCorrect, PTL

\* No Start spawns a child once closed is set (the closed test under the lock).
THEOREM NoSpawnOnceClosedCorrect == Spec => NoSpawnOnceClosed
  <1> DEFINE Stays == closed => \A s \in Starts : status[s] = "none" => status'[s] = "none"
  <1>1. Inv /\ [Next]_vars => [Stays]_vars
    <2> SUFFICES ASSUME Inv, Next, closed, NEW r \in Starts, status[r] = "none"
                 PROVE  status'[r] = "none"
      OBVIOUS
    <2> USE DEF Inv, osVars
    <2>0. r \in OSProcs /\ r \notin Kids
      BY GroupAssumption DEF OSProcs, GroupAssumption
    <2>1. ASSUME NEW S, Kill(S) PROVE status'[r] = "none"
      BY <2>0, <2>1, KillType DEF TypeOK
    <2>2. ASSUME NEW s \in Starts, StartStep(s) PROVE status'[r] = "none"
      <3>1. ~Spawn(s)
        BY GroupAssumption DEF Spawn, LockInv, GroupAssumption
      <3> QED
        BY <2>1, <2>2, <3>1
        DEF StartStep, StartLock, StartFails, Register, AssignFails, CleanUp, Launch
    <2>3. ASSUME NEW s \in Starts, HandleStep(s) PROVE status'[r] = "none"
      BY <2>1, <2>3
      DEF HandleStep, DrainBlocks, ConsumerReceives, DrainReleased, DrainEOF, Reap,
          CtxCancel, CtxKill, HandleKill
    <2>4. ASSUME NEW c \in Callers, Call(c) \/ CallStep(c) PROVE status'[r] = "none"
      BY <2>1, <2>4
      DEF Call, CallClose, CallShutdown, CallSignalKill, CallStep, GraceSnapshot,
          GraceExpires, GraceOver, CloseLock, KillSnapshot, KillOne, SignalKillReturns,
          ReleaseJob, StopOne, CloseReturns
    <2>5. CASE (\E e \in Exts : Adopt(e)) \/ Suspend \/ Resume
      BY <2>5 DEF Adopt, Suspend, Resume
    <2>6. CASE OSStep
      BY <2>0, <2>1, <2>6 DEF OSStep, Exit, Fork, Setsid, TypeOK
    <2> QED BY <2>2, <2>3, <2>4, <2>5, <2>6 DEF Next
  <1> QED BY <1>1, InvCorrect, PTL DEF Spec, NoSpawnOnceClosed

-----------------------------------------------------------------------------
(* The group implements Container.  Every step lets members leave, lets some *)
(* enter, or moves the phase.                                                *)

Members == Contained \cap Live
SparedMembers == spared \cap Contained \cap Live

\* Everyone may leave at any time.  The program's own processes enter only an open
\* group; forked ones as long as it is not closed.
LEMMA BoxMoves ==
    ASSUME Inv, Inv', UNCHANGED <<closed, jobOpen, spared>>,
           \/ Members' \subseteq Members
           \/ Members \subseteq Members' /\ ~closed
    PROVE  [Box!CNext]_(Box!cvars)
  <1> USE DEF Members, SparedMembers, Box!cvars
  <1>1. Members \subseteq OSProcs /\ Members' \subseteq OSProcs
    BY DEF Contained
  <1>2. CASE Members' \subseteq Members
    <2> DEFINE S == Members \ Members'
    <2>1. S \in SUBSET (Starts \cup Exts \cup Kids)
      BY <1>1 DEF OSProcs
    <2>2. Members' = Members \ S /\ SparedMembers' = SparedMembers \ S
      BY <1>2
    <2>3. Box!Leave(S)
      BY <2>2 DEF Box!Leave
    <2> QED BY <2>1, <2>3 DEF Box!CNext
  <1>3. CASE Members \subseteq Members' /\ ~closed
    <2> DEFINE S == Members' \ Members
    <2>1. S \in SUBSET (Starts \cup Exts \cup Kids)
      BY <1>1 DEF OSProcs
    <2>2. SparedMembers = {} /\ SparedMembers' = {}
      BY <1>3 DEF Inv, SweepInv
    <2>3. Box!Enter(S)
      BY <1>3, <2>2 DEF Box!Enter
    <2> QED BY <2>1, <2>3 DEF Box!CNext
  <1> QED BY <1>2, <1>3

\* Steps that move nobody between units: members can only die.
LEMMA BoxDeaths ==
    ASSUME Inv, Inv', UNCHANGED <<closed, jobOpen, spared, targets, unit>>, Live' \subseteq Live
    PROVE  [Box!CNext]_(Box!cvars)
  <1>1. Members' \subseteq Members
    BY DEF Members, Contained, Hit
  <1> QED BY <1>1, BoxMoves

\* Steps that put a process under the job, in the locked section or in Adopt.
LEMMA BoxEntries ==
    ASSUME Inv, Inv', UNCHANGED <<closed, jobOpen, spared>>, ~closed,
           targets \subseteq targets',
           NEW p \in OSProcs,
           \A q \in OSProcs : q # p => unit'[q] = unit[q] /\ (q \in Live => q \in Live'),
           p \in Members => p \in Members'
    PROVE  [Box!CNext]_(Box!cvars)
  <1>1. Members \subseteq Members'
    BY DEF Members, Contained, Hit
  <1> QED BY <1>1, BoxMoves

\* The steps of Start, seen by the abstract container: its child enters while it is open.
LEMMA BoxStart ==
    ASSUME Inv, Inv', NEW s \in Starts, StartStep(s)
    PROVE  [Box!CNext]_(Box!cvars)
  <1> USE DEF groupVars, callVars, procVars, jobVars, osVars
  <1>0. s \in OSProcs /\ TypeOK
    BY DEF OSProcs, Inv
  <1>1. CASE StartLock(s) \/ StartFails(s) \/ Launch(s)
    BY <1>1, BoxDeaths DEF StartLock, StartFails, Launch, Live
  <1>2. CASE Spawn(s)
    <2>1. ~closed
      BY <1>2, GroupAssumption DEF Spawn, Inv, LockInv, GroupAssumption
    <2>2. s \notin Members
      BY <1>2 DEF Spawn, Inv, HandleInv, Members
    <2>3. \A q \in OSProcs : q # s => unit'[q] = unit[q] /\ (q \in Live => q \in Live')
      BY <1>0, <1>2 DEF Spawn, TypeOK, Live
    <2> QED BY <1>0, <1>2, <2>1, <2>2, <2>3, BoxEntries DEF Spawn
  <1>3. CASE Register(s)
    <2>1. ~closed
      BY <1>3, GroupAssumption DEF Register, Inv, LockInv, GroupAssumption
    <2>2. <<"group", unit'[s]>> \in targets'
      BY <1>3 DEF Register, Inv, HandleInv
    <2>3. s \in Contained'
      BY <1>0, <2>2 DEF Contained, Hit
    <2>4. Live' = Live /\ targets \subseteq targets'
      BY <1>3 DEF Register, Live
    <2>5. \A q \in OSProcs : q # s => unit'[q] = unit[q]
      BY <1>0, <1>3 DEF Register, TypeOK
    <2>6. s \in Members => s \in Members'
      BY <2>3, <2>4 DEF Members
    <2> QED BY <1>0, <1>3, <2>1, <2>4, <2>5, <2>6, BoxEntries DEF Register
  <1>4. CASE AssignFails(s) \/ CleanUp(s)
    BY <1>0, <1>4, BoxDeaths, KillShrinks DEF AssignFails, CleanUp, Live
  <1> QED BY <1>1, <1>2, <1>3, <1>4 DEF StartStep

\* The steps of a handle: members may leave.
LEMMA BoxHandle ==
    ASSUME Inv, Inv', NEW s \in Starts, HandleStep(s)
    PROVE  [Box!CNext]_(Box!cvars)
  <1> USE DEF groupVars, callVars, procVars, jobVars, osVars
  <1>1. CASE CtxKill(s) \/ HandleKill(s)
    BY <1>1, BoxDeaths, KillShrinks DEF CtxKill, HandleKill, Inv, Live
  <1>2. CASE ~(CtxKill(s) \/ HandleKill(s))
    BY <1>2, BoxDeaths
    DEF HandleStep, DrainBlocks, ConsumerReceives, DrainReleased, DrainEOF, Reap,
        CtxCancel, Live
  <1> QED BY <1>1, <1>2

\* The only steps that move the phase: closed is set, and the job released.  Only the
\* kill of a closing caller spares anybody.
LEMMA BoxCall ==
    ASSUME Inv, Inv', NEW c \in Callers, Call(c) \/ CallStep(c)
    PROVE  [Box!CNext]_(Box!cvars)
  <1> USE DEF groupVars, callVars, procVars, jobVars, osVars
  <1>1. CASE CloseLock(c) /\ ~closed
    <2>1. /\ closed' = TRUE /\ Members' = Members /\ SparedMembers' = SparedMembers
          /\ jobOpen /\ jobOpen'
      BY <1>1, OpenWhileLocked DEF CloseLock, Members, SparedMembers, Contained, Hit, Live
    <2>2. Box!BeginClose
      BY <1>1, <2>1 DEF Box!BeginClose, Members, SparedMembers
    <2> QED BY <2>2 DEF Box!CNext
  <1>2. CASE ReleaseJob(c)
    <2>1. closed /\ closed' /\ ~jobOpen'
      BY <1>2 DEF ReleaseJob, KillReturned, Inv, SweepInv, Closing
    <2>2. UNCHANGED <<spared, unit, targets, mechanism>> /\ Live' \subseteq Live
      BY <1>2, KillShrinks DEF ReleaseJob, Inv, Live
    \* What the kill spared lives on; a Job Object spares nobody.
    <2>3. SparedMembers' = SparedMembers
      <3>1. CASE mechanism = "JobObject"
        BY <2>2, <3>1 DEF Inv, SweepInv, SparedMembers
      <3>2. CASE mechanism # "JobObject"
        BY <1>2, <3>2 DEF ReleaseJob, SparedMembers, Contained, Hit, Live
      <3> QED BY <3>1, <3>2
    <2>4. Members' = SparedMembers'
      BY <2>1 DEF Inv, SweepInv, Members, SparedMembers, Contained
    <2>5. CASE jobOpen
      <3>1. Box!FinishClose
        BY <2>1, <2>3, <2>4, <2>5 DEF Box!FinishClose, Members, SparedMembers
      <3> QED BY <3>1 DEF Box!CNext
    <2>6. CASE ~jobOpen
      <3>1. Members' \subseteq Members
        BY <2>2 DEF Members, Contained, Hit
      <3>2. UNCHANGED <<closed, jobOpen, spared>>
        BY <1>2, <2>6 DEF ReleaseJob, Inv, TypeOK
      <3> QED BY <3>1, <3>2, BoxMoves
    <2> QED BY <2>5, <2>6
  <1>3. ASSUME NEW t \in Targets, KillOne(c, t) PROVE [Box!CNext]_(Box!cvars)
    <2>0. TypeOK
      BY DEF Inv
    <2>1. PICK left \in Leftovers(t) :
             /\ Kill(Hit(t) \ left)
             /\ spared' = IF op[c] = "kill" \/ mechanism = "JobObject" THEN spared
                                                                   ELSE spared \cup left
      BY <1>3 DEF KillOne
    <2>2. UNCHANGED <<closed, jobOpen, targets, unit>> /\ Live' \subseteq Live
      BY <1>3, <2>0, <2>1, KillShrinks DEF KillOne
    <2>3. CASE spared' = spared
      BY <2>2, <2>3, BoxDeaths
    <2>4. CASE spared' # spared /\ ~jobOpen
      <3>1. Members' \subseteq Members
        BY <2>2 DEF Members, Contained, Hit
      <3>2. Members \subseteq SparedMembers /\ Members' \subseteq SparedMembers'
        BY <2>2, <2>4 DEF Inv, SweepInv, Members, SparedMembers, Contained
      <3> DEFINE S == Members \ Members'
      <3>3. S \in SUBSET (Starts \cup Exts \cup Kids)
        BY DEF Members, Contained, OSProcs
      <3>4. Members' = Members \ S /\ SparedMembers' = SparedMembers \ S
        BY <3>1, <3>2 DEF Members, SparedMembers
      <3>5. Box!Leave(S)
        BY <2>2, <3>4 DEF Box!Leave, Members, SparedMembers
      <3> QED BY <3>3, <3>5 DEF Box!CNext
    <2>5. CASE spared' # spared /\ jobOpen
      <3> DEFINE Taken == Members \ Members'
                 Left == left \cap Members
      <3>1. closed /\ spared' = spared \cup left
        BY <1>3, <2>1, <2>5 DEF KillOne, Inv, SweepInv, Closing
      <3>2. Members' \subseteq Members
        BY <2>2 DEF Members, Contained, Hit
      <3>3. Members' = Members \ Taken
        BY <3>2
      <3>4. SparedMembers' = (SparedMembers \cup Left) \ Taken
        BY <3>1, <3>2 DEF Members, SparedMembers
      <3>5. /\ Taken \in SUBSET (Starts \cup Exts \cup Kids)
            /\ Left \in SUBSET (Starts \cup Exts \cup Kids)
            /\ Left \subseteq Members
        BY DEF Members, Contained, OSProcs
      <3>6. Box!Kill(Taken, Left)
        BY <2>2, <2>5, <3>1, <3>3, <3>4, <3>5 DEF Box!Kill, Members, SparedMembers
      <3> QED BY <3>5, <3>6 DEF Box!CNext
    <2> QED BY <2>3, <2>4, <2>5
  <1>4. CASE Call(c) \/ GraceSnapshot(c) \/ GraceExpires(c) \/ GraceOver(c)
             \/ (CloseLock(c) /\ closed) \/ KillSnapshot(c) \/ SignalKillReturns(c)
             \/ (\E s \in Starts : StopOne(c, s)) \/ CloseReturns(c)
    <2>1. UNCHANGED <<closed, jobVars, osVars>>
      BY <1>4
      DEF Call, CallClose, CallShutdown, CallSignalKill, GraceSnapshot, GraceExpires,
          GraceOver, CloseLock, KillSnapshot, SignalKillReturns, StopOne, CloseReturns
    <2> QED BY <2>1, BoxDeaths DEF Live
  <1> QED BY <1>1, <1>2, <1>3, <1>4 DEF CallStep

\* Adopt: its process enters while the container is open.
LEMMA BoxAdopt ==
    ASSUME Inv, Inv', NEW e \in Exts, Adopt(e)
    PROVE  [Box!CNext]_(Box!cvars)
  <1>0. e \in OSProcs /\ TypeOK /\ ~closed
    BY DEF OSProcs, Inv, Adopt, Admits
  <1>1. UNCHANGED <<closed, jobOpen, spared>> /\ targets \subseteq targets' /\ Live' = Live
    BY DEF Adopt, groupVars, Live
  <1>2. \A q \in OSProcs : q # e => unit'[q] = unit[q]
    BY <1>0 DEF Adopt, TypeOK
  <1>3. e \in Contained'
    <2>1. CASE <<"solo", e>> \in targets'
      BY <1>0, <2>1 DEF Contained, Hit
    <2>2. CASE <<"group", unit'[e]>> \in targets'
      BY <1>0, <2>2 DEF Contained, Hit
    <2>3. <<"solo", e>> \in targets' \/ <<"group", unit'[e]>> \in targets'
      BY <1>0 DEF Adopt, TypeOK, Inv, TargetInv
    <2> QED BY <2>1, <2>2, <2>3
  <1>4. e \in Members => e \in Members'
    BY <1>1, <1>3 DEF Members
  <1> QED BY <1>0, <1>1, <1>2, <1>4, BoxEntries

\* The operating system: members leave, and a fork of a member may enter at any time
\* before the container is closed, that of a spared one also later.
LEMMA BoxOS ==
    ASSUME Inv, Inv', Suspend \/ Resume \/ OSStep
    PROVE  [Box!CNext]_(Box!cvars)
  <1> USE DEF groupVars, callVars, procVars, jobVars
  <1>0. TypeOK
    BY DEF Inv
  <1>1. CASE Suspend \/ Resume
    BY <1>1, BoxDeaths DEF Suspend, Resume, Live
  <1>2. ASSUME NEW p \in OSProcs, Exit(p) PROVE [Box!CNext]_(Box!cvars)
    BY <1>0, <1>2, BoxDeaths, KillShrinks DEF Exit
  <1>3. ASSUME NEW q \in OSProcs, NEW k \in Kids, Fork(q, k) PROVE [Box!CNext]_(Box!cvars)
    <2>1. k \in OSProcs /\ k \notin Live
      BY <1>3 DEF OSProcs, Fork, Live
    <2>2. \A p \in OSProcs : p # k => unit'[p] = unit[p] /\ (p \in Live' <=> p \in Live)
      BY <1>0, <1>3 DEF Fork, TypeOK, Live
    <2>3. UNCHANGED <<targets, closed, jobOpen>>
      BY <1>3 DEF Fork
    <2>4. Members \subseteq Members' /\ Members' \ Members \subseteq {k}
      BY <2>1, <2>2, <2>3 DEF Members, Contained, Hit
    \* A newcomer is contained where its parent is.
    <2>5. k \in Members' => q \in Members
      <3>1. SUFFICES ASSUME k \in Members' PROVE q \in Members
        OBVIOUS
      <3>2. PICK t \in targets : k \in Hit(t)'
        BY <2>3, <3>1 DEF Members, Contained
      <3>3. t[1] = "group"
        <4>1. t[1] = "solo" => t[2] \in Exts
          BY DEF Inv, TargetInv
        <4>2. k \notin Exts
          BY GroupAssumption DEF GroupAssumption
        <4>3. t[1] \in {"group", "solo"}
          BY <1>0 DEF TypeOK, Targets
        <4> QED BY <3>2, <4>1, <4>2, <4>3 DEF Hit
      <3>4. unit'[k] = unit[q]
        BY <1>0, <1>3, <2>1 DEF Fork, TypeOK
      <3>5. q \in Hit(t)
        BY <3>2, <3>3, <3>4 DEF Hit
      <3> QED BY <1>3, <3>5 DEF Members, Contained, Fork, Runs, Live
    <2>6. CASE q \in spared /\ q \in Members /\ k \in Members'
      <3>1. spared' = spared \cup {k}
        BY <1>3, <2>6 DEF Fork
      <3>2. Members' = Members \cup {k} /\ SparedMembers' = SparedMembers \cup {k}
        BY <2>4, <2>6, <3>1 DEF Members, SparedMembers
      <3>3. SparedMembers # {} /\ {k} \in SUBSET (Starts \cup Exts \cup Kids)
        BY <2>6 DEF Members, SparedMembers
      <3>4. Box!Breed({k})
        BY <2>3, <3>2, <3>3 DEF Box!Breed, Members, SparedMembers
      <3> QED BY <3>3, <3>4 DEF Box!CNext
    <2>7. CASE k \notin Members'
      <3>1. Members' = Members
        BY <2>4, <2>7
      <3>2. spared \subseteq spared' /\ spared' \subseteq spared \cup {k}
        BY <1>3 DEF Fork
      <3>3. SparedMembers' = SparedMembers
        BY <2>7, <3>1, <3>2 DEF Members, SparedMembers
      <3> QED BY <2>3, <3>1, <3>3 DEF Box!cvars, Members, SparedMembers
    <2>8. CASE q \notin spared /\ k \in Members'
      <3>1. jobOpen
        BY <2>5, <2>8 DEF Inv, SweepInv, Members, Contained
      <3>2. spared' = spared
        BY <1>3, <2>8 DEF Fork
      <3>3. Members' = Members \cup {k}
        BY <2>4, <2>8
      <3>4. CASE k \in spared
        BY <1>0, <1>3, <3>4 DEF TypeOK, Fork
      <3>5. CASE k \notin spared
        <4>1. SparedMembers' = SparedMembers
          BY <2>4, <3>2, <3>3, <3>5 DEF Members, SparedMembers
        <4>2. {k} \in SUBSET (Starts \cup Exts \cup Kids) /\ {k} \cap (Starts \cup Exts) = {}
          BY GroupAssumption DEF GroupAssumption
        <4>3. Box!Enter({k})
          BY <2>3, <3>1, <3>3, <4>1, <4>2 DEF Box!Enter, Members, SparedMembers
        <4> QED BY <4>2, <4>3 DEF Box!CNext
      <3> QED BY <3>4, <3>5
    <2> QED BY <2>5, <2>6, <2>7, <2>8
  <1>4. ASSUME NEW k \in Kids, Setsid(k) PROVE [Box!CNext]_(Box!cvars)
    <2>1. UNCHANGED <<closed, jobOpen, spared, targets>> /\ Live' = Live
      BY <1>4 DEF Setsid, Live
    <2>2. /\ k \in OSProcs /\ unit'[k] = Outside
          /\ \A p \in OSProcs : p # k => unit'[p] = unit[p]
      BY <1>0, <1>4 DEF OSProcs, Setsid, TypeOK
    <2>3. \A t \in targets : t[2] # Outside
      BY <1>0, GroupAssumption DEF TypeOK, Targets, GroupAssumption
    <2>4. Members' \subseteq Members
      BY <2>1, <2>2, <2>3 DEF Members, Contained, Hit
    <2> QED BY <2>1, <2>4, BoxMoves
  <1> QED BY <1>1, <1>2, <1>3, <1>4 DEF OSStep

\* Group.Start, Adopt, Close, Shutdown and Signal together implement the
\* kill-on-drop container, whatever the mechanism and the interleaving.
THEOREM ContainerCorrect == Spec => ImplementsContainer
  <1>1. Init => Box!CInit
    <2> SUFFICES ASSUME Init PROVE Box!CInit
      OBVIOUS
    <2>1. \A p \in OSProcs, t \in targets : p \notin Hit(t)
      BY GroupAssumption DEF Init, Hit, GroupAssumption
    <2> QED BY <2>1 DEF Init, Box!CInit, Contained
  <1>2. Inv /\ Inv' /\ [Next]_vars => [Box!CNext]_(Box!cvars)
    <2> SUFFICES ASSUME Inv, Inv', [Next]_vars PROVE [Box!CNext]_(Box!cvars)
      OBVIOUS
    <2>1. CASE UNCHANGED vars
      BY <2>1, BoxDeaths DEF vars, groupVars, jobVars, osVars, Live
    <2> QED BY <2>1, BoxStart, BoxHandle, BoxCall, BoxAdopt, BoxOS DEF Next
  <1> QED BY <1>1, <1>2, InvCorrect, PTL DEF Spec, ImplementsContainer, Box!CSpec

\* What the container promises is so of the group: once it is closed, whatever it still
\* holds is what the kill of Close could not end, and its progeny.
THEOREM ClosedHoldsTheSparedCorrect == Spec => [](Box!CTypeOK /\ Box!ClosedHoldsTheSpared)
  <1>1. Box!CInit => Box!CTypeOK /\ Box!ClosedHoldsTheSpared
    BY DEF Box!CInit, Box!CTypeOK, Box!Phases, Box!ClosedHoldsTheSpared
  <1>2. Box!CTypeOK /\ Box!ClosedHoldsTheSpared /\ [Box!CNext]_(Box!cvars)
          => Box!CTypeOK' /\ Box!ClosedHoldsTheSpared'
    BY DEF Box!CTypeOK, Box!Phases, Box!ClosedHoldsTheSpared, Box!CNext, Box!cvars, Box!Enter,
           Box!Leave, Box!Breed, Box!BeginClose, Box!Kill, Box!FinishClose
  <1> QED BY <1>1, <1>2, ContainerCorrect, PTL DEF ImplementsContainer, Box!CSpec
=============================================================================
