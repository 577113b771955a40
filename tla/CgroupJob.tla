----------------------------- MODULE CgroupJob ------------------------------
(***************************************************************************)
(* The Linux backend (internal/sys/job_linux.go): how newJob chooses       *)
(* between a cgroup and a process group when resource caps are wanted and  *)
(* any step may fail, and how a cgroup is killed and removed while its     *)
(* members fork, while Suspend and Resume, which take no lock, write the   *)
(* freezer, and while a read of cgroup.procs, a write of cgroup.freeze or  *)
(* a signal may fail: members() turns an error into an empty list, and the *)
(* errors of the others are dropped.  Group.tla has the three mechanisms   *)
(* at the level of their effects; here are the steps of one of them.       *)
(***************************************************************************)
EXTENDS Naturals, FiniteSets

CONSTANTS Controllers, \* "memory", "pids", "cpu"
          Pids,        \* process ids
          MaxMkdirs,   \* attempts at a unique directory (32)
          MaxSweeps    \* rounds of the sweep and of the drain (50)

ASSUME CgroupAssumption ==
    /\ IsFiniteSet(Pids) /\ MaxMkdirs \in Nat \ {0} /\ MaxSweeps \in Nat \ {0}

VARIABLES
    want,     \* the controllers that the requested Limits need
    enabled,  \* cgroup.subtree_control of the parent
    caps,     \* the caps written into the job's directory
    pc,       \* where the caller is
    mkdirs,   \* attempts made
    backend,  \* what newJob returned: "none" yet, "error", "pgroup" or "cgroup"
    dir,      \* the job's directory exists
    fd,       \* the handle of the directory is open
    members,  \* cgroup.procs
    doomed,   \* the members that SIGKILL has been sent to
    frozen,   \* cgroup.freeze: "no", "freezing" or "yes"
    snapshot, \* the pids that this round of the sweep has still to signal
    round,    \* rounds made
    killed,   \* what Kill returned: "none", "nil" or "error"
    unread,   \* history: Kill's last list, for the verdict, was an error
    held      \* history: the last list was made of a frozen cgroup, which nothing has
              \* thawed, and where no signal was refused, before the sweep of it was over

limitVars == <<want, enabled, caps>>
newVars == <<mkdirs, backend>>
treeVars == <<members, doomed, frozen>>
history == <<unread, held>>
killVars == <<snapshot, round, killed, history>>
vars == <<limitVars, newVars, pc, dir, fd, treeVars, killVars>>

TypeOK ==
    /\ want \subseteq Controllers /\ enabled \subseteq Controllers /\ caps \subseteq want
    /\ pc \in {"new", "mkdir", "limits", "caps", "open", "fallback", "use", "kill", "freeze",
               "list", "signal", "thaw", "verdict", "drain", "remove", "closed"}
    /\ mkdirs \in 0 .. MaxMkdirs
    /\ backend \in {"none", "error", "pgroup", "cgroup"}
    /\ dir \in BOOLEAN /\ fd \in BOOLEAN
    /\ members \subseteq Pids /\ doomed \subseteq members
    /\ frozen \in {"no", "freezing", "yes"}
    /\ snapshot \subseteq Pids /\ round \in 0 .. MaxSweeps
    /\ killed \in {"none", "nil", "error"}
    /\ unread \in BOOLEAN /\ held \in BOOLEAN

Init ==
    /\ want \in SUBSET Controllers /\ enabled \in SUBSET Controllers /\ caps = {}
    /\ pc = "new" /\ mkdirs = 0 /\ backend = "none"
    /\ dir = FALSE /\ fd = FALSE
    /\ members = {} /\ doomed = {} /\ frozen = "no"
    /\ snapshot = {} /\ round = 0 /\ killed = "none"
    /\ unread = FALSE /\ held = FALSE

At(from, to) == pc = from /\ pc' = to

-----------------------------------------------------------------------------
(* newJob *)

newOther == <<want, fd, treeVars, killVars>>

\* cgroup v2 is not mounted, the kernel is older than 5.7, or there is no own cgroup.
NoCgroup == At("new", "fallback") /\ UNCHANGED <<newOther, enabled, caps, newVars, dir>>

HasCgroup == At("new", "mkdir") /\ UNCHANGED <<newOther, enabled, caps, newVars, dir>>

Mkdir ==
    /\ pc = "mkdir"
    /\ mkdirs < MaxMkdirs
    /\ mkdirs' = mkdirs + 1
    /\ \/ dir' = TRUE /\ pc' = (IF want = {} THEN "open" ELSE "limits")
       \/ UNCHANGED <<dir, pc>>                                  \* EEXIST: try again
       \/ pc' = "fallback" /\ UNCHANGED dir                      \* EACCES, EROFS, ...
    /\ UNCHANGED <<newOther, enabled, caps, backend>>

MkdirGivesUp ==
    /\ At("mkdir", "fallback")
    /\ mkdirs = MaxMkdirs
    /\ UNCHANGED <<newOther, enabled, caps, newVars, dir>>

\* controllersToEnable
ToEnable == want \ enabled

EnableControllers ==
    /\ At("limits", "caps")
    /\ enabled' = enabled \cup ToEnable
    /\ UNCHANGED <<newOther, caps, newVars, dir>>

\* The parent may not enable controllers while it has members; or a cap is refused.
\* The directory is removed.
LimitsFail ==
    /\ \/ pc = "limits" /\ ToEnable # {}
       \/ pc = "caps"
    /\ pc' = "fallback"
    /\ dir' = FALSE
    /\ UNCHANGED <<newOther, enabled, caps, newVars>>

WriteCap(c) ==
    /\ pc = "caps"
    /\ c \in want \ caps
    /\ caps' = caps \cup {c}
    /\ UNCHANGED <<newOther, enabled, newVars, pc, dir>>

CapsWritten ==
    /\ At("caps", "open")
    /\ caps = want
    /\ UNCHANGED <<newOther, enabled, caps, newVars, dir>>

OpenDir ==
    /\ At("open", "use")
    /\ fd' = TRUE /\ backend' = "cgroup"
    /\ UNCHANGED <<limitVars, mkdirs, dir, treeVars, killVars>>

OpenFails ==
    /\ At("open", "fallback")
    /\ dir' = FALSE
    /\ UNCHANGED <<newOther, enabled, caps, newVars>>

\* A process group enforces nothing: it is for groups that ask for no caps.
Fallback ==
    /\ At("fallback", "closed")
    /\ backend' = IF want = {} THEN "pgroup" ELSE "error"
    /\ UNCHANGED <<newOther, enabled, caps, mkdirs, dir>>

-----------------------------------------------------------------------------
(* The processes *)

treeOther == <<limitVars, newVars, pc, dir, fd, killVars>>

\* A child is cloned into the cgroup through fd.
Place(p) ==
    /\ pc = "use" /\ fd
    /\ p \in Pids \ members
    /\ members' = members \cup {p}
    /\ UNCHANGED <<treeOther, doomed, frozen>>

Fork(p) ==
    /\ frozen # "yes" /\ members \ doomed # {}
    /\ p \in Pids \ members
    /\ members' = members \cup {p}
    /\ UNCHANGED <<treeOther, doomed, frozen>>

\* By itself, or of SIGKILL, which a frozen process takes too.
Die(p) ==
    /\ p \in members
    /\ frozen = "yes" => p \in doomed
    /\ members' = members \ {p} /\ doomed' = doomed \ {p}
    /\ UNCHANGED <<treeOther, frozen>>

Freezes == frozen = "freezing" /\ frozen' = "yes" /\ UNCHANGED <<treeOther, members, doomed>>

-----------------------------------------------------------------------------
(* Kill *)

killOther == <<limitVars, newVars, dir, fd>>

\* Suspend and Resume write cgroup.freeze, also beside a Kill and after a Close.
Suspend ==
    /\ backend = "cgroup" /\ dir /\ frozen = "no"
    /\ frozen' = "freezing"
    /\ UNCHANGED <<treeOther, members, doomed>>

Resume ==
    /\ backend = "cgroup" /\ dir /\ frozen # "no"
    /\ frozen' = "no"
    /\ held' = (held /\ pc # "signal")
    /\ UNCHANGED <<limitVars, newVars, pc, dir, fd, members, doomed, snapshot, round, killed,
                   unread>>

StartKill == At("use", "kill") /\ UNCHANGED <<killOther, treeVars, killVars>>

\* cgroup.kill takes every member, and forks do not escape it.
CgroupKill ==
    /\ At("kill", "drain")
    /\ doomed' = members
    /\ killed' = "nil"
    /\ UNCHANGED <<killOther, members, frozen, snapshot, round, history>>

\* The file is not there (kernel < 5.14): freeze, sweep, thaw.
NoCgroupKill == At("kill", "freeze") /\ UNCHANGED <<killOther, treeVars, killVars>>

WriteFreeze ==
    /\ At("freeze", "list")
    /\ frozen' = IF frozen = "no" THEN "freezing" ELSE frozen
    /\ UNCHANGED <<killOther, members, doomed, killVars>>

ListMembers ==
    /\ pc = "list"
    /\ round < MaxSweeps
    /\ IF members = {} THEN pc' = "thaw" /\ UNCHANGED <<snapshot, round, held>>
                       ELSE /\ pc' = "signal" /\ snapshot' = members /\ round' = round + 1
                            /\ held' = (frozen = "yes")
    /\ UNCHANGED <<killOther, treeVars, killed, unread>>

SweepGivesUp == At("list", "thaw") /\ round = MaxSweeps /\ UNCHANGED <<killOther, treeVars, killVars>>

\* A pid that has left meanwhile is ESRCH, and one that runs as another user EPERM.
SignalOne(p) ==
    /\ pc = "signal"
    /\ p \in snapshot
    /\ snapshot' = snapshot \ {p}
    /\ \/ doomed' = doomed \cup ({p} \cap members) /\ UNCHANGED held
       \/ p \in members \ doomed /\ held' = FALSE /\ UNCHANGED doomed
    /\ UNCHANGED <<killOther, pc, members, frozen, round, killed, unread>>

Swept == At("signal", "list") /\ snapshot = {} /\ UNCHANGED <<killOther, treeVars, killVars>>

Thaw ==
    /\ At("thaw", "verdict")
    /\ frozen' = "no"
    /\ UNCHANGED <<killOther, members, doomed, killVars>>

\* The mutant reports success whatever is left.
VerdictMutant ==
    /\ At("verdict", "drain")
    /\ killed' = "nil"
    /\ round' = 0
    /\ UNCHANGED <<killOther, treeVars, snapshot, history>>
Verdict ==
    /\ At("verdict", "drain")
    /\ killed' = IF members = {} THEN "nil" ELSE "error"
    /\ round' = 0
    /\ UNCHANGED <<killOther, treeVars, snapshot, history>>

-----------------------------------------------------------------------------
(* Close *)

Drained == At("drain", "remove") /\ members = {} /\ UNCHANGED <<killOther, treeVars, killVars>>

\* The mutant drains for as long as there is a member.
DrainRoundMutant ==
    /\ pc = "drain" /\ members # {}
    /\ UNCHANGED vars
DrainRound ==
    /\ pc = "drain" /\ members # {}
    /\ IF round < MaxSweeps THEN round' = round + 1 /\ UNCHANGED pc
                            ELSE pc' = "remove" /\ UNCHANGED round
    /\ UNCHANGED <<killOther, treeVars, snapshot, killed, history>>

\* rmdir refuses a directory with members.
Remove ==
    /\ At("remove", "closed")
    /\ fd' = FALSE
    /\ dir' = (members # {})
    /\ UNCHANGED <<limitVars, newVars, treeVars, killVars>>

-----------------------------------------------------------------------------
(* What may fail under Kill and Close, and nobody is told *)

\* members() answers a read error with an empty list: the sweep stops, Kill returns nil,
\* the drain is over.
Unread ==
    /\ \/ At("list", "thaw") /\ round < MaxSweeps /\ UNCHANGED <<round, killed, unread>>
       \/ At("verdict", "drain") /\ round' = 0 /\ killed' = "nil" /\ unread' = TRUE
       \/ At("drain", "remove") /\ UNCHANGED <<round, killed, unread>>
    /\ UNCHANGED <<killOther, treeVars, snapshot, held>>

\* Kill's writes of cgroup.freeze, on either side of the sweep.
Unwritten ==
    /\ At("freeze", "list") \/ At("thaw", "verdict")
    /\ UNCHANGED <<killOther, treeVars, killVars>>

-----------------------------------------------------------------------------

Code ==
    \/ NoCgroup \/ HasCgroup \/ Mkdir \/ MkdirGivesUp \/ EnableControllers \/ LimitsFail
    \/ CapsWritten \/ OpenDir \/ OpenFails \/ Fallback \/ StartKill \/ CgroupKill
    \/ NoCgroupKill \/ WriteFreeze \/ ListMembers \/ SweepGivesUp \/ Swept \/ Thaw \/ Verdict
    \/ Drained \/ DrainRound \/ Remove
    \/ (\E c \in Controllers : WriteCap(c)) \/ (\E p \in Pids : SignalOne(p))

Kernel == Freezes \/ \E p \in Pids : p \in doomed /\ Die(p)

Next == Code \/ Unread \/ Unwritten \/ Suspend \/ Resume \/ Freezes
        \/ \E p \in Pids : Place(p) \/ Fork(p) \/ Die(p)

\* Code runs; the kernel carries out what it was told.  Nothing has to fail.
Fairness == WF_vars(Code) /\ WF_vars(Kernel)

Spec == Init /\ [][Next]_vars /\ Fairness

-----------------------------------------------------------------------------

\* "Fails fast rather than hand back an uncapped tree the caller believes is capped"
\* (job_linux.go:24-25): no process is placed, and no job returned, before every cap
\* that was asked for is in force; a failed attempt leaves no directory.
NeverUncapped ==
    /\ backend = "pgroup" => want = {}
    /\ members # {} => want \subseteq caps /\ want \subseteq enabled
    /\ backend \in {"pgroup", "error"} => ~dir /\ ~fd

\* Kill that returns nil has put SIGKILL on everybody who could fork on, unless it could
\* not read the list it judges by (job_linux.go:137-141, 187-191); and freezing works as
\* the comment says, "so a fork bomb can't out-spawn the sweep" (job_linux.go:119-121): a
\* sweep of a cgroup that was frozen when it was listed, and stayed so, leaves nobody out,
\* also after the thaw and whatever is returned.
KillIsHonest ==
    /\ killed = "nil" /\ ~unread => members \subseteq doomed
    /\ killed # "none" /\ held => members \subseteq doomed

\* Kill and Close end whatever the members do.
TeardownEnds == pc = "kill" ~> pc = "closed"
=============================================================================
