------------------------------ MODULE Container ------------------------------
(***************************************************************************)
(* The promise a processkit Group makes, with no lock, no operating system *)
(* and no goroutine in it: a kill-on-drop container.                       *)
(*                                                                         *)
(* A container is open, then closing, then closed.  The processes the      *)
(* program itself puts in (Direct: started or adopted) enter only while it *)
(* is open.  The processes those spawn may enter as long as it is not      *)
(* closed.  Anybody may leave at any time.  The kill of a close may fail   *)
(* on some members: they are spared, and so is what they spawn.  A closed  *)
(* container holds nobody else, and nobody else ever enters it.            *)
(*                                                                         *)
(* Group.tla implements this module (Group!ImplementsContainer), and so    *)
(* does the Job Object of WinJob.tla, which spares nobody                  *)
(* (WinImplementsContainer).                                               *)
(***************************************************************************)
CONSTANTS Direct,    \* processes the program starts in, or adopts into, the group
          Indirect   \* processes that members spawn

VARIABLES members,   \* the live processes in the container
          spared,    \* those that the kill of a close could not end, and their progeny
          phase      \* "open", "closing" or "closed"

cvars == <<members, spared, phase>>

Phases == {"open", "closing", "closed"}

CTypeOK ==
    /\ members \subseteq Direct \cup Indirect
    /\ spared \subseteq members
    /\ phase \in Phases

CInit ==
    /\ members = {}
    /\ spared = {}
    /\ phase = "open"

\* A process, with whatever it has spawned already, comes under the container.
Enter(S) ==
    /\ phase # "closed"
    /\ S \cap Direct # {} => phase = "open"
    /\ members' = members \cup S
    /\ UNCHANGED <<spared, phase>>

\* Members exit, are killed, or (a POSIX process group only) walk away.
Leave(S) ==
    /\ members' = members \ S
    /\ spared' = spared \ S
    /\ UNCHANGED phase

\* A spared member spawns, at any time.
Breed(S) ==
    /\ spared # {}
    /\ S \subseteq Indirect
    /\ members' = members \cup S
    /\ spared' = spared \cup S
    /\ UNCHANGED phase

BeginClose ==
    /\ phase = "open"
    /\ phase' = "closing"
    /\ UNCHANGED <<members, spared>>

\* The kill takes some members and fails on others.
Kill(Taken, Left) ==
    /\ phase = "closing"
    /\ Left \subseteq members
    /\ members' = members \ Taken
    /\ spared' = (spared \cup Left) \ Taken
    /\ UNCHANGED phase

\* The release leaves only the spared in it: all others have left before, or the release
\* itself ends them (a Job Object whose last handle is closed).
FinishClose ==
    /\ phase = "closing"
    /\ phase' = "closed"
    /\ members' = spared
    /\ UNCHANGED spared

CNext ==
    \/ \E S \in SUBSET (Direct \cup Indirect) : Enter(S) \/ Leave(S) \/ Breed(S)
    \/ \E Taken, Left \in SUBSET (Direct \cup Indirect) : Kill(Taken, Left)
    \/ BeginClose
    \/ FinishClose

CSpec == CInit /\ [][CNext]_cvars

-----------------------------------------------------------------------------
\* What a caller of Close relies on: all that a closed container holds is spared.
ClosedHoldsTheSpared == phase = "closed" => members = spared
=============================================================================
