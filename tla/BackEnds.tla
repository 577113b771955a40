------------------------------ MODULE BackEnds ------------------------------
(***************************************************************************)
(* The contract of sys.Job (internal/sys/sys.go): the same promises of two *)
(* back ends, of which a build has one.  The other one stays in its        *)
(* initial state.                                                          *)
(***************************************************************************)
EXTENDS CgroupJob, WinJob

VARIABLE platform

allVars == <<platform, vars, winVars>>

\* The caps are asked of the back end that there is.
BackEndsInit ==
    /\ Init /\ WinInit
    /\ \/ platform = "linux" /\ wanted = {}
       \/ platform = "windows" /\ want = {} /\ enabled = {}

Linux == platform = "linux" /\ Next /\ UNCHANGED <<platform, winVars>>
Windows == platform = "windows" /\ WinNext /\ UNCHANGED <<platform, vars>>

BackEndsSpec ==
    /\ BackEndsInit /\ [][Linux \/ Windows]_allVars
    /\ WF_vars(platform = "linux" /\ Code) /\ WF_vars(platform = "linux" /\ Kernel)
    /\ WF_winVars(platform = "windows" /\ Calls)

-----------------------------------------------------------------------------

\* "Fails fast rather than hand back an uncapped tree the caller believes is capped"
\* (job_linux.go:24-25), on either platform: a cap that was asked for holds before the
\* first process is in, and a failed attempt leaves neither a directory nor a handle.
CapsAreInForce == NeverUncapped /\ WinNeverUncapped

\* Starting, adopting, killing and closing end, whatever the processes do and whichever
\* of the system's calls fail.
EveryCallEnds == TeardownEnds /\ WinCallsEnd
=============================================================================
