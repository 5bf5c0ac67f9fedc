------------------------------ MODULE Platform ------------------------------
(***************************************************************************)
(* platform.rs: open_pty() and spawn() as the Python bindings call them.   *)
(* The build decides which backend they reach; on Unix they run to their   *)
(* end in one poll, on Windows they await in between.                      *)
(***************************************************************************)
EXTENDS UnixSpawn, WinSession

VARIABLE platform    \* the build: "unix" or "windows"

vars == <<platform, unixVars, winVars>>

\* The backend that is not built stays in one of its initial states.
UnixIsAbsent == UnixInit /\ kind = [c \in Calls |-> "open"]
WindowsIsAbsent ==
    WinInit /\ request = "open" /\ canResize /\ stored = CHOOSE size \in Sizes : TRUE

\* The functions the bindings were called for.
Init ==
    \/ platform = "unix" /\ UnixInit /\ WindowsIsAbsent
    \/ platform = "windows" /\ WinInit /\ UnixIsAbsent

\* A step of the Unix backend, or of the Windows one.
OnUnix(Step) == platform = "unix" /\ Step /\ UNCHANGED <<platform, winVars>>
OnWindows(Step) == platform = "windows" /\ Step /\ UNCHANGED <<platform, unixVars>>

Next == OnUnix(UnixNext) \/ OnWindows(WinNext)

Spec == Init /\ [][Next]_vars

\* The fairness of each backend, where it is the one that was built.  On Unix
\* the threads of the calls and the children run; nobody has to drop a
\* session, and no program has to end.  On Windows the runtime polls the call
\* and the wait, and the kernel ends a process that was terminated.
FairSpec ==
    /\ Spec
    /\ \A c \in Calls : /\ WF_vars(OnUnix(UnixCallStep(c)))
                        /\ WF_vars(OnUnix(SetupStep(c)))
    /\ WF_vars(OnWindows(CallStep))
    /\ WF_vars(OnWindows(PollWait))
    /\ WF_vars(OnWindows(ProgramDies))
=============================================================================
