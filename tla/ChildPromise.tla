---------------------------- MODULE ChildPromise ----------------------------
(***************************************************************************)
(* What the crate promises about a child process to the tasks that watch   *)
(* it through ChildBackend (src/src/platform.rs): the process ends once,   *)
(* the library concludes so at most once and never before it happened, the *)
(* verdict is the real status or "already reaped", and every wait() that   *)
(* returns reports that one verdict.                                       *)
(***************************************************************************)
CONSTANTS
    Handles,   \* the UnixChildProcess values tasks wait on
    Statuses,  \* how a process can end: an exit code or a signal
    NoStatus,  \* Option::None
    NoAnswer   \* wait() has not returned on this handle

VARIABLES
    status,      \* how the process ended, as the operating system knows it
    running,     \* is_running()
    exitStatus,  \* the verdict the library keeps
    answer       \* what the last completed wait() returned, by handle

vars == <<status, running, exitStatus, answer>>

Init ==
    /\ status = NoStatus
    /\ running = TRUE
    /\ exitStatus = NoStatus
    /\ answer = [h \in Handles |-> NoAnswer]

End(s) ==
    /\ status = NoStatus
    /\ status' = s
    /\ UNCHANGED <<running, exitStatus, answer>>

Conclude(verdict) ==
    /\ running
    /\ status # NoStatus
    /\ running' = FALSE
    /\ exitStatus' = verdict
    /\ UNCHANGED <<status, answer>>

Answer(h) ==
    /\ ~running
    /\ answer' = [answer EXCEPT ![h] = exitStatus]
    /\ UNCHANGED <<status, running, exitStatus>>

Next ==
    \/ \E s \in Statuses : End(s)
    \/ \E verdict \in {status, NoStatus} : Conclude(verdict)
    \/ \E h \in Handles : Answer(h)

Spec == Init /\ [][Next]_vars
=============================================================================
