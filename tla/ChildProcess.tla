---------------------------- MODULE ChildProcess ----------------------------
(***************************************************************************)
(* The Unix child process (src/src/platform_unix.rs): one process of the   *)
(* operating system, the reaper thread that polls waitpid for it, and the  *)
(* clones of UnixChildProcess that tasks wait on, signal and drop, all     *)
(* sharing one mutex-protected UnixChildState.                             *)
(***************************************************************************)
CONSTANTS
    Handles,   \* the UnixChildProcess values: the original and its clones
    Main,      \* the one UnixChildProcess::new returns
    Codes,     \* exit codes a child may choose
    Signals,   \* signals a caller may send; also the status of a child they end
    KILL,      \* SIGKILL, the signal a child cannot ignore
    NoStatus,  \* Option::None
    NoAnswer   \* wait() has not returned on this handle

Statuses == Codes \cup Signals

ASSUME ChildAssumption ==
    /\ Main \in Handles
    /\ KILL \in Signals
    /\ Codes \cap Signals = {}
    /\ {NoStatus, NoAnswer} \cap Statuses = {}
    /\ NoStatus # NoAnswer

VARIABLES
    child,       \* the process in the kernel
    status,      \* how it ended
    pending,     \* signals sent and not yet acted upon
    group,       \* the child has called setsid(): its process group exists
    lost,        \* history: signals that found the child but not its group
    running,     \* UnixChildState.running
    exitStatus,  \* UnixChildState.exit_status
    reaper,      \* where the reaper thread is
    found,       \* the status its last waitpid collected (NoStatus: ECHILD)
    handle,      \* what is being done with each UnixChildProcess
    answer       \* what the last completed wait() on each returned

groupVars == <<group, lost>>
kernelVars == <<child, status, pending, groupVars>>
sharedVars == <<running, exitStatus>>
reaperVars == <<reaper, found>>
vars == <<kernelVars, sharedVars, reaperVars, handle, answer>>

Live(h) == handle[h] \in {"idle", "waiting"}

Init ==
    /\ child = "alive"
    /\ status = NoStatus
    /\ pending = {}
    /\ group = FALSE
    /\ lost = {}
    /\ running = TRUE
    /\ exitStatus = NoStatus
    /\ reaper = "sleep"
    /\ found = NoStatus
    /\ handle = [h \in Handles |-> IF h = Main THEN "idle" ELSE "unborn"]
    /\ answer = [h \in Handles |-> NoAnswer]

-----------------------------------------------------------------------------
(* The operating system.  A dead process is a zombie until one waitpid     *)
(* collects it.  Signals go to the child's process group, which exists     *)
(* from its own setsid() on; kill(2) finds nobody before that, and nobody  *)
(* to act once the child is dead.                                          *)

Die(s) ==
    /\ child = "alive"
    /\ child' = "zombie"
    /\ status' = s

Exit(code) ==
    /\ Die(code)
    /\ UNCHANGED <<pending, groupVars, sharedVars, reaperVars, handle, answer>>

Deliver(s) ==
    /\ s \in pending
    /\ Die(s)
    /\ pending' = pending \ {s}
    /\ UNCHANGED <<groupVars, sharedVars, reaperVars, handle, answer>>

Ignore(s) ==
    /\ s \in pending \ {KILL}
    /\ child = "alive"
    /\ pending' = pending \ {s}
    /\ UNCHANGED <<child, status, groupVars, sharedVars, reaperVars, handle, answer>>

\* The forked child, on its way to exec.
Setsid ==
    /\ child = "alive" /\ ~group
    /\ group' = TRUE
    /\ UNCHANGED <<child, status, pending, lost, sharedVars, reaperVars, handle, answer>>

\* kill(-pgid, s).  ESRCH and EPERM are reported as success, also the ESRCH
\* of a child that is alive and has no group yet.
Send(s) ==
    /\ pending' = IF child = "alive" /\ group THEN pending \cup {s} ELSE pending
    /\ lost' = IF child = "alive" /\ ~group THEN lost \cup {s} ELSE lost
    /\ UNCHANGED <<child, status, group>>

-----------------------------------------------------------------------------
(* The reaper thread.  The mutex is free between its three steps.          *)

\* Mutant: the thread gives up once every handle is gone.
ReaperWakeWeak ==
    /\ reaper = "sleep"
    /\ reaper' = IF \A h \in Handles : handle[h] \in {"unborn", "dropped"}
                 THEN "done" ELSE "probe"
    /\ UNCHANGED <<kernelVars, sharedVars, found, handle, answer>>

ReaperWake ==
    /\ reaper = "sleep"
    /\ reaper' = IF running THEN "probe" ELSE "done"
    /\ UNCHANGED <<kernelVars, sharedVars, found, handle, answer>>

\* Mutant: StillAlive falls into the error arm.
ReaperProbeHasty ==
    /\ reaper = "probe"
    /\ reaper' = "record"
    /\ found' = IF child = "zombie" THEN status ELSE NoStatus
    /\ child' = IF child = "zombie" THEN "reaped" ELSE child
    /\ UNCHANGED <<status, pending, groupVars, sharedVars, handle, answer>>

\* waitpid(pid, WNOHANG): StillAlive, a status, or ECHILD.
ReaperProbe ==
    /\ reaper = "probe"
    /\ reaper' = IF child = "alive" THEN "sleep" ELSE "record"
    /\ found' = IF child = "zombie" THEN status ELSE NoStatus
    /\ child' = IF child = "zombie" THEN "reaped" ELSE child
    /\ UNCHANGED <<status, pending, groupVars, sharedVars, handle, answer>>

\* Mutant: the flag and the status are written under two locks.
ReaperRecordTorn ==
    /\ reaper = "record"
    /\ running' = FALSE
    /\ reaper' = IF running THEN "record" ELSE "done"
    /\ exitStatus' = IF running \/ found = NoStatus THEN exitStatus ELSE found
    /\ UNCHANGED <<kernelVars, found, handle, answer>>

\* Mutant: the Signaled arm stores no status.
ReaperRecordCodesOnly ==
    /\ reaper = "record"
    /\ reaper' = "done"
    /\ running' = FALSE
    /\ exitStatus' = IF found \in Codes THEN found ELSE exitStatus
    /\ UNCHANGED <<kernelVars, found, handle, answer>>

ReaperRecord ==
    /\ reaper = "record"
    /\ reaper' = "done"
    /\ running' = FALSE
    /\ exitStatus' = IF found = NoStatus THEN exitStatus ELSE found
    /\ UNCHANGED <<kernelVars, found, handle, answer>>

ReaperStep == ReaperWake \/ ReaperProbe \/ ReaperRecord

-----------------------------------------------------------------------------
(* The handles.                                                            *)

BeginWait(h) ==
    /\ handle[h] = "idle"
    /\ handle' = [handle EXCEPT ![h] = "waiting"]
    /\ UNCHANGED <<kernelVars, sharedVars, reaperVars, answer>>

\* Mutant: wait() insists on a status.
EndWaitWithStatus(h) ==
    /\ handle[h] = "waiting"
    /\ ~running /\ exitStatus # NoStatus
    /\ handle' = [handle EXCEPT ![h] = "idle"]
    /\ answer' = [answer EXCEPT ![h] = exitStatus]
    /\ UNCHANGED <<kernelVars, sharedVars, reaperVars>>

\* One turn of the 20 ms loop that finds the child not running.
EndWait(h) ==
    /\ handle[h] = "waiting"
    /\ ~running
    /\ handle' = [handle EXCEPT ![h] = "idle"]
    /\ answer' = [answer EXCEPT ![h] = exitStatus]
    /\ UNCHANGED <<kernelVars, sharedVars, reaperVars>>

\* signal() and kill() never consult `running`, nor does a blocked wait()
\* keep another task from calling them.
Signal(h, s) ==
    /\ Live(h)
    /\ Send(s)
    /\ UNCHANGED <<sharedVars, reaperVars, handle, answer>>

CloneKiller(h, k) ==
    /\ Live(h)
    /\ handle[k] = "unborn"
    /\ handle' = [handle EXCEPT ![k] = "idle"]
    /\ UNCHANGED <<kernelVars, sharedVars, reaperVars, answer>>

\* Drop: is_running(), then SIGKILL, then poll waitpid until the child is
\* collected, by this loop or by someone else (ECHILD).  It never writes
\* the shared state.
BeginDrop(h) ==
    /\ handle[h] = "idle"
    /\ handle' = [handle EXCEPT ![h] = IF running THEN "killing" ELSE "dropped"]
    /\ UNCHANGED <<kernelVars, sharedVars, reaperVars, answer>>

DropKill(h) ==
    /\ handle[h] = "killing"
    /\ Send(KILL)
    /\ handle' = [handle EXCEPT ![h] = "reaping"]
    /\ UNCHANGED <<sharedVars, reaperVars, answer>>

\* Mutant: Drop asks waitpid once.
DropReapOnce(h) ==
    /\ handle[h] = "reaping"
    /\ child' = IF child = "zombie" THEN "reaped" ELSE child
    /\ handle' = [handle EXCEPT ![h] = "dropped"]
    /\ UNCHANGED <<status, pending, groupVars, sharedVars, reaperVars, answer>>

DropReap(h) ==
    /\ handle[h] = "reaping"
    /\ child # "alive"
    /\ child' = "reaped"
    /\ handle' = [handle EXCEPT ![h] = "dropped"]
    /\ UNCHANGED <<status, pending, groupVars, sharedVars, reaperVars, answer>>

HandleStep(h) ==
    \/ BeginWait(h)
    \/ EndWait(h)
    \/ \E s \in Signals : Signal(h, s)
    \/ \E k \in Handles : CloneKiller(h, k)
    \/ BeginDrop(h)
    \/ DropKill(h)
    \/ DropReap(h)

Next ==
    \/ \E c \in Codes : Exit(c)
    \/ \E s \in Signals : Deliver(s)
    \/ \E s \in Signals : Ignore(s)
    \/ Setsid
    \/ ReaperStep
    \/ \E h \in Handles : HandleStep(h)

Spec == Init /\ [][Next]_vars

\* The two OS threads keep running, and the kernel acts on SIGKILL.  Nothing
\* makes a child exit by itself, nor a task call anything.
Fairness ==
    /\ WF_vars(ReaperStep)
    /\ WF_vars(Deliver(KILL))
    /\ \A h \in Handles : WF_vars(EndWait(h) \/ DropKill(h) \/ DropReap(h))

FairSpec == Spec /\ Fairness

-----------------------------------------------------------------------------
TypeOK ==
    /\ child \in {"alive", "zombie", "reaped"}
    /\ status \in Statuses \cup {NoStatus}
    /\ pending \subseteq Signals
    /\ group \in BOOLEAN
    /\ lost \subseteq Signals
    /\ running \in BOOLEAN
    /\ exitStatus \in Statuses \cup {NoStatus}
    /\ reaper \in {"sleep", "probe", "record", "done"}
    /\ found \in Statuses \cup {NoStatus}
    /\ handle \in [Handles -> {"unborn", "idle", "waiting", "killing",
                               "reaping", "dropped"}]
    /\ answer \in [Handles -> Statuses \cup {NoStatus, NoAnswer}]

\* No zombie is left behind an is_running() that says FALSE: the process has
\* been collected before the flag is cleared.
NotRunningMeansReaped == ~running => child = "reaped"

\* Every wait() that returned, on whichever handle and whenever, reported the
\* one status the child ended with, or None on all of them.
AnswersAgree ==
    \A g, h \in Handles :
        answer[g] # NoAnswer =>
            /\ answer[g] \in {status, NoStatus}
            /\ answer[h] # NoAnswer => answer[g] = answer[h]

\* The status is lost (wait() answers None for a child of ours) only to a
\* Drop that collected the child before the reaper thread did.
StatusLostOnlyToDrop ==
    (~running /\ exitStatus = NoStatus) => \E h \in Handles : handle[h] = "dropped"

\* Drop returns only when the child is dead and collected, whichever of the
\* racing waitpid loops collected it.
DroppedMeansReaped ==
    (\E h \in Handles : handle[h] = "dropped") => child = "reaped"

\* The verdict is final: once not running, neither field changes again.
VerdictIsFinal == [][~running => UNCHANGED sharedVars]_vars

\* The reaper thread notices every death, also of a child a Drop collected.
DeathIsNoticed == (child # "alive") ~> ~running

\* The SIGKILL of a Drop has reached the child, or will: a SIGKILL sent before
\* the child's setsid() is lost, and a Drop that sent it polls for as long as
\* the child cares to live.
Doomed == child # "alive" \/ KILL \in pending
DropEnds(h) ==
    \/ handle[h] = "killing" /\ (group \/ Doomed)
    \/ handle[h] = "reaping" /\ Doomed

\* A wait() on a dead child returns, and Drop comes back, also from a child
\* that ignores every other signal, if that child had its process group when
\* the SIGKILL was sent.
CallsReturn ==
    \A h \in Handles :
        /\ (handle[h] = "waiting" /\ child # "alive") ~> (handle[h] = "idle")
        /\ DropEnds(h) ~> (handle[h] = "dropped")

\* The child as its watchers see it.
Promise == INSTANCE ChildPromise
ImplementsPromise == Promise!Spec
=============================================================================
