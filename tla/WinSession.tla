----------------------------- MODULE WinSession -----------------------------
(***************************************************************************)
(* open_pty() and spawn() on Windows, and the session they return: two     *)
(* named pipes, a pseudoconsole and a process, each held by handles that   *)
(* the code closes by hand.  The call is a future that can be dropped      *)
(* wherever it awaits; the session's two halves are shared with the reads  *)
(* and waits in flight and close their handles with the last of them.      *)
(***************************************************************************)
EXTENDS Integers, WinCommandLine

CONSTANTS
    ExitCodes,      \* the codes a program may exit with by itself
    StillActive,    \* STILL_ACTIVE, what GetExitCodeProcess says of a running one
    NoCode,         \* no exit code
    Sizes,          \* window sizes (u16), one number standing for both sides
    Programs,       \* what spawn() is asked to run
    ArgumentLists   \* and the arguments it is given

ASSUME WinSessionAssumption ==
    /\ NoCode \notin ExitCodes \cup {StillActive, 1}
    /\ StillActive # 1
    /\ Sizes \subseteq Nat /\ Sizes # {}
    /\ \A size \in Sizes : size <= 65535
    /\ \A name \in Programs : name \in Seq(Chars) /\ ProgramName(name)
    /\ \A args \in ArgumentLists : args \in Seq(Seq(Chars))

VARIABLES
    request,   \* which function was called
    stage,     \* how far the call has come
    handles,   \* the handles open in the Python process
    users,     \* who shares the session: itself, a read, a wait
    program,   \* the process
    exitCode,  \* its exit code
    answer,    \* what wait() has answered
    stored,    \* the size that get_winsize() reports
    console,   \* the size of the pseudoconsole
    canResize  \* kernel32 has ResizePseudoConsole

winVars == <<request, stage, handles, users, program, exitCode, answer, stored, console, canResize>>

Servers == {"inServer", "outServer"}
Clients == {"inClient", "outClient"}
BackendHandles == Servers \cup {"console"}     \* WinPtyBackend
ChildHandles == {"process", "thread"}          \* WinChildProcess
BackendUsers == {"session", "reader"}
ChildUsers == {"session", "waiter"}

WinInit ==
    /\ request \in {"open", "spawn"}
    /\ stage = "start"
    /\ handles = {}
    /\ users = {}
    /\ program = "none"
    /\ exitCode = NoCode
    /\ answer = NoCode
    /\ stored \in Sizes
    /\ console = 0
    /\ canResize \in BOOLEAN

-----------------------------------------------------------------------------
(* The call.  A step that fails returns at once: the pipe servers close    *)
(* themselves, the plain handles stay open.                                *)

Goto(s) == stage' = s

\* Mutant: the servers are plain handles too.
EndsLeavingServers(how) ==
    /\ Goto(how)
    /\ UNCHANGED handles

EndsWith(how) ==
    /\ Goto(how)
    /\ handles' = handles \ Servers

\* The pointers into kernel32; they may be missing, or another thread may
\* just be storing them, in which case CreateConsole fails.
LoadConptyApi ==
    /\ stage = "start"
    /\ \/ Goto("loaded") /\ UNCHANGED handles
       \/ EndsWith("failed")
    /\ UNCHANGED <<request, users, program, exitCode, answer, stored, console, canResize>>

\* create_conpty_pipe_pair up to its await: the server, then the client.
CreatePipePair(server, client) ==
    /\ \/ stage = "loaded" /\ server = "inServer"
       \/ stage = "inConnected" /\ server = "outServer"
    /\ \/ Goto(server) /\ handles' = handles \cup {server, client}
       \/ EndsWith("failed")
    /\ UNCHANGED <<request, users, program, exitCode, answer, stored, console, canResize>>

\* connect().await
ConnectPipe(server, connected) ==
    /\ stage = server
    /\ \/ Goto(connected) /\ UNCHANGED handles
       \/ EndsWith("failed")
    /\ UNCHANGED <<request, users, program, exitCode, answer, stored, console, canResize>>

\* "as i16"; a console takes positive sizes only.
AsI16(n) == IF n < 32768 THEN n ELSE n - 65536
ConsoleTakes(n) == AsI16(n) > 0

\* CreatePseudoConsole copies the clients, so they can be closed.  open_pty()
\* ends here.
CreateConsole ==
    /\ stage = "outConnected"
    /\ \/ /\ ConsoleTakes(stored)
          /\ handles' = (handles \ Clients) \cup {"console"}
          /\ console' = stored
          /\ IF request = "open"
               THEN Goto("returned") /\ users' = {"session"}
               ELSE Goto("console") /\ UNCHANGED users
       \/ EndsWith("failed") /\ UNCHANGED <<users, console>>
    /\ UNCHANGED <<request, program, exitCode, answer, stored, canResize>>

\* The attribute list that ties the process to the console: an error leaves
\* the console.
AttributesFail ==
    /\ stage = "console"
    /\ EndsWith("failed")
    /\ UNCHANGED <<request, users, program, exitCode, answer, stored, console, canResize>>

\* CreateProcessW
CreateProcess ==
    /\ stage = "console"
    /\ \/ /\ Goto("started")
          /\ handles' = handles \cup ChildHandles
          /\ program' = "running"
       \/ EndsWith("failed") /\ UNCHANGED program
    /\ UNCHANGED <<request, users, exitCode, answer, stored, console, canResize>>

\* write_all of the answer to conhost's query, its error ignored; then the
\* backend and the child are made.
AnswerConhost ==
    /\ stage = "started"
    /\ Goto("returned")
    /\ users' = {"session"}
    /\ UNCHANGED <<request, handles, program, exitCode, answer, stored, console, canResize>>

\* The Python task is cancelled and the future dropped at its await.
CancelCall ==
    /\ stage \in Servers \cup {"started"}
    /\ EndsWith("cancelled")
    /\ UNCHANGED <<request, users, program, exitCode, answer, stored, console, canResize>>

-----------------------------------------------------------------------------
(* The session.  A reader and a waiter stand for any number of calls in    *)
(* flight, each with its own reference to its half.                        *)

\* What GetExitCodeProcess says: a program that exits with 259 looks running.
Reported == IF program = "exited" THEN exitCode ELSE StillActive

\* Mutant: whatever GetExitCodeProcess says is taken.
IsCompleteAlways == TRUE

IsComplete == Reported # StillActive

\* TerminateProcess: the process ends with code 1 a little later; it is an
\* error when it has ended already.
DoKill(state) == IF state = "running" THEN "dying" ELSE state

\* Mutant: dropping the child leaves a running program alone.
DropChildWithoutKill(state) == state

\* WinChildProcess's Drop, before it closes its handles: a program that looks
\* running is killed.
DropChild(state) == IF IsComplete THEN state ELSE DoKill(state)

\* WinPtyBackend's Drop: ClosePseudoConsole may end the program, or the
\* program may survive the event it gets.
DropBackend(state) == {state, DoKill(state)}

\* One reference goes; the last one to a half drops it.
Leave(user) ==
    /\ user \in users
    /\ users' = users \ {user}
    /\ LET backendGoes == user \in BackendUsers /\ users' \cap BackendUsers = {}
           childGoes == user \in ChildUsers /\ users' \cap ChildUsers = {}
       IN  /\ handles' = handles \ ((IF backendGoes THEN BackendHandles ELSE {})
                                       \cup (IF childGoes THEN ChildHandles ELSE {}))
           /\ \E state \in IF backendGoes THEN DropBackend(program) ELSE {program} :
                 program' = IF childGoes THEN DropChild(state) ELSE state

\* The last Python reference, or a result that nobody takes.
DropSession ==
    /\ Leave("session")
    /\ UNCHANGED <<request, stage, exitCode, answer, stored, console, canResize>>

StartRead ==
    /\ "session" \in users
    /\ users' = users \cup {"reader"}
    /\ UNCHANGED <<request, stage, handles, program, exitCode, answer, stored, console, canResize>>

\* Data, the end, or cancellation.
EndRead ==
    /\ Leave("reader")
    /\ UNCHANGED <<request, stage, exitCode, answer, stored, console, canResize>>

StartWait ==
    /\ request = "spawn"
    /\ "session" \in users
    /\ users' = users \cup {"waiter"}
    /\ UNCHANGED <<request, stage, handles, program, exitCode, answer, stored, console, canResize>>

\* wait() looks, and looks again every 50 ms.
PollWait ==
    /\ Leave("waiter")
    /\ IsComplete
    /\ answer' = Reported
    /\ UNCHANGED <<request, stage, exitCode, stored, console, canResize>>

CancelWait ==
    /\ Leave("waiter")
    /\ UNCHANGED <<request, stage, exitCode, answer, stored, console, canResize>>

\* kill(), terminate() and the signals 9 and 15.
Kill ==
    /\ request = "spawn"
    /\ "session" \in users
    /\ program' = DoKill(program)
    /\ UNCHANGED <<request, stage, handles, users, exitCode, answer, stored, console, canResize>>

\* set_winsize: ResizePseudoConsole, then the copy for get_winsize.  A refused
\* size is an error and changes neither; without ResizePseudoConsole any size
\* is only copied.
SetWinsize(size) ==
    /\ "session" \in users
    /\ \/ canResize /\ ConsoleTakes(size) /\ console' = size
       \/ ~canResize /\ UNCHANGED console
    /\ stored' = size
    /\ UNCHANGED <<request, stage, handles, users, program, exitCode, answer, canResize>>

-----------------------------------------------------------------------------
(* The process.                                                            *)

ProgramExits(code) ==
    /\ program \in {"running", "dying"}
    /\ program' = "exited"
    /\ exitCode' = code
    /\ UNCHANGED <<request, stage, handles, users, answer, stored, console, canResize>>

ProgramDies ==
    /\ program = "dying"
    /\ program' = "exited"
    /\ exitCode' = 1
    /\ UNCHANGED <<request, stage, handles, users, answer, stored, console, canResize>>

-----------------------------------------------------------------------------
CallStep ==
    \/ LoadConptyApi
    \/ CreatePipePair("inServer", "inClient") \/ ConnectPipe("inServer", "inConnected")
    \/ CreatePipePair("outServer", "outClient") \/ ConnectPipe("outServer", "outConnected")
    \/ CreateConsole \/ AttributesFail \/ CreateProcess \/ AnswerConhost

WinNext ==
    \/ CallStep \/ CancelCall
    \/ DropSession \/ StartRead \/ EndRead \/ StartWait \/ PollWait \/ CancelWait \/ Kill
    \/ \E size \in Sizes : SetWinsize(size)
    \/ \E code \in ExitCodes : ProgramExits(code)
    \/ ProgramDies

WinSpec == WinInit /\ [][WinNext]_winVars

-----------------------------------------------------------------------------
Stages == {"start", "loaded", "inServer", "inConnected", "outServer", "outConnected",
           "console", "started", "returned", "failed", "cancelled"}
Codes == ExitCodes \cup {1, NoCode}

WinTypeOK ==
    /\ request \in {"open", "spawn"}
    /\ stage \in Stages
    /\ handles \subseteq BackendHandles \cup Clients \cup ChildHandles
    /\ users \subseteq BackendUsers \cup ChildUsers
    /\ program \in {"none", "running", "dying", "exited"}
    /\ {exitCode, answer} \subseteq Codes
    /\ stored \in Sizes
    /\ console \in Sizes \cup {0}
    /\ canResize \in BOOLEAN

\* docs/ARCHITECTURE.md, FD/Handle Ownership and RAII Guarantees: a half that
\* anybody uses has all its handles -- wait() never asks about a closed one --
\* and a half that nobody uses has none.  A call that failed has left no
\* process and no server behind.  A program runs under somebody who will kill
\* it, unless its call was cancelled while it answered conhost.
NothingIsOrphaned ==
    /\ WinTypeOK
    /\ stage = "returned" =>
         handles = (IF users \cap BackendUsers = {} THEN {} ELSE BackendHandles)
                     \cup (IF request = "open" \/ users \cap ChildUsers = {}
                             THEN {} ELSE ChildHandles)
    /\ stage = "failed" => program = "none" /\ handles \cap (Servers \cup ChildHandles) = {}
    /\ program = "running" =>
         stage \in {"started", "cancelled"} \/ users \cap ChildUsers # {}

\* What the session tells is so: wait() answers only when the program is over,
\* with its own code, and with 259 never; get_winsize() reports the size of the
\* console, whatever sizes were refused, where consoles can be resized.
ReportsAreTrue ==
    /\ answer # NoCode => program = "exited" /\ answer = exitCode /\ answer # StillActive
    /\ stage = "returned" /\ canResize => stored = console

\* A session that nobody uses any more has no program (kill-on-drop, CHANGELOG
\* 0.9.1), and wait() ends after the program, unless that exited with 259.
SessionEnds ==
    /\ (stage = "returned" /\ users = {}) ~> program \in {"none", "exited"}
    /\ ("waiter" \in users /\ program = "exited" /\ exitCode # StillActive)
         ~> "waiter" \notin users

\* The program gets the arguments of spawn(), whatever has to be quoted
\* (a statement about CommandLine, made where it has just been used).
ArgumentsArrive ==
    stage = "started" =>
        \A name \in Programs, args \in ArgumentLists :
            Split(CommandLine(name, args)) = <<name>> \o args
=============================================================================
