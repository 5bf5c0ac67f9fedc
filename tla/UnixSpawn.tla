----------------------------- MODULE UnixSpawn ------------------------------
(***************************************************************************)
(* Opening a PTY and spawning a child on Unix, one system call at a time:  *)
(* the descriptor table of the Python process, in which several calls and  *)
(* other threads open and close files, and the tables of the children that *)
(* fork() copies from it.  A descriptor number is reused as soon as it is  *)
(* closed.  What a child does after exec is in ChildProcess.               *)
(***************************************************************************)
EXTENDS Integers

CONSTANTS
    Calls,     \* concurrent calls of open_pty() or spawn()
    None,      \* no call: the owner of a file that is not an end of a PTY
    MaxFd,     \* bound: the largest descriptor number
    OpenMax    \* sysconf(_SC_OPEN_MAX) of the children

\* The kernel gives out no number that is not below the limit.
ASSUME UnixSpawnAssumption ==
    /\ None \notin Calls
    /\ {MaxFd, OpenMax} \subseteq Nat
    /\ 3 <= MaxFd /\ MaxFd < OpenMax

VARIABLES
    fds,      \* fds[c]: the table of c's child; fds[None]: of the Python process
    call,     \* how far each call has come
    kind,     \* which function it is
    pair,     \* its PtyPair: the numbers of master and slave
    child,    \* how far its child has come, "none" before the fork
    foreign   \* the number of a file another thread has open, or NoFd

unixVars == <<fds, call, kind, pair, child, foreign>>

Fds == 0..MaxFd
NoFd == -1
StdFds == 0..2

\* What a descriptor refers to: an end of the PTY of a call, or another file.
File(end, c) == [end |-> end, pty |-> c]
Free == File("free", None)
Std == File("std", None)
Other == File("other", None)
Master(c) == File("master", c)
Slave(c) == File("slave", c)
Files == {Free, Std, Other} \cup {Master(c) : c \in Calls} \cup {Slave(c) : c \in Calls}

\* The Python process has its standard descriptors.
UnixInit ==
    /\ fds = [p \in Calls \cup {None} |->
                [n \in Fds |-> IF p = None /\ n \in StdFds THEN Std ELSE Free]]
    /\ call = [c \in Calls |-> "idle"]
    /\ kind \in [Calls -> {"open", "spawn"}]
    /\ pair = [c \in Calls |-> [master |-> NoFd, slave |-> NoFd]]
    /\ child = [c \in Calls |-> "none"]
    /\ foreign = NoFd

FreeFds(p) == {n \in Fds : fds[p][n] = Free}

\* The lowest number of S, and nothing when S is empty.
Lowest(S) == {n \in S : \A m \in S : n <= m}

\* close() of a set of numbers by process p; an unused number is ignored.
Closed(p, numbers) ==
    [fds EXCEPT ![p] = [n \in Fds |-> IF n \in numbers THEN Free ELSE fds[p][n]]]

CallGoto(c, s) == call' = [call EXCEPT ![c] = s]

-----------------------------------------------------------------------------
(* Another thread of the Python process uses files of its own.             *)

ForeignOpens ==
    /\ foreign = NoFd
    /\ \E n \in Lowest(FreeFds(None)) :
         /\ fds' = [fds EXCEPT ![None][n] = Other]
         /\ foreign' = n
    /\ UNCHANGED <<call, kind, pair, child>>

ForeignCloses ==
    /\ foreign # NoFd
    /\ fds' = Closed(None, {foreign})
    /\ foreign' = NoFd
    /\ UNCHANGED <<call, kind, pair, child>>

-----------------------------------------------------------------------------
(* The call in the Python process.                                         *)

\* validate_cwd: a cwd that is no directory ends spawn() before anything else.
CwdIsRefused(c) ==
    /\ call[c] = "idle"
    /\ kind[c] = "spawn"
    /\ CallGoto(c, "failed")
    /\ UNCHANGED <<fds, kind, pair, child, foreign>>

\* openpty(3) takes the two lowest free numbers.  If fcntl then fails to make
\* the master non-blocking, there is no PtyPair yet to close them.
OpenPair(c) ==
    /\ call[c] = "idle"
    /\ \E m \in Lowest(FreeFds(None)) : \E s \in Lowest(FreeFds(None) \ {m}) :
         /\ fds' = [fds EXCEPT ![None][m] = Master(c), ![None][s] = Slave(c)]
         /\ pair' = [pair EXCEPT ![c] = [master |-> m, slave |-> s]]
    /\ CallGoto(c, "opened") \/ CallGoto(c, "leaked")
    /\ UNCHANGED <<kind, child, foreign>>

\* openpty(3) fails, for want of descriptors or of terminals.
OpenPairFails(c) ==
    /\ call[c] = "idle"
    /\ CallGoto(c, "failed")
    /\ UNCHANGED <<fds, kind, pair, child, foreign>>

Numbers(c) == {pair[c].master, pair[c].slave}

\* Mutant: only the master is closed.
DropPairMasterOnly(c) ==
    /\ fds' = Closed(None, {pair[c].master})
    /\ CallGoto(c, "failed")

\* An error while the PtyPair exists drops it.
DropPair(c) ==
    /\ fds' = Closed(None, Numbers(c))
    /\ CallGoto(c, "failed")

\* PreparedCommand::new and the cwd string: a NUL byte is an error.
Prepare(c) ==
    /\ call[c] = "opened"
    /\ kind[c] = "spawn"
    /\ \/ CallGoto(c, "prepared") /\ UNCHANGED fds
       \/ DropPair(c)
    /\ UNCHANGED <<kind, pair, child, foreign>>

\* fork() gives the child a copy of everything that is open, the PTYs of the
\* other calls included.
Fork(c) ==
    /\ call[c] = "prepared"
    /\ \/ /\ fds' = [fds EXCEPT ![c] = fds[None]]
          /\ child' = [child EXCEPT ![c] = "forked"]
          /\ CallGoto(c, "forked")
       \/ /\ DropPair(c)
          /\ UNCHANGED child
    /\ UNCHANGED <<kind, pair, foreign>>

\* Mutant: the Python process keeps its slave.
KeepSlave(c) ==
    /\ \/ call[c] = "forked"
       \/ call[c] = "opened" /\ kind[c] = "open"
    /\ CallGoto(c, "bare")
    /\ UNCHANGED <<fds, kind, pair, child, foreign>>

\* The slave belongs to the child, and to nobody after open_pty().
CloseSlave(c) ==
    /\ \/ call[c] = "forked"
       \/ call[c] = "opened" /\ kind[c] = "open"
    /\ fds' = Closed(None, {pair[c].slave})
    /\ CallGoto(c, "bare")
    /\ UNCHANGED <<kind, pair, child, foreign>>

\* Mutant: the pair is dropped at the end of the function as well.
RegisterAndDropPair(c) ==
    /\ call[c] = "bare"
    /\ fds' = Closed(None, {pair[c].slave})
    /\ CallGoto(c, "returned")
    /\ UNCHANGED <<kind, pair, child, foreign>>

\* The pair is forgotten and AsyncFd registers the master.  An error leaves
\* the master open and a child without a reaper.
Register(c) ==
    /\ call[c] = "bare"
    /\ CallGoto(c, "returned") \/ CallGoto(c, "leaked")
    /\ UNCHANGED <<fds, kind, pair, child, foreign>>

\* UnixPtyMaster's Drop, when the session or an undelivered result goes.
DropMaster(c) ==
    /\ call[c] = "returned"
    /\ fds' = Closed(None, {pair[c].master})
    /\ CallGoto(c, "dropped")
    /\ UNCHANGED <<kind, pair, child, foreign>>

-----------------------------------------------------------------------------
(* The child, from fork() to exec.                                         *)

ChildGoto(c, s) == child' = [child EXCEPT ![c] = s]

\* _exit(), or death: the kernel closes what the process had open.
ChildExits(c) ==
    /\ child[c] \notin {"none", "exited"}
    /\ fds' = Closed(c, Fds)
    /\ ChildGoto(c, "exited")
    /\ UNCHANGED <<call, kind, pair, foreign>>

\* setsid and TIOCSCTTY on the slave.
MakeSession(c) ==
    /\ child[c] = "forked"
    /\ fds[c][pair[c].slave] = Slave(c)

\* Mutant: only the own PTY is looked after.
CloseRandomFdsNone(c) ==
    /\ MakeSession(c)
    /\ ChildGoto(c, "alone")
    /\ UNCHANGED <<fds, call, kind, pair, foreign>>

\* The session, then close_random_fds_async_signal_safe: all numbers from 3
\* to the limit but the pair.
CloseRandomFds(c) ==
    /\ MakeSession(c)
    /\ fds' = Closed(c, {n \in Fds : 3 <= n /\ n < OpenMax} \ Numbers(c))
    /\ ChildGoto(c, "alone")
    /\ UNCHANGED <<call, kind, pair, foreign>>

\* dup2 of the slave to 0, 1 and 2.
DupSlave(c) ==
    /\ child[c] = "alone"
    /\ fds' = [fds EXCEPT ![c] =
                 [n \in Fds |-> IF n \in StdFds THEN fds[c][pair[c].slave] ELSE fds[c][n]]]
    /\ ChildGoto(c, "duped")
    /\ UNCHANGED <<call, kind, pair, foreign>>

\* Both numbers of the pair are closed, then chdir and exec; when these fail
\* the child ends, as in ChildExits.
Exec(c) ==
    /\ child[c] = "duped"
    /\ fds' = Closed(c, Numbers(c))
    /\ ChildGoto(c, "running")
    /\ UNCHANGED <<call, kind, pair, foreign>>

-----------------------------------------------------------------------------
UnixCallStep(c) ==
    \/ CwdIsRefused(c) \/ OpenPair(c) \/ OpenPairFails(c)
    \/ Prepare(c) \/ Fork(c) \/ CloseSlave(c) \/ Register(c)

SetupStep(c) ==
    \/ CloseRandomFds(c) \/ DupSlave(c) \/ Exec(c)

UnixNext ==
    \/ \E c \in Calls : UnixCallStep(c) \/ DropMaster(c) \/ SetupStep(c) \/ ChildExits(c)
    \/ ForeignOpens
    \/ ForeignCloses

UnixSpec == UnixInit /\ [][UnixNext]_unixVars

-----------------------------------------------------------------------------
CallStages == {"idle", "opened", "prepared", "forked", "bare",
               "returned", "failed", "leaked", "dropped"}
ChildStages == {"none", "forked", "alone", "duped", "running", "exited"}

UnixTypeOK ==
    /\ fds \in [Calls \cup {None} -> [Fds -> Files]]
    /\ call \in [Calls -> CallStages]
    /\ kind \in [Calls -> {"open", "spawn"}]
    /\ pair \in [Calls -> [master : Fds \cup {NoFd}, slave : Fds \cup {NoFd}]]
    /\ child \in [Calls -> ChildStages]
    /\ foreign \in Fds \cup {NoFd}

\* The numbers under which process p holds file f.
HeldAt(p, f) == {n \in Fds : fds[p][n] = f}

\* A number is closed by its owner only: the file of another thread stays
\* open until that thread closes it, and the master of a session until the
\* session is dropped, although both may sit on numbers that a PTY had before.
OnlyOwnersClose ==
    /\ UnixTypeOK
    /\ foreign # NoFd => fds[None][foreign] = Other
    /\ \A c \in Calls : call[c] = "returned" => fds[None][pair[c].master] = Master(c)

\* docs/ARCHITECTURE.md, FD/Handle Ownership: a call that succeeded has left
\* the master in the Python process and nothing else; one that failed, or a
\* session that is gone, nothing at all.  (A failing fcntl or registration
\* ends as "leaked".)
NothingIsLeft ==
    \A c \in Calls :
        /\ call[c] = "returned" =>
             /\ HeldAt(None, Master(c)) = {pair[c].master}
             /\ HeldAt(None, Slave(c)) = {}
        /\ call[c] \in {"failed", "dropped"} =>
             HeldAt(None, Master(c)) \cup HeldAt(None, Slave(c)) = {}

\* A program starts with its own terminal on 0, 1 and 2 and without any
\* other descriptor, of its own PTY, of a PTY opened at the same time or of
\* the Python process.
ChildHasItsTerminalOnly ==
    \A c \in Calls :
        child[c] = "running" =>
            \A n \in Fds : fds[c][n] = IF n \in StdFds THEN Slave(c) ELSE Free

\* Once a child has exited, the last copy of its slave disappears, so that
\* read() on the master reports the end; the copies that children forked at
\* the same time have inherited do not outlive their setup.
HangupReachesMaster ==
    \A c \in Calls :
        (child[c] = "exited") ~>
            \A p \in Calls \cup {None} : HeldAt(p, Slave(c)) = {}
=============================================================================
