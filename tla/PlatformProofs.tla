--------------------------- MODULE PlatformProofs ---------------------------
(***************************************************************************)
(* Proofs about Platform: of each backend an inductive invariant, and that *)
(* whichever is built, Platform behaves as UnixSpawn and as WinSession do  *)
(* -- the other one only stutters -- so that what follows from those       *)
(* invariants holds of the bindings: for any number of calls and any size  *)
(* of the descriptor tables on Unix, and for any exit codes and window     *)
(* sizes of a session on Windows.  And a program started on Windows gets   *)
(* its arguments, whatever they are: what is written for one is read back, *)
(* character by character.                                                 *)
(***************************************************************************)
EXTENDS Platform, SequenceFacts, TLAPS

-----------------------------------------------------------------------------
(* Descriptors on Unix.                                                    *)

\* The standard descriptors of the Python process are nobody's to close, and
\* the other thread has one file at most.
OthersInv ==
    /\ \A n \in StdFds : fds[None][n] = Std
    /\ \A n \in Fds : fds[None][n] = Other <=> n = foreign

\* A call has its master from openpty to the Drop, under one number, and its
\* slave from openpty to the close that follows the fork.
HoldsMaster(c) == call[c] \in {"opened", "prepared", "forked", "bare", "returned"}
HoldsSlave(c) == call[c] \in {"opened", "prepared", "forked"}

PairOK(c) ==
    /\ HoldsMaster(c) => pair[c].master \in Fds /\ fds[None][pair[c].master] = Master(c)
    /\ HoldsSlave(c) => pair[c].slave \in Fds /\ fds[None][pair[c].slave] = Slave(c)
    /\ \A n \in Fds : fds[None][n] = Master(c) =>
         n = pair[c].master /\ (HoldsMaster(c) \/ call[c] = "leaked")
    /\ \A n \in Fds : fds[None][n] = Slave(c) =>
         n = pair[c].slave /\ (HoldsSlave(c) \/ call[c] = "leaked")

PairInv == \A c \in Calls : PairOK(c)

\* A child has its pair where the call has it, above the standard numbers,
\* until it runs its program; what it inherited besides goes before the dup2.
ChildOK(c) ==
    /\ child[c] # "none" => call[c] \notin {"idle", "opened", "prepared"}
    /\ child[c] \in {"forked", "alone", "duped"} =>
         /\ Numbers(c) \subseteq Fds \ StdFds
         /\ fds[c][pair[c].slave] = Slave(c)
    /\ child[c] \in {"alone", "duped"} =>
         \A n \in Fds : n \notin StdFds \cup Numbers(c) => fds[c][n] = Free
    /\ child[c] = "duped" => \A n \in StdFds : fds[c][n] = Slave(c)
    /\ child[c] = "running" =>
         \A n \in Fds : fds[c][n] = IF n \in StdFds THEN Slave(c) ELSE Free

ChildInv == \A c \in Calls : ChildOK(c)

UnixInv == UnixTypeOK /\ OthersInv /\ PairInv /\ ChildInv

-----------------------------------------------------------------------------
\* Different files are told apart.
LEMMA FilesDiffer ==
    /\ \A c, d \in Calls : /\ (Master(c) = Master(d)) => c = d
                           /\ (Slave(c) = Slave(d)) => c = d
                           /\ Master(c) # Slave(d)
    /\ \A c \in Calls : Master(c) \notin {Free, Std, Other} /\ Slave(c) \notin {Free, Std, Other}
    /\ Std # Free /\ Other # Free /\ Other # Std
  BY DEF Master, Slave, Free, Std, Other, File

\* The initial states satisfy the invariant.
LEMMA UnixInitEstablishes == UnixInit => UnixInv
<1>. SUFFICES ASSUME UnixInit PROVE UnixInv
    OBVIOUS
<1>. USE UnixSpawnAssumption DEF UnixInit
<1>1. UnixTypeOK
    BY DEF UnixTypeOK, Files, CallStages, ChildStages, Fds, NoFd
<1>2. OthersInv
    BY FilesDiffer DEF OthersInv, Fds, StdFds, NoFd
<1>3. PairInv
    BY FilesDiffer DEF PairInv, PairOK, HoldsMaster, HoldsSlave
<1>4. ChildInv
    BY DEF ChildInv, ChildOK
<1>. QED
    BY <1>1, <1>2, <1>3, <1>4 DEF UnixInv

-----------------------------------------------------------------------------
(* What the steps do to the tables.                                        *)

Processes == Calls \cup {None}

\* close() takes numbers from one process and leaves everything else.
LEMMA CloseFacts ==
    ASSUME NEW p \in Processes, NEW numbers \in SUBSET Int, UnixTypeOK, fds' = Closed(p, numbers)
    PROVE  /\ fds' \in [Processes -> [Fds -> Files]]
           /\ \A q \in Processes : q # p => fds'[q] = fds[q]
           /\ \A n \in Fds : n \in numbers => fds'[p][n] = Free
           /\ \A n \in Fds : n \notin numbers => fds'[p][n] = fds[p][n]
<1>1. Free \in Files
    BY DEF Files
<1>. QED
    BY <1>1 DEF UnixTypeOK, Closed, Processes

\* What is said of a call's pair stands while the call, its numbers and its
\* files stay.
LEMMA PairKept ==
    ASSUME NEW c \in Calls, PairOK(c),
           call'[c] = call[c], pair'[c] = pair[c],
           \A n \in Fds : (fds'[None][n] = Master(c)) <=> (fds[None][n] = Master(c)),
           \A n \in Fds : (fds'[None][n] = Slave(c)) <=> (fds[None][n] = Slave(c))
    PROVE  PairOK(c)'
  BY DEF PairOK, HoldsMaster, HoldsSlave

\* What is said of a child stands while the child, its numbers and its table
\* stay and the call does not start again.
LEMMA ChildKept ==
    ASSUME NEW c \in Calls, ChildOK(c),
           child'[c] = child[c], pair'[c] = pair[c], fds'[c] = fds[c],
           call'[c] = call[c] \/ call'[c] \notin {"idle", "opened", "prepared"}
    PROVE  ChildOK(c)'
  BY DEF ChildOK, Numbers

-----------------------------------------------------------------------------
(* The steps of another thread.                                            *)

\* Another thread's open() takes a number that nobody has.
LEMMA ForeignOpensPreserves ==
    ASSUME UnixInv, ForeignOpens PROVE UnixInv'
<1>. USE UnixSpawnAssumption
<1>. USE DEF UnixInv
<1>1. foreign' \in Fds /\ fds[None][foreign'] = Free
    BY DEF ForeignOpens, Lowest, FreeFds
<1>2. /\ fds' \in [Processes -> [Fds -> Files]]
      /\ \A c \in Calls : fds'[c] = fds[c]
      /\ fds'[None][foreign'] = Other
      /\ \A n \in Fds : n # foreign' => fds'[None][n] = fds[None][n]
    <2>1. fds' = [fds EXCEPT ![None][foreign'] = Other]
        BY DEF ForeignOpens
    <2>. QED
        BY <1>1, <2>1 DEF UnixTypeOK, Processes, Files
<1>3. UnixTypeOK'
    BY <1>1, <1>2 DEF ForeignOpens, UnixTypeOK, Processes
<1>4. OthersInv'
    BY <1>1, <1>2, FilesDiffer DEF ForeignOpens, OthersInv, StdFds, Fds, NoFd
<1>5. PairInv'
    <2>. SUFFICES ASSUME NEW c \in Calls PROVE PairOK(c)'
        BY DEF PairInv
    <2>. QED
        BY <1>1, <1>2, FilesDiffer, PairKept DEF ForeignOpens, PairInv
<1>6. ChildInv'
    BY <1>2, ChildKept DEF ForeignOpens, ChildInv
<1>. QED
    BY <1>3, <1>4, <1>5, <1>6

\* Another thread's close() takes its own file.
LEMMA ForeignClosesPreserves ==
    ASSUME UnixInv, ForeignCloses PROVE UnixInv'
<1>. USE UnixSpawnAssumption
<1>. USE DEF UnixInv
<1>1. foreign \in Fds /\ fds[None][foreign] = Other
    BY DEF ForeignCloses, OthersInv, UnixTypeOK, NoFd
<1>2. /\ fds' \in [Processes -> [Fds -> Files]]
      /\ \A c \in Calls : fds'[c] = fds[c]
      /\ fds'[None][foreign] = Free
      /\ \A n \in Fds : n # foreign => fds'[None][n] = fds[None][n]
    <2>1. None \in Processes /\ \A c \in Calls : c \in Processes /\ c # None
        BY DEF Processes
    <2>2. fds' = Closed(None, {foreign}) /\ {foreign} \in SUBSET Int
        BY <1>1 DEF ForeignCloses, Fds
    <2>. QED
        BY <1>1, <2>1, <2>2, CloseFacts, ZenonT(60)
<1>3. UnixTypeOK'
    BY <1>2 DEF ForeignCloses, UnixTypeOK, Processes
<1>4. OthersInv'
    <2>1. \A n \in StdFds : n \in Fds /\ fds'[None][n] = Std
        BY <1>1, <1>2, FilesDiffer DEF OthersInv, StdFds, Fds
    <2>2. \A n \in Fds : fds'[None][n] # Other
        BY <1>1, <1>2, FilesDiffer DEF OthersInv
    <2>3. foreign' \notin Fds
        BY DEF ForeignCloses, Fds, NoFd
    <2>. QED
        BY <2>1, <2>2, <2>3 DEF OthersInv
<1>5. PairInv'
    <2>. SUFFICES ASSUME NEW c \in Calls PROVE PairOK(c)'
        BY DEF PairInv
    <2>. QED
        BY <1>1, <1>2, FilesDiffer, PairKept DEF ForeignCloses, PairInv
<1>6. ChildInv'
    BY <1>2, ChildKept DEF ForeignCloses, ChildInv
<1>. QED
    BY <1>3, <1>4, <1>5, <1>6

-----------------------------------------------------------------------------
(* The steps of a call.                                                    *)

\* Steps that move a call and open or close nothing.
LEMMA QuietStepPreserves ==
    ASSUME UnixInv, NEW c \in Calls, CwdIsRefused(c) \/ OpenPairFails(c) \/ Register(c)
    PROVE  UnixInv'
<1>. USE DEF UnixInv
<1>1. UNCHANGED <<fds, kind, pair, child, foreign>>
    BY DEF CwdIsRefused, OpenPairFails, Register
<1>2. \E s \in {"failed", "returned", "leaked"} :
         /\ call' = [call EXCEPT ![c] = s]
         /\ (call[c] = "idle" /\ s = "failed") \/ (call[c] = "bare" /\ s # "failed")
    <2>1. CASE CwdIsRefused(c) \/ OpenPairFails(c)
        BY <2>1 DEF CwdIsRefused, OpenPairFails, CallGoto
    <2>2. CASE Register(c)
        BY <2>2 DEF Register, CallGoto
    <2>. QED
        BY <2>1, <2>2
<1>3. UnixTypeOK'
    BY <1>1, <1>2 DEF UnixTypeOK, CallStages
<1>4. OthersInv'
    BY <1>1 DEF OthersInv
<1>5. PairInv'
    <2>. SUFFICES ASSUME NEW d \in Calls PROVE PairOK(d)'
        BY DEF PairInv
    <2>1. CASE d = c
        BY <1>1, <1>2, <2>1 DEF UnixTypeOK, PairInv, PairOK, HoldsMaster, HoldsSlave
    <2>2. CASE d # c
        BY <1>1, <1>2, <2>2, PairKept DEF UnixTypeOK, PairInv
    <2>. QED
        BY <2>1, <2>2
<1>6. ChildInv'
    BY <1>1, <1>2, ChildKept DEF UnixTypeOK, ChildInv
<1>. QED
    BY <1>3, <1>4, <1>5, <1>6

\* openpty(3) takes two numbers that nobody has.
LEMMA OpenPairPreserves ==
    ASSUME UnixInv, NEW c \in Calls, OpenPair(c)
    PROVE  UnixInv'
<1>. USE UnixSpawnAssumption
<1>. USE DEF UnixInv
<1>1. PICK m \in Fds, s \in Fds :
         /\ m # s /\ fds[None][m] = Free /\ fds[None][s] = Free
         /\ fds' = [fds EXCEPT ![None][m] = Master(c), ![None][s] = Slave(c)]
         /\ pair' = [pair EXCEPT ![c] = [master |-> m, slave |-> s]]
    BY DEF OpenPair, Lowest, FreeFds
<1>2. /\ m \in Fds /\ s \in Fds /\ m # s
      /\ fds[None][m] = Free /\ fds[None][s] = Free
    BY <1>1
<1>3. /\ fds' = [fds EXCEPT ![None][m] = Master(c), ![None][s] = Slave(c)]
      /\ pair' = [pair EXCEPT ![c] = [master |-> m, slave |-> s]]
      /\ UNCHANGED <<kind, child, foreign>>
      /\ call[c] = "idle"
      /\ \E end \in {"opened", "leaked"} : call' = [call EXCEPT ![c] = end]
    BY <1>1 DEF OpenPair, CallGoto
<1>4. /\ fds' \in [Processes -> [Fds -> Files]]
      /\ \A d \in Calls : fds'[d] = fds[d]
      /\ fds'[None][m] = Master(c) /\ fds'[None][s] = Slave(c)
      /\ \A n \in Fds : n # m /\ n # s => fds'[None][n] = fds[None][n]
    BY <1>2, <1>3 DEF UnixTypeOK, Processes, Files
<1>5. pair'[c].master = m /\ pair'[c].slave = s /\ \A d \in Calls : d # c => pair'[d] = pair[d]
    BY <1>3 DEF UnixTypeOK
<1>6. UnixTypeOK'
    BY <1>2, <1>3, <1>4, ZenonT(60) DEF UnixTypeOK, Processes, CallStages
<1>7. OthersInv'
    <2>1. \A n \in StdFds : n \in Fds /\ fds'[None][n] = Std
        <3>. SUFFICES ASSUME NEW n \in StdFds PROVE n \in Fds /\ fds'[None][n] = Std
            OBVIOUS
        <3>1. n \in Fds
            BY DEF StdFds, Fds
        <3>2. fds[None][n] = Std
            BY DEF OthersInv
        <3>. QED
            BY <1>2, <1>4, <3>1, <3>2, FilesDiffer
    <2>2. \A n \in Fds : fds'[None][n] = Other <=> fds[None][n] = Other
        BY <1>2, <1>4, FilesDiffer
    <2>. QED
        BY <1>3, <2>1, <2>2 DEF OthersInv
<1>8. PairInv'
    <2>. SUFFICES ASSUME NEW d \in Calls PROVE PairOK(d)'
        BY DEF PairInv
    <2>1. CASE d = c
        <3>1. call'[c] \in {"opened", "leaked"}
            BY <1>3 DEF UnixTypeOK
        <3>2. \A n \in Fds : fds[None][n] # Master(c) /\ fds[None][n] # Slave(c)
            BY <1>3 DEF PairInv, PairOK, HoldsMaster, HoldsSlave
        <3>. QED
            BY <1>2, <1>4, <1>5, <2>1, <3>1, <3>2, FilesDiffer DEF PairOK, HoldsMaster, HoldsSlave
    <2>2. CASE d # c
        <3>1. call'[d] = call[d] /\ pair'[d] = pair[d]
            BY <1>3, <1>5, <2>2 DEF UnixTypeOK
        <3>2. \A n \in Fds : /\ fds'[None][n] = Master(d) <=> fds[None][n] = Master(d)
                             /\ fds'[None][n] = Slave(d) <=> fds[None][n] = Slave(d)
            BY <1>2, <1>4, <2>2, FilesDiffer
        <3>. QED
            BY <3>1, <3>2, PairKept DEF PairInv
    <2>. QED
        BY <2>1, <2>2
<1>9. ChildInv'
    <2>. SUFFICES ASSUME NEW d \in Calls PROVE ChildOK(d)'
        BY DEF ChildInv
    <2>1. CASE d = c
        <3>1. child[c] = "none" /\ child'[c] = "none"
            BY <1>3 DEF ChildInv, ChildOK
        <3>. QED
            BY <2>1, <3>1 DEF ChildOK
    <2>2. CASE d # c
        BY <1>3, <1>4, <1>5, <2>2, ChildKept DEF UnixTypeOK, ChildInv
    <2>. QED
        BY <2>1, <2>2
<1>. QED
    BY <1>6, <1>7, <1>8, <1>9

\* Closing numbers of the own pair takes nothing from anybody else: what a
\* call does when it fails, closes its slave or drops its master.
LEMMA ClosePreserves ==
    ASSUME UnixInv, NEW c \in Calls, NEW numbers \in SUBSET Int,
           numbers \subseteq Numbers(c),
           fds' = Closed(None, numbers),
           NEW s \in CallStages \ {"idle", "opened", "prepared", "leaked"},
           call' = [call EXCEPT ![c] = s],
           HoldsMaster(c),
           \/ s \in {"failed", "dropped"} /\ pair[c].master \in numbers
           \/ s = "bare" /\ pair[c].master \notin numbers,
           HoldsSlave(c) => pair[c].slave \in numbers,
           ~HoldsSlave(c) => numbers = {pair[c].master},
           UNCHANGED <<kind, pair, child, foreign>>
    PROVE  UnixInv'
<1>. USE UnixSpawnAssumption
<1>. USE DEF UnixInv
<1>1. /\ fds' \in [Processes -> [Fds -> Files]]
      /\ \A d \in Calls : fds'[d] = fds[d]
      /\ \A n \in Fds : fds'[None][n] = IF n \in numbers THEN Free ELSE fds[None][n]
    <2>1. None \in Processes /\ \A d \in Calls : d \in Processes /\ d # None
        BY DEF Processes
    <2>. QED
        BY <2>1, CloseFacts
<1>2. \A n \in numbers : n \in Fds => fds[None][n] \in {Master(c), Slave(c)}
    BY DEF PairInv, PairOK, Numbers
<1>3. UnixTypeOK'
    BY <1>1 DEF UnixTypeOK, Processes
<1>4. OthersInv'
    <2>1. \A n \in StdFds : n \in Fds /\ fds'[None][n] = Std
        BY <1>1, <1>2, FilesDiffer DEF OthersInv, StdFds, Fds
    <2>2. \A n \in Fds : fds'[None][n] = Other <=> fds[None][n] = Other
        BY <1>1, <1>2, FilesDiffer
    <2>. QED
        BY <2>1, <2>2 DEF OthersInv
<1>5. PairInv'
    <2>. SUFFICES ASSUME NEW d \in Calls PROVE PairOK(d)'
        BY DEF PairInv
    <2>1. CASE d = c
        <3>1. call'[c] = s
            BY DEF UnixTypeOK
        <3>2. PairOK(c)
            BY DEF PairInv
        <3>3. \A n \in Fds : fds'[None][n] # Slave(c)
            BY <1>1, <3>2, FilesDiffer DEF PairOK, HoldsMaster, HoldsSlave
        <3>4. CASE s = "bare"
            BY <1>1, <2>1, <3>1, <3>2, <3>3, <3>4, FilesDiffer DEF PairOK, HoldsMaster, HoldsSlave
        <3>5. CASE s # "bare"
            BY <1>1, <2>1, <3>1, <3>2, <3>3, <3>5, FilesDiffer DEF PairOK, HoldsMaster, HoldsSlave
        <3>. QED
            BY <3>4, <3>5
    <2>2. CASE d # c
        <3>1. call'[d] = call[d] /\ pair'[d] = pair[d]
            BY <2>2 DEF UnixTypeOK
        <3>2. \A n \in Fds : /\ fds'[None][n] = Master(d) <=> fds[None][n] = Master(d)
                             /\ fds'[None][n] = Slave(d) <=> fds[None][n] = Slave(d)
            <4>. SUFFICES ASSUME NEW n \in Fds
                          PROVE  /\ fds'[None][n] = Master(d) <=> fds[None][n] = Master(d)
                                 /\ fds'[None][n] = Slave(d) <=> fds[None][n] = Slave(d)
                OBVIOUS
            <4>1. CASE n \in numbers
                BY <1>1, <1>2, <2>2, <4>1, FilesDiffer
            <4>2. CASE n \notin numbers
                BY <1>1, <4>2
            <4>. QED
                BY <4>1, <4>2
        <3>. QED
            BY <3>1, <3>2, PairKept DEF PairInv
    <2>. QED
        BY <2>1, <2>2
<1>6. ChildInv'
    BY <1>1, ChildKept DEF UnixTypeOK, ChildInv
<1>. QED
    BY <1>3, <1>4, <1>5, <1>6

\* An error while the pair is there closes both numbers.
LEMMA DropPairPreserves ==
    ASSUME UnixInv, NEW c \in Calls, DropPair(c), call[c] \in {"opened", "prepared"},
           UNCHANGED <<kind, pair, child, foreign>>
    PROVE  UnixInv'
<1>1. Numbers(c) \in SUBSET Int
    BY DEF UnixInv, UnixTypeOK, Numbers, Fds, NoFd
<1>2. HoldsMaster(c) /\ HoldsSlave(c)
    BY DEF HoldsMaster, HoldsSlave
<1>3. pair[c].master \in Numbers(c) /\ pair[c].slave \in Numbers(c)
    BY DEF Numbers
<1>4. fds' = Closed(None, Numbers(c)) /\ call' = [call EXCEPT ![c] = "failed"]
    BY DEF DropPair, CallGoto
<1>5. "failed" \in CallStages \ {"idle", "opened", "prepared", "leaked"}
    BY DEF CallStages
<1>. QED
    BY <1>1, <1>2, <1>3, <1>4, <1>5, ClosePreserves

\* Preparing the command may end the call.
LEMMA PreparePreserves ==
    ASSUME UnixInv, NEW c \in Calls, Prepare(c)
    PROVE  UnixInv'
<1>1. CASE DropPair(c)
    BY <1>1, DropPairPreserves DEF Prepare
<1>2. CASE CallGoto(c, "prepared") /\ UNCHANGED fds
    <2>. USE DEF UnixInv
    <2>1. /\ call[c] = "opened" /\ call' = [call EXCEPT ![c] = "prepared"]
          /\ UNCHANGED <<fds, kind, pair, child, foreign>>
        BY <1>2 DEF Prepare, CallGoto
    <2>2. UnixTypeOK'
        BY <2>1 DEF UnixTypeOK, CallStages
    <2>3. OthersInv'
        BY <2>1 DEF OthersInv
    <2>4. PairInv'
        <3>. SUFFICES ASSUME NEW d \in Calls PROVE PairOK(d)'
            BY DEF PairInv
        <3>1. CASE d = c
            BY <2>1, <3>1 DEF UnixTypeOK, PairInv, PairOK, HoldsMaster, HoldsSlave
        <3>2. CASE d # c
            BY <2>1, <3>2, PairKept DEF UnixTypeOK, PairInv
        <3>. QED
            BY <3>1, <3>2
    <2>5. ChildInv'
        <3>. SUFFICES ASSUME NEW d \in Calls PROVE ChildOK(d)'
            BY DEF ChildInv
        <3>1. CASE d = c
            BY <2>1, <3>1 DEF ChildInv, ChildOK
        <3>2. CASE d # c
            BY <2>1, <3>2, ChildKept DEF UnixTypeOK, ChildInv
        <3>. QED
            BY <3>1, <3>2
    <2>. QED
        BY <2>2, <2>3, <2>4, <2>5
<1>. QED
    BY <1>1, <1>2 DEF Prepare

\* fork() copies a table in which the pair lies above the standard numbers.
LEMMA ForkPreserves ==
    ASSUME UnixInv, NEW c \in Calls, Fork(c)
    PROVE  UnixInv'
<1>1. CASE DropPair(c) /\ UNCHANGED child
    BY <1>1, DropPairPreserves DEF Fork
<1>2. CASE /\ fds' = [fds EXCEPT ![c] = fds[None]]
           /\ child' = [child EXCEPT ![c] = "forked"]
           /\ CallGoto(c, "forked")
    <2>. USE UnixSpawnAssumption
    <2>. USE DEF UnixInv
    <2>1. /\ call[c] = "prepared" /\ call' = [call EXCEPT ![c] = "forked"]
          /\ UNCHANGED <<kind, pair, foreign>>
        BY <1>2 DEF Fork, CallGoto
    <2>2. /\ fds' \in [Processes -> [Fds -> Files]]
          /\ fds'[None] = fds[None] /\ fds'[c] = fds[None]
          /\ \A d \in Calls : d # c => fds'[d] = fds[d]
        BY <1>2 DEF UnixTypeOK, Processes
    <2>3. UnixTypeOK'
        BY <1>2, <2>1, <2>2 DEF UnixTypeOK, CallStages, ChildStages, Processes
    <2>4. OthersInv'
        BY <2>1, <2>2 DEF OthersInv
    <2>5. PairOK(c)
        BY DEF PairInv
    <2>6. PairInv'
        <3>. SUFFICES ASSUME NEW d \in Calls PROVE PairOK(d)'
            BY DEF PairInv
        <3>1. CASE d = c
            BY <2>1, <2>2, <2>5, <3>1 DEF UnixTypeOK, PairOK, HoldsMaster, HoldsSlave
        <3>2. CASE d # c
            BY <2>1, <2>2, <3>2, PairKept DEF UnixTypeOK, PairInv
        <3>. QED
            BY <3>1, <3>2
    <2>7. ChildInv'
        <3>. SUFFICES ASSUME NEW d \in Calls PROVE ChildOK(d)'
            BY DEF ChildInv
        <3>1. CASE d = c
            <4>1. /\ pair[c].master \in Fds /\ fds[None][pair[c].master] = Master(c)
                  /\ pair[c].slave \in Fds /\ fds[None][pair[c].slave] = Slave(c)
                BY <2>1, <2>5 DEF PairOK, HoldsMaster, HoldsSlave
            <4>2. pair[c].master \notin StdFds /\ pair[c].slave \notin StdFds
                BY <4>1, FilesDiffer DEF OthersInv
            <4>3. child'[c] = "forked" /\ call'[c] = "forked"
                BY <1>2, <2>1 DEF UnixTypeOK
            <4>. QED
                BY <2>1, <2>2, <3>1, <4>1, <4>2, <4>3 DEF ChildOK, Numbers
        <3>2. CASE d # c
            BY <1>2, <2>1, <2>2, <3>2, ChildKept DEF UnixTypeOK, ChildInv
        <3>. QED
            BY <3>1, <3>2
    <2>. QED
        BY <2>3, <2>4, <2>6, <2>7
<1>. QED
    BY <1>1, <1>2 DEF Fork

\* The slave is closed once, under its own number.
LEMMA CloseSlavePreserves ==
    ASSUME UnixInv, NEW c \in Calls, CloseSlave(c)
    PROVE  UnixInv'
<1>1. /\ fds' = Closed(None, {pair[c].slave}) /\ call' = [call EXCEPT ![c] = "bare"]
      /\ call[c] \in {"opened", "forked"}
      /\ UNCHANGED <<kind, pair, child, foreign>>
    BY DEF CloseSlave, CallGoto
<1>2. HoldsMaster(c) /\ HoldsSlave(c)
    BY <1>1 DEF HoldsMaster, HoldsSlave
<1>3. pair[c].master # pair[c].slave
    BY <1>2, FilesDiffer DEF UnixInv, PairInv, PairOK
<1>4. {pair[c].slave} \in SUBSET Int /\ {pair[c].slave} \subseteq Numbers(c)
    BY <1>2 DEF UnixInv, PairInv, PairOK, Numbers, Fds
<1>5. "bare" \in CallStages \ {"idle", "opened", "prepared", "leaked"}
    BY DEF CallStages
<1>6. pair[c].master \notin {pair[c].slave} /\ pair[c].slave \in {pair[c].slave}
    BY <1>3
<1>. QED
    BY <1>1, <1>2, <1>4, <1>5, <1>6, ClosePreserves

\* So is the master.
LEMMA DropMasterPreserves ==
    ASSUME UnixInv, NEW c \in Calls, DropMaster(c)
    PROVE  UnixInv'
<1>1. /\ fds' = Closed(None, {pair[c].master}) /\ call' = [call EXCEPT ![c] = "dropped"]
      /\ call[c] = "returned"
      /\ UNCHANGED <<kind, pair, child, foreign>>
    BY DEF DropMaster, CallGoto
<1>2. HoldsMaster(c) /\ ~HoldsSlave(c)
    BY <1>1 DEF HoldsMaster, HoldsSlave
<1>3. {pair[c].master} \in SUBSET Int /\ {pair[c].master} \subseteq Numbers(c)
    BY <1>2 DEF UnixInv, PairInv, PairOK, Numbers, Fds
<1>4. "dropped" \in CallStages \ {"idle", "opened", "prepared", "leaked"}
    BY DEF CallStages
<1>. QED
    BY <1>1, <1>2, <1>3, <1>4, ClosePreserves

-----------------------------------------------------------------------------
(* The steps of a child.                                                   *)

\* A child touches its own table only.
LEMMA ChildStepPreserves ==
    ASSUME UnixInv, NEW c \in Calls,
           NEW table \in [Fds -> Files], fds' = [fds EXCEPT ![c] = table],
           NEW s \in ChildStages \ {"none"}, child' = [child EXCEPT ![c] = s],
           child[c] # "none",
           UNCHANGED <<call, kind, pair, foreign>>,
           ChildOK(c)'
    PROVE  UnixInv'
<1>. USE UnixSpawnAssumption
<1>. USE DEF UnixInv
<1>1. /\ fds' \in [Processes -> [Fds -> Files]]
      /\ fds'[None] = fds[None]
      /\ \A d \in Calls : d # c => fds'[d] = fds[d]
    BY DEF UnixTypeOK, Processes
<1>2. UnixTypeOK'
    BY <1>1 DEF UnixTypeOK, Processes
<1>3. OthersInv'
    BY <1>1 DEF OthersInv
<1>4. PairInv'
    BY <1>1, PairKept DEF PairInv
<1>5. ChildInv'
    <2>. SUFFICES ASSUME NEW d \in Calls PROVE ChildOK(d)'
        BY DEF ChildInv
    <2>1. CASE d # c
        BY <1>1, <2>1, ChildKept DEF UnixTypeOK, ChildInv
    <2>. QED
        BY <2>1
<1>. QED
    BY <1>2, <1>3, <1>4, <1>5

\* close() in a child.
LEMMA ChildCloses ==
    ASSUME UnixTypeOK, NEW c \in Calls, NEW numbers \in SUBSET Int, fds' = Closed(c, numbers)
    PROVE  \E table \in [Fds -> Files] :
              /\ fds' = [fds EXCEPT ![c] = table]
              /\ \A n \in Fds : table[n] = IF n \in numbers THEN Free ELSE fds[c][n]
<1> DEFINE table == [n \in Fds |-> IF n \in numbers THEN Free ELSE fds[c][n]]
<1>1. Free \in Files
    BY DEF Files
<1>2. table \in [Fds -> Files]
    BY <1>1 DEF UnixTypeOK
<1>3. fds' = [fds EXCEPT ![c] = table]
    BY DEF Closed
<1>. QED
    BY <1>2, <1>3

\* _exit() closes the child's table and no other.
LEMMA ChildExitsPreserves ==
    ASSUME UnixInv, NEW c \in Calls, ChildExits(c)
    PROVE  UnixInv'
<1>1. /\ UnixTypeOK /\ Fds \in SUBSET Int /\ fds' = Closed(c, Fds)
      /\ child' = [child EXCEPT ![c] = "exited"] /\ child[c] # "none"
      /\ UNCHANGED <<call, kind, pair, foreign>>
    BY DEF ChildExits, ChildGoto, UnixInv, Fds
<1>2. PICK table \in [Fds -> Files] : fds' = [fds EXCEPT ![c] = table]
    BY <1>1, ChildCloses
<1>3. child'[c] = "exited" /\ "exited" \in ChildStages \ {"none"}
    BY <1>1 DEF UnixTypeOK, ChildStages
<1>4. ChildOK(c)'
    BY <1>1, <1>3 DEF ChildOK, UnixInv, ChildInv
<1>. QED
    BY <1>1, <1>2, <1>3, <1>4, ChildStepPreserves

\* Of what the child inherited, the standard numbers and the pair remain.
LEMMA CloseRandomFdsPreserves ==
    ASSUME UnixInv, NEW c \in Calls, CloseRandomFds(c)
    PROVE  UnixInv'
<1>. USE UnixSpawnAssumption
<1> DEFINE numbers == {n \in Fds : 3 <= n /\ n < OpenMax} \ Numbers(c)
<1>1. /\ UnixTypeOK /\ numbers \in SUBSET Int /\ fds' = Closed(c, numbers)
      /\ child' = [child EXCEPT ![c] = "alone"] /\ child[c] = "forked"
      /\ UNCHANGED <<call, kind, pair, foreign>>
    BY DEF CloseRandomFds, MakeSession, ChildGoto, UnixInv, Fds
<1>2. PICK table \in [Fds -> Files] :
         /\ fds' = [fds EXCEPT ![c] = table]
         /\ \A n \in Fds : table[n] = IF n \in numbers THEN Free ELSE fds[c][n]
    <2> HIDE DEF numbers
    <2>. QED
        BY <1>1, ChildCloses
<1>3. child'[c] = "alone" /\ "alone" \in ChildStages \ {"none"} /\ fds'[c] = table
    BY <1>1, <1>2 DEF UnixTypeOK, ChildStages
<1>4. ChildOK(c)
    BY DEF UnixInv, ChildInv
<1>5. \A n \in Fds : n \notin StdFds \cup Numbers(c) => n \in numbers
    BY DEF Fds, StdFds
<1>6. ChildOK(c)'
    BY <1>1, <1>2, <1>3, <1>4, <1>5 DEF ChildOK, Numbers
<1>. QED
    BY <1>1, <1>2, <1>3, <1>6, ChildStepPreserves

\* The pair lies above 2, so dup2 overwrites none of it.
LEMMA DupSlavePreserves ==
    ASSUME UnixInv, NEW c \in Calls, DupSlave(c)
    PROVE  UnixInv'
<1> DEFINE table == [n \in Fds |-> IF n \in StdFds THEN fds[c][pair[c].slave] ELSE fds[c][n]]
<1>1. /\ UnixTypeOK /\ fds' = [fds EXCEPT ![c] = table]
      /\ child' = [child EXCEPT ![c] = "duped"] /\ child[c] = "alone"
      /\ UNCHANGED <<call, kind, pair, foreign>>
    BY DEF DupSlave, ChildGoto, UnixInv
<1>2. ChildOK(c)
    BY DEF UnixInv, ChildInv
<1>3. pair[c].slave \in Fds \ StdFds /\ Numbers(c) \subseteq Fds \ StdFds
    BY <1>1, <1>2 DEF ChildOK, Numbers
<1>4. table \in [Fds -> Files]
    BY <1>1, <1>3 DEF UnixTypeOK
<1>5. child'[c] = "duped" /\ "duped" \in ChildStages \ {"none"} /\ fds'[c] = table
    BY <1>1 DEF UnixTypeOK, ChildStages
<1>6. ChildOK(c)'
    <2>1. \A n \in Fds : n \in StdFds => table[n] = Slave(c)
        BY <1>1, <1>2 DEF ChildOK
    <2>2. \A n \in Fds : n \notin StdFds => table[n] = fds[c][n]
        OBVIOUS
    <2>3. \A n \in StdFds : n \in Fds
        BY UnixSpawnAssumption DEF StdFds, Fds
    <2> HIDE DEF table
    <2>. QED
        BY <1>1, <1>2, <1>3, <1>5, <2>1, <2>2, <2>3 DEF ChildOK, Numbers
<1> HIDE DEF table
<1>. QED
    BY <1>1, <1>4, <1>5, <1>6, ChildStepPreserves

\* Closing the pair leaves the standard numbers.
LEMMA ExecPreserves ==
    ASSUME UnixInv, NEW c \in Calls, Exec(c)
    PROVE  UnixInv'
<1>1. /\ UnixTypeOK /\ fds' = Closed(c, Numbers(c))
      /\ child' = [child EXCEPT ![c] = "running"] /\ child[c] = "duped"
      /\ UNCHANGED <<call, kind, pair, foreign>>
    BY DEF Exec, ChildGoto, UnixInv
<1>2. ChildOK(c)
    BY DEF UnixInv, ChildInv
<1>3. Numbers(c) \subseteq Fds \ StdFds
    BY <1>1, <1>2 DEF ChildOK
<1>4. Numbers(c) \in SUBSET Int
    BY <1>3 DEF Fds
<1>5. PICK table \in [Fds -> Files] :
         /\ fds' = [fds EXCEPT ![c] = table]
         /\ \A n \in Fds : table[n] = IF n \in Numbers(c) THEN Free ELSE fds[c][n]
    BY <1>1, <1>4, ChildCloses
<1>6. child'[c] = "running" /\ "running" \in ChildStages \ {"none"} /\ fds'[c] = table
    BY <1>1, <1>5 DEF UnixTypeOK, ChildStages
<1>7. \A n \in Fds : table[n] = IF n \in StdFds THEN Slave(c) ELSE Free
    BY <1>1, <1>2, <1>3, <1>5 DEF ChildOK
<1>8. ChildOK(c)'
    BY <1>1, <1>2, <1>6, <1>7 DEF ChildOK
<1>. QED
    BY <1>1, <1>5, <1>6, <1>8, ChildStepPreserves

-----------------------------------------------------------------------------
\* Every step preserves the invariant.
LEMMA UnixNextPreserves == UnixInv /\ [UnixNext]_unixVars => UnixInv'
<1>. SUFFICES ASSUME UnixInv, [UnixNext]_unixVars PROVE UnixInv'
    OBVIOUS
<1>1. ASSUME NEW c \in Calls, UnixCallStep(c) PROVE UnixInv'
    BY <1>1, QuietStepPreserves, OpenPairPreserves, PreparePreserves, ForkPreserves,
       CloseSlavePreserves DEF UnixCallStep
<1>2. ASSUME NEW c \in Calls, SetupStep(c) PROVE UnixInv'
    BY <1>2, CloseRandomFdsPreserves, DupSlavePreserves, ExecPreserves DEF SetupStep
<1>3. CASE UNCHANGED unixVars
    BY <1>3 DEF unixVars, UnixInv, UnixTypeOK, OthersInv, PairInv, PairOK, HoldsMaster, HoldsSlave,
                ChildInv, ChildOK, Numbers
<1>. QED
    BY <1>1, <1>2, <1>3, DropMasterPreserves, ChildExitsPreserves, ForeignOpensPreserves,
       ForeignClosesPreserves DEF UnixNext

\* The invariant holds in every state.
LEMMA UnixInvariantHolds == UnixSpec => []UnixInv
<1>. QED
    BY UnixInitEstablishes, UnixNextPreserves, PTL DEF UnixSpec

-----------------------------------------------------------------------------
(* A session on Windows.                                                   *)

\* What the call has opened at each of its stages.
CallInv ==
    /\ stage # "returned" => users = {}
    /\ stage \in {"start", "loaded"} => handles = {}
    /\ stage \in {"inServer", "inConnected"} => handles = {"inServer", "inClient"}
    /\ stage \in {"outServer", "outConnected"} => handles = Servers \cup Clients
    /\ stage = "console" => handles = BackendHandles /\ request = "spawn"
    /\ stage = "started" => handles = BackendHandles \cup ChildHandles /\ request = "spawn"
    /\ stage = "failed" => handles \cap (Servers \cup ChildHandles) = {}

\* A session that has been returned: its halves have their handles while
\* somebody uses them.
HalvesInv ==
    stage = "returned" =>
        handles = (IF users \cap BackendUsers = {} THEN {} ELSE BackendHandles)
                    \cup (IF request = "open" \/ users \cap ChildUsers = {}
                            THEN {} ELSE ChildHandles)

\* There is a program only after CreateProcessW, and with somebody who kills it.
ProgramInv ==
    /\ stage \notin {"started", "returned", "cancelled"} => program = "none"
    /\ program = "running" =>
         stage \in {"started", "cancelled"} \/ users \cap ChildUsers # {}

\* Exit codes and sizes are passed on as they are.
ReportInv ==
    /\ program = "exited" <=> exitCode # NoCode
    /\ answer # NoCode => program = "exited" /\ answer = exitCode /\ answer # StillActive
    /\ stage \in {"console", "started", "returned"} /\ canResize => stored = console

WinInv == WinTypeOK /\ CallInv /\ HalvesInv /\ ProgramInv /\ ReportInv

-----------------------------------------------------------------------------
\* The invariant holds at the start.
LEMMA WinInitEstablishes == WinInit => WinInv
<1>. SUFFICES ASSUME WinInit PROVE WinInv
    OBVIOUS
<1>. USE DEF WinInit
<1>1. WinTypeOK
    BY DEF WinTypeOK, Stages, Codes
<1>2. CallInv /\ HalvesInv /\ ProgramInv /\ ReportInv
    BY DEF CallInv, HalvesInv, ProgramInv, ReportInv
<1>. QED
    BY <1>1, <1>2 DEF WinInv

\* A call that ends in failure or cancellation closes its servers.
LEMMA EndsWithPreserves ==
    ASSUME WinInv, NEW how \in {"failed", "cancelled"}, EndsWith(how),
           stage \notin {"returned", "cancelled"},
           how = "failed" => stage # "started",
           UNCHANGED <<request, users, program, exitCode, answer, stored, console, canResize>>
    PROVE  WinInv'
<1>. USE DEF WinInv, EndsWith, Goto
<1>1. WinTypeOK'
    BY DEF WinTypeOK, Stages
<1>2. how = "failed" => handles' \cap (Servers \cup ChildHandles) = {}
    BY DEF CallInv, WinTypeOK, Stages, Servers, Clients, ChildHandles, BackendHandles
<1>3. CallInv' /\ HalvesInv'
    BY <1>2 DEF CallInv, HalvesInv
<1>4. ProgramInv' /\ ReportInv'
    BY DEF CallInv, ProgramInv, ReportInv, WinTypeOK, Stages, ChildUsers
<1>. QED
    BY <1>1, <1>3, <1>4

\* The call preserves it.
LEMMA WinCallPreserves ==
    ASSUME WinInv, CallStep
    PROVE  WinInv'
<1>. USE DEF WinInv
<1>0. ASSUME stage \notin {"started", "returned", "cancelled"}, EndsWith("failed"),
             UNCHANGED <<request, users, program, exitCode, answer, stored, console, canResize>>
      PROVE  WinInv'
    BY <1>0, EndsWithPreserves
<1>1. CASE LoadConptyApi
    <2>1. CASE EndsWith("failed")
        BY <1>0, <1>1, <2>1 DEF LoadConptyApi
    <2>2. CASE Goto("loaded") /\ UNCHANGED handles
        BY <1>1, <2>2 DEF LoadConptyApi, Goto, WinTypeOK, Stages, CallInv, HalvesInv, ProgramInv, ReportInv
    <2>. QED
        BY <1>1, <2>1, <2>2 DEF LoadConptyApi
<1>2. ASSUME NEW server \in Servers, NEW client \in Clients, NEW next \in Stages, CreatePipePair(server, client),
             <<server, client>> \in {<<"inServer", "inClient">>, <<"outServer", "outClient">>}
      PROVE  WinInv'
    <2>1. CASE EndsWith("failed")
        BY <1>0, <1>2, <2>1 DEF CreatePipePair
    <2>2. CASE Goto(server) /\ handles' = handles \cup {server, client}
        BY <1>2, <2>2 DEF CreatePipePair, Goto, WinTypeOK, Stages, CallInv, HalvesInv, ProgramInv, ReportInv,
                          Servers, Clients, BackendHandles
    <2>. QED
        BY <1>2, <2>1, <2>2 DEF CreatePipePair
<1>3. ASSUME NEW server, NEW connected, ConnectPipe(server, connected),
             <<server, connected>> \in {<<"inServer", "inConnected">>, <<"outServer", "outConnected">>}
      PROVE  WinInv'
    <2>1. CASE EndsWith("failed")
        BY <1>0, <1>3, <2>1 DEF ConnectPipe
    <2>2. CASE Goto(connected) /\ UNCHANGED handles
        BY <1>3, <2>2 DEF ConnectPipe, Goto, WinTypeOK, Stages, CallInv, HalvesInv, ProgramInv, ReportInv
    <2>. QED
        BY <1>3, <2>1, <2>2 DEF ConnectPipe
<1>4. CASE CreateConsole
    <2>1. CASE EndsWith("failed") /\ UNCHANGED <<users, console>>
        BY <1>0, <1>4, <2>1 DEF CreateConsole
    <2>2. CASE request = "open" /\ ~(EndsWith("failed") /\ UNCHANGED <<users, console>>)
        <3>1. /\ stage = "outConnected" /\ stage' = "returned" /\ users' = {"session"}
              /\ handles' = (handles \ Clients) \cup {"console"} /\ console' = stored
              /\ UNCHANGED <<request, program, exitCode, answer, stored, canResize>>
            BY <1>4, <2>2 DEF CreateConsole, Goto
        <3>2. handles' = BackendHandles
            BY <3>1 DEF CallInv, Clients, Servers, BackendHandles
        <3>. QED
            BY <2>2, <3>1, <3>2 DEF WinTypeOK, Stages, CallInv, HalvesInv, ProgramInv, ReportInv,
                          BackendUsers
    <2>3. CASE request # "open" /\ ~(EndsWith("failed") /\ UNCHANGED <<users, console>>)
        <3>1. /\ stage = "outConnected" /\ stage' = "console" /\ UNCHANGED users
              /\ handles' = (handles \ Clients) \cup {"console"} /\ console' = stored
              /\ UNCHANGED <<request, program, exitCode, answer, stored, canResize>>
            BY <1>4, <2>3 DEF CreateConsole, Goto
        <3>2. handles' = BackendHandles
            BY <3>1 DEF CallInv, Clients, Servers, BackendHandles
        <3>. QED
            BY <2>3, <3>1, <3>2 DEF WinTypeOK, Stages, CallInv, HalvesInv, ProgramInv, ReportInv
    <2>. QED
        BY <2>1, <2>2, <2>3
<1>5. CASE AttributesFail
    BY <1>0, <1>5 DEF AttributesFail
<1>6. CASE CreateProcess
    <2>1. CASE EndsWith("failed") /\ UNCHANGED program
        BY <1>0, <1>6, <2>1 DEF CreateProcess
    <2>2. CASE Goto("started") /\ handles' = handles \cup ChildHandles /\ program' = "running"
        BY <1>6, <2>2 DEF CreateProcess, Goto, WinTypeOK, Stages, CallInv, HalvesInv, ProgramInv, ReportInv
    <2>. QED
        BY <1>6, <2>1, <2>2 DEF CreateProcess
<1>7. CASE AnswerConhost
    BY <1>7 DEF AnswerConhost, Goto, WinTypeOK, Stages, CallInv, HalvesInv, ProgramInv, ReportInv,
                BackendUsers, ChildUsers
<1>. QED
    BY <1>1, <1>2, <1>3, <1>4, <1>5, <1>6, <1>7 DEF CallStep, Servers, Clients, Stages

-----------------------------------------------------------------------------
\* Who leaves takes the handles of the halves nobody else uses.
LEMMA LeavePreserves ==
    ASSUME WinInv, NEW user \in BackendUsers \cup ChildUsers, Leave(user),
           UNCHANGED <<request, stage, exitCode, stored, console, canResize>>,
           \/ UNCHANGED answer
           \/ IsComplete /\ answer' = Reported
    PROVE  WinInv'
<1>. USE DEF WinInv
<1>. DEFINE backendGoes == user \in BackendUsers /\ users' \cap BackendUsers = {}
            childGoes == user \in ChildUsers /\ users' \cap ChildUsers = {}
<1>1. /\ user \in users /\ users' = users \ {user}
      /\ handles' = handles \ ((IF backendGoes THEN BackendHandles ELSE {})
                                   \cup (IF childGoes THEN ChildHandles ELSE {}))
    BY DEF Leave
<1>2. PICK state \in IF backendGoes THEN DropBackend(program) ELSE {program} :
          program' = IF childGoes THEN DropChild(state) ELSE state
    BY DEF Leave
<1>3. stage = "returned"
    BY <1>1 DEF CallInv
<1>4. state = program \/ (program = "running" /\ state = "dying")
    BY <1>2 DEF DropBackend, DoKill
<1>5. /\ program' = program \/ (program = "running" /\ program' = "dying")
      /\ childGoes => program' # "running"
    BY <1>2, <1>4 DEF DropChild, DoKill, IsComplete, Reported
<1>6. WinTypeOK'
    BY <1>1, <1>5 DEF WinTypeOK, Reported, IsComplete
<1>7. CallInv'
    BY <1>1, <1>3 DEF CallInv
<1>8. HalvesInv'
    BY <1>1, <1>3 DEF HalvesInv, WinTypeOK, BackendUsers, ChildUsers, BackendHandles, ChildHandles, Servers
<1>9. ProgramInv'
    BY <1>1, <1>3, <1>5 DEF ProgramInv, ChildUsers, BackendUsers
<1>10. ReportInv'
    BY <1>5 DEF ReportInv, Reported, IsComplete
<1>. QED
    BY <1>6, <1>7, <1>8, <1>9, <1>10

\* What the session's users begin, and the process, preserve it.
LEMMA SessionPreserves ==
    ASSUME WinInv,
           \/ StartRead \/ StartWait \/ Kill
           \/ \E size \in Sizes : SetWinsize(size)
           \/ \E code \in ExitCodes : ProgramExits(code)
           \/ ProgramDies
    PROVE  WinInv'
<1>. USE DEF WinInv
<1>1. CASE StartRead
    BY <1>1 DEF StartRead, WinTypeOK, CallInv, HalvesInv, ProgramInv, ReportInv, BackendUsers, ChildUsers
<1>2. CASE StartWait
    BY <1>2 DEF StartWait, WinTypeOK, CallInv, HalvesInv, ProgramInv, ReportInv, BackendUsers, ChildUsers
<1>3. CASE Kill
    BY <1>3 DEF Kill, DoKill, WinTypeOK, CallInv, HalvesInv, ProgramInv, ReportInv
<1>4. ASSUME NEW size \in Sizes, SetWinsize(size) PROVE WinInv'
    BY <1>4 DEF SetWinsize, WinTypeOK, CallInv, HalvesInv, ProgramInv, ReportInv
<1>5. ASSUME NEW code \in ExitCodes \cup {1}, program \in {"running", "dying"},
             program' = "exited", exitCode' = code,
             UNCHANGED <<request, stage, handles, users, answer, stored, console, canResize>>
      PROVE  WinInv'
    <2>1. code # NoCode
        BY WinSessionAssumption DEF WinSessionAssumption
    <2>2. WinTypeOK' /\ ReportInv'
        BY <1>5, <2>1 DEF WinTypeOK, Codes, ReportInv
    <2>. QED
        BY <1>5, <2>2 DEF CallInv, HalvesInv, ProgramInv
<1>. QED
    BY <1>1, <1>2, <1>3, <1>4, <1>5 DEF ProgramExits, ProgramDies

\* Every step preserves it.
LEMMA WinNextPreserves == WinInv /\ [WinNext]_winVars => WinInv'
<1>. SUFFICES ASSUME WinInv, [WinNext]_winVars PROVE WinInv'
    OBVIOUS
<1>1. CASE UNCHANGED winVars
    BY <1>1 DEF winVars, WinInv, WinTypeOK, CallInv, HalvesInv, ProgramInv, ReportInv
<1>2. CASE CallStep
    BY <1>2, WinCallPreserves
<1>3. CASE CancelCall
    BY <1>3, EndsWithPreserves DEF CancelCall, Servers
<1>4. CASE DropSession \/ EndRead \/ PollWait \/ CancelWait
    BY <1>4, LeavePreserves DEF DropSession, EndRead, PollWait, CancelWait, BackendUsers, ChildUsers
<1>5. CASE \/ StartRead \/ StartWait \/ Kill
           \/ \E size \in Sizes : SetWinsize(size)
           \/ \E code \in ExitCodes : ProgramExits(code)
           \/ ProgramDies
    BY <1>5, SessionPreserves
<1>. QED
    BY <1>1, <1>2, <1>3, <1>4, <1>5 DEF WinNext

\* It holds throughout.
LEMMA WinInvariantHolds == WinSpec => []WinInv
<1>. QED
    BY WinInitEstablishes, WinNextPreserves, PTL DEF WinSpec

-----------------------------------------------------------------------------
(* The arguments of a program on Windows: what append_quoted_wide writes,  *)
(* the program that is started reads back.  First the two loops, which pass *)
(* through a state after each character.                                   *)

\* Where the program is in splitting its command line.
Namings == [name : Seq(Chars), rest : Seq(Chars), quoted : BOOLEAN, done : BOOLEAN]
Readings ==
    [args : Seq(Seq(Chars)), word : Seq(Chars), slashes : Nat, quoted : BOOLEAN, inside : BOOLEAN]

\* Backslashes are as many as asked for.
LEMMA BackslashType ==
    ASSUME NEW n \in Nat
    PROVE  Backslashes(n) \in Seq(Chars) /\ Len(Backslashes(n)) = n
BY DEF Backslashes, Chars

\* None is the empty sequence.
LEMMA BackslashNone == Backslashes(0) = <<>>
BY DEF Backslashes

\* One more goes behind them.
LEMMA BackslashMore ==
    ASSUME NEW n \in Nat
    PROVE  Backslashes(n + 1) = Backslashes(n) \o <<Backslash>>
<1>1. Backslash \in Chars
    BY DEF Chars
<1>. DEFINE s == Backslashes(n)
            t == Backslashes(n + 1)
            u == s \o <<Backslash>>
<1>2. s \in Seq(Chars) /\ Len(s) = n /\ \A i \in 1..n : s[i] = Backslash
    BY BackslashType DEF Backslashes
<1>3. t \in Seq(Chars) /\ Len(t) = n + 1 /\ \A i \in 1..(n + 1) : t[i] = Backslash
    BY BackslashType DEF Backslashes
<1>. HIDE DEF s, t
<1>4. u \in Seq(Chars) /\ Len(u) = n + 1 /\ \A i \in 1..n : u[i] = s[i]
    BY <1>1, <1>2, AppendProperties, AppendIsConcat
<1>5. u[n + 1] = Backslash
    BY <1>1, <1>2, AppendProperties, AppendIsConcat
<1>. HIDE DEF u
<1>6. \A i \in 1..(n + 1) : u[i] = t[i]
    BY <1>2, <1>3, <1>4, <1>5
<1>7. u = t
    BY <1>3, <1>4, <1>6, SeqEqual
<1>. QED
    BY <1>7 DEF s, t, u

\* A turn of the splitting leads from a state to a state.
LEMMA SplitNameType ==
    ASSUME NEW state \in Namings, NEW c \in Chars
    PROVE  SplitName(state, c) \in Namings
<1>1. Append(state.rest, c) \in Seq(Chars) /\ Append(state.name, c) \in Seq(Chars)
    BY AppendProperties DEF Namings
<1>. QED
    BY <1>1 DEF Namings, SplitName

\* The same for arguments.
LEMMA SplitArgumentType ==
    ASSUME NEW state \in Readings, NEW c \in Chars
    PROVE  SplitArgument(state, c) \in Readings
<1>1. /\ state.args \in Seq(Seq(Chars)) /\ state.word \in Seq(Chars) /\ state.slashes \in Nat
      /\ state.quoted \in BOOLEAN /\ state.inside \in BOOLEAN
    BY DEF Readings
<1>2. ASSUME NEW n \in Nat
      PROVE  /\ state.word \o Backslashes(n) \in Seq(Chars)
             /\ state.word \o Backslashes(n) \o <<c>> \in Seq(Chars)
             /\ state.word \o Backslashes(n) \o <<Quote>> \in Seq(Chars)
    <2>1. Quote \in Chars
        BY DEF Chars
    <2>2. Backslashes(n) \in Seq(Chars) /\ <<c>> \in Seq(Chars) /\ <<Quote>> \in Seq(Chars)
        BY <2>1, BackslashType
    <2>. QED
        BY <1>1, <2>2, ConcatProperties
<1>. DEFINE full == state.word \o Backslashes(state.slashes)
            half == state.word \o Backslashes(state.slashes \div 2)
<1>3. /\ full \in Seq(Chars) /\ full \o <<c>> \in Seq(Chars)
      /\ half \in Seq(Chars) /\ half \o <<Quote>> \in Seq(Chars)
      /\ Append(state.args, full) \in Seq(Seq(Chars))
    <2>1. state.slashes \div 2 \in Nat
        BY <1>1
    <2>2. full \in Seq(Chars) /\ full \o <<c>> \in Seq(Chars)
        BY <1>1, <1>2
    <2>3. half \in Seq(Chars) /\ half \o <<Quote>> \in Seq(Chars)
        BY <1>2, <2>1
    <2>. HIDE DEF full
    <2>. QED
        BY <1>1, <2>2, <2>3, AppendProperties
<1>. HIDE DEF full, half
<1>4. <<>> \in Seq(Chars) /\ state.slashes + 1 \in Nat
    BY <1>1
<1>5. CASE c = Backslash
    BY <1>1, <1>4, <1>5 DEF Readings, SplitArgument
<1>6. CASE c # Backslash
    BY <1>1, <1>3, <1>4, <1>6 DEF Readings, SplitArgument, Between, full, half
<1>. QED
    BY <1>5, <1>6

\* The states from `state` on, one after each character.
ReadsName(h, state, text) ==
    /\ h[0] = state
    /\ \A n \in 1..Len(text) : h[n] = SplitName(h[n - 1], text[n])

\* Reading a name passes through a state after each character.
LEMMA ReadNameSteps ==
    ASSUME NEW state \in Namings, NEW text \in Seq(Chars)
    PROVE  \E h \in [0..Len(text) -> Namings] :
               ReadsName(h, state, text) /\ ReadName(state, text) = h[Len(text)]
<1>. DEFINE N == Len(text)
            value(f, n) == IF n = 0 THEN state ELSE SplitName(f[n - 1], text[n])
            step(f) == [n \in 0..N |-> value(f, n)]
            h == CHOOSE f : f = step(f)
            g == [n \in 1..N |-> [a \in Namings |-> SplitName(a, text[n])]]
<1>1. N \in Nat /\ \A n \in 1..N : text[n] \in Chars
    BY ElementOfSeq, LenProperties
<1>2. ReadName(state, text) = h[N]
    BY DEF ReadName
<1>3. g \in [1..N -> [Namings -> Namings]]
    BY <1>1, SplitNameType
<1>4. \E f \in [0..N -> Namings] : f = step(f)
    <2>. HIDE DEF g
    <2>1. PICK f \in [0..N -> Namings] : Follows(f, N, state, g)
        BY <1>1, <1>3, Recursion
    <2>2. ASSUME NEW n \in 1..N PROVE f[n] = SplitName(f[n - 1], text[n])
        <3>1. n - 1 \in 0..N /\ f[n - 1] \in Namings
            BY <1>1, <2>1
        <3>. QED
            BY <2>1, <3>1 DEF g, Follows
    <2>3. \A n \in 0..N : f[n] = value(f, n)
        BY <1>1, <2>1, <2>2 DEF Follows
    <2>. HIDE DEF value
    <2>4. f = step(f)
        BY <2>1, <2>3
    <2>. QED
        BY <2>4
<1>5. h = step(h)
    BY <1>4
<1>. HIDE DEF h
<1>6. h[0] = state /\ \A n \in 1..N : h[n] = SplitName(h[n - 1], text[n])
    BY <1>1, <1>5
<1>7. DOMAIN h = 0..N /\ h = [n \in 0..N |-> h[n]]
    BY <1>5
<1>. HIDE DEF N
<1>8. \A n \in 1..N : h[n - 1] \in Namings => h[n] \in Namings
    BY <1>1, <1>6, SplitNameType
<1>9. \A n \in 0..N : h[n] \in Namings
    BY <1>1, <1>6, <1>8, AlongRecursion
<1>10. h \in [0..N -> Namings]
    BY <1>7, <1>9
<1>. QED
    BY <1>2, <1>6, <1>10 DEF N, ReadsName

\* So it ends in one.
LEMMA ReadNameType ==
    ASSUME NEW state \in Namings, NEW s \in Seq(Chars)
    PROVE  ReadName(state, s) \in Namings
<1>1. Len(s) \in 0..Len(s)
    BY LenProperties
<1>. QED
    BY <1>1, ReadNameSteps

\* What is read in two parts is read at once.
LEMMA ReadNameConcat ==
    ASSUME NEW state \in Namings, NEW s \in Seq(Chars), NEW t \in Seq(Chars)
    PROVE  ReadName(state, s \o t) = ReadName(ReadName(state, s), t)
<1>. DEFINE M == Len(s)
            N == Len(t)
            middle == ReadName(state, s)
<1>1. M \in Nat /\ N \in Nat /\ s \o t \in Seq(Chars) /\ Len(s \o t) = M + N
    BY ConcatProperties, LenProperties
<1>2. \A n \in 1..M : (s \o t)[n] = s[n]
    BY <1>1, ConcatProperties
<1>3. \A n \in 1..N : (s \o t)[M + n] = t[n]
    BY <1>1, ConcatProperties
<1>. HIDE DEF M, N, middle
<1>4. PICK f \in [0..M -> Namings] :
             /\ f[0] = state /\ middle = f[M]
             /\ \A n \in 1..M : f[n] = SplitName(f[n - 1], s[n])
    <2>1. PICK f \in [0..Len(s) -> Namings] :
                 ReadsName(f, state, s) /\ ReadName(state, s) = f[Len(s)]
        BY ReadNameSteps
    <2>. QED
        BY <2>1 DEF ReadsName, M, middle
<1>5. middle \in Namings
    BY <1>1, <1>4
<1>6. PICK g \in [0..N -> Namings] :
             /\ g[0] = middle /\ ReadName(middle, t) = g[N]
             /\ \A n \in 1..N : g[n] = SplitName(g[n - 1], t[n])
    <2>1. PICK g \in [0..Len(t) -> Namings] :
                 ReadsName(g, middle, t) /\ ReadName(middle, t) = g[Len(t)]
        BY <1>5, ReadNameSteps
    <2>. QED
        BY <2>1 DEF ReadsName, N
<1>7. PICK h \in [0..(M + N) -> Namings] :
             /\ h[0] = state /\ ReadName(state, s \o t) = h[M + N]
             /\ \A n \in 1..(M + N) : h[n] = SplitName(h[n - 1], (s \o t)[n])
    <2>1. PICK h \in [0..Len(s \o t) -> Namings] :
                 ReadsName(h, state, s \o t) /\ ReadName(state, s \o t) = h[Len(s \o t)]
        BY <1>1, ReadNameSteps
    <2>. QED
        BY <1>1, <2>1 DEF ReadsName
<1>8. \A n \in 0..M : h[n] = f[n]
    <2>1. \A n \in 1..M : n \in 1..(M + N)
        BY <1>1
    <2>2. \A n \in 1..M : h[n] = SplitName(h[n - 1], s[n])
        BY <1>2, <1>7, <2>1
    <2>3. \A n \in 1..M : h[n - 1] = f[n - 1] => h[n] = f[n]
        BY <1>4, <2>2
    <2>4. h[0] = f[0]
        BY <1>4, <1>7
    <2>5. Alike(h, f, M)
        BY <2>3, <2>4 DEF Alike
    <2>. QED
        BY <1>1, <2>5, SameRecursion
<1>9. h[M] = middle
    BY <1>1, <1>4, <1>8
<1>. DEFINE k == [n \in 0..N |-> h[M + n]]
<1>10. \A n \in 0..N : k[n] = g[n]
    <2>1. k[0] = g[0]
        BY <1>1, <1>6, <1>9
    <2>2. ASSUME NEW n \in 1..N PROVE k[n] = SplitName(k[n - 1], t[n])
        <3>1. M + n \in 1..(M + N) /\ (M + n) - 1 = M + (n - 1) /\ n - 1 \in 0..N /\ n \in 0..N
            BY <1>1
        <3>2. h[M + n] = SplitName(h[(M + n) - 1], (s \o t)[M + n])
            BY <1>7, <3>1
        <3>3. h[M + n] = SplitName(h[M + (n - 1)], t[n])
            BY <1>3, <3>1, <3>2
        <3>. QED
            BY <3>1, <3>3
    <2>. HIDE DEF k
    <2>3. \A n \in 1..N : k[n - 1] = g[n - 1] => k[n] = g[n]
        BY <1>6, <2>2
    <2>4. Alike(k, g, N)
        BY <2>1, <2>3 DEF Alike
    <2>. QED
        BY <1>1, <2>4, SameRecursion
<1>11. h[M + N] = g[N]
    BY <1>1, <1>10
<1>. QED
    BY <1>5, <1>6, <1>7, <1>11 DEF middle

\* The states from `state` on, one after each character.
ReadsArguments(h, state, text) ==
    /\ h[0] = state
    /\ \A n \in 1..Len(text) : h[n] = SplitArgument(h[n - 1], text[n])

\* Reading arguments passes through a state after each character.
LEMMA ReadArgumentsSteps ==
    ASSUME NEW state \in Readings, NEW text \in Seq(Chars)
    PROVE  \E h \in [0..Len(text) -> Readings] :
               ReadsArguments(h, state, text) /\ ReadArguments(state, text) = h[Len(text)]
<1>. DEFINE N == Len(text)
            value(f, n) == IF n = 0 THEN state ELSE SplitArgument(f[n - 1], text[n])
            step(f) == [n \in 0..N |-> value(f, n)]
            h == CHOOSE f : f = step(f)
            g == [n \in 1..N |-> [a \in Readings |-> SplitArgument(a, text[n])]]
<1>1. N \in Nat /\ \A n \in 1..N : text[n] \in Chars
    BY ElementOfSeq, LenProperties
<1>2. ReadArguments(state, text) = h[N]
    BY DEF ReadArguments
<1>3. g \in [1..N -> [Readings -> Readings]]
    BY <1>1, SplitArgumentType
<1>4. \E f \in [0..N -> Readings] : f = step(f)
    <2>. HIDE DEF g
    <2>1. PICK f \in [0..N -> Readings] : Follows(f, N, state, g)
        BY <1>1, <1>3, Recursion
    <2>2. ASSUME NEW n \in 1..N PROVE f[n] = SplitArgument(f[n - 1], text[n])
        <3>1. n - 1 \in 0..N /\ f[n - 1] \in Readings
            BY <1>1, <2>1
        <3>. QED
            BY <2>1, <3>1 DEF g, Follows
    <2>3. \A n \in 0..N : f[n] = value(f, n)
        BY <1>1, <2>1, <2>2 DEF Follows
    <2>. HIDE DEF value
    <2>4. f = step(f)
        BY <2>1, <2>3
    <2>. QED
        BY <2>4
<1>5. h = step(h)
    BY <1>4
<1>. HIDE DEF h
<1>6. h[0] = state /\ \A n \in 1..N : h[n] = SplitArgument(h[n - 1], text[n])
    BY <1>1, <1>5
<1>7. DOMAIN h = 0..N /\ h = [n \in 0..N |-> h[n]]
    BY <1>5
<1>. HIDE DEF N
<1>8. \A n \in 1..N : h[n - 1] \in Readings => h[n] \in Readings
    BY <1>1, <1>6, SplitArgumentType
<1>9. \A n \in 0..N : h[n] \in Readings
    BY <1>1, <1>6, <1>8, AlongRecursion
<1>10. h \in [0..N -> Readings]
    BY <1>7, <1>9
<1>. QED
    BY <1>2, <1>6, <1>10 DEF N, ReadsArguments

\* So it ends in one.
LEMMA ReadArgumentsType ==
    ASSUME NEW state \in Readings, NEW s \in Seq(Chars)
    PROVE  ReadArguments(state, s) \in Readings
<1>1. Len(s) \in 0..Len(s)
    BY LenProperties
<1>. QED
    BY <1>1, ReadArgumentsSteps

\* What is read in two parts is read at once.
LEMMA ReadArgumentsConcat ==
    ASSUME NEW state \in Readings, NEW s \in Seq(Chars), NEW t \in Seq(Chars)
    PROVE  ReadArguments(state, s \o t) = ReadArguments(ReadArguments(state, s), t)
<1>. DEFINE M == Len(s)
            N == Len(t)
            middle == ReadArguments(state, s)
<1>1. M \in Nat /\ N \in Nat /\ s \o t \in Seq(Chars) /\ Len(s \o t) = M + N
    BY ConcatProperties, LenProperties
<1>2. \A n \in 1..M : (s \o t)[n] = s[n]
    BY <1>1, ConcatProperties
<1>3. \A n \in 1..N : (s \o t)[M + n] = t[n]
    BY <1>1, ConcatProperties
<1>. HIDE DEF M, N, middle
<1>4. PICK f \in [0..M -> Readings] :
             /\ f[0] = state /\ middle = f[M]
             /\ \A n \in 1..M : f[n] = SplitArgument(f[n - 1], s[n])
    <2>1. PICK f \in [0..Len(s) -> Readings] :
                 ReadsArguments(f, state, s) /\ ReadArguments(state, s) = f[Len(s)]
        BY ReadArgumentsSteps
    <2>. QED
        BY <2>1 DEF ReadsArguments, M, middle
<1>5. middle \in Readings
    BY <1>1, <1>4
<1>6. PICK g \in [0..N -> Readings] :
             /\ g[0] = middle /\ ReadArguments(middle, t) = g[N]
             /\ \A n \in 1..N : g[n] = SplitArgument(g[n - 1], t[n])
    <2>1. PICK g \in [0..Len(t) -> Readings] :
                 ReadsArguments(g, middle, t) /\ ReadArguments(middle, t) = g[Len(t)]
        BY <1>5, ReadArgumentsSteps
    <2>. QED
        BY <2>1 DEF ReadsArguments, N
<1>7. PICK h \in [0..(M + N) -> Readings] :
             /\ h[0] = state /\ ReadArguments(state, s \o t) = h[M + N]
             /\ \A n \in 1..(M + N) : h[n] = SplitArgument(h[n - 1], (s \o t)[n])
    <2>1. PICK h \in [0..Len(s \o t) -> Readings] :
                 ReadsArguments(h, state, s \o t) /\ ReadArguments(state, s \o t) = h[Len(s \o t)]
        BY <1>1, ReadArgumentsSteps
    <2>. QED
        BY <1>1, <2>1 DEF ReadsArguments
<1>8. \A n \in 0..M : h[n] = f[n]
    <2>1. \A n \in 1..M : n \in 1..(M + N)
        BY <1>1
    <2>2. \A n \in 1..M : h[n] = SplitArgument(h[n - 1], s[n])
        BY <1>2, <1>7, <2>1
    <2>3. \A n \in 1..M : h[n - 1] = f[n - 1] => h[n] = f[n]
        BY <1>4, <2>2
    <2>4. h[0] = f[0]
        BY <1>4, <1>7
    <2>5. Alike(h, f, M)
        BY <2>3, <2>4 DEF Alike
    <2>. QED
        BY <1>1, <2>5, SameRecursion
<1>9. h[M] = middle
    BY <1>1, <1>4, <1>8
<1>. DEFINE k == [n \in 0..N |-> h[M + n]]
<1>10. \A n \in 0..N : k[n] = g[n]
    <2>1. k[0] = g[0]
        BY <1>1, <1>6, <1>9
    <2>2. ASSUME NEW n \in 1..N PROVE k[n] = SplitArgument(k[n - 1], t[n])
        <3>1. M + n \in 1..(M + N) /\ (M + n) - 1 = M + (n - 1) /\ n - 1 \in 0..N /\ n \in 0..N
            BY <1>1
        <3>2. h[M + n] = SplitArgument(h[(M + n) - 1], (s \o t)[M + n])
            BY <1>7, <3>1
        <3>3. h[M + n] = SplitArgument(h[M + (n - 1)], t[n])
            BY <1>3, <3>1, <3>2
        <3>. QED
            BY <3>1, <3>3
    <2>. HIDE DEF k
    <2>3. \A n \in 1..N : k[n - 1] = g[n - 1] => k[n] = g[n]
        BY <1>6, <2>2
    <2>4. Alike(k, g, N)
        BY <2>1, <2>3 DEF Alike
    <2>. QED
        BY <1>1, <2>4, SameRecursion
<1>11. h[M + N] = g[N]
    BY <1>1, <1>10
<1>. QED
    BY <1>5, <1>6, <1>7, <1>11 DEF middle


\* One character is one turn of the splitting, none is no turn.
LEMMA ReadArgumentsOne ==
    ASSUME NEW state \in Readings, NEW c \in Chars
    PROVE  /\ ReadArguments(state, <<c>>) = SplitArgument(state, c)
           /\ ReadArguments(state, <<>>) = state
<1>1. <<c>> \in Seq(Chars) /\ Len(<<c>>) = 1 /\ <<c>>[1] = c
    OBVIOUS
<1>2. <<>> \in Seq(Chars) /\ Len(<<>>) = 0
    OBVIOUS
<1>3. ReadArguments(state, <<c>>) = SplitArgument(state, c)
    <2>. DEFINE t == <<c>>
    <2>1. t \in Seq(Chars) /\ Len(t) = 1 /\ t[1] = c
        BY <1>1
    <2>. HIDE DEF t
    <2>2. PICK h \in [0..Len(t) -> Readings] :
                 ReadsArguments(h, state, t) /\ ReadArguments(state, t) = h[Len(t)]
        BY <2>1, ReadArgumentsSteps
    <2>3. h[1] = SplitArgument(h[0], t[1]) /\ h[0] = state
        BY <2>1, <2>2 DEF ReadsArguments
    <2>. QED
        BY <2>1, <2>2, <2>3 DEF t
<1>4. ReadArguments(state, <<>>) = state
    <2>1. PICK h \in [0..Len(<<>>) -> Readings] :
                 ReadsArguments(h, state, <<>>) /\ ReadArguments(state, <<>>) = h[Len(<<>>)]
        BY <1>2, ReadArgumentsSteps
    <2>. QED
        BY <1>2, <2>1 DEF ReadsArguments
<1>. QED
    BY <1>3, <1>4

\* Within an argument, between quotes or outside of them.
Quoting(args, w, k) ==
    [args |-> args, word |-> w, slashes |-> k, quoted |-> TRUE, inside |-> TRUE]
Bare(args, w, k) ==
    [args |-> args, word |-> w, slashes |-> k, quoted |-> FALSE, inside |-> TRUE]

\* These are states, and so is the one between two arguments.
LEMMA StateTypes ==
    ASSUME NEW args \in Seq(Seq(Chars)), NEW w \in Seq(Chars), NEW k \in Nat
    PROVE  Quoting(args, w, k) \in Readings /\ Bare(args, w, k) \in Readings
           /\ Between(args) \in Readings
BY EmptySeq DEF Quoting, Bare, Between, Readings

\* A backslash waits for what follows.
LEMMA SplitBackslash ==
    ASSUME NEW args, NEW w, NEW k
    PROVE  /\ SplitArgument(Quoting(args, w, k), Backslash) = Quoting(args, w, k + 1)
           /\ SplitArgument(Bare(args, w, k), Backslash) = Bare(args, w, k + 1)
           /\ SplitArgument(Between(args), Backslash) = Bare(args, <<>>, 0 + 1)
<1>1. SplitArgument(Quoting(args, w, k), Backslash) = Quoting(args, w, k + 1)
    BY DEF SplitArgument, Quoting
<1>2. SplitArgument(Bare(args, w, k), Backslash) = Bare(args, w, k + 1)
    BY DEF SplitArgument, Bare
<1>3. SplitArgument(Between(args), Backslash) = Bare(args, <<>>, 0 + 1)
    BY DEF SplitArgument, Bare, Between
<1>. QED
    BY <1>1, <1>2, <1>3

\* A quote opens and, with an even number of backslashes before it, closes.
LEMMA SplitEvenQuote ==
    ASSUME NEW args, NEW w, NEW k \in Nat, k % 2 = 0
    PROVE  /\ SplitArgument(Quoting(args, w, k), Quote)
                = Bare(args, w \o Backslashes(k \div 2), 0)
           /\ SplitArgument(Between(args), Quote) = Quoting(args, <<>>, 0)
<1>1. SplitArgument(Quoting(args, w, k), Quote) = Bare(args, w \o Backslashes(k \div 2), 0)
    BY CommandLineAssumption DEF SplitArgument, Quoting, Bare
<1>2. <<>> \o Backslashes(0 \div 2) = <<>> /\ 0 % 2 = 0
    <2>1. 0 \div 2 = 0 /\ 0 % 2 = 0
        OBVIOUS
    <2>. QED
        BY <2>1, BackslashNone, ConcatEmptySeq
<1>3. SplitArgument(Between(args), Quote) = Quoting(args, <<>>, 0)
    BY <1>2, CommandLineAssumption DEF SplitArgument, Quoting, Between
<1>. QED
    BY <1>1, <1>3

\* With an odd number it is a character.
LEMMA SplitOddQuote ==
    ASSUME NEW args, NEW w, NEW k \in Nat, k % 2 # 0
    PROVE  SplitArgument(Quoting(args, w, k), Quote)
             = Quoting(args, w \o Backslashes(k \div 2) \o <<Quote>>, 0)
BY CommandLineAssumption DEF SplitArgument, Quoting

\* Other characters stand for themselves, a blank between quotes too; the
\* backslashes before them are part of the word.
LEMMA SplitOther ==
    ASSUME NEW args, NEW w, NEW k, NEW c, c # Quote, c # Backslash
    PROVE  /\ SplitArgument(Quoting(args, w, k), c)
                = Quoting(args, w \o Backslashes(k) \o <<c>>, 0)
           /\ c # Blank => SplitArgument(Bare(args, w, k), c)
                             = Bare(args, w \o Backslashes(k) \o <<c>>, 0)
           /\ c # Blank => SplitArgument(Between(args), c)
                             = Bare(args, <<>> \o Backslashes(0) \o <<c>>, 0)
BY DEF SplitArgument, Quoting, Bare, Between

\* A blank ends an argument, and before one it is nothing.
LEMMA SplitBlank ==
    ASSUME NEW args, NEW w, NEW k
    PROVE  /\ SplitArgument(Bare(args, w, k), Blank) = Between(Append(args, w \o Backslashes(k)))
           /\ SplitArgument(Between(args), Blank) = Between(args)
BY CommandLineAssumption DEF SplitArgument, Bare, Between

\* Backslashes are counted.
LEMMA ReadBackslashes ==
    ASSUME NEW args \in Seq(Seq(Chars)), NEW w \in Seq(Chars), NEW n \in Nat
    PROVE  ReadArguments(Quoting(args, w, 0), Backslashes(n)) = Quoting(args, w, n)
<1>. DEFINE After(m) == Quoting(args, w, m)
            T == {m \in Nat : ReadArguments(After(0), Backslashes(m)) = After(m)}
<1>1. Backslash \in Chars /\ <<Backslash>> \in Seq(Chars)
    BY DEF Chars
<1>2. \A m \in Nat : After(m) \in Readings /\ SplitArgument(After(m), Backslash) = After(m + 1)
    BY StateTypes, SplitBackslash
<1>. HIDE DEF After
<1>3. 0 \in T
    BY <1>1, <1>2, ReadArgumentsOne, BackslashNone
<1>4. ASSUME NEW m \in Nat, m \in T
      PROVE  m + 1 \in T
    <2>1. Backslashes(m) \in Seq(Chars) /\ Backslashes(m + 1) = Backslashes(m) \o <<Backslash>>
        BY BackslashType, BackslashMore
    <2>2. ReadArguments(After(0), Backslashes(m)) = After(m)
        BY <1>4
    <2>3. ReadArguments(After(0), Backslashes(m + 1)) = ReadArguments(After(m), <<Backslash>>)
        <3>. DEFINE s == Backslashes(m)
                    t == <<Backslash>>
        <3>1. After(0) \in Readings /\ s \in Seq(Chars) /\ t \in Seq(Chars)
            BY <1>1, <1>2, <2>1
        <3>. HIDE DEF s, t
        <3>2. ReadArguments(After(0), s \o t) = ReadArguments(ReadArguments(After(0), s), t)
            BY <3>1, ReadArgumentsConcat
        <3>. QED
            BY <2>1, <2>2, <3>2 DEF s, t
    <2>4. ReadArguments(After(m), <<Backslash>>) = After(m + 1)
        BY <1>1, <1>2, ReadArgumentsOne
    <2>. QED
        BY <2>3, <2>4
<1>5. n \in T
    <2>. HIDE DEF T
    <2>. QED
        BY <1>3, <1>4, SetInduction
<1>. QED
    BY <1>5 DEF After

\* And a character after them.
LEMMA ReadSlashesAnd ==
    ASSUME NEW args \in Seq(Seq(Chars)), NEW w \in Seq(Chars),
           NEW n \in Nat, NEW c \in Chars
    PROVE  ReadArguments(Quoting(args, w, 0), Backslashes(n) \o <<c>>)
             = SplitArgument(Quoting(args, w, n), c)
<1>1. Quoting(args, w, 0) \in Readings /\ Quoting(args, w, n) \in Readings
    BY StateTypes
<1>2. Backslashes(n) \in Seq(Chars) /\ <<c>> \in Seq(Chars)
    BY BackslashType
<1>3. ReadArguments(Quoting(args, w, 0), Backslashes(n) \o <<c>>)
        = ReadArguments(Quoting(args, w, n), <<c>>)
    <2>. DEFINE state == Quoting(args, w, 0)
                s == Backslashes(n)
                t == <<c>>
    <2>1. ReadArguments(state, s) = Quoting(args, w, n)
        BY ReadBackslashes
    <2>2. state \in Readings /\ s \in Seq(Chars) /\ t \in Seq(Chars)
        BY <1>1, <1>2
    <2>. HIDE DEF state, s, t
    <2>3. ReadArguments(state, s \o t) = ReadArguments(ReadArguments(state, s), t)
        BY <2>2, ReadArgumentsConcat
    <2>. QED
        BY <2>1, <2>3 DEF state, s, t
<1>. QED
    BY <1>1, <1>3, ReadArgumentsOne

\* What the loop of append_quoted_wide has written of an argument up to p is
\* read back as p, but for the backslashes it holds back.
Escapings == [slashes : Nat, text : Seq(Chars)]
ReadBack(args, p, escaped) ==
    LET state == ReadArguments(Quoting(args, <<>>, 0), escaped.text)
    IN  /\ escaped \in Escapings
        /\ state.word \in Seq(Chars) /\ state = Quoting(args, state.word, 0)
        /\ state.word \o Backslashes(escaped.slashes) = p

\* Each turn of the loop keeps this.
LEMMA EscapeReadsBack ==
    ASSUME NEW args \in Seq(Seq(Chars)), NEW p \in Seq(Chars), NEW escaped, NEW c \in Chars,
           ReadBack(args, p, escaped)
    PROVE  ReadBack(args, p \o <<c>>, Escape(escaped, c))
<1>. DEFINE k == escaped.slashes
            text == escaped.text
            w == ReadArguments(Quoting(args, <<>>, 0), text).word
            next == Escape(escaped, c)
<1>1. /\ k \in Nat /\ text \in Seq(Chars) /\ escaped = [slashes |-> k, text |-> text]
      /\ w \in Seq(Chars) /\ w \o Backslashes(k) = p
      /\ ReadArguments(Quoting(args, <<>>, 0), text) = Quoting(args, w, 0)
    BY DEF ReadBack, Escapings
<1>. HIDE DEF w
<1>2. Quoting(args, <<>>, 0) \in Readings /\ Backslashes(k) \in Seq(Chars) /\ <<c>> \in Seq(Chars)
    <2>1. Quoting(args, <<>>, 0) \in Readings
        BY EmptySeq, StateTypes
    <2>. HIDE DEF k
    <2>2. Backslashes(k) \in Seq(Chars)
        BY <1>1, BackslashType
    <2>. QED
        BY <2>1, <2>2
<1>3. CASE c = Backslash
    <2>1. next = [slashes |-> k + 1, text |-> text]
        BY <1>1, <1>3 DEF Escape
    <2>. HIDE DEF next, k
    <2>2. Backslashes(k + 1) = Backslashes(k) \o <<c>>
        BY <1>1, <1>3, BackslashMore
    <2>3. w \o Backslashes(k + 1) = p \o <<c>>
        <3>. DEFINE s == Backslashes(k)
                    t == <<c>>
        <3>1. w \in Seq(Chars) /\ s \in Seq(Chars) /\ t \in Seq(Chars)
            BY <1>1, <1>2
        <3>. HIDE DEF s, t
        <3>2. (w \o s) \o t = w \o (s \o t)
            BY <3>1, ConcatAssociative, SMTT(60)
        <3>. QED
            BY <1>1, <2>2, <3>2 DEF s, t
    <2>. HIDE DEF text
    <2>4. next \in Escapings /\ next.slashes = k + 1 /\ next.text = text
        BY <1>1, <2>1 DEF Escapings
    <2>. HIDE DEF next
    <2>. QED
        BY <1>1, <2>3, <2>4 DEF ReadBack, w, next
<1>4. CASE c # Backslash
    <2>. DEFINE n == IF c = Quote THEN 2 * k + 1 ELSE k
                slashes == Backslashes(n)
                more == slashes \o <<c>>
    <2>1. n \in Nat
        BY <1>1
    <2>2. next = [slashes |-> 0, text |-> text \o slashes \o <<c>>]
        BY <1>4 DEF Escape
    <2>3. SplitArgument(Quoting(args, w, n), c)
            = Quoting(args, w \o Backslashes(k) \o <<c>>, 0)
        <3>1. CASE c = Quote
            <4>1. n = 2 * k + 1
                BY <3>1
            <4>2. \A j \in Nat : (2 * j + 1) % 2 # 0 /\ (2 * j + 1) \div 2 = j
                OBVIOUS
            <4>. HIDE DEF n, k
            <4>3. n % 2 # 0 /\ n \div 2 = k
                BY <1>1, <4>1, <4>2
            <4>. QED
                BY <1>1, <2>1, <3>1, <4>3, SplitOddQuote
        <3>2. CASE c # Quote
            <4>1. n = k
                BY <3>2
            <4>. HIDE DEF n, k
            <4>2. SplitArgument(Quoting(args, w, k), c)
                    = Quoting(args, w \o Backslashes(k) \o <<c>>, 0)
                BY <1>4, <3>2, SplitOther
            <4>. QED
                BY <4>1, <4>2
        <3>. QED
            BY <3>1, <3>2
    <2>4. ReadArguments(Quoting(args, w, 0), more)
            = SplitArgument(Quoting(args, w, n), c)
        <3>. HIDE DEF n
        <3>. QED
            BY <1>1, <2>1, ReadSlashesAnd
    <2>5. slashes \in Seq(Chars) /\ more \in Seq(Chars)
        <3>. HIDE DEF n
        <3>. QED
            BY <1>2, <2>1, BackslashType, ConcatProperties
    <2>. HIDE DEF next, n, slashes
    <2>6. text \o more = text \o slashes \o <<c>> /\ text \o more \in Seq(Chars)
        <3>. DEFINE t == <<c>>
        <3>1. text \in Seq(Chars) /\ t \in Seq(Chars)
            BY <1>1, <1>2
        <3>. HIDE DEF t, text
        <3>2. (text \o slashes) \o t = text \o (slashes \o t)
            BY <2>5, <3>1, ConcatAssociative
        <3>3. text \o (slashes \o t) \in Seq(Chars)
            BY <2>5, <3>1, ConcatProperties
        <3>. QED
            BY <3>2, <3>3 DEF t
    <2>. HIDE DEF more
    <2>7. ReadArguments(Quoting(args, <<>>, 0), text \o more)
            = ReadArguments(Quoting(args, w, 0), more)
        <3>1. text \in Seq(Chars) /\ ReadArguments(Quoting(args, <<>>, 0), text) = Quoting(args, w, 0)
            BY <1>1
        <3>. HIDE DEF text
        <3>2. ReadArguments(Quoting(args, <<>>, 0), text \o more)
                = ReadArguments(ReadArguments(Quoting(args, <<>>, 0), text), more)
            BY <1>2, <2>5, <3>1, ReadArgumentsConcat
        <3>. QED
            BY <3>1, <3>2
    <2>. DEFINE word == p \o <<c>>
    <2>8. word \in Seq(Chars) /\ word \o Backslashes(0) = word
        BY <1>2, ConcatProperties, BackslashNone, ConcatEmptySeq
    <2>9. ReadArguments(Quoting(args, <<>>, 0), text \o more) = Quoting(args, word, 0)
        BY <1>1, <2>3, <2>4, <2>7
    <2>. HIDE DEF word, text
    <2>10. next \in Escapings /\ next.slashes = 0 /\ next.text = text \o more
        BY <2>2, <2>6 DEF Escapings
    <2>11. Quoting(args, word, 0).word = word
        BY DEF Quoting
    <2>. QED
        BY <2>8, <2>9, <2>10, <2>11 DEF ReadBack, next, word
<1>. QED
    BY <1>3, <1>4

\* The loop of append_quoted_wide passes through a state after each character.
LEMMA EscapeType ==
    ASSUME NEW escaped \in Escapings, NEW c \in Chars
    PROVE  Escape(escaped, c) \in Escapings
<1>. DEFINE n == IF c = Quote THEN 2 * escaped.slashes + 1 ELSE escaped.slashes
            text == escaped.text \o Backslashes(n) \o <<c>>
<1>1. escaped.slashes \in Nat /\ escaped.text \in Seq(Chars) /\ n \in Nat
    BY DEF Escapings
<1>2. text \in Seq(Chars)
    <2>. HIDE DEF n
    <2>1. Backslashes(n) \in Seq(Chars) /\ <<c>> \in Seq(Chars)
        BY <1>1, BackslashType
    <2>. QED
        BY <1>1, <2>1, ConcatProperties
<1>3. CASE c = Backslash
    BY <1>1, <1>3 DEF Escape, Escapings
<1>4. CASE c # Backslash
    <2>1. Escape(escaped, c) = [slashes |-> 0, text |-> text]
        BY <1>4 DEF Escape
    <2>. HIDE DEF text
    <2>. QED
        BY <1>2, <2>1 DEF Escapings
<1>. QED
    BY <1>3, <1>4

\* The states from the first on, one after each character.
Escapes(h, text) ==
    /\ h[0] = Unescaped
    /\ \A n \in 1..Len(text) : h[n] = Escape(h[n - 1], text[n])

\* They lead from the beginning to the end of the argument.
LEMMA EscapedSteps ==
    ASSUME NEW text \in Seq(Chars)
    PROVE  \E h \in [0..Len(text) -> Escapings] : Escapes(h, text) /\ Escaped(text) = h[Len(text)]
<1>. DEFINE N == Len(text)
            value(f, n) == IF n = 0 THEN Unescaped ELSE Escape(f[n - 1], text[n])
            step(f) == [n \in 0..N |-> value(f, n)]
            h == CHOOSE f : f = step(f)
            g == [n \in 1..N |-> [a \in Escapings |-> Escape(a, text[n])]]
<1>1. N \in Nat /\ (\A n \in 1..N : text[n] \in Chars) /\ Unescaped \in Escapings
    BY ElementOfSeq, LenProperties, EmptySeq DEF Unescaped, Escapings
<1>2. Escaped(text) = h[N]
    BY DEF Escaped
<1>3. g \in [1..N -> [Escapings -> Escapings]]
    BY <1>1, EscapeType
<1>4. \E f \in [0..N -> Escapings] : f = step(f)
    <2>. HIDE DEF g
    <2>1. PICK f \in [0..N -> Escapings] : Follows(f, N, Unescaped, g)
        BY <1>1, <1>3, Recursion
    <2>2. ASSUME NEW n \in 1..N PROVE f[n] = Escape(f[n - 1], text[n])
        <3>1. n - 1 \in 0..N /\ f[n - 1] \in Escapings
            BY <1>1, <2>1
        <3>. QED
            BY <2>1, <3>1 DEF g, Follows
    <2>3. \A n \in 0..N : f[n] = value(f, n)
        BY <1>1, <2>1, <2>2 DEF Follows
    <2>. HIDE DEF value
    <2>4. f = step(f)
        BY <2>1, <2>3
    <2>. QED
        BY <2>4
<1>5. h = step(h)
    BY <1>4
<1>. HIDE DEF h
<1>6. h[0] = Unescaped /\ \A n \in 1..N : h[n] = Escape(h[n - 1], text[n])
    BY <1>1, <1>5
<1>7. DOMAIN h = 0..N /\ h = [n \in 0..N |-> h[n]]
    BY <1>5
<1>. HIDE DEF N
<1>8. \A n \in 1..N : h[n - 1] \in Escapings => h[n] \in Escapings
    BY <1>1, <1>6, EscapeType
<1>9. \A n \in 0..N : h[n] \in Escapings
    BY <1>1, <1>6, <1>8, AlongRecursion
<1>10. h \in [0..N -> Escapings]
    BY <1>7, <1>9
<1>. QED
    BY <1>2, <1>6, <1>10 DEF N, Escapes

\* All of an argument is written so that it is read back as it was.
LEMMA EscapedReadsBack ==
    ASSUME NEW args \in Seq(Seq(Chars)), NEW arg \in Seq(Chars)
    PROVE  ReadBack(args, arg, Escaped(arg))
<1>. DEFINE p(n) == SubSeq(arg, 1, n)
<1>1. PICK h \in [0..Len(arg) -> Escapings] : Escapes(h, arg) /\ Escaped(arg) = h[Len(arg)]
    BY EscapedSteps
<1>. DEFINE T == {n \in Nat : n <= Len(arg) => ReadBack(args, p(n), h[n])}
<1>2. Len(arg) \in Nat /\ p(0) = <<>> /\ p(Len(arg)) = arg
    BY LenProperties, SubSeqFull, SubSeqEmpty
<1>3. 0 \in T
    <2>. DEFINE state == Quoting(args, <<>>, 0)
    <2>1. state \in Readings /\ state.word = <<>> /\ <<>> \in Seq(Chars)
        BY EmptySeq, StateTypes DEF Quoting
    <2>. HIDE DEF state
    <2>2. ReadArguments(state, <<>>) = state
        <3>1. Quote \in Chars
            BY DEF Chars
        <3>. QED
            BY <2>1, <3>1, ReadArgumentsOne
    <2>3. Unescaped.text = <<>> /\ Unescaped.slashes = 0 /\ Unescaped \in Escapings
        BY <2>1 DEF Unescaped, Escapings
    <2>4. <<>> \o Backslashes(0) = <<>>
        BY BackslashNone, ConcatEmptySeq
    <2>5. ReadBack(args, <<>>, Unescaped)
        BY <2>1, <2>2, <2>3, <2>4 DEF ReadBack, state
    <2>. QED
        BY <1>1, <1>2, <2>5 DEF Escapes
<1>4. ASSUME NEW n \in Nat, n \in T
      PROVE  n + 1 \in T
    <2>. SUFFICES ASSUME n + 1 <= Len(arg)
                  PROVE  ReadBack(args, p(n + 1), h[n + 1])
        OBVIOUS
    <2>1. n + 1 \in 1..Len(arg) /\ (n + 1) - 1 = n /\ n <= Len(arg)
        BY <1>2
    <2>2. ReadBack(args, p(n), h[n])
        BY <1>4, <2>1
    <2>3. h[n + 1] = Escape(h[n], arg[n + 1])
        BY <1>1, <2>1 DEF Escapes
    <2>4. p(n) \in Seq(Chars) /\ arg[n + 1] \in Chars /\ p(n + 1) = p(n) \o <<arg[n + 1]>>
        BY PrefixGrows
    <2>. HIDE DEF p
    <2>5. ReadBack(args, p(n) \o <<arg[n + 1]>>, Escape(h[n], arg[n + 1]))
        BY <2>2, <2>4, EscapeReadsBack
    <2>. QED
        BY <2>3, <2>4, <2>5
<1>5. Len(arg) \in T
    <2>. HIDE DEF T
    <2>. QED
        BY <1>2, <1>3, <1>4, SetInduction
<1>. HIDE DEF p
<1>6. ReadBack(args, p(Len(arg)), h[Len(arg)])
    BY <1>2, <1>5
<1>. QED
    BY <1>1, <1>2, <1>6

\* It does not matter in which order sequences are joined.
LEMMA JoinAll ==
    ASSUME NEW s \in Seq(Chars), NEW t \in Seq(Chars), NEW u \in Seq(Chars)
    PROVE  (s \o t) \o u = s \o (t \o u)
BY ConcatAssociative

\* What has been read of an argument that needs no quotes.
BareBack(args, p, state) ==
    /\ state.word \in Seq(Chars) /\ state.slashes \in Nat
    /\ state.word \o Backslashes(state.slashes) = p
    /\ state = IF p = <<>> THEN Between(args) ELSE Bare(args, state.word, state.slashes)

\* It is the argument up to there.
LEMMA BareGoesOn ==
    ASSUME NEW args \in Seq(Seq(Chars)), NEW p \in Seq(Chars), NEW state, BareBack(args, p, state),
           NEW c \in Chars, c # Blank, c # Quote
    PROVE  BareBack(args, p \o <<c>>, SplitArgument(state, c))
<1>. DEFINE w == state.word
            k == state.slashes
            one == <<c>>
            some == Backslashes(k)
            next == SplitArgument(state, c)
<1>1. /\ w \in Seq(Chars) /\ k \in Nat /\ w \o some = p
      /\ (state = Bare(args, w, k) \/ (p = <<>> /\ state = Between(args)))
    BY DEF BareBack
<1>2. state = Between(args) => w = <<>> /\ k = 0
    BY DEF Between
<1>. HIDE DEF w, k
<1>3. one \in Seq(Chars) /\ some \in Seq(Chars) /\ p \o one \in Seq(Chars) /\ p \o one # <<>>
    <2>1. some \in Seq(Chars)
        BY <1>1, BackslashType
    <2>2. p \o <<c>> = Append(p, c)
        BY AppendIsConcat
    <2>. QED
        BY <2>1, <2>2, AppendProperties
<1>4. CASE c = Backslash
    <2>1. next = Bare(args, w, k + 1)
        BY <1>1, <1>2, <1>4, SplitBackslash
    <2>2. Backslashes(k + 1) = some \o one
        BY <1>1, <1>4, BackslashMore
    <2>. HIDE DEF one, some, next
    <2>3. w \o (some \o one) = p \o one
        <3>1. w \in Seq(Chars) /\ some \in Seq(Chars) /\ one \in Seq(Chars) /\ w \o some = p
            BY <1>1, <1>3
        <3>2. (w \o some) \o one = w \o (some \o one)
            BY <3>1, JoinAll
        <3>. QED
            BY <3>1, <3>2
    <2>4. next.word = w /\ next.slashes = k + 1
        BY <2>1 DEF Bare
    <2>5. k + 1 \in Nat
        BY <1>1
    <2>6. BareBack(args, p \o one, next)
        BY <1>1, <1>3, <2>1, <2>2, <2>3, <2>4, <2>5 DEF BareBack
    <2>. QED
        BY <2>6 DEF one, next
<1>5. CASE c # Backslash
    <2>1. next = Bare(args, w \o some \o one, 0)
        <3>1. CASE state = Bare(args, w, k)
            BY <1>5, <3>1, SplitOther
        <3>2. CASE state = Between(args)
            <4>1. w = <<>> /\ k = 0
                BY <1>2, <3>2
            <4>2. SplitArgument(Between(args), c) = Bare(args, <<>> \o Backslashes(0) \o <<c>>, 0)
                BY <1>5, SplitOther
            <4>. QED
                BY <3>2, <4>1, <4>2
        <3>. QED
            BY <1>1, <3>1, <3>2
    <2>. DEFINE word == p \o one
    <2>2. next = Bare(args, word, 0)
        <3>1. w \o some \o one = word
            BY <1>1
        <3>. HIDE DEF next, some, one, word
        <3>. QED
            BY <2>1, <3>1
    <2>3. word \in Seq(Chars) /\ word # <<>>
        BY <1>3
    <2>. HIDE DEF next, word
    <2>4. word \o Backslashes(0) = word
        BY <2>3, BackslashNone, ConcatEmptySeq
    <2>5. next.word = word /\ next.slashes = 0
        BY <2>2 DEF Bare
    <2>6. BareBack(args, word, next)
        <3>1. next = IF word = <<>> THEN Between(args) ELSE Bare(args, next.word, next.slashes)
            BY <2>2, <2>3, <2>5
        <3>2. next.word \in Seq(Chars) /\ next.slashes \in Nat
            BY <2>3, <2>5
        <3>3. next.word \o Backslashes(next.slashes) = word
            BY <2>4, <2>5
        <3>. QED
            BY <3>1, <3>2, <3>3 DEF BareBack
    <2>. QED
        BY <2>6 DEF word, next
<1>. QED
    BY <1>4, <1>5

\* So all of it is read back.
LEMMA BareReadsBack ==
    ASSUME NEW args \in Seq(Seq(Chars)), NEW arg \in Seq(Chars), ~Mem(Blank, arg), ~Mem(Quote, arg)
    PROVE  BareBack(args, arg, ReadArguments(Between(args), arg))
<1>. DEFINE p(n) == SubSeq(arg, 1, n)
<1>1. Between(args) \in Readings
    BY EmptySeq, StateTypes
<1>2. PICK h \in [0..Len(arg) -> Readings] :
             ReadsArguments(h, Between(args), arg) /\ ReadArguments(Between(args), arg) = h[Len(arg)]
    BY <1>1, ReadArgumentsSteps
<1>. DEFINE T == {n \in Nat : n <= Len(arg) => BareBack(args, p(n), h[n])}
<1>3. Len(arg) \in Nat /\ p(0) = <<>> /\ p(Len(arg)) = arg
    BY LenProperties, SubSeqFull, SubSeqEmpty
<1>4. \A n \in 1..Len(arg) : arg[n] # Blank /\ arg[n] # Quote
    BY DEF Mem
<1>5. 0 \in T
    <2>1. <<>> \o Backslashes(0) = <<>> /\ <<>> \in Seq(Chars)
        BY BackslashNone, EmptySeq, ConcatEmptySeq
    <2>2. Between(args).word = <<>> /\ Between(args).slashes = 0
        BY DEF Between
    <2>3. BareBack(args, <<>>, Between(args))
        BY <2>1, <2>2 DEF BareBack
    <2>. QED
        BY <1>2, <1>3, <2>3 DEF ReadsArguments
<1>6. ASSUME NEW n \in Nat, n \in T
      PROVE  n + 1 \in T
    <2>. SUFFICES ASSUME n + 1 <= Len(arg)
                  PROVE  BareBack(args, p(n + 1), h[n + 1])
        OBVIOUS
    <2>. DEFINE c == arg[n + 1]
    <2>1. n + 1 \in 1..Len(arg) /\ (n + 1) - 1 = n /\ n <= Len(arg)
        BY <1>3
    <2>2. BareBack(args, p(n), h[n])
        BY <1>6, <2>1
    <2>3. h[n + 1] = SplitArgument(h[n], c)
        BY <1>2, <2>1 DEF ReadsArguments
    <2>4. p(n) \in Seq(Chars) /\ c \in Chars /\ p(n + 1) = p(n) \o <<c>>
        BY PrefixGrows
    <2>5. c # Blank /\ c # Quote
        BY <1>4, <2>1
    <2>. HIDE DEF p, c
    <2>6. BareBack(args, p(n) \o <<c>>, SplitArgument(h[n], c))
        BY <2>2, <2>4, <2>5, BareGoesOn
    <2>. QED
        BY <2>3, <2>4, <2>6
<1>7. Len(arg) \in T
    <2>. HIDE DEF T
    <2>. QED
        BY <1>3, <1>5, <1>6, SetInduction
<1>. HIDE DEF p
<1>8. BareBack(args, p(Len(arg)), h[Len(arg)])
    BY <1>3, <1>7
<1>. QED
    BY <1>2, <1>3, <1>8

\* The closing quote ends what was quoted.
LEMMA CloseReadsBack ==
    ASSUME NEW args \in Seq(Seq(Chars)), NEW arg \in Seq(Chars)
    PROVE  /\ CloseQuote(Escaped(arg)) \in Seq(Chars)
           /\ ReadArguments(Quoting(args, <<>>, 0), CloseQuote(Escaped(arg))) = Bare(args, arg, 0)
<1>. DEFINE k == Escaped(arg).slashes
            text == Escaped(arg).text
            state == Quoting(args, <<>>, 0)
            middle == ReadArguments(state, text)
            w == middle.word
            some == Backslashes(2 * k)
            one == <<Quote>>
<1>1. /\ k \in Nat /\ text \in Seq(Chars) /\ w \in Seq(Chars)
      /\ middle = Quoting(args, w, 0) /\ w \o Backslashes(k) = arg
    BY EscapedReadsBack DEF ReadBack, Escapings
<1>2. CloseQuote(Escaped(arg)) = (text \o some) \o one
    BY DEF CloseQuote
<1>. HIDE DEF k, text
<1>3. Quote \in Chars /\ state \in Readings
    BY EmptySeq, StateTypes DEF Chars
<1>4. 2 * k \in Nat /\ (2 * k) % 2 = 0 /\ (2 * k) \div 2 = k
    BY <1>1
<1>5. some \in Seq(Chars) /\ one \in Seq(Chars)
    BY <1>3, <1>4, BackslashType
<1>. HIDE DEF w
<1>6. ReadArguments(middle, some \o one) = Bare(args, arg, 0)
    <2>1. ReadArguments(Quoting(args, w, 0), some \o one) = SplitArgument(Quoting(args, w, 2 * k), Quote)
        BY <1>1, <1>3, <1>4, ReadSlashesAnd
    <2>2. SplitArgument(Quoting(args, w, 2 * k), Quote) = Bare(args, w \o Backslashes(k), 0)
        BY <1>4, SplitEvenQuote
    <2>. QED
        BY <1>1, <2>1, <2>2
<1>. HIDE DEF some, one, state
<1>7. some \o one \in Seq(Chars) /\ (text \o some) \o one = text \o (some \o one)
      /\ text \o (some \o one) \in Seq(Chars)
    <2>1. some \o one \in Seq(Chars)
        BY <1>5, ConcatProperties
    <2>2. (text \o some) \o one = text \o (some \o one)
        BY <1>1, <1>5, JoinAll, SMTT(60)
    <2>. DEFINE more == some \o one
    <2>3. more \in Seq(Chars)
        BY <2>1
    <2>. HIDE DEF more
    <2>4. text \o more \in Seq(Chars)
        BY <1>1, <2>3, ConcatProperties
    <2>. QED
        BY <2>1, <2>2, <2>4 DEF more
<1>8. ReadArguments(state, text \o (some \o one)) = ReadArguments(middle, some \o one)
    <2>. DEFINE more == some \o one
    <2>1. more \in Seq(Chars)
        BY <1>7
    <2>. HIDE DEF more
    <2>2. ReadArguments(state, text \o more) = ReadArguments(ReadArguments(state, text), more)
        BY <1>1, <1>3, <2>1, ReadArgumentsConcat
    <2>. QED
        BY <2>2 DEF more
<1>. QED
    BY <1>2, <1>6, <1>7, <1>8 DEF state

\* A quoted argument and the blank behind it are read as that argument.
LEMMA QuotedReadsBack ==
    ASSUME NEW args \in Seq(Seq(Chars)), NEW arg \in Seq(Chars)
    PROVE  /\ Quoted(arg) \in Seq(Chars)
           /\ ReadArguments(Between(args), Quoted(arg) \o <<Blank>>) = Between(Append(args, arg))
<1>. DEFINE state == Between(args)
            end == <<Blank>>
            next == Between(Append(args, arg))
<1>1. Blank \in Chars /\ Quote \in Chars /\ state \in Readings /\ end \in Seq(Chars)
    <2>1. Blank \in Chars /\ Quote \in Chars
        BY DEF Chars
    <2>2. state \in Readings
        BY EmptySeq, StateTypes
    <2>. QED
        BY <2>1, <2>2
<1>2. ASSUME NEW w \in Seq(Chars), NEW k \in Nat, w \o Backslashes(k) = arg
      PROVE  ReadArguments(Bare(args, w, k), end) = next
    <2>1. SplitArgument(Bare(args, w, k), Blank) = next
        <3>1. SplitArgument(Bare(args, w, k), Blank) = Between(Append(args, w \o Backslashes(k)))
            BY SplitBlank
        <3>. QED
            BY <1>2, <3>1
    <2>2. Bare(args, w, k) \in Readings
        BY StateTypes
    <2>. QED
        BY <1>1, <2>1, <2>2, ReadArgumentsOne
<1>. HIDE DEF state, end, next
<1>3. CASE arg # <<>> /\ ~Mem(Blank, arg) /\ ~Mem(Quote, arg)
    <2>. DEFINE read == ReadArguments(state, arg)
    <2>1. Quoted(arg) = arg
        BY <1>3 DEF Quoted
    <2>2. BareBack(args, arg, read)
        BY <1>3, BareReadsBack DEF state
    <2>. HIDE DEF read
    <2>3. /\ read.word \in Seq(Chars) /\ read.slashes \in Nat
          /\ read.word \o Backslashes(read.slashes) = arg
          /\ read = Bare(args, read.word, read.slashes)
        BY <1>3, <2>2 DEF BareBack
    <2>4. ReadArguments(Bare(args, read.word, read.slashes), end) = next
        BY <1>2, <2>3
    <2>5. ReadArguments(state, arg \o end) = ReadArguments(read, end)
        BY <1>1, ReadArgumentsConcat DEF read
    <2>. QED
        BY <2>1, <2>3, <2>4, <2>5 DEF state, end, next
<1>4. CASE ~(arg # <<>> /\ ~Mem(Blank, arg) /\ ~Mem(Quote, arg))
    <2>. DEFINE open == <<Quote>>
                close == CloseQuote(Escaped(arg))
                inner == Quoting(args, <<>>, 0)
    <2>1. Quoted(arg) = open \o close
        BY <1>4 DEF Quoted
    <2>2. ReadArguments(state, open) = inner
        <3>1. SplitArgument(Between(args), Quote) = inner
            <4>1. 0 % 2 = 0
                OBVIOUS
            <4>. QED
                BY <4>1, SplitEvenQuote
        <3>. QED
            BY <1>1, <3>1, ReadArgumentsOne DEF state
    <2>3. close \in Seq(Chars) /\ ReadArguments(inner, close) = Bare(args, arg, 0)
        BY CloseReadsBack
    <2>4. open \in Seq(Chars)
        BY <1>1
    <2>. HIDE DEF open, close, inner
    <2>5. ReadArguments(Bare(args, arg, 0), end) = next
        <3>1. arg \o Backslashes(0) = arg
            BY BackslashNone, ConcatEmptySeq
        <3>. QED
            BY <1>2, <3>1
    <2>6. open \o close \in Seq(Chars)
        BY <2>3, <2>4, ConcatProperties
    <2>7. ReadArguments(state, open \o close) = Bare(args, arg, 0)
        BY <1>1, <2>2, <2>3, <2>4, ReadArgumentsConcat
    <2>. DEFINE both == open \o close
    <2>. HIDE DEF both
    <2>8. both \in Seq(Chars) /\ ReadArguments(state, both) = Bare(args, arg, 0)
        BY <2>6, <2>7 DEF both
    <2>9. ReadArguments(state, both \o end) = ReadArguments(ReadArguments(state, both), end)
        BY <1>1, <2>8, ReadArgumentsConcat
    <2>10. ReadArguments(state, both \o end) = next
        BY <2>5, <2>8, <2>9
    <2>. QED
        BY <2>1, <2>8, <2>10 DEF both, state, end, next
<1>. QED
    BY <1>3, <1>4

\* One character of a name is one turn.
LEMMA ReadNameOne ==
    ASSUME NEW state \in Namings, NEW c \in Chars
    PROVE  ReadName(state, <<c>>) = SplitName(state, c)
<1>. DEFINE t == <<c>>
<1>1. t \in Seq(Chars) /\ Len(t) = 1 /\ t[1] = c
    OBVIOUS
<1>. HIDE DEF t
<1>2. PICK h \in [0..Len(t) -> Namings] :
             ReadsName(h, state, t) /\ ReadName(state, t) = h[Len(t)]
    BY <1>1, ReadNameSteps
<1>3. h[1] = SplitName(h[0], t[1]) /\ h[0] = state
    BY <1>1, <1>2 DEF ReadsName
<1>. QED
    BY <1>1, <1>2, <1>3 DEF t

\* While the program's own name is read, outside of quotes and between them,
\* and once it is read.
Named(w) == [name |-> w, rest |-> <<>>, quoted |-> FALSE, done |-> FALSE]
NamedQuoting(w) == [name |-> w, rest |-> <<>>, quoted |-> TRUE, done |-> FALSE]
Past(w, r) == [name |-> w, rest |-> r, quoted |-> FALSE, done |-> TRUE]

\* These are states.
LEMMA NamedTypes ==
    ASSUME NEW w \in Seq(Chars), NEW r \in Seq(Chars)
    PROVE  Named(w) \in Namings /\ NamedQuoting(w) \in Namings /\ Past(w, r) \in Namings
BY EmptySeq DEF Named, NamedQuoting, Past, Namings

\* How they follow each other.
LEMMA NamedSteps ==
    ASSUME NEW w, NEW r, NEW c
    PROVE  /\ c # Quote => SplitName(NamedQuoting(w), c) = NamedQuoting(Append(w, c))
           /\ c # Quote /\ c # Blank => SplitName(Named(w), c) = Named(Append(w, c))
           /\ SplitName(Past(w, r), c) = Past(w, Append(r, c))
           /\ SplitName(Named(w), Quote) = NamedQuoting(w)
           /\ SplitName(NamedQuoting(w), Quote) = Named(w)
           /\ SplitName(Named(w), Blank) = Past(w, <<>>)
<1>1. Blank # Quote
    BY CommandLineAssumption
<1>2. c # Quote => SplitName(NamedQuoting(w), c) = NamedQuoting(Append(w, c))
    BY DEF SplitName, NamedQuoting
<1>3. c # Quote /\ c # Blank => SplitName(Named(w), c) = Named(Append(w, c))
    BY DEF SplitName, Named
<1>4. SplitName(Past(w, r), c) = Past(w, Append(r, c))
    BY DEF SplitName, Past
<1>5. SplitName(Named(w), Quote) = NamedQuoting(w) /\ SplitName(NamedQuoting(w), Quote) = Named(w)
    BY DEF SplitName, Named, NamedQuoting
<1>6. SplitName(Named(w), Blank) = Past(w, <<>>)
    BY <1>1 DEF SplitName, Named, Past
<1>. QED
    BY <1>2, <1>3, <1>4, <1>5, <1>6

\* A list of states that goes from one to the next is what reading passes
\* through.
LEMMA ReadNameAlong ==
    ASSUME NEW text \in Seq(Chars), NEW f, f[0] \in Namings,
           \A n \in 1..Len(text) : f[n] = SplitName(f[n - 1], text[n])
    PROVE  ReadName(f[0], text) = f[Len(text)]
<1>. DEFINE first == f[0]
<1>1. PICK h \in [0..Len(text) -> Namings] :
             ReadsName(h, first, text) /\ ReadName(first, text) = h[Len(text)]
    BY ReadNameSteps
<1>2. h[0] = f[0] /\ \A n \in 1..Len(text) : h[n] = SplitName(h[n - 1], text[n])
    BY <1>1 DEF ReadsName
<1>3. Alike(h, f, Len(text))
    BY <1>2 DEF Alike
<1>4. Len(text) \in Nat
    BY LenProperties
<1>. QED
    BY <1>1, <1>3, <1>4, SameRecursion

\* A beginning that grows by a character.
LEMMA PrefixAppends ==
    ASSUME NEW s \in Seq(Chars)
    PROVE  /\ SubSeq(s, 1, 0) = <<>> /\ SubSeq(s, 1, Len(s)) = s
           /\ \A n \in 1..Len(s) : /\ SubSeq(s, 1, n - 1) \in Seq(Chars)
                                   /\ SubSeq(s, 1, n) = Append(SubSeq(s, 1, n - 1), s[n])
<1>1. SubSeq(s, 1, 0) = <<>> /\ SubSeq(s, 1, Len(s)) = s
    BY LenProperties, SubSeqFull, SubSeqEmpty
<1>2. ASSUME NEW n \in 1..Len(s)
      PROVE  /\ SubSeq(s, 1, n - 1) \in Seq(Chars)
             /\ SubSeq(s, 1, n) = Append(SubSeq(s, 1, n - 1), s[n])
    <2>. DEFINE m == n - 1
                front == SubSeq(s, 1, m)
    <2>1. m \in Nat /\ m + 1 <= Len(s) /\ m + 1 = n
        BY LenProperties
    <2>. HIDE DEF m
    <2>2. front \in Seq(Chars) /\ s[m + 1] \in Chars /\ SubSeq(s, 1, m + 1) = front \o <<s[m + 1]>>
        BY <2>1, PrefixGrows
    <2>. HIDE DEF front
    <2>3. front \o <<s[m + 1]>> = Append(front, s[m + 1])
        BY <2>2, AppendIsConcat
    <2>. QED
        BY <2>1, <2>2, <2>3 DEF front, m
<1>. QED
    BY <1>1, <1>2

\* Between quotes anything but a quote is part of the name.
LEMMA ReadNameQuoting ==
    ASSUME NEW s \in Seq(Chars), ~Mem(Quote, s)
    PROVE  ReadName(NamedQuoting(<<>>), s) = NamedQuoting(s)
<1>. DEFINE p(n) == SubSeq(s, 1, n)
            f == [n \in 0..Len(s) |-> NamedQuoting(p(n))]
<1>1. \A n \in 1..Len(s) : s[n] # Quote /\ p(n) = Append(p(n - 1), s[n])
    BY PrefixAppends DEF Mem
<1>2. Len(s) \in Nat /\ p(0) = <<>> /\ p(Len(s)) = s
    BY PrefixAppends, LenProperties
<1>. HIDE DEF p
<1>3. f[0] = NamedQuoting(<<>>) /\ f[Len(s)] = NamedQuoting(s)
    BY <1>2
<1>4. ASSUME NEW n \in 1..Len(s)
      PROVE  f[n] = SplitName(f[n - 1], s[n])
    <2>1. SplitName(NamedQuoting(p(n - 1)), s[n]) = NamedQuoting(Append(p(n - 1), s[n]))
        BY <1>1, NamedSteps
    <2>2. n \in 0..Len(s) /\ n - 1 \in 0..Len(s)
        BY <1>2
    <2>. QED
        BY <1>1, <2>1, <2>2
<1>5. NamedQuoting(<<>>) \in Namings
    BY EmptySeq, NamedTypes
<1>. HIDE DEF f
<1>. QED
    BY <1>3, <1>4, <1>5, ReadNameAlong

\* Outside of them anything but a quote and a blank.
LEMMA ReadNameBare ==
    ASSUME NEW s \in Seq(Chars), ~Mem(Quote, s), ~Mem(Blank, s)
    PROVE  ReadName(Named(<<>>), s) = Named(s)
<1>. DEFINE p(n) == SubSeq(s, 1, n)
            f == [n \in 0..Len(s) |-> Named(p(n))]
<1>1. \A n \in 1..Len(s) : s[n] # Quote /\ s[n] # Blank /\ p(n) = Append(p(n - 1), s[n])
    BY PrefixAppends DEF Mem
<1>2. Len(s) \in Nat /\ p(0) = <<>> /\ p(Len(s)) = s
    BY PrefixAppends, LenProperties
<1>. HIDE DEF p
<1>3. f[0] = Named(<<>>) /\ f[Len(s)] = Named(s)
    BY <1>2
<1>4. ASSUME NEW n \in 1..Len(s)
      PROVE  f[n] = SplitName(f[n - 1], s[n])
    <2>1. SplitName(Named(p(n - 1)), s[n]) = Named(Append(p(n - 1), s[n]))
        BY <1>1, NamedSteps
    <2>2. n \in 0..Len(s) /\ n - 1 \in 0..Len(s)
        BY <1>2
    <2>. QED
        BY <1>1, <2>1, <2>2
<1>5. Named(<<>>) \in Namings
    BY EmptySeq, NamedTypes
<1>. HIDE DEF f
<1>. QED
    BY <1>3, <1>4, <1>5, ReadNameAlong

\* Behind the name everything is kept.
LEMMA ReadNameRest ==
    ASSUME NEW w \in Seq(Chars), NEW s \in Seq(Chars)
    PROVE  ReadName(Past(w, <<>>), s) = Past(w, s)
<1>. DEFINE p(n) == SubSeq(s, 1, n)
            f == [n \in 0..Len(s) |-> Past(w, p(n))]
<1>1. \A n \in 1..Len(s) : p(n) = Append(p(n - 1), s[n])
    BY PrefixAppends
<1>2. Len(s) \in Nat /\ p(0) = <<>> /\ p(Len(s)) = s
    BY PrefixAppends, LenProperties
<1>. HIDE DEF p
<1>3. f[0] = Past(w, <<>>) /\ f[Len(s)] = Past(w, s)
    BY <1>2
<1>4. ASSUME NEW n \in 1..Len(s)
      PROVE  f[n] = SplitName(f[n - 1], s[n])
    <2>1. SplitName(Past(w, p(n - 1)), s[n]) = Past(w, Append(p(n - 1), s[n]))
        BY NamedSteps
    <2>2. n \in 0..Len(s) /\ n - 1 \in 0..Len(s)
        BY <1>2
    <2>. QED
        BY <1>1, <2>1, <2>2
<1>5. Past(w, <<>>) \in Namings
    BY EmptySeq, NamedTypes
<1>. HIDE DEF f
<1>. QED
    BY <1>3, <1>4, <1>5, ReadNameAlong

\* Without a quote in it, an argument is written as it is.
LEMMA EscapedPlain ==
    ASSUME NEW s \in Seq(Chars), ~Mem(Quote, s)
    PROVE  /\ Escaped(s) \in Escapings
           /\ Escaped(s).text \o Backslashes(Escaped(s).slashes) = s
           /\ s # <<>> /\ s[Len(s)] # Backslash => Escaped(s).slashes = 0
<1>. DEFINE N == Len(s)
            p(n) == SubSeq(s, 1, n)
            Plain(e, w) == e.text \o Backslashes(e.slashes) = w
<1>1. PICK h \in [0..N -> Escapings] : Escapes(h, s) /\ Escaped(s) = h[N]
    BY EscapedSteps
<1>. DEFINE T == {n \in Nat : n <= N => Plain(h[n], p(n))}
<1>2. N \in Nat /\ p(0) = <<>> /\ p(N) = s /\ (s # <<>> => N # 0)
    BY PrefixAppends, LenProperties, EmptySeq
<1>3. \A n \in 1..N : /\ s[n] \in Chars /\ s[n] # Quote
                      /\ p(n - 1) \in Seq(Chars) /\ p(n) = Append(p(n - 1), s[n])
    BY ElementOfSeq, PrefixAppends DEF Mem
<1>4. \A n \in 1..N : h[n] = Escape(h[n - 1], s[n])
    BY <1>1 DEF Escapes
<1>. HIDE DEF p, Plain, N
<1>5. ASSUME NEW e \in Escapings, NEW w \in Seq(Chars), NEW c \in Chars, c # Quote, Plain(e, w)
      PROVE  Plain(Escape(e, c), Append(w, c))
    <2>. DEFINE k == e.slashes
                some == Backslashes(k)
                one == <<c>>
    <2>1. k \in Nat /\ e.text \in Seq(Chars) /\ e.text \o some = w
        BY <1>5 DEF Plain, Escapings
    <2>. HIDE DEF k
    <2>2. some \in Seq(Chars) /\ one \in Seq(Chars)
        BY <2>1, BackslashType
    <2>3. Append(w, c) = w \o one
        BY AppendIsConcat
    <2>4. CASE c = Backslash
        <3>1. Escape(e, c) = [slashes |-> k + 1, text |-> e.text]
            BY <2>4 DEF Escape, Escapings, k
        <3>2. Backslashes(k + 1) = some \o one
            BY <2>1, <2>4, BackslashMore
        <3>. HIDE DEF some, one
        <3>3. e.text \o (some \o one) = w \o one
            <4>1. (e.text \o some) \o one = e.text \o (some \o one)
                BY <2>1, <2>2, JoinAll, ZenonT(60)
            <4>. QED
                BY <2>1, <4>1
        <3>4. Escape(e, c).text = e.text /\ Escape(e, c).slashes = k + 1
            BY <3>1
        <3>. QED
            BY <2>3, <3>2, <3>3, <3>4 DEF Plain
    <2>5. CASE c # Backslash
        <3>1. Escape(e, c) = [slashes |-> 0, text |-> e.text \o some \o one]
            BY <1>5, <2>5 DEF Escape, k
        <3>. DEFINE word == w \o one
        <3>2. e.text \o some \o one = word
            BY <2>1
        <3>3. word \in Seq(Chars)
            BY <2>2, ConcatProperties
        <3>. HIDE DEF some, one, word
        <3>4. Escape(e, c).text = word /\ Escape(e, c).slashes = 0
            BY <3>1, <3>2
        <3>5. word \o Backslashes(0) = word
            BY <3>3, BackslashNone, ConcatEmptySeq
        <3>. QED
            BY <2>3, <3>4, <3>5 DEF Plain, word
    <2>. QED
        BY <2>4, <2>5
<1>6. 0 \in T
    <2>1. h[0].text = <<>> /\ h[0].slashes = 0
        BY <1>1 DEF Escapes, Unescaped
    <2>2. <<>> \o Backslashes(0) = <<>>
        BY BackslashNone, EmptySeq, ConcatEmptySeq
    <2>3. Plain(h[0], <<>>)
        BY <2>1, <2>2 DEF Plain
    <2>. QED
        BY <1>2, <2>3
<1>7. ASSUME NEW n \in Nat, n \in T
      PROVE  n + 1 \in T
    <2>. SUFFICES ASSUME n + 1 <= N PROVE Plain(h[n + 1], p(n + 1))
        OBVIOUS
    <2>1. n + 1 \in 1..N /\ (n + 1) - 1 = n /\ n <= N /\ n \in 0..N
        BY <1>2
    <2>2. Plain(h[n], p(n)) /\ h[n] \in Escapings
        BY <1>1, <1>7, <2>1
    <2>3. h[n + 1] = Escape(h[n], s[n + 1])
        BY <1>4, <2>1
    <2>4. s[n + 1] \in Chars /\ s[n + 1] # Quote /\ p(n) \in Seq(Chars) /\ p(n + 1) = Append(p(n), s[n + 1])
        BY <1>3, <2>1
    <2>5. Plain(Escape(h[n], s[n + 1]), Append(p(n), s[n + 1]))
        BY <1>5, <2>2, <2>4
    <2>. QED
        BY <2>3, <2>4, <2>5
<1>8. N \in T
    <2>. HIDE DEF T
    <2>. QED
        BY <1>2, <1>6, <1>7, SetInduction
<1>9. Plain(h[N], s) /\ h[N] \in Escapings
    BY <1>1, <1>2, <1>8
<1>10. s # <<>> /\ s[N] # Backslash => h[N].slashes = 0
    <2>. SUFFICES ASSUME s # <<>>, s[N] # Backslash PROVE h[N].slashes = 0
        OBVIOUS
    <2>1. N \in 1..N
        BY <1>2
    <2>2. h[N] = Escape(h[N - 1], s[N])
        BY <1>4, <2>1
    <2>. QED
        BY <2>2 DEF Escape
<1>. QED
    BY <1>1, <1>9, <1>10 DEF Plain, N

\* The program's name is read as it was, quoted or not.
LEMMA NameReadsBack ==
    ASSUME NEW s \in Seq(Chars), ProgramName(s)
    PROVE  Quoted(s) \in Seq(Chars) /\ ReadName(Named(<<>>), Quoted(s)) = Named(s)
<1>1. s # <<>> /\ ~Mem(Quote, s) /\ s[Len(s)] # Backslash
    BY DEF ProgramName
<1>2. CASE ~Mem(Blank, s)
    <2>1. Quoted(s) = s
        BY <1>1, <1>2 DEF Quoted
    <2>. QED
        BY <1>1, <1>2, <2>1, ReadNameBare
<1>3. CASE Mem(Blank, s)
    <2>. DEFINE one == <<Quote>>
                state == Named(<<>>)
                inner == NamedQuoting(<<>>)
                line == s \o one
    <2>1. Escaped(s).slashes = 0 /\ Escaped(s).text = s
        <3>1. Escaped(s) \in Escapings /\ Escaped(s).slashes = 0
              /\ Escaped(s).text \o Backslashes(Escaped(s).slashes) = s
            BY <1>1, EscapedPlain
        <3>2. Escaped(s).text \in Seq(Chars)
            BY <3>1 DEF Escapings
        <3>3. Escaped(s).text \o Backslashes(0) = Escaped(s).text
            BY <3>2, BackslashNone, ConcatEmptySeq
        <3>. QED
            BY <3>1, <3>3
    <2>2. CloseQuote(Escaped(s)) = line
        <3>1. 2 * 0 = 0
            OBVIOUS
        <3>2. s \o Backslashes(0) = s
            BY BackslashNone, ConcatEmptySeq
        <3>. QED
            BY <2>1, <3>1, <3>2 DEF CloseQuote
    <2>3. Quoted(s) = one \o line
        BY <1>3, <2>2 DEF Quoted
    <2>4. Quote \in Chars /\ one \in Seq(Chars) /\ Len(one) = 1 /\ one[1] = Quote
        BY DEF Chars
    <2>5. state \in Namings /\ inner \in Namings /\ NamedQuoting(s) \in Namings
        BY EmptySeq, NamedTypes
    <2>6. ReadName(state, one) = inner
        <3>1. SplitName(state, Quote) = inner
            BY NamedSteps
        <3>. HIDE DEF state, inner
        <3>. QED
            BY <2>4, <2>5, <3>1, ReadNameOne DEF one
    <2>7. ReadName(inner, s) = NamedQuoting(s)
        BY <1>1, ReadNameQuoting
    <2>8. ReadName(NamedQuoting(s), one) = Named(s)
        <3>1. SplitName(NamedQuoting(s), Quote) = Named(s)
            BY NamedSteps
        <3>. QED
            BY <2>4, <2>5, <3>1, ReadNameOne DEF one
    <2>. HIDE DEF one, state, inner
    <2>9. line \in Seq(Chars)
        BY <2>4, ConcatProperties
    <2>10. ReadName(inner, line) = Named(s)
        <3>1. ReadName(inner, s \o one) = ReadName(ReadName(inner, s), one)
            BY <2>4, <2>5, ReadNameConcat
        <3>. QED
            BY <2>7, <2>8, <3>1
    <2>. HIDE DEF line
    <2>11. one \o line \in Seq(Chars)
        BY <2>4, <2>9, ConcatProperties
    <2>12. ReadName(state, one \o line) = ReadName(ReadName(state, one), line)
        BY <2>4, <2>5, <2>9, ReadNameConcat
    <2>. QED
        BY <2>3, <2>6, <2>10, <2>11, <2>12 DEF state
<1>. QED
    BY <1>2, <1>3

\* The lines spawn() builds, one after each argument.
Lines(h, title, args) ==
    /\ h[0] = Quoted(title)
    /\ \A n \in 1..Len(args) : h[n] = h[n - 1] \o <<Blank>> \o Quoted(args[n])

\* They lead from the program alone to the whole line.
LEMMA CommandLineSteps ==
    ASSUME NEW title \in Seq(Chars), NEW args \in Seq(Seq(Chars)), Quoted(title) \in Seq(Chars)
    PROVE  \E h \in [0..Len(args) -> Seq(Chars)] :
               Lines(h, title, args) /\ CommandLine(title, args) = h[Len(args)]
<1>. DEFINE N == Len(args)
            Texts == Seq(Chars)
            first == Quoted(title)
            more(a, n) == a \o <<Blank>> \o Quoted(args[n])
            value(f, n) == IF n = 0 THEN first ELSE more(f[n - 1], n)
            step(f) == [n \in 0..N |-> value(f, n)]
            h == CHOOSE f : f = step(f)
            g == [n \in 1..N |-> [a \in Texts |-> more(a, n)]]
<1>1. N \in Nat /\ (\A n \in 1..N : args[n] \in Seq(Chars)) /\ first \in Texts
    BY ElementOfSeq, LenProperties
<1>2. CommandLine(title, args) = h[N]
    BY DEF CommandLine
<1>3. ASSUME NEW a \in Texts, NEW n \in 1..N
      PROVE  more(a, n) \in Texts
    <2>. DEFINE one == <<Blank>>
                last == Quoted(args[n])
                front == a \o one
    <2>1. one \in Seq(Chars)
        BY DEF Chars
    <2>2. last \in Seq(Chars)
        BY <1>1, QuotedReadsBack, EmptySeq
    <2>. HIDE DEF one, last
    <2>3. front \in Seq(Chars)
        BY <2>1, ConcatProperties
    <2>. HIDE DEF front
    <2>4. front \o last \in Seq(Chars)
        BY <2>2, <2>3, ConcatProperties
    <2>. QED
        BY <2>4 DEF front, one, last
<1>. HIDE DEF more, first, Texts, N
<1>4. g \in [1..N -> [Texts -> Texts]]
    BY <1>1, <1>3
<1>5. \E f \in [0..N -> Texts] : f = step(f)
    <2>. HIDE DEF g
    <2>1. PICK f \in [0..N -> Texts] : Follows(f, N, first, g)
        BY <1>1, <1>4, Recursion
    <2>2. ASSUME NEW n \in 1..N PROVE f[n] = more(f[n - 1], n)
        <3>1. n - 1 \in 0..N
            BY <1>1
        <3>2. f[n - 1] \in Texts
            BY <2>1, <3>1
        <3>3. f[n] = g[n][f[n - 1]]
            BY <2>1 DEF Follows
        <3>. QED
            BY <3>2, <3>3 DEF g
    <2>3. \A n \in 0..N : f[n] = value(f, n)
        BY <1>1, <2>1, <2>2 DEF Follows
    <2>. HIDE DEF value
    <2>4. f = step(f)
        BY <2>1, <2>3
    <2>. QED
        BY <2>4
<1>6. h = step(h)
    BY <1>5
<1>. HIDE DEF h
<1>7. h[0] = first /\ \A n \in 1..N : h[n] = more(h[n - 1], n)
    <2>1. N \in Nat
        BY <1>1
    <2>2. \A n \in 0..N : h[n] = value(h, n)
        BY <1>6
    <2>. QED
        BY <2>1, <2>2
<1>8. DOMAIN h = 0..N /\ h = [n \in 0..N |-> h[n]]
    BY <1>6
<1>9. \A n \in 1..N : h[n - 1] \in Texts => h[n] \in Texts
    BY <1>3, <1>7
<1>10. \A n \in 0..N : h[n] \in Texts
    BY <1>1, <1>7, <1>9, AlongRecursion
<1>11. h \in [0..N -> Texts]
    BY <1>8, <1>10
<1>. QED
    BY <1>2, <1>7, <1>11 DEF N, Texts, Lines, more, first

\* A line that gets longer at its end keeps its beginning.
Rejoined(a, b, c, d) == ((a \o (b \o c)) \o b) \o d = a \o (b \o (c \o (b \o d)))

\* How the four are nested makes no difference to it.
LEMMA JoinFour ==
    ASSUME NEW a \in Seq(Chars), NEW b \in Seq(Chars), NEW c \in Seq(Chars), NEW d \in Seq(Chars)
    PROVE  Rejoined(a, b, c, d)
<1>. DEFINE bc == b \o c
            bd == b \o d
<1>1. bc \in Seq(Chars) /\ bd \in Seq(Chars)
    BY ConcatProperties
<1>2. bc \o bd = b \o (c \o bd)
    BY <1>1, JoinAll
<1>. HIDE DEF bc
<1>. DEFINE abc == a \o bc
<1>3. abc \in Seq(Chars)
    BY <1>1, ConcatProperties
<1>. HIDE DEF abc
<1>4. (abc \o b) \o d = abc \o bd
    BY <1>3, JoinAll
<1>. HIDE DEF bd
<1>5. (a \o bc) \o bd = a \o (bc \o bd)
    BY <1>1, JoinAll, SMTT(60)
<1>. QED
    BY <1>2, <1>4, <1>5 DEF abc, bc, bd, Rejoined

\* A line made of the program's quoted name and of arguments so far.
Holds(line, name, args) ==
    IF args = <<>>
      THEN line = name
      ELSE \E r \in Seq(Chars) :
               /\ line = name \o (<<Blank>> \o r)
               /\ ReadArguments(Between(<<>>), r \o <<Blank>>) = Between(args)

\* One more argument.
LEMMA LineGrows ==
    ASSUME NEW name \in Seq(Chars),
           NEW args \in Seq(Seq(Chars)), NEW arg \in Seq(Chars),
           NEW line, Holds(line, name, args)
    PROVE  Holds(line \o <<Blank>> \o Quoted(arg), name, Append(args, arg))
<1>. DEFINE one == <<Blank>>
            last == Quoted(arg)
            all == Append(args, arg)
            none == Between(<<>>)
<1>1. one \in Seq(Chars) /\ last \in Seq(Chars) /\ name \in Seq(Chars) /\ all # <<>>
    <2>1. one \in Seq(Chars)
        BY DEF Chars
    <2>2. last \in Seq(Chars)
        BY QuotedReadsBack
    <2>3. all # <<>>
        <3>. DEFINE Texts == Seq(Chars)
        <3>1. args \in Seq(Texts) /\ arg \in Texts
            OBVIOUS
        <3>. HIDE DEF Texts
        <3>. QED
            BY <3>1, AppendProperties
    <2>. QED
        BY <2>1, <2>2, <2>3
<1>2. ReadArguments(Between(args), last \o one) = Between(all)
    BY QuotedReadsBack
<1>3. none \in Readings
    BY EmptySeq, StateTypes
<1>4. SUFFICES \E r \in Seq(Chars) :
                  /\ line \o one \o last = name \o (one \o r)
                  /\ ReadArguments(none, r \o one) = Between(all)
    BY <1>1 DEF Holds
<1>5. CASE args = <<>>
    <2>1. line = name
        BY <1>5 DEF Holds
    <2>. HIDE DEF one, last, all
    <2>2. (name \o one) \o last = name \o (one \o last)
        BY <1>1, JoinAll
    <2>3. ReadArguments(none, last \o one) = Between(all)
        BY <1>2, <1>5
    <2>. QED
        BY <1>1, <2>1, <2>2, <2>3
<1>6. CASE args # <<>>
    <2>1. PICK r \in Seq(Chars) : /\ line = name \o (one \o r)
                                  /\ ReadArguments(none, r \o one) = Between(args)
        BY <1>6 DEF Holds
    <2>. HIDE DEF one, last, all, none
    <2>. DEFINE start == one \o r
                tail == one \o last
                end == last \o one
    <2>2. start \in Seq(Chars) /\ tail \in Seq(Chars) /\ end \in Seq(Chars) /\ r \o one \in Seq(Chars)
        BY <1>1, ConcatProperties
    <2>. HIDE DEF start, tail, end
    <2>3. /\ start \in Seq(Chars) /\ tail \in Seq(Chars) /\ end \in Seq(Chars) /\ r \in Seq(Chars)
          /\ name \in Seq(Chars) /\ one \in Seq(Chars) /\ last \in Seq(Chars)
        BY <1>1, <2>2
    <2>. DEFINE longer == r \o tail
    <2>4. (line \o one) \o last = name \o (one \o longer)
        <3>1. Rejoined(name, one, r, last)
            BY <1>1, JoinFour
        <3>. QED
            BY <2>1, <3>1 DEF Rejoined, tail
    <2>5. longer \in Seq(Chars)
        BY <2>2, ConcatProperties
    <2>6. ReadArguments(none, longer \o one) = Between(all)
        <3>1. longer \o one = (r \o one) \o end
            <4>1. (r \o tail) \o one = r \o (tail \o one)
                <5>1. r \in Seq(Chars) /\ tail \in Seq(Chars) /\ one \in Seq(Chars)
                    BY <2>3
                <5>. QED
                    BY <5>1, JoinAll
            <4>2. (one \o last) \o one = one \o (last \o one)
                BY <1>1, JoinAll
            <4>3. (r \o one) \o end = r \o (one \o end)
                <5>1. r \in Seq(Chars) /\ one \in Seq(Chars) /\ end \in Seq(Chars)
                    BY <2>3
                <5>. QED
                    BY <5>1, JoinAll
            <4>4. tail \o one = one \o end
                BY <4>2 DEF tail, end
            <4>. QED
                BY <4>1, <4>3, <4>4
        <3>. DEFINE front == r \o one
        <3>2. front \in Seq(Chars) /\ ReadArguments(none, front) = Between(args)
            BY <2>1, <2>2
        <3>. HIDE DEF front, end
        <3>3. ReadArguments(none, front \o end) = ReadArguments(ReadArguments(none, front), end)
            BY <1>3, <2>2, <3>2, ReadArgumentsConcat
        <3>4. ReadArguments(Between(args), end) = Between(all)
            BY <1>2 DEF end
        <3>. HIDE DEF longer
        <3>. QED
            BY <3>1, <3>2, <3>3, <3>4 DEF front
    <2>. HIDE DEF longer
    <2>. QED
        BY <2>4, <2>5, <2>6
<1>. QED
    BY <1>5, <1>6

\* So the whole line holds the program and all arguments.
LEMMA LineHolds ==
    ASSUME NEW title \in Seq(Chars), ProgramName(title), NEW args \in Seq(Seq(Chars))
    PROVE  Holds(CommandLine(title, args), Quoted(title), args)
<1>1. Quoted(title) \in Seq(Chars)
    BY NameReadsBack
<1>2. PICK h \in [0..Len(args) -> Seq(Chars)] :
             Lines(h, title, args) /\ CommandLine(title, args) = h[Len(args)]
    BY <1>1, CommandLineSteps
<1>. DEFINE name == Quoted(title)
            p(n) == SubSeq(args, 1, n)
            T == {n \in Nat : n <= Len(args) => Holds(h[n], name, p(n))}
<1>3. Len(args) \in Nat /\ p(0) = <<>> /\ p(Len(args)) = args
    BY LenProperties, SubSeqFull, SubSeqEmpty
<1>4. 0 \in T
    BY <1>2, <1>3 DEF Lines, Holds
<1>5. ASSUME NEW n \in Nat, n \in T
      PROVE  n + 1 \in T
    <2>. SUFFICES ASSUME n + 1 <= Len(args)
                  PROVE  Holds(h[n + 1], name, p(n + 1))
        OBVIOUS
    <2>. DEFINE arg == args[n + 1]
    <2>1. n + 1 \in 1..Len(args) /\ (n + 1) - 1 = n /\ n <= Len(args)
        BY <1>3
    <2>2. Holds(h[n], name, p(n))
        BY <1>5, <2>1
    <2>3. h[n + 1] = h[n] \o <<Blank>> \o Quoted(arg)
        BY <1>2, <2>1 DEF Lines
    <2>4. p(n) \in Seq(Seq(Chars)) /\ arg \in Seq(Chars) /\ p(n + 1) = p(n) \o <<arg>>
        BY PrefixGrows
    <2>. HIDE DEF p, arg, name
    <2>5. p(n) \o <<arg>> = Append(p(n), arg)
        BY <2>4, AppendIsConcat
    <2>6. Holds(h[n] \o <<Blank>> \o Quoted(arg), name, Append(p(n), arg))
        <3>1. name \in Seq(Chars)
            BY <1>1 DEF name
        <3>. DEFINE front == p(n)
        <3>2. front \in Seq(Seq(Chars)) /\ Holds(h[n], name, front)
            BY <2>2, <2>4
        <3>. HIDE DEF front
        <3>3. Holds(h[n] \o <<Blank>> \o Quoted(arg), name, Append(front, arg))
            BY <2>4, <3>1, <3>2, LineGrows
        <3>. QED
            BY <3>3 DEF front
    <2>. QED
        BY <2>3, <2>4, <2>5, <2>6
<1>6. Len(args) \in T
    <2>. HIDE DEF T
    <2>. QED
        BY <1>3, <1>4, <1>5, SetInduction
<1>. HIDE DEF p
<1>7. Holds(h[Len(args)], name, p(Len(args)))
    BY <1>3, <1>6
<1>. QED
    BY <1>2, <1>3, <1>7

\* Whatever program and arguments spawn() is given, the program that is
\* started splits its command line into just these.
LEMMA SplitBack ==
    ASSUME NEW title \in Seq(Chars), ProgramName(title), NEW args \in Seq(Seq(Chars))
    PROVE  Split(CommandLine(title, args)) = <<title>> \o args
<1>. DEFINE line == CommandLine(title, args)
            first == Quoted(title)
            none == Between(<<>>)
            name == Named(<<>>)
            one == <<Blank>>
<1>1. first \in Seq(Chars) /\ ReadName(name, first) = Named(title)
    BY NameReadsBack
<1>2. Holds(line, first, args)
    BY LineHolds
<1>3. NameState(line) = ReadName(name, line)
    BY DEF NameState, Named
<1>4. one \in Seq(Chars) /\ Blank \in Chars /\ none \in Readings /\ name \in Namings
      /\ Named(title) \in Namings
    <2>1. one \in Seq(Chars) /\ Blank \in Chars
        BY DEF Chars
    <2>2. none \in Readings /\ name \in Namings /\ Named(title) \in Namings
        BY EmptySeq, StateTypes, NamedTypes
    <2>. QED
        BY <2>1, <2>2
<1>5. SUFFICES /\ NameState(line).name = title
               /\ ReadArguments(none, Append(NameState(line).rest, Blank)) = Between(args)
    <2>1. Between(args).args = args
        BY DEF Between
    <2>. QED
        BY <1>5, <2>1 DEF Split, Arrived, ArgumentState
<1>6. CASE args = <<>>
    <2>1. NameState(line) = Named(title)
        BY <1>1, <1>2, <1>3, <1>6 DEF Holds
    <2>2. Named(title).name = title /\ Named(title).rest = <<>>
        BY DEF Named
    <2>3. Append(<<>>, Blank) = one
        OBVIOUS
    <2>4. SplitArgument(none, Blank) = none
        BY SplitBlank
    <2>. HIDE DEF none
    <2>5. ReadArguments(none, one) = none
        BY <1>4, <2>4, ReadArgumentsOne
    <2>. QED
        BY <1>6, <2>1, <2>2, <2>3, <2>5 DEF none
<1>7. CASE args # <<>>
    <2>1. PICK r \in Seq(Chars) : /\ line = first \o (one \o r)
                                  /\ ReadArguments(none, r \o one) = Between(args)
        BY <1>2, <1>7 DEF Holds
    <2>2. ReadName(Named(title), one \o r) = Past(title, r)
        <3>1. SplitName(Named(title), Blank) = Past(title, <<>>)
            BY NamedSteps
        <3>2. ReadName(Named(title), one) = Past(title, <<>>)
            BY <1>4, <3>1, ReadNameOne
        <3>3. ReadName(Past(title, <<>>), r) = Past(title, r)
            BY ReadNameRest
        <3>. HIDE DEF one
        <3>4. ReadName(Named(title), one \o r) = ReadName(ReadName(Named(title), one), r)
            BY <1>4, ReadNameConcat
        <3>. QED
            BY <3>2, <3>3, <3>4
    <2>3. ReadName(name, line) = Past(title, r)
        <3>. DEFINE more == one \o r
        <3>1. more \in Seq(Chars)
            BY <1>4, ConcatProperties
        <3>2. line = first \o more /\ ReadName(Named(title), more) = Past(title, r)
            BY <2>1, <2>2
        <3>. HIDE DEF more, first, name, line
        <3>3. ReadName(name, first \o more) = ReadName(ReadName(name, first), more)
            BY <1>1, <1>4, <3>1, ReadNameConcat
        <3>. QED
            BY <1>1, <3>2, <3>3
    <2>4. NameState(line).name = title /\ NameState(line).rest = r
        BY <1>3, <2>3 DEF Past
    <2>5. Append(r, Blank) = r \o one
        BY AppendIsConcat
    <2>. HIDE DEF line, none
    <2>. QED
        BY <2>1, <2>4, <2>5 DEF none
<1>. QED
    BY <1>6, <1>7

-----------------------------------------------------------------------------
(* What the bindings promise on Unix.                                      *)

\* The bindings' calls on Unix are behaviours of UnixSpawn.
THEOREM ImplementsUnix == Spec => UnixSpec
<1>1. Init => UnixInit
    BY DEF Init, UnixIsAbsent
<1>2. [Next]_vars => [UnixNext]_unixVars
    BY DEF Next, OnUnix, OnWindows, vars
<1>. QED
    BY <1>1, <1>2, PTL DEF Spec, UnixSpec

\* Numbers are closed by their owners only: another thread keeps its file and
\* a session its master, although both may sit on numbers a PTY had before
\* (PtyPair's and UnixPtyMaster's Drop).
THEOREM OwnersOnly == Spec => []OnlyOwnersClose
<1>1. UnixInv => OnlyOwnersClose
    BY DEF UnixInv, OthersInv, PairInv, PairOK, HoldsMaster, OnlyOwnersClose, UnixTypeOK, NoFd, Fds
<1>. QED
    BY <1>1, UnixInvariantHolds, ImplementsUnix, PTL

\* A call leaves the master in the Python process when it succeeds and nothing
\* when it fails, and a session that is gone has left nothing (PtyPair and
\* open_pty()'s returns).
THEOREM LeftNothing == Spec => []NothingIsLeft
<1>1. UnixInv => NothingIsLeft
    <2>. SUFFICES ASSUME UnixInv, NEW c \in Calls
                  PROVE  /\ call[c] = "returned" =>
                              /\ HeldAt(None, Master(c)) = {pair[c].master}
                              /\ HeldAt(None, Slave(c)) = {}
                         /\ call[c] \in {"failed", "dropped"} =>
                              HeldAt(None, Master(c)) \cup HeldAt(None, Slave(c)) = {}
        BY DEF NothingIsLeft
    <2>1. PairOK(c)
        BY DEF UnixInv, PairInv
    <2>. QED
        BY <2>1 DEF PairOK, HoldsMaster, HoldsSlave, HeldAt
<1>. QED
    BY <1>1, UnixInvariantHolds, ImplementsUnix, PTL

\* A program starts with its own terminal on 0, 1 and 2 and nothing else open,
\* whatever was open in the Python process when it was forked
\* (close_random_fds_async_signal_safe and the dup2 before exec).
THEOREM OwnTerminalOnly == Spec => []ChildHasItsTerminalOnly
<1>1. UnixInv => ChildHasItsTerminalOnly
    BY DEF UnixInv, ChildInv, ChildOK, ChildHasItsTerminalOnly
<1>. QED
    BY <1>1, UnixInvariantHolds, ImplementsUnix, PTL

-----------------------------------------------------------------------------
(* What the bindings promise on Windows.                                   *)

\* The bindings' calls on Windows are behaviours of WinSession.
THEOREM ImplementsWindows == Spec => WinSpec
<1>1. Init => WinInit
    BY DEF Init, WindowsIsAbsent
<1>2. [Next]_vars => [WinNext]_winVars
    BY DEF Next, OnUnix, OnWindows, vars
<1>. QED
    BY <1>1, <1>2, PTL DEF Spec, WinSpec

\* A half of a session that anybody uses has all its handles, one that nobody
\* uses has none, a failed call has left no process and no server, and every
\* program has somebody who will kill it (spawn() and the Drops of
\* platform_windows.rs).
THEOREM NobodyOrphaned == Spec => []NothingIsOrphaned
<1>1. WinInv => NothingIsOrphaned
    BY DEF WinInv, CallInv, HalvesInv, ProgramInv, NothingIsOrphaned
<1>. QED
    BY <1>1, WinInvariantHolds, ImplementsWindows, PTL

\* wait() answers with the code of a program that is over, never with 259, and
\* get_winsize() with the size of the console (wait and set_winsize).
THEOREM ReportsTrue == Spec => []ReportsAreTrue
<1>1. WinInv => ReportsAreTrue
    BY DEF WinInv, ReportInv, ReportsAreTrue
<1>. QED
    BY <1>1, WinInvariantHolds, ImplementsWindows, PTL

\* Whatever programs and arguments spawn() is given, they are what the program
\* it starts is called with (append_quoted_wide and the loop over the arguments
\* in spawn()).
THEOREM ArgumentsKept == Spec => []ArgumentsArrive
<1>1. ArgumentsArrive
    <2>. SUFFICES ASSUME NEW name \in Programs, NEW args \in ArgumentLists
                  PROVE  Split(CommandLine(name, args)) = <<name>> \o args
        BY DEF ArgumentsArrive
    <2>1. name \in Seq(Chars) /\ ProgramName(name) /\ args \in Seq(Seq(Chars))
        BY WinSessionAssumption
    <2>. QED
        BY <2>1, SplitBack
<1>. QED
    BY <1>1, PTL
=============================================================================
