------------------------------- MODULE PtyIo --------------------------------
(***************************************************************************)
(* The read path of a PtySession: the kernel's queue behind the PTY        *)
(* master, read(2) in the Rust futures of python_api.rs, the asyncio tasks *)
(* that await them with or without a timeout, and the synchronous handoff  *)
(* of every chunk to the terminal and to the bounded raw_output window.    *)
(* Bytes are numbered in the order the child wrote them.                   *)
(***************************************************************************)
EXTENDS Integers, FiniteSets, SequencesExt

CONSTANTS
    Readers,     \* tasks that call session.read() or read_timeout()
    Size,        \* the `size` they pass
    Cap,         \* raw_output_cap
    MaxBytes,    \* bound: bytes the child writes
    MaxOrphans   \* bound: futures that have not yet seen their cancellation

ASSUME PtyIoAssumption ==
    /\ IsFiniteSet(Readers) /\ Readers # {}
    /\ {Size, MaxBytes} \subseteq Nat \ {0}
    /\ {Cap, MaxOrphans} \subseteq Nat

VARIABLES
    readers,   \* those of them that a program starts
    cancels,   \* whether it lets reads time out or cancels them
    written,   \* bytes the child has written
    closed,    \* the slave side is closed
    taken,     \* bytes read(2) has removed from the kernel's queue
    task,      \* what each reader is doing
    chunk,     \* the bytes its finished future carries
    orphans,   \* cancelled futures still waiting for the master to be readable
    fed,       \* all bytes handed to the terminal, in that order
    raw,       \* _raw_chunks
    rawBytes,  \* _raw_bytes
    eof        \* readers that have been given b""

kernelVars == <<written, closed, taken>>
program == <<readers, cancels>>
sessionVars == <<fed, raw, rawBytes>>
vars == <<program, kernelVars, task, chunk, orphans, sessionVars, eof>>

Init ==
    /\ readers \in (SUBSET Readers) \ {{}}
    /\ cancels \in BOOLEAN
    /\ written = 0 /\ closed = FALSE /\ taken = 0
    /\ task = [r \in Readers |-> "idle"]
    /\ chunk = [r \in Readers |-> <<>>]
    /\ orphans = 0
    /\ fed = <<>> /\ raw = <<>> /\ rawBytes = 0
    /\ eof = {}

-----------------------------------------------------------------------------
(* The child and the kernel.                                               *)

ChildWrites(n) ==
    /\ ~closed
    /\ written + n <= MaxBytes
    /\ written' = written + n
    /\ UNCHANGED <<closed, taken, task, chunk, orphans, sessionVars, eof>>

ChildCloses ==
    /\ ~closed
    /\ closed' = TRUE
    /\ UNCHANGED <<written, taken, task, chunk, orphans, sessionVars, eof>>

\* read(2) of n bytes.
Take(n) ==
    /\ n \in 1..Size
    /\ taken + n <= written
    /\ taken' = taken + n
    /\ UNCHANGED <<written, closed>>

NextBytes(n) == [i \in 1..n |-> taken + i]

AtEof == closed /\ taken = written

-----------------------------------------------------------------------------
(* The Rust futures.  One call awaits the master, reads it and completes;  *)
(* the result reaches the Python task in a later turn of the event loop.   *)

\* Mutant: the session keeps one buffer, which a later read overwrites.
FutureReadsShared(r, n) ==
    /\ task[r] = "reading"
    /\ Take(n)
    /\ chunk' = [q \in Readers |-> IF q = r \/ task[q] = "done" THEN NextBytes(n)
                                  ELSE chunk[q]]
    /\ task' = [task EXCEPT ![r] = "done"]
    /\ UNCHANGED <<orphans, sessionVars, eof>>

FutureReads(r, n) ==
    /\ task[r] = "reading"
    /\ Take(n)
    /\ chunk' = [chunk EXCEPT ![r] = NextBytes(n)]
    /\ task' = [task EXCEPT ![r] = "done"]
    /\ UNCHANGED <<orphans, sessionVars, eof>>

\* Mutant: a hangup ends the stream before it has been drained.
FutureEofHasty(r) ==
    /\ task[r] = "reading"
    /\ closed
    /\ chunk' = [chunk EXCEPT ![r] = <<>>]
    /\ task' = [task EXCEPT ![r] = "done"]
    /\ UNCHANGED <<kernelVars, orphans, sessionVars, eof>>

\* EIO is reported as a read of 0 bytes.
FutureEof(r) ==
    /\ task[r] = "reading"
    /\ AtEof
    /\ chunk' = [chunk EXCEPT ![r] = <<>>]
    /\ task' = [task EXCEPT ![r] = "done"]
    /\ UNCHANGED <<kernelVars, orphans, sessionVars, eof>>

\* Mutant: a future feeds the terminal itself, also when nobody awaits it.
OrphanReadsFeeds(n) ==
    /\ orphans > 0
    /\ Take(n)
    /\ orphans' = orphans - 1
    /\ fed' = fed \o NextBytes(n)
    /\ UNCHANGED <<task, chunk, raw, rawBytes, eof>>

\* A cancelled future learns of it a while later.  What it reads before that
\* has nobody to go to.
OrphanReads(n) ==
    /\ orphans > 0
    /\ Take(n)
    /\ orphans' = orphans - 1
    /\ UNCHANGED <<task, chunk, sessionVars, eof>>

OrphanEnds ==
    /\ orphans > 0
    /\ orphans' = orphans - 1
    /\ UNCHANGED <<kernelVars, task, chunk, sessionVars, eof>>

-----------------------------------------------------------------------------
(* The Python tasks.                                                       *)

StartRead(r) ==
    /\ r \in readers \ eof
    /\ task[r] = "idle"
    /\ task' = [task EXCEPT ![r] = "reading"]
    /\ UNCHANGED <<kernelVars, chunk, orphans, sessionVars, eof>>

Joined(chunks) == FlattenSeq(chunks)

Popped(chunks, k) == Len(Joined(SubSeq(chunks, 1, k)))

\* The loop of _record_raw pops the oldest chunk while there is one and the
\* counter is above the cap: how many it pops from where `count` stands.
Evicted(chunks, count) ==
    CHOOSE k \in 0..Len(chunks) :
        /\ k = Len(chunks) \/ count - Popped(chunks, k) <= Cap
        /\ \A j \in 0..(k - 1) : count - Popped(chunks, j) > Cap

Slide(data) ==
    LET all == Append(raw, data)
        count == rawBytes + Len(data)
        k == Evicted(all, count)
    IN  /\ raw' = SubSeq(all, k + 1, Len(all))
        /\ rawBytes' = count - Popped(all, k)

\* data[-cap:] is the last cap bytes, except that data[-0:] is all of them.
TailOf(data) ==
    IF Cap = 0 THEN data ELSE SubSeq(data, Len(data) - Cap + 1, Len(data))

\* Mutant: the counter is added to, and not set, when the window starts anew.
RecordRawDrifting(data) ==
    \/ Len(data) < Cap /\ Slide(data)
    \/ /\ Len(data) >= Cap
       /\ raw' = <<TailOf(data)>>
       /\ rawBytes' = rawBytes + Len(TailOf(data))

RecordRaw(data) ==
    \/ Len(data) < Cap /\ Slide(data)
    \/ /\ Len(data) >= Cap
       /\ raw' = <<TailOf(data)>>
       /\ rawBytes' = Len(TailOf(data))

\* Mutant: an empty read is not told from one that has to be repeated.
ResumeNoEof(r) ==
    /\ task[r] = "done"
    /\ task' = [task EXCEPT ![r] = "idle"]
    /\ chunk' = [chunk EXCEPT ![r] = <<>>]
    /\ IF chunk[r] = <<>>
       THEN UNCHANGED <<sessionVars, eof>>
       ELSE /\ fed' = fed \o chunk[r]
            /\ RecordRaw(chunk[r])
            /\ UNCHANGED eof
    /\ UNCHANGED <<kernelVars, orphans>>

\* The task wakes up with the result: without another await, the chunk goes
\* to the terminal and to the window.
Resume(r) ==
    /\ task[r] = "done"
    /\ task' = [task EXCEPT ![r] = "idle"]
    /\ chunk' = [chunk EXCEPT ![r] = <<>>]
    /\ IF chunk[r] = <<>>
       THEN /\ eof' = eof \cup {r}
            /\ UNCHANGED sessionVars
       ELSE /\ fed' = fed \o chunk[r]
            /\ RecordRaw(chunk[r])
            /\ UNCHANGED eof
    /\ UNCHANGED <<kernelVars, orphans>>

\* wait_for times out, or the task is cancelled.  A future that is still
\* reading is orphaned; the result of one that has finished is discarded.
CancelRead(r) ==
    /\ cancels
    /\ \/ /\ task[r] = "reading"
          /\ orphans < MaxOrphans
          /\ orphans' = orphans + 1
       \/ /\ task[r] = "done"
          /\ UNCHANGED orphans
    /\ task' = [task EXCEPT ![r] = "idle"]
    /\ chunk' = [chunk EXCEPT ![r] = <<>>]
    /\ UNCHANGED <<kernelVars, sessionVars, eof>>

ReaderStep(r) ==
    \/ StartRead(r)
    \/ \E n \in 1..Size : FutureReads(r, n)
    \/ FutureEof(r)
    \/ Resume(r)

Next ==
    /\ \/ \E n \in 1..MaxBytes : ChildWrites(n)
       \/ ChildCloses
       \/ \E r \in Readers : ReaderStep(r) \/ CancelRead(r)
       \/ \E n \in 1..Size : OrphanReads(n)
       \/ OrphanEnds
    /\ UNCHANGED program

Spec == Init /\ [][Next]_vars

\* Readers call read() again until they get b"" (interact, read_all, the
\* front end's poll task), and the runtime completes what can complete.
FairSpec == Spec /\ \A r \in Readers : WF_vars(ReaderStep(r) /\ UNCHANGED program)

-----------------------------------------------------------------------------
Bytes == 1..MaxBytes

TypeOK ==
    /\ readers \subseteq Readers
    /\ cancels \in BOOLEAN
    /\ {written, taken} \subseteq 0..MaxBytes
    /\ closed \in BOOLEAN
    /\ task \in [Readers -> {"idle", "reading", "done"}]
    /\ chunk \in [Readers -> BoundedSeq(Bytes, Size)]
    /\ orphans \in 0..MaxOrphans
    /\ fed \in BoundedSeq(Bytes, MaxBytes)
    /\ rawBytes \in 0..MaxBytes
    /\ eof \subseteq readers

InFlight == UNION {ToSet(chunk[r]) : r \in Readers}

\* docs/ARCHITECTURE.md, "Multi-reader semantics": concurrent reads are
\* byte-conserving.  Every byte taken from the kernel is with exactly one
\* reader or has reached the terminal exactly once.
ByteConserving ==
    /\ ToSet(fed) \cup InFlight = 1..taken
    /\ Len(fed) + Cardinality(InFlight) = taken

\* So they are while no read is cancelled or times out.
BytesConserved == ~cancels => ByteConserving

\* A session with one reader feeds its terminal in the order of writing and
\* nothing twice, also around the futures it has abandoned; what the reader
\* holds comes after.
SingleReaderInOrder ==
    Cardinality(readers) = 1 =>
        /\ \A i, j \in DOMAIN fed : i < j => fed[i] < fed[j]
        /\ \A i \in DOMAIN fed, b \in InFlight : fed[i] < b

\* The counter that drives the eviction never parts from the size of the
\* window, so that raw_output is the end of what the terminal was fed, less
\* than one read short of what the cap has room for; README.md:136,
\* raw_output_cap: at most so many bytes are retained.  (A cap of 0 retains the
\* whole of the last read.)
RawIsATail ==
    LET size == Len(Joined(raw))
        sure == Cap + 1 - (IF Size < Cap THEN Size ELSE Cap)
    IN  /\ IsSuffix(Joined(raw), fed)
        /\ rawBytes = size
        /\ size <= (IF Cap = 0 THEN Size ELSE Cap)
        /\ Cap > 0 => size >= (IF Len(fed) < sure THEN Len(fed) ELSE sure)

\* A reader is given b"" only when every byte has been taken.
EofIsTheEnd == TypeOK /\ (eof # {} => AtEof)

\* Once the child has closed its side, every reader gets b"" and everything
\* the child wrote has reached the terminal, unless reads are cancelled.
EverythingArrives ==
    (closed /\ ~cancels) ~> (eof = readers /\ ToSet(fed) = 1..written)
=============================================================================
