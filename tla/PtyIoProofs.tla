----------------------------- MODULE PtyIoProofs -----------------------------
(***************************************************************************)
(* Proofs about PtyIo, for any number of readers and bytes, reads of any   *)
(* size and a window of any capacity: that bytes are conserved, that a     *)
(* lone reader sees them in order and that the end comes last.             *)
(***************************************************************************)
EXTENDS PtyIo, SequenceFacts, FiniteSetTheorems, TLAPS

\* The types that the other parts rely on.
PathType ==
    /\ readers \subseteq Readers
    /\ cancels \in BOOLEAN
    /\ written \in Nat /\ taken \in 0..written
    /\ closed \in BOOLEAN
    /\ task \in [Readers -> {"idle", "reading", "done"}]
    /\ chunk \in [Readers -> Seq(Nat)]
    /\ orphans \in Nat
    /\ fed \in Seq(Nat)
    /\ eof \subseteq Readers

\* A chunk is with a reader whose future is done; its bytes have been taken
\* and are in order; an empty one says that there is no more.
ChunkOK(r) ==
    /\ task[r] # "done" => chunk[r] = <<>>
    /\ r \notin readers => task[r] = "idle"
    /\ \A i \in 1..Len(chunk[r]) : chunk[r][i] \in 1..taken
    /\ \A i, j \in 1..Len(chunk[r]) : i < j => chunk[r][i] < chunk[r][j]
    /\ task[r] = "done" /\ chunk[r] = <<>> => AtEof

ChunkInv == \A r \in Readers : ChunkOK(r)

\* No byte is with two readers.
ApartInv ==
    \A q, r \in Readers : q # r =>
        \A i \in 1..Len(chunk[q]), j \in 1..Len(chunk[r]) : chunk[q][i] # chunk[r][j]

\* What has been fed has been taken.
FedInv == \A i \in 1..Len(fed) : fed[i] \in 1..taken

\* The end is the end, and only a cancellation leaves an orphan.
EndInv ==
    /\ eof # {} => AtEof
    /\ ~cancels => orphans = 0

IInv == PathType /\ ChunkInv /\ ApartInv /\ FedInv /\ EndInv

-----------------------------------------------------------------------------
\* Where the bytes of a chunk are.
LEMMA InFlightIs ==
    ASSUME PathType
    PROVE  /\ InFlight = UNION {{chunk[r][i] : i \in 1..Len(chunk[r])} : r \in Readers}
           /\ ToSet(fed) = {fed[i] : i \in 1..Len(fed)}
<1>1. \A r \in Readers : DOMAIN chunk[r] = 1..Len(chunk[r])
    BY DEF PathType
<1>2. \A r \in Readers : ToSet(chunk[r]) = {chunk[r][i] : i \in 1..Len(chunk[r])}
    BY <1>1 DEF ToSet
<1>3. DOMAIN fed = 1..Len(fed)
    BY DEF PathType
<1>. QED
    BY <1>2, <1>3, SMTT(30) DEF InFlight, ToSet

\* The invariant holds at the start.
LEMMA InitEstablishes == Init => IInv
<1>. SUFFICES ASSUME Init PROVE IInv
    OBVIOUS
<1>0. /\ written = 0 /\ closed = FALSE /\ taken = 0 /\ orphans = 0
      /\ task = [r \in Readers |-> "idle"] /\ chunk = [r \in Readers |-> <<>>]
      /\ fed = <<>> /\ eof = {}
    BY DEF Init
<1>1. PathType
    <2>1. readers \subseteq Readers /\ cancels \in BOOLEAN
        BY DEF Init
    <2>2. written \in Nat /\ taken \in 0..written /\ orphans \in Nat
        BY <1>0
    <2>3. closed \in BOOLEAN
        BY <1>0, Zenon
    <2>4. chunk \in [Readers -> Seq(Nat)] /\ fed \in Seq(Nat)
        BY <1>0
    <2>5. task \in [Readers -> {"idle", "reading", "done"}] /\ eof \subseteq Readers
        BY <1>0
    <2>. QED
        BY <2>1, <2>2, <2>3, <2>4, <2>5 DEF PathType
<1>2. ChunkInv /\ ApartInv
    BY <1>0 DEF ChunkInv, ChunkOK, ApartInv
<1>3. FedInv /\ EndInv
    BY <1>0 DEF FedInv, EndInv
<1>. QED
    BY <1>1, <1>2, <1>3 DEF IInv

-----------------------------------------------------------------------------
\* A read completes with the bytes after those taken before.
LEMMA FutureReadsPreserves ==
    ASSUME IInv, NEW r \in Readers, NEW n \in 1..Size, FutureReads(r, n), UNCHANGED program
    PROVE  IInv'
<1>. USE PtyIoAssumption
<1>. USE DEF IInv
<1>1. /\ taken' = taken + n /\ taken' \in 0..written
      /\ n \in Nat \ {0}
      /\ UNCHANGED <<written, closed, orphans, fed, eof, readers, cancels>>
      /\ task[r] = "reading"
      /\ task' = [task EXCEPT ![r] = "done"]
      /\ chunk' = [chunk EXCEPT ![r] = NextBytes(n)]
    BY DEF FutureReads, Take, PathType, sessionVars, program
<1>2. /\ NextBytes(n) \in Seq(Nat) /\ Len(NextBytes(n)) = n
      /\ \A i \in 1..n : NextBytes(n)[i] = taken + i
    BY <1>1 DEF NextBytes, PathType
<1>3. /\ chunk'[r] = NextBytes(n) /\ task'[r] = "done"
      /\ \A q \in Readers : q # r => chunk'[q] = chunk[q] /\ task'[q] = task[q]
    BY <1>1 DEF PathType
<1>4. PathType'
    BY <1>1, <1>2 DEF PathType
<1>5. ChunkInv'
    <2>. SUFFICES ASSUME NEW q \in Readers PROVE ChunkOK(q)'
        BY DEF ChunkInv
    <2>1. ChunkOK(q) /\ ChunkOK(r)
        BY DEF ChunkInv
    <2>2. CASE q = r
        BY <1>1, <1>2, <1>3, <2>1, <2>2, SMTT(30) DEF ChunkOK, PathType
    <2>3. CASE q # r
        BY <1>1, <1>3, <2>1, <2>3, SMTT(30) DEF ChunkOK, PathType, AtEof
    <2>. QED
        BY <2>2, <2>3
<1>6. ApartInv'
    <2>. SUFFICES ASSUME NEW q \in Readers, NEW p \in Readers, q # p,
                         NEW i \in 1..Len(chunk'[q]), NEW j \in 1..Len(chunk'[p])
                  PROVE  chunk'[q][i] # chunk'[p][j]
        BY DEF ApartInv
    <2>1. ChunkOK(q) /\ ChunkOK(p)
        BY DEF ChunkInv
    <2>2. CASE q = r
        <3>1. chunk'[q][i] = taken + i /\ i \in Nat \ {0}
            BY <1>2, <1>3, <2>2
        <3>2. chunk'[p] = chunk[p]
            BY <1>3, <2>2
        <3>3. chunk'[p][j] \in 1..taken
            BY <3>2, <2>1 DEF ChunkOK
        <3>4. taken \in Nat
            BY DEF PathType
        <3>. QED
            BY <3>1, <3>3, <3>4
    <2>3. CASE p = r
        <3>1. chunk'[p][j] = taken + j /\ j \in Nat \ {0}
            BY <1>2, <1>3, <2>3
        <3>2. chunk'[q] = chunk[q]
            BY <1>3, <2>3
        <3>3. chunk'[q][i] \in 1..taken
            BY <3>2, <2>1 DEF ChunkOK
        <3>4. taken \in Nat
            BY DEF PathType
        <3>. QED
            BY <3>1, <3>3, <3>4
    <2>4. CASE q # r /\ p # r
        BY <1>3, <2>4, SMTT(30) DEF ApartInv
    <2>. QED
        BY <2>2, <2>3, <2>4
<1>7. FedInv' /\ EndInv'
    BY <1>1, SMTT(30) DEF FedInv, EndInv, AtEof, PathType
<1>. QED
    BY <1>4, <1>5, <1>6, <1>7

\* A read completes with nothing when there will be nothing more.
LEMMA FutureEofPreserves ==
    ASSUME IInv, NEW r \in Readers, FutureEof(r), UNCHANGED program
    PROVE  IInv'
<1>. USE DEF IInv
<1>1. /\ UNCHANGED <<written, closed, taken, orphans, fed, eof, readers, cancels>>
      /\ task[r] = "reading" /\ AtEof
      /\ task' = [task EXCEPT ![r] = "done"]
      /\ chunk' = [chunk EXCEPT ![r] = <<>>]
    BY DEF FutureEof, sessionVars, program, kernelVars
<1>2. /\ chunk'[r] = <<>> /\ task'[r] = "done"
      /\ \A q \in Readers : q # r => chunk'[q] = chunk[q] /\ task'[q] = task[q]
    BY <1>1 DEF PathType
<1>3. PathType'
    BY <1>1 DEF PathType
<1>4. ChunkInv'
    <2>. SUFFICES ASSUME NEW q \in Readers PROVE ChunkOK(q)'
        BY DEF ChunkInv
    <2>1. ChunkOK(q)
        BY DEF ChunkInv
    <2>. QED
        BY <1>1, <1>2, <2>1 DEF ChunkOK, AtEof
<1>5. ApartInv'
    BY <1>2 DEF ApartInv
<1>6. FedInv' /\ EndInv'
    BY <1>1 DEF FedInv, EndInv, AtEof
<1>. QED
    BY <1>3, <1>4, <1>5, <1>6

\* A task that has its chunk feeds it.
LEMMA ResumePreserves ==
    ASSUME IInv, NEW r \in Readers, Resume(r), UNCHANGED program
    PROVE  IInv'
<1>. USE DEF IInv
<1>1. /\ UNCHANGED <<written, closed, taken, orphans, readers, cancels>>
      /\ task[r] = "done"
      /\ task' = [task EXCEPT ![r] = "idle"]
      /\ chunk' = [chunk EXCEPT ![r] = <<>>]
    BY DEF Resume, program, kernelVars
<1>2. \/ chunk[r] = <<>> /\ eof' = eof \cup {r} /\ fed' = fed
      \/ chunk[r] # <<>> /\ eof' = eof /\ fed' = fed \o chunk[r]
    BY DEF Resume, sessionVars
<1>3. ChunkOK(r) /\ chunk[r] \in Seq(Nat) /\ fed \in Seq(Nat)
    BY DEF ChunkInv, PathType
<1>4. fed' \in Seq(Nat) /\ FedInv'
    <2>1. CASE fed' = fed
        BY <1>1, <1>3, <2>1 DEF FedInv
    <2>2. CASE fed' = fed \o chunk[r]
        <3>1. /\ fed' \in Seq(Nat) /\ Len(fed') = Len(fed) + Len(chunk[r])
              /\ \A i \in 1..Len(fed') :
                    fed'[i] = IF i <= Len(fed) THEN fed[i] ELSE chunk[r][i - Len(fed)]
            BY <1>3, <2>2
        <3>2. ASSUME NEW i \in 1..Len(fed') PROVE fed'[i] \in 1..taken
            <4>1. CASE i <= Len(fed)
                <5>1. i \in 1..Len(fed) /\ fed'[i] = fed[i]
                    BY <1>3, <3>1, <4>1
                <5>. QED
                    BY <5>1 DEF FedInv
            <4>2. CASE ~(i <= Len(fed))
                <5>1. i - Len(fed) \in 1..Len(chunk[r])
                    BY <1>3, <3>1, <4>2
                <5>2. fed'[i] = chunk[r][i - Len(fed)]
                    BY <3>1, <4>2
                <5>3. chunk[r][i - Len(fed)] \in 1..taken
                    BY <1>3, <5>1 DEF ChunkOK
                <5>. QED
                    BY <5>2, <5>3
            <4>. QED
                BY <4>1, <4>2
        <3>. QED
            BY <1>1, <3>1, <3>2 DEF FedInv
    <2>. QED
        BY <1>2, <2>1, <2>2
<1>5. PathType'
    BY <1>1, <1>2, <1>4 DEF PathType
<1>6. /\ chunk'[r] = <<>> /\ task'[r] = "idle"
      /\ \A q \in Readers : q # r => chunk'[q] = chunk[q] /\ task'[q] = task[q]
    BY <1>1 DEF PathType
<1>7. ChunkInv'
    <2>. SUFFICES ASSUME NEW q \in Readers PROVE ChunkOK(q)'
        BY DEF ChunkInv
    <2>1. ChunkOK(q)
        BY DEF ChunkInv
    <2>. QED
        BY <1>1, <1>6, <2>1 DEF ChunkOK, AtEof
<1>8. ApartInv'
    BY <1>6 DEF ApartInv
<1>9. EndInv'
    BY <1>1, <1>2, <1>3 DEF EndInv, ChunkOK, AtEof
<1>. QED
    BY <1>4, <1>5, <1>7, <1>8, <1>9

\* A read that is given up loses its chunk.
LEMMA CancelReadPreserves ==
    ASSUME IInv, NEW r \in Readers, CancelRead(r), UNCHANGED program
    PROVE  IInv'
<1>. USE PtyIoAssumption
<1>. USE DEF IInv
<1>1. /\ UNCHANGED <<written, closed, taken, fed, eof, readers, cancels>>
      /\ cancels /\ orphans' \in Nat
      /\ task[r] # "idle"
      /\ task' = [task EXCEPT ![r] = "idle"]
      /\ chunk' = [chunk EXCEPT ![r] = <<>>]
    BY DEF CancelRead, program, kernelVars, sessionVars, PathType
<1>2. /\ chunk'[r] = <<>> /\ task'[r] = "idle"
      /\ \A q \in Readers : q # r => chunk'[q] = chunk[q] /\ task'[q] = task[q]
    BY <1>1 DEF PathType
<1>3. PathType'
    BY <1>1 DEF PathType
<1>4. ChunkInv'
    <2>. SUFFICES ASSUME NEW q \in Readers PROVE ChunkOK(q)'
        BY DEF ChunkInv
    <2>1. ChunkOK(q)
        BY DEF ChunkInv
    <2>. QED
        BY <1>1, <1>2, <2>1 DEF ChunkOK, AtEof
<1>5. ApartInv'
    BY <1>2, SMTT(30) DEF ApartInv
<1>6. FedInv' /\ EndInv'
    BY <1>1 DEF FedInv, EndInv, AtEof
<1>. QED
    BY <1>3, <1>4, <1>5, <1>6

\* What an orphan takes goes to nobody.
LEMMA OrphanPreserves ==
    ASSUME IInv, (\E n \in 1..Size : OrphanReads(n)) \/ OrphanEnds, UNCHANGED program
    PROVE  IInv'
<1>. USE PtyIoAssumption
<1>. USE DEF IInv
<1>1. /\ UNCHANGED <<written, closed, fed, eof, readers, cancels, task, chunk>>
      /\ orphans > 0 /\ orphans' = orphans - 1
      /\ taken' \in taken..written /\ (AtEof => taken' = taken)
    <2>1. ASSUME NEW n \in 1..Size, OrphanReads(n)
          PROVE  <1>1!2
        BY <2>1 DEF OrphanReads, Take, PathType, sessionVars, program, AtEof
    <2>. QED
        BY <2>1 DEF OrphanReads, OrphanEnds, Take, PathType, sessionVars, program, kernelVars, AtEof
<1>2. PathType'
    BY <1>1 DEF PathType
<1>3. ChunkInv'
    <2>. SUFFICES ASSUME NEW q \in Readers PROVE ChunkOK(q)'
        BY DEF ChunkInv
    <2>1. ChunkOK(q)
        BY DEF ChunkInv
    <2>. QED
        BY <1>1, <2>1, SMTT(30) DEF ChunkOK, AtEof, PathType
<1>4. ApartInv' /\ EndInv'
    BY <1>1 DEF ApartInv, EndInv, AtEof, PathType
<1>5. FedInv'
    BY <1>1 DEF FedInv, PathType
<1>. QED
    BY <1>2, <1>3, <1>4, <1>5

-----------------------------------------------------------------------------
\* A new read, the child's writes and its end disturb nothing.
LEMMA QuietPreserves ==
    ASSUME IInv, UNCHANGED program,
           \/ \E r \in Readers : StartRead(r)
           \/ \E n \in 1..MaxBytes : ChildWrites(n)
           \/ ChildCloses
    PROVE  IInv'
<1>. USE PtyIoAssumption
<1>. USE DEF IInv
<1>1. /\ UNCHANGED <<taken, chunk, orphans, fed, eof, readers, cancels>>
      /\ written' \in Nat /\ written <= written' /\ closed' \in BOOLEAN
      /\ AtEof => UNCHANGED <<written, closed>>
    <2>. USE DEF program, sessionVars, kernelVars, AtEof
    <2>1. written \in Nat /\ closed \in BOOLEAN
        BY DEF PathType
    <2>2. CASE \E n \in 1..MaxBytes : ChildWrites(n)
        BY <2>1, <2>2 DEF ChildWrites
    <2>3. CASE ChildCloses
        <3>1. closed' \in BOOLEAN /\ ~AtEof
            BY <2>3, Zenon DEF ChildCloses
        <3>2. UNCHANGED <<written, taken, chunk, orphans, fed, eof>>
            BY <2>3, Zenon DEF ChildCloses
        <3>. QED
            BY <2>1, <3>1, <3>2
    <2>4. CASE \E r \in Readers : StartRead(r)
        BY <2>1, <2>4 DEF StartRead
    <2>. QED
        BY <2>2, <2>3, <2>4
<1>2. /\ task' \in [Readers -> {"idle", "reading", "done"}]
      /\ \A q \in Readers : task'[q] = task[q] \/ (q \in readers /\ task'[q] = "reading" /\ task[q] = "idle")
    <2>1. ASSUME NEW r \in Readers, StartRead(r) PROVE <1>2
        BY <2>1 DEF StartRead, PathType
    <2>. QED
        BY <2>1 DEF ChildWrites, ChildCloses, PathType
<1>3. PathType'
    BY <1>1, <1>2 DEF PathType
<1>4. ChunkInv'
    <2>. SUFFICES ASSUME NEW q \in Readers PROVE ChunkOK(q)'
        BY DEF ChunkInv
    <2>1. ChunkOK(q)
        BY DEF ChunkInv
    <2>. QED
        BY <1>1, <1>2, <2>1 DEF ChunkOK, AtEof
<1>5. ApartInv' /\ FedInv' /\ EndInv'
    BY <1>1 DEF ApartInv, FedInv, EndInv, AtEof
<1>. QED
    BY <1>3, <1>4, <1>5

\* Every step preserves it.
LEMMA NextPreserves == IInv /\ [Next]_vars => IInv'
<1>. SUFFICES ASSUME IInv, [Next]_vars PROVE IInv'
    OBVIOUS
<1>1. CASE UNCHANGED vars
    BY <1>1 DEF IInv, PathType, ChunkInv, ChunkOK, ApartInv, FedInv, EndInv, AtEof, vars,
                program, kernelVars, sessionVars
<1>2. CASE Next
    <2>1. UNCHANGED program
        BY <1>2 DEF Next
    <2>2. CASE ChildCloses \/ \E n \in 1..MaxBytes : ChildWrites(n)
        BY <2>1, <2>2, QuietPreserves
    <2>3. CASE OrphanEnds \/ \E n \in 1..Size : OrphanReads(n)
        BY <2>1, <2>3, OrphanPreserves
    <2>4. ASSUME NEW r \in Readers, CancelRead(r) PROVE IInv'
        BY <2>1, <2>4, CancelReadPreserves
    <2>5. ASSUME NEW r \in Readers, ReaderStep(r) PROVE IInv'
        <3>1. CASE StartRead(r)
            BY <2>1, <3>1, QuietPreserves
        <3>2. ASSUME NEW n \in 1..Size, FutureReads(r, n) PROVE IInv'
            BY <2>1, <3>2, FutureReadsPreserves
        <3>3. CASE FutureEof(r)
            BY <2>1, <3>3, FutureEofPreserves
        <3>4. CASE Resume(r)
            BY <2>1, <3>4, ResumePreserves
        <3>. QED
            BY <2>5, <3>1, <3>2, <3>3, <3>4 DEF ReaderStep
    <2>. QED
        BY <1>2, <2>2, <2>3, <2>4, <2>5 DEF Next
<1>. QED
    BY <1>1, <1>2

\* It holds throughout.
LEMMA InvariantHolds == Spec => []IInv
<1>. QED
    BY InitEstablishes, NextPreserves, PTL DEF Spec

-----------------------------------------------------------------------------
(* What the steps do to the bytes.                                         *)

\* No byte is fed twice, nor fed while a reader still holds it.
OnceInv ==
    /\ \A i, j \in 1..Len(fed) : i # j => fed[i] # fed[j]
    /\ \A r \in Readers : \A i \in 1..Len(fed), j \in 1..Len(chunk[r]) : fed[i] # chunk[r][j]

\* Unless a read is cancelled, a byte that was taken is somewhere.
CoverInv ==
    ~cancels => \A b \in 1..taken :
        \/ \E i \in 1..Len(fed) : fed[i] = b
        \/ \E r \in Readers : \E j \in 1..Len(chunk[r]) : chunk[r][j] = b

\* A lone reader holds what comes after all that was fed.
OrderInv ==
    (\A q, r \in readers : q = r) =>
        /\ \A i, j \in 1..Len(fed) : i < j => fed[i] < fed[j]
        /\ \A r \in Readers : \A i \in 1..Len(fed), j \in 1..Len(chunk[r]) : fed[i] < chunk[r][j]

StreamInv == OnceInv /\ CoverInv /\ OrderInv

\* Nothing moves, or some chunk is given up because reads are cancelled.
Stays ==
    /\ UNCHANGED <<fed, readers, cancels>>
    /\ \A r \in Readers : chunk'[r] = chunk[r] \/ (cancels /\ chunk'[r] = <<>>)
    /\ taken' = taken \/ cancels

\* The bytes after those taken come to one reader.
Comes(r, n) ==
    /\ UNCHANGED <<fed, readers, cancels>>
    /\ r \in readers
    /\ taken' = taken + n
    /\ Len(chunk'[r]) = n /\ \A j \in 1..n : chunk'[r][j] = taken + j
    /\ chunk[r] = <<>>
    /\ \A q \in Readers : q # r => chunk'[q] = chunk[q]

\* One reader's chunk is fed.
Goes(r) ==
    /\ UNCHANGED <<readers, cancels, taken>>
    /\ r \in readers
    /\ Len(fed') = Len(fed) + Len(chunk[r])
    /\ \A i \in 1..Len(fed) : fed'[i] = fed[i]
    /\ \A i \in 1..Len(chunk[r]) : fed'[Len(fed) + i] = chunk[r][i]
    /\ chunk'[r] = <<>>
    /\ \A q \in Readers : q # r => chunk'[q] = chunk[q]

\* Every step is one of these.
LEMMA StepKinds ==
    ASSUME IInv, [Next]_vars
    PROVE  \/ Stays
           \/ \E r \in Readers : \E n \in 1..Size : Comes(r, n)
           \/ \E r \in Readers : Goes(r)
<1>. USE DEF IInv, program, kernelVars, sessionVars
<1>1. CASE UNCHANGED vars
    BY <1>1 DEF vars, Stays
<1>2. CASE Next
    <2>1. UNCHANGED program
        BY <1>2 DEF Next
    <2>2. CASE ChildCloses \/ \E n \in 1..MaxBytes : ChildWrites(n)
        BY <2>1, <2>2 DEF ChildCloses, ChildWrites, Stays
    <2>3. CASE OrphanEnds \/ \E n \in 1..Size : OrphanReads(n)
        <3>1. cancels
            BY <2>3, PtyIoAssumption DEF OrphanEnds, OrphanReads, EndInv, PathType
        <3>2. UNCHANGED <<fed, chunk>>
            BY <2>3 DEF OrphanEnds, OrphanReads
        <3>. QED
            BY <2>1, <3>1, <3>2 DEF Stays
    <2>4. ASSUME NEW r \in Readers, CancelRead(r) PROVE Stays
        <3>1. cancels /\ chunk' = [chunk EXCEPT ![r] = <<>>] /\ UNCHANGED fed
            BY <2>4 DEF CancelRead
        <3>. QED
            BY <2>1, <3>1 DEF Stays, PathType
    <2>5. ASSUME NEW r \in Readers, StartRead(r) PROVE Stays
        BY <2>1, <2>5 DEF StartRead, Stays
    <2>6. ASSUME NEW r \in Readers, NEW n \in 1..Size, FutureReads(r, n) PROVE Comes(r, n)
        <3>1. /\ UNCHANGED fed /\ taken' = taken + n /\ task[r] = "reading"
              /\ chunk' = [chunk EXCEPT ![r] = NextBytes(n)]
            BY <2>6 DEF FutureReads, Take
        <3>2. n \in Nat
            BY PtyIoAssumption
        <3>3. Len(NextBytes(n)) = n /\ \A j \in 1..n : NextBytes(n)[j] = taken + j
            BY <3>2 DEF NextBytes, PathType
        <3>4. chunk'[r] = NextBytes(n) /\ \A q \in Readers : q # r => chunk'[q] = chunk[q]
            BY <3>1 DEF PathType
        <3>5. r \in readers /\ chunk[r] = <<>>
            BY <3>1 DEF ChunkInv, ChunkOK
        <3>. QED
            BY <2>1, <3>1, <3>3, <3>4, <3>5 DEF Comes
    <2>7. ASSUME NEW r \in Readers, FutureEof(r) PROVE Stays
        <3>1. task[r] = "reading" /\ chunk' = [chunk EXCEPT ![r] = <<>>] /\ UNCHANGED <<fed, taken>>
            BY <2>7 DEF FutureEof
        <3>2. chunk[r] = <<>>
            BY <3>1 DEF ChunkInv, ChunkOK
        <3>. QED
            BY <2>1, <3>1, <3>2 DEF Stays, PathType
    <2>8. ASSUME NEW r \in Readers, Resume(r) PROVE Goes(r)
        <3>1. /\ task[r] = "done" /\ UNCHANGED taken
              /\ chunk' = [chunk EXCEPT ![r] = <<>>]
            BY <2>8 DEF Resume
        <3>2. /\ chunk'[r] = <<>> /\ r \in readers
              /\ \A q \in Readers : q # r => chunk'[q] = chunk[q]
            BY <3>1 DEF PathType, ChunkInv, ChunkOK
        <3>3. chunk[r] \in Seq(Nat) /\ fed \in Seq(Nat)
            BY DEF PathType
        <3>4. fed' = fed \o chunk[r]
            BY <2>8, <3>3 DEF Resume
        <3>5. /\ Len(fed') = Len(fed) + Len(chunk[r])
              /\ \A i \in 1..Len(fed) : fed'[i] = fed[i]
              /\ \A i \in 1..Len(chunk[r]) : fed'[Len(fed) + i] = chunk[r][i]
            BY <3>3, <3>4, SMTT(30)
        <3>. QED
            BY <2>1, <3>1, <3>2, <3>5 DEF Goes
    <2>. QED
        BY <1>2, <2>2, <2>3, <2>4, <2>5, <2>6, <2>7, <2>8 DEF Next, ReaderStep
<1>. QED
    BY <1>1, <1>2

\* Lengths and bytes are numbers.
LEMMA Numbers ==
    ASSUME IInv
    PROVE  /\ taken \in Nat /\ Len(fed) \in Nat
           /\ \A i \in 1..Len(fed) : fed[i] \in 1..taken
           /\ \A r \in Readers : /\ Len(chunk[r]) \in Nat
                                 /\ \A j \in 1..Len(chunk[r]) : chunk[r][j] \in 1..taken
<1>. QED
    BY DEF IInv, PathType, FedInv, ChunkInv, ChunkOK

\* Nothing comes to be fed twice.
LEMMA OncePreserves ==
    ASSUME IInv, OnceInv, [Next]_vars
    PROVE  OnceInv'
<1>1. CASE Stays
    BY <1>1 DEF Stays, OnceInv
<1>2. ASSUME NEW r \in Readers, NEW n \in 1..Size, Comes(r, n) PROVE OnceInv'
    <2>1. \A i, j \in 1..Len(fed') : i # j => fed'[i] # fed'[j]
        BY <1>2 DEF Comes, OnceInv
    <2>2. ASSUME NEW q \in Readers, NEW i \in 1..Len(fed'), NEW j \in 1..Len(chunk'[q])
          PROVE  fed'[i] # chunk'[q][j]
        <3>1. i \in 1..Len(fed) /\ fed'[i] = fed[i]
            BY <1>2, <2>2 DEF Comes
        <3>2. CASE q = r
            <4>1. chunk'[q][j] = taken + j /\ j \in 1..n /\ n \in Nat
                BY <1>2, <2>2, <3>2, PtyIoAssumption DEF Comes
            <4>2. fed[i] \in 1..taken /\ taken \in Nat
                BY <3>1, Numbers
            <4>. QED
                BY <3>1, <4>1, <4>2
        <3>3. CASE q # r
            BY <1>2, <2>2, <3>1, <3>3 DEF Comes, OnceInv
        <3>. QED
            BY <3>2, <3>3
    <2>. QED
        BY <2>1, <2>2 DEF OnceInv
<1>3. ASSUME NEW r \in Readers, Goes(r) PROVE OnceInv'
    <2>0. /\ Len(fed) \in Nat /\ Len(chunk[r]) \in Nat
          /\ Len(fed') = Len(fed) + Len(chunk[r])
        BY <1>3, Numbers DEF Goes
    <2>1. ASSUME NEW i \in 1..Len(fed')
          PROVE  \/ i \in 1..Len(fed) /\ fed'[i] = fed[i]
                 \/ \E k \in 1..Len(chunk[r]) : i = Len(fed) + k /\ fed'[i] = chunk[r][k]
        <3>1. CASE i <= Len(fed)
            BY <1>3, <2>0, <3>1 DEF Goes
        <3>2. CASE ~(i <= Len(fed))
            <4>1. i - Len(fed) \in 1..Len(chunk[r]) /\ i = Len(fed) + (i - Len(fed))
                BY <2>0, <3>2
            <4>. QED
                BY <1>3, <4>1 DEF Goes
        <3>. QED
            BY <3>1, <3>2
    <2>2. \A k, l \in 1..Len(chunk[r]) : k # l => chunk[r][k] # chunk[r][l]
        <3>1. \A k, l \in 1..Len(chunk[r]) : k < l => chunk[r][k] < chunk[r][l]
            BY DEF IInv, ChunkInv, ChunkOK
        <3>2. \A k \in 1..Len(chunk[r]) : chunk[r][k] \in 1..taken
            BY Numbers
        <3>3. taken \in Nat
            BY Numbers
        <3>. QED
            BY <2>0, <3>1, <3>2, <3>3
    <2>3. \A i, j \in 1..Len(fed') : i # j => fed'[i] # fed'[j]
        <3>. SUFFICES ASSUME NEW i \in 1..Len(fed'), NEW j \in 1..Len(fed'), i # j
                      PROVE  fed'[i] # fed'[j]
            OBVIOUS
        <3>1. /\ \A k, l \in 1..Len(fed) : k # l => fed[k] # fed[l]
              /\ \A k \in 1..Len(fed), l \in 1..Len(chunk[r]) : fed[k] # chunk[r][l]
            BY DEF OnceInv
        <3>2. CASE i \in 1..Len(fed) /\ fed'[i] = fed[i]
            BY <2>1, <3>1, <3>2
        <3>3. ASSUME NEW k \in 1..Len(chunk[r]), i = Len(fed) + k, fed'[i] = chunk[r][k]
              PROVE  fed'[i] # fed'[j]
            BY <2>1, <2>2, <3>1, <3>3
        <3>. QED
            BY <2>1, <3>2, <3>3
    <2>4. ASSUME NEW q \in Readers, NEW i \in 1..Len(fed'), NEW j \in 1..Len(chunk'[q])
          PROVE  fed'[i] # chunk'[q][j]
        <3>1. q # r /\ chunk'[q] = chunk[q]
            BY <1>3, <2>4 DEF Goes
        <3>. QED
            BY <2>1, <3>1, SMTT(30) DEF OnceInv, ApartInv, IInv
    <2>. QED
        BY <2>3, <2>4 DEF OnceInv
<1>. QED
    BY <1>1, <1>2, <1>3, StepKinds

\* Nothing that was taken is lost, unless reads are cancelled.
LEMMA CoverPreserves ==
    ASSUME IInv, CoverInv, [Next]_vars
    PROVE  CoverInv'
<1>. SUFFICES ASSUME ~cancels', NEW b \in 1..taken'
              PROVE  \/ \E i \in 1..Len(fed') : fed'[i] = b
                     \/ \E r \in Readers : \E j \in 1..Len(chunk'[r]) : chunk'[r][j] = b
    BY DEF CoverInv
<1>1. CASE Stays
    BY <1>1 DEF Stays, CoverInv
<1>2. ASSUME NEW r \in Readers, NEW n \in 1..Size, Comes(r, n)
      PROVE  \/ \E i \in 1..Len(fed') : fed'[i] = b
             \/ \E q \in Readers : \E j \in 1..Len(chunk'[q]) : chunk'[q][j] = b
    <2>1. taken \in Nat /\ n \in Nat /\ taken' = taken + n
        BY <1>2, Numbers, PtyIoAssumption DEF Comes
    <2>2. CASE b <= taken
        <3>1. b \in 1..taken
            BY <2>1, <2>2
        <3>2. \A j : j \notin 1..Len(chunk[r])
            BY <1>2 DEF Comes
        <3>. QED
            BY <1>2, <3>1, <3>2 DEF Comes, CoverInv
    <2>3. CASE ~(b <= taken)
        <3>1. b - taken \in 1..n /\ taken + (b - taken) = b
            BY <2>1, <2>3
        <3>2. chunk'[r][b - taken] = b /\ b - taken \in 1..Len(chunk'[r])
            BY <1>2, <3>1 DEF Comes
        <3>. QED
            BY <3>2
    <2>. QED
        BY <2>2, <2>3
<1>3. ASSUME NEW r \in Readers, Goes(r)
      PROVE  \/ \E i \in 1..Len(fed') : fed'[i] = b
             \/ \E q \in Readers : \E j \in 1..Len(chunk'[q]) : chunk'[q][j] = b
    <2>1. /\ Len(fed) \in Nat /\ Len(chunk[r]) \in Nat
          /\ Len(fed') = Len(fed) + Len(chunk[r])
        BY <1>3, Numbers DEF Goes
    <2>2. CASE \E i \in 1..Len(fed) : fed[i] = b
        <3>1. PICK i \in 1..Len(fed) : fed[i] = b
            BY <2>2
        <3>2. i \in 1..Len(fed') /\ fed'[i] = b
            BY <1>3, <2>1, <3>1 DEF Goes
        <3>. QED
            BY <3>2
    <2>3. CASE \E j \in 1..Len(chunk[r]) : chunk[r][j] = b
        <3>1. PICK j \in 1..Len(chunk[r]) : chunk[r][j] = b
            BY <2>3
        <3>2. Len(fed) + j \in 1..Len(fed')
            BY <2>1
        <3>3. fed'[Len(fed) + j] = b
            BY <1>3, <3>1 DEF Goes
        <3>. QED
            BY <3>2, <3>3
    <2>4. CASE \E q \in Readers : q # r /\ \E j \in 1..Len(chunk[q]) : chunk[q][j] = b
        BY <1>3, <2>4 DEF Goes
    <2>5. ~cancels /\ b \in 1..taken
        BY <1>3 DEF Goes
    <2>. QED
        BY <2>2, <2>3, <2>4, <2>5 DEF CoverInv
<1>. QED
    BY <1>1, <1>2, <1>3, StepKinds

\* A lone reader keeps the order.
LEMMA OrderPreserves ==
    ASSUME IInv, OrderInv, [Next]_vars
    PROVE  OrderInv'
<1>. SUFFICES ASSUME \A q, r \in readers' : q = r
              PROVE  /\ \A i, j \in 1..Len(fed') : i < j => fed'[i] < fed'[j]
                     /\ \A r \in Readers : \A i \in 1..Len(fed'), j \in 1..Len(chunk'[r]) :
                            fed'[i] < chunk'[r][j]
    BY DEF OrderInv
<1>0. \A r \in Readers \ readers : chunk[r] = <<>>
    BY DEF IInv, ChunkInv, ChunkOK
<1>1. CASE Stays
    BY <1>1 DEF Stays, OrderInv
<1>2. ASSUME NEW r \in Readers, NEW n \in 1..Size, Comes(r, n)
      PROVE  /\ \A i, j \in 1..Len(fed') : i < j => fed'[i] < fed'[j]
             /\ \A q \in Readers : \A i \in 1..Len(fed'), j \in 1..Len(chunk'[q]) :
                    fed'[i] < chunk'[q][j]
    <2>1. \A i, j \in 1..Len(fed') : i < j => fed'[i] < fed'[j]
        BY <1>2 DEF Comes, OrderInv
    <2>2. ASSUME NEW q \in Readers, NEW i \in 1..Len(fed'), NEW j \in 1..Len(chunk'[q])
          PROVE  fed'[i] < chunk'[q][j]
        <3>1. i \in 1..Len(fed) /\ fed'[i] = fed[i]
            BY <1>2, <2>2 DEF Comes
        <3>2. CASE q = r
            <4>1. chunk'[q][j] = taken + j /\ j \in 1..n /\ n \in Nat
                BY <1>2, <2>2, <3>2, PtyIoAssumption DEF Comes
            <4>2. fed[i] \in 1..taken /\ taken \in Nat
                BY <3>1, Numbers
            <4>. QED
                BY <3>1, <4>1, <4>2
        <3>3. CASE q # r
            BY <1>2, <2>2, <3>1, <3>3 DEF Comes, OrderInv
        <3>. QED
            BY <3>2, <3>3
    <2>. QED
        BY <2>1, <2>2
<1>3. ASSUME NEW r \in Readers, Goes(r)
      PROVE  /\ \A i, j \in 1..Len(fed') : i < j => fed'[i] < fed'[j]
             /\ \A q \in Readers : \A i \in 1..Len(fed'), j \in 1..Len(chunk'[q]) :
                    fed'[i] < chunk'[q][j]
    <2>0. /\ Len(fed) \in Nat /\ Len(chunk[r]) \in Nat
          /\ Len(fed') = Len(fed) + Len(chunk[r])
        BY <1>3, Numbers DEF Goes
    <2>1. ASSUME NEW i \in 1..Len(fed')
          PROVE  \/ i \in 1..Len(fed) /\ fed'[i] = fed[i]
                 \/ \E k \in 1..Len(chunk[r]) : i = Len(fed) + k /\ fed'[i] = chunk[r][k]
        <3>1. CASE i <= Len(fed)
            BY <1>3, <2>0, <3>1 DEF Goes
        <3>2. CASE ~(i <= Len(fed))
            <4>1. i - Len(fed) \in 1..Len(chunk[r]) /\ i = Len(fed) + (i - Len(fed))
                BY <2>0, <3>2
            <4>. QED
                BY <1>3, <4>1 DEF Goes
        <3>. QED
            BY <3>1, <3>2
    <2>2. \A k, l \in 1..Len(chunk[r]) : k < l => chunk[r][k] < chunk[r][l]
        BY DEF IInv, ChunkInv, ChunkOK
    <2>3. /\ \A i, j \in 1..Len(fed) : i < j => fed[i] < fed[j]
          /\ \A i \in 1..Len(fed), k \in 1..Len(chunk[r]) : fed[i] < chunk[r][k]
        BY <1>3 DEF Goes, OrderInv
    <2>4. ASSUME NEW i \in 1..Len(fed'), NEW j \in 1..Len(fed'), i < j
          PROVE  fed'[i] < fed'[j]
        <3>1. CASE j \in 1..Len(fed) /\ fed'[j] = fed[j]
            <4>1. i \in 1..Len(fed) /\ fed'[i] = fed[i]
                BY <1>3, <2>0, <2>4, <3>1 DEF Goes
            <4>. QED
                BY <2>3, <2>4, <3>1, <4>1
        <3>2. ASSUME NEW l \in 1..Len(chunk[r]), j = Len(fed) + l, fed'[j] = chunk[r][l]
              PROVE  fed'[i] < fed'[j]
            <4>1. CASE i \in 1..Len(fed) /\ fed'[i] = fed[i]
                BY <2>3, <3>2, <4>1
            <4>2. ASSUME NEW k \in 1..Len(chunk[r]), i = Len(fed) + k, fed'[i] = chunk[r][k]
                  PROVE  fed'[i] < fed'[j]
                <5>1. k < l
                    BY <2>0, <2>4, <3>2, <4>2
                <5>. QED
                    BY <2>2, <3>2, <4>2, <5>1
            <4>. QED
                BY <2>1, <4>1, <4>2
        <3>. QED
            BY <2>1, <3>1, <3>2
    <2>5. ASSUME NEW q \in Readers, NEW j \in 1..Len(chunk'[q]) PROVE FALSE
        <3>1. q # r /\ chunk'[q] = chunk[q] /\ r \in readers /\ readers' = readers
            BY <1>3, <2>5 DEF Goes
        <3>2. chunk[q] = <<>>
            BY <1>0, <3>1
        <3>. QED
            BY <2>5, <3>1, <3>2
    <2>. QED
        BY <2>4, <2>5
<1>. QED
    BY <1>1, <1>2, <1>3, StepKinds

\* The size of an interval.
LEMMA IntervalSize ==
    ASSUME NEW n \in Nat
    PROVE  IsFiniteSet(1..n) /\ Cardinality(1..n) = n
<1>1. 1 \in Int /\ n \in Int
    OBVIOUS
<1>2. IsFiniteSet(1..n) /\ Cardinality(1..n) = IF 1 > n THEN 0 ELSE n - 1 + 1
    BY <1>1, FS_Interval, Zenon
<1>. QED
    BY <1>1, <1>2

\* All of it holds throughout.
LEMMA StreamHolds == Spec => [](IInv /\ StreamInv)
<1>1. Init => StreamInv
    <2>. SUFFICES ASSUME Init PROVE StreamInv
        OBVIOUS
    <2>1. fed = <<>> /\ taken = 0
        BY DEF Init
    <2>. QED
        BY <2>1 DEF StreamInv, OnceInv, CoverInv, OrderInv
<1>2. IInv /\ StreamInv /\ [Next]_vars => StreamInv'
    BY OncePreserves, CoverPreserves, OrderPreserves DEF StreamInv
<1>. QED
    BY <1>1, <1>2, InitEstablishes, NextPreserves, PTL DEF Spec

-----------------------------------------------------------------------------
(* The raw_output window.                                                  *)

\* No chunk of the window is longer than a read or than the window.
ChunkMax == IF Size < Cap THEN Size ELSE Cap

\* The window is the end of what was fed.  Unless it is all of that, the last
\* chunk that was evicted had no room beside it.
WindowInv ==
    /\ raw \in Seq(Seq(Nat))
    /\ rawBytes = Len(Joined(raw))
    /\ \E before \in Seq(Nat) : fed = before \o Joined(raw)
    /\ Len(Joined(raw)) <= (IF Cap = 0 THEN Size ELSE Cap)
    /\ Cap > 0 =>
         /\ \A i \in 1..Len(raw) : Len(raw[i]) <= ChunkMax
         /\ Len(Joined(raw)) <= Cap
         /\ Len(Joined(raw)) = Len(fed) \/ Len(Joined(raw)) + ChunkMax > Cap

\* Reads, the bytes written and the orphans keep within their bounds.
BoundsInv ==
    /\ written <= MaxBytes /\ orphans <= MaxOrphans
    /\ eof \subseteq readers
    /\ \A r \in Readers : Len(chunk[r]) <= Size

\* What is needed of concatenation.
LEMMA Associative ==
    ASSUME NEW r \in Seq(Nat), NEW s \in Seq(Nat), NEW t \in Seq(Nat)
    PROVE  (r \o s) \o t = r \o (s \o t) /\ r \o s \in Seq(Nat)
<1>1. (r \o s) \o t = r \o (s \o t)
    BY ConcatAssociative, SMTT(30)
<1>2. r \o s \in Seq(Nat)
    BY ConcatProperties, Zenon
<1>. QED
    BY <1>1, <1>2

\* The chunks of a window make up one sequence.
LEMMA JoinedType ==
    ASSUME NEW chunks \in Seq(Seq(Nat))
    PROVE  Joined(chunks) \in Seq(Nat) /\ Len(Joined(chunks)) \in Nat
<1>1. Joined(chunks) \in Seq(Nat)
    BY FlatType DEF Joined
<1>. QED
    BY <1>1, LenProperties

\* The loop of _record_raw stops, as soon as the rest fits.
LEMMA EvictedIs ==
    ASSUME NEW chunks \in Seq(Seq(Nat)), NEW count, count = Len(Joined(chunks)),
           NEW n, n = Evicted(chunks, count)
    PROVE  /\ n \in 0..Len(chunks)
           /\ Len(Joined(SubSeq(chunks, n + 1, Len(chunks)))) <= Cap
           /\ \A j \in 0..(n - 1) :
                  Len(Joined(SubSeq(chunks, j + 1, Len(chunks)))) > Cap
           /\ count - Popped(chunks, n) = Len(Joined(SubSeq(chunks, n + 1, Len(chunks))))
<1>. DEFINE Left(k) == count - Popped(chunks, k)
            Rest(k) == Len(Joined(SubSeq(chunks, k + 1, Len(chunks))))
            Fits == {k \in 0..Len(chunks) : Rest(k) <= Cap}
<1>0. Len(chunks) \in Nat /\ Cap \in Nat
    BY LenProperties, PtyIoAssumption DEF PtyIoAssumption
<1>1. ASSUME NEW k \in 0..Len(chunks) PROVE Rest(k) \in Nat
    <2>1. SubSeq(chunks, k + 1, Len(chunks)) \in Seq(Seq(Nat))
        BY <1>0, ElementOfSeq, SubSeqProperties
    <2>. QED
        BY <2>1, JoinedType
<1>2. Len(chunks) \in Fits
    <2>1. SubSeq(chunks, Len(chunks) + 1, Len(chunks)) = <<>>
        BY <1>0, SubSeqEmpty
    <2>2. Rest(Len(chunks)) = Len(FlattenSeq(<<>>))
        BY <2>1 DEF Joined
    <2>3. Rest(Len(chunks)) = 0
        <3>. HIDE DEF Rest
        <3>. QED
            BY <2>2, FlatEmpty, EmptySeq
    <2>. HIDE DEF Rest
    <2>. QED
        BY <1>0, <2>3
<1>3. PICK m \in Fits : \A k \in Fits : m <= k
    <2>1. Fits \subseteq Nat /\ Fits # {}
        <3>. HIDE DEF Rest
        <3>. QED
            BY <1>0, <1>2
    <2>. HIDE DEF Fits
    <2>. QED
        BY <2>1, Least
<1>4. ASSUME NEW j \in 0..(m - 1) PROVE Rest(j) > Cap
    <2>1. j \in 0..Len(chunks) /\ ~(m <= j)
        BY <1>0
    <2>2. j \notin Fits
        BY <1>3, <2>1
    <2>3. ~(Rest(j) <= Cap) /\ Rest(j) \in Nat
        BY <1>1, <2>1, <2>2
    <2>. HIDE DEF Rest
    <2>. QED
        BY <1>0, <2>3
<1>5. m \in 0..Len(chunks) /\ Rest(m) <= Cap /\ \A j \in 0..(m - 1) : Rest(j) > Cap
    BY <1>4
<1>6. ASSUME NEW k \in 0..Len(chunks) PROVE Left(k) = Rest(k)
    <2>. DEFINE G == Joined(SubSeq(chunks, 1, k))
                K == Joined(SubSeq(chunks, k + 1, Len(chunks)))
    <2>1. Joined(chunks) = G \o K
        BY <1>6, FlatSplit DEF Joined
    <2>2. SubSeq(chunks, 1, k) \in Seq(Seq(Nat)) /\ SubSeq(chunks, k + 1, Len(chunks)) \in Seq(Seq(Nat))
        BY <1>0, ElementOfSeq, SubSeqProperties
    <2>3. G \in Seq(Nat) /\ K \in Seq(Nat)
        BY <2>2, JoinedType
    <2>4. Left(k) = count - Len(G) /\ Rest(k) = Len(K)
        BY DEF Popped
    <2>. HIDE DEF G, K, Left, Rest
    <2>5. count = Len(G) + Len(K) /\ Len(G) \in Nat /\ Len(K) \in Nat
        BY <2>1, <2>3, ConcatProperties, LenProperties
    <2>. QED
        BY <2>4, <2>5
<1>7. n = CHOOSE k \in 0..Len(chunks) : /\ k = Len(chunks) \/ Left(k) <= Cap
                                        /\ \A j \in 0..(k - 1) : Left(j) > Cap
    BY DEF Evicted
<1>8. m \in 0..Len(chunks) /\ (m = Len(chunks) \/ Left(m) <= Cap) /\ \A j \in 0..(m - 1) : Left(j) > Cap
    <2>1. \A j \in 0..(m - 1) : j \in 0..Len(chunks)
        BY <1>0, <1>5
    <2>. HIDE DEF Left, Rest
    <2>. QED
        BY <1>5, <1>6, <2>1
<1>. HIDE DEF Left, Rest, Fits
<1>9. n \in 0..Len(chunks) /\ (n = Len(chunks) \/ Left(n) <= Cap) /\ \A j \in 0..(n - 1) : Left(j) > Cap
    BY <1>7, <1>8
<1>10. \A j \in 0..(n - 1) : j \in 0..Len(chunks)
    BY <1>0, <1>9
<1>11. Rest(n) <= Cap /\ \A j \in 0..(n - 1) : Rest(j) > Cap
    BY <1>2, <1>6, <1>9, <1>10 DEF Fits
<1>12. Left(n) = Rest(n)
    BY <1>6, <1>9
<1>. QED
    BY <1>9, <1>11, <1>12 DEF Rest, Left

\* A chunk that fits is appended, and the oldest ones make room for it.
LEMMA WindowSlides ==
    ASSUME WindowInv, fed \in Seq(Nat), NEW data \in Seq(Nat),
           Len(data) <= Size, Len(data) < Cap,
           RecordRaw(data), fed' = fed \o data
    PROVE  WindowInv'
<1>. DEFINE all == Append(raw, data)
            count == rawBytes + Len(data)
            k == Evicted(all, count)
            gone == SubSeq(all, 1, k)
            kept == SubSeq(all, k + 1, Len(all))
<1>0. Cap \in Nat /\ Size \in Nat /\ ChunkMax \in Nat /\ Len(data) \in Nat /\ Len(data) <= ChunkMax
    BY LenProperties, PtyIoAssumption DEF PtyIoAssumption, ChunkMax
<1>1. /\ all \in Seq(Seq(Nat)) /\ Len(all) \in Nat
      /\ \A i \in 1..Len(all) : Len(all[i]) <= ChunkMax
    <2>1. raw \in Seq(Seq(Nat)) /\ \A i \in 1..Len(raw) : Len(raw[i]) <= ChunkMax
        BY <1>0 DEF WindowInv
    <2>2. /\ all \in Seq(Seq(Nat)) /\ Len(raw) \in Nat /\ Len(all) = Len(raw) + 1
          /\ all[Len(raw) + 1] = data
          /\ \A i \in 1..Len(raw) : all[i] = raw[i]
        BY <2>1, AppendProperties, LenProperties
    <2>. HIDE DEF all
    <2>3. \A i \in 1..Len(all) : i \in 1..Len(raw) \/ i = Len(raw) + 1
        BY <2>2
    <2>4. ASSUME NEW i \in 1..Len(all) PROVE Len(all[i]) <= ChunkMax
        <3>1. CASE i \in 1..Len(raw)
            BY <2>1, <2>2, <3>1
        <3>2. CASE i = Len(raw) + 1
            BY <1>0, <2>2, <3>2
        <3>. QED
            BY <2>3, <3>1, <3>2
    <2>. QED
        BY <2>2, <2>4
<1>2. Joined(all) = Joined(raw) \o data /\ Joined(raw) \in Seq(Nat)
    <2>1. raw \in Seq(Seq(Nat))
        BY DEF WindowInv
    <2>2. FlattenSeq(Append(raw, data)) = FlattenSeq(raw) \o data
        BY <2>1, FlatAppend
    <2>. QED
        BY <2>1, <2>2, JoinedType DEF Joined
<1>3. raw' = kept /\ rawBytes' = count - Popped(all, k)
    <2>1. ~(Len(data) >= Cap)
        BY <1>0
    <2>. QED
        BY <2>1, Zenon DEF RecordRaw, Slide
<1>a. count = Len(Joined(all))
    <2>1. rawBytes = Len(Joined(raw))
        BY DEF WindowInv
    <2>. DEFINE J == Joined(raw)
    <2>2. Joined(all) = J \o data /\ J \in Seq(Nat)
        BY <1>2
    <2>. HIDE DEF J
    <2>3. Len(J \o data) = Len(J) + Len(data)
        BY <2>2, ConcatProperties
    <2>. QED
        BY <2>1, <2>2, <2>3 DEF J
<1>. HIDE DEF all, count
<1>4. /\ k \in 0..Len(all) /\ Len(Joined(kept)) <= Cap
      /\ \A j \in 0..(k - 1) : Len(Joined(SubSeq(all, j + 1, Len(all)))) > Cap
      /\ count - Popped(all, k) = Len(Joined(kept))
    <2>1. k = Evicted(all, count)
        OBVIOUS
    <2>. HIDE DEF k
    <2>. QED
        BY <1>1, <1>a, <2>1, EvictedIs
<1>. HIDE DEF k
<1>5. gone \in Seq(Seq(Nat)) /\ kept \in Seq(Seq(Nat)) /\ Joined(all) = Joined(gone) \o Joined(kept)
    BY <1>1, <1>4, ElementOfSeq, SubSeqProperties, FlatSplit, SMTT(30) DEF Joined
<1>6. Joined(gone) \in Seq(Nat) /\ Joined(kept) \in Seq(Nat) /\ Len(Joined(kept)) \in Nat
    BY <1>5, JoinedType
<1>7. \E before \in Seq(Nat) : fed' = before \o Joined(kept)
    <2>. DEFINE J == Joined(raw)
                G == Joined(gone)
                K == Joined(kept)
    <2>1. PICK before \in Seq(Nat) : fed = before \o J
        BY DEF WindowInv
    <2>2. /\ J \in Seq(Nat) /\ G \in Seq(Nat) /\ K \in Seq(Nat)
          /\ J \o data = G \o K
        BY <1>2, <1>5, <1>6
    <2>. HIDE DEF J, G, K
    <2>3. fed' = before \o (J \o data)
        BY <2>1, <2>2, Associative, ZenonT(60)
    <2>4. (before \o G) \o K = before \o (G \o K) /\ before \o G \in Seq(Nat)
        BY <2>2, Associative
    <2>5. fed' = (before \o G) \o K
        BY <2>2, <2>3, <2>4
    <2>. QED
        BY <2>4, <2>5 DEF K
<1>8. \A i \in 1..Len(kept) : Len(kept[i]) <= ChunkMax
    <2>1. \A i \in 1..Len(kept) : k + i \in 1..Len(all) /\ kept[i] = all[k + i]
        BY <1>1, <1>4
    <2>. QED
        BY <1>1, <2>1
<1>9. Len(Joined(kept)) = Len(fed') \/ Len(Joined(kept)) + ChunkMax > Cap
    <2>1. CASE k = 0
        <3>1. kept = all
            BY <1>1, <2>1, SubSeqFull
        <3>2. Len(Joined(kept)) = Len(Joined(raw)) + Len(data) /\ Len(fed') = Len(fed) + Len(data)
            BY <1>2, <3>1, ConcatProperties
        <3>3. /\ Len(Joined(raw)) \in Nat /\ Len(fed) \in Nat
              /\ Len(Joined(raw)) = Len(fed) \/ Len(Joined(raw)) + ChunkMax > Cap
            BY <1>0, <1>2, LenProperties DEF WindowInv
        <3>. QED
            BY <1>0, <3>2, <3>3
    <2>2. CASE k # 0
        <3>. DEFINE more == SubSeq(all, k, Len(all))
                    last == SubSeq(all, k, k)
        <3>0. k \in Nat /\ k - 1 \in 0..(k - 1) /\ (k - 1) + 1 = k /\ k \in 1..Len(all)
            BY <1>1, <1>4, <2>2
        <3>1. Len(Joined(more)) > Cap
            BY <1>4, <3>0
        <3>2. more \in Seq(Seq(Nat)) /\ Len(more) = Len(all) - k + 1
            BY <1>1, <3>0
        <3>3. SubSeq(more, 1, 1) = <<all[k]>> /\ SubSeq(more, 2, Len(more)) = kept
            <4>1. /\ Len(more) \in 1..Len(all) /\ more[1] = all[k]
                  /\ \A i \in 2..Len(more) : more[i] = all[k + i - 1]
                BY <1>1, <3>0, <3>2
            <4>2. SubSeq(more, 1, 1) = <<all[k]>>
                <5>. HIDE DEF more
                <5>1. 1 \in 1..Len(more)
                    BY <4>1
                <5>2. SubSeq(more, 1, 1) = SubSeq(more, 1, 0) \o <<more[1]>>
                    BY <3>2, <5>1, SubSeqRecursiveSecond
                <5>3. SubSeq(more, 1, 0) = <<>>
                    BY SubSeqEmpty
                <5>4. <<more[1]>> \in Seq(Seq(Nat))
                    BY <3>2, <5>1, ElementOfSeq
                <5>. QED
                    BY <4>1, <5>2, <5>3, <5>4, ConcatEmptySeq
            <4>3. SubSeq(more, 2, Len(more)) \in Seq(Seq(Nat)) /\ Len(SubSeq(more, 2, Len(more))) = Len(kept)
                <5>1. Len(kept) = Len(all) - k
                    BY <1>1, <3>0
                <5>2. SubSeq(more, 2, Len(more)) \in Seq(Seq(Nat)) /\ Len(SubSeq(more, 2, Len(more))) = Len(more) - 1
                    <6>. HIDE DEF more
                    <6>. QED
                        BY <3>2, <4>1, <1>1, SMTT(30)
                <5>. HIDE DEF more, kept
                <5>. QED
                    BY <1>1, <3>0, <3>2, <5>1, <5>2, SMTT(30)
            <4>4. \A i \in 1..Len(kept) : SubSeq(more, 2, Len(more))[i] = kept[i]
                <5>. SUFFICES ASSUME NEW i \in 1..Len(kept) PROVE SubSeq(more, 2, Len(more))[i] = kept[i]
                    OBVIOUS
                <5>1. Len(kept) = Len(all) - k /\ kept[i] = all[k + i]
                    BY <1>1, <3>0
                <5>2. i + 1 \in 2..Len(more) /\ k + (i + 1) - 1 = k + i /\ i \in Nat
                    <6>. HIDE DEF more, kept
                    <6>. QED
                        BY <1>1, <3>0, <3>2, <5>1
                <5>3. SubSeq(more, 2, Len(more))[i] = more[i + 1]
                    <6>. HIDE DEF more, kept
                    <6>. QED
                        BY <1>1, <3>2, <5>2
                <5>. QED
                    BY <4>1, <5>1, <5>2, <5>3
            <4>. HIDE DEF more, kept
            <4>5. SubSeq(more, 2, Len(more)) = kept
                BY <1>5, <4>3, <4>4, SeqEqual
            <4>. QED
                BY <4>2, <4>5
        <3>4. Joined(more) = Joined(<<all[k]>>) \o Joined(kept)
            <4>1. 1 \in 0..Len(more) /\ 1 + 1 = 2
                BY <1>1, <3>0, <3>2
            <4>. HIDE DEF more, kept
            <4>2. Joined(more) = Joined(SubSeq(more, 1, 1)) \o Joined(SubSeq(more, 2, Len(more)))
                BY <3>2, <4>1, FlatSplit DEF Joined
            <4>. QED
                BY <3>3, <4>2
        <3>5. all[k] \in Seq(Nat) /\ Len(all[k]) <= ChunkMax
            BY <1>1, <3>0, ElementOfSeq
        <3>6. Joined(<<all[k]>>) = all[k]
            BY <3>5, FlatOne DEF Joined
        <3>7. Len(Joined(more)) = Len(all[k]) + Len(Joined(kept)) /\ Len(all[k]) \in Nat
            <4>1. Joined(more) = all[k] \o Joined(kept)
                BY <3>4, <3>6
            <4>. DEFINE K == Joined(kept)
            <4>2. K \in Seq(Nat) /\ Joined(more) = all[k] \o K
                BY <1>6, <4>1
            <4>. HIDE DEF K
            <4>3. Len(all[k] \o K) = Len(all[k]) + Len(K) /\ Len(all[k]) \in Nat
                BY <3>5, <4>2, ConcatProperties, LenProperties
            <4>. QED
                BY <4>2, <4>3 DEF K
        <3>. HIDE DEF more, kept
        <3>. QED
            BY <1>0, <1>6, <3>1, <3>5, <3>7
    <2>. QED
        BY <2>1, <2>2
<1>. HIDE DEF kept
<1>b. Len(Joined(kept)) <= (IF Cap = 0 THEN Size ELSE Cap)
    BY <1>0, <1>4
<1>. QED
    BY <1>3, <1>4, <1>5, <1>7, <1>8, <1>9, <1>b DEF WindowInv

\* A chunk that fills the window is all of it, but for its end.
LEMMA WindowFilled ==
    ASSUME WindowInv, fed \in Seq(Nat), NEW data \in Seq(Nat),
           Len(data) <= Size, Len(data) >= Cap,
           RecordRaw(data), fed' = fed \o data
    PROVE  WindowInv'
<1>0. Cap \in Nat /\ Size \in Nat \ {0} /\ Len(data) \in Nat
    BY LenProperties, PtyIoAssumption DEF PtyIoAssumption
<1>. DEFINE tail == IF Cap = 0 THEN data ELSE SubSeq(data, Len(data) - Cap + 1, Len(data))
            head == IF Cap = 0 THEN <<>> ELSE SubSeq(data, 1, Len(data) - Cap)
<1>1. raw' = <<tail>> /\ rawBytes' = Len(tail)
    BY <1>0 DEF RecordRaw, TailOf
<1>2. /\ tail \in Seq(Nat) /\ head \in Seq(Nat) /\ data = head \o tail
      /\ Cap # 0 => Len(tail) = Cap
    <2>1. CASE Cap = 0
        BY <2>1, ConcatEmptySeq
    <2>2. CASE Cap # 0
        <3>1. Len(data) - Cap \in 0..Len(data)
            BY <1>0
        <3>2. data = SubSeq(data, 1, Len(data) - Cap) \o SubSeq(data, Len(data) - Cap + 1, Len(data))
            <4>1. /\ 1 \in 1..(Len(data) + 1) /\ Len(data) - Cap \in (1 - 1)..Len(data)
                  /\ Len(data) \in (Len(data) - Cap)..Len(data)
                BY <1>0, <3>1
            <4>2. SubSeq(data, 1, Len(data) - Cap) \o SubSeq(data, Len(data) - Cap + 1, Len(data))
                    = SubSeq(data, 1, Len(data))
                BY <4>1, ConcatAdjacentSubSeq
            <4>. QED
                BY <4>2, SubSeqFull
        <3>3. /\ SubSeq(data, 1, Len(data) - Cap) \in Seq(Nat)
              /\ SubSeq(data, Len(data) - Cap + 1, Len(data)) \in Seq(Nat)
              /\ Len(SubSeq(data, Len(data) - Cap + 1, Len(data))) = Cap
            BY <1>0, <2>2, SMTT(30)
        <3>. QED
            BY <2>2, <3>2, <3>3
    <2>. QED
        BY <2>1, <2>2
<1>. HIDE DEF tail, head
<1>3. Joined(raw') = tail /\ raw' \in Seq(Seq(Nat)) /\ Len(raw') = 1 /\ raw'[1] = tail
    <2>1. FlattenSeq(<<tail>>) = tail
        BY <1>2, FlatOne
    <2>2. raw' \in Seq(Seq(Nat)) /\ Len(raw') = 1 /\ raw'[1] = tail
        BY <1>1, <1>2
    <2>. QED
        BY <1>1, <2>1, <2>2 DEF Joined
<1>4. fed' = (fed \o head) \o tail /\ fed \o head \in Seq(Nat)
    <2>1. (fed \o head) \o tail = fed \o (head \o tail) /\ fed \o head \in Seq(Nat)
        BY <1>2, Associative, SMTT(30)
    <2>. QED
        BY <1>2, <2>1
<1>5. Cap # 0 => /\ ChunkMax = Cap
                 /\ Len(tail) + ChunkMax > Cap
    BY <1>0, <1>2 DEF ChunkMax
<1>6. Cap > 0 => /\ \A i \in 1..Len(raw') : Len(raw'[i]) <= ChunkMax
                 /\ Len(tail) <= Cap
                 /\ Len(tail) + ChunkMax > Cap
    <2>. SUFFICES ASSUME Cap > 0 PROVE <1>6!2
        OBVIOUS
    <2>1. Cap # 0
        BY <1>0
    <2>. QED
        BY <1>0, <1>2, <1>3, <1>5, <2>1
<1>7. \E before \in Seq(Nat) : fed' = before \o Joined(raw')
    BY <1>3, <1>4
<1>8. Len(tail) <= (IF Cap = 0 THEN Size ELSE Cap)
    <2>1. Cap = 0 => tail = data
        BY DEF tail
    <2>. QED
        BY <1>0, <1>2, <2>1
<1>. QED
    BY <1>1, <1>3, <1>6, <1>7, <1>8 DEF WindowInv, Joined

\* No other step touches the window.
LEMMA WindowPreserves ==
    ASSUME IInv, BoundsInv, WindowInv, [Next]_vars
    PROVE  WindowInv'
<1>. USE DEF program, kernelVars, sessionVars
<1>1. CASE UNCHANGED sessionVars
    BY <1>1 DEF WindowInv, Joined
<1>2. ASSUME NEW r \in Readers, Resume(r) PROVE WindowInv'
    <2>1. CASE chunk[r] = <<>>
        BY <1>1, <1>2, <2>1 DEF Resume
    <2>2. CASE chunk[r] # <<>>
        <3>1. RecordRaw(chunk[r]) /\ fed' = fed \o chunk[r]
            BY <1>2, <2>2 DEF Resume
        <3>2. fed \in Seq(Nat) /\ chunk[r] \in Seq(Nat) /\ Len(chunk[r]) <= Size
            BY DEF IInv, PathType, BoundsInv
        <3>3. Len(chunk[r]) \in Nat /\ Cap \in Nat
            BY <3>2, LenProperties, PtyIoAssumption DEF PtyIoAssumption
        <3>4. Len(chunk[r]) < Cap \/ Len(chunk[r]) >= Cap
            BY <3>3
        <3>. QED
            BY <3>1, <3>2, <3>4, WindowSlides, WindowFilled
    <2>. QED
        BY <2>1, <2>2
<1>3. UNCHANGED sessionVars \/ \E r \in Readers : Resume(r)
    BY DEF Next, vars, ChildWrites, ChildCloses, ReaderStep, StartRead, FutureReads, FutureEof,
           CancelRead, OrphanReads, OrphanEnds
<1>. QED
    BY <1>1, <1>2, <1>3

\* The bounds are kept.
LEMMA BoundsPreserved ==
    ASSUME IInv, BoundsInv, [Next]_vars
    PROVE  BoundsInv'
<1>. USE PtyIoAssumption
<1>. USE DEF program, kernelVars, sessionVars, IInv, PathType
<1>1. CASE UNCHANGED vars
    BY <1>1 DEF vars, BoundsInv
<1>2. CASE Next
    <2>0. readers' = readers /\ Size \in Nat
        BY <1>2 DEF Next
    <2>1. ASSUME NEW n \in 1..MaxBytes, ChildWrites(n) PROVE BoundsInv'
        BY <2>0, <2>1 DEF ChildWrites, BoundsInv
    <2>2. CASE ChildCloses \/ OrphanEnds \/ \E n \in 1..Size : OrphanReads(n)
        BY <2>0, <2>2 DEF ChildCloses, OrphanEnds, OrphanReads, Take, BoundsInv
    <2>3. ASSUME NEW r \in Readers, ReaderStep(r) \/ CancelRead(r) PROVE BoundsInv'
        <3>1. written' = written
            BY <2>3 DEF ReaderStep, StartRead, FutureReads, FutureEof, Resume, CancelRead, Take
        <3>2. orphans' <= MaxOrphans
            BY <2>3 DEF ReaderStep, StartRead, FutureReads, FutureEof, Resume, CancelRead, BoundsInv
        <3>3. eof' \subseteq readers'
            <4>1. eof' = eof \/ (task[r] = "done" /\ eof' = eof \cup {r})
                BY <2>3 DEF ReaderStep, StartRead, FutureReads, FutureEof, Resume, CancelRead
            <4>2. task[r] = "done" => r \in readers
                BY DEF ChunkInv, ChunkOK
            <4>. QED
                BY <2>0, <4>1, <4>2 DEF BoundsInv
        <3>4. \A q \in Readers : Len(chunk'[q]) <= Size
            <4>1. ASSUME NEW n \in 1..Size, FutureReads(r, n) PROVE <3>4
                <5>1. n \in Nat /\ Len(NextBytes(n)) = n /\ n <= Size
                    BY <2>0 DEF NextBytes
                <5>2. \A q \in Readers : chunk'[q] = chunk[q] \/ chunk'[q] = NextBytes(n)
                    BY <4>1 DEF FutureReads
                <5>. QED
                    BY <5>1, <5>2 DEF BoundsInv
            <4>2. CASE StartRead(r) \/ FutureEof(r) \/ Resume(r) \/ CancelRead(r)
                <5>1. \A q \in Readers : chunk'[q] = chunk[q] \/ chunk'[q] = <<>>
                    BY <4>2 DEF StartRead, FutureEof, Resume, CancelRead
                <5>. QED
                    BY <2>0, <5>1 DEF BoundsInv
            <4>. QED
                BY <2>3, <4>1, <4>2 DEF ReaderStep
        <3>. QED
            BY <3>1, <3>2, <3>3, <3>4 DEF BoundsInv
    <2>. QED
        BY <1>2, <2>1, <2>2, <2>3 DEF Next
<1>. QED
    BY <1>1, <1>2

\* Both hold throughout.
LEMMA WindowHolds == Spec => [](IInv /\ StreamInv /\ BoundsInv /\ WindowInv)
<1>1. Init => BoundsInv /\ WindowInv
    <2>. SUFFICES ASSUME Init PROVE BoundsInv /\ WindowInv
        OBVIOUS
    <2>0. Cap \in Nat /\ {Size, MaxBytes, MaxOrphans} \subseteq Nat
        BY PtyIoAssumption DEF PtyIoAssumption
    <2>1. BoundsInv
        BY <2>0 DEF Init, BoundsInv
    <2>2. /\ <<>> = <<>> \o <<>> /\ <<>> \in Seq(Nat) /\ <<>> \in Seq(Seq(Nat)) /\ Len(<<>>) = 0
        OBVIOUS
    <2>3. raw = <<>> /\ rawBytes = 0 /\ fed = <<>>
        BY DEF Init
    <2>4. Joined(raw) = <<>>
        BY <2>3, FlatEmpty DEF Joined
    <2>5. \E before \in Seq(Nat) : fed = before \o Joined(raw)
        BY <2>2, <2>3, <2>4
    <2>6. /\ \A i \in 1..Len(raw) : Len(raw[i]) <= ChunkMax
          /\ Len(Joined(raw)) <= Cap /\ Len(Joined(raw)) = Len(fed)
          /\ Len(Joined(raw)) <= (IF Cap = 0 THEN Size ELSE Cap)
        BY <2>0, <2>2, <2>3, <2>4
    <2>7. WindowInv
        BY <2>2, <2>3, <2>4, <2>5, <2>6 DEF WindowInv
    <2>. QED
        BY <2>1, <2>7
<1>2. IInv /\ BoundsInv /\ WindowInv /\ [Next]_vars => (BoundsInv /\ WindowInv)'
    BY BoundsPreserved, WindowPreserves
<1>. QED
    BY <1>1, <1>2, StreamHolds, PTL DEF Spec

-----------------------------------------------------------------------------
(* The theorems.                                                           *)

\* While nobody cancels a read or lets one time out, every byte that was taken
\* from the kernel is with exactly one reader or has reached the terminal
\* exactly once: PtySession.read() and read_timeout() in __init__.py.
THEOREM StreamConserved == Spec => []BytesConserved
<1>1. ASSUME IInv, StreamInv PROVE BytesConserved
    <2>. SUFFICES ASSUME ~cancels PROVE ByteConserving
        BY DEF BytesConserved
    <2>1. /\ taken \in Nat /\ Len(fed) \in Nat
          /\ fed \in Seq(Nat) /\ DOMAIN fed = 1..Len(fed)
        BY <1>1, Numbers DEF IInv, PathType
    <2>2. /\ InFlight = UNION {{chunk[r][i] : i \in 1..Len(chunk[r])} : r \in Readers}
          /\ ToSet(fed) = {fed[i] : i \in 1..Len(fed)}
        BY <1>1, InFlightIs DEF IInv
    <2>3. ToSet(fed) \cup InFlight = 1..taken
        <3>1. ToSet(fed) \cup InFlight \subseteq 1..taken
            BY <1>1, <2>2, Numbers
        <3>2. 1..taken \subseteq ToSet(fed) \cup InFlight
            BY <1>1, <2>2 DEF StreamInv, CoverInv
        <3>. QED
            BY <3>1, <3>2
    <2>4. ToSet(fed) \cap InFlight = {}
        BY <1>1, <2>2 DEF StreamInv, OnceInv
    <2>5. IsFiniteSet(1..taken) /\ Cardinality(1..taken) = taken
        BY <2>1, IntervalSize
    <2>6. IsFiniteSet(ToSet(fed)) /\ IsFiniteSet(InFlight)
        BY <2>3, <2>5, FS_Subset
    <2>7. Cardinality(ToSet(fed)) = Len(fed)
        <3>1. fed \in Bijection(1..Len(fed), ToSet(fed))
            <4>1. fed \in [1..Len(fed) -> ToSet(fed)]
                BY <2>1, <2>2
            <4>2. IsInjective(fed)
                BY <1>1, <2>1 DEF StreamInv, OnceInv, IsInjective
            <4>3. \A b \in ToSet(fed) : \E i \in 1..Len(fed) : fed[i] = b
                BY <2>2
            <4>. QED
                BY <4>1, <4>2, <4>3, Zenon DEF Bijection, Injection, Surjection
        <3>2. IsFiniteSet(1..Len(fed)) /\ Cardinality(1..Len(fed)) = Len(fed)
            BY <2>1, IntervalSize
        <3>. QED
            <4>1. ExistsBijection(1..Len(fed), ToSet(fed))
                BY <3>1, Zenon DEF ExistsBijection
            <4>. QED
                BY <3>2, <4>1, FS_Bijection
    <2>8. Cardinality(InFlight) \in Nat /\ Cardinality({}) = 0
        BY <2>6, FS_CardinalityType, FS_EmptySet
    <2>9. taken = Len(fed) + Cardinality(InFlight) - 0
        <3>1. Cardinality(ToSet(fed) \cup InFlight) =
                Cardinality(ToSet(fed)) + Cardinality(InFlight) - Cardinality(ToSet(fed) \cap InFlight)
            BY <2>6, FS_Union, Zenon
        <3>. QED
            BY <2>3, <2>4, <2>5, <2>7, <2>8, <3>1, Zenon
    <2>. QED
        BY <2>1, <2>3, <2>8, <2>9 DEF ByteConserving
<1>. QED
    BY <1>1, StreamHolds, PTL

\* A session with one reader feeds its terminal in the order of writing and
\* nothing twice, also around the reads it has cancelled: PtySession.read() and
\* read_timeout() in __init__.py.
THEOREM LoneReaderInOrder == Spec => []SingleReaderInOrder
<1>1. ASSUME IInv, StreamInv PROVE SingleReaderInOrder
    <2>. SUFFICES ASSUME Cardinality(readers) = 1
                  PROVE  /\ \A i, j \in DOMAIN fed : i < j => fed[i] < fed[j]
                         /\ \A i \in DOMAIN fed, b \in InFlight : fed[i] < b
        BY DEF SingleReaderInOrder
    <2>1. readers \subseteq Readers /\ DOMAIN fed = 1..Len(fed)
        BY <1>1 DEF IInv, PathType
    <2>2. IsFiniteSet(readers)
        BY <2>1, FS_Subset, PtyIoAssumption DEF PtyIoAssumption
    <2>3. \A q, r \in readers : q = r
        BY <2>2, FS_Singleton
    <2>4. InFlight = UNION {{chunk[r][i] : i \in 1..Len(chunk[r])} : r \in Readers}
        BY <1>1, InFlightIs DEF IInv
    <2>. QED
        BY <1>1, <2>1, <2>3, <2>4 DEF StreamInv, OrderInv
<1>. QED
    BY <1>1, StreamHolds, PTL

\* A sequence ends with what was appended to it.
LEMMA SuffixOfConcat ==
    ASSUME NEW s \in Seq(Nat), NEW t \in Seq(Nat)
    PROVE  IsSuffix(t, s \o t)
<1>. DEFINE u == s \o t
            rt == Reverse(t)
            ru == Reverse(u)
<1>1. /\ Len(s) \in Nat /\ Len(t) \in Nat /\ u \in Seq(Nat) /\ Len(u) = Len(s) + Len(t)
      /\ \A i \in 1..Len(t) : u[Len(s) + i] = t[i]
    BY ConcatProperties, LenProperties
<1>. HIDE DEF u
<1>2. /\ Len(rt) = Len(t) /\ Len(ru) = Len(u)
      /\ \A i \in 1..Len(t) : rt[i] = t[Len(t) - i + 1]
      /\ \A i \in 1..Len(u) : ru[i] = u[Len(u) - i + 1]
    BY <1>1 DEF Reverse
<1>. HIDE DEF rt, ru
<1>3. ASSUME NEW i \in 1..Len(t) PROVE rt[i] = ru[i]
    <2>1. /\ Len(t) - i + 1 \in 1..Len(t) /\ Len(u) - i + 1 = Len(s) + (Len(t) - i + 1)
          /\ i \in 1..Len(u)
        BY <1>1
    <2>. QED
        BY <1>1, <1>2, <2>1
<1>4. SubSeq(rt, 1, Len(t)) = SubSeq(ru, 1, Len(t))
    BY <1>1, <1>3
<1>5. IsPrefix(rt, ru)
    BY <1>1, <1>2, <1>4 DEF IsPrefix
<1>. QED
    BY <1>5 DEF IsSuffix, rt, ru, u

\* The counter that drives the eviction never parts from the size of the
\* window, and raw_output is the end of what the terminal was fed, less than one
\* read short of what the cap has room for and never beyond it: _record_raw() in
\* __init__.py.  (With a cap of 0 the code keeps the whole of the last read.)
THEOREM WindowIsATail == Spec => []RawIsATail
<1>1. ASSUME IInv, WindowInv PROVE RawIsATail
    <2>. DEFINE size == Len(Joined(raw))
                sure == Cap + 1 - (IF Size < Cap THEN Size ELSE Cap)
    <2>0. Cap \in Nat /\ Size \in Nat
        BY PtyIoAssumption DEF PtyIoAssumption
    <2>1. Joined(raw) \in Seq(Nat) /\ size \in Nat /\ fed \in Seq(Nat) /\ Len(fed) \in Nat
        BY <1>1, JoinedType, LenProperties DEF WindowInv, IInv, PathType
    <2>2. PICK before \in Seq(Nat) : fed = before \o Joined(raw)
        BY <1>1 DEF WindowInv
    <2>3. IsSuffix(Joined(raw), fed)
        BY <2>1, <2>2, SuffixOfConcat
    <2>4. /\ rawBytes = size /\ size <= (IF Cap = 0 THEN Size ELSE Cap)
          /\ Cap > 0 => (size = Len(fed) \/ size + ChunkMax > Cap)
        BY <1>1 DEF WindowInv
    <2>. HIDE DEF size
    <2>5. Cap > 0 => size >= (IF Len(fed) < sure THEN Len(fed) ELSE sure)
        BY <2>0, <2>1, <2>4 DEF ChunkMax
    <2>. QED
        BY <2>3, <2>4, <2>5 DEF RawIsATail, size
<1>. QED
    BY <1>1, WindowHolds, PTL

\* A sequence of different numbers up to n is not longer than n.
LEMMA NoLongerThan ==
    ASSUME NEW n \in Nat, NEW s \in Seq(Nat),
           \A i \in 1..Len(s) : s[i] \in 1..n,
           \A i, j \in 1..Len(s) : i # j => s[i] # s[j]
    PROVE  Len(s) <= n
<1>1. Len(s) \in Nat /\ s \in [1..Len(s) -> 1..n] /\ IsInjective(s)
    BY LenProperties DEF IsInjective
<1>2. s \in Injection(1..Len(s), 1..n)
    BY <1>1 DEF Injection
<1>3. /\ IsFiniteSet(1..Len(s)) /\ Cardinality(1..Len(s)) = Len(s)
      /\ IsFiniteSet(1..n) /\ Cardinality(1..n) = n
    BY <1>1, IntervalSize
<1>4. Cardinality(1..Len(s)) <= Cardinality(1..n)
    BY <1>2, <1>3, FS_Injection DEF ExistsInjection
<1>. QED
    BY <1>3, <1>4

\* A reader has been given b"" only when the child has closed its side and every
\* byte has been taken: read() in platform_unix.rs, for which EIO is the end.
THEOREM EndComesLast == Spec => []EofIsTheEnd
<1>1. ASSUME IInv, StreamInv, BoundsInv, WindowInv PROVE EofIsTheEnd
    <2>0. /\ {Size, MaxBytes, MaxOrphans} \subseteq Nat /\ written \in Nat /\ taken \in 0..written
          /\ written <= MaxBytes /\ orphans \in Nat /\ orphans <= MaxOrphans
        BY <1>1, PtyIoAssumption DEF PtyIoAssumption, IInv, PathType, BoundsInv
    <2>1. \A b \in 1..taken : b \in Bytes
        BY <2>0 DEF Bytes
    <2>2. fed \in BoundedSeq(Bytes, MaxBytes) /\ Len(fed) \in Nat /\ Len(fed) <= MaxBytes
        <3>1. fed \in Seq(Nat) /\ Len(fed) \in Nat
            BY <1>1, LenProperties DEF IInv, PathType
        <3>2. Len(fed) <= taken
            BY <1>1, <2>0, <3>1, NoLongerThan DEF IInv, FedInv, StreamInv, OnceInv
        <3>3. fed \in [1..Len(fed) -> Bytes] /\ Len(fed) \in 0..MaxBytes
            BY <1>1, <2>0, <2>1, <3>1, <3>2, LenProperties, SMTT(30) DEF IInv, FedInv
        <3>. QED
            BY <3>1, <3>3 DEF BoundedSeq, SeqOf
    <2>3. chunk \in [Readers -> BoundedSeq(Bytes, Size)]
        <3>1. ASSUME NEW r \in Readers PROVE chunk[r] \in BoundedSeq(Bytes, Size)
            <4>1. chunk[r] \in Seq(Nat) /\ Len(chunk[r]) \in Nat /\ Len(chunk[r]) <= Size
                BY <1>1, LenProperties DEF IInv, PathType, BoundsInv
            <4>2. chunk[r] \in [1..Len(chunk[r]) -> Bytes] /\ Len(chunk[r]) \in 0..Size
                BY <1>1, <2>0, <2>1, <4>1, LenProperties, SMTT(30) DEF IInv, ChunkInv, ChunkOK
            <4>. QED
                BY <4>2 DEF BoundedSeq, SeqOf
        <3>. QED
            BY <1>1, <3>1 DEF IInv, PathType
    <2>4. rawBytes \in 0..MaxBytes
        <3>1. PICK before \in Seq(Nat) : fed = before \o Joined(raw)
            BY <1>1 DEF WindowInv
        <3>2. Joined(raw) \in Seq(Nat) /\ rawBytes = Len(Joined(raw))
            BY <1>1, JoinedType DEF WindowInv
        <3>3. Len(fed) = Len(before) + rawBytes /\ Len(before) \in Nat /\ rawBytes \in Nat
            BY <3>1, <3>2, ConcatProperties, LenProperties
        <3>. QED
            BY <2>0, <2>2, <3>3
    <2>5. TypeOK
        BY <1>1, <2>0, <2>2, <2>3, <2>4 DEF IInv, PathType, BoundsInv, TypeOK
    <2>. QED
        BY <1>1, <2>5 DEF EofIsTheEnd, IInv, EndInv
<1>. QED
    BY <1>1, WindowHolds, PTL
=============================================================================
