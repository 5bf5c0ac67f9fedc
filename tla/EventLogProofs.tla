---------------------------- MODULE EventLogProofs ----------------------------
(***************************************************************************)
(* Proofs about EventLog, for a log of any size and any number of events:  *)
(* the four invariants of the run, from one inductive invariant.           *)
(***************************************************************************)
EXTENDS EventLog, FiniteSetTheorems, WellFoundedInduction, TLAPS

\* Stamps are given once and in order, so the log stays a sequence.
StampInv ==
    /\ \A e \in since : e.at <= clock
    /\ \A e, f \in since : e.at = f.at => e = f
    /\ \A e \in Bells(since) : e.at <= lastBell
    /\ lastBell <= clock /\ heard <= clock

IInv == TypeOK /\ IsFiniteSet(log) /\ StampInv /\ BellReportedOnce
            /\ OnlyOldestDropped /\ AltEventsTell

-----------------------------------------------------------------------------
\* The order of the natural numbers, as a relation.
Earlier == {p \in Nat \X Nat : p[1] < p[2]}

\* It has no infinite descent.
LEMMA EarlierWellFounded == IsWellFoundedOn(Earlier, Nat)
  BY NatLessThanWellFounded DEF OpToRel, Earlier

\* Membership in it, for two given numbers.
LEMMA EarlierMeans == \A m, n \in Nat : m < n => <<m, n>> \in Earlier
  BY DEF Earlier

\* A set of stamped events that is not empty has an oldest one.
LEMMA OldestExists ==
    ASSUME NEW S, S # {}, \A e \in S : e.at \in Nat
    PROVE  \E e \in S : \A f \in S : e.at <= f.at
<1> DEFINE T == {e.at : e \in S}
<1>1. T \subseteq Nat /\ T # {}
    OBVIOUS
<1>2. PICK x \in T : \A y \in T : <<y, x>> \notin Earlier
    <2> HIDE DEF T
    <2>. QED
        BY <1>1, EarlierWellFounded, WFMin
<1>3. ASSUME NEW y \in T PROVE x <= y
    <2>1. x \in Nat /\ y \in Nat
        BY <1>1
    <2>2. <<y, x>> \notin Earlier
        BY <1>2
    <2>. QED
        BY <2>1, <2>2, EarlierMeans
<1>. QED
    BY <1>1, <1>3

\* Making room keeps part of the log, drops only what is older than the rest,
\* and leaves room for one more.
LEMMA RoomMade ==
    ASSUME NEW S \in SUBSET Event, IsFiniteSet(S), Cardinality(S) <= MaxEvents
    PROVE  /\ Roomy(S) \subseteq S
           /\ IsFiniteSet(Roomy(S))
           /\ Cardinality(Roomy(S)) < MaxEvents
           /\ \A lost \in S \ Roomy(S), kept \in S : lost.at <= kept.at
           /\ \A lost \in S \ Roomy(S), kept \in Roomy(S) : lost.at < kept.at
<1> USE EventAssumption
<1>1. Cardinality(S) \in Nat
    BY FS_CardinalityType
<1>2. \A e \in S : e.at \in Nat
    BY DEF Event
<1>3. CASE Cardinality(S) < MaxEvents
    BY <1>3 DEF Roomy
<1>4. CASE ~(Cardinality(S) < MaxEvents)
    <2>1. Roomy(S) = {e \in S : \E f \in S : f.at < e.at}
        BY <1>4 DEF Roomy
    <2>2. S # {}
        BY <1>4, FS_EmptySet
    <2>3. PICK m \in S : \A f \in S : m.at <= f.at
        BY <2>2, <1>2, OldestExists
    <2>4. Roomy(S) \subseteq S \ {m}
        BY <2>1, <2>3, <1>2
    <2>5. IsFiniteSet(S \ {m}) /\ Cardinality(S \ {m}) = Cardinality(S) - 1
        BY FS_RemoveElement
    <2>6. IsFiniteSet(Roomy(S)) /\ Cardinality(Roomy(S)) <= Cardinality(S \ {m})
        BY <2>4, <2>5, FS_Subset
    <2>7. Cardinality(Roomy(S)) \in Nat
        BY <2>6, FS_CardinalityType
    <2>. QED
        BY <1>1, <1>2, <2>1, <2>5, <2>6, <2>7
<1>. QED
    BY <1>3, <1>4

\* The state after a push, in terms of what the invariant speaks of.
LEMMA Pushed ==
    ASSUME IInv, NEW kind \in Kinds, Push(kind)
    PROVE  \E new \in Event :
               /\ new = [kind |-> kind, at |-> clock + 1]
               /\ clock' = clock + 1 /\ clock' \in 0..MaxClock
               /\ log' = Roomy(log) \cup {new} /\ since' = since \cup {new}
               /\ log' \subseteq Event /\ since' \subseteq Event
               /\ IsFiniteSet(log') /\ Cardinality(log') <= MaxEvents
<1> USE EventAssumption
<1> DEFINE new == [kind |-> kind, at |-> clock + 1]
<1>1. /\ clock' = clock + 1 /\ clock + 1 \in 1..MaxClock
      /\ log' = Roomy(log) \cup {new} /\ since' = since \cup {new}
    BY DEF Push, IInv, TypeOK
<1>2. new \in Event
    BY <1>1 DEF Event
<1>3. /\ Roomy(log) \subseteq log /\ IsFiniteSet(Roomy(log))
      /\ Cardinality(Roomy(log)) < MaxEvents
    BY RoomMade DEF IInv, TypeOK
<1>4. Cardinality(Roomy(log)) \in Nat
    BY <1>3, FS_CardinalityType
<1>5. /\ IsFiniteSet(Roomy(log) \cup {new})
      /\ Cardinality(Roomy(log) \cup {new}) <= Cardinality(Roomy(log)) + 1
    <2> HIDE DEF new
    <2>1. /\ IsFiniteSet(Roomy(log) \cup {new})
          /\ Cardinality(Roomy(log) \cup {new}) =
                IF new \in Roomy(log) THEN Cardinality(Roomy(log)) ELSE Cardinality(Roomy(log)) + 1
        BY <1>3, FS_AddElement, Zenon
    <2>. QED
        BY <1>4, <2>1
<1>6. Cardinality(log') <= MaxEvents
    <2>1. Cardinality(Roomy(log) \cup {new}) \in Nat
        BY <1>5, FS_CardinalityType
    <2>. QED
        BY <1>1, <1>3, <1>4, <1>5, <2>1
<1>7. log' \subseteq Event /\ since' \subseteq Event
    BY <1>1, <1>2, <1>3 DEF IInv, TypeOK
<1>. QED
    BY <1>1, <1>2, <1>5, <1>6, <1>7

-----------------------------------------------------------------------------
\* Initially the log is empty and nobody was told anything.
LEMMA InitEstablishes == Init => IInv
<1> SUFFICES ASSUME Init
             PROVE  IInv
    OBVIOUS
<1>1. IsFiniteSet(log) /\ Cardinality(log) = 0
    BY FS_EmptySet DEF Init
<1>2. TypeOK
    <2>1. {bellPending, altScreen, grew} \subseteq BOOLEAN
        BY DEF Init
    <2>2. {clock, lastBell, heard} \subseteq 0..MaxClock
        BY EventAssumption DEF Init
    <2>3. Cardinality(log) <= MaxEvents
        BY <1>1, EventAssumption
    <2>. QED
        BY <2>1, <2>2, <2>3 DEF Init, TypeOK
<1>3. StampInv
    BY DEF Init, StampInv, Bells
<1>4. BellReportedOnce
    BY DEF Init, BellReportedOnce, Bells
<1>5. OnlyOldestDropped /\ AltEventsTell
    BY DEF Init, OnlyOldestDropped, AltEventsTell
<1>. QED
    BY <1>1, <1>2, <1>3, <1>4, <1>5 DEF IInv

\* A push of any kind keeps the stamps in order and loses only old events.
LEMMA PushKeepsOrder ==
    ASSUME IInv, NEW kind \in Kinds, Push(kind)
    PROVE  /\ OnlyOldestDropped'
           /\ \A e \in since' : e.at <= clock'
           /\ \A e, f \in since' : e.at = f.at => e = f
           /\ lastBell <= clock' /\ heard <= clock' /\ clock' > clock
<1>1. PICK new \in Event :
          /\ new = [kind |-> kind, at |-> clock + 1]
          /\ clock' = clock + 1
          /\ log' = Roomy(log) \cup {new} /\ since' = since \cup {new}
    BY Pushed
<1>2. /\ Roomy(log) \subseteq log
      /\ \A lost \in log \ Roomy(log), kept \in Roomy(log) : lost.at < kept.at
    BY RoomMade DEF IInv, TypeOK
<1>3. new.at = clock + 1
    BY <1>1
<1>4. \A e \in since : e.at \in Nat /\ e.at < new.at
    BY <1>3 DEF IInv, TypeOK, StampInv, Event
<1>5. clock \in Nat /\ lastBell \in Nat /\ heard \in Nat
    BY DEF IInv, TypeOK
<1>6. OnlyOldestDropped'
    <2>1. log' \subseteq since'
        BY <1>1, <1>2 DEF IInv, OnlyOldestDropped
    <2>2. ASSUME NEW lost \in since' \ log', NEW kept \in log'
          PROVE  lost.at < kept.at
        <3>1. lost \in since /\ lost \notin Roomy(log)
            BY <1>1, <2>2
        <3>2. CASE kept = new
            BY <3>1, <3>2, <1>4
        <3>3. CASE kept \in Roomy(log)
            BY <3>1, <3>3, <1>2 DEF IInv, OnlyOldestDropped
        <3>. QED
            BY <1>1, <3>2, <3>3
    <2>. QED
        BY <2>1, <2>2 DEF OnlyOldestDropped
<1>7. \A e \in since' : e.at <= clock'
    BY <1>1, <1>3, <1>4, <1>5
<1>8. \A e, f \in since' : e.at = f.at => e = f
    BY <1>1, <1>4 DEF IInv, StampInv
<1>. QED
    BY <1>1, <1>5, <1>6, <1>7, <1>8 DEF IInv, StampInv

-----------------------------------------------------------------------------
(* The alternate-screen events of a log and the buffer they lead to.       *)

Alts(events) == {e \in events : e.kind \in {"enter", "exit"}}
Newest(e, S) == \A f \in S : f.at <= e.at
Adjacent(e, f, S) == e.at < f.at /\ ~\E g \in S : e.at < g.at /\ g.at < f.at
Tell(S, onAlt) ==
    /\ \A e \in S : Newest(e, S) => (onAlt <=> e.kind = "enter")
    /\ \A e, f \in S : Adjacent(e, f, S) => e.kind # f.kind

\* What AltEventsTell says of the log is what Tell says of its alternate events.
LEMMA TellIsAltEventsTell == AltEventsTell <=> Tell(Alts(log), altScreen)
  BY DEF AltEventsTell, Tell, Alts, Newest, Adjacent

\* Losing old events does not make the others wrong.
LEMMA TellAfterLoss ==
    ASSUME NEW S, NEW T \in SUBSET S, NEW onAlt, Tell(S, onAlt),
           \A e \in S : e.at \in Nat,
           \A lost \in S \ T, kept \in S : lost.at <= kept.at
    PROVE  Tell(T, onAlt)
<1>1. ASSUME NEW e \in T, Newest(e, T)
      PROVE  Newest(e, S)
    BY <1>1 DEF Newest
<1>2. ASSUME NEW e \in T, NEW f \in T, Adjacent(e, f, T)
      PROVE  Adjacent(e, f, S)
    BY <1>2 DEF Adjacent
<1>. QED
    BY <1>1, <1>2 DEF Tell

\* An event that switches the buffer keeps them right when it comes last.
LEMMA TellAfterSwitch ==
    ASSUME NEW S, NEW was \in BOOLEAN, NEW is \in BOOLEAN, Tell(S, was), NEW new,
           \A e \in S : e.at \in Nat /\ e.at < new.at, new.at \in Nat,
           \A e \in S \cup {new} : e.kind \in {"enter", "exit"},
           was <=> new.kind = "exit",
           is <=> new.kind = "enter"
    PROVE  Tell(S \cup {new}, is)
<1>1. ASSUME NEW e \in S \cup {new}, Newest(e, S \cup {new})
      PROVE  e = new
    BY <1>1 DEF Newest
<1>2. ASSUME NEW e \in S \cup {new}, NEW f \in S \cup {new}, Adjacent(e, f, S \cup {new})
      PROVE  e.kind # f.kind
    <2>1. e \in S
        BY <1>2 DEF Adjacent
    <2>2. CASE f \in S
        BY <1>2, <2>1, <2>2 DEF Adjacent, Tell
    <2>3. CASE f = new
        <3>1. Newest(e, S)
            BY <1>2, <2>1, <2>3 DEF Adjacent, Newest
        <3>. QED
            BY <2>1, <2>3, <3>1 DEF Tell
    <2>. QED
        BY <2>2, <2>3
<1>. QED
    BY <1>1, <1>2 DEF Tell

\* The three kinds of push, and what they do to the alternate-screen events.
LEMMA PushKeepsTell ==
    ASSUME IInv, NEW kind \in Kinds, Push(kind),
           altScreen' = IF kind = "enter" THEN TRUE
                        ELSE IF kind = "exit" THEN FALSE ELSE altScreen,
           kind = "enter" => ~altScreen,
           kind = "exit" => altScreen
    PROVE  AltEventsTell'
<1>1. PICK new \in Event :
          /\ new = [kind |-> kind, at |-> clock + 1]
          /\ log' = Roomy(log) \cup {new}
    BY Pushed
<1>2. /\ Roomy(log) \subseteq log
      /\ \A lost \in log \ Roomy(log), kept \in log : lost.at <= kept.at
    BY RoomMade DEF IInv, TypeOK
<1>3. new.at = clock + 1 /\ new.kind = kind /\ clock \in Nat
    BY <1>1 DEF IInv, TypeOK
<1>4. \A e \in log : e.at \in Nat /\ e.at < new.at
    BY <1>3 DEF IInv, TypeOK, StampInv, OnlyOldestDropped, Event
<1>5. altScreen \in BOOLEAN
    BY DEF IInv, TypeOK
<1> DEFINE kept == Alts(Roomy(log))
<1>6. /\ kept \in SUBSET Alts(log)
      /\ \A e \in Alts(log) : e \in log /\ e.at \in Nat
      /\ \A lost \in Alts(log) \ kept : lost \in log \ Roomy(log)
    BY <1>2, <1>4 DEF Alts
<1>7. \A lost \in Alts(log) \ kept, e \in Alts(log) : lost.at <= e.at
    BY <1>2, <1>6
<1>8. Tell(Alts(log), altScreen)
    BY TellIsAltEventsTell DEF IInv
<1>9. Tell(kept, altScreen)
    <2> HIDE DEF kept
    <2>. QED
        BY <1>6, <1>7, <1>8, TellAfterLoss
<1>10. (AltEventsTell <=> Tell(Alts(log), altScreen))'
    BY DEF AltEventsTell, Tell, Alts, Newest, Adjacent
<1>11. CASE kind \in {"enter", "exit"}
    <2>1. Alts(log') = kept \cup {new}
        BY <1>1, <1>3, <1>11 DEF Alts
    <2>2. /\ altScreen' \in BOOLEAN
          /\ altScreen <=> new.kind = "exit"
          /\ altScreen' <=> new.kind = "enter"
        BY <1>3, <1>5, <1>11
    <2>3. \A e \in kept : e.at \in Nat /\ e.at < new.at
        BY <1>2, <1>4 DEF Alts
    <2>4. \A e \in kept \cup {new} : e.kind \in {"enter", "exit"}
        BY <1>3, <1>11 DEF Alts
    <2>5. new.at \in Nat
        BY <1>3
    <2>6. Tell(kept \cup {new}, altScreen')
        <3> HIDE DEF kept
        <3>. QED
            BY <1>5, <1>9, <2>2, <2>3, <2>4, <2>5, TellAfterSwitch, Zenon
    <2>. QED
        BY <1>10, <2>1, <2>6
<1>12. CASE kind \notin {"enter", "exit"}
    <2>1. Alts(log') = kept
        BY <1>1, <1>3, <1>12 DEF Alts
    <2>2. altScreen' = altScreen
        BY <1>5, <1>12
    <2>. QED
        BY <1>9, <1>10, <2>1, <2>2
<1>. QED
    BY <1>11, <1>12

-----------------------------------------------------------------------------
\* A push keeps everything but what is said of bells and of the buffer.
LEMMA PushKeepsRest ==
    ASSUME IInv, NEW kind \in Kinds, Push(kind), altScreen' \in BOOLEAN,
           bellPending' \in BOOLEAN, grew' = grew, heard' = heard,
           lastBell' \in {lastBell, clock'}
    PROVE  TypeOK' /\ IsFiniteSet(log)' /\ OnlyOldestDropped'
<1>1. /\ clock' \in 0..MaxClock
      /\ log' \subseteq Event /\ since' \subseteq Event
      /\ IsFiniteSet(log') /\ Cardinality(log') <= MaxEvents
    BY Pushed
<1>2. {bellPending, altScreen, grew}' \subseteq BOOLEAN
    BY DEF IInv, TypeOK
<1>3. {clock, lastBell, heard}' \subseteq 0..MaxClock
    BY <1>1 DEF IInv, TypeOK
<1>4. Event' = Event
    BY DEF Event, Kinds, TextKinds
<1>5. TypeOK'
    BY <1>1, <1>2, <1>3, <1>4 DEF TypeOK
<1>. QED
    BY <1>1, <1>5, PushKeepsOrder

\* Of bells, a push of another kind changes nothing.
LEMMA OtherPushKeepsBells ==
    ASSUME IInv, NEW kind \in Kinds \ {"bell"}, Push(kind),
           UNCHANGED <<bellPending, lastBell, heard>>
    PROVE  BellReportedOnce' /\ StampInv'
<1>1. PICK new \in Event :
          /\ new = [kind |-> kind, at |-> clock + 1]
          /\ clock' = clock + 1
          /\ log' = Roomy(log) \cup {new} /\ since' = since \cup {new}
    BY Pushed
<1>2. Roomy(log) \subseteq log
    BY RoomMade DEF IInv, TypeOK
<1>3. new.kind # "bell"
    BY <1>1
<1>4. Bells(log') \subseteq Bells(log) /\ Bells(since') = Bells(since)
    BY <1>1, <1>2, <1>3 DEF Bells
<1>5. BellReportedOnce'
    BY <1>4 DEF IInv, BellReportedOnce, Bells
<1>6. StampInv'
    BY <1>4, PushKeepsOrder DEF IInv, StampInv, Bells
<1>. QED
    BY <1>5, <1>6

\* A bell is the newest event there is, and unreported.
LEMMA BellPushKeepsBells ==
    ASSUME IInv, RingBell
    PROVE  BellReportedOnce' /\ StampInv'
<1>1. Push("bell") /\ "bell" \in Kinds
    BY DEF RingBell, Kinds
<1>2. PICK new \in Event :
          /\ new = [kind |-> "bell", at |-> clock + 1]
          /\ clock' = clock + 1
          /\ log' = Roomy(log) \cup {new} /\ since' = since \cup {new}
    BY <1>1, Pushed
<1>3. Roomy(log) \subseteq log
    BY RoomMade DEF IInv, TypeOK
<1>4. new.at = clock + 1
    BY <1>2
<1>5. lastBell' = clock + 1 /\ heard' = heard /\ bellPending'
    BY <1>2 DEF RingBell
<1>6. clock \in Nat /\ heard \in Nat /\ heard <= clock
    BY DEF IInv, TypeOK, StampInv
<1>7. \A e \in Bells(log') : e.at > heard
    <2>1. \A e \in Bells(log) : e.at > heard
        BY DEF IInv, BellReportedOnce
    <2>. QED
        BY <1>2, <1>3, <1>4, <1>6, <2>1 DEF Bells
<1>8. BellReportedOnce'
    <2>1. lastBell' > heard'
        BY <1>5, <1>6
    <2>2. \A e \in Bells(log)' : e.at > heard'
        BY <1>5, <1>7 DEF Bells
    <2>. QED
        BY <1>5, <2>1, <2>2 DEF BellReportedOnce
<1>9. /\ \A e \in since' : e.at <= clock'
      /\ \A e, f \in since' : e.at = f.at => e = f
    BY <1>1, PushKeepsOrder
<1>10. StampInv'
    BY <1>2, <1>5, <1>6, <1>9 DEF StampInv, Bells
<1>. QED
    BY <1>8, <1>10

\* An emptied log agrees with everything that is said of it.
LEMMA EmptiedKeeps ==
    ASSUME IInv, log' = {}, since' = {}, clock' = clock, lastBell' = lastBell,
           heard' \in {heard, clock}, bellPending' \in BOOLEAN,
           altScreen' \in BOOLEAN, grew' \in BOOLEAN,
           bellPending' <=> (lastBell > heard')
    PROVE  IInv'
<1>1. IsFiniteSet(log') /\ Cardinality(log') = 0
    BY FS_EmptySet
<1>2. /\ {clock, lastBell, heard} \subseteq Nat
      /\ {clock, lastBell, heard}' \subseteq 0..MaxClock
      /\ lastBell <= clock /\ heard <= clock
    BY DEF IInv, TypeOK, StampInv
<1>3. TypeOK'
    <2>1. {bellPending, altScreen, grew}' \subseteq BOOLEAN
        OBVIOUS
    <2>2. Cardinality(log') <= MaxEvents
        BY <1>1, EventAssumption
    <2>. QED
        BY <1>2, <2>1, <2>2 DEF TypeOK
<1>4. StampInv'
    BY <1>2 DEF StampInv, Bells
<1>5. BellReportedOnce'
    BY DEF BellReportedOnce, Bells
<1>6. OnlyOldestDropped' /\ AltEventsTell'
    BY DEF OnlyOldestDropped, AltEventsTell
<1>. QED
    BY <1>1, <1>3, <1>4, <1>5, <1>6 DEF IInv

\* The drain empties the log; the flag goes when a Bell was in it.
LEMMA TakeEventsKeeps ==
    ASSUME IInv, TakeEvents
    PROVE  IInv'
<1>1. /\ log' = {} /\ since' = {} /\ clock' = clock /\ lastBell' = lastBell
      /\ altScreen' = altScreen /\ grew' = FALSE
      /\ bellPending' = (bellPending /\ Bells(log) = {})
      /\ heard' = IF Bells(log) # {} THEN clock ELSE heard
    BY DEF TakeEvents
<1>2. /\ altScreen \in BOOLEAN /\ bellPending \in BOOLEAN
      /\ clock \in Nat /\ lastBell \in Nat
      /\ lastBell <= clock /\ (bellPending <=> lastBell > heard)
    BY DEF IInv, TypeOK, StampInv, BellReportedOnce
<1>3. bellPending' <=> (lastBell > heard')
    <2>1. CASE Bells(log) = {}
        BY <1>1, <1>2, <2>1
    <2>2. CASE Bells(log) # {}
        <3>1. ~bellPending' /\ heard' = clock
            BY <1>1, <2>2
        <3>2. ~(lastBell > clock)
            BY <1>2
        <3>. QED
            BY <3>1, <3>2
    <2>. QED
        BY <2>1, <2>2
<1>4. /\ bellPending' \in BOOLEAN /\ altScreen' \in BOOLEAN /\ grew' \in BOOLEAN
      /\ heard' \in {heard, clock}
    BY <1>1, <1>2
<1>. QED
    BY <1>1, <1>3, <1>4, EmptiedKeeps

\* take_bell() removes the Bells and nothing else.
LEMMA TakeBellKeeps ==
    ASSUME IInv, TakeBell
    PROVE  IInv'
<1>1. /\ UNCHANGED <<altScreen, grew, clock, lastBell>> /\ bellPending' = FALSE
    BY DEF TakeBell
<1>2. CASE bellPending
    <2>1. /\ log' = log \ Bells(log) /\ since' = since \ Bells(since) /\ heard' = clock
        BY <1>2 DEF TakeBell
    <2>2. log' \subseteq log /\ since' \subseteq since /\ Bells(log') = {} /\ Bells(since') = {}
        BY <2>1 DEF Bells
    <2>3. TypeOK' /\ IsFiniteSet(log)'
        <3>1. IsFiniteSet(log') /\ Cardinality(log') <= Cardinality(log)
            BY <2>2, FS_Subset DEF IInv
        <3>2. Cardinality(log') \in Nat /\ Cardinality(log) \in Nat /\ Cardinality(log) <= MaxEvents
            BY <3>1, FS_CardinalityType DEF IInv, TypeOK
        <3>3. Cardinality(log') <= MaxEvents
            BY <3>1, <3>2, EventAssumption
        <3>4. {bellPending, altScreen, grew}' \subseteq BOOLEAN
            <4>1. altScreen \in BOOLEAN /\ grew \in BOOLEAN
                BY DEF IInv, TypeOK
            <4>. QED
                BY <1>1, <4>1
        <3>5. {clock, lastBell, heard}' \subseteq 0..MaxClock
            BY <1>1, <2>1 DEF IInv, TypeOK
        <3>6. log' \subseteq Event /\ since' \subseteq Event
            BY <2>2 DEF IInv, TypeOK
        <3>. QED
            BY <3>1, <3>3, <3>4, <3>5, <3>6 DEF TypeOK, Event, Kinds, TextKinds
    <2>4. clock \in Nat /\ lastBell \in Nat /\ lastBell <= clock
        BY DEF IInv, TypeOK, StampInv
    <2>5. StampInv'
        BY <1>1, <2>1, <2>2, <2>4 DEF IInv, StampInv, Bells
    <2>6. BellReportedOnce'
        BY <1>1, <2>1, <2>2, <2>4 DEF BellReportedOnce
    <2>7. OnlyOldestDropped'
        BY <2>1 DEF IInv, OnlyOldestDropped, Bells
    <2>8. AltEventsTell'
        <3>1. Alts(log') = Alts(log)
            BY <2>1 DEF Alts, Bells
        <3>2. (AltEventsTell <=> Tell(Alts(log), altScreen))'
            BY DEF AltEventsTell, Tell, Alts, Newest, Adjacent
        <3>. QED
            BY <1>1, <3>1, <3>2, TellIsAltEventsTell DEF IInv
    <2>. QED
        BY <2>3, <2>5, <2>6, <2>7, <2>8 DEF IInv
<1>3. CASE ~bellPending
    <2>1. UNCHANGED <<log, since, heard>>
        BY <1>3 DEF TakeBell
    <2>2. TypeOK'
        BY <1>1, <2>1 DEF IInv, TypeOK, Event, Kinds, TextKinds
    <2>. QED
        BY <1>1, <1>3, <2>1, <2>2
        DEF IInv, StampInv, BellReportedOnce, OnlyOldestDropped, AltEventsTell, Bells
<1>. QED
    BY <1>2, <1>3

\* Every step keeps the invariant.
LEMMA NextPreserves == IInv /\ [Next]_vars => IInv'
<1> SUFFICES ASSUME IInv, [Next]_vars
             PROVE  IInv'
    OBVIOUS
<1>1. CASE RingBell
    <2>1. Push("bell") /\ "bell" \in Kinds
        BY <1>1 DEF RingBell, Kinds
    <2>2. /\ altScreen' = altScreen /\ altScreen \in BOOLEAN
          /\ bellPending' \in BOOLEAN /\ grew' = grew /\ heard' = heard
          /\ lastBell' = clock'
        BY <1>1 DEF RingBell, IInv, TypeOK
    <2>3. TypeOK' /\ IsFiniteSet(log)' /\ OnlyOldestDropped'
        BY <2>1, <2>2, PushKeepsRest
    <2>4. AltEventsTell'
        BY <2>1, <2>2, PushKeepsTell
    <2>. QED
        BY <1>1, <2>3, <2>4, BellPushKeepsBells DEF IInv
<1>2. ASSUME NEW kind \in TextKinds, SetText(kind) PROVE IInv'
    <2>1. Push(kind) /\ kind \in Kinds \ {"bell"} /\ kind \notin {"enter", "exit"}
        BY <1>2 DEF SetText, Kinds, TextKinds
    <2>2. /\ altScreen' = altScreen /\ altScreen \in BOOLEAN
          /\ bellPending' = bellPending /\ bellPending \in BOOLEAN
          /\ grew' = grew /\ heard' = heard /\ lastBell' = lastBell
        BY <1>2 DEF SetText, IInv, TypeOK
    <2>3. TypeOK' /\ IsFiniteSet(log)' /\ OnlyOldestDropped'
        BY <2>1, <2>2, PushKeepsRest
    <2>4. AltEventsTell'
        BY <2>1, <2>2, PushKeepsTell
    <2>. QED
        BY <2>1, <2>2, <2>3, <2>4, OtherPushKeepsBells DEF IInv
<1>3. CASE EnterAlt
    <2>1. Push("enter") /\ "enter" \in Kinds \ {"bell"} /\ ~altScreen /\ altScreen' = TRUE
        BY <1>3 DEF EnterAlt, Kinds
    <2>2. /\ altScreen' \in BOOLEAN /\ bellPending' = bellPending /\ bellPending \in BOOLEAN
          /\ grew' = grew /\ heard' = heard /\ lastBell' = lastBell
        BY <1>3 DEF EnterAlt, IInv, TypeOK
    <2>3. TypeOK' /\ IsFiniteSet(log)' /\ OnlyOldestDropped'
        BY <2>1, <2>2, PushKeepsRest
    <2>4. AltEventsTell'
        BY <1>3, <2>1, PushKeepsTell DEF EnterAlt
    <2>. QED
        BY <2>1, <2>2, <2>3, <2>4, OtherPushKeepsBells DEF IInv
<1>4. CASE ExitAlt
    <2>1. Push("exit") /\ "exit" \in Kinds \ {"bell"} /\ altScreen /\ altScreen' = FALSE
        BY <1>4 DEF ExitAlt, Kinds
    <2>2. /\ altScreen' \in BOOLEAN /\ bellPending' = bellPending /\ bellPending \in BOOLEAN
          /\ grew' = grew /\ heard' = heard /\ lastBell' = lastBell
        BY <1>4 DEF ExitAlt, IInv, TypeOK
    <2>3. TypeOK' /\ IsFiniteSet(log)' /\ OnlyOldestDropped'
        BY <2>1, <2>2, PushKeepsRest
    <2>4. AltEventsTell'
        BY <1>4, <2>1, PushKeepsTell DEF ExitAlt
    <2>. QED
        BY <2>1, <2>2, <2>3, <2>4, OtherPushKeepsBells DEF IInv
<1>5. CASE PushHistory
    <2>1. UNCHANGED <<log, bellPending, altScreen, clock, lastBell, heard, since>> /\ grew' = TRUE
        BY <1>5 DEF PushHistory, screenVars, ghostVars
    <2>2. TypeOK'
        BY <2>1 DEF IInv, TypeOK, Event, Kinds, TextKinds
    <2>. QED
        BY <2>1, <2>2 DEF IInv, StampInv, BellReportedOnce, OnlyOldestDropped, AltEventsTell, Bells
<1>6. CASE Reset
    <2>1. /\ log' = {} /\ since' = {} /\ bellPending' = FALSE /\ altScreen' = FALSE
          /\ heard' = clock /\ clock' = clock /\ lastBell' = lastBell /\ grew' = grew
        BY <1>6 DEF Reset
    <2>2. /\ lastBell <= clock /\ lastBell \in Nat /\ clock \in Nat
          /\ grew \in BOOLEAN
        BY DEF IInv, TypeOK, StampInv
    <2>3. bellPending' <=> (lastBell > heard')
        BY <2>1, <2>2
    <2>. QED
        BY <2>1, <2>2, <2>3, EmptiedKeeps
<1>7. CASE TakeBell
    BY <1>7, TakeBellKeeps
<1>8. CASE TakeEvents
    BY <1>8, TakeEventsKeeps
<1>9. CASE UNCHANGED vars
    <2>1. UNCHANGED <<log, bellPending, altScreen, grew, clock, lastBell, heard, since>>
        BY <1>9 DEF vars, screenVars, ghostVars
    <2>2. TypeOK'
        BY <2>1 DEF IInv, TypeOK, Event, Kinds, TextKinds
    <2>. QED
        BY <2>1, <2>2 DEF IInv, StampInv, BellReportedOnce, OnlyOldestDropped, AltEventsTell, Bells
<1>. QED
    BY <1>1, <1>2, <1>3, <1>4, <1>5, <1>6, <1>7, <1>8, <1>9 DEF Next

\* The invariant holds in every reachable state.
THEOREM Invariant == Spec => []IInv
<1>1. Init => IInv
    BY InitEstablishes
<1>2. IInv /\ [Next]_vars => IInv'
    BY NextPreserves
<1>. QED
    BY <1>1, <1>2, PTL DEF Spec

\* The log never exceeds its limit, and every variable has its type.
THEOREM TypeCorrect == Spec => []TypeOK
<1>1. IInv => TypeOK
    BY DEF IInv
<1>. QED
    BY <1>1, Invariant, PTL

\* Every BEL reaches the consumer once, by take_bell() or by the drain.
THEOREM BellsOnce == Spec => []BellReportedOnce
<1>1. IInv => BellReportedOnce
    BY DEF IInv
<1>. QED
    BY <1>1, Invariant, PTL

\* A full log loses what is older than everything it keeps.
THEOREM LossIsOldest == Spec => []OnlyOldestDropped
<1>1. IInv => OnlyOldestDropped
    BY DEF IInv
<1>. QED
    BY <1>1, Invariant, PTL

\* The alternate-screen events left in the log alternate and end with the truth.
THEOREM AltEventsAreTrue == Spec => []AltEventsTell
<1>1. IInv => AltEventsTell
    BY DEF IInv
<1>. QED
    BY <1>1, Invariant, PTL
==============================================================================
