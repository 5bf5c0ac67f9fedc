------------------------------ MODULE EventLog ------------------------------
(***************************************************************************)
(* The event pipeline of the terminal (Screen.events, bell_pending and     *)
(* HistoryScreen.scrollback_grew): parser actions push low-frequency       *)
(* events into a log that drops its oldest entry when full, and a consumer *)
(* drains it whole, or only its bells.                                     *)
(*                                                                         *)
(* The log is a set of events stamped with the order of their arrival: the *)
(* vector only appends at its end, removes at its front and filters, so it *)
(* is always this set sorted by stamp.                                     *)
(***************************************************************************)
EXTENDS Naturals, FiniteSets

CONSTANTS
    MaxEvents,  \* MAX_EVENTS
    MaxClock    \* bound: how many events are pushed
ASSUME EventAssumption == MaxEvents \in Nat \ {0} /\ MaxClock \in Nat

TextKinds == {"title", "icon", "cwd"}
Kinds == TextKinds \cup {"bell", "enter", "exit"}

VARIABLES
    log,          \* Screen.events
    bellPending,  \* Screen.bell_pending
    altScreen,    \* Screen.alt_screen
    grew,         \* HistoryScreen.scrollback_grew, zero or not
    clock,        \* stamp of the newest event ever pushed
    lastBell,     \* stamp of the newest Bell ever pushed
    heard,        \* newest stamp whose bells a consumer was told of or a reset voided
    since         \* what a log without a limit would hold

screenVars == <<log, bellPending, altScreen>>
ghostVars == <<clock, lastBell, heard, since>>
vars == <<screenVars, grew, ghostVars>>

Bells(events) == {e \in events : e.kind = "bell"}

Init ==
    /\ log = {} /\ since = {}
    /\ bellPending = FALSE /\ altScreen = FALSE /\ grew = FALSE
    /\ clock = 0 /\ lastBell = 0 /\ heard = 0

-----------------------------------------------------------------------------
(* The parser's side.                                                      *)

\* Mutant: a full log discards its newest entry.
RoomyDropNewest(events) ==
    IF Cardinality(events) < MaxEvents
    THEN events
    ELSE {e \in events : \E f \in events : f.at > e.at}

\* The log after making room for one more event: a full one loses its oldest.
Roomy(events) ==
    IF Cardinality(events) < MaxEvents
    THEN events
    ELSE {e \in events : \E f \in events : f.at < e.at}

Push(kind) ==
    /\ clock < MaxClock
    /\ clock' = clock + 1
    /\ log' = Roomy(log) \cup {[kind |-> kind, at |-> clock']}
    /\ since' = since \cup {[kind |-> kind, at |-> clock']}

RingBell ==
    /\ Push("bell")
    /\ bellPending' = TRUE
    /\ lastBell' = clock'
    /\ UNCHANGED <<altScreen, grew, heard>>

\* set_title, set_icon_name, set_cwd
SetText(kind) ==
    /\ Push(kind)
    /\ UNCHANGED <<bellPending, altScreen, grew, lastBell, heard>>

\* Mutant: a second ?1049h announces the alternate screen again.
EnterAltAgain ==
    /\ Push("enter")
    /\ altScreen' = TRUE
    /\ UNCHANGED <<bellPending, grew, lastBell, heard>>

EnterAlt ==
    /\ ~altScreen
    /\ Push("enter")
    /\ altScreen' = TRUE
    /\ UNCHANGED <<bellPending, grew, lastBell, heard>>

ExitAlt ==
    /\ altScreen
    /\ Push("exit")
    /\ altScreen' = FALSE
    /\ UNCHANGED <<bellPending, grew, lastBell, heard>>

\* A line enters the scrollback (push_history).
PushHistory ==
    /\ grew' = TRUE
    /\ UNCHANGED <<screenVars, ghostVars>>

\* HistoryScreen::reset; scrollback_grew is not among what it clears.
Reset ==
    /\ log' = {} /\ since' = {}
    /\ bellPending' = FALSE
    /\ altScreen' = FALSE
    /\ heard' = clock
    /\ UNCHANGED <<grew, clock, lastBell>>

-----------------------------------------------------------------------------
(* The consumer's side.                                                    *)

TakeBell ==
    /\ bellPending' = FALSE
    /\ log' = IF bellPending THEN log \ Bells(log) ELSE log
    /\ since' = IF bellPending THEN since \ Bells(since) ELSE since
    /\ heard' = IF bellPending THEN clock ELSE heard
    /\ UNCHANGED <<altScreen, grew, clock, lastBell>>

\* Mutant: the drain forgets the flag.
TakeEventsOnlyLog ==
    /\ log' = {} /\ since' = {}
    /\ heard' = IF Bells(log) # {} THEN clock ELSE heard
    /\ grew' = FALSE
    /\ UNCHANGED <<bellPending, altScreen, clock, lastBell>>

\* poll_events(); the flag goes only when a Bell is among what is drained.
TakeEvents ==
    /\ log' = {} /\ since' = {}
    /\ bellPending' = (bellPending /\ Bells(log) = {})
    /\ heard' = IF Bells(log) # {} THEN clock ELSE heard
    /\ grew' = FALSE
    /\ UNCHANGED <<altScreen, clock, lastBell>>

Next ==
    \/ RingBell
    \/ \E kind \in TextKinds : SetText(kind)
    \/ EnterAlt \/ ExitAlt
    \/ PushHistory
    \/ Reset
    \/ TakeBell
    \/ TakeEvents

Spec == Init /\ [][Next]_vars

-----------------------------------------------------------------------------
Event == [kind : Kinds, at : 1..MaxClock]

TypeOK ==
    /\ log \subseteq Event
    /\ Cardinality(log) <= MaxEvents
    /\ since \subseteq Event
    /\ {bellPending, altScreen, grew} \subseteq BOOLEAN
    /\ {clock, lastBell, heard} \subseteq 0..MaxClock

\* A BEL is reported once: as long as neither path has told the consumer of
\* it (and no reset has voided it) take_bell() will, and no Bell is left in
\* the log for a BEL that take_bell() has already answered for.
BellReportedOnce ==
    /\ bellPending <=> (lastBell > heard)
    /\ \A e \in Bells(log) : e.at > heard

\* The log is lossy at its old end only: whatever is missing from
\* it is older than everything it still holds.
OnlyOldestDropped ==
    /\ log \subseteq since
    /\ \A lost \in since \ log, kept \in log : lost.at < kept.at

\* The alternate-screen events in the log alternate, and the newest of them
\* tells which buffer is on the screen.
AltEventsTell ==
    LET alts == {e \in log : e.kind \in {"enter", "exit"}}
        newest(e) == \A f \in alts : f.at <= e.at
        next(e, f) == e.at < f.at /\ ~\E g \in alts : e.at < g.at /\ g.at < f.at
    IN  /\ \A e \in alts : newest(e) => (altScreen <=> e.kind = "enter")
        /\ \A e, f \in alts : next(e, f) => e.kind # f.kind

=============================================================================
