--------------------------- MODULE RenditionProofs ---------------------------
(***************************************************************************)
(* Proofs about Rendition, for any sets of modes, renditions, reports and  *)
(* keyboard modes and any number of sequences: flags and effects part only *)
(* where a whole state is put back, and the alternate screen keeps the pen *)
(* of a program that enters and leaves by ?1049; what SGR groups mean, for *)
(* any number of groups, and that every directory arrives, for any path    *)
(* and any limits of the parser that its report stays within.              *)
(***************************************************************************)
EXTENDS Rendition, SequenceFacts, FiniteSetTheorems, TLAPS

\* What was there when the buffer was switched is still parked.
ParkedInv ==
    entered # <<>> => altScreen /\ altCursor = entered /\ entered = <<entered[1]>>

-----------------------------------------------------------------------------
\* Where the buffers are switched, and where not.
LEMMA AltSteps ==
    ASSUME NEW mode \in PrivateModes
    PROVE  /\ SetPrivateMode(mode) => UNCHANGED alt \/ EnterAlt(mode = Alt1049)
           /\ ResetPrivateMode(mode) => UNCHANGED alt \/ ExitAlt(mode = Alt1049)
<1>. QED
    BY DEF SetPrivateMode, ResetPrivateMode

\* The other steps that leave flags and effects as they are.
Apart ==
    \/ SaveCursor \/ ShiftIn \/ ShiftOut
    \/ \E mode \in {4, 20, 99} : SetPublicMode(mode) \/ ResetPublicMode(mode)
    \/ \E params \in SgrLists : SetRendition(params)
    \/ \E code \in {"B", "0", "Z"}, target \in {"(", ")", "*"} : DefineCharset(code, target)
    \/ \E params \in OscReports : OscDispatch(params)
    \/ \E id \in 0..7 : SetCursorStyle(id)
    \/ \E mode \in KeyboardModes :
          \/ PushKeyboardMode(mode)
          \/ \E behavior \in {"replace", "union", "difference"} : SetKeyboardMode(mode, behavior)
    \/ \E count \in 0..2 : PopKeyboardModes(count)

\* They do.
LEMMA ApartSteps ==
    ASSUME Apart
    PROVE  UNCHANGED <<hidden, blankReverse, private, alt>>
<1>. USE DEF cursor, modes
<1>1. CASE SaveCursor \/ ShiftIn \/ ShiftOut
    BY <1>1 DEF SaveCursor, ShiftIn, ShiftOut
<1>2. CASE \E mode \in {4, 20, 99} : SetPublicMode(mode) \/ ResetPublicMode(mode)
    BY <1>2 DEF SetPublicMode, ResetPublicMode
<1>3. CASE \/ \E params \in SgrLists : SetRendition(params)
           \/ \E params \in OscReports : OscDispatch(params)
    BY <1>3 DEF SetRendition, OscDispatch
<1>4. CASE \E code \in {"B", "0", "Z"}, target \in {"(", ")", "*"} : DefineCharset(code, target)
    BY <1>4 DEF DefineCharset
<1>5. CASE \E id \in 0..7 : SetCursorStyle(id)
    BY <1>5 DEF SetCursorStyle
<1>6. CASE \E mode \in KeyboardModes :
              \/ PushKeyboardMode(mode)
              \/ \E behavior \in {"replace", "union", "difference"} : SetKeyboardMode(mode, behavior)
    BY <1>6 DEF PushKeyboardMode, SetKeyboardMode
<1>7. CASE \E count \in 0..2 : PopKeyboardModes(count)
    BY <1>7 DEF PopKeyboardModes
<1>. QED
    BY <1>1, <1>2, <1>3, <1>4, <1>5, <1>6, <1>7 DEF Apart

\* Every step is one of those, or one of these.
LEMMA StepKinds ==
    ASSUME Next
    PROVE  \/ Apart
           \/ RestoreCursor
           \/ Reset
           \/ \E mode \in PrivateModes : SetPrivateMode(mode) \/ ResetPrivateMode(mode)
<1>. QED
    BY DEF Next, Apart

-----------------------------------------------------------------------------
\* The invariant holds at the start, and every step preserves it.
LEMMA ParkedHolds == Spec => []ParkedInv
<1>1. Init => ParkedInv
    BY DEF Init, ParkedInv
<1>2. ParkedInv /\ [Next]_vars => ParkedInv'
    <2>. SUFFICES ASSUME ParkedInv, [Next]_vars PROVE ParkedInv'
        OBVIOUS
    <2>1. CASE UNCHANGED vars
        BY <2>1 DEF vars, cursor, modes, alt, ParkedInv
    <2>2. CASE Apart
        BY <2>2, ApartSteps DEF alt, ParkedInv
    <2>3. CASE RestoreCursor
        BY <2>3 DEF RestoreCursor, alt, ParkedInv
    <2>4. CASE Reset
        BY <2>4 DEF Reset, DefaultCursor, Cursor, ParkedInv
    <2>5. ASSUME NEW mode \in PrivateModes, SetPrivateMode(mode) PROVE ParkedInv'
        <3>1. CASE UNCHANGED alt
            BY <3>1 DEF alt, ParkedInv
        <3>2. CASE EnterAlt(mode = Alt1049)
            <4>1. CASE altScreen
                BY <3>2, <4>1 DEF EnterAlt, alt, ParkedInv
            <4>2. CASE ~altScreen /\ mode = Alt1049
                <5>1. altScreen' /\ altCursor' = <<SavedCursor>> /\ entered' = <<SavedCursor>>
                    BY <3>2, <4>2 DEF EnterAlt
                <5>. QED
                    BY <5>1 DEF ParkedInv
            <4>3. CASE ~altScreen /\ mode # Alt1049
                BY <3>2, <4>3 DEF EnterAlt, ParkedInv
            <4>. QED
                BY <4>1, <4>2, <4>3
        <3>. QED
            BY <2>5, <3>1, <3>2, AltSteps
    <2>6. ASSUME NEW mode \in PrivateModes, ResetPrivateMode(mode) PROVE ParkedInv'
        <3>1. CASE UNCHANGED alt
            BY <3>1 DEF alt, ParkedInv
        <3>2. CASE ExitAlt(mode = Alt1049)
            BY <3>2 DEF ExitAlt, alt, ParkedInv
        <3>. QED
            BY <2>6, <3>1, <3>2, AltSteps
    <2>. QED
        BY <2>1, <2>2, <2>3, <2>4, <2>5, <2>6, StepKinds
<1>. QED
    BY <1>1, <1>2, PTL DEF Spec

-----------------------------------------------------------------------------
(* Renditions.  The pen after one more group is the pen before it and what *)
(* the group says, for the loop over the parameters and for the reference; *)
(* so they agree on all groups, one after the other.                       *)

\* The pen p and then the word w.
After(p, w) ==
    [on |-> (p.on \cup w.on) \ w.off,
     fg |-> IF w.fg = <<>> THEN p.fg ELSE w.fg[1],
     bg |-> IF w.bg = <<>> THEN p.bg ELSE w.bg[1]]

\* The loop with the pen p and some parameters of a colour to skip.
Reading(p, left) == [pen |-> p, skip |-> left]

\* The loop has come to n with the pen p, and is not within a colour.
At(states, n, p) == states[n] = Reading(p, 0)

\* The loop starts with its pen and takes one step for each parameter.
LEMMA SgrLoop ==
    ASSUME NEW params \in Seq(Nat), NEW before \in AllPens, NEW blank \in AllPens
    PROVE  LET states == SgrStates(before, params, blank)
           IN  /\ At(states, 0, before)
               /\ \A n \in 1..Len(params) : states[n] = SgrStep(states[n - 1], params, n, blank)
               /\ \A n \in 0..Len(params) : states[n].pen \in AllPens
<1>. DEFINE N == Len(params)
            States == [pen : AllPens, skip : Nat]
            base == [pen |-> before, skip |-> 0]
            g == [n \in 1..N |-> [state \in States |-> SgrStep(state, params, n, blank)]]
<1>1. N \in Nat /\ \A n \in 1..N : params[n] \in Nat
    OBVIOUS
<1>3. ASSUME NEW n \in 1..N, NEW state \in States
      PROVE  SgrStep(state, params, n, blank) \in States
    <2>1. CASE state.skip > 0
        BY <2>1, SMTT(60) DEF SgrStep
    <2>2. CASE ~(state.skip > 0) /\ (IsIndexed(params, n) \/ IsRgb(params, n))
        <3>1. ExtendedColor(params, n) \in Colors
            <4>1. CASE IsIndexed(params, n)
                <5>1. n + 2 \in 1..N /\ params[n + 2] < 256
                    BY <1>1, <4>1 DEF IsIndexed
                <5>2. params[n + 2] \in 0..255
                    <6>1. \A m \in Nat : m < 256 => m \in 0..255
                        OBVIOUS
                    <6>. QED
                        BY <1>1, <5>1, <6>1, Zenon
                <5>3. Palette(params[n + 2]) \in Colors
                    BY <5>2 DEF Colors
                <5>. QED
                    BY <4>1, <5>3 DEF ExtendedColor
            <4>2. CASE ~IsIndexed(params, n)
                <5>1. n + 4 <= N
                    BY <1>1, <2>2, <4>2 DEF IsRgb
                <5>2. \A k \in 1..3 : n + 1 + k \in 1..N
                    BY <1>1, <5>1
                <5>3. \A m \in Nat : m % 256 \in 0..255
                    OBVIOUS
                <5>4. \A k \in 1..3 : params[n + 1 + k] % 256 \in 0..255
                    BY <1>1, <5>2, <5>3
                <5>5. [k \in 1..3 |-> params[n + 1 + k] % 256] \in [1..3 -> 0..255]
                    BY <5>4
                <5>. QED
                    BY <4>2, <5>5 DEF ExtendedColor, Colors
            <4>. QED
                BY <4>1, <4>2
        <3>2. Consumed(params, n) \in Nat
            BY DEF Consumed
        <3>3. Coloured(state.pen, params[n], ExtendedColor(params, n)) \in AllPens
            BY <3>1 DEF Coloured, AllPens
        <3>. QED
            BY <2>2, <3>2, <3>3 DEF SgrStep
    <2>3. CASE ~(state.skip > 0) /\ ~(IsIndexed(params, n) \/ IsRgb(params, n))
        <3>1. \A k \in 0..7 : Ansi(k) \in Colors /\ Aixterm(k) \in Colors
            BY DEF Colors
        <3>2. Default \in Colors
            BY DEF Colors
        <3>3. ASSUME NEW p \in Nat PROVE Plain(state.pen, p, blank) \in AllPens
            <4>1. p \in 30..37 => p - 30 \in 0..7
                OBVIOUS
            <4>2. p \in 40..47 => p - 40 \in 0..7
                OBVIOUS
            <4>3. p \in 90..97 => p - 90 \in 0..7
                OBVIOUS
            <4>4. p \in 100..107 => p - 100 \in 0..7
                OBVIOUS
            <4>5. (CASE p = 39 -> Default [] p \in 30..37 -> Ansi(p - 30)
                     [] p \in 90..97 -> Aixterm(p - 90) [] OTHER -> state.pen.fg) \in Colors
                BY <3>1, <3>2, <4>1, <4>3 DEF AllPens
            <4>6. (CASE p = 49 -> Default [] p \in 40..47 -> Ansi(p - 40)
                     [] p \in 100..107 -> Aixterm(p - 100) [] OTHER -> state.pen.bg) \in Colors
                BY <3>1, <3>2, <4>2, <4>4 DEF AllPens
            <4>7. (state.pen.on \cup SwitchesOn(p)) \ SwitchesOff(p) \in SUBSET Attributes
                BY DEF SwitchesOn, Attributes, AllPens
            <4>. QED
                BY <4>5, <4>6, <4>7 DEF Plain, AllPens
        <3>. QED
            BY <1>1, <2>3, <3>3 DEF SgrStep
    <2>. QED
        BY <2>1, <2>2, <2>3
<1>4. base \in States
    OBVIOUS
<1>5. g \in [1..N -> [States -> States]]
    <2>. HIDE DEF States
    <2>. QED
        BY <1>3
<1>6. PICK f \in [0..N -> States] : Follows(f, N, base, g)
    <2>. HIDE DEF N, States, base, g
    <2>. QED
        BY <1>1, <1>4, <1>5, Recursion
<1>7. \A n \in 1..N : f[n] = SgrStep(f[n - 1], params, n, blank)
    <2>. SUFFICES ASSUME NEW n \in 1..N PROVE f[n] = SgrStep(f[n - 1], params, n, blank)
        OBVIOUS
    <2>1. n - 1 \in 0..N
        BY <1>1
    <2>2. f[n] = g[n][f[n - 1]]
        BY <1>6 DEF Follows
    <2>3. f[n - 1] \in States
        BY <2>1
    <2>. HIDE DEF States
    <2>. QED
        BY <2>2, <2>3
<1>8. f[0] = base
    BY <1>6 DEF Follows
<1>. HIDE DEF States
<1>9. f = [n \in 0..N |-> IF n = 0 THEN base ELSE SgrStep(f[n - 1], params, n, blank)]
    BY <1>7, <1>8
<1>10. SgrStates(before, params, blank)
         = CHOOSE h : h = [n \in 0..N |-> IF n = 0 THEN base
                                          ELSE SgrStep(h[n - 1], params, n, blank)]
    BY DEF SgrStates
<1>. DEFINE states == SgrStates(before, params, blank)
<1>11. states = [n \in 0..N |-> IF n = 0 THEN base
                                ELSE SgrStep(states[n - 1], params, n, blank)]
    BY <1>9, <1>10
<1>. HIDE DEF states, N
<1>12. states[0] = base /\ \A n \in 1..N : states[n] = SgrStep(states[n - 1], params, n, blank)
    BY <1>1, <1>11
<1>13. \A n \in 0..N : states[n] \in States
    <2>1. states[0] \in States
        BY <1>4, <1>12
    <2>2. \A n \in 1..N : states[n - 1] \in States => states[n] \in States
        BY <1>3, <1>12
    <2>. HIDE DEF base
    <2>. QED
        BY <1>1, <2>1, <2>2, AlongRecursion
<1>14. \A n \in 0..N : states[n].pen \in AllPens
    BY <1>13 DEF States
<1>. QED
    BY <1>12, <1>14 DEF At, Reading, states, N

\* The colours of the reference are those of the loop.
LEMMA Units ==
    /\ \A q \in 30..37 : q - 30 = q % 10 /\ q < 50
    /\ \A q \in 40..47 : q - 40 = q % 10 /\ q < 50
    /\ \A q \in 90..97 : q - 90 = q % 10 /\ ~(q < 50)
    /\ \A q \in 100..107 : q - 100 = q % 10 /\ ~(q < 50)
<1>1. \A q \in 30..37 : q - 30 = q % 10 /\ q < 50
    OBVIOUS
<1>2. \A q \in 40..47 : q - 40 = q % 10 /\ q < 50
    OBVIOUS
<1>3. \A q \in 90..97 : q - 90 = q % 10 /\ ~(q < 50)
    OBVIOUS
<1>4. \A q \in 100..107 : q - 100 = q % 10 /\ ~(q < 50)
    OBVIOUS
<1>. QED
    BY <1>1, <1>2, <1>3, <1>4

\* Behind a selector the loop counts down.
LEMMA Skipped ==
    ASSUME NEW params, NEW blank, NEW n, NEW p
    PROVE  /\ SgrStep(Reading(p, 1), params, n, blank) = Reading(p, 0)
           /\ SgrStep(Reading(p, 2), params, n, blank) = Reading(p, 1)
           /\ SgrStep(Reading(p, 3), params, n, blank) = Reading(p, 2)
           /\ SgrStep(Reading(p, 4), params, n, blank) = Reading(p, 3)
BY DEF SgrStep, Reading

\* What the loop does with a complete group.
LEMMA GroupIsRead ==
    ASSUME NEW params \in Seq(Nat), NEW before \in AllPens, NEW blank \in AllPens,
           NEW n \in Nat, NEW g \in Seq(Nat), IsGroup(g), n + Len(g) <= Len(params),
           \A k \in 1..Len(g) : params[n + k] = g[k],
           NEW p \in AllPens, At(SgrStates(before, params, blank), n, p)
    PROVE  At(SgrStates(before, params, blank), n + Len(g), After(p, Says(g, blank)))
<1>. DEFINE states == SgrStates(before, params, blank)
            w == Says(g, blank)
<1>1. \A k \in 1..Len(params) : states[k] = SgrStep(states[k - 1], params, k, blank)
    BY SgrLoop
<1>. HIDE DEF states
<1>2. states[n] = Reading(p, 0)
    BY DEF At, states
<1>3. Len(g) \in {1, 3, 5} /\ Len(params) \in Nat
    BY DEF IsGroup
<1>4. /\ n + 1 \in 1..Len(params) /\ (n + 1) - 1 = n /\ params[n + 1] = g[1] /\ g[1] \in Nat
    <2>0. Len(g) = 1 \/ Len(g) = 3 \/ Len(g) = 5
        BY DEF IsGroup
    <2>1. Len(g) \in Nat /\ Len(g) >= 1
        <3>1. Len(g) \in Nat
            BY LenProperties
        <3>2. \A m \in Nat : m = 1 \/ m = 3 \/ m = 5 => m >= 1
            OBVIOUS
        <3>. QED
            BY <2>0, <3>1, <3>2
    <2>2. 1 \in 1..Len(g) /\ n + 1 \in 1..Len(params) /\ (n + 1) - 1 = n
        BY <1>3, <2>1
    <2>3. g[1] \in Nat
        BY <2>2
    <2>. QED
        BY <2>2, <2>3
<1>5. states[n + 1] = SgrStep(Reading(p, 0), params, n + 1, blank)
    BY <1>1, <1>2, <1>4
<1>6. CASE Len(g) = 1
    <2>1. g[1] \notin {38, 48}
        BY <1>6 DEF IsGroup
    <2>2. ~IsIndexed(params, n + 1) /\ ~IsRgb(params, n + 1)
        BY <1>4, <2>1 DEF IsIndexed, IsRgb
    <2>3. states[n + 1] = Reading(Plain(p, g[1], blank), 0)
        BY <1>4, <1>5, <2>2 DEF SgrStep, Reading
    <2>4. Plain(p, g[1], blank) = After(p, w)
        <3>1. CASE g[1] = 0
            <4>1. w = [on |-> blank.on, off |-> Attributes \ blank.on,
                       fg |-> <<blank.fg>>, bg |-> <<blank.bg>>]
                BY <3>1 DEF Says
            <4>2. (p.on \cup blank.on) \ (Attributes \ blank.on) = blank.on
                BY DEF AllPens
            <4>. HIDE DEF w
            <4>3. After(p, w) = [on |-> blank.on, fg |-> blank.fg, bg |-> blank.bg]
                <5>1. /\ w.on = blank.on /\ w.off = Attributes \ blank.on
                      /\ w.fg # <<>> /\ w.fg[1] = blank.fg /\ w.bg # <<>> /\ w.bg[1] = blank.bg
                    BY <4>1
                <5>. QED
                    BY <4>2, <5>1 DEF After
            <4>4. Plain(p, g[1], blank) = blank
                BY <3>1 DEF Plain
            <4>. QED
                BY <4>3, <4>4 DEF AllPens
        <3>2. CASE g[1] # 0
            <4>. DEFINE q == g[1]
                        fg == CASE q = 39 -> Default [] q \in 30..37 -> Ansi(q - 30)
                                [] q \in 90..97 -> Aixterm(q - 90) [] OTHER -> p.fg
                        bg == CASE q = 49 -> Default [] q \in 40..47 -> Ansi(q - 40)
                                [] q \in 100..107 -> Aixterm(q - 100) [] OTHER -> p.bg
            <4>1. /\ w.on = SwitchesOn(q) /\ w.off = SwitchesOff(q)
                  /\ w.fg = IF q \in 30..39 \cup 90..97 THEN <<Color(g)>> ELSE <<>>
                  /\ w.bg = IF q \in 40..49 \cup 100..107 THEN <<Color(g)>> ELSE <<>>
                BY <3>2 DEF Says
            <4>2. Plain(p, q, blank)
                    = [on |-> (p.on \cup SwitchesOn(q)) \ SwitchesOff(q), fg |-> fg, bg |-> bg]
                BY <3>2 DEF Plain
            <4>. HIDE DEF w
            <4>3. Color(g) = IF q \in {39, 49} THEN Default
                             ELSE IF q < 50 THEN Ansi(q % 10) ELSE Aixterm(q % 10)
                BY <1>6 DEF Color
            <4>. HIDE DEF q
            <4>4. fg = IF w.fg = <<>> THEN p.fg ELSE w.fg[1]
                <5>1. CASE q \in 30..37
                    <6>1. q - 30 = q % 10 /\ q < 50
                        BY Units, <5>1
                    <6>2. q \notin {39, 49} /\ q \in 30..39 \cup 90..97 /\ fg = Ansi(q - 30)
                        <7>1. q # 39 /\ q # 49 /\ q \in 30..39 \cup 90..97 /\ q \notin 90..97
                            BY <5>1
                        <7>2. fg = Ansi(q - 30)
                            BY <5>1, <7>1, Zenon
                        <7>. HIDE DEF fg
                        <7>. QED
                            BY <7>1, <7>2
                    <6>3. w.fg = <<Color(g)>> /\ Color(g) = Ansi(q - 30)
                        BY <4>1, <4>3, <6>1, <6>2
                    <6>. HIDE DEF fg
                    <6>. QED
                        BY <6>2, <6>3
                <5>2. CASE q \in 90..97
                    <6>1. q - 90 = q % 10 /\ ~(q < 50)
                        BY Units, <5>2
                    <6>2. q \notin {39, 49} /\ q \in 30..39 \cup 90..97 /\ fg = Aixterm(q - 90)
                        BY <5>2
                    <6>3. w.fg = <<Color(g)>> /\ Color(g) = Aixterm(q - 90)
                        BY <4>1, <4>3, <6>1, <6>2
                    <6>. HIDE DEF fg
                    <6>. QED
                        BY <6>2, <6>3
                <5>3. CASE q \notin 30..37 \cup 90..97
                    <6>1. q # 38 /\ q \in Nat
                        BY <1>4, <2>1 DEF q
                    <6>2. CASE q = 39
                        <7>1. w.fg = <<Color(g)>> /\ Color(g) = Default /\ fg = Default
                            BY <4>1, <4>3, <6>2
                        <7>. HIDE DEF fg
                        <7>. QED
                            BY <7>1
                    <6>3. CASE q # 39
                        <7>1. q \notin 30..39 \cup 90..97
                            BY <5>3, <6>1, <6>3
                        <7>2. w.fg = <<>>
                            BY <4>1, <7>1
                        <7>. QED
                            BY <5>3, <6>3, <7>2
                    <6>. QED
                        BY <6>2, <6>3
                <5>. QED
                    BY <5>1, <5>2, <5>3
            <4>5. bg = IF w.bg = <<>> THEN p.bg ELSE w.bg[1]
                <5>1. CASE q \in 40..47
                    <6>1. q - 40 = q % 10 /\ q < 50
                        BY Units, <5>1
                    <6>2. q \notin {39, 49} /\ q \in 40..49 \cup 100..107 /\ bg = Ansi(q - 40)
                        <7>1. q # 39 /\ q # 49 /\ q \in 40..49 \cup 100..107 /\ q \notin 100..107
                            BY <5>1
                        <7>2. bg = Ansi(q - 40)
                            BY <5>1, <7>1, Zenon
                        <7>. HIDE DEF bg
                        <7>. QED
                            BY <7>1, <7>2
                    <6>3. w.bg = <<Color(g)>> /\ Color(g) = Ansi(q - 40)
                        BY <4>1, <4>3, <6>1, <6>2
                    <6>. HIDE DEF bg
                    <6>. QED
                        BY <6>2, <6>3
                <5>2. CASE q \in 100..107
                    <6>1. q - 100 = q % 10 /\ ~(q < 50)
                        BY Units, <5>2
                    <6>2. q \notin {39, 49} /\ q \in 40..49 \cup 100..107 /\ bg = Aixterm(q - 100)
                        BY <5>2
                    <6>3. w.bg = <<Color(g)>> /\ Color(g) = Aixterm(q - 100)
                        BY <4>1, <4>3, <6>1, <6>2
                    <6>. HIDE DEF bg
                    <6>. QED
                        BY <6>2, <6>3
                <5>3. CASE q \notin 40..47 \cup 100..107
                    <6>1. q # 48 /\ q \in Nat
                        BY <1>4, <2>1 DEF q
                    <6>2. CASE q = 49
                        <7>1. w.bg = <<Color(g)>> /\ Color(g) = Default /\ bg = Default
                            BY <4>1, <4>3, <6>2
                        <7>. HIDE DEF bg
                        <7>. QED
                            BY <7>1
                    <6>3. CASE q # 49
                        <7>1. q \notin 40..49 \cup 100..107
                            BY <5>3, <6>1, <6>3
                        <7>2. w.bg = <<>>
                            BY <4>1, <7>1
                        <7>. QED
                            BY <5>3, <6>3, <7>2
                    <6>. QED
                        BY <6>2, <6>3
                <5>. QED
                    BY <5>1, <5>2, <5>3
            <4>. HIDE DEF fg, bg
            <4>. QED
                BY <4>1, <4>2, <4>4, <4>5 DEF After, q
        <3>. QED
            BY <3>1, <3>2
    <2>. QED
        BY <1>6, <2>3, <2>4 DEF At, states
<1>7. CASE Len(g) # 1
    <2>. DEFINE color == Color(g)
                painted == Coloured(p, g[1], color)
    <2>1. /\ g[1] \in {38, 48}
          /\ \/ Len(g) = 3 /\ g[2] = 5 /\ g[3] < 256
             \/ Len(g) = 5 /\ g[2] = 2
        BY <1>7 DEF IsGroup
    <2>2. /\ params[n + 2] = g[2] /\ params[n + 3] = g[3]
          /\ (n + 1) + 1 = n + 2 /\ (n + 1) + 2 = n + 3 /\ (n + 1) + 4 = n + 5
        <3>1. (n + 1) + 1 = n + 2 /\ (n + 1) + 2 = n + 3 /\ (n + 1) + 4 = n + 5
            OBVIOUS
        <3>2. 2 \in 1..Len(g) /\ 3 \in 1..Len(g)
            <4>1. CASE Len(g) = 3
                BY <4>1
            <4>2. CASE Len(g) = 5
                BY <4>2
            <4>. QED
                BY <2>1, <4>1, <4>2
        <3>. QED
            BY <3>1, <3>2
    <2>3. painted = After(p, w)
        <3>1. /\ SwitchesOn(g[1]) = {} /\ SwitchesOff(g[1]) = {}
            <4>1. CASE g[1] = 38
                BY <4>1 DEF SwitchesOn, SwitchesOff
            <4>2. CASE g[1] = 48
                BY <4>2 DEF SwitchesOn, SwitchesOff
            <4>. QED
                BY <2>1, <4>1, <4>2
        <3>2. w = [on |-> {}, off |-> {}, fg |-> IF g[1] = 38 THEN <<color>> ELSE <<>>,
                   bg |-> IF g[1] = 48 THEN <<color>> ELSE <<>>]
            <4>. HIDE DEF color
            <4>1. g[1] # 0 /\ (g[1] \in 30..39 \cup 90..97) = (g[1] = 38)
                  /\ (g[1] \in 40..49 \cup 100..107) = (g[1] = 48)
                <5>1. CASE g[1] = 38
                    BY <5>1
                <5>2. CASE g[1] = 48
                    BY <5>2
                <5>. QED
                    BY <2>1, <5>1, <5>2
            <4>. QED
                BY <3>1, <4>1 DEF Says, color
        <3>. HIDE DEF color, w
        <3>3. p = [on |-> p.on, fg |-> p.fg, bg |-> p.bg]
            BY DEF AllPens
        <3>4. CASE g[1] = 38
            <4>1. w.on = {} /\ w.off = {} /\ w.fg # <<>> /\ w.fg[1] = color /\ w.bg = <<>>
                BY <3>2, <3>4
            <4>2. [p EXCEPT !.fg = color] = [on |-> p.on, fg |-> color, bg |-> p.bg]
                BY <3>3
            <4>. QED
                BY <3>4, <4>1, <4>2 DEF After, Coloured
        <3>5. CASE g[1] = 48
            <4>1. w.on = {} /\ w.off = {} /\ w.bg # <<>> /\ w.bg[1] = color /\ w.fg = <<>>
                BY <3>2, <3>5
            <4>2. [p EXCEPT !.bg = color] = [on |-> p.on, fg |-> p.fg, bg |-> color]
                BY <3>3
            <4>. QED
                BY <3>5, <4>1, <4>2 DEF After, Coloured
        <3>. QED
            BY <2>1, <3>4, <3>5
    <2>4. CASE Len(g) = 3
        <3>1. IsIndexed(params, n + 1)
            BY <1>4, <2>1, <2>2, <2>4 DEF IsIndexed
        <3>2. ExtendedColor(params, n + 1) = color
            BY <2>2, <2>4, <3>1 DEF ExtendedColor, Color
        <3>. HIDE DEF color
        <3>3. states[n + 1] = Reading(painted, 2)
            BY <1>4, <1>5, <3>1, <3>2 DEF SgrStep, Consumed, Reading
        <3>. HIDE DEF painted
        <3>4. /\ n + 2 \in 1..Len(params) /\ (n + 2) - 1 = n + 1
              /\ n + 3 \in 1..Len(params) /\ (n + 3) - 1 = n + 2
            BY <1>3, <2>4
        <3>5. states[n + 2] = Reading(painted, 1)
            <4>1. states[n + 2] = SgrStep(states[n + 1], params, n + 2, blank)
                BY <1>1, <3>4
            <4>. QED
                BY <4>1, <3>3, Skipped
        <3>6. states[n + 3] = Reading(painted, 0)
            <4>1. states[n + 3] = SgrStep(states[n + 2], params, n + 3, blank)
                BY <1>1, <3>4
            <4>. QED
                BY <4>1, <3>5, Skipped
        <3>. QED
            BY <2>3, <2>4, <3>6 DEF At, states
    <2>5. CASE Len(g) = 5
        <3>0. Len(params) \in Nat /\ n + 5 <= Len(params)
            BY <1>3, <2>5
        <3>1. ~IsIndexed(params, n + 1) /\ IsRgb(params, n + 1)
            <4>1. g[2] = 2 /\ params[(n + 1) + 1] = 2
                BY <2>1, <2>2, <2>5
            <4>. QED
                BY <1>4, <2>1, <2>2, <3>0, <4>1 DEF IsIndexed, IsRgb
        <3>2. ExtendedColor(params, n + 1) = color
            <4>1. \A k \in 1..3 : params[(n + 1) + 1 + k] = g[k + 2]
                <5>1. \A k \in 1..3 : (n + 1) + 1 + k = n + (k + 2) /\ k + 2 \in 1..Len(g)
                    BY <2>5
                <5>. QED
                    BY <5>1
            <4>2. color = [k \in 1..3 |-> g[k + 2] % 256]
                BY <2>5 DEF Color
            <4>3. ExtendedColor(params, n + 1) = [k \in 1..3 |-> params[(n + 1) + 1 + k] % 256]
                BY <3>1 DEF ExtendedColor
            <4>. QED
                BY <4>1, <4>2, <4>3, ZenonT(60)
        <3>. HIDE DEF color
        <3>3. states[n + 1] = Reading(painted, 4)
            BY <1>4, <1>5, <3>1, <3>2 DEF SgrStep, Consumed, Reading
        <3>. HIDE DEF painted
        <3>4. /\ n + 2 \in 1..Len(params) /\ (n + 2) - 1 = n + 1
              /\ n + 3 \in 1..Len(params) /\ (n + 3) - 1 = n + 2
              /\ n + 4 \in 1..Len(params) /\ (n + 4) - 1 = n + 3
              /\ n + 5 \in 1..Len(params) /\ (n + 5) - 1 = n + 4
            BY <3>0
        <3>5. states[n + 2] = Reading(painted, 3)
            <4>1. states[n + 2] = SgrStep(states[n + 1], params, n + 2, blank)
                BY <1>1, <3>4
            <4>. QED
                BY <4>1, <3>3, Skipped
        <3>6. states[n + 3] = Reading(painted, 2)
            <4>1. states[n + 3] = SgrStep(states[n + 2], params, n + 3, blank)
                BY <1>1, <3>4
            <4>. QED
                BY <4>1, <3>5, Skipped
        <3>7. states[n + 4] = Reading(painted, 1)
            <4>1. states[n + 4] = SgrStep(states[n + 3], params, n + 4, blank)
                BY <1>1, <3>4
            <4>. QED
                BY <4>1, <3>6, Skipped
        <3>8. states[n + 5] = Reading(painted, 0)
            <4>1. states[n + 5] = SgrStep(states[n + 4], params, n + 5, blank)
                BY <1>1, <3>4
            <4>. QED
                BY <4>1, <3>7, Skipped
        <3>. QED
            BY <2>3, <2>5, <3>8 DEF At, states
    <2>. QED
        BY <2>1, <2>4, <2>5
<1>. QED
    BY <1>6, <1>7

\* The last of a set of positions with a further one is that one.
LEMMA MaxOfMore ==
    ASSUME NEW n \in Nat, NEW S, S \subseteq 1..n
    PROVE  Max(S \cup {n + 1}) = n + 1
<1>. DEFINE m == Max(S \cup {n + 1})
<1>1. S \cup {n + 1} \subseteq 0..(n + 1) /\ S \cup {n + 1} # {} /\ n + 1 \in Nat
    OBVIOUS
<1>2. m \in S \cup {n + 1} /\ n + 1 <= m
    BY <1>1, Greatest
<1>. HIDE DEF m
<1>3. m <= n + 1 /\ m \in Nat
    BY <1>2
<1>. QED
    BY <1>2, <1>3 DEF m

\* A word about attributes that there are, for and against none of them both.
IsWord(w) ==
    w.on \subseteq Attributes /\ w.off \subseteq Attributes /\ w.on \cap w.off = {}

\* Every group is such a word.
LEMMA GroupsAreWords ==
    ASSUME NEW g, NEW blank \in AllPens
    PROVE  IsWord(Says(g, blank))
<1>1. CASE g[1] = 0
    <2>1. /\ Says(g, blank).on = blank.on
          /\ Says(g, blank).off = Attributes \ blank.on
        BY <1>1 DEF Says
    <2>. QED
        BY <2>1 DEF IsWord, AllPens
<1>2. CASE g[1] # 0
    <2>1. Says(g, blank).on = SwitchesOn(g[1]) /\ Says(g, blank).off = SwitchesOff(g[1])
        BY <1>2 DEF Says
    <2>2. SwitchesOn(g[1]) \subseteq Attributes /\ SwitchesOff(g[1]) \subseteq Attributes
        BY DEF SwitchesOn, SwitchesOff, Attributes
    <2>3. SwitchesOn(g[1]) \cap SwitchesOff(g[1]) = {}
        BY DEF SwitchesOn, SwitchesOff
    <2>. QED
        BY <2>1, <2>2, <2>3 DEF IsWord
<1>. QED
    BY <1>1, <1>2

\* What the reference says with no word, and with one more.
LEMMA NoWords ==
    ASSUME NEW p \in AllPens
    PROVE  LastWords(p, <<>>) = p
BY DEF LastWords, AllPens

\* One word more says what it says over the words before it.
LEMMA OneWordMore ==
    ASSUME NEW n \in Nat, NEW said, DOMAIN said = 1..n,
           NEW more, DOMAIN more = 1..(n + 1), \A i \in 1..n : more[i] = said[i],
           IsWord(more[n + 1]), NEW p
    PROVE  LastWords(p, more) = After(LastWords(p, said), more[n + 1])
<1>. DEFINE w == more[n + 1]
            Speak(a) == {i \in DOMAIN said : a \in said[i].on \cup said[i].off}
            Fgs == {i \in DOMAIN said : said[i].fg # <<>>}
            Bgs == {i \in DOMAIN said : said[i].bg # <<>>}
            SpeakMore(a) == {i \in DOMAIN more : a \in more[i].on \cup more[i].off}
            FgsMore == {i \in DOMAIN more : more[i].fg # <<>>}
            BgsMore == {i \in DOMAIN more : more[i].bg # <<>>}
            On == {a \in Attributes : IF Speak(a) = {} THEN a \in p.on
                                      ELSE a \in said[Max(Speak(a))].on}
            OnMore == {a \in Attributes : IF SpeakMore(a) = {} THEN a \in p.on
                                          ELSE a \in more[Max(SpeakMore(a))].on}
            Fg == IF Fgs = {} THEN p.fg ELSE said[Max(Fgs)].fg[1]
            FgMore == IF FgsMore = {} THEN p.fg ELSE more[Max(FgsMore)].fg[1]
            Bg == IF Bgs = {} THEN p.bg ELSE said[Max(Bgs)].bg[1]
            BgMore == IF BgsMore = {} THEN p.bg ELSE more[Max(BgsMore)].bg[1]
<1>1. 1..(n + 1) = (1..n) \cup {n + 1} /\ n + 1 \notin 1..n
    OBVIOUS
<1>2. OnMore = (On \cup w.on) \ w.off
    <2>1. ASSUME NEW a \in Attributes
          PROVE  a \in OnMore <=> a \in (On \cup w.on) \ w.off
        <3>1. Speak(a) \subseteq 1..n
            OBVIOUS
        <3>2. CASE a \in w.on \cup w.off
            <4>1. SpeakMore(a) = Speak(a) \cup {n + 1}
                BY <1>1, <3>2
            <4>2. Max(SpeakMore(a)) = n + 1 /\ SpeakMore(a) # {}
                <5>. HIDE DEF Speak, SpeakMore
                <5>. QED
                    BY <3>1, <4>1, MaxOfMore
            <4>3. a \in OnMore <=> a \in w.on
                <5>. HIDE DEF SpeakMore
                <5>. QED
                    BY <4>2
            <4>4. ~(a \in w.on /\ a \in w.off)
                BY DEF IsWord
            <4>. HIDE DEF w, On, OnMore
            <4>. QED
                BY <3>2, <4>3, <4>4
        <3>3. CASE a \notin w.on \cup w.off
            <4>1. SpeakMore(a) = Speak(a)
                BY <1>1, <3>3
            <4>2. a \in OnMore <=> a \in On
                <5>1. CASE Speak(a) = {}
                    <6>. HIDE DEF Speak, SpeakMore
                    <6>. QED
                        BY <4>1, <5>1
                <5>2. CASE Speak(a) # {}
                    <6>1. Max(Speak(a)) \in 1..n
                        <7>1. Speak(a) \subseteq 0..n
                            BY <3>1
                        <7>. HIDE DEF Speak
                        <7>. QED
                            BY <3>1, <5>2, <7>1, Greatest
                    <6>. HIDE DEF Speak, SpeakMore
                    <6>2. more[Max(SpeakMore(a))] = said[Max(Speak(a))]
                        BY <4>1, <6>1
                    <6>. QED
                        BY <4>1, <5>2, <6>2
                <5>. QED
                    BY <5>1, <5>2
            <4>. HIDE DEF w, On, OnMore
            <4>. QED
                BY <3>3, <4>2
        <3>. QED
            BY <3>2, <3>3
    <2>2. OnMore \subseteq Attributes /\ On \subseteq Attributes /\ w.on \subseteq Attributes
        BY DEF IsWord
    <2>. HIDE DEF w, On, OnMore
    <2>. QED
        BY <2>1, <2>2
<1>3. FgMore = IF w.fg = <<>> THEN Fg ELSE w.fg[1]
    <2>1. Fgs \subseteq 1..n /\ Fgs \subseteq 0..n
        OBVIOUS
    <2>2. CASE w.fg # <<>>
        <3>1. FgsMore = Fgs \cup {n + 1}
            BY <1>1, <2>2
        <3>2. Max(FgsMore) = n + 1 /\ FgsMore # {}
            <4>. HIDE DEF Fgs, FgsMore
            <4>. QED
                BY <2>1, <3>1, MaxOfMore
        <3>. HIDE DEF FgsMore
        <3>. QED
            BY <2>2, <3>2
    <2>3. CASE w.fg = <<>>
        <3>1. FgsMore = Fgs
            BY <1>1, <2>3
        <3>2. Fgs # {} => Max(Fgs) \in 1..n
            <4>. HIDE DEF Fgs
            <4>. QED
                BY <2>1, Greatest
        <3>. HIDE DEF Fgs, FgsMore
        <3>3. Fgs # {} => more[Max(FgsMore)] = said[Max(Fgs)]
            BY <3>1, <3>2
        <3>4. FgMore = Fg
            BY <3>1, <3>3
        <3>. QED
            BY <2>3, <3>4
    <2>. QED
        BY <2>2, <2>3
<1>4. BgMore = IF w.bg = <<>> THEN Bg ELSE w.bg[1]
    <2>1. Bgs \subseteq 1..n /\ Bgs \subseteq 0..n
        OBVIOUS
    <2>2. CASE w.bg # <<>>
        <3>1. BgsMore = Bgs \cup {n + 1}
            BY <1>1, <2>2
        <3>2. Max(BgsMore) = n + 1 /\ BgsMore # {}
            <4>. HIDE DEF Bgs, BgsMore
            <4>. QED
                BY <2>1, <3>1, MaxOfMore
        <3>. HIDE DEF BgsMore
        <3>. QED
            BY <2>2, <3>2
    <2>3. CASE w.bg = <<>>
        <3>1. BgsMore = Bgs
            BY <1>1, <2>3
        <3>2. Bgs # {} => Max(Bgs) \in 1..n
            <4>. HIDE DEF Bgs
            <4>. QED
                BY <2>1, Greatest
        <3>. HIDE DEF Bgs, BgsMore
        <3>3. Bgs # {} => more[Max(BgsMore)] = said[Max(Bgs)]
            BY <3>1, <3>2
        <3>4. BgMore = Bg
            BY <3>1, <3>3
        <3>. QED
            BY <2>3, <3>4
    <2>. QED
        BY <2>2, <2>3
<1>5. LastWords(p, said) = [on |-> On, fg |-> Fg, bg |-> Bg]
    BY DEF LastWords
<1>6. LastWords(p, more) = [on |-> OnMore, fg |-> FgMore, bg |-> BgMore]
    BY DEF LastWords
<1>. HIDE DEF On, OnMore, Fg, FgMore, Bg, BgMore
<1>. QED
    BY <1>2, <1>3, <1>4, <1>5, <1>6 DEF After

\* Any sequence of complete groups means what they say, for any pens.
THEOREM GroupsMeanWhatTheySay ==
    ASSUME NEW gs \in Seq(Seq(Nat)), \A i \in DOMAIN gs : IsGroup(gs[i]),
           NEW before \in AllPens, NEW blank \in AllPens
    PROVE  MeansWhatItSays(before, gs, blank)
<1>. DEFINE N == Len(gs)
            params == FlattenSeq(gs)
            Before(k) == FlattenSeq(SubSeq(gs, 1, k))
            Said(k) == [i \in 1..k |-> Says(gs[i], blank)]
            PenAt(k) == LastWords(before, Said(k))
            states == SgrStates(before, params, blank)
            Good(k) == At(states, Len(Before(k)), PenAt(k)) /\ PenAt(k) \in AllPens
            T == {k \in Nat : k <= N => Good(k)}
<1>1. N \in Nat /\ DOMAIN gs = 1..N /\ params \in Seq(Nat)
    BY FlatType, LenProperties
<1>4. Good(0)
    <2>1. Before(0) = <<>>
        <3>1. SubSeq(gs, 1, 0) = <<>>
            BY SubSeqEmpty
        <3>. QED
            BY <3>1, FlatEmpty
    <2>2. Len(Before(0)) = 0
        BY <2>1
    <2>3. Said(0) = <<>>
        OBVIOUS
    <2>4. PenAt(0) = before
        BY <2>3, NoWords
    <2>5. At(states, 0, before)
        BY <1>1, SgrLoop
    <2>. HIDE DEF states, Before, PenAt
    <2>. QED
        BY <2>2, <2>4, <2>5
<1>5. ASSUME NEW k \in Nat, k + 1 <= N, Good(k)
      PROVE  Good(k + 1)
    <2>. DEFINE g == gs[k + 1]
                w == Says(g, blank)
                n == Len(Before(k))
    <2>1. k <= N /\ k + 1 \in 1..N /\ k + 1 \in Nat
        BY <1>1, <1>5
    <2>2. g \in Seq(Nat) /\ IsGroup(g)
        BY <1>1, <2>1, ElementOfSeq
    <2>5. /\ n \in Nat /\ Len(g) \in Nat /\ Len(Before(k + 1)) = n + Len(g)
          /\ n + Len(g) <= Len(params)
          /\ \A j \in 1..Len(g) : params[n + j] = g[j]
        <3>1. Len(g) \in Nat
            BY <2>2, LenProperties
        <3>. QED
            BY <1>5, <3>1, FlatPlace
    <2>6. At(states, n, PenAt(k)) /\ PenAt(k) \in AllPens
        BY <1>5
    <2>7. At(states, n + Len(g), After(PenAt(k), w))
        <3>. HIDE DEF n, g, params, PenAt
        <3>. QED
            BY <1>1, <2>2, <2>5, <2>6, GroupIsRead DEF w
    <2>8. IsWord(w)
        BY GroupsAreWords
    <2>9. PenAt(k + 1) = After(PenAt(k), w)
        <3>1. /\ DOMAIN Said(k) = 1..k /\ DOMAIN Said(k + 1) = 1..(k + 1)
              /\ \A i \in 1..k : Said(k + 1)[i] = Said(k)[i]
              /\ Said(k + 1)[k + 1] = w
            OBVIOUS
        <3>. HIDE DEF Said, w
        <3>. QED
            BY <2>8, <3>1, OneWordMore
    <2>10. After(PenAt(k), w) \in AllPens
        <3>1. states[n + Len(g)].pen \in AllPens
            <4>1. n + Len(g) \in 0..Len(params)
                <5>1. \A l \in Nat, m \in Nat, i \in Nat : i + l <= m => i + l \in 0..m
                    OBVIOUS
                <5>2. Len(params) \in Nat
                    BY <1>1, LenProperties
                <5>. HIDE DEF n, g, params
                <5>. QED
                    BY <2>5, <5>1, <5>2
            <4>. HIDE DEF n, g, params
            <4>. QED
                BY <1>1, <4>1, SgrLoop
        <3>. HIDE DEF states, n, g, w, PenAt
        <3>. QED
            BY <2>7, <3>1 DEF At, Reading
    <2>. HIDE DEF states, PenAt, Before, n, g, w
    <2>. QED
        BY <2>5, <2>7, <2>9, <2>10
<1>6. N \in T
    <2>. HIDE DEF Good
    <2>1. 0 \in T
        BY <1>4
    <2>2. ASSUME NEW k \in Nat, k \in T PROVE k + 1 \in T
        <3>. SUFFICES ASSUME k + 1 <= N PROVE Good(k + 1)
            OBVIOUS
        <3>1. k <= N
            BY <1>1
        <3>2. Good(k)
            BY <2>2, <3>1
        <3>. QED
            BY <1>5, <3>2
    <2>. HIDE DEF T
    <2>. QED
        BY <1>1, <2>1, <2>2, SetInduction
<1>7. Good(N)
    <2>. HIDE DEF Good
    <2>. QED
        BY <1>1, <1>6
<1>8. Before(N) = params
    BY SubSeqFull
<1>9. At(states, Len(params), PenAt(N))
    <2>. HIDE DEF states, PenAt, params
    <2>. QED
        BY <1>7, <1>8
<1>10. states[Len(params)].pen = PenAt(N)
    <2>. HIDE DEF states, PenAt, params
    <2>. QED
        BY <1>9 DEF At, Reading
<1>11. PenAt(N) = LastWords(before, [i \in DOMAIN gs |-> Says(gs[i], blank)])
    BY <1>1
<1>. QED
    BY <1>10, <1>11 DEF MeansWhatItSays, SelectGraphicRendition

-----------------------------------------------------------------------------
(* Reports of a directory.  What is cut at ';' is joined again; what is    *)
(* escaped is decoded, one byte of the path after the other; the host ends *)
(* where the path begins.                                                  *)

Byte == 0..255

\* The parts of a text, each but the first with the ';' before it.
Marked(parts) ==
    [i \in 1..Len(parts) |-> IF i = 1 THEN parts[1] ELSE <<Semicolon>> \o parts[i]]

\* Some parts, and what they are when they are joined.
LEMMA JoinedIsFlat ==
    ASSUME NEW parts \in Seq(Seq(Byte)), Len(parts) >= 1
    PROVE  /\ Rejoined(parts, 1) = FlattenSeq(Marked(parts))
           /\ Marked(parts) \in Seq(Seq(Byte)) /\ Rejoined(parts, 1) \in Seq(Byte)
<1>1. Len(parts) \in Nat /\ Len(parts) - 1 + 1 = Len(parts)
    BY LenProperties
<1>2. \A i \in 1..Len(parts) : 1 + i - 1 = i
    BY <1>1
<1>3. [i \in 1..(Len(parts) - 1 + 1) |->
          IF i = 1 THEN parts[1] ELSE <<Semicolon>> \o parts[1 + i - 1]] = Marked(parts)
    BY <1>1, <1>2 DEF Marked
<1>4. ASSUME NEW i \in 1..Len(parts)
      PROVE  (IF i = 1 THEN parts[1] ELSE <<Semicolon>> \o parts[i]) \in Seq(Byte)
    <2>1. parts[i] \in Seq(Byte)
        BY ElementOfSeq
    <2>2. <<Semicolon>> \in Seq(Byte)
        BY DEF Semicolon, Byte
    <2>3. <<Semicolon>> \o parts[i] \in Seq(Byte)
        BY <2>1, <2>2, ConcatProperties
    <2>. QED
        BY <2>1, <2>3
<1>5. Marked(parts) \in Seq(Seq(Byte))
    BY <1>1, <1>4 DEF Marked
<1>. QED
    BY <1>3, <1>5, FlatType DEF Rejoined

\* One part, and one part more.
LEMMA JoinOne ==
    ASSUME NEW x \in Seq(Byte)
    PROVE  Rejoined(<<x>>, 1) = x
<1>1. <<x>> \in Seq(Seq(Byte)) /\ Len(<<x>>) = 1
    OBVIOUS
<1>2. Marked(<<x>>) = <<x>>
    BY DEF Marked
<1>3. Rejoined(<<x>>, 1) = FlattenSeq(Marked(<<x>>))
    <2>. DEFINE one == <<x>>
    <2>1. one \in Seq(Seq(Byte)) /\ Len(one) >= 1
        BY <1>1
    <2>. HIDE DEF one
    <2>2. Rejoined(one, 1) = FlattenSeq(Marked(one))
        BY <2>1, JoinedIsFlat
    <2>. QED
        BY <2>2 DEF one
<1>4. FlattenSeq(<<x>>) = x
    BY FlatOne
<1>. QED
    BY <1>2, <1>3, <1>4

\* One part more adds a ";" and itself to what is joined.
LEMMA JoinMore ==
    ASSUME NEW parts \in Seq(Seq(Byte)), Len(parts) >= 1, NEW x \in Seq(Byte)
    PROVE  Rejoined(Append(parts, x), 1) = Rejoined(parts, 1) \o (<<Semicolon>> \o x)
<1>. DEFINE more == Append(parts, x)
            y == <<Semicolon>> \o x
<1>1. /\ more \in Seq(Seq(Byte)) /\ Len(more) = Len(parts) + 1 /\ Len(parts) \in Nat
      /\ more[Len(parts) + 1] = x /\ \A i \in 1..Len(parts) : more[i] = parts[i]
    BY LenProperties
<1>2. y \in Seq(Byte)
    <2>1. <<Semicolon>> \in Seq(Byte)
        BY DEF Semicolon, Byte
    <2>. QED
        BY <2>1, ConcatProperties
<1>. HIDE DEF more
<1>3. Marked(parts) \in Seq(Seq(Byte)) /\ Marked(more) \in Seq(Seq(Byte))
    BY <1>1, JoinedIsFlat
<1>4. Marked(more) = Append(Marked(parts), y)
    <2>. DEFINE a == Marked(more)
                b == Append(Marked(parts), y)
    <2>1. Len(Marked(parts)) = Len(parts) /\ Len(a) = Len(parts) + 1
        BY <1>1 DEF Marked
    <2>2. /\ b \in Seq(Seq(Byte)) /\ Len(b) = Len(parts) + 1 /\ b[Len(parts) + 1] = y
          /\ \A i \in 1..Len(parts) : b[i] = Marked(parts)[i]
        <3>. HIDE DEF y
        <3>. QED
            BY <1>1, <1>2, <1>3, <2>1
    <2>3. Len(parts) + 1 # 1 /\ Len(parts) + 1 \in 1..Len(more)
        BY <1>1
    <2>4. a[Len(parts) + 1] = y
        BY <1>1, <2>3 DEF Marked
    <2>5. \A i \in 1..Len(parts) : a[i] = Marked(parts)[i]
        <3>1. 1 \in 1..Len(parts) /\ \A i \in 1..Len(parts) : i \in 1..Len(more)
            BY <1>1
        <3>. QED
            BY <1>1, <3>1 DEF Marked
    <2>. HIDE DEF a, b, y
    <2>6. \A i \in 1..(Len(parts) + 1) : a[i] = b[i]
        <3>1. \A i \in 1..(Len(parts) + 1) : i \in 1..Len(parts) \/ i = Len(parts) + 1
            BY <1>1
        <3>. QED
            BY <2>2, <2>4, <2>5, <3>1
    <2>7. a \in Seq(Seq(Byte))
        BY <1>3 DEF a
    <2>8. a = b
        BY <2>1, <2>2, <2>6, <2>7, SeqEqual
    <2>. QED
        BY <2>8 DEF a, b
<1>5. FlattenSeq(Append(Marked(parts), y)) = FlattenSeq(Marked(parts)) \o y
    <2>. HIDE DEF y
    <2>. QED
        BY <1>2, <1>3, FlatAppend
<1>6. Rejoined(more, 1) = FlattenSeq(Marked(more)) /\ Rejoined(parts, 1) = FlattenSeq(Marked(parts))
    BY <1>1, JoinedIsFlat
<1>. QED
    BY <1>4, <1>5, <1>6 DEF more

\* One byte more in the last part.
LEMMA JoinLonger ==
    ASSUME NEW parts \in Seq(Seq(Byte)), NEW x \in Seq(Byte), NEW b \in Byte
    PROVE  Rejoined(Append(parts, Append(x, b)), 1) = Append(Rejoined(Append(parts, x), 1), b)
<1>. DEFINE xb == Append(x, b)
<1>1. xb \in Seq(Byte)
    OBVIOUS
<1>2. CASE parts = <<>>
    <2>1. Append(parts, x) = <<x>> /\ Append(parts, xb) = <<xb>>
        BY <1>2
    <2>2. Rejoined(<<x>>, 1) = x /\ Rejoined(<<xb>>, 1) = xb
        <3>. HIDE DEF xb
        <3>. QED
            BY <1>1, JoinOne
    <2>. QED
        BY <2>1, <2>2
<1>3. CASE parts # <<>>
    <2>. DEFINE j == Rejoined(parts, 1)
                semi == <<Semicolon>>
                one == <<b>>
    <2>1. Len(parts) >= 1
        <3>1. Len(parts) \in Nat \ {0}
            BY <1>3, EmptySeq
        <3>. QED
            BY <3>1
    <2>2. j \in Seq(Byte) /\ semi \in Seq(Byte) /\ one \in Seq(Byte)
        <3>1. semi \in Seq(Byte)
            BY DEF Semicolon, Byte
        <3>2. one \in Seq(Byte)
            OBVIOUS
        <3>. QED
            BY <2>1, <3>1, <3>2, JoinedIsFlat
    <2>3. Rejoined(Append(parts, x), 1) = j \o (semi \o x)
        BY <2>1, JoinMore
    <2>4. Rejoined(Append(parts, xb), 1) = j \o (semi \o xb)
        <3>. HIDE DEF xb
        <3>. QED
            BY <1>1, <2>1, JoinMore
    <2>5. xb = x \o one
        BY AppendIsConcat
    <2>. DEFINE sx == semi \o x
                jsx == j \o sx
    <2>6. sx \in Seq(Byte) /\ jsx \in Seq(Byte)
        <3>. HIDE DEF j, semi
        <3>1. sx \in Seq(Byte)
            BY <2>2, ConcatProperties
        <3>. HIDE DEF sx
        <3>. QED
            BY <2>2, <3>1, ConcatProperties
    <2>7. (semi \o x) \o one = semi \o (x \o one)
        <3>. HIDE DEF semi, one
        <3>. QED
            BY <2>2, ConcatAssociative, SMTT(30)
    <2>8. (j \o sx) \o one = j \o (sx \o one)
        <3>. HIDE DEF j, sx, one
        <3>. QED
            BY <2>2, <2>6, ConcatAssociative, SMTT(30)
    <2>9. jsx \o one = Append(jsx, b)
        <3>. HIDE DEF jsx
        <3>. QED
            BY <2>6, AppendIsConcat
    <2>10. j \o (semi \o xb) = Append(jsx, b)
        <3>. HIDE DEF j, semi, one, xb
        <3>. QED
            BY <2>5, <2>7, <2>8, <2>9, Zenon
    <2>. QED
        BY <2>3, <2>4, <2>10
<1>. QED
    BY <1>2, <1>3

\* Parts, of which there is always one.
Parts == {parts \in Seq(Seq(Byte)) : Len(parts) >= 1}

\* A new part, or one byte more in the last one: the byte comes last when the
\* parts are joined.
LEMMA CutOne ==
    ASSUME NEW parts \in Parts, NEW b \in Byte
    PROVE  LET more == Append(parts, <<>>)
               longer == Append(Front(parts), Append(Last(parts), b))
           IN  /\ more \in Parts /\ Len(more) = Len(parts) + 1
               /\ b = Semicolon => Rejoined(more, 1) = Append(Rejoined(parts, 1), b)
               /\ longer \in Parts /\ Len(longer) = Len(parts)
               /\ Rejoined(longer, 1) = Append(Rejoined(parts, 1), b)
<1>. DEFINE front == Front(parts)
            last == Last(parts)
            tail == Append(last, b)
<1>1. parts \in Seq(Seq(Byte)) /\ Len(parts) >= 1 /\ Len(parts) \in Nat /\ <<>> \in Seq(Byte)
    BY LenProperties DEF Parts
<1>2. Rejoined(parts, 1) \in Seq(Byte)
    BY <1>1, JoinedIsFlat
<1>3. Append(parts, <<>>) \in Parts /\ Len(Append(parts, <<>>)) = Len(parts) + 1
    <2>1. Append(parts, <<>>) \in Seq(Seq(Byte)) /\ Len(Append(parts, <<>>)) = Len(parts) + 1
        BY <1>1
    <2>2. Len(parts) + 1 >= 1
        BY <1>1
    <2>. QED
        BY <2>1, <2>2 DEF Parts
<1>4. ASSUME b = Semicolon
      PROVE  Rejoined(Append(parts, <<>>), 1) = Append(Rejoined(parts, 1), b)
    <2>1. Rejoined(Append(parts, <<>>), 1) = Rejoined(parts, 1) \o (<<Semicolon>> \o <<>>)
        BY <1>1, JoinMore
    <2>2. <<Semicolon>> \o <<>> = <<b>>
        BY <1>4 DEF Semicolon
    <2>3. Rejoined(parts, 1) \o <<b>> = Append(Rejoined(parts, 1), b)
        BY <1>2, AppendIsConcat
    <2>. QED
        BY <2>1, <2>2, <2>3
<1>5. Len(parts) - 1 \in Nat /\ (Len(parts) - 1) + 1 = Len(parts) /\ Len(parts) \in 1..Len(parts)
    BY <1>1
<1>6. last \in Seq(Byte)
    BY <1>1, <1>5, ElementOfSeq DEF Last
<1>7. front \in Seq(Seq(Byte)) /\ Append(front, last) = parts
    <2>1. /\ SubSeq(parts, 1, Len(parts) - 1) \in Seq(Seq(Byte))
          /\ SubSeq(parts, 1, (Len(parts) - 1) + 1)
               = Append(SubSeq(parts, 1, Len(parts) - 1), parts[(Len(parts) - 1) + 1])
        BY <1>1, <1>5, PrefixGrows
    <2>2. SubSeq(parts, 1, Len(parts)) = parts
        BY <1>1, SubSeqFull
    <2>. QED
        BY <1>5, <2>1, <2>2 DEF Front, Last
<1>. HIDE DEF front, last
<1>8. tail \in Seq(Byte)
    BY <1>6
<1>9. /\ Append(front, tail) \in Parts /\ Len(Append(front, tail)) = Len(parts)
      /\ Rejoined(Append(front, tail), 1) = Append(Rejoined(parts, 1), b)
    <2>1. Rejoined(Append(front, tail), 1) = Append(Rejoined(Append(front, last), 1), b)
        BY <1>6, <1>7, JoinLonger
    <2>. HIDE DEF tail
    <2>2. /\ Append(front, tail) \in Seq(Seq(Byte)) /\ Len(Append(front, tail)) = Len(front) + 1
          /\ Len(Append(front, last)) = Len(front) + 1
        BY <1>6, <1>7, <1>8
    <2>3. Append(front, tail) \in Parts /\ Len(Append(front, tail)) = Len(parts)
        BY <1>1, <1>7, <2>2 DEF Parts
    <2>. QED
        BY <1>7, <2>1, <2>3
<1>. QED
    BY <1>3, <1>4, <1>9 DEF front, last, tail

\* The positions up to n that hold a ';', and those that do not.
Ends(text, n) == {i \in 1..n : text[i] = Semicolon}
Puts(text, n) == {i \in 1..n : text[i] # Semicolon}

\* One position more is one more of the one or of the other.
LEMMA OneMore ==
    ASSUME NEW text, NEW n \in Nat
    PROVE  /\ Ends(text, n) \subseteq Ends(text, n + 1) /\ Puts(text, n) \subseteq Puts(text, n + 1)
           /\ IsFiniteSet(Ends(text, n)) /\ Cardinality(Ends(text, n)) \in Nat
           /\ IsFiniteSet(Puts(text, n)) /\ Cardinality(Puts(text, n)) \in Nat
           /\ text[n + 1] = Semicolon =>
                 /\ Cardinality(Ends(text, n + 1)) = Cardinality(Ends(text, n)) + 1
                 /\ Puts(text, n + 1) = Puts(text, n)
           /\ text[n + 1] # Semicolon =>
                 /\ Cardinality(Puts(text, n + 1)) = Cardinality(Puts(text, n)) + 1
                 /\ Ends(text, n + 1) = Ends(text, n)
<1>1. 1..(n + 1) = (1..n) \cup {n + 1} /\ n + 1 \notin 1..n
    OBVIOUS
<1>2. IsFiniteSet(1..n) /\ Ends(text, n) \subseteq 1..n /\ Puts(text, n) \subseteq 1..n
    BY FS_Interval DEF Ends, Puts
<1>3. /\ IsFiniteSet(Ends(text, n)) /\ Cardinality(Ends(text, n)) \in Nat
      /\ IsFiniteSet(Puts(text, n)) /\ Cardinality(Puts(text, n)) \in Nat
    BY <1>2, FS_Subset, FS_CardinalityType
<1>4. n + 1 \notin Ends(text, n) /\ n + 1 \notin Puts(text, n)
    BY <1>1 DEF Ends, Puts
<1>5. ASSUME text[n + 1] = Semicolon
      PROVE  /\ Ends(text, n + 1) = Ends(text, n) \cup {n + 1}
             /\ Puts(text, n + 1) = Puts(text, n)
    BY <1>1, <1>5 DEF Ends, Puts
<1>6. ASSUME text[n + 1] # Semicolon
      PROVE  /\ Puts(text, n + 1) = Puts(text, n) \cup {n + 1}
             /\ Ends(text, n + 1) = Ends(text, n)
    BY <1>1, <1>6 DEF Ends, Puts
<1>7. /\ Cardinality(Ends(text, n) \cup {n + 1}) = Cardinality(Ends(text, n)) + 1
      /\ Cardinality(Puts(text, n) \cup {n + 1}) = Cardinality(Puts(text, n)) + 1
    BY <1>3, <1>4, FS_AddElement
<1>. QED
    BY <1>3, <1>5, <1>6, <1>7

\* What the loop over a text passes through.
AllCuts == [parts : Parts, size : Nat]

\* It does.
LEMMA CutsAreCuts ==
    ASSUME NEW cut \in AllCuts, NEW b \in Byte, NEW before
    PROVE  CutStep(cut, b, before) \in AllCuts
<1>1. cut.parts \in Parts /\ cut.size \in Nat
    BY DEF AllCuts
<1>. DEFINE more == Append(cut.parts, <<>>)
            longer == Append(Front(cut.parts), Append(Last(cut.parts), b))
<1>2. more \in Parts /\ longer \in Parts
    BY <1>1, CutOne
<1>3. CutStep(cut, b, before) \in {[parts |-> more, size |-> cut.size],
                                   [parts |-> longer, size |-> cut.size + 1], cut}
    BY DEF CutStep
<1>. HIDE DEF more, longer
<1>. QED
    BY <1>1, <1>2, <1>3 DEF AllCuts

\* After n bytes of a text, none of which was lost.
Uncut(cut, text, n, before) ==
    /\ cut.parts \in Parts
    /\ Rejoined(cut.parts, 1) = SubSeq(text, 1, n)
    /\ Len(cut.parts) = Cardinality(Ends(text, n)) + 1
    /\ cut.size = before + Cardinality(Puts(text, n))

\* No byte is lost where there is room for all.
LEMMA NothingLost ==
    ASSUME NEW text \in Seq(Byte), NEW n \in Nat, n + 1 <= Len(text), NEW before \in Nat,
           NEW cut, Uncut(cut, text, n, before),
           before + Cardinality(Ends(text, n + 1)) + 1 <= MaxOscParams,
           before + Cardinality(Puts(text, n + 1)) <= MaxOscRaw
    PROVE  Uncut(CutStep(cut, text[n + 1], before), text, n + 1, before)
<1>. DEFINE b == text[n + 1]
            more == Append(cut.parts, <<>>)
            longer == Append(Front(cut.parts), Append(Last(cut.parts), b))
<1>1. /\ b \in Byte /\ SubSeq(text, 1, n) \in Seq(Byte)
      /\ SubSeq(text, 1, n + 1) = Append(SubSeq(text, 1, n), b)
    BY PrefixGrows
<1>2. /\ cut.parts \in Parts /\ Rejoined(cut.parts, 1) = SubSeq(text, 1, n)
      /\ Len(cut.parts) = Cardinality(Ends(text, n)) + 1
      /\ cut.size = before + Cardinality(Puts(text, n))
    BY DEF Uncut
<1>3. /\ more \in Parts /\ Len(more) = Len(cut.parts) + 1
      /\ b = Semicolon => Rejoined(more, 1) = Append(Rejoined(cut.parts, 1), b)
      /\ longer \in Parts /\ Len(longer) = Len(cut.parts)
      /\ Rejoined(longer, 1) = Append(Rejoined(cut.parts, 1), b)
    BY <1>1, <1>2, CutOne
<1>4. /\ Cardinality(Ends(text, n)) \in Nat /\ Cardinality(Puts(text, n)) \in Nat
      /\ b = Semicolon => /\ Cardinality(Ends(text, n + 1)) = Cardinality(Ends(text, n)) + 1
                          /\ Puts(text, n + 1) = Puts(text, n)
      /\ b # Semicolon => /\ Cardinality(Puts(text, n + 1)) = Cardinality(Puts(text, n)) + 1
                          /\ Ends(text, n + 1) = Ends(text, n)
    BY OneMore
<1>. DEFINE new == CutStep(cut, b, before)
<1>. HIDE DEF b, more, longer, new
<1>5. CASE b = Semicolon
    <2>1. before + Len(cut.parts) <= MaxOscParams
        BY <1>2, <1>4, <1>5, OscAssumption DEF OscAssumption
    <2>2. new.parts = more /\ new.size = cut.size
        BY <1>5, <2>1 DEF CutStep, more, new
    <2>3. Rejoined(new.parts, 1) = SubSeq(text, 1, n + 1)
        BY <1>1, <1>2, <1>3, <1>5, <2>2
    <2>4. /\ Len(new.parts) = Cardinality(Ends(text, n + 1)) + 1
          /\ new.size = before + Cardinality(Puts(text, n + 1))
        BY <1>2, <1>3, <1>4, <1>5, <2>2
    <2>. QED
        BY <1>3, <2>2, <2>3, <2>4, Zenon DEF Uncut, b, new
<1>6. CASE b # Semicolon
    <2>1. cut.size < MaxOscRaw
        BY <1>2, <1>4, <1>6, OscAssumption DEF OscAssumption
    <2>2. new.parts = longer /\ new.size = cut.size + 1
        BY <1>6, <2>1 DEF CutStep, longer, new
    <2>3. Rejoined(new.parts, 1) = SubSeq(text, 1, n + 1)
        BY <1>1, <1>2, <1>3, <2>2
    <2>4. /\ Len(new.parts) = Cardinality(Ends(text, n + 1)) + 1
          /\ new.size = before + Cardinality(Puts(text, n + 1))
        BY <1>2, <1>3, <1>4, <1>6, <2>2
    <2>. QED
        BY <1>3, <2>2, <2>3, <2>4, Zenon DEF Uncut, b, new
<1>. QED
    BY <1>5, <1>6 DEF b

\* A text that there is room for is the text again when its parts are joined.
LEMMA CutAndJoined ==
    ASSUME NEW text \in Seq(Byte), NEW before \in Nat, Fits(text, before)
    PROVE  Rejoined(Cut(text, before), 1) = text
<1>. DEFINE N == Len(text)
            base == [parts |-> << <<>> >>, size |-> before]
            g == [n \in 1..N |-> [cut \in AllCuts |-> CutStep(cut, text[n], before)]]
            cuts == CutStates(text, before)
            T == {n \in Nat : n <= N => Uncut(cuts[n], text, n, before)}
<1>1. N \in Nat /\ DOMAIN text = 1..N /\ \A n \in 1..N : text[n] \in Byte
    BY LenProperties, ElementOfSeq
<1>2. base \in AllCuts /\ Uncut(base, text, 0, before)
    <2>1. <<>> \in Seq(Byte)
        OBVIOUS
    <2>2. << <<>> >> \in Seq(Seq(Byte)) /\ Len(<< <<>> >>) = 1
        BY <2>1
    <2>3. << <<>> >> \in Parts
        BY <2>2 DEF Parts
    <2>4. Rejoined(<< <<>> >>, 1) = <<>>
        BY <2>1, JoinOne, Zenon
    <2>5. SubSeq(text, 1, 0) = <<>>
        BY SubSeqEmpty
    <2>6. Ends(text, 0) = {} /\ Puts(text, 0) = {}
        BY DEF Ends, Puts
    <2>7. Cardinality(Ends(text, 0)) = 0 /\ Cardinality(Puts(text, 0)) = 0
        BY <2>6, FS_EmptySet
    <2>8. base.parts = << <<>> >> /\ base.size = before /\ base \in AllCuts
        BY <2>3 DEF AllCuts
    <2>. HIDE DEF base
    <2>9. 1 = Cardinality(Ends(text, 0)) + 1 /\ before = before + Cardinality(Puts(text, 0))
        BY <2>7
    <2>. QED
        BY <2>2, <2>3, <2>4, <2>5, <2>8, <2>9, Zenon DEF Uncut
<1>3. \A n \in 1..N, cut \in AllCuts : CutStep(cut, text[n], before) \in AllCuts
    BY <1>1, CutsAreCuts
<1>4. g \in [1..N -> [AllCuts -> AllCuts]]
    BY <1>3
<1>5. PICK f \in [0..N -> AllCuts] : Follows(f, N, base, g)
    <2>. HIDE DEF N, base, g
    <2>. QED
        BY <1>1, <1>2, <1>4, Recursion
<1>6. f[0] = base /\ \A n \in 1..N : f[n] = CutStep(f[n - 1], text[n], before)
    <2>1. \A n \in 1..N : n - 1 \in 0..N
        BY <1>1
    <2>. QED
        BY <1>5, <2>1 DEF Follows
<1>7. cuts = CHOOSE h : h = [n \in 0..N |-> IF n = 0 THEN base
                                            ELSE CutStep(h[n - 1], text[n], before)]
    BY DEF CutStates
<1>. HIDE DEF base
<1>8. f = [n \in 0..N |-> IF n = 0 THEN base ELSE CutStep(f[n - 1], text[n], before)]
    BY <1>6
<1>9. cuts = [n \in 0..N |-> IF n = 0 THEN base ELSE CutStep(cuts[n - 1], text[n], before)]
    BY <1>7, <1>8
<1>. HIDE DEF cuts, N
<1>10. cuts[0] = base /\ \A n \in 1..N : cuts[n] = CutStep(cuts[n - 1], text[n], before)
    BY <1>1, <1>9
<1>11. /\ before + Cardinality(Ends(text, N)) + 1 <= MaxOscParams
       /\ before + Cardinality(Puts(text, N)) <= MaxOscRaw
    <2>1. Semicolons(text) = Ends(text, N) /\ Others(text) = Puts(text, N)
        BY <1>1 DEF Semicolons, Others, Ends, Puts
    <2>. QED
        BY <2>1 DEF Fits
<1>12. 0 \in T
    BY <1>2, <1>10
<1>13. ASSUME NEW n \in Nat, n \in T
       PROVE  n + 1 \in T
    <2>. SUFFICES ASSUME n + 1 <= N
                  PROVE  Uncut(cuts[n + 1], text, n + 1, before)
        OBVIOUS
    <2>1. n <= N /\ n + 1 \in 1..N /\ (n + 1) - 1 = n /\ n + 1 \in Nat
        BY <1>1
    <2>2. Uncut(cuts[n], text, n, before)
        BY <1>13, <2>1
    <2>3. cuts[n + 1] = CutStep(cuts[n], text[n + 1], before)
        BY <1>10, <2>1
    <2>4. /\ Ends(text, n + 1) \subseteq Ends(text, N) /\ Puts(text, n + 1) \subseteq Puts(text, N)
          /\ IsFiniteSet(Ends(text, N)) /\ IsFiniteSet(Puts(text, N))
          /\ Cardinality(Ends(text, N)) \in Nat /\ Cardinality(Puts(text, N)) \in Nat
        <3>1. 1..(n + 1) \subseteq 1..N
            BY <1>1, <2>1
        <3>. QED
            BY <1>1, <3>1, OneMore DEF Ends, Puts
    <2>5. /\ Cardinality(Ends(text, n + 1)) <= Cardinality(Ends(text, N))
          /\ Cardinality(Puts(text, n + 1)) <= Cardinality(Puts(text, N))
        BY <2>4, FS_Subset
    <2>6. /\ Cardinality(Ends(text, n + 1)) \in Nat /\ Cardinality(Puts(text, n + 1)) \in Nat
        BY <2>1, OneMore
    <2>7. /\ before + Cardinality(Ends(text, n + 1)) + 1 <= MaxOscParams
          /\ before + Cardinality(Puts(text, n + 1)) <= MaxOscRaw
        BY <1>11, <2>4, <2>5, <2>6, OscAssumption DEF OscAssumption
    <2>. QED
        BY <2>1, <2>2, <2>3, <2>7, NothingLost DEF N
<1>14. N \in T
    <2>. HIDE DEF T
    <2>. QED
        BY <1>1, <1>12, <1>13, SetInduction
<1>15. Uncut(cuts[N], text, N, before)
    BY <1>1, <1>14
<1>16. Cut(text, before) = cuts[N].parts
    <2>1. before + Len(cuts[N].parts) <= MaxOscParams
        <3>1. Cardinality(Ends(text, N)) \in Nat
            BY <1>1, OneMore
        <3>2. Len(cuts[N].parts) = Cardinality(Ends(text, N)) + 1
            BY <1>15 DEF Uncut
        <3>. QED
            BY <1>11, <3>1, <3>2, OscAssumption DEF OscAssumption
    <2>. QED
        BY <2>1 DEF Cut, cuts, N
<1>17. SubSeq(text, 1, N) = text
    BY SubSeqFull DEF N
<1>. QED
    BY <1>15, <1>16, <1>17 DEF Uncut

\* Two digits behind a '%' are the byte again.
LEMMA DigitsAreByte ==
    ASSUME NEW b \in Byte
    PROVE  /\ IsHex(Digit(b \div 16)) /\ IsHex(Digit(b % 16))
           /\ 16 * HexVal(Digit(b \div 16)) + HexVal(Digit(b % 16)) = b
<1>1. \A d \in 0..15 : HexVal(Digit(d)) = d
    <2>. SUFFICES ASSUME NEW d \in 0..15 PROVE HexVal(Digit(d)) = d
        OBVIOUS
    <2>1. CASE d < 10
        <3>1. Digit(d) = 48 + d /\ 48 + d \in 48..57 /\ (48 + d) - 48 = d
              /\ 48 + d \notin 97..102 /\ 48 + d \notin 65..70
            BY <2>1 DEF Digit
        <3>. QED
            BY <3>1 DEF HexVal
    <2>2. CASE ~(d < 10)
        <3>1. Digit(d) = 55 + d /\ 55 + d \in 65..70 /\ (55 + d) - 65 + 10 = d
              /\ 55 + d \notin 97..102 /\ 55 + d \notin 48..57
            BY <2>2 DEF Digit
        <3>. QED
            BY <3>1 DEF HexVal
    <2>. QED
        BY <2>1, <2>2
<1>2. b \div 16 \in 0..15 /\ b % 16 \in 0..15 /\ 16 * (b \div 16) + (b % 16) = b
    <2>1. \A n \in 0..255 : n \div 16 \in 0..15 /\ n % 16 \in 0..15
        OBVIOUS
    <2>2. \A n \in 0..255 : 16 * (n \div 16) + (n % 16) = n
        OBVIOUS
    <2>. QED
        BY <2>1, <2>2 DEF Byte
<1>3. HexVal(Digit(b \div 16)) = b \div 16 /\ HexVal(Digit(b % 16)) = b % 16
    BY <1>1, <1>2
<1>. QED
    BY <1>2, <1>3 DEF IsHex

\* The decoder with some bytes written and some digits to skip.
Writing(out, left) == [out |-> out, skip |-> left, is |-> "good"]

\* Its steps over a byte that stands for itself, over a '%' and over digits.
LEMMA DecodeSteps ==
    ASSUME NEW text, NEW n, NEW out
    PROVE  /\ text[n] # Percent =>
                 DecodeStep(Writing(out, 0), text, n) = Writing(Append(out, text[n]), 0)
           /\ /\ text[n] = Percent /\ ~Truncated(text, n)
              /\ IsHex(text[n + 1]) /\ IsHex(text[n + 2])
              => DecodeStep(Writing(out, 0), text, n)
                   = Writing(Append(out, 16 * HexVal(text[n + 1]) + HexVal(text[n + 2])), 2)
           /\ DecodeStep(Writing(out, 2), text, n) = Writing(out, 1)
           /\ DecodeStep(Writing(out, 1), text, n) = Writing(out, 0)
<1>1. ASSUME text[n] # Percent
      PROVE  DecodeStep(Writing(out, 0), text, n) = Writing(Append(out, text[n]), 0)
    <2>. DEFINE x == Append(out, text[n])
    <2>1. DecodeStep(Writing(out, 0), text, n) = [Writing(out, 0) EXCEPT !.out = x]
        BY <1>1 DEF DecodeStep, Writing
    <2>2. \A y : [Writing(out, 0) EXCEPT !.out = y] = Writing(y, 0)
        BY DEF Writing
    <2>. QED
        BY <2>1, <2>2, Zenon
<1>2. ASSUME text[n] = Percent, ~Truncated(text, n), IsHex(text[n + 1]), IsHex(text[n + 2])
      PROVE  DecodeStep(Writing(out, 0), text, n)
               = Writing(Append(out, 16 * HexVal(text[n + 1]) + HexVal(text[n + 2])), 2)
    <2>. DEFINE x == Append(out, 16 * HexVal(text[n + 1]) + HexVal(text[n + 2]))
    <2>1. DecodeStep(Writing(out, 0), text, n) = [out |-> x, skip |-> 2, is |-> "good"]
        BY <1>2 DEF DecodeStep, Writing
    <2>2. \A y : Writing(y, 2) = [out |-> y, skip |-> 2, is |-> "good"]
        BY DEF Writing
    <2>. QED
        BY <2>1, <2>2, Zenon
<1>3. DecodeStep(Writing(out, 2), text, n) = Writing(out, 1)
    BY DEF DecodeStep, Writing
<1>4. DecodeStep(Writing(out, 1), text, n) = Writing(out, 0)
    BY DEF DecodeStep, Writing
<1>. QED
    BY <1>1, <1>2, <1>3, <1>4

\* It starts with none, and takes one step for each byte.
LEMMA DecodeLoop ==
    ASSUME NEW text \in Seq(Byte)
    PROVE  LET states == DecodeStates(text)
           IN  /\ states[0] = Writing(<<>>, 0)
               /\ \A n \in 1..Len(text) : states[n] = DecodeStep(states[n - 1], text, n)
<1>. DEFINE N == Len(text)
            States == [out : Seq(Int), skip : Nat, is : {"good", "bad"}]
            base == Writing(<<>>, 0)
            g == [n \in 1..N |-> [state \in States |-> DecodeStep(state, text, n)]]
            states == DecodeStates(text)
<1>1. N \in Nat /\ \A n \in 1..N : text[n] \in Int
    <2>1. \A n \in 1..N : text[n] \in Byte
        BY ElementOfSeq
    <2>2. Byte \subseteq Int
        BY DEF Byte
    <2>. QED
        BY <2>1, <2>2, LenProperties
<1>2. \A b : HexVal(b) \in Int \/ b \notin Int
    BY SMTT(60) DEF HexVal
<1>3. ASSUME NEW n \in 1..N, NEW state \in States
      PROVE  DecodeStep(state, text, n) \in States
    <2>1. CASE state.skip > 0
        BY <2>1 DEF DecodeStep
    <2>2. CASE ~(state.skip > 0) /\ text[n] # Percent
        <3>1. Append(state.out, text[n]) \in Seq(Int)
            BY <1>1
        <3>. QED
            BY <2>2, <3>1 DEF DecodeStep
    <2>3. CASE ~(state.skip > 0) /\ text[n] = Percent /\ Truncated(text, n)
        BY <2>3 DEF DecodeStep
    <2>4. CASE ~(state.skip > 0) /\ text[n] = Percent /\ ~Truncated(text, n)
        <3>1. n + 1 \in 1..N /\ n + 2 \in 1..N
            BY <1>1, <2>4 DEF Truncated
        <3>2. 16 * HexVal(text[n + 1]) + HexVal(text[n + 2]) \in Int
            BY <1>1, <1>2, <3>1
        <3>3. Append(state.out, 16 * HexVal(text[n + 1]) + HexVal(text[n + 2])) \in Seq(Int)
            BY <3>2
        <3>. QED
            BY <2>4, <3>3 DEF DecodeStep
    <2>. QED
        BY <2>1, <2>2, <2>3, <2>4
<1>4. base \in States
    <2>1. <<>> \in Seq(Int)
        OBVIOUS
    <2>. QED
        BY <2>1 DEF Writing
<1>5. g \in [1..N -> [States -> States]]
    <2>. HIDE DEF States
    <2>. QED
        BY <1>3
<1>6. PICK f \in [0..N -> States] : Follows(f, N, base, g)
    <2>. HIDE DEF N, States, base, g
    <2>. QED
        BY <1>1, <1>4, <1>5, Recursion
<1>7. \A n \in 1..N : f[n] = DecodeStep(f[n - 1], text, n)
    <2>. SUFFICES ASSUME NEW n \in 1..N PROVE f[n] = DecodeStep(f[n - 1], text, n)
        OBVIOUS
    <2>1. n - 1 \in 0..N
        BY <1>1
    <2>2. f[n] = g[n][f[n - 1]]
        BY <1>6 DEF Follows
    <2>3. f[n - 1] \in States
        BY <2>1
    <2>. HIDE DEF States
    <2>. QED
        BY <2>2, <2>3
<1>8. f[0] = base
    BY <1>6 DEF Follows
<1>9. states = CHOOSE h : h = [n \in 0..N |-> IF n = 0 THEN base ELSE DecodeStep(h[n - 1], text, n)]
    BY DEF DecodeStates, Writing
<1>. HIDE DEF States, base
<1>10. f = [n \in 0..N |-> IF n = 0 THEN base ELSE DecodeStep(f[n - 1], text, n)]
    BY <1>7, <1>8
<1>11. states = [n \in 0..N |-> IF n = 0 THEN base ELSE DecodeStep(states[n - 1], text, n)]
    BY <1>9, <1>10
<1>. HIDE DEF states, N
<1>12. states[0] = base /\ \A n \in 1..N : states[n] = DecodeStep(states[n - 1], text, n)
    BY <1>1, <1>11
<1>. QED
    BY <1>12 DEF states, N, base

\* A code of the byte b stands in a text behind its first n bytes.
StandsFor(code, b, text, n) ==
    /\ text \in Seq(Byte) /\ n \in Nat /\ b \in Byte /\ code \in Seq(Byte)
    /\ code = Escaped(b) \/ (code = <<b>> /\ b # Percent)
    /\ n + Len(code) <= Len(text)
    /\ \A k \in 1..Len(code) : text[n + k] = code[k]

\* What the decoder does with the code of one byte.
LEMMA CodeIsRead ==
    ASSUME NEW text, NEW n, NEW b, NEW code, StandsFor(code, b, text, n),
           NEW out, DecodeStates(text)[n] = Writing(out, 0)
    PROVE  DecodeStates(text)[n + Len(code)] = Writing(Append(out, b), 0)
<1>. text \in Seq(Byte) /\ n \in Nat /\ b \in Byte /\ code \in Seq(Byte)
    BY DEF StandsFor
<1>0. /\ code = Escaped(b) \/ (code = <<b>> /\ b # Percent)
      /\ n + Len(code) <= Len(text)
      /\ \A k \in 1..Len(code) : text[n + k] = code[k]
    BY DEF StandsFor
<1>. DEFINE states == DecodeStates(text)
<1>1. \A k \in 1..Len(text) : states[k] = DecodeStep(states[k - 1], text, k)
    BY DecodeLoop
<1>2. Len(text) \in Nat
    BY LenProperties
<1>. HIDE DEF states
<1>3. states[n] = Writing(out, 0)
    BY DEF states
<1>4. CASE code = <<b>> /\ b # Percent
    <2>1. Len(code) = 1 /\ code[1] = b
        BY <1>4
    <2>2. 1 \in 1..Len(code) /\ n + 1 <= Len(text)
        BY <1>0, <2>1
    <2>3. text[n + 1] = b /\ n + 1 \in 1..Len(text) /\ (n + 1) - 1 = n
        BY <1>0, <1>2, <2>1, <2>2
    <2>4. states[n + 1] = DecodeStep(Writing(out, 0), text, n + 1)
        BY <1>1, <1>3, <2>3
    <2>5. DecodeStep(Writing(out, 0), text, n + 1) = Writing(Append(out, b), 0)
        BY <1>4, <2>3, DecodeSteps
    <2>. QED
        BY <2>1, <2>4, <2>5 DEF states
<1>5. CASE code = Escaped(b)
    <2>. DEFINE high == Digit(b \div 16)
                low == Digit(b % 16)
    <2>1. Len(code) = 3 /\ code[1] = Percent /\ code[2] = high /\ code[3] = low
        BY <1>5 DEF Escaped
    <2>2. /\ 1 \in 1..Len(code) /\ 2 \in 1..Len(code) /\ 3 \in 1..Len(code)
          /\ n + 3 <= Len(text)
        BY <1>0, <2>1
    <2>3. /\ text[n + 1] = Percent /\ text[n + 2] = high /\ text[n + 3] = low
        BY <1>0, <2>1, <2>2
    <2>4. /\ n + 1 \in 1..Len(text) /\ (n + 1) - 1 = n
          /\ n + 2 \in 1..Len(text) /\ (n + 2) - 1 = n + 1
          /\ n + 3 \in 1..Len(text) /\ (n + 3) - 1 = n + 2
          /\ (n + 1) + 1 = n + 2 /\ (n + 1) + 2 = n + 3
        BY <1>2, <2>2
    <2>5. ~Truncated(text, n + 1)
        BY <1>2, <2>2, <2>4 DEF Truncated
    <2>6. IsHex(high) /\ IsHex(low) /\ 16 * HexVal(high) + HexVal(low) = b
        BY DigitsAreByte
    <2>. HIDE DEF high, low
    <2>7. DecodeStep(Writing(out, 0), text, n + 1) = Writing(Append(out, b), 2)
        <3>1. text[(n + 1) + 1] = high /\ text[(n + 1) + 2] = low
            BY <2>3, <2>4
        <3>2. DecodeStep(Writing(out, 0), text, n + 1)
                = Writing(Append(out, 16 * HexVal(high) + HexVal(low)), 2)
            BY <2>3, <2>5, <2>6, <3>1, DecodeSteps
        <3>. QED
            BY <2>6, <3>2
    <2>8. states[n + 1] = Writing(Append(out, b), 2)
        BY <1>1, <1>3, <2>4, <2>7
    <2>9. \A o, i : /\ DecodeStep(Writing(o, 2), text, i) = Writing(o, 1)
                    /\ DecodeStep(Writing(o, 1), text, i) = Writing(o, 0)
        BY DecodeSteps
    <2>10. states[n + 2] = Writing(Append(out, b), 1)
        BY <1>1, <2>4, <2>8, <2>9
    <2>11. states[n + 3] = Writing(Append(out, b), 0)
        BY <1>1, <2>4, <2>9, <2>10
    <2>. QED
        BY <2>1, <2>11 DEF states
<1>. QED
    BY <1>0, <1>4, <1>5

\* The codes of the bytes of a path.
LEMMA CodesAreBytes ==
    ASSUME NEW path \in Seq(Byte), NEW escape
    PROVE  /\ Codes(path, escape) \in Seq(Seq(Byte)) /\ Len(Codes(path, escape)) = Len(path)
           /\ \A i \in 1..Len(path) :
                 LET code == Codes(path, escape)[i]
                 IN  /\ code = Escaped(path[i]) \/ (code = <<path[i]>> /\ path[i] # Percent)
                     /\ i \notin escape /\ ~MustEscape(path[i]) => code = <<path[i]>>
<1>. DEFINE codes == Codes(path, escape)
<1>1. Len(path) \in Nat /\ DOMAIN path = 1..Len(path) /\ \A i \in 1..Len(path) : path[i] \in Byte
    BY LenProperties, ElementOfSeq
<1>2. codes = [i \in 1..Len(path) |-> IF i \in escape \/ MustEscape(path[i])
                                        THEN Escaped(path[i]) ELSE <<path[i]>>]
    BY <1>1 DEF Codes
<1>3. ASSUME NEW b \in Byte PROVE Escaped(b) \in Seq(Byte) /\ <<b>> \in Seq(Byte)
    <2>1. b \div 16 \in 0..15 /\ b % 16 \in 0..15
        BY DEF Byte
    <2>2. \A d \in 0..15 : Digit(d) \in Byte
        BY DEF Digit, Byte
    <2>3. Percent \in Byte
        BY DEF Percent, Byte
    <2>. QED
        BY <2>1, <2>2, <2>3 DEF Escaped
<1>. HIDE DEF codes
<1>4. \A i \in 1..Len(path) : codes[i] \in Seq(Byte)
    BY <1>1, <1>2, <1>3
<1>5. codes \in Seq(Seq(Byte)) /\ Len(codes) = Len(path)
    BY <1>1, <1>2, <1>4
<1>6. \A i \in 1..Len(path) : ~MustEscape(path[i]) => path[i] # Percent
    BY DEF MustEscape
<1>. QED
    BY <1>2, <1>5, <1>6 DEF codes

\* What is escaped and decoded is the path, when that is UTF-8.
LEMMA EncodedAndDecoded ==
    ASSUME NEW path \in Seq(Byte), NEW escape
    PROVE  /\ Encoded(path, escape) \in Seq(Byte)
           /\ PercentDecode(Encoded(path, escape)) = IF IsUtf8(path) THEN path ELSE NoPath
<1>. DEFINE codes == Codes(path, escape)
            N == Len(path)
            text == FlattenSeq(codes)
            Before(k) == FlattenSeq(SubSeq(codes, 1, k))
            states == DecodeStates(text)
            Good(k) == states[Len(Before(k))] = Writing(SubSeq(path, 1, k), 0)
            T == {k \in Nat : k <= N => Good(k)}
<1>1. /\ codes \in Seq(Seq(Byte)) /\ Len(codes) = N /\ N \in Nat
      /\ \A i \in 1..N : path[i] \in Byte
      /\ \A i \in 1..N : codes[i] = Escaped(path[i]) \/ (codes[i] = <<path[i]>> /\ path[i] # Percent)
    BY CodesAreBytes, LenProperties, ElementOfSeq
<1>2. text \in Seq(Byte)
    <2>. HIDE DEF codes
    <2>. QED
        BY <1>1, FlatType
<1>. HIDE DEF codes, text, N
<1>3. Good(0)
    <2>1. SubSeq(codes, 1, 0) = <<>> /\ SubSeq(path, 1, 0) = <<>>
        BY SubSeqEmpty
    <2>2. Len(Before(0)) = 0
        <3>1. Before(0) = <<>>
            BY <2>1, FlatEmpty
        <3>. HIDE DEF Before
        <3>. QED
            BY <3>1, EmptySeq
    <2>3. states[0] = Writing(<<>>, 0)
        BY <1>2, DecodeLoop
    <2>. HIDE DEF states, Before
    <2>. QED
        BY <2>1, <2>2, <2>3
<1>4. ASSUME NEW k \in Nat, k + 1 <= N, Good(k)
      PROVE  Good(k + 1)
    <2>. DEFINE n == Len(Before(k))
                b == path[k + 1]
                code == codes[k + 1]
    <2>1. k + 1 \in 1..N
        BY <1>1, <1>4
    <2>2. code \in Seq(Byte) /\ b \in Byte
        BY <1>1, <2>1, ElementOfSeq
    <2>3. code = Escaped(b) \/ (code = <<b>> /\ b # Percent)
        BY <1>1, <2>1
    <2>4. /\ n \in Nat /\ Len(Before(k + 1)) = n + Len(code) /\ n + Len(code) <= Len(text)
          /\ \A j \in 1..Len(code) : text[n + j] = code[j]
        <3>1. k + 1 <= Len(codes)
            BY <1>1, <1>4
        <3>2. /\ Len(FlattenSeq(SubSeq(codes, 1, k))) \in Nat
              /\ Len(FlattenSeq(SubSeq(codes, 1, k + 1)))
                    = Len(FlattenSeq(SubSeq(codes, 1, k))) + Len(codes[k + 1])
              /\ Len(FlattenSeq(SubSeq(codes, 1, k))) + Len(codes[k + 1]) <= Len(FlattenSeq(codes))
              /\ \A j \in 1..Len(codes[k + 1]) :
                    FlattenSeq(codes)[Len(FlattenSeq(SubSeq(codes, 1, k))) + j] = codes[k + 1][j]
            <4>1. codes \in Seq(Seq(Byte))
                BY <1>1
            <4>. QED
                BY <3>1, <4>1, FlatPlace
        <3>. QED
            BY <3>2, Zenon DEF text
    <2>. DEFINE out == SubSeq(path, 1, k)
    <2>5. DecodeStates(text)[n] = Writing(out, 0)
        BY <1>4
    <2>. HIDE DEF n, code, b, out, Before
    <2>6. DecodeStates(text)[n + Len(code)] = Writing(Append(out, b), 0)
        <3>1. StandsFor(code, b, text, n)
            BY <1>2, <2>2, <2>3, <2>4 DEF StandsFor
        <3>. QED
            BY <2>5, <3>1, CodeIsRead
    <2>7. SubSeq(path, 1, k + 1) = Append(SubSeq(path, 1, k), b)
        BY <1>4, PrefixGrows DEF b, N
    <2>8. Len(Before(k + 1)) = n + Len(code)
        BY <2>4
    <2>. HIDE DEF Before
    <2>. QED
        BY <2>6, <2>7, <2>8, Zenon DEF out
<1>5. N \in T
    <2>. HIDE DEF Good
    <2>1. 0 \in T
        BY <1>3
    <2>2. ASSUME NEW k \in Nat, k \in T PROVE k + 1 \in T
        <3>. SUFFICES ASSUME k + 1 <= N PROVE Good(k + 1)
            OBVIOUS
        <3>1. k <= N
            BY <1>1
        <3>. QED
            BY <1>4, <2>2, <3>1
    <2>. HIDE DEF T
    <2>. QED
        BY <1>1, <2>1, <2>2, SetInduction
<1>6. Good(N)
    <2>. HIDE DEF Good
    <2>. QED
        BY <1>1, <1>5
<1>7. SubSeq(codes, 1, N) = codes /\ SubSeq(path, 1, N) = path
    BY <1>1, SubSeqFull DEF N
<1>8. states[Len(text)] = Writing(path, 0)
    <2>1. Before(N) = text
        BY <1>7 DEF text
    <2>. HIDE DEF states, Before
    <2>. QED
        BY <1>6, <1>7, <2>1
<1>9. PercentDecode(text) = IF IsUtf8(path) THEN path ELSE NoPath
    <2>1. Writing(path, 0).is = "good" /\ Writing(path, 0).out = path
        BY DEF Writing
    <2>. HIDE DEF states
    <2>2. DecodeStates(text)[Len(text)] = Writing(path, 0)
        BY <1>8 DEF states
    <2>. QED
        BY <2>1, <2>2 DEF PercentDecode
<1>10. Encoded(path, escape) = text
    BY DEF Encoded, text, codes
<1>. QED
    BY <1>2, <1>9, <1>10

\* The path begins with the first "/" behind the host.
LEMMA HostEnds ==
    ASSUME NEW host \in Seq(Byte), ~Has(host, Slash),
           NEW text \in Seq(Byte), Len(text) >= 1, text[1] = Slash
    PROVE  PathOf(host \o text) = LocalPath(PercentDecode(text))
<1>. DEFINE all == host \o text
            m == Len(host) + 1
<1>1. /\ Len(host) \in Nat /\ Len(text) \in Nat /\ all \in Seq(Byte)
      /\ Len(all) = Len(host) + Len(text)
    BY LenProperties, ConcatProperties
<1>2. \A i \in 1..(Len(host) + Len(text)) :
          all[i] = IF i <= Len(host) THEN host[i] ELSE text[i - Len(host)]
    BY ConcatProperties
<1>3. DOMAIN all = 1..(Len(host) + Len(text)) /\ DOMAIN host = 1..Len(host)
    BY <1>1, LenProperties
<1>. HIDE DEF all
<1>4. m \in DOMAIN all /\ all[m] = Slash
    <2>1. m \in 1..(Len(host) + Len(text)) /\ ~(m <= Len(host)) /\ m - Len(host) = 1
        BY <1>1
    <2>. QED
        BY <1>2, <1>3, <2>1
<1>5. \A j \in 1..(m - 1) : all[j] # Slash
    <2>1. \A j \in 1..(m - 1) : j \in 1..Len(host) /\ j <= Len(host)
                                /\ j \in 1..(Len(host) + Len(text))
        BY <1>1
    <2>. QED
        BY <1>2, <1>3, <2>1 DEF Has
<1>6. FirstSlash(all) = m
    <2>1. \A i \in DOMAIN all :
              all[i] = Slash /\ (\A j \in 1..(i - 1) : all[j] # Slash) => i = m
        <3>. SUFFICES ASSUME NEW i \in 1..(Len(host) + Len(text)), all[i] = Slash,
                             \A j \in 1..(i - 1) : all[j] # Slash
                      PROVE  i = m
            BY <1>3
        <3>1. ~(i \in 1..(m - 1))
            BY <1>5
        <3>2. ~(m \in 1..(i - 1))
            BY <1>4
        <3>. QED
            BY <1>1, <3>1, <3>2
    <2>2. m \in DOMAIN all /\ all[m] = Slash /\ \A j \in 1..(m - 1) : all[j] # Slash
        BY <1>4, <1>5
    <2>. HIDE DEF m
    <2>. QED
        BY <2>1, <2>2 DEF FirstSlash
<1>7. SubSeq(all, m, Len(all)) = text
    <2>1. SubSeq(host \o text, Len(host) + 1, Len(host \o text))
            = SubSeq(host, Len(host) + 1, Len(host)) \o text
        <3>1. Len(host) \in 0..Len(host)
            BY <1>1
        <3>. QED
            BY <3>1, TailOfConcat
    <2>2. SubSeq(host, Len(host) + 1, Len(host)) = <<>>
        BY <1>1, SubSeqEmpty
    <2>3. <<>> \o text = text
        BY ConcatEmptySeq
    <2>. QED
        BY <2>1, <2>2, <2>3 DEF all
<1>8. Has(all, Slash)
    BY <1>4 DEF Has
<1>. HIDE DEF m
<1>9. PathOf(all) = LocalPath(PercentDecode(SubSeq(all, FirstSlash(all), Len(all))))
    BY <1>8 DEF PathOf
<1>. QED
    BY <1>6, <1>7, <1>9 DEF all

\* The scheme is found, and what is behind it is read.
LEMMA SchemeEnds ==
    ASSUME NEW text \in Seq(Byte)
    PROVE  ParseOsc7(Scheme \o text) = PathOf(text)
<1>. DEFINE all == Scheme \o text
<1>1. Scheme \in Seq(Byte) /\ Len(Scheme) = 7
    BY DEF Scheme, Byte
<1>2. \A i \in 1..7 : Scheme[i] \notin 65..90
    <2>1. /\ Scheme[1] = 102 /\ Scheme[2] = 105 /\ Scheme[3] = 108 /\ Scheme[4] = 101
          /\ Scheme[5] = 58 /\ Scheme[6] = 47 /\ Scheme[7] = 47
        BY DEF Scheme
    <2>2. \A i \in 1..7 : i = 1 \/ i = 2 \/ i = 3 \/ i = 4 \/ i = 5 \/ i = 6 \/ i = 7
        OBVIOUS
    <2>3. /\ 102 \notin 65..90 /\ 105 \notin 65..90 /\ 108 \notin 65..90
          /\ 101 \notin 65..90 /\ 58 \notin 65..90 /\ 47 \notin 65..90
        OBVIOUS
    <2>. HIDE DEF Scheme
    <2>4. /\ Scheme[1] \notin 65..90 /\ Scheme[2] \notin 65..90 /\ Scheme[3] \notin 65..90
          /\ Scheme[4] \notin 65..90 /\ Scheme[5] \notin 65..90 /\ Scheme[6] \notin 65..90
          /\ Scheme[7] \notin 65..90
        BY <2>1, <2>3
    <2>5. SUFFICES ASSUME NEW i \in 1..7 PROVE Scheme[i] \notin 65..90
        OBVIOUS
    <2>6. i = 1 \/ i = 2 \/ i = 3 \/ i = 4 \/ i = 5 \/ i = 6 \/ i = 7
        BY <2>2, <2>5
    <2>. QED
        BY <2>4, <2>6
<1>. HIDE DEF Scheme
<1>3. /\ Len(text) \in Nat /\ Len(all) = 7 + Len(text)
      /\ \A i \in 1..(7 + Len(text)) : i <= 7 => all[i] = Scheme[i]
    <2>1. /\ Len(text) \in Nat /\ Len(all) = Len(Scheme) + Len(text)
          /\ \A i \in 1..(Len(Scheme) + Len(text)) :
                 all[i] = IF i <= Len(Scheme) THEN Scheme[i] ELSE text[i - Len(Scheme)]
        BY <1>1, LenProperties, ConcatProperties
    <2>. HIDE DEF all
    <2>. QED
        BY <1>1, <2>1
<1>4. HasScheme(all)
    <2>1. Len(all) >= Len(Scheme) /\ DOMAIN Scheme = 1..7
        BY <1>1, <1>3, LenProperties
    <2>2. \A i \in 1..7 : all[i] = Scheme[i]
        <3>1. \A i \in 1..7 : i \in 1..(7 + Len(text)) /\ i <= 7
            BY <1>3
        <3>. QED
            BY <1>3, <3>1
    <2>3. \A i \in 1..7 : Lower(all[i]) = Scheme[i]
        BY <1>2, <2>2 DEF Lower
    <2>. HIDE DEF all
    <2>. QED
        BY <2>1, <2>3 DEF HasScheme
<1>5. SubSeq(all, Len(Scheme) + 1, Len(all)) = text
    <2>1. SubSeq(Scheme \o text, Len(Scheme) + 1, Len(Scheme \o text))
            = SubSeq(Scheme, Len(Scheme) + 1, Len(Scheme)) \o text
        <3>1. Len(Scheme) \in 0..Len(Scheme)
            BY <1>1
        <3>. QED
            BY <1>1, <3>1, TailOfConcat
    <2>2. SubSeq(Scheme, Len(Scheme) + 1, Len(Scheme)) = <<>>
        BY <1>1, SubSeqEmpty
    <2>3. <<>> \o text = text
        BY ConcatEmptySeq
    <2>. QED
        BY <2>1, <2>2, <2>3
<1>. HIDE DEF all
<1>6. ParseOsc7(all) = PathOf(SubSeq(all, Len(Scheme) + 1, Len(all)))
    BY <1>4 DEF ParseOsc7
<1>. QED
    BY <1>5, <1>6 DEF all

\* Any directory arrives whose report holds no control bytes and stays within
\* the parser's limits, whatever these limits and its host are and however it is
\* escaped behind its first "/" (parse_osc7 and parse_osc9_9 in cwd.rs behind the
\* OSC strings of ansi_parser.rs).
THEOREM EveryDirectoryArrives ==
    ASSUME NEW path \in Seq(Byte), path # <<>>, path[1] = Slash,
           NEW host \in Seq(Byte), ~Has(host, Slash), NEW escape, 1 \notin escape
    PROVE  Arrives(path, host, escape)
<1>. DEFINE e == Encoded(path, escape)
            codes == Codes(path, escape)
<1>1. Len(path) \in Nat /\ Len(path) >= 1 /\ 0 + 1 <= Len(path) /\ 1 \in 1..Len(path)
    <2>1. Len(path) \in Nat \ {0}
        BY EmptySeq
    <2>. QED
        BY <2>1
<1>2. e \in Seq(Byte) /\ PercentDecode(e) = IF IsUtf8(path) THEN path ELSE NoPath
    BY EncodedAndDecoded
<1>3. Len(e) >= 1 /\ e[1] = Slash
    <2>1. codes \in Seq(Seq(Byte)) /\ Len(codes) = Len(path) /\ codes[1] = <<Slash>>
        <3>1. ~MustEscape(path[1])
            BY DEF MustEscape, Slash, Percent
        <3>. QED
            BY <1>1, <3>1, CodesAreBytes
    <2>. HIDE DEF codes
    <2>2. SubSeq(codes, 1, 0) = <<>>
        BY SubSeqEmpty
    <2>3. Len(FlattenSeq(SubSeq(codes, 1, 0))) = 0
        <3>1. FlattenSeq(SubSeq(codes, 1, 0)) = <<>>
            BY <2>2, FlatEmpty
        <3>. QED
            BY <3>1, EmptySeq
    <2>4. /\ 0 + Len(codes[0 + 1]) <= Len(FlattenSeq(codes))
          /\ \A j \in 1..Len(codes[0 + 1]) : FlattenSeq(codes)[0 + j] = codes[0 + 1][j]
        <3>1. 0 \in Nat /\ 0 + 1 <= Len(codes)
            BY <1>1, <2>1
        <3>2. /\ Len(FlattenSeq(SubSeq(codes, 1, 0))) + Len(codes[0 + 1]) <= Len(FlattenSeq(codes))
              /\ \A j \in 1..Len(codes[0 + 1]) :
                    FlattenSeq(codes)[Len(FlattenSeq(SubSeq(codes, 1, 0))) + j] = codes[0 + 1][j]
            BY <2>1, <3>1, FlatPlace
        <3>. QED
            BY <2>3, <3>2, Zenon
    <2>5. 0 + 1 = 1 /\ Len(codes[1]) = 1 /\ codes[1][1] = Slash /\ 1 \in 1..1
        BY <2>1
    <2>6. FlattenSeq(codes) = e
        BY DEF codes, Encoded
    <2>. HIDE DEF e
    <2>7. 0 + Len(codes[1]) <= Len(e) /\ e[0 + 1] = Slash
        BY <2>4, <2>5, <2>6
    <2>. QED
        BY <2>5, <2>7
<1>. HIDE DEF e, codes
<1>4. host \o e \in Seq(Byte) /\ Scheme \in Seq(Byte)
    BY <1>2, ConcatProperties DEF Scheme, Byte
<1>5. (Scheme \o host) \o e = Scheme \o (host \o e)
    <2>. HIDE DEF Scheme
    <2>. QED
        BY <1>2, <1>4, ConcatAssociative, SMTT(30)
<1>6. ParseOsc7(Scheme \o (host \o e)) = LocalPath(PercentDecode(e))
    <2>. DEFINE he == host \o e
    <2>1. PathOf(he) = LocalPath(PercentDecode(e))
        BY <1>2, <1>3, HostEnds
    <2>2. he \in Seq(Byte)
        BY <1>4
    <2>. HIDE DEF he
    <2>3. ParseOsc7(Scheme \o he) = PathOf(he)
        BY <2>2, SchemeEnds
    <2>. QED
        BY <2>1, <2>3 DEF he
<1>. DEFINE uri == Uri(path, host, escape)
<1>7. uri = (Scheme \o host) \o e /\ uri \in Seq(Byte)
    <2>1. uri = (Scheme \o host) \o e
        BY DEF Uri, e
    <2>2. Scheme \o host \in Seq(Byte)
        BY <1>4, ConcatProperties
    <2>. QED
        BY <1>2, <2>1, <2>2, ConcatProperties
<1>. HIDE DEF uri
<1>8. LocalPath(PercentDecode(e)) = Expected(path)
    <2>1. LocalPath(NoPath) = NoPath
        BY DEF LocalPath, NoPath, Has, WithoutDriveSlash
    <2>2. CASE IsUtf8(path)
        BY <1>2, <2>2 DEF Expected
    <2>3. CASE ~IsUtf8(path)
        BY <1>2, <2>1, <2>3 DEF Expected
    <2>. QED
        BY <2>2, <2>3
<1>9. ASSUME Fits(uri, 1)
      PROVE  ParseOsc7(Rejoined(Cut(uri, 1), 1)) = Expected(path)
    <2>1. Rejoined(Cut(uri, 1), 1) = uri
        BY <1>7, <1>9, CutAndJoined
    <2>2. ParseOsc7(uri) = Expected(path)
        BY <1>5, <1>6, <1>7, <1>8, Zenon
    <2>. QED
        BY <2>1, <2>2, Zenon
<1>10. ASSUME Fits(path, 2)
       PROVE  ParseOsc9(Rejoined(Cut(path, 2), 1)) = IF IsUtf8(path) THEN path ELSE NoPath
    <2>1. Rejoined(Cut(path, 2), 1) = path
        BY <1>10, CutAndJoined
    <2>2. ~Has(path, Nul)
        BY <1>10 DEF Fits, Has, Nul
    <2>. QED
        BY <2>1, <2>2 DEF ParseOsc9
<1>. QED
    BY <1>9, <1>10, Zenon DEF Arrives, uri

-----------------------------------------------------------------------------
(* Types.  Pens and flags come back from the DECSC stack and from the      *)
(* parked cursor, so these have theirs too.                                *)

AllFlags == SUBSET (PrivateModes \cup {7, DECTCEM})
Saved == [pen : AllPens, public : SUBSET {4, 20}, private : AllFlags]
Parked == [pen : AllPens, hidden : BOOLEAN, stack : Seq(Saved)]
Sets == {"Ascii", "DecSpecial"}

CursorOK == pen \in AllPens /\ hidden \in BOOLEAN /\ stack \in Seq(Saved)
FlagsOK == public \in SUBSET {4, 20} /\ private \in AllFlags /\ blankReverse \in BOOLEAN
AltOK ==
    /\ altScreen \in BOOLEAN
    /\ altScreen \/ altCursor = <<>>
    /\ altCursor = <<>> \/ \E c \in Parked : altCursor = <<c>>
CharsetsOK == charsets \in [g0 : Sets, g1 : Sets, active : Sets]

TypeInv == CursorOK /\ FlagsOK /\ AltOK /\ CharsetsOK

\* The pens that a rendition can give, and the blank ones, are pens.
LEMMA BlankPens == BlankPen \in AllPens /\ ResetPen \in AllPens
<1>1. Default \in Colors
    BY DEF Colors
<1>2. BlankPen \in AllPens
    BY <1>1 DEF BlankPen, Pen, AllPens
<1>3. (IF blankReverse \/ HasPrivate(DECSCNM) THEN {"reverse"} ELSE {}) \in SUBSET Attributes
    BY DEF Attributes
<1>. QED
    BY <1>2, <1>3 DEF ResetPen, AllPens

\* A rendition with any parameters leaves a pen.
LEMMA RenditionsArePens ==
    ASSUME NEW params \in Seq(Nat), pen \in AllPens
    PROVE  SelectGraphicRendition(pen, params, ResetPen) \in AllPens
<1>1. Len(params) \in 0..Len(params)
    <2>1. Len(params) \in Nat
        BY LenProperties
    <2>. QED
        BY <2>1
<1>2. ResetPen \in AllPens
    BY BlankPens
<1>3. SgrStates(pen, params, ResetPen)[Len(params)].pen \in AllPens
    <2>. HIDE DEF ResetPen
    <2>. QED
        BY <1>1, <1>2, SgrLoop
<1>. QED
    BY <1>3 DEF SelectGraphicRendition

\* A cursor put back keeps the types, and so does one parked.
LEMMA CursorTypes ==
    /\ DefaultCursor => CursorOK'
    /\ \A c \in Parked : Cursor(c) => CursorOK'
    /\ CursorOK => SavedCursor \in Parked
<1>1. DefaultCursor => CursorOK'
    <2>1. <<>> \in Seq(Saved)
        OBVIOUS
    <2>. QED
        BY <2>1, BlankPens DEF DefaultCursor, Cursor, CursorOK
<1>2. \A c \in Parked : Cursor(c) => CursorOK'
    BY DEF Parked, Cursor, CursorOK
<1>3. CursorOK => SavedCursor \in Parked
    BY DEF Parked, SavedCursor, CursorOK
<1>. QED
    BY <1>1, <1>2, <1>3

\* Saving a cursor and restoring one keep the types of the cursor and the flags.
LEMMA SavedTypes ==
    /\ TypeInv /\ SaveCursor => stack' \in Seq(Saved)
    /\ TypeInv /\ RestoreCursor => pen' \in AllPens /\ public' \in SUBSET {4, 20} /\ private' \in AllFlags
                                   /\ stack' \in Seq(Saved)
<1>. USE DEF TypeInv, CursorOK, FlagsOK
<1>1. ASSUME TypeInv, SaveCursor PROVE stack' \in Seq(Saved)
    <2>. DEFINE entry == [pen |-> pen, public |-> public, private |-> private]
    <2>1. entry \in Saved
        BY <1>1 DEF Saved
    <2>2. stack' = Append(stack, entry) /\ stack \in Seq(Saved)
        BY <1>1 DEF SaveCursor
    <2>. HIDE DEF entry
    <2>. QED
        BY <2>1, <2>2
<1>2. ASSUME TypeInv, RestoreCursor
      PROVE  pen' \in AllPens /\ public' \in SUBSET {4, 20} /\ private' \in AllFlags
             /\ stack' \in Seq(Saved)
    <2>1. CASE stack = <<>>
        BY <1>2, <2>1 DEF RestoreCursor
    <2>2. CASE stack # <<>>
        <3>1. Len(stack) \in 1..Len(stack)
            <4>1. Len(stack) \in Nat /\ Len(stack) # 0
                BY <1>2, <2>2, EmptySeq, LenProperties
            <4>. QED
                BY <4>1
        <3>2. Last(stack) \in Saved
            BY <1>2, <3>1, ElementOfSeq DEF Last
        <3>3. Front(stack) \in Seq(Saved)
            <4>1. Len(stack) - 1 <= Len(stack) /\ Len(stack) - 1 \in Nat
                BY <3>1
            <4>2. \A i \in 1..(Len(stack) - 1) : stack[i] \in Saved
                BY <1>2, <3>1, ElementOfSeq
            <4>3. SubSeq(stack, 1, Len(stack) - 1) \in Seq(Saved)
                BY <1>2, <4>1, <4>2, SubSeqProperties
            <4>. QED
                BY <4>3 DEF Front
        <3>4. /\ pen' = Last(stack).pen /\ public' = Last(stack).public
              /\ private' = Last(stack).private /\ stack' = Front(stack)
            BY <1>2, <2>2 DEF RestoreCursor
        <3>. QED
            BY <3>2, <3>3, <3>4 DEF Saved
    <2>. QED
        BY <2>1, <2>2
<1>. QED
    BY <1>1, <1>2

\* The invariant holds at the start, and every step preserves it.
LEMMA TypeHolds == Spec => []TypeInv
<1>. USE RenditionAssumption DEF RenditionAssumption, cursor, modes, alt, rest
<1>1. Init => TypeInv
    <2>. SUFFICES ASSUME Init PROVE TypeInv
        OBVIOUS
    <2>0. <<>> \in Seq(Saved)
        OBVIOUS
    <2>1. CursorOK
        BY <2>0, BlankPens DEF Init, CursorOK
    <2>2. FlagsOK
        BY DEF Init, FlagsOK, AllFlags
    <2>3. AltOK
        <3>1. altScreen = FALSE /\ altCursor = <<>>
            BY DEF Init
        <3>2. altScreen \in BOOLEAN
            BY <3>1
        <3>. QED
            BY <3>1, <3>2 DEF AltOK
    <2>4. CharsetsOK
        BY DEF Init, CharsetsOK, Sets
    <2>. QED
        BY <2>1, <2>2, <2>3, <2>4 DEF TypeInv
<1>2. TypeInv /\ [Next]_vars => TypeInv'
    <2>. SUFFICES ASSUME TypeInv, [Next]_vars PROVE TypeInv'
        OBVIOUS
    <2>. USE DEF TypeInv
    <2>1. CASE UNCHANGED vars
        BY <2>1 DEF vars, CursorOK, FlagsOK, AltOK, CharsetsOK
    <2>2. CASE SaveCursor
        BY <2>2, SavedTypes DEF SaveCursor, CursorOK, FlagsOK, AltOK, CharsetsOK
    <2>3. CASE RestoreCursor
        BY <2>3, SavedTypes DEF RestoreCursor, CursorOK, FlagsOK, AltOK, CharsetsOK
    <2>4. CASE Reset
        <3>1. CursorOK'
            BY <2>4, CursorTypes DEF Reset
        <3>2. FlagsOK'
            BY <2>4 DEF Reset, FlagsOK, AllFlags
        <3>3. AltOK'
            <4>1. altScreen' = FALSE /\ altCursor' = <<>>
                BY <2>4 DEF Reset
            <4>2. altScreen' \in BOOLEAN
                BY <4>1
            <4>. QED
                BY <4>1, <4>2 DEF AltOK
        <3>4. CharsetsOK'
            BY <2>4 DEF Reset, CharsetsOK, Sets
        <3>. QED
            BY <3>1, <3>2, <3>3, <3>4
    <2>5. CASE ShiftIn \/ ShiftOut
        BY <2>5 DEF ShiftIn, ShiftOut, CursorOK, FlagsOK, AltOK, CharsetsOK
    <2>6. CASE \E mode \in {4, 20, 99} : SetPublicMode(mode) \/ ResetPublicMode(mode)
        <3>1. UNCHANGED <<cursor, blankReverse, private, alt, charsets>>
            BY <2>6 DEF SetPublicMode, ResetPublicMode
        <3>2. \A mode : WithPublic(mode) \in SUBSET {4, 20} /\ WithoutPublic(mode) \in SUBSET {4, 20}
            BY DEF WithPublic, WithoutPublic, FlagsOK
        <3>3. public' \in SUBSET {4, 20}
            BY <2>6, <3>2 DEF SetPublicMode, ResetPublicMode
        <3>. QED
            BY <3>1, <3>3 DEF CursorOK, FlagsOK, AltOK, CharsetsOK
    <2>7. CASE \E params \in SgrLists : SetRendition(params)
        <3>1. PICK params \in SgrLists : SetRendition(params)
            BY <2>7
        <3>2. pen' \in AllPens
            BY <3>1, RenditionsArePens DEF SetRendition, CursorOK
        <3>. QED
            BY <3>1, <3>2 DEF SetRendition, CursorOK, FlagsOK, AltOK, CharsetsOK
    <2>8. CASE \E code \in {"B", "0", "Z"}, target \in {"(", ")", "*"} : DefineCharset(code, target)
        <3>1. PICK code \in {"B", "0", "Z"}, target \in {"(", ")", "*"} : DefineCharset(code, target)
            BY <2>8
        <3>2. FromDesignation(code) = "unknown" \/ FromDesignation(code) \in Sets
            BY DEF FromDesignation, Sets
        <3>3. CharsetsOK'
            BY <3>1, <3>2 DEF DefineCharset, CharsetsOK
        <3>. QED
            BY <3>1, <3>3 DEF DefineCharset, CursorOK, FlagsOK, AltOK
    <2>9. CASE \/ \E params \in OscReports : OscDispatch(params)
               \/ \E id \in 0..7 : SetCursorStyle(id)
               \/ \E count \in 0..2 : PopKeyboardModes(count)
               \/ \E mode \in KeyboardModes :
                     \/ PushKeyboardMode(mode)
                     \/ \E behavior \in {"replace", "union", "difference"} : SetKeyboardMode(mode, behavior)
        <3>1. UNCHANGED <<cursor, modes, alt, charsets>>
            BY <2>9 DEF OscDispatch, SetCursorStyle, PopKeyboardModes, PushKeyboardMode, SetKeyboardMode
        <3>. QED
            BY <3>1 DEF CursorOK, FlagsOK, AltOK, CharsetsOK
    <2>10. ASSUME NEW mode \in PrivateModes, SetPrivateMode(mode) PROVE TypeInv'
        <3>1. CursorOK'
            <4>1. CASE mode = DECCOLM
                BY <2>10, <4>1, CursorTypes DEF SetPrivateMode
            <4>2. CASE mode # DECCOLM
                <5>1. hidden' = (hidden /\ mode # DECTCEM) /\ UNCHANGED <<pen, stack>>
                    BY <2>10, <4>2 DEF SetPrivateMode
                <5>. QED
                    BY <5>1 DEF CursorOK
            <4>. QED
                BY <4>1, <4>2
        <3>2. FlagsOK'
            BY <2>10 DEF SetPrivateMode, WithPrivate, FlagsOK, AllFlags
        <3>3. AltOK'
            <4>1. CASE UNCHANGED alt
                BY <4>1 DEF AltOK
            <4>2. CASE EnterAlt(mode = Alt1049)
                <5>1. CASE altScreen
                    BY <4>2, <5>1 DEF EnterAlt, AltOK
                <5>2. CASE ~altScreen /\ mode = Alt1049
                    <6>1. altScreen' = TRUE /\ altCursor' = <<SavedCursor>>
                        BY <4>2, <5>2 DEF EnterAlt
                    <6>2. SavedCursor \in Parked
                        BY CursorTypes
                    <6>. QED
                        BY <6>1, <6>2 DEF AltOK
                <5>3. CASE ~altScreen /\ mode # Alt1049
                    BY <4>2, <5>3 DEF EnterAlt, AltOK
                <5>. QED
                    BY <5>1, <5>2, <5>3
            <4>. QED
                BY <2>10, <4>1, <4>2, AltSteps
        <3>4. CharsetsOK'
            BY <2>10 DEF SetPrivateMode, CharsetsOK
        <3>. QED
            BY <3>1, <3>2, <3>3, <3>4
    <2>11. ASSUME NEW mode \in PrivateModes, ResetPrivateMode(mode) PROVE TypeInv'
        <3>1. CASE mode \in AltModes
            <4>1. ExitAlt(mode = Alt1049)
                BY <2>11, <3>1 DEF ResetPrivateMode
            <4>2. CursorOK'
                <5>1. CASE UNCHANGED cursor
                    BY <5>1 DEF CursorOK
                <5>2. CASE altCursor # <<>> /\ Cursor(altCursor[1])
                    BY <5>2, CursorTypes DEF AltOK
                <5>. QED
                    BY <4>1, <5>1, <5>2 DEF ExitAlt
            <4>3. AltOK'
                <5>1. CASE altScreen
                    <6>1. altScreen' = FALSE /\ altCursor' = <<>>
                        BY <4>1, <5>1 DEF ExitAlt
                    <6>2. altScreen' \in BOOLEAN
                        BY <6>1
                    <6>. QED
                        BY <6>1, <6>2 DEF AltOK
                <5>2. CASE ~altScreen
                    BY <4>1, <5>2 DEF ExitAlt, AltOK
                <5>. QED
                    BY <5>1, <5>2
            <4>. QED
                BY <2>11, <4>2, <4>3 DEF ResetPrivateMode, WithoutPrivate, FlagsOK, AllFlags, CharsetsOK
        <3>2. CASE mode \notin AltModes
            <4>1. CursorOK'
                <5>1. CASE mode = DECCOLM
                    BY <2>11, <3>2, <5>1, CursorTypes DEF ResetPrivateMode
                <5>2. CASE mode # DECCOLM
                    <6>1. hidden' = (hidden \/ mode = DECTCEM) /\ UNCHANGED <<pen, stack>>
                        BY <2>11, <3>2, <5>2 DEF ResetPrivateMode
                    <6>. QED
                        BY <6>1 DEF CursorOK
                <5>. QED
                    BY <5>1, <5>2
            <4>2. AltOK'
                BY <2>11, <3>2 DEF ResetPrivateMode, AltOK
            <4>. QED
                BY <2>11, <4>1, <4>2 DEF ResetPrivateMode, WithoutPrivate, FlagsOK, AllFlags, CharsetsOK
        <3>. QED
            BY <3>1, <3>2
    <2>. QED
        BY <2>1, <2>2, <2>3, <2>4, <2>5, <2>6, <2>7, <2>8, <2>9, <2>10, <2>11 DEF Next
<1>. QED
    BY <1>1, <1>2, PTL DEF Spec

\* The types as the runs check them.
LEMMA TypesAreRight == TypeInv => TypeOK
<1>1. TypeInv => {hidden, blankReverse, altScreen} \subseteq BOOLEAN
    BY DEF TypeInv, CursorOK, FlagsOK, AltOK
<1>2. TypeInv => {charsets.g0, charsets.g1, charsets.active} \subseteq {"Ascii", "DecSpecial"}
    BY DEF TypeInv, CharsetsOK, Sets
<1>3. MouseProtocol \in {0, 1000, 1002, 1003}
    BY DEF MouseProtocol
<1>4. TypeInv => altScreen \/ altCursor = <<>>
    BY DEF TypeInv, AltOK
<1>. QED
    BY <1>1, <1>2, <1>3, <1>4 DEF TypeInv, TypeOK, CursorOK, FlagsOK, AllFlags

-----------------------------------------------------------------------------
(* The theorems.                                                           *)

\* A program that entered by ?1049h and leaves by ?1049l finds its pen and its
\* saved cursors (enter_alt_screen and exit_alt_screen in screen.rs).
THEOREM PenIsKept == Spec => AltKeepsPen
<1>1. ParkedInv => ((entered # <<>> /\ ResetPrivateMode(Alt1049)) =>
          <<pen', hidden', stack'>> = <<entered[1].pen, entered[1].hidden, entered[1].stack>>)
    <2>. SUFFICES ASSUME ParkedInv, entered # <<>>, ResetPrivateMode(Alt1049)
                  PROVE  /\ pen' = entered[1].pen /\ hidden' = entered[1].hidden
                         /\ stack' = entered[1].stack
        OBVIOUS
    <2>1. ExitAlt(TRUE)
        BY ZenonT(60) DEF ResetPrivateMode, AltModes
    <2>2. altScreen /\ altCursor = <<entered[1]>>
        BY DEF ParkedInv
    <2>3. Cursor(altCursor[1])
        BY <2>1, <2>2 DEF ExitAlt
    <2>. QED
        BY <2>2, <2>3 DEF Cursor
<1>. QED
    BY <1>1, ParkedHolds, PTL DEF Spec, AltKeepsPen

\* The parameters of CSI m mean what their groups say, the last word on each
\* aspect winning (select_graphic_rendition in screen.rs).
THEOREM LastWordCounts == Spec => []LastWordWins
<1>1. LastWordWins
    <2>. SUFFICES ASSUME NEW gs \in SgrGroups, NEW before \in Pens, NEW blank \in Pens
                  PROVE  MeansWhatItSays(before, gs, blank)
        BY DEF LastWordWins
    <2>1. gs \in Seq(Seq(Nat)) /\ \A i \in DOMAIN gs : IsGroup(gs[i])
        BY RenditionAssumption DEF RenditionAssumption
    <2>2. before \in AllPens /\ blank \in AllPens
        BY RenditionAssumption DEF RenditionAssumption
    <2>. QED
        BY <2>1, <2>2, GroupsMeanWhatTheySay
<1>. QED
    BY <1>1, PTL

\* Directories arrive whose reports the parser has room for (OSC 7 and OSC 9;9,
\* cwd.rs and osc_dispatch in parser.rs), and every part of the state keeps its
\* type.
THEOREM DirectoriesArrive == Spec => []DirectoryArrives
<1>1. \A path \in Paths, host \in Hosts : \A escape \in SUBSET (2..Len(path)) :
          Arrives(path, host, escape)
    <2>. SUFFICES ASSUME NEW path \in Paths, NEW host \in Hosts,
                         NEW escape \in SUBSET (2..Len(path))
                  PROVE  Arrives(path, host, escape)
        OBVIOUS
    <2>1. path \in Seq(Byte) /\ path # <<>> /\ path[1] = Slash
        BY RenditionAssumption DEF RenditionAssumption, Byte
    <2>2. host \in Seq(Byte) /\ ~Has(host, Slash)
        BY RenditionAssumption DEF RenditionAssumption, Byte
    <2>3. 1 \notin escape
        OBVIOUS
    <2>. QED
        BY <2>1, <2>2, <2>3, EveryDirectoryArrives
<1>2. TypeInv => DirectoryArrives
    BY <1>1, TypesAreRight DEF DirectoryArrives
<1>. QED
    BY <1>2, TypeHolds, PTL

\* Flags and effects part only where a whole set of flags or a whole cursor is
\* put back (set_mode, reset_mode and the like in screen.rs).
THEOREM FlagsAreFollowed == Spec => EffectsFollowFlags
<1>1. ParkedInv /\ [Next]_vars => [Agree => (Agree' \/ Replaces)]_vars
    <2>. SUFFICES ASSUME ParkedInv, Next, Agree, ~Replaces PROVE Agree'
        OBVIOUS
    <2>. USE DEF Agree, HasPrivate
    <2>1. CASE Apart
        BY <2>1, ApartSteps DEF alt
    <2>2. ~RestoreCursor /\ ~Reset /\ altScreen' = altScreen
        BY DEF Replaces
    <2>3. ASSUME NEW mode \in PrivateModes, SetPrivateMode(mode) PROVE Agree'
        <3>1. mode # DECCOLM
            BY <2>3 DEF Replaces
        <3>2. /\ private' = private \cup {mode}
              /\ blankReverse' = (blankReverse \/ mode = DECSCNM)
              /\ hidden' = (hidden /\ mode # DECTCEM)
            BY <2>3, <3>1 DEF SetPrivateMode, WithPrivate
        <3>3. hidden' = ~(DECTCEM \in private')
            BY <3>2
        <3>4. blankReverse' = (DECSCNM \in private')
            <4>1. blankReverse' = ((DECSCNM \in private) \/ mode = DECSCNM)
                BY <3>2, Zenon
            <4>2. (DECSCNM \in private') = (DECSCNM \in private \/ mode = DECSCNM)
                BY <3>2
            <4>. QED
                BY <4>1, <4>2, Zenon
        <3>5. altScreen' => private' \cap AltModes # {}
            BY <2>2, <3>2
        <3>. QED
            BY <3>3, <3>4, <3>5
    <2>4. ASSUME NEW mode \in PrivateModes, ResetPrivateMode(mode) PROVE Agree'
        <3>1. mode # DECCOLM
            BY <2>4 DEF Replaces
        <3>2. private' = private \ {mode} /\ blankReverse' = (blankReverse /\ mode # DECSCNM)
            BY <2>4 DEF ResetPrivateMode, WithoutPrivate
        <3>5. blankReverse' = (DECSCNM \in private')
            <4>1. blankReverse' = ((DECSCNM \in private) /\ mode # DECSCNM)
                BY <3>2, Zenon
            <4>2. (DECSCNM \in private') = (DECSCNM \in private /\ mode # DECSCNM)
                BY <3>2
            <4>. QED
                BY <4>1, <4>2, Zenon
        <3>3. CASE mode \in AltModes
            <4>1. ~altScreen /\ UNCHANGED <<hidden, altScreen>>
                BY <2>2, <2>4, <3>3 DEF ResetPrivateMode, ExitAlt, cursor, alt
            <4>2. hidden' = ~(DECTCEM \in private')
                BY <3>2, <3>3, <4>1 DEF AltModes, Alt1049, DECTCEM
            <4>. QED
                BY <3>5, <4>1, <4>2
        <3>4. CASE mode \notin AltModes
            <4>1. hidden' = (hidden \/ mode = DECTCEM)
                BY <2>4, <3>1, <3>4 DEF ResetPrivateMode
            <4>2. hidden' = ~(DECTCEM \in private')
                BY <3>2, <4>1
            <4>3. altScreen' => private' \cap AltModes # {}
                BY <2>2, <3>2, <3>4
            <4>. QED
                BY <3>5, <4>2, <4>3
        <3>. QED
            BY <3>3, <3>4
    <2>. QED
        BY <2>1, <2>2, <2>3, <2>4, StepKinds
<1>. QED
    BY <1>1, ParkedHolds, PTL DEF Spec, EffectsFollowFlags
=============================================================================
