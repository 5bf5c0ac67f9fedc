------------------------------ MODULE Rendition ------------------------------
(***************************************************************************)
(* The state of a Screen that has no place on the grid: the pen, the mode  *)
(* flags and the state they switch, the saved cursors, character sets,     *)
(* names, cursor style and keyboard modes.  The grid and the position of   *)
(* the cursor are in Screen; here a cursor is its pen, its hidden flag and *)
(* its DECSC stack.                                                        *)
(***************************************************************************)
EXTENDS Integers, Sequences, Sgr, Cwd

CONSTANTS
    PrivateModes,   \* the DEC modes that programs set and reset
    SgrLists,       \* parameters of "m"
    OscReports,     \* OSC sequences, each a sequence of byte strings
    KeyboardModes,  \* parameters of "u", as sets of flags
    SgrGroups,      \* SGR sequences to look into, each a sequence of groups
    Pens,           \* pens to start and to reset from
    Paths, Hosts,   \* directories to report, and the hosts they are on
    MaxSteps        \* bound: escape sequences handled

\* Parameters are numbers and groups are complete; a path is absolute and a
\* host has no "/".
RenditionAssumption ==
    /\ SgrLists \subseteq Seq(Nat)
    /\ \A gs \in SgrGroups : /\ gs \in Seq(Seq(Nat))
                            /\ \A i \in DOMAIN gs : IsGroup(gs[i])
    /\ Pens \subseteq AllPens
    /\ \A path \in Paths : path \in Seq(0..255) /\ path # <<>> /\ path[1] = Slash
    /\ \A host \in Hosts : host \in Seq(0..255) /\ ~Has(host, Slash)
ASSUME RenditionAssumption

DECCOLM == 3
DECSCNM == 5
DECTCEM == 25
Alt1049 == 1049
AltModes == {47, 1047, Alt1049}

VARIABLES
    pen,            \* cursor.attrs
    hidden,         \* cursor.hidden
    stack,          \* cursor.stack
    blankReverse,   \* default_char.reverse
    public, private,   \* the mode flags
    altScreen,      \* the alternate buffer is shown
    altCursor,      \* alt_saved_cursor, <<>> for None
    charsets,       \* G0, G1 and the active one
    names,          \* icon name, title and working directory
    style,          \* the cursor's shape and whether it blinks
    keyboard,       \* the keyboard mode and its stack
    entered,        \* ghost: the cursor when ?1049h switched the buffer
    steps           \* sequences handled

cursor == <<pen, hidden, stack>>
modes == <<blankReverse, public, private>>
alt == <<altScreen, altCursor, entered>>
rest == <<charsets, names, style, keyboard>>
vars == <<cursor, modes, alt, rest, steps>>

Tick == steps < MaxSteps /\ steps' = steps + 1

BlankPen == Pen({}, Default, Default)
NoName == <<>>

Init ==
    /\ pen = BlankPen
    /\ hidden = FALSE
    /\ stack = <<>>
    /\ blankReverse = FALSE
    /\ public = {20}
    /\ private = {7, DECTCEM}
    /\ altScreen = FALSE
    /\ altCursor = <<>>
    /\ charsets = [g0 |-> "Ascii", g1 |-> "Ascii", active |-> "Ascii"]
    /\ names = [icon |-> NoName, title |-> NoName, cwd |-> NoName]
    /\ style = [shape |-> "default", blink |-> TRUE]
    /\ keyboard = [mode |-> {}, stack |-> <<>>]
    /\ entered = <<>>
    /\ steps = 0

-----------------------------------------------------------------------------
(* Mode flags: modes.rs keeps the known ones as bits and the others in a   *)
(* set, which makes one set of numbers.                                    *)

HasPrivate(mode) == mode \in private
WithPrivate(mode) == private \cup {mode}
WithoutPrivate(mode) == private \ {mode}

\* Public modes other than IRM and LNM are ignored.
WithPublic(mode) == IF mode \in {4, 20} THEN public \cup {mode} ELSE public
WithoutPublic(mode) == public \ {mode}

\* The mouse mode that wins when several are set.
MouseProtocol ==
    IF HasPrivate(1003) THEN 1003
    ELSE IF HasPrivate(1002) THEN 1002
    ELSE IF HasPrivate(1000) THEN 1000 ELSE 0

-----------------------------------------------------------------------------
(* The saved cursors.                                                      *)

SavedCursor == [pen |-> pen, hidden |-> hidden, stack |-> stack]

Cursor(saved) ==
    /\ pen' = saved.pen
    /\ hidden' = saved.hidden
    /\ stack' = saved.stack

DefaultCursor == Cursor([pen |-> BlankPen, hidden |-> FALSE, stack |-> <<>>])

\* DECSC keeps the pen and all mode flags.
SaveCursor ==
    /\ Tick
    /\ stack' = Append(stack, [pen |-> pen, public |-> public, private |-> private])
    /\ UNCHANGED <<pen, hidden, modes, alt, rest>>

\* DECRC brings them back, the flags without what they switch.
RestoreCursor ==
    /\ Tick
    /\ IF stack = <<>> THEN UNCHANGED <<pen, stack, public, private>>
       ELSE /\ pen' = Last(stack).pen
            /\ public' = Last(stack).public
            /\ private' = Last(stack).private
            /\ stack' = Front(stack)
    /\ UNCHANGED <<hidden, blankReverse, alt, rest>>

\* Mutant: entering twice saves the cursor twice.
EnterAltAgain(saves) ==
    /\ altScreen' = TRUE
    /\ altCursor' = IF saves THEN <<SavedCursor>> ELSE altCursor
    /\ entered' = IF altScreen THEN entered ELSE IF saves THEN <<SavedCursor>> ELSE <<>>

\* Only the first of several switches counts.
EnterAlt(saves) ==
    IF altScreen THEN UNCHANGED alt
    ELSE /\ altScreen' = TRUE
         /\ altCursor' = IF saves THEN <<SavedCursor>> ELSE altCursor
         /\ entered' = IF saves THEN <<SavedCursor>> ELSE <<>>

ExitAlt(restores) ==
    IF ~altScreen THEN UNCHANGED <<cursor, alt>>
    ELSE /\ altScreen' = FALSE
         /\ altCursor' = <<>>
         /\ entered' = <<>>
         /\ IF restores /\ altCursor # <<>>
              THEN Cursor(altCursor[1])
              ELSE UNCHANGED cursor

-----------------------------------------------------------------------------
(* CSI h and CSI l.                                                        *)

SetPublicMode(mode) ==
    /\ Tick
    /\ public' = WithPublic(mode)
    /\ UNCHANGED <<cursor, blankReverse, private, alt, rest>>

ResetPublicMode(mode) ==
    /\ Tick
    /\ public' = WithoutPublic(mode)
    /\ UNCHANGED <<cursor, blankReverse, private, alt, rest>>

SetPrivateMode(mode) ==
    /\ Tick
    /\ private' = WithPrivate(mode)
    /\ blankReverse' = (blankReverse \/ mode = DECSCNM)
    /\ IF mode \in AltModes THEN EnterAlt(mode = Alt1049) ELSE UNCHANGED alt
    /\ IF mode = DECCOLM THEN DefaultCursor
       ELSE hidden' = (hidden /\ mode # DECTCEM) /\ UNCHANGED <<pen, stack>>
    /\ UNCHANGED <<public, rest>>

\* Mutant: leaving reverse video keeps the blank cell reversed.
ResetPrivateModeKeepingBlank(mode) ==
    /\ Tick
    /\ private' = WithoutPrivate(mode)
    /\ IF mode \in AltModes THEN ExitAlt(mode = Alt1049)
       ELSE /\ UNCHANGED alt
            /\ IF mode = DECCOLM THEN DefaultCursor
               ELSE hidden' = (hidden \/ mode = DECTCEM) /\ UNCHANGED <<pen, stack>>
    /\ UNCHANGED <<blankReverse, public, rest>>

ResetPrivateMode(mode) ==
    /\ Tick
    /\ private' = WithoutPrivate(mode)
    /\ blankReverse' = (blankReverse /\ mode # DECSCNM)
    /\ IF mode \in AltModes THEN ExitAlt(mode = Alt1049)
       ELSE /\ UNCHANGED alt
            /\ IF mode = DECCOLM THEN DefaultCursor
               ELSE hidden' = (hidden \/ mode = DECTCEM) /\ UNCHANGED <<pen, stack>>
    /\ UNCHANGED <<public, rest>>

-----------------------------------------------------------------------------
(* SGR, character sets, names, cursor style and keyboard.                  *)

\* What SGR 0 goes back to: the blank cell, reversed under DECSCNM.
ResetPen ==
    [BlankPen EXCEPT !.on = IF blankReverse \/ HasPrivate(DECSCNM) THEN {"reverse"} ELSE {}]

SetRendition(params) ==
    /\ Tick
    /\ pen' = SelectGraphicRendition(pen, params, ResetPen)
    /\ UNCHANGED <<hidden, stack, modes, alt, rest>>

FromDesignation(code) ==
    CASE code \in {"B", "("} -> "Ascii" [] code = "0" -> "DecSpecial" [] OTHER -> "unknown"

\* "(" designates G0 and makes it active, even after a shift out; ")" leaves
\* the active set alone, even when that is G1.
DefineCharset(code, target) ==
    /\ Tick
    /\ charsets' =
         IF FromDesignation(code) = "unknown" THEN charsets
         ELSE IF target = "(" THEN [charsets EXCEPT !.g0 = FromDesignation(code),
                                                    !.active = FromDesignation(code)]
         ELSE IF target = ")" THEN [charsets EXCEPT !.g1 = FromDesignation(code)]
         ELSE charsets
    /\ UNCHANGED <<cursor, modes, alt, names, style, keyboard>>

ShiftIn ==
    /\ Tick
    /\ charsets' = [charsets EXCEPT !.active = charsets.g0]
    /\ UNCHANGED <<cursor, modes, alt, names, style, keyboard>>

ShiftOut ==
    /\ Tick
    /\ charsets' = [charsets EXCEPT !.active = charsets.g1]
    /\ UNCHANGED <<cursor, modes, alt, names, style, keyboard>>

WithCwd(path) == IF path = NoPath THEN names ELSE [names EXCEPT !.cwd = path]

\* osc_dispatch: 0, 1 and 2 name the icon and the window, "l" both apart, 7
\* and 9;9 report the working directory; anything else is ignored.
Named(params) ==
    LET command == params[1]
        text == Rejoined(params, 2)
    IN  CASE command = <<48>> -> [names EXCEPT !.icon = text, !.title = text]
          [] command = <<49>> -> [names EXCEPT !.icon = text]
          [] command = <<50>> -> [names EXCEPT !.title = text]
          [] command = <<108>> /\ Len(params) >= 3 ->
               [names EXCEPT !.icon = params[2], !.title = params[3]]
          [] command = <<55>> /\ Len(params) > 1 -> WithCwd(ParseOsc7(text))
          [] command = <<57>> /\ Len(params) > 2 /\ params[2] = <<57>> ->
               WithCwd(ParseOsc9(Rejoined(params, 3)))
          [] OTHER -> names

OscDispatch(params) ==
    /\ Tick
    /\ names' = Named(params)
    /\ UNCHANGED <<cursor, modes, alt, charsets, style, keyboard>>

\* DECSCUSR
SetCursorStyle(id) ==
    /\ Tick
    /\ style' = [shape |-> CASE id \in {1, 2} -> "block" [] id \in {3, 4} -> "underline"
                             [] id \in {5, 6} -> "beam" [] OTHER -> "default",
                 blink |-> id \in {0, 1, 3, 5}]
    /\ UNCHANGED <<cursor, modes, alt, charsets, names, keyboard>>

\* CSI > u keeps a mode for later, and does not switch to it.
PushKeyboardMode(mode) ==
    /\ Tick
    /\ keyboard' = [keyboard EXCEPT !.stack = Append(@, mode)]
    /\ UNCHANGED <<cursor, modes, alt, charsets, names, style>>

\* CSI < u: the last one popped is the mode from then on.
PopKeyboardModes(count) ==
    /\ Tick
    /\ LET left == IF count > Len(keyboard.stack) THEN 0 ELSE Len(keyboard.stack) - count
       IN  keyboard' = [mode |-> IF left = Len(keyboard.stack) THEN keyboard.mode
                                 ELSE keyboard.stack[left + 1],
                        stack |-> SubSeq(keyboard.stack, 1, left)]
    /\ UNCHANGED <<cursor, modes, alt, charsets, names, style>>

\* A CSI u with ";0": the flags of mode replace the present ones, are added
\* to them or are taken away.
SetKeyboardMode(mode, behavior) ==
    /\ Tick
    /\ keyboard' = [keyboard EXCEPT !.mode =
                       CASE behavior = "replace" -> mode
                         [] behavior = "union" -> @ \cup mode
                         [] behavior = "difference" -> @ \ mode]
    /\ UNCHANGED <<cursor, modes, alt, charsets, names, style>>

\* reset(): everything but the working directory and the blank cell.
Reset ==
    /\ Tick
    /\ DefaultCursor
    /\ public' = {20}
    /\ private' = {7, DECTCEM}
    /\ altScreen' = FALSE
    /\ altCursor' = <<>>
    /\ entered' = <<>>
    /\ charsets' = [g0 |-> "Ascii", g1 |-> "Ascii", active |-> "Ascii"]
    /\ names' = [names EXCEPT !.icon = NoName, !.title = NoName]
    /\ style' = [shape |-> "default", blink |-> TRUE]
    /\ keyboard' = [mode |-> {}, stack |-> <<>>]
    /\ UNCHANGED blankReverse

-----------------------------------------------------------------------------
\* Escape sequences in the order a program sends them, and reset() in between.
Next ==
    \/ SaveCursor \/ RestoreCursor \/ Reset \/ ShiftIn \/ ShiftOut
    \/ \E mode \in {4, 20, 99} : SetPublicMode(mode) \/ ResetPublicMode(mode)
    \/ \E mode \in PrivateModes : SetPrivateMode(mode) \/ ResetPrivateMode(mode)
    \/ \E params \in SgrLists : SetRendition(params)
    \/ \E code \in {"B", "0", "Z"}, target \in {"(", ")", "*"} : DefineCharset(code, target)
    \/ \E params \in OscReports : OscDispatch(params)
    \/ \E id \in 0..7 : SetCursorStyle(id)
    \/ \E mode \in KeyboardModes :
          \/ PushKeyboardMode(mode)
          \/ \E behavior \in {"replace", "union", "difference"} : SetKeyboardMode(mode, behavior)
    \/ \E count \in 0..2 : PopKeyboardModes(count)

Spec == Init /\ [][Next]_vars

-----------------------------------------------------------------------------
TypeOK ==
    /\ pen \in AllPens
    /\ {hidden, blankReverse, altScreen} \subseteq BOOLEAN
    /\ public \subseteq {4, 20}
    /\ private \subseteq PrivateModes \cup {7, DECTCEM}
    /\ MouseProtocol \in {0, 1000, 1002, 1003}
    /\ altScreen \/ altCursor = <<>>
    /\ {charsets.g0, charsets.g1, charsets.active} \subseteq {"Ascii", "DecSpecial"}

\* The flags that a frontend reads and the state that the screen acts on.
Agree ==
    /\ hidden = ~HasPrivate(DECTCEM)
    /\ blankReverse = HasPrivate(DECSCNM)
    /\ altScreen => private \cap AltModes # {}

\* The steps that replace the flags or the cursor as a whole.
Replaces ==
    \/ RestoreCursor \/ Reset
    \/ altScreen # altScreen'
    \/ \E mode \in {DECCOLM} : SetPrivateMode(mode) \/ ResetPrivateMode(mode)

\* Flags and effects part only where a whole set of flags or a whole cursor is
\* put back: at DECRC, reset(), DECCOLM and a switch of buffers, never by a
\* mode, a rendition or a name, in whatever order they come.
EffectsFollowFlags == [][Agree => (Agree' \/ Replaces)]_vars

\* Every sequence of SGR groups means what its groups say, the last word on
\* each aspect winning (looked at in the initial state).
LastWordWins ==
    steps = 0 => \A gs \in SgrGroups, before \in Pens, blank \in Pens :
                    MeansWhatItSays(before, gs, blank)

\* Every directory arrives, by OSC 7 and by OSC 9;9 (looked at in the initial
\* state), and the state keeps its types.
DirectoryArrives ==
    /\ TypeOK
    /\ steps = 0 => \A path \in Paths, host \in Hosts : \A escape \in SUBSET (2..Len(path)) :
                        Arrives(path, host, escape)

\* A program that entered by ?1049h and leaves by ?1049l finds the pen, the
\* hidden flag and the DECSC stack as they were, whatever it did in between,
\* further switches included.
AltKeepsPen ==
    [][(entered # <<>> /\ ResetPrivateMode(Alt1049)) =>
         <<pen', hidden', stack'>> = <<entered[1].pen, entered[1].hidden, entered[1].stack>>]_vars
=============================================================================
