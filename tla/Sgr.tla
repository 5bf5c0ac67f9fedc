--------------------------------- MODULE Sgr ---------------------------------
(***************************************************************************)
(* Select Graphic Rendition: how a list of parameters changes the pen, with*)
(* the colour tables of graphics.rs.  A colour is a tuple: a name, a bright*)
(* name or the three components of an RGB value.                           *)
(***************************************************************************)
EXTENDS Integers, Sequences, SequencesExt

Attributes == {"bold", "dim", "italics", "underscore", "blink", "reverse", "hidden",
               "strikethrough"}

Default == <<"default">>
Names == <<"black", "red", "green", "brown", "blue", "magenta", "cyan", "white">>
Ansi(n) == <<Names[n + 1]>>
Aixterm(n) == <<"bright", Names[n + 1]>>

Standard ==
    << <<0, 0, 0>>, <<205, 0, 0>>, <<0, 205, 0>>, <<205, 205, 0>>,
       <<0, 0, 238>>, <<205, 0, 205>>, <<0, 205, 205>>, <<229, 229, 229>>,
       <<127, 127, 127>>, <<255, 0, 0>>, <<0, 255, 0>>, <<255, 255, 0>>,
       <<92, 92, 255>>, <<255, 0, 255>>, <<0, 255, 255>>, <<255, 255, 255>> >>

\* One side of the 6 x 6 x 6 cube.
Level(k) == <<0, 95, 135, 175, 215, 255>>[k + 1]

Palette(n) ==
    IF n < 16 THEN Standard[n + 1]
    ELSE IF n < 232
      THEN <<Level((n - 16) \div 36), Level(((n - 16) \div 6) % 6), Level((n - 16) % 6)>>
    ELSE [i \in 1..3 |-> 8 + 10 * (n - 232)]

-----------------------------------------------------------------------------
Colors ==
    {Default} \cup {Ansi(n) : n \in 0..7} \cup {Aixterm(n) : n \in 0..7}
              \cup {Palette(n) : n \in 0..255} \cup [1..3 -> 0..255]

\* A pen: the attributes that are on, and the two colours.
Pen(on, fg, bg) == [on |-> on, fg |-> fg, bg |-> bg]
AllPens == [on : SUBSET Attributes, fg : Colors, bg : Colors]

\* What one parameter switches on and off.
SwitchesOn(p) ==
    CASE p = 1 -> {"bold"} [] p = 2 -> {"dim"} [] p = 3 -> {"italics"}
      [] p = 4 -> {"underscore"} [] p = 5 -> {"blink"} [] p = 7 -> {"reverse"}
      [] p = 8 -> {"hidden"} [] p = 9 -> {"strikethrough"} [] OTHER -> {}

SwitchesOff(p) ==
    CASE p = 22 -> {"bold", "dim"} [] p = 23 -> {"italics"} [] p = 24 -> {"underscore"}
      [] p = 25 -> {"blink"} [] p = 27 -> {"reverse"} [] p = 28 -> {"hidden"}
      [] p = 29 -> {"strikethrough"} [] OTHER -> {}

\* A parameter on its own; 0 goes back to the blank cell's pen.
Plain(pen, p, blank) ==
    IF p = 0 THEN blank
    ELSE [on |-> (pen.on \cup SwitchesOn(p)) \ SwitchesOff(p),
          fg |-> CASE p = 39 -> Default
                   [] p \in 30..37 -> Ansi(p - 30)
                   [] p \in 90..97 -> Aixterm(p - 90)
                   [] OTHER -> pen.fg,
          bg |-> CASE p = 49 -> Default
                   [] p \in 40..47 -> Ansi(p - 40)
                   [] p \in 100..107 -> Aixterm(p - 100)
                   [] OTHER -> pen.bg]

\* 38 and 48 take a colour from the parameters behind them: "5 ; n" or
\* "2 ; r ; g ; b", each component cut to eight bits.
IsIndexed(params, i) ==
    /\ params[i] \in {38, 48}
    /\ i + 2 <= Len(params)
    /\ params[i + 1] = 5 /\ params[i + 2] < 256

IsRgb(params, i) ==
    /\ params[i] \in {38, 48}
    /\ i + 4 <= Len(params)
    /\ params[i + 1] = 2

ExtendedColor(params, i) ==
    IF IsIndexed(params, i) THEN Palette(params[i + 2])
    ELSE [k \in 1..3 |-> params[i + 1 + k] % 256]

Coloured(pen, selector, color) ==
    IF selector = 38 THEN [pen EXCEPT !.fg = color] ELSE [pen EXCEPT !.bg = color]

\* Mutant: the index of a colour is looked at again.
ConsumedAllButOne(params, i) == IF IsIndexed(params, i) THEN 1 ELSE 4

\* How many parameters behind the selector the colour has used up.
Consumed(params, i) == IF IsIndexed(params, i) THEN 2 ELSE 4

\* One turn of the loop; a group that is cut short or out of range is skipped
\* parameter by parameter, each then standing for itself.
SgrStep(state, params, i, blank) ==
    IF state.skip > 0 THEN [state EXCEPT !.skip = @ - 1]
    ELSE IF IsIndexed(params, i) \/ IsRgb(params, i)
      THEN [pen |-> Coloured(state.pen, params[i], ExtendedColor(params, i)),
            skip |-> Consumed(params, i)]
    ELSE [pen |-> Plain(state.pen, params[i], blank), skip |-> 0]

\* The loop: the pen and the parameters still to skip after each parameter.
SgrStates(pen, params, blank) ==
    LET read[n \in 0..Len(params)] ==
            IF n = 0 THEN [pen |-> pen, skip |-> 0]
            ELSE SgrStep(read[n - 1], params, n, blank)
    IN  read

SelectGraphicRendition(pen, params, blank) == SgrStates(pen, params, blank)[Len(params)].pen

-----------------------------------------------------------------------------
(* The reference: what complete groups say about each aspect of the pen.   *)

\* A parameter on its own, or a colour with all that belongs to it.
IsGroup(g) ==
    \/ Len(g) = 1 /\ g[1] \notin {38, 48}
    \/ Len(g) = 3 /\ g[1] \in {38, 48} /\ g[2] = 5 /\ g[3] < 256
    \/ Len(g) = 5 /\ g[1] \in {38, 48} /\ g[2] = 2

\* The colour that a group names, if it does.
Color(g) ==
    IF Len(g) = 3 THEN Palette(g[3])
    ELSE IF Len(g) = 5 THEN [k \in 1..3 |-> g[k + 2] % 256]
    ELSE IF g[1] \in {39, 49} THEN Default
    ELSE IF g[1] < 50 THEN Ansi(g[1] % 10)
    ELSE Aixterm(g[1] % 10)

\* What a group says: attributes that are on and off from here, and a colour
\* for the letters and for the ground, or none.
Says(g, blank) ==
    IF g[1] = 0 THEN [on |-> blank.on, off |-> Attributes \ blank.on,
                      fg |-> <<blank.fg>>, bg |-> <<blank.bg>>]
    ELSE [on |-> SwitchesOn(g[1]), off |-> SwitchesOff(g[1]),
          fg |-> IF g[1] \in 30..39 \cup 90..97 THEN <<Color(g)>> ELSE <<>>,
          bg |-> IF g[1] \in 40..49 \cup 100..107 THEN <<Color(g)>> ELSE <<>>]

\* The pen after some groups: each attribute and each colour as the last group
\* that speaks of it says.
LastWords(pen, said) ==
    LET speak(a) == {i \in DOMAIN said : a \in said[i].on \cup said[i].off}
        fgs == {i \in DOMAIN said : said[i].fg # <<>>}
        bgs == {i \in DOMAIN said : said[i].bg # <<>>}
    IN  [on |-> {a \in Attributes : IF speak(a) = {} THEN a \in pen.on
                                    ELSE a \in said[Max(speak(a))].on},
         fg |-> IF fgs = {} THEN pen.fg ELSE said[Max(fgs)].fg[1],
         bg |-> IF bgs = {} THEN pen.bg ELSE said[Max(bgs)].bg[1]]

\* The parameters of several groups in one sequence mean what the groups say,
\* and no component of a colour is ever taken for an attribute.
MeansWhatItSays(pen, gs, blank) ==
    SelectGraphicRendition(pen, FlattenSeq(gs), blank)
        = LastWords(pen, [i \in DOMAIN gs |-> Says(gs[i], blank)])
=============================================================================
