------------------------------- MODULE Screen --------------------------------
(***************************************************************************)
(* The grid of the terminal (src/src/terminal/screen.rs): rows of cells    *)
(* with their soft-wrap flags, the cursor and its save stack, the scroll   *)
(* region, the dirty rows, the lines that scroll off the top and the       *)
(* primary grid parked behind the alternate screen.  One action per        *)
(* operation the parser calls; indices count from 0, as in the code, and   *)
(* an index out of bounds is a panic there.                                *)
(*                                                                         *)
(* A cell is a narrow glyph, one with a combining mark, a wide glyph or a  *)
(* blank; attributes, charsets and the other modes leave the geometry      *)
(* alone and are not modelled.                                             *)
(***************************************************************************)
EXTENDS Integers, Sequences

CONSTANTS
    Narrow, Wide,           \* sets of glyphs, of width 1 and 2
    Blank, Marked,          \* an erased cell; one with a combining mark
    None,                   \* Option::None
    InitLines, InitColumns, \* the size at creation
    Sizes,                  \* <<lines, columns>> a front end may ask for
    Counts,                 \* the parameters a control sequence may carry
    StdColumns, WideColumns,\* 80 and 132
    AnyDeccolm,             \* FALSE: ?3 only asks for the width there already is
    MaxStack,               \* bound: cursors saved
    MaxSteps                \* bound: operations

Cells == Narrow \cup Wide \cup {Blank, Marked}
ModeNames == {"IRM", "LNM", "DECOM", "DECAWM"}

ASSUME ScreenAssumption ==
    /\ {InitLines, InitColumns, StdColumns, WideColumns} \subseteq Nat \ {0}
    /\ Sizes \subseteq Nat \X Nat
    /\ Counts \subseteq Nat
    /\ AnyDeccolm \in BOOLEAN
    /\ {MaxStack, MaxSteps} \subseteq Nat

VARIABLES
    lines, columns,
    buffer, wrapped,
    x, y,           \* the cursor; x = columns is the pending wrap
    stack,          \* Cursor.stack
    mode,           \* the modes that steer the geometry
    margins,        \* scroll region, or None
    dirty,
    scrolledOff,    \* lines off the top with their wrap flags
    altScreen,
    saved,          \* saved_buffer and saved_wrapped: <<a grid>>, or <<>>
    savedCursor,    \* alt_saved_cursor, or None
    steps

size == <<lines, columns>>
grid == <<buffer, wrapped>>
cursor == <<x, y, stack>>
alt == <<altScreen, saved, savedCursor>>
screenVars == <<size, grid, cursor, mode, margins, dirty, scrolledOff, alt>>
vars == <<screenVars, steps>>

Lesser(a, b) == IF a < b THEN a ELSE b
Greater(a, b) == IF a > b THEN a ELSE b

Rows == 0..(lines - 1)
Cols == 0..(columns - 1)
BlankRow(cols) == [i \in 0..(cols - 1) |-> Blank]
BlankGrid(rows, cols) == [r \in 0..(rows - 1) |-> BlankRow(cols)]
Hard(rows) == [r \in 0..(rows - 1) |-> FALSE]

\* scroll_region()
Top == IF margins = None THEN 0 ELSE margins.top
Bottom == IF margins = None THEN lines - 1 ELSE margins.bottom
InRegion(r) == Top <= r /\ r <= Bottom

Init ==
    /\ lines = InitLines /\ columns = InitColumns
    /\ buffer = BlankGrid(lines, columns)
    /\ wrapped = Hard(lines)
    /\ x = 0 /\ y = 0 /\ stack = <<>>
    /\ mode = {"LNM", "DECAWM"}
    /\ margins = None
    /\ dirty = {}
    /\ scrolledOff = <<>>
    /\ altScreen = FALSE /\ saved = <<>> /\ savedCursor = None
    /\ steps = 0

-----------------------------------------------------------------------------
(* Cursor movement.  A count of 0 is what a sequence without a parameter   *)
(* carries.                                                                *)

MoveTo(col, row) ==
    /\ x' = col /\ y' = row
    /\ UNCHANGED <<size, grid, stack, mode, margins, dirty, scrolledOff, alt>>

PositionX(col) == Lesser(Greater(col, 1) - 1, columns - 1)
PositionY(row) ==
    IF "DECOM" \in mode THEN Lesser(Greater(row, 1) - 1 + Top, Bottom)
                        ELSE Lesser(Greater(row, 1) - 1, lines - 1)

CursorPosition(row, col) == MoveTo(PositionX(col), PositionY(row))
CursorToLine(row) == MoveTo(PositionX(x + 1), PositionY(row))
CursorToColumn(col) == MoveTo(PositionX(col), PositionY(y + 1))
CursorUp(n) == MoveTo(x, Greater(Greater(y - n, 0), Top))
CursorDown(n) == MoveTo(x, Lesser(y + n, Bottom))
CursorForward(n) == MoveTo(Lesser(x + n, columns - 1), y)
CursorBack(n) == MoveTo(Greater(x - n, 0), y)
CursorNextLine(n) == MoveTo(0, Lesser(y + n, Bottom))
CursorPrevLine(n) == MoveTo(0, Greater(Greater(y - n, 0), Top))
CarriageReturn == MoveTo(0, y)

\* To the next of the tab stops, wherever they have been set.
Tab == \E stop \in ((x + 1)..(columns - 1)) \cup {columns - 1} : MoveTo(stop, y)

SaveCursor ==
    /\ Len(stack) < MaxStack
    /\ stack' = Append(stack, [x |-> x, y |-> y, mode |-> mode])
    /\ UNCHANGED <<size, grid, x, y, mode, margins, dirty, scrolledOff, alt>>

RestoredY(row) == Lesser(Greater(row, Top), Bottom)

RestoreCursor ==
    /\ IF stack = <<>>
       THEN /\ x' = 0 /\ y' = 0
            /\ UNCHANGED <<stack, mode>>
       ELSE LET top == stack[Len(stack)]
            IN  /\ x' = Lesser(top.x, columns - 1)
                /\ y' = RestoredY(top.y)
                /\ mode' = top.mode
                /\ stack' = SubSeq(stack, 1, Len(stack) - 1)
    /\ UNCHANGED <<size, grid, margins, dirty, scrolledOff, alt>>

-----------------------------------------------------------------------------
(* Scrolling.                                                              *)

\* Mutant: the alternate screen feeds the scrollback too.
ToHistoryAlways == margins = None

\* Only a full-screen scroll of the primary screen feeds the scrollback.
ToHistory == margins = None /\ ~altScreen

ScrollUp(n) ==
    LET k == Lesser(n, Bottom - Top + 1)
        kept(r) == r + k <= Bottom
        off(i) == [cells |-> buffer[Top + i - 1], wrap |-> wrapped[Top + i - 1]]
    IN  /\ buffer' = [r \in Rows |->
               IF ~InRegion(r) THEN buffer[r]
               ELSE IF kept(r) THEN buffer[r + k] ELSE BlankRow(columns)]
        /\ wrapped' = [r \in Rows |->
               IF InRegion(r) THEN kept(r) /\ wrapped[r + k] ELSE wrapped[r]]
        /\ scrolledOff' = IF ToHistory THEN scrolledOff \o [i \in 1..k |-> off(i)]
                                       ELSE scrolledOff
        /\ dirty' = IF k = 0 THEN dirty ELSE dirty \cup {Bottom}

\* The loop runs downwards over rows it has just overwritten: the top row
\* reaches the bottom of the region and everything between is blank.
ScrollDown(n) ==
    LET k == Lesser(n, Bottom - Top + 1)
        dropped(r) == k = 1 /\ Top < Bottom /\ r = Bottom
    IN  IF k = 0 THEN UNCHANGED <<grid, dirty, scrolledOff>>
        ELSE /\ buffer' = [r \in Rows |->
                    IF ~InRegion(r) THEN buffer[r]
                    ELSE IF dropped(r) THEN buffer[Top] ELSE BlankRow(columns)]
             /\ wrapped' = [r \in Rows |->
                    IF ~InRegion(r) THEN wrapped[r]
                    ELSE k = 1 /\ r > Top /\ wrapped[Top]]
             /\ dirty' = dirty \cup {Top}
             /\ UNCHANGED scrolledOff

ScrollUpBy(n) == ScrollUp(n) /\ UNCHANGED <<size, cursor, mode, margins, alt>>
ScrollDownBy(n) == ScrollDown(n) /\ UNCHANGED <<size, cursor, mode, margins, alt>>

\* Below the scroll region a line feed scrolls the region and stays put.
Feed(col) ==
    /\ IF y < Bottom
       THEN y' = y + 1 /\ UNCHANGED <<grid, dirty, scrolledOff>>
       ELSE ScrollUp(1) /\ UNCHANGED y
    /\ x' = col
    /\ UNCHANGED <<size, stack, mode, margins, alt>>

LineFeed == Feed(IF "LNM" \in mode THEN 0 ELSE x)
NextLine == Feed(0)

ReverseIndex ==
    /\ IF y > Top
       THEN y' = y - 1 /\ x' = 0 /\ UNCHANGED <<grid, dirty, scrolledOff>>
       ELSE ScrollDown(1) /\ UNCHANGED <<x, y>>
    /\ UNCHANGED <<size, stack, mode, margins, alt>>

InsertLines(n) ==
    LET k == Lesser(Greater(n, 1), Bottom - y)
        new(r) == y <= r /\ r < y + k
        moved(r) == y + k <= r /\ r <= Bottom
    IN  /\ InRegion(y)
        /\ buffer' = [r \in Rows |-> IF new(r) THEN BlankRow(columns)
                                     ELSE IF moved(r) THEN buffer[r - k] ELSE buffer[r]]
        /\ wrapped' = [r \in Rows |-> IF moved(r) THEN wrapped[r - k]
                                      ELSE ~new(r) /\ wrapped[r]]
        /\ dirty' = IF k = 0 THEN dirty ELSE dirty \cup {y}
        /\ x' = 0
        /\ UNCHANGED <<size, y, stack, mode, margins, scrolledOff, alt>>

DeleteLines(n) ==
    LET k == Lesser(Greater(n, 1), Bottom - y)
        moved(r) == y <= r /\ r + k <= Bottom
        new(r) == Bottom < r + k /\ r <= Bottom
    IN  /\ InRegion(y)
        /\ buffer' = [r \in Rows |-> IF moved(r) THEN buffer[r + k]
                                     ELSE IF new(r) THEN BlankRow(columns) ELSE buffer[r]]
        /\ wrapped' = [r \in Rows |-> IF moved(r) THEN wrapped[r + k]
                                      ELSE ~new(r) /\ wrapped[r]]
        /\ dirty' = IF k = 0 THEN dirty ELSE dirty \cup {y}
        /\ x' = 0
        /\ UNCHANGED <<size, y, stack, mode, margins, scrolledOff, alt>>

-----------------------------------------------------------------------------
(* Drawing and erasing.                                                    *)

Inserted(row, at, n) ==
    [i \in Cols |-> IF i < at THEN row[i] ELSE IF i < at + n THEN Blank ELSE row[i - n]]

\* The row a wrap continues on; the last row is written over, not scrolled.
NextRow(row) == IF row < lines - 1 THEN row + 1 ELSE row

\* A printable character of width 1 or 2.  The cursor stays on a wide one.
Draw(g) ==
    LET wide == g \in Wide
        wraps == x >= columns
        flows == wraps /\ y < lines - 1 /\ (wide \/ "DECAWM" \in mode)
        row == IF wraps THEN NextRow(y) ELSE y
        col == IF wraps THEN 0 ELSE x
        room == IF "IRM" \in mode /\ ~wide THEN Inserted(buffer[row], col, 1) ELSE buffer[row]
        last == IF "DECAWM" \in mode THEN columns ELSE columns - 1
    IN  /\ buffer' = [buffer EXCEPT ![row] =
               [i \in Cols |-> IF i = col THEN g
                               ELSE IF wide /\ i = col + 1 THEN Blank ELSE room[i]]]
        /\ wrapped' = IF flows THEN [wrapped EXCEPT ![row] = TRUE] ELSE wrapped
        /\ dirty' = dirty \cup {row}
        /\ y' = row
        /\ x' = IF wide THEN col ELSE Lesser(col + 1, last)
        /\ UNCHANGED <<size, stack, mode, margins, scrolledOff, alt>>

\* A character of width 0 joins the cell before the cursor.
Combine ==
    /\ x > 0
    /\ buffer' = [buffer EXCEPT ![y][x - 1] = IF @ \in Wide THEN @ ELSE Marked]
    /\ UNCHANGED <<size, wrapped, cursor, mode, margins, dirty, scrolledOff, alt>>

EditRow(row) ==
    /\ buffer' = [buffer EXCEPT ![y] = row]
    /\ dirty' = dirty \cup {y}

EraseCharacters(n) ==
    /\ EditRow([i \in Cols |-> IF x <= i /\ i < x + Greater(n, 1) THEN Blank ELSE buffer[y][i]])
    /\ UNCHANGED <<size, wrapped, cursor, mode, margins, scrolledOff, alt>>

DeleteCharacters(n) ==
    LET k == Lesser(Greater(n, 1), columns - x)
    IN  /\ EditRow([i \in Cols |-> IF i < x THEN buffer[y][i]
                                   ELSE IF i + k < columns THEN buffer[y][i + k] ELSE Blank])
        /\ UNCHANGED <<size, wrapped, cursor, mode, margins, scrolledOff, alt>>

InsertCharacters(n) ==
    /\ EditRow(Inserted(buffer[y], x, Greater(n, 1)))
    /\ UNCHANGED <<size, wrapped, cursor, mode, margins, scrolledOff, alt>>

\* EL: to the end of the line, from its start, or (any other n) all of it.
EraseInLine(n) ==
    LET erased(i) == CASE n = 0 -> x <= i [] n = 1 -> i <= x [] OTHER -> TRUE
    IN  /\ EditRow([i \in Cols |-> IF erased(i) THEN Blank ELSE buffer[y][i]])
        /\ wrapped' = IF n \in {0, 1} THEN wrapped ELSE [wrapped EXCEPT ![y] = FALSE]
        /\ x' = IF n = 0 THEN Lesser(x, columns - 1) ELSE x
        /\ UNCHANGED <<size, y, stack, mode, margins, scrolledOff, alt>>

\* Mutant: ED marks the cursor's row only.
ErasedDirtyOwn(whole) == {y}

ErasedDirty(whole) == whole

\* ED: below, above (with the cursor's own cell), or the whole scroll region.
EraseInDisplay(n) ==
    LET part == {i \in Cols : CASE n = 0 -> x <= i [] n = 1 -> i <= x [] OTHER -> FALSE}
        whole == {r \in Rows : CASE n = 0 -> y < r /\ r <= Bottom
                                 [] n = 1 -> Top <= r /\ r < y
                                 [] n \in {2, 3} -> InRegion(r)
                                 [] OTHER -> FALSE}
        own == IF n \in {0, 1} THEN {y} ELSE {}
    IN  /\ buffer' = [r \in Rows |-> [i \in Cols |->
               IF r \in whole \/ (r = y /\ i \in part) THEN Blank ELSE buffer[r][i]]]
        /\ wrapped' = [r \in Rows |-> r \notin whole /\ wrapped[r]]
        /\ dirty' = dirty \cup own \cup ErasedDirty(whole)
        /\ UNCHANGED <<size, cursor, mode, margins, scrolledOff, alt>>

AlignmentDisplay ==
    /\ \E g \in Narrow : buffer' = [r \in Rows |-> [i \in Cols |-> g]]
    /\ wrapped' = Hard(lines)
    /\ dirty' = dirty \cup Rows
    /\ x' = 0 /\ y' = 0
    /\ UNCHANGED <<size, stack, mode, margins, scrolledOff, alt>>

-----------------------------------------------------------------------------
(* Modes and margins.                                                      *)

SetMode(m) ==
    /\ mode' = mode \cup {m}
    /\ x' = IF m = "DECOM" THEN 0 ELSE x
    /\ y' = IF m = "DECOM" THEN 0 ELSE y
    /\ UNCHANGED <<size, grid, stack, margins, dirty, scrolledOff, alt>>

ResetMode(m) ==
    /\ mode' = mode \ {m}
    /\ UNCHANGED <<size, grid, cursor, margins, dirty, scrolledOff, alt>>

\* ?3h and ?3l: the width is assigned, the rows keep the cells they have.
Blanked == [r \in DOMAIN buffer |-> [i \in DOMAIN buffer[r] |-> Blank]]

SetColumns132 ==
    /\ AnyDeccolm \/ columns = WideColumns
    /\ columns' = WideColumns
    /\ buffer' = Blanked
    /\ dirty' = Rows
    /\ margins' = None
    /\ x' = 0 /\ y' = 0 /\ stack' = <<>>
    /\ UNCHANGED <<lines, wrapped, mode, scrolledOff, alt>>

SetColumns80 ==
    /\ AnyDeccolm \/ columns = StdColumns
    /\ columns' = StdColumns
    /\ margins' = None
    /\ x' = 0 /\ y' = 0 /\ stack' = <<>>
    /\ UNCHANGED <<lines, grid, mode, dirty, scrolledOff, alt>>

ValidMargins(top, bottom) == top < bottom /\ bottom < lines

\* CSI top ; bottom r: the margins, if they are valid, and the cursor home.
SetMargins(t, b) ==
    LET top == Greater(t, 1) - 1
        bottom == Greater(b, 1) - 1
        valid == ValidMargins(top, bottom)
    IN  /\ margins' = IF valid THEN [top |-> top, bottom |-> bottom] ELSE margins
        /\ wrapped' = IF valid THEN Hard(lines) ELSE wrapped
        /\ x' = 0
        /\ y' = IF "DECOM" \notin mode THEN 0 ELSE IF valid THEN top ELSE Top
        /\ UNCHANGED <<size, buffer, stack, mode, dirty, scrolledOff, alt>>

-----------------------------------------------------------------------------
(* The alternate screen, sizes, reset and the drain.                       *)

Conform(g, rows, cols) ==
    [r \in 0..(rows - 1) |-> [i \in 0..(cols - 1) |->
        IF r \in DOMAIN g /\ i \in DOMAIN g[r] THEN g[r][i] ELSE Blank]]
ConformWraps(w, rows) == [r \in 0..(rows - 1) |-> r \in DOMAIN w /\ w[r]]

EnterAlt(save) ==
    /\ ~altScreen
    /\ altScreen' = TRUE
    /\ saved' = <<[rows |-> buffer, wraps |-> wrapped]>>
    /\ savedCursor' = IF save THEN [x |-> x, y |-> y, stack |-> stack] ELSE savedCursor
    /\ buffer' = BlankGrid(lines, columns)
    /\ wrapped' = Hard(lines)
    /\ dirty' = dirty \cup Rows
    /\ UNCHANGED <<size, cursor, mode, margins, scrolledOff>>

Clamped(v, n) == Lesser(v, n - 1)

ExitAlt(restore) ==
    LET back == IF restore /\ savedCursor # None THEN savedCursor
                ELSE [x |-> x, y |-> y, stack |-> stack]
    IN  /\ altScreen
        /\ altScreen' = FALSE
        /\ saved' = <<>>
        /\ savedCursor' = None
        /\ buffer' = Conform(saved[1].rows, lines, columns)
        /\ wrapped' = ConformWraps(saved[1].wraps, lines)
        /\ x' = Clamped(back.x, columns)
        /\ y' = Clamped(back.y, lines)
        /\ stack' = back.stack
        /\ dirty' = dirty \cup Rows
        /\ UNCHANGED <<size, mode, margins, scrolledOff>>

\* Mutant: only the screen on display follows the new size.
ResizedSavedNot(rows, cols) == saved

ResizedSaved(rows, cols) ==
    IF saved = <<>> THEN <<>>
    ELSE <<[rows |-> Conform(saved[1].rows, rows, cols),
            wraps |-> ConformWraps(saved[1].wraps, rows)]>>

\* resize() of a grid that may already have lost rows to the scrollback.
ResizeGrid(g, w, row, rows, cols) ==
    /\ lines' = rows /\ columns' = cols
    /\ buffer' = Conform(g, rows, cols)
    /\ wrapped' = ConformWraps(w, rows)
    /\ margins' = None
    /\ dirty' = 0..(rows - 1)
    /\ x' = Lesser(x, cols - 1)
    /\ y' = Lesser(row, rows - 1)
    /\ saved' = ResizedSaved(rows, cols)
    /\ UNCHANGED <<stack, mode, scrolledOff, altScreen, savedCursor>>

Resize(l, c) ==
    LET rows == Greater(l, 1)
        cols == Greater(c, 1)
    IN  /\ <<rows, cols>> # size
        /\ ResizeGrid(buffer, wrapped, y, rows, cols)

Reset ==
    /\ buffer' = Blanked
    /\ wrapped' = Hard(lines)
    /\ x' = 0 /\ y' = 0 /\ stack' = <<>>
    /\ mode' = {"LNM", "DECAWM"}
    /\ margins' = None
    /\ dirty' = Rows
    /\ scrolledOff' = <<>>
    /\ altScreen' = FALSE /\ saved' = <<>> /\ savedCursor' = None
    /\ UNCHANGED size

TakeDirtyRows ==
    /\ dirty' = {}
    /\ UNCHANGED <<size, grid, cursor, mode, margins, scrolledOff, alt>>

-----------------------------------------------------------------------------
Move ==
    \/ \E n \in Counts :
           \/ CursorUp(n) \/ CursorDown(n) \/ CursorForward(n) \/ CursorBack(n)
           \/ CursorNextLine(n) \/ CursorPrevLine(n)
           \/ CursorToLine(n) \/ CursorToColumn(n)
    \/ \E row, col \in Counts : CursorPosition(row, col)
    \/ CarriageReturn \/ Tab \/ SaveCursor \/ RestoreCursor

Scroll ==
    \/ LineFeed \/ NextLine \/ ReverseIndex
    \/ \E n \in Counts :
           ScrollUpBy(n) \/ ScrollDownBy(n) \/ InsertLines(n) \/ DeleteLines(n)

Edit ==
    \/ \E g \in Narrow \cup Wide : Draw(g)
    \/ \E n \in Counts :
           \/ EraseCharacters(n) \/ DeleteCharacters(n) \/ InsertCharacters(n)
           \/ EraseInLine(n) \/ EraseInDisplay(n)
    \/ AlignmentDisplay

Configure ==
    \/ \E m \in ModeNames : SetMode(m) \/ ResetMode(m)
    \/ SetColumns132 \/ SetColumns80
    \/ \E top \in Counts, bottom \in Counts \cup {lines} : SetMargins(top, bottom)
    \/ \E flag \in BOOLEAN : EnterAlt(flag) \/ ExitAlt(flag)

\* What one escape sequence or character can do to the screen.
Sequence == Move \/ Scroll \/ Edit \/ Combine \/ Configure

Step ==
    \/ Sequence
    \/ \E s \in Sizes : Resize(s[1], s[2])
    \/ Reset
    \/ TakeDirtyRows

Next == steps < MaxSteps /\ steps' = steps + 1 /\ Step

Spec == Init /\ [][Next]_vars

-----------------------------------------------------------------------------
TypeOK ==
    /\ {lines, columns} \subseteq Nat \ {0}
    /\ mode \subseteq ModeNames
    /\ altScreen \in BOOLEAN
    /\ altScreen <=> saved # <<>>
    /\ savedCursor # None => altScreen
    /\ \A i \in DOMAIN stack : stack[i].mode \subseteq ModeNames
    /\ steps \in 0..MaxSteps

Grid(rows, cols) == [0..(rows - 1) -> [0..(cols - 1) -> Cells]]
Wraps(rows) == [0..(rows - 1) -> BOOLEAN]

\* docs/TESTS.md, invariant 1: the buffer is exactly lines x columns, with a
\* flag per row; so is the primary grid parked behind the alternate screen.
Rectangular ==
    /\ buffer \in Grid(lines, columns)
    /\ wrapped \in Wraps(lines)
    /\ altScreen => saved[1] \in [rows : Grid(lines, columns), wraps : Wraps(lines)]

\* docs/TESTS.md, invariant 2, and what else the code indexes rows with: the
\* cursor, the scroll region and the dirty rows are on the screen.
InBounds ==
    /\ x \in 0..columns
    /\ y \in Rows
    /\ margins # None => /\ {margins.top, margins.bottom} \subseteq Rows
                         /\ margins.top < margins.bottom
    /\ dirty \subseteq Rows

\* No operation indexes a row or a cell that is not there, whatever sizes,
\* margins, saved cursors and buffers came before it.
WellFormed == TypeOK /\ Rectangular /\ InBounds

\* What the front end hears of row r: it is marked or, by a scroll and by lines
\* inserted or deleted, some row of the scroll region that it lies in.
Told(r) == r \in dirty' \/ (Scroll /\ InRegion(r) /\ \E q \in dirty' : InRegion(q))

ChangesTold ==
    /\ ~Combine => \A r \in DOMAIN buffer' :
                      (r \notin DOMAIN buffer \/ buffer'[r] # buffer[r]) => Told(r)
    /\ ~TakeDirtyRows => dirty \cap DOMAIN buffer' \subseteq dirty'

\* Nothing on display changes unheard, a combining mark (which marks no row)
\* excepted, and no mark is lost before the front end takes it: README.md:299
\* and ARCHITECTURE.md:243-244 of the repository, as far as the code keeps them.
ChangesAreMarked == [][ChangesTold]_vars

\* While the alternate screen is up the primary grid is parked: nothing but a
\* resize changes it, nothing enters the scrollback, and leaving the alternate
\* screen brings back exactly what entering it parked.
AltParksPrimary ==
    [][/\ (altScreen /\ altScreen' /\ size' = size) =>
              (saved' = saved /\ scrolledOff' = scrolledOff)
       /\ (~altScreen /\ altScreen') => saved' = <<[rows |-> buffer, wraps |-> wrapped]>>
       /\ (altScreen /\ ~altScreen' /\ ~Reset) =>
              (buffer' = saved[1].rows /\ wrapped' = saved[1].wraps)]_vars

==============================================================================
