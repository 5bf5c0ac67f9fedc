---------------------------- MODULE HistoryScreen -----------------------------
(***************************************************************************)
(* The screen with its scrollback (src/src/terminal/history.rs), as a      *)
(* front end drives it: a feed is any number of operations of the inner    *)
(* Screen, and at its end the lines that scrolled off the top are captured *)
(* into the history; between feeds the front end resizes, resets, drains   *)
(* and sets the capacity.  A change of the columns of the primary screen   *)
(* reflows scrollback and screen together.                                 *)
(***************************************************************************)
EXTENDS Reflow

CONSTANTS
    InitCap,  \* scrollback_lines at creation; 0 is unbounded
    Caps      \* the capacities a front end may set

ASSUME HistoryAssumption == InitCap \in Nat /\ Caps \subseteq Nat

VARIABLES
    history,  \* scrollback lines with their wrap flags, oldest first
    cap,      \* scrollback_lines
    feeding   \* feed() is under way

historyVars == <<history, cap, feeding>>
allVars == <<vars, historyVars>>

HInit ==
    /\ Init
    /\ history = <<>>
    /\ cap = InitCap
    /\ feeding = FALSE

-----------------------------------------------------------------------------
\* Mutant: the newest lines are trimmed.
TrimmedNewest(h, n) == IF n > 0 /\ Len(h) > n THEN SubSeq(h, 1, n) ELSE h

\* trim_history()
Trimmed(h, n) == IF n > 0 /\ Len(h) > n THEN SubSeq(h, Len(h) - n + 1, Len(h)) ELSE h

FeedOne ==
    /\ Sequence
    /\ feeding' = TRUE
    /\ UNCHANGED <<history, cap>>

\* The end of feed().
Capture ==
    /\ feeding
    /\ feeding' = FALSE
    /\ history' = Trimmed(history \o scrolledOff, cap)
    /\ scrolledOff' = <<>>
    /\ UNCHANGED <<size, grid, cursor, mode, margins, dirty, alt, cap>>

\* Mutant: set_scrollback_lines() leaves the trimming to the next push.
SetCapOnly(n) ==
    /\ ~feeding
    /\ cap' = n
    /\ UNCHANGED <<screenVars, history, feeding>>

SetCap(n) ==
    /\ ~feeding
    /\ cap' = n
    /\ history' = Trimmed(history, n)
    /\ UNCHANGED <<screenVars, feeding>>

HReset ==
    /\ ~feeding
    /\ Reset
    /\ history' = <<>>
    /\ UNCHANGED <<cap, feeding>>

HTakeDirtyRows ==
    /\ ~feeding
    /\ TakeDirtyRows
    /\ UNCHANGED historyVars

\* On the alternate screen the history follows the width, and nothing else.
Conformed(h, cols) ==
    [n \in DOMAIN h |-> [h[n] EXCEPT !.cells =
        [i \in 0..(cols - 1) |-> IF i \in DOMAIN @ THEN @[i] ELSE Blank]]]

ResizeAlt(l, c) ==
    /\ ~feeding
    /\ altScreen
    /\ Resize(l, c)
    /\ history' = Conformed(history, columns')
    /\ UNCHANGED <<cap, feeding>>

\* Mutant: the cursor's own row counts as one below it.
RowsBelowOwn == lines - y

RowsBelow == lines - (y + 1)

\* A change of the rows alone: a smaller screen gives up the rows below the
\* cursor, then pushes rows off the top; a larger one is padded.
ResizeRows(l) ==
    LET rows == Greater(l, 1)
        excess == Greater(lines - rows, 0)
        fromBottom == Lesser(excess, RowsBelow)
        fromTop == excess - fromBottom
        left == 0..(lines - 1 - excess)
        pushed == [i \in 1..fromTop |-> [cells |-> buffer[i - 1], wrap |-> wrapped[i - 1]]]
    IN  /\ ~feeding
        /\ ~altScreen
        /\ rows # lines
        /\ history' = Trimmed(history \o pushed, cap)
        /\ ResizeGrid([r \in left |-> buffer[r + fromTop]],
                      [r \in left |-> wrapped[r + fromTop]],
                      Greater(y - fromTop, 0), rows, columns)
        /\ UNCHANGED <<cap, feeding>>

Visible == [i \in 1..lines |-> [cells |-> buffer[i - 1], wrap |-> wrapped[i - 1]]]

\* A change of the columns: what is pending is captured, and all of it reflowed.
ResizeColumns(l, c) ==
    LET rows == Greater(l, 1)
        cols == Greater(c, 1)
        past == Trimmed(history \o scrolledOff, cap)
    IN  /\ ~feeding
        /\ ~altScreen
        /\ cols # columns
        /\ \E new \in {Reflowed(past \o Visible, Len(past), x, y, columns, rows, cols, cap)} :
              LET shown == 0..(Len(new.screen) - 1)
              IN  /\ history' = Trimmed(new.history, cap)
                  /\ buffer' = Conform([r \in shown |-> new.screen[r + 1].cells], rows, cols)
                  /\ wrapped' = ConformWraps([r \in shown |-> new.screen[r + 1].wrap], rows)
                  /\ x' = new.x /\ y' = new.y
        /\ lines' = rows /\ columns' = cols
        /\ margins' = None
        /\ dirty' = 0..(rows - 1)
        /\ scrolledOff' = <<>>
        /\ UNCHANGED <<stack, mode, alt, cap, feeding>>

HStep ==
    \/ FeedOne
    \/ Capture
    \/ \E n \in Caps : SetCap(n)
    \/ HReset
    \/ HTakeDirtyRows
    \/ \E s \in Sizes : ResizeAlt(s[1], s[2])
    \/ \E s \in Sizes : ResizeRows(s[1])
    \/ \E s \in Sizes : ResizeColumns(s[1], s[2])

HNext == steps < MaxSteps /\ steps' = steps + 1 /\ HStep

HSpec == HInit /\ [][HNext]_allVars

-----------------------------------------------------------------------------
Line == [cells : [0..(columns - 1) -> Cells], wrap : BOOLEAN]

Paper == history \o scrolledOff

\* docs/TESTS.md, invariants 1 and 3: every line of the scrollback, of the
\* lines on their way to it and of the screen is as wide as the screen, and
\* the scrollback never outgrows its capacity, whoever changed which last;
\* and what indexes the rows is on the screen.
HistoryFits ==
    /\ Rectangular
    /\ InBounds
    /\ \A n \in DOMAIN Paper : Paper[n] \in Line
    /\ cap > 0 => Len(history) <= cap

VisibleTo(row) == SubSeq(Visible, 1, row + 1)

\* What has scrolled off is only ever lost at its old end and only to the
\* capacity; the rest keeps its place, through every feed, capture, resize of
\* the rows and alternate-screen session, and only a feed or a shrinking screen
\* adds to it.
ScrollbackIsAppended ==
    [][(columns' = columns /\ ~HReset) =>
          \E d \in 0..Len(Paper) :
              /\ IsPrefix(SubSeq(Paper, d + 1, Len(Paper)), Paper')
              /\ d > 0 => (cap' > 0 /\ Len(history') = cap')
              /\ (~feeding' /\ grid' = grid) =>
                     Paper' = SubSeq(Paper, d + 1, Len(Paper))]_allVars

\* A resize of the rows keeps everything down to the cursor: it is found again,
\* in order, at the end of the scrollback and at the top of the screen.
ResizeKeepsWrittenLines ==
    [][(~feeding' /\ ~altScreen /\ columns' = columns /\ lines' # lines) =>
           IsSuffix(history' \o VisibleTo(y)', history \o VisibleTo(y))]_allVars

Pages == Paper \o Visible

\* What a reader finds on a paper: the lines between hard breaks.
Starts(paper) == {r \in DOMAIN paper : r = 1 \/ ~paper[r].wrap}
WrittenFrom(paper, r) ==
    LET later == {q \in Starts(paper) : q > r}
        last == IF later = {} THEN Len(paper) ELSE Min(later) - 1
    IN  TrimBlanks(FlattenSeq([i \in 1..(last - r + 1) |-> Run(paper[r + i - 1])]))
Written(paper) ==
    LET first == SetToSortSeq(Starts(paper), LAMBDA q, r : q < r)
        all == [n \in DOMAIN first |-> WrittenFrom(paper, first[n])]
    IN  SubSeq(all, 1, SelectLastInSeq(all, LAMBDA line : line # <<>>))
Glyphs(paper) ==
    SelectSeq(FlattenSeq([r \in DOMAIN paper |-> Run(paper[r])]), LAMBDA c : c # Blank)
IsNarrow(paper) == \A r \in DOMAIN paper : \A i \in DOMAIN paper[r].cells : paper[r].cells[i] \notin Wide

Reflows == ~feeding' /\ ~altScreen /\ columns' # columns
NothingDropped == cap = 0 \/ Len(history') < cap

\* A reflow keeps every glyph, in order, and, of a paper without wide glyphs,
\* every line with its breaks, its inner and its leading blanks.  Only a full
\* scrollback loses some, at its old end.
ReflowKeepsText ==
    [][Reflows =>
           /\ IsSuffix(Glyphs(Pages'), Glyphs(Pages))
           /\ NothingDropped => Len(Glyphs(Pages')) = Len(Glyphs(Pages))
           /\ IsNarrow(Pages) =>
                  /\ IsSuffix(FlattenSeq(Written(Pages')), FlattenSeq(Written(Pages)))
                  /\ NothingDropped => Written(Pages') = Written(Pages)]_allVars

\* The line and the offset in it that a position on the screen stands for.
Place(paper, row, col, cols) ==
    LET before == {r \in Starts(paper) : r <= row + 1}
    IN  <<Cardinality(before), (row + 1 - Max(before)) * cols + col>>
Before(p, q) == p[1] < q[1] \/ (p[1] = q[1] /\ p[2] < q[2])
At == Place(Pages, Len(Paper) + y, Lesser(x, columns - 1), columns)
TopLeft == Place(Pages, Len(Paper), 0, columns)
\* The cursor is on a cell of the written part of its line.
OnText == At[1] <= Len(Written(Pages)) /\ At[2] < Len(Written(Pages)[At[1]])

\* A reflow leaves the cursor on the character it was on, or in the top row
\* when that character has moved to the scrollback.
ReflowKeepsCursor ==
    [][(Reflows /\ IsNarrow(Pages) /\ NothingDropped /\ OnText) =>
           (At' = At \/ (y' = 0 /\ Before(At, TopLeft')))]_allVars

\* What a change of the width keeps: the text, its lines and the cursor's place
\* in it.
ReflowIsFaithful == ReflowKeepsText /\ ReflowKeepsCursor
==============================================================================
