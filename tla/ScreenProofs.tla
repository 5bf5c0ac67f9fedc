---------------------------- MODULE ScreenProofs -----------------------------
(***************************************************************************)
(* Proofs about Screen and HistoryScreen, for any sizes, glyphs,           *)
(* parameters, capacities and numbers of operations.  The cursor, the      *)
(* scroll region and the dirty rows are on the screen whatever happens.    *)
(* As long as ?3 asks for the width there already is, the buffer and the   *)
(* grid parked behind the alternate screen have exactly the size of the    *)
(* screen, no row changes unheard but by a combining mark, and the parked  *)
(* grid comes back as it went; every line of the scrollback is as wide as the screen, *)
(* before and after a reflow, and none is lost but to the capacity.        *)
(***************************************************************************)
EXTENDS HistoryScreen, SequenceFacts, SequenceTheorems, FiniteSetTheorems, TLAPS

\* A position as the save stack and the alternate screen keep it.
Position == [x : Nat, y : Nat, mode : SUBSET ModeNames]

SavesOK ==
    /\ stack \in Seq(Position)
    /\ savedCursor # None => savedCursor \in [x : Nat, y : Nat, stack : Seq(Position)]

PlaceInv == TypeOK /\ InBounds /\ SavesOK

-----------------------------------------------------------------------------
(* Places on the screen.                                                   *)

\* There is a scroll region, and it is on the screen.
LEMMA RegionOnScreen ==
    ASSUME PlaceInv
    PROVE  /\ lines \in Nat \ {0} /\ columns \in Nat \ {0}
           /\ x \in 0..columns /\ y \in 0..(lines - 1)
           /\ Top \in 0..(lines - 1) /\ Bottom \in 0..(lines - 1) /\ Top <= Bottom
<1>1. lines \in Nat \ {0} /\ columns \in Nat \ {0}
    BY DEF PlaceInv, TypeOK
<1>2. x \in 0..columns /\ y \in 0..(lines - 1)
    BY DEF PlaceInv, InBounds, Rows
<1>3. CASE margins = None
    BY <1>1, <1>2, <1>3 DEF Top, Bottom
<1>4. CASE margins # None
    <2>1. margins.top \in Rows /\ margins.bottom \in Rows /\ margins.top < margins.bottom
        BY <1>4 DEF PlaceInv, InBounds
    <2>. QED
        BY <1>1, <1>2, <1>4, <2>1 DEF Top, Bottom, Rows
<1>. QED
    BY <1>3, <1>4

\* What is saved carries modes of the screen.
LEMMA SavedModes ==
    ASSUME NEW s \in Seq(Position)
    PROVE  \A i \in DOMAIN s : s[i].mode \subseteq ModeNames
<1>. SUFFICES ASSUME NEW i \in DOMAIN s PROVE s[i].mode \subseteq ModeNames
    OBVIOUS
<1>1. s[i] \in Position
    OBVIOUS
<1>. QED
    BY <1>1 DEF Position

\* A step that keeps the size and the two screens, and all places within them.
LEMMA StayPreserves ==
    ASSUME PlaceInv,
           x' \in 0..columns, y' \in 0..(lines - 1),
           dirty' \subseteq 0..(lines - 1),
           mode' \subseteq ModeNames,
           margins' = margins \/ margins' = None,
           stack' \in Seq(Position),
           UNCHANGED <<lines, columns, alt>>,
           steps' \in 0..MaxSteps
    PROVE  PlaceInv'
<1>1. \A i \in DOMAIN stack' : stack'[i].mode \subseteq ModeNames
    BY SavedModes
<1>2. TypeOK'
    BY <1>1 DEF PlaceInv, TypeOK, alt
<1>3. InBounds'
    BY DEF PlaceInv, InBounds, Rows
<1>4. SavesOK'
    BY DEF PlaceInv, SavesOK, alt
<1>. QED
    BY <1>2, <1>3, <1>4 DEF PlaceInv

\* A step that only moves the cursor, within the screen.
LEMMA MoveToPreserves ==
    ASSUME PlaceInv, steps' \in 0..MaxSteps,
           NEW col \in 0..columns, NEW row \in 0..(lines - 1), MoveTo(col, row)
    PROVE  PlaceInv'
<1>1. stack \in Seq(Position) /\ mode \subseteq ModeNames /\ dirty \subseteq 0..(lines - 1)
    BY DEF PlaceInv, SavesOK, TypeOK, InBounds, Rows
<1>. QED
    BY <1>1, StayPreserves DEF MoveTo, size

-----------------------------------------------------------------------------
(* The operations, group by group.                                         *)

\* Cursor movement.
LEMMA MovePreserves ==
    ASSUME PlaceInv, steps' \in 0..MaxSteps, Move
    PROVE  PlaceInv'
<1>. USE RegionOnScreen DEF Lesser, Greater
<1>0. Counts \subseteq Nat
    BY ScreenAssumption DEF ScreenAssumption
<1>1. ASSUME NEW n \in Counts,
             \/ CursorUp(n) \/ CursorDown(n) \/ CursorForward(n) \/ CursorBack(n)
             \/ CursorNextLine(n) \/ CursorPrevLine(n)
      PROVE  PlaceInv'
    <2>1. n \in Nat
        BY <1>0
    <2>2. \E col \in 0..columns, row \in 0..(lines - 1) : MoveTo(col, row)
        <3>1. CASE CursorUp(n)
            BY <2>1, <3>1 DEF CursorUp
        <3>2. CASE CursorDown(n)
            BY <2>1, <3>2 DEF CursorDown
        <3>3. CASE CursorForward(n)
            BY <2>1, <3>3 DEF CursorForward
        <3>4. CASE CursorBack(n)
            BY <2>1, <3>4 DEF CursorBack
        <3>5. CASE CursorNextLine(n)
            BY <2>1, <3>5 DEF CursorNextLine
        <3>6. CASE CursorPrevLine(n)
            BY <2>1, <3>6 DEF CursorPrevLine
        <3>. QED
            BY <1>1, <3>1, <3>2, <3>3, <3>4, <3>5, <3>6
    <2>. QED
        BY <2>2, MoveToPreserves
<1>2. \A n \in Nat : PositionX(n) \in 0..columns /\ PositionY(n) \in 0..(lines - 1)
    BY DEF PositionX, PositionY
<1>3. ASSUME NEW row \in Counts, NEW col \in Counts, CursorPosition(row, col)
      PROVE  PlaceInv'
    BY <1>0, <1>2, <1>3, MoveToPreserves DEF CursorPosition
<1>4. ASSUME NEW n \in Counts, CursorToLine(n) \/ CursorToColumn(n)
      PROVE  PlaceInv'
    <2>1. {n, x + 1, y + 1} \subseteq Nat
        BY <1>0
    <2>. QED
        BY <1>2, <1>4, <2>1, MoveToPreserves DEF CursorToLine, CursorToColumn
<1>5. CASE CarriageReturn \/ Tab
    <2>1. \E col \in 0..columns, row \in 0..(lines - 1) : MoveTo(col, row)
        BY <1>5 DEF CarriageReturn, Tab
    <2>. QED
        BY <2>1, MoveToPreserves
<1>6. mode \subseteq ModeNames /\ stack \in Seq(Position) /\ dirty \subseteq 0..(lines - 1)
    BY DEF PlaceInv, TypeOK, SavesOK, InBounds, Rows
<1>7. CASE SaveCursor
    <2>1. [x |-> x, y |-> y, mode |-> mode] \in Position
        BY <1>6 DEF Position
    <2>2. stack' \in Seq(Position)
        BY <1>6, <1>7, <2>1 DEF SaveCursor
    <2>. QED
        BY <1>6, <1>7, <2>2, StayPreserves DEF SaveCursor, size
<1>8. CASE RestoreCursor
    <2>1. CASE stack = <<>>
        BY <1>6, <1>8, <2>1, StayPreserves DEF RestoreCursor, size
    <2>2. CASE stack # <<>>
        <3>1. Len(stack) \in Nat \ {0} /\ stack[Len(stack)] \in Position
            BY <1>6, <2>2
        <3>2. stack' \in Seq(Position)
            <4>1. \A i \in 1..(Len(stack) - 1) : stack[i] \in Position
                BY <1>6
            <4>2. SubSeq(stack, 1, Len(stack) - 1) \in Seq(Position)
                BY <3>1, <4>1, SubSeqProperties
            <4>. QED
                BY <1>8, <2>2, <4>2 DEF RestoreCursor
        <3>. DEFINE top == stack[Len(stack)]
        <3>3. top.x \in Nat /\ top.y \in Nat /\ top.mode \subseteq ModeNames
            BY <3>1 DEF Position
        <3>4. x' = Lesser(top.x, columns - 1) /\ y' = RestoredY(top.y) /\ mode' = top.mode
            BY <1>8, <2>2 DEF RestoreCursor
        <3>5. x' \in 0..columns /\ y' \in 0..(lines - 1)
            BY <3>3, <3>4, SMTT(30) DEF RestoredY
        <3>. QED
            BY <1>6, <1>8, <3>2, <3>3, <3>4, <3>5, StayPreserves DEF RestoreCursor, size
    <2>. QED
        BY <2>1, <2>2
<1>. QED
    BY <1>1, <1>3, <1>4, <1>5, <1>7, <1>8 DEF Move

\* Scrolling.
LEMMA ScrollPreserves ==
    ASSUME PlaceInv, steps' \in 0..MaxSteps, Scroll
    PROVE  PlaceInv'
<1>. USE RegionOnScreen DEF Rows
<1>1. mode \subseteq ModeNames /\ stack \in Seq(Position) /\ dirty \subseteq 0..(lines - 1)
    BY DEF PlaceInv, TypeOK, SavesOK, InBounds
<1>2. ASSUME NEW n, ScrollUp(n) \/ ScrollDown(n)
      PROVE  dirty' \subseteq 0..(lines - 1)
    BY <1>1, <1>2 DEF ScrollUp, ScrollDown
<1>3. ASSUME NEW col \in 0..columns, Feed(col)
      PROVE  PlaceInv'
    <2>1. y' \in 0..(lines - 1) /\ dirty' \subseteq 0..(lines - 1)
        <3>1. CASE y < Bottom
            <4>1. y' = y + 1 /\ dirty' = dirty
                BY <1>3, <3>1 DEF Feed
            <4>2. y' \in 0..(lines - 1)
                BY <3>1, <4>1
            <4>. QED
                BY <1>1, <4>1, <4>2
        <3>2. CASE ~(y < Bottom)
            BY <1>2, <1>3, <3>2 DEF Feed
        <3>. QED
            BY <3>1, <3>2
    <2>. QED
        BY <1>1, <1>3, <2>1, StayPreserves DEF Feed, size
<1>4. CASE LineFeed \/ NextLine
    BY <1>3, <1>4 DEF LineFeed, NextLine
<1>5. CASE ReverseIndex
    <2>1. x' \in 0..columns /\ y' \in 0..(lines - 1) /\ dirty' \subseteq 0..(lines - 1)
        <3>1. CASE y > Top
            <4>1. y' = y - 1 /\ x' = 0 /\ dirty' = dirty
                BY <1>5, <3>1 DEF ReverseIndex
            <4>2. x' \in 0..columns /\ y' \in 0..(lines - 1)
                BY <3>1, <4>1
            <4>. QED
                BY <1>1, <4>1, <4>2
        <3>2. CASE ~(y > Top)
            BY <1>1, <1>2, <1>5, <3>2 DEF ReverseIndex
        <3>. QED
            BY <3>1, <3>2
    <2>. QED
        BY <1>1, <1>5, <2>1, StayPreserves DEF ReverseIndex, size
<1>6. ASSUME NEW n \in Counts, ScrollUpBy(n) \/ ScrollDownBy(n)
      PROVE  PlaceInv'
    <2>1. dirty' \subseteq 0..(lines - 1)
        BY <1>2, <1>6 DEF ScrollUpBy, ScrollDownBy
    <2>. QED
        BY <1>1, <1>6, <2>1, StayPreserves DEF ScrollUpBy, ScrollDownBy, size, cursor
<1>7. ASSUME NEW n \in Counts, InsertLines(n) \/ DeleteLines(n)
      PROVE  PlaceInv'
    <2>1. x' = 0 /\ UNCHANGED <<size, y, stack, mode, margins, alt>>
        BY <1>7 DEF InsertLines, DeleteLines
    <2>2. dirty' \subseteq dirty \cup {y}
        BY <1>7 DEF InsertLines, DeleteLines
    <2>. QED
        BY <1>1, <2>1, <2>2, StayPreserves DEF size
<1>. QED
    BY <1>4, <1>5, <1>6, <1>7 DEF Scroll

\* Drawing and erasing.
LEMMA EditPreserves ==
    ASSUME PlaceInv, steps' \in 0..MaxSteps, Edit \/ Combine
    PROVE  PlaceInv'
<1>. USE RegionOnScreen DEF Rows
<1>1. mode \subseteq ModeNames /\ stack \in Seq(Position) /\ dirty \subseteq 0..(lines - 1)
    BY DEF PlaceInv, TypeOK, SavesOK, InBounds
<1>2. ASSUME NEW g, Draw(g)
      PROVE  PlaceInv'
    <2>1. NextRow(y) \in 0..(lines - 1)
        BY DEF NextRow
    <2>2. y' \in 0..(lines - 1) /\ dirty' \subseteq 0..(lines - 1)
        BY <1>1, <1>2, <2>1 DEF Draw
    <2>3. x' \in 0..columns
        BY <1>2 DEF Draw, Lesser
    <2>. QED
        BY <1>1, <1>2, <2>2, <2>3, StayPreserves DEF Draw, size
<1>3. CASE Combine
    BY <1>1, <1>3, StayPreserves DEF Combine, size, cursor
<1>4. ASSUME NEW n \in Counts, EraseCharacters(n) \/ DeleteCharacters(n) \/ InsertCharacters(n)
      PROVE  PlaceInv'
    <2>1. dirty' = dirty \cup {y} /\ UNCHANGED <<size, cursor, mode, margins, alt>>
        BY <1>4 DEF EraseCharacters, DeleteCharacters, InsertCharacters, EditRow
    <2>. QED
        BY <1>1, <2>1, StayPreserves DEF size, cursor
<1>5. ASSUME NEW n \in Counts, EraseInLine(n)
      PROVE  PlaceInv'
    <2>1. dirty' = dirty \cup {y} /\ UNCHANGED <<size, y, stack, mode, margins, alt>>
        BY <1>5 DEF EraseInLine, EditRow
    <2>2. x' \in 0..columns
        BY <1>5 DEF EraseInLine, Lesser
    <2>. QED
        BY <1>1, <2>1, <2>2, StayPreserves DEF size
<1>6. ASSUME NEW n \in Counts, EraseInDisplay(n)
      PROVE  PlaceInv'
    <2>1. UNCHANGED <<size, cursor, mode, margins, alt>>
        BY <1>6 DEF EraseInDisplay
    <2>2. dirty' \subseteq 0..(lines - 1)
        BY <1>1, <1>6 DEF EraseInDisplay, ErasedDirty
    <2>. QED
        BY <1>1, <2>1, <2>2, StayPreserves DEF size, cursor
<1>7. CASE AlignmentDisplay
    <2>1. x' = 0 /\ y' = 0 /\ dirty' = dirty \cup Rows
          /\ UNCHANGED <<size, stack, mode, margins, alt>>
        BY <1>7 DEF AlignmentDisplay
    <2>2. x' \in 0..columns /\ y' \in 0..(lines - 1)
        BY <2>1
    <2>. QED
        BY <1>1, <2>1, <2>2, StayPreserves DEF size
<1>. QED
    BY <1>2, <1>3, <1>4, <1>5, <1>6, <1>7 DEF Edit

\* Modes, margins and the widths of ?3.
LEMMA ConfigurePreserves ==
    ASSUME PlaceInv, steps' \in 0..MaxSteps,
           \/ \E m \in ModeNames : SetMode(m) \/ ResetMode(m)
           \/ SetColumns132 \/ SetColumns80
           \/ \E top \in Counts, bottom \in Counts \cup {lines} : SetMargins(top, bottom)
    PROVE  PlaceInv'
<1>. USE RegionOnScreen DEF Rows
<1>1. mode \subseteq ModeNames /\ stack \in Seq(Position) /\ dirty \subseteq 0..(lines - 1)
    BY DEF PlaceInv, TypeOK, SavesOK, InBounds
<1>2. ASSUME NEW m \in ModeNames, SetMode(m) \/ ResetMode(m)
      PROVE  PlaceInv'
    <2>1. mode' \subseteq ModeNames /\ x' \in 0..columns /\ y' \in 0..(lines - 1)
        BY <1>1, <1>2 DEF SetMode, ResetMode, cursor
    <2>. QED
        BY <1>1, <1>2, <2>1, StayPreserves DEF SetMode, ResetMode, size, cursor
<1>3. CASE SetColumns132 \/ SetColumns80
    <2>1. /\ columns' \in Nat \ {0}
          /\ margins' = None /\ x' = 0 /\ y' = 0 /\ stack' = <<>>
          /\ dirty' \subseteq 0..(lines - 1)
          /\ UNCHANGED <<lines, mode, alt>>
        BY <1>1, <1>3, ScreenAssumption DEF SetColumns132, SetColumns80, ScreenAssumption
    <2>2. TypeOK' /\ InBounds'
        BY <2>1 DEF PlaceInv, TypeOK, InBounds, alt
    <2>3. SavesOK'
        BY <2>1 DEF PlaceInv, SavesOK, alt
    <2>. QED
        BY <2>2, <2>3 DEF PlaceInv
<1>4. ASSUME NEW t \in Counts, NEW b \in Counts \cup {lines}, SetMargins(t, b)
      PROVE  PlaceInv'
    <2>0. t \in Nat /\ b \in Nat
        BY ScreenAssumption DEF ScreenAssumption
    <2>1. DEFINE top == Greater(t, 1) - 1
                 bottom == Greater(b, 1) - 1
    <2>2. top \in Nat /\ bottom \in Nat
        BY <2>0 DEF Greater
    <2>3. x' = 0 /\ UNCHANGED <<size, stack, mode, dirty, alt>>
        BY <1>4 DEF SetMargins
    <2>4. CASE ValidMargins(top, bottom)
        <3>1. margins' = [top |-> top, bottom |-> bottom] /\ y' \in {0, top}
            BY <1>4, <2>4 DEF SetMargins
        <3>2. top \in 0..(lines - 1) /\ bottom \in 0..(lines - 1) /\ top < bottom
            BY <2>2, <2>4 DEF ValidMargins
        <3>3. InBounds'
            BY <1>1, <2>3, <3>1, <3>2 DEF InBounds, size
        <3>. QED
            BY <2>3, <3>3 DEF PlaceInv, TypeOK, SavesOK, size, alt
    <2>5. CASE ~ValidMargins(top, bottom)
        <3>1. margins' = margins /\ y' \in {0, Top}
            BY <1>4, <2>5 DEF SetMargins
        <3>. QED
            BY <1>1, <2>3, <3>1, StayPreserves DEF size
    <2>. QED
        BY <2>4, <2>5
<1>. QED
    BY <1>2, <1>3, <1>4

\* A new size, for whichever rows are left.
LEMMA ResizeGridInPlace ==
    ASSUME PlaceInv, steps' \in 0..MaxSteps, NEW g, NEW w, NEW row \in Nat,
           NEW rows \in Nat \ {0}, NEW cols \in Nat \ {0}, ResizeGrid(g, w, row, rows, cols)
    PROVE  PlaceInv'
<1>1. /\ lines' = rows /\ columns' = cols /\ margins' = None /\ dirty' = 0..(rows - 1)
      /\ x' = Lesser(x, cols - 1) /\ y' = Lesser(row, rows - 1)
      /\ saved' = ResizedSaved(rows, cols)
      /\ UNCHANGED <<stack, mode, altScreen, savedCursor>>
    BY DEF ResizeGrid
<1>2. saved' # <<>> <=> saved # <<>>
    BY <1>1 DEF ResizedSaved
<1>3. x' \in 0..cols /\ y' \in 0..(rows - 1)
    BY <1>1, RegionOnScreen DEF Lesser
<1>4. TypeOK'
    BY <1>1, <1>2 DEF PlaceInv, TypeOK
<1>5. InBounds'
    BY <1>1, <1>3 DEF InBounds, Rows
<1>6. SavesOK'
    BY <1>1 DEF PlaceInv, SavesOK
<1>. QED
    BY <1>4, <1>5, <1>6 DEF PlaceInv

\* The alternate screen, a new size, a reset and the drain of the dirty rows.
LEMMA FrontEndPreserves ==
    ASSUME PlaceInv, steps' \in 0..MaxSteps,
           \/ \E flag \in BOOLEAN : EnterAlt(flag) \/ ExitAlt(flag)
           \/ \E s \in Sizes : Resize(s[1], s[2])
           \/ Reset \/ TakeDirtyRows
    PROVE  PlaceInv'
<1>. USE RegionOnScreen DEF Rows
<1>1. mode \subseteq ModeNames /\ stack \in Seq(Position) /\ dirty \subseteq 0..(lines - 1)
    BY DEF PlaceInv, TypeOK, SavesOK, InBounds
<1>2. ASSUME NEW save \in BOOLEAN, EnterAlt(save)
      PROVE  PlaceInv'
    <2>1. /\ altScreen' = TRUE /\ saved' # <<>> /\ dirty' = dirty \cup Rows
          /\ savedCursor' \in {[x |-> x, y |-> y, stack |-> stack], savedCursor}
          /\ UNCHANGED <<size, cursor, mode, margins>>
        BY <1>2 DEF EnterAlt
    <2>2. [x |-> x, y |-> y, stack |-> stack] \in [x : Nat, y : Nat, stack : Seq(Position)]
        BY <1>1
    <2>3. SavesOK'
        BY <2>1, <2>2 DEF PlaceInv, SavesOK, cursor
    <2>4. TypeOK'
        BY <2>1 DEF PlaceInv, TypeOK, size, cursor
    <2>5. InBounds'
        BY <2>1 DEF PlaceInv, InBounds, size, cursor
    <2>. QED
        BY <2>3, <2>4, <2>5 DEF PlaceInv
<1>3. ASSUME NEW restore \in BOOLEAN, ExitAlt(restore)
      PROVE  PlaceInv'
    <2>. DEFINE own == [x |-> x, y |-> y, stack |-> stack]
                back == IF restore /\ savedCursor # None THEN savedCursor ELSE own
    <2>1. back \in [x : Nat, y : Nat, stack : Seq(Position)]
        BY <1>1 DEF PlaceInv, SavesOK
    <2>2. back.x \in Nat /\ back.y \in Nat /\ back.stack \in Seq(Position)
        BY <2>1
    <2>3. /\ altScreen' = FALSE /\ saved' = <<>> /\ savedCursor' = None
          /\ x' = Clamped(back.x, columns) /\ y' = Clamped(back.y, lines) /\ stack' = back.stack
          /\ dirty' = dirty \cup Rows
          /\ UNCHANGED <<size, mode, margins>>
        BY <1>3 DEF ExitAlt
    <2>. HIDE DEF back
    <2>4. x' \in 0..columns /\ y' \in 0..(lines - 1)
        BY <2>2, <2>3, SMTT(30) DEF Clamped, Lesser
    <2>5. \A i \in DOMAIN stack' : stack'[i].mode \subseteq ModeNames
        BY <2>2, <2>3, SavedModes
    <2>6. TypeOK'
        BY <2>3, <2>5 DEF PlaceInv, TypeOK, size
    <2>7. InBounds'
        BY <2>3, <2>4 DEF PlaceInv, InBounds, size
    <2>8. SavesOK'
        BY <2>2, <2>3 DEF SavesOK
    <2>. QED
        BY <2>6, <2>7, <2>8 DEF PlaceInv
<1>4. ASSUME NEW s \in Sizes, Resize(s[1], s[2])
      PROVE  PlaceInv'
    <2>1. Greater(s[1], 1) \in Nat \ {0} /\ Greater(s[2], 1) \in Nat \ {0}
        BY ScreenAssumption DEF ScreenAssumption, Greater
    <2>. QED
        BY <1>4, <2>1, ResizeGridInPlace DEF Resize
<1>5. CASE Reset
    <2>1. /\ x' = 0 /\ y' = 0 /\ stack' = <<>> /\ mode' = {"LNM", "DECAWM"} /\ margins' = None
          /\ dirty' = Rows /\ altScreen' = FALSE /\ saved' = <<>> /\ savedCursor' = None
          /\ UNCHANGED size
        BY <1>5 DEF Reset
    <2>2. stack' \in Seq(Position) /\ \A i \in DOMAIN stack' : stack'[i].mode \subseteq ModeNames
        <3>1. stack' \in Seq(Position)
            BY <2>1
        <3>. QED
            BY <3>1, SavedModes
    <2>3. mode' \subseteq ModeNames
        BY <2>1 DEF ModeNames
    <2>4. TypeOK'
        BY <2>1, <2>2, <2>3 DEF PlaceInv, TypeOK, size
    <2>5. InBounds'
        BY <2>1 DEF InBounds, size
    <2>6. SavesOK'
        BY <2>1, <2>2 DEF SavesOK
    <2>. QED
        BY <2>4, <2>5, <2>6 DEF PlaceInv
<1>6. CASE TakeDirtyRows
    BY <1>1, <1>6, StayPreserves DEF TakeDirtyRows, size, cursor
<1>. QED
    BY <1>2, <1>3, <1>4, <1>5, <1>6

-----------------------------------------------------------------------------
\* All places are on the screen at the start.
LEMMA InitInPlace == Init => PlaceInv
<1>. SUFFICES ASSUME Init PROVE PlaceInv
    OBVIOUS
<1>. USE ScreenAssumption DEF ScreenAssumption, Init
<1>0. stack \in Seq(Position) /\ \A i \in DOMAIN stack : stack[i].mode \subseteq ModeNames
    <2>1. stack \in Seq(Position)
        OBVIOUS
    <2>. QED
        BY <2>1, SavedModes
<1>1. TypeOK
    <2>1. mode \subseteq ModeNames
        BY DEF ModeNames
    <2>2. {lines, columns} \subseteq Nat \ {0} /\ steps \in 0..MaxSteps
        OBVIOUS
    <2>3. altScreen = FALSE /\ saved = <<>> /\ savedCursor = None
        OBVIOUS
    <2>. QED
        BY <1>0, <2>1, <2>2, <2>3 DEF TypeOK
<1>2. InBounds
    BY DEF InBounds, Rows
<1>3. SavesOK
    BY <1>0 DEF SavesOK
<1>. QED
    BY <1>1, <1>2, <1>3 DEF PlaceInv

\* And they stay there.
LEMMA NextInPlace == PlaceInv /\ [Next]_vars => PlaceInv'
<1>. SUFFICES ASSUME PlaceInv, [Next]_vars PROVE PlaceInv'
    OBVIOUS
<1>1. CASE UNCHANGED vars
    BY <1>1 DEF PlaceInv, TypeOK, InBounds, SavesOK, Rows, vars, screenVars, size, cursor, alt
<1>2. CASE Next
    <2>1. steps' \in 0..MaxSteps
        <3>1. steps \in 0..MaxSteps /\ steps < MaxSteps /\ steps' = steps + 1
            BY <1>2 DEF Next, PlaceInv, TypeOK
        <3>. QED
            BY <3>1, ScreenAssumption DEF ScreenAssumption
    <2>. QED
        BY <1>2, <2>1, MovePreserves, ScrollPreserves, EditPreserves, ConfigurePreserves,
           FrontEndPreserves DEF Next, Step, Sequence, Configure
<1>. QED
    BY <1>1, <1>2

\* The cursor, the scroll region and the dirty rows are on the screen, whatever
\* sizes, margins, widths of ?3, saved cursors and alternate screens came before.
THEOREM AlwaysInPlace == Spec => [](TypeOK /\ InBounds)
<1>1. Spec => []PlaceInv
    BY InitInPlace, NextInPlace, PTL DEF Spec
<1>2. PlaceInv => TypeOK /\ InBounds
    BY DEF PlaceInv
<1>. QED
    BY <1>1, <1>2, PTL

-----------------------------------------------------------------------------
(* The grid.                                                               *)

\* A row of a given width.
RowsOf(cols) == [0..(cols - 1) -> Cells]

\* A grid is made of such rows.
LEMMA GridOfRows == \A rows, cols : Grid(rows, cols) = [0..(rows - 1) -> RowsOf(cols)]
  BY DEF Grid, RowsOf

\* Blank rows, blank grids and hard line ends fit.
LEMMA BlankFits ==
    ASSUME NEW rows, NEW cols
    PROVE  /\ BlankRow(cols) \in RowsOf(cols)
           /\ BlankGrid(rows, cols) \in Grid(rows, cols)
           /\ Hard(rows) \in Wraps(rows)
<1>1. BlankRow(cols) \in RowsOf(cols)
    BY DEF BlankRow, RowsOf, Cells
<1>2. BlankGrid(rows, cols) \in Grid(rows, cols)
    BY <1>1, GridOfRows DEF BlankGrid
<1>. QED
    BY <1>1, <1>2 DEF Hard, Wraps

\* A grid that is conformed to a size has that size.
LEMMA ConformFits ==
    ASSUME NEW r, NEW c, NEW rows, NEW cols, NEW g \in Grid(r, c), NEW w \in Wraps(r)
    PROVE  /\ Conform(g, rows, cols) \in Grid(rows, cols)
           /\ ConformWraps(w, rows) \in Wraps(rows)
<1>1. \A i \in 0..(r - 1), j \in 0..(c - 1) : g[i][j] \in Cells
    BY DEF Grid
<1>2. DOMAIN g = 0..(r - 1) /\ \A i \in 0..(r - 1) : DOMAIN g[i] = 0..(c - 1)
    BY DEF Grid
<1>3. Blank \in Cells
    BY DEF Cells
<1>4. Conform(g, rows, cols) \in Grid(rows, cols)
    <2>. DEFINE cell(i, j) == IF i \in DOMAIN g /\ j \in DOMAIN g[i] THEN g[i][j] ELSE Blank
    <2>1. \A i, j : cell(i, j) \in Cells
        BY <1>1, <1>2, <1>3
    <2>2. Conform(g, rows, cols) = [i \in 0..(rows - 1) |-> [j \in 0..(cols - 1) |-> cell(i, j)]]
        BY DEF Conform
    <2>. HIDE DEF cell
    <2>3. \A i : [j \in 0..(cols - 1) |-> cell(i, j)] \in RowsOf(cols)
        BY <2>1 DEF RowsOf
    <2>. QED
        BY <2>2, <2>3, GridOfRows
<1>5. ConformWraps(w, rows) \in Wraps(rows)
    BY DEF ConformWraps, Wraps
<1>. QED
    BY <1>4, <1>5

\* One that has the size already stays as it is.
LEMMA ConformKeeps ==
    ASSUME NEW rows, NEW cols, NEW g \in Grid(rows, cols), NEW w \in Wraps(rows)
    PROVE  Conform(g, rows, cols) = g /\ ConformWraps(w, rows) = w
<1>1. DOMAIN g = 0..(rows - 1)
    BY DEF Grid
<1>2. ASSUME NEW i \in 0..(rows - 1)
      PROVE  [j \in 0..(cols - 1) |-> IF i \in DOMAIN g /\ j \in DOMAIN g[i] THEN g[i][j] ELSE Blank]
                 = g[i]
    <2>1. g[i] \in [0..(cols - 1) -> Cells]
        BY DEF Grid
    <2>. QED
        BY <1>1, <2>1
<1>3. Conform(g, rows, cols) = [i \in 0..(rows - 1) |-> g[i]]
    BY <1>2 DEF Conform
<1>4. g = [i \in 0..(rows - 1) |-> g[i]]
    BY DEF Grid
<1>5. ConformWraps(w, rows) = w
    BY DEF ConformWraps, Wraps
<1>. QED
    BY <1>3, <1>4, <1>5

\* The grid as it is, and the one parked.
LEMMA GridFacts ==
    ASSUME Rectangular
    PROVE  /\ buffer \in [0..(lines - 1) -> RowsOf(columns)]
           /\ wrapped \in [0..(lines - 1) -> BOOLEAN]
           /\ Blank \in Cells /\ Marked \in Cells
           /\ BlankRow(columns) \in RowsOf(columns)
  BY GridOfRows, BlankFits DEF Rectangular, Wraps, Cells

\* A step on the screen as it is, that leaves rows and flags of its size.
LEMMA GridPreserves ==
    ASSUME Rectangular,
           buffer' \in [0..(lines - 1) -> RowsOf(columns)],
           wrapped' \in [0..(lines - 1) -> BOOLEAN],
           UNCHANGED <<size, alt>>
    PROVE  Rectangular'
<1>1. lines' = lines /\ columns' = columns /\ altScreen' = altScreen /\ saved' = saved
    BY DEF size, alt
<1>2. buffer' \in Grid(lines', columns') /\ wrapped' \in Wraps(lines')
    BY <1>1, GridOfRows DEF Wraps
<1>. QED
    BY <1>1, <1>2 DEF Rectangular

\* Scrolling keeps the size of the grid.
LEMMA ScrollFits ==
    ASSUME PlaceInv, Rectangular, NEW n \in Nat, ScrollUp(n) \/ ScrollDown(n)
    PROVE  /\ buffer' \in [0..(lines - 1) -> RowsOf(columns)]
           /\ wrapped' \in [0..(lines - 1) -> BOOLEAN]
<1>. USE RegionOnScreen, GridFacts DEF Rows
<1>. DEFINE k == Lesser(n, Bottom - Top + 1)
<1>0. k \in Nat
    BY DEF Lesser
<1>1. CASE ScrollUp(n)
    <2>. DEFINE kept(r) == r + k <= Bottom
                row(r) == IF ~InRegion(r) THEN buffer[r]
                          ELSE IF kept(r) THEN buffer[r + k] ELSE BlankRow(columns)
                flag(r) == IF InRegion(r) THEN kept(r) /\ wrapped[r + k] ELSE wrapped[r]
    <2>1. buffer' = [r \in Rows |-> row(r)] /\ wrapped' = [r \in Rows |-> flag(r)]
        BY <1>1 DEF ScrollUp
    <2>2. ASSUME NEW r \in Rows
          PROVE  row(r) \in RowsOf(columns) /\ flag(r) \in BOOLEAN
        <3>1. kept(r) => r + k \in 0..(lines - 1)
            BY <1>0
        <3>. QED
            BY <3>1
    <2>. HIDE DEF row, flag
    <2>. QED
        BY <2>1, <2>2
<1>2. CASE ScrollDown(n)
    <2>. DEFINE row(r) == IF ~InRegion(r) THEN buffer[r]
                          ELSE IF k = 1 /\ Top < Bottom /\ r = Bottom THEN buffer[Top]
                          ELSE BlankRow(columns)
                flag(r) == IF ~InRegion(r) THEN wrapped[r] ELSE k = 1 /\ r > Top /\ wrapped[Top]
    <2>1. \/ UNCHANGED <<buffer, wrapped>>
          \/ buffer' = [r \in Rows |-> row(r)] /\ wrapped' = [r \in Rows |-> flag(r)]
        BY <1>2 DEF ScrollDown, grid
    <2>2. \A r \in Rows : row(r) \in RowsOf(columns) /\ flag(r) \in BOOLEAN
        OBVIOUS
    <2>. HIDE DEF row, flag
    <2>. QED
        BY <2>1, <2>2
<1>. QED
    BY <1>1, <1>2

\* So does everything else that scrolls.
LEMMA ScrollKeepsGrid ==
    ASSUME PlaceInv, Rectangular, Scroll
    PROVE  Rectangular'
<1>. USE RegionOnScreen, GridFacts DEF Rows
<1>0. Counts \subseteq Nat
    BY ScreenAssumption DEF ScreenAssumption
<1>1. ASSUME NEW col, Feed(col)
      PROVE  Rectangular'
    <2>1. UNCHANGED <<size, alt>> /\ (ScrollUp(1) \/ UNCHANGED grid)
        BY <1>1 DEF Feed
    <2>. QED
        BY <2>1, ScrollFits, GridPreserves DEF grid
<1>2. CASE LineFeed \/ NextLine
    BY <1>1, <1>2 DEF LineFeed, NextLine
<1>3. CASE ReverseIndex
    <2>1. UNCHANGED <<size, alt>> /\ (ScrollDown(1) \/ UNCHANGED grid)
        BY <1>3 DEF ReverseIndex
    <2>. QED
        BY <2>1, ScrollFits, GridPreserves DEF grid
<1>4. ASSUME NEW n \in Counts, ScrollUpBy(n) \/ ScrollDownBy(n)
      PROVE  Rectangular'
    <2>1. UNCHANGED <<size, alt>> /\ (ScrollUp(n) \/ ScrollDown(n)) /\ n \in Nat
        BY <1>0, <1>4 DEF ScrollUpBy, ScrollDownBy
    <2>. QED
        BY <2>1, ScrollFits, GridPreserves
<1>5. ASSUME NEW n \in Counts, InsertLines(n) \/ DeleteLines(n)
      PROVE  Rectangular'
    <2>. DEFINE k == Lesser(Greater(n, 1), Bottom - y)
    <2>0. Top <= y /\ y <= Bottom /\ UNCHANGED <<size, alt>>
        BY <1>5 DEF InsertLines, DeleteLines, InRegion
    <2>1. k \in Nat
        BY <1>0, <2>0 DEF Lesser, Greater
    <2>2. CASE InsertLines(n)
        <3>. DEFINE new(r) == y <= r /\ r < y + k
                    moved(r) == y + k <= r /\ r <= Bottom
                    row(r) == IF new(r) THEN BlankRow(columns)
                              ELSE IF moved(r) THEN buffer[r - k] ELSE buffer[r]
                    flag(r) == IF moved(r) THEN wrapped[r - k] ELSE ~new(r) /\ wrapped[r]
        <3>1. buffer' = [r \in Rows |-> row(r)] /\ wrapped' = [r \in Rows |-> flag(r)]
            BY <2>2 DEF InsertLines
        <3>2. ASSUME NEW r \in Rows
              PROVE  row(r) \in RowsOf(columns) /\ flag(r) \in BOOLEAN
            <4>1. moved(r) => r - k \in 0..(lines - 1)
                BY <2>0, <2>1
            <4>. QED
                BY <4>1
        <3>. HIDE DEF row, flag
        <3>. QED
            BY <2>0, <3>1, <3>2, GridPreserves
    <2>3. CASE DeleteLines(n)
        <3>. DEFINE moved(r) == y <= r /\ r + k <= Bottom
                    new(r) == Bottom < r + k /\ r <= Bottom
                    row(r) == IF moved(r) THEN buffer[r + k]
                              ELSE IF new(r) THEN BlankRow(columns) ELSE buffer[r]
                    flag(r) == IF moved(r) THEN wrapped[r + k] ELSE ~new(r) /\ wrapped[r]
        <3>1. buffer' = [r \in Rows |-> row(r)] /\ wrapped' = [r \in Rows |-> flag(r)]
            BY <2>3 DEF DeleteLines
        <3>2. ASSUME NEW r \in Rows
              PROVE  row(r) \in RowsOf(columns) /\ flag(r) \in BOOLEAN
            <4>1. moved(r) => r + k \in 0..(lines - 1)
                BY <2>0, <2>1
            <4>. QED
                BY <4>1
        <3>. HIDE DEF row, flag
        <3>. QED
            BY <2>0, <3>1, <3>2, GridPreserves
    <2>. QED
        BY <1>5, <2>2, <2>3
<1>. QED
    BY <1>2, <1>3, <1>4, <1>5 DEF Scroll

\* Cells moved to make room keep the width of their row.
LEMMA InsertedFits ==
    ASSUME columns \in Nat, Blank \in Cells,
           NEW row \in RowsOf(columns), NEW at \in Nat, NEW n \in Nat
    PROVE  Inserted(row, at, n) \in RowsOf(columns)
<1>1. \A i \in 0..(columns - 1) : i >= at + n => i - n \in 0..(columns - 1)
    OBVIOUS
<1>. QED
    BY <1>1 DEF Inserted, RowsOf, Cols

\* An edit of the cursor's row that leaves its width.
LEMMA EditRowFits ==
    ASSUME PlaceInv, Rectangular, NEW row \in RowsOf(columns), EditRow(row)
    PROVE  buffer' \in [0..(lines - 1) -> RowsOf(columns)]
  BY RegionOnScreen, GridFacts DEF EditRow

\* Drawing and erasing keep the size of the grid.
LEMMA EditKeepsGrid ==
    ASSUME PlaceInv, Rectangular, Edit \/ Combine
    PROVE  Rectangular'
<1>. USE RegionOnScreen, GridFacts DEF Rows, Cols
<1>0. Counts \subseteq Nat
    BY ScreenAssumption DEF ScreenAssumption
<1>1. ASSUME NEW g \in Narrow \cup Wide, Draw(g)
      PROVE  Rectangular'
    <2>. DEFINE wide == g \in Wide
                wraps == x >= columns
                flows == wraps /\ y < lines - 1 /\ (wide \/ "DECAWM" \in mode)
                row == IF wraps THEN NextRow(y) ELSE y
                col == IF wraps THEN 0 ELSE x
                room == IF "IRM" \in mode /\ ~wide THEN Inserted(buffer[row], col, 1)
                                                  ELSE buffer[row]
                drawn == [i \in Cols |-> IF i = col THEN g
                                         ELSE IF wide /\ i = col + 1 THEN Blank ELSE room[i]]
    <2>1. /\ buffer' = [buffer EXCEPT ![row] = drawn]
          /\ wrapped' = IF flows THEN [wrapped EXCEPT ![row] = TRUE] ELSE wrapped
          /\ UNCHANGED <<size, alt>>
        BY <1>1 DEF Draw
    <2>2. row \in 0..(lines - 1) /\ col \in Nat
        BY DEF NextRow
    <2>. HIDE DEF row, col, flows
    <2>3. buffer[row] \in RowsOf(columns)
        BY <2>2
    <2>4. room \in RowsOf(columns)
        BY <2>2, <2>3, InsertedFits
    <2>. HIDE DEF room
    <2>5. g \in Cells
        BY DEF Cells
    <2>6. drawn \in RowsOf(columns)
        BY <2>4, <2>5 DEF RowsOf
    <2>. HIDE DEF drawn
    <2>7. buffer' \in [0..(lines - 1) -> RowsOf(columns)] /\ wrapped' \in [0..(lines - 1) -> BOOLEAN]
        BY <2>1, <2>2, <2>6
    <2>. QED
        BY <2>1, <2>7, GridPreserves
<1>2. CASE Combine
    <2>. DEFINE cell == IF buffer[y][x - 1] \in Wide THEN buffer[y][x - 1] ELSE Marked
    <2>1. x - 1 \in 0..(columns - 1) /\ buffer[y] \in RowsOf(columns)
        BY <1>2 DEF Combine
    <2>2. cell \in Cells
        BY <2>1 DEF RowsOf
    <2>3. buffer' = [buffer EXCEPT ![y] = [buffer[y] EXCEPT ![x - 1] = cell]]
        BY <1>2 DEF Combine
    <2>. HIDE DEF cell
    <2>4. [buffer[y] EXCEPT ![x - 1] = cell] \in RowsOf(columns)
        BY <2>1, <2>2 DEF RowsOf
    <2>5. UNCHANGED <<size, wrapped, alt>>
        BY <1>2 DEF Combine
    <2>. QED
        BY <2>3, <2>4, <2>5, GridPreserves
<1>3. ASSUME NEW row \in RowsOf(columns), EditRow(row), UNCHANGED <<size, alt>>,
             wrapped' = wrapped \/ wrapped' = [wrapped EXCEPT ![y] = FALSE]
      PROVE  Rectangular'
    BY <1>3, EditRowFits, GridPreserves
<1>4. buffer[y] \in [0..(columns - 1) -> Cells]
    BY DEF RowsOf
<1>5. ASSUME NEW n \in Counts, EraseCharacters(n)
      PROVE  Rectangular'
    <2>. DEFINE row == [i \in Cols |-> IF x <= i /\ i < x + Greater(n, 1) THEN Blank ELSE buffer[y][i]]
    <2>1. row \in RowsOf(columns)
        BY <1>4 DEF RowsOf
    <2>2. EditRow(row) /\ UNCHANGED <<size, alt, wrapped>>
        BY <1>5 DEF EraseCharacters
    <2>. QED
        BY <1>3, <2>1, <2>2
<1>6. ASSUME NEW n \in Counts, DeleteCharacters(n)
      PROVE  Rectangular'
    <2>. DEFINE k == Lesser(Greater(n, 1), columns - x)
                row == [i \in Cols |-> IF i < x THEN buffer[y][i]
                                       ELSE IF i + k < columns THEN buffer[y][i + k] ELSE Blank]
    <2>1. k \in Nat
        BY <1>0 DEF Lesser, Greater
    <2>2. EditRow(row) /\ UNCHANGED <<size, alt, wrapped>>
        BY <1>6 DEF DeleteCharacters
    <2>. HIDE DEF k
    <2>3. \A i \in Cols : i + k < columns => i + k \in 0..(columns - 1)
        BY <2>1
    <2>4. row \in RowsOf(columns)
        BY <1>4, <2>3 DEF RowsOf
    <2>. QED
        BY <1>3, <2>2, <2>4
<1>7. ASSUME NEW n \in Counts, InsertCharacters(n)
      PROVE  Rectangular'
    <2>1. EditRow(Inserted(buffer[y], x, Greater(n, 1))) /\ UNCHANGED <<size, alt, wrapped>>
        BY <1>7 DEF InsertCharacters
    <2>2. buffer[y] \in RowsOf(columns) /\ x \in Nat /\ Greater(n, 1) \in Nat
        BY <1>0 DEF Greater
    <2>. QED
        BY <1>3, <2>1, <2>2, InsertedFits
<1>8. ASSUME NEW n \in Counts, EraseInLine(n)
      PROVE  Rectangular'
    <2>. DEFINE erased(i) == CASE n = 0 -> x <= i [] n = 1 -> i <= x [] OTHER -> TRUE
                row == [i \in Cols |-> IF erased(i) THEN Blank ELSE buffer[y][i]]
    <2>1. /\ EditRow(row) /\ UNCHANGED <<size, alt>>
          /\ wrapped' = wrapped \/ wrapped' = [wrapped EXCEPT ![y] = FALSE]
        BY <1>8 DEF EraseInLine
    <2>. HIDE DEF erased
    <2>2. row \in RowsOf(columns)
        BY <1>4 DEF RowsOf
    <2>. QED
        BY <1>3, <2>1, <2>2
<1>9. ASSUME NEW n \in Counts, EraseInDisplay(n)
      PROVE  Rectangular'
    <2>1. PICK part, whole :
              /\ buffer' = [r \in Rows |-> [i \in Cols |->
                     IF r \in whole \/ (r = y /\ i \in part) THEN Blank ELSE buffer[r][i]]]
              /\ wrapped' = [r \in Rows |-> r \notin whole /\ wrapped[r]]
              /\ UNCHANGED <<size, alt>>
        BY <1>9 DEF EraseInDisplay
    <2>2. ASSUME NEW r \in Rows
          PROVE  [i \in Cols |-> IF r \in whole \/ (r = y /\ i \in part) THEN Blank ELSE buffer[r][i]]
                     \in RowsOf(columns)
        <3>1. buffer[r] \in [0..(columns - 1) -> Cells]
            BY DEF RowsOf
        <3>. QED
            BY <3>1 DEF RowsOf
    <2>3. buffer' \in [0..(lines - 1) -> RowsOf(columns)]
        BY <2>1, <2>2
    <2>. QED
        BY <2>1, <2>3, GridPreserves
<1>10. CASE AlignmentDisplay
    <2>1. PICK g \in Narrow : buffer' = [r \in Rows |-> [i \in Cols |-> g]]
        BY <1>10 DEF AlignmentDisplay
    <2>2. [i \in Cols |-> g] \in RowsOf(columns)
        BY DEF RowsOf, Cells
    <2>3. wrapped' = Hard(lines) /\ UNCHANGED <<size, alt>>
        BY <1>10 DEF AlignmentDisplay
    <2>. QED
        BY <2>1, <2>2, <2>3, BlankFits, GridPreserves DEF Wraps
<1>. QED
    BY <1>1, <1>2, <1>5, <1>6, <1>7, <1>8, <1>9, <1>10 DEF Edit

\* Modes, margins and a ?3 for the width there is keep the size of the grid.
LEMMA ConfigureKeepsGrid ==
    ASSUME AnyDeccolm = FALSE, PlaceInv, Rectangular,
           \/ \E m \in ModeNames : SetMode(m) \/ ResetMode(m)
           \/ SetColumns132 \/ SetColumns80
           \/ \E top \in Counts, bottom \in Counts \cup {lines} : SetMargins(top, bottom)
    PROVE  Rectangular'
<1>. USE GridFacts
<1>1. ASSUME NEW m \in ModeNames, SetMode(m) \/ ResetMode(m)
      PROVE  Rectangular'
    BY <1>1, GridPreserves DEF SetMode, ResetMode, grid
<1>2. CASE SetColumns132
    <2>1. buffer' = Blanked /\ UNCHANGED <<size, alt, wrapped>>
        BY <1>2 DEF SetColumns132, size
    <2>2. \A r \in 0..(lines - 1) : [i \in DOMAIN buffer[r] |-> Blank] \in RowsOf(columns)
        BY DEF RowsOf
    <2>3. buffer' \in [0..(lines - 1) -> RowsOf(columns)]
        BY <2>1, <2>2 DEF Blanked
    <2>. QED
        BY <2>1, <2>3, GridPreserves
<1>3. CASE SetColumns80
    BY <1>3, GridPreserves DEF SetColumns80, size, grid
<1>4. ASSUME NEW t \in Counts, NEW b \in Counts \cup {lines}, SetMargins(t, b)
      PROVE  Rectangular'
    <2>1. UNCHANGED <<size, buffer, alt>> /\ wrapped' \in {wrapped, Hard(lines)}
        BY <1>4 DEF SetMargins
    <2>. QED
        BY <2>1, BlankFits, GridPreserves DEF Wraps
<1>. QED
    BY <1>1, <1>2, <1>3, <1>4

\* A grid of any size, resized, has the new size, and so has the parked one.
LEMMA ResizeGridFits ==
    ASSUME PlaceInv, Rectangular, NEW rows, NEW cols, NEW row, NEW r, NEW c,
           NEW g \in Grid(r, c), NEW w \in Wraps(r), ResizeGrid(g, w, row, rows, cols)
    PROVE  Rectangular'
<1>1. /\ lines' = rows /\ columns' = cols
      /\ buffer' = Conform(g, rows, cols) /\ wrapped' = ConformWraps(w, rows)
      /\ saved' = ResizedSaved(rows, cols) /\ altScreen' = altScreen
    BY DEF ResizeGrid
<1>2. ASSUME altScreen
      PROVE  saved'[1] \in [rows : Grid(rows, cols), wraps : Wraps(rows)]
    <2>1. saved # <<>>
        BY <1>2 DEF PlaceInv, TypeOK
    <2>2. saved'[1] = [rows |-> Conform(saved[1].rows, rows, cols),
                       wraps |-> ConformWraps(saved[1].wraps, rows)]
        BY <1>1, <2>1 DEF ResizedSaved
    <2>3. saved[1].rows \in Grid(lines, columns) /\ saved[1].wraps \in Wraps(lines)
        BY <1>2 DEF Rectangular
    <2>. QED
        BY <2>2, <2>3, ConformFits
<1>. QED
    BY <1>1, <1>2, ConformFits DEF Rectangular

\* Entering and leaving the alternate screen, a new size, a reset and the drain.
LEMMA FrontEndKeepsGrid ==
    ASSUME PlaceInv, Rectangular,
           \/ \E flag \in BOOLEAN : EnterAlt(flag) \/ ExitAlt(flag)
           \/ \E s \in Sizes : Resize(s[1], s[2])
           \/ Reset \/ TakeDirtyRows
    PROVE  Rectangular'
<1>. USE GridFacts
<1>0. buffer \in Grid(lines, columns) /\ wrapped \in Wraps(lines)
    BY DEF Rectangular
<1>1. ASSUME NEW save \in BOOLEAN, EnterAlt(save)
      PROVE  Rectangular'
    <2>1. /\ buffer' = BlankGrid(lines, columns) /\ wrapped' = Hard(lines)
          /\ saved'[1] = [rows |-> buffer, wraps |-> wrapped]
          /\ lines' = lines /\ columns' = columns
        BY <1>1 DEF EnterAlt, size
    <2>2. saved'[1] \in [rows : Grid(lines, columns), wraps : Wraps(lines)]
        BY <1>0, <2>1
    <2>. QED
        BY <2>1, <2>2, BlankFits DEF Rectangular
<1>2. ASSUME NEW restore \in BOOLEAN, ExitAlt(restore)
      PROVE  Rectangular'
    <2>1. /\ buffer' = Conform(saved[1].rows, lines, columns)
          /\ wrapped' = ConformWraps(saved[1].wraps, lines)
          /\ lines' = lines /\ columns' = columns /\ altScreen' = FALSE
        BY <1>2 DEF ExitAlt, size
    <2>2. saved[1].rows \in Grid(lines, columns) /\ saved[1].wraps \in Wraps(lines)
        BY <1>2 DEF ExitAlt, Rectangular
    <2>. QED
        BY <2>1, <2>2, ConformFits DEF Rectangular
<1>3. ASSUME NEW s \in Sizes, Resize(s[1], s[2])
      PROVE  Rectangular'
    BY <1>0, <1>3, ResizeGridFits DEF Resize
<1>4. CASE Reset
    <2>1. buffer' = Blanked /\ wrapped' = Hard(lines) /\ altScreen' = FALSE
          /\ lines' = lines /\ columns' = columns
        BY <1>4 DEF Reset, size
    <2>2. \A r \in 0..(lines - 1) : [i \in DOMAIN buffer[r] |-> Blank] \in RowsOf(columns)
        BY DEF RowsOf
    <2>3. buffer' \in Grid(lines, columns)
        BY <2>1, <2>2, GridOfRows DEF Blanked
    <2>. QED
        BY <2>1, <2>3, BlankFits DEF Rectangular
<1>5. CASE TakeDirtyRows
    BY <1>5, GridPreserves DEF TakeDirtyRows, grid
<1>. QED
    BY <1>1, <1>2, <1>3, <1>4, <1>5

\* Every step, but a ?3 that changes the width, keeps the size of the grid.
LEMMA NextKeepsGrid == AnyDeccolm = FALSE /\ PlaceInv /\ Rectangular /\ [Next]_vars => Rectangular'
<1>. SUFFICES ASSUME AnyDeccolm = FALSE, PlaceInv, Rectangular, [Next]_vars PROVE Rectangular'
    OBVIOUS
<1>1. CASE UNCHANGED vars
    BY <1>1, GridFacts, GridPreserves DEF vars, screenVars, grid
<1>2. CASE Move
    <2>1. UNCHANGED <<size, grid, alt>>
        BY <1>2 DEF Move, MoveTo, CursorUp, CursorDown, CursorForward, CursorBack, CursorNextLine,
                    CursorPrevLine, CursorToLine, CursorToColumn, CursorPosition, CarriageReturn,
                    Tab, SaveCursor, RestoreCursor
    <2>. QED
        BY <2>1, GridFacts, GridPreserves DEF grid
<1>3. CASE Next /\ ~Move
    BY <1>3, ScrollKeepsGrid, EditKeepsGrid, ConfigureKeepsGrid, FrontEndKeepsGrid
    DEF Next, Step, Sequence, Configure
<1>. QED
    BY <1>1, <1>2, <1>3

\* The places on the screen and its size hold together.
LEMMA WellFormedHolds ==
    ASSUME AnyDeccolm = FALSE
    PROVE  Spec => [](PlaceInv /\ Rectangular)
<1>1. Init => Rectangular
    BY BlankFits DEF Init, Rectangular
<1>2. Rectangular /\ PlaceInv /\ [Next]_vars => Rectangular'
    BY NextKeepsGrid
<1>. QED
    BY <1>1, <1>2, InitInPlace, NextInPlace, PTL DEF Spec

-----------------------------------------------------------------------------
(* The theorems.                                                           *)

\* docs/TESTS.md, invariants 1 and 2: the buffer, its flags and the parked grid
\* have exactly the size of the screen, and whatever indexes them is on it,
\* through any operations, as long as ?3 asks for the width there already is.
THEOREM AlwaysWellFormed == ASSUME AnyDeccolm = FALSE PROVE Spec => []WellFormed
<1>1. PlaceInv /\ Rectangular => WellFormed
    BY DEF PlaceInv, WellFormed
<1>. QED
    BY <1>1, WellFormedHolds, PTL

\* What was parked is untouched until it comes back, and comes back as it was:
\* ExitAlt's conform has nothing to do, because a resize has done it already.
THEOREM ParkedIsSafe == ASSUME AnyDeccolm = FALSE PROVE Spec => AltParksPrimary
<1>1. PlaceInv /\ Rectangular /\ [Next]_vars =>
          [/\ (altScreen /\ altScreen' /\ size' = size) =>
                     (saved' = saved /\ scrolledOff' = scrolledOff)
           /\ (~altScreen /\ altScreen') => saved' = <<[rows |-> buffer, wraps |-> wrapped]>>
           /\ (altScreen /\ ~altScreen' /\ ~Reset) =>
                     (buffer' = saved[1].rows /\ wrapped' = saved[1].wraps)]_vars
    <2>. SUFFICES ASSUME PlaceInv, Rectangular, Next
                  PROVE  /\ (altScreen /\ altScreen' /\ size' = size) =>
                                (saved' = saved /\ scrolledOff' = scrolledOff)
                         /\ (~altScreen /\ altScreen') =>
                                saved' = <<[rows |-> buffer, wraps |-> wrapped]>>
                         /\ (altScreen /\ ~altScreen' /\ ~Reset) =>
                                (buffer' = saved[1].rows /\ wrapped' = saved[1].wraps)
        OBVIOUS
    <2>0. altScreen \in BOOLEAN
        BY DEF PlaceInv, TypeOK
    <2>1. ASSUME NEW save \in BOOLEAN, EnterAlt(save)
          PROVE  ~altScreen /\ altScreen' /\ saved' = <<[rows |-> buffer, wraps |-> wrapped]>>
        BY <2>1 DEF EnterAlt
    <2>2. ASSUME NEW restore \in BOOLEAN, ExitAlt(restore)
          PROVE  altScreen /\ ~altScreen' /\ buffer' = saved[1].rows /\ wrapped' = saved[1].wraps
        <3>1. saved[1].rows \in Grid(lines, columns) /\ saved[1].wraps \in Wraps(lines)
            BY <2>2 DEF ExitAlt, Rectangular
        <3>. QED
            BY <2>2, <3>1, ConformKeeps DEF ExitAlt
    <2>3. ASSUME NEW s \in Sizes, Resize(s[1], s[2])
          PROVE  size' # size /\ altScreen' = altScreen
        BY <2>3 DEF Resize, ResizeGrid, size
    <2>4. CASE Reset
        BY <2>0, <2>4 DEF Reset
    <2>5. ASSUME NEW n, ScrollUp(n) \/ ScrollDown(n)
          PROVE  altScreen => scrolledOff' = scrolledOff
        BY <2>5 DEF ScrollUp, ScrollDown, ToHistory
    <2>6. CASE Scroll
        <3>1. UNCHANGED alt
            BY <2>6 DEF Scroll, LineFeed, NextLine, Feed, ReverseIndex, ScrollUpBy, ScrollDownBy,
                        InsertLines, DeleteLines
        <3>2. altScreen => scrolledOff' = scrolledOff
            BY <2>5, <2>6 DEF Scroll, LineFeed, NextLine, Feed, ReverseIndex, ScrollUpBy,
                              ScrollDownBy, InsertLines, DeleteLines
        <3>. QED
            BY <2>0, <3>1, <3>2 DEF alt
    <2>7. CASE Move \/ Edit \/ Combine
        <3>1. UNCHANGED <<alt, scrolledOff>>
            BY <2>7 DEF Move, MoveTo, CursorUp, CursorDown, CursorForward, CursorBack,
                CursorNextLine, CursorPrevLine, CursorToLine, CursorToColumn, CursorPosition,
                CarriageReturn, Tab, SaveCursor, RestoreCursor, Edit, Combine, Draw,
                EraseCharacters, DeleteCharacters, InsertCharacters, EraseInLine, EraseInDisplay,
                AlignmentDisplay
        <3>. QED
            BY <2>0, <3>1 DEF alt
    <2>8. CASE \/ \E m \in ModeNames : SetMode(m) \/ ResetMode(m)
               \/ SetColumns132 \/ SetColumns80 \/ TakeDirtyRows
               \/ \E top \in Counts, bottom \in Counts \cup {lines} : SetMargins(top, bottom)
        <3>1. UNCHANGED <<alt, scrolledOff>>
            BY <2>8 DEF SetMode, ResetMode, SetColumns132, SetColumns80, TakeDirtyRows, SetMargins
        <3>. QED
            BY <2>0, <3>1 DEF alt
    <2>. QED
        BY <2>0, <2>1, <2>2, <2>3, <2>4, <2>6, <2>7, <2>8 DEF Next, Step, Sequence, Configure
<1>. QED
    BY <1>1, WellFormedHolds, PTL DEF Spec, AltParksPrimary

\* An edit marks every row it changes.
LEMMA EditsAreMarked ==
    ASSUME PlaceInv, Rectangular, Edit, NEW r \in Rows, buffer'[r] # buffer[r]
    PROVE  r \in dirty'
<1>. USE RegionOnScreen, GridFacts DEF Rows
<1>1. ASSUME NEW g, Draw(g)
      PROVE  r \in dirty'
    <2>1. PICK row, cells : buffer' = [buffer EXCEPT ![row] = cells] /\ dirty' = dirty \cup {row}
        BY <1>1 DEF Draw
    <2>. QED
        BY <2>1
<1>2. ASSUME NEW cells, EditRow(cells)
      PROVE  r \in dirty'
    BY <1>2 DEF EditRow
<1>3. ASSUME NEW n \in Counts, EraseInDisplay(n)
      PROVE  r \in dirty'
    <2>. DEFINE part == {i \in Cols : CASE n = 0 -> x <= i [] n = 1 -> i <= x [] OTHER -> FALSE}
                whole == {q \in Rows : CASE n = 0 -> y < q /\ q <= Bottom
                                         [] n = 1 -> Top <= q /\ q < y
                                         [] n \in {2, 3} -> InRegion(q)
                                         [] OTHER -> FALSE}
    <2>1. /\ buffer' = [q \in Rows |-> [i \in Cols |->
                 IF q \in whole \/ (q = y /\ i \in part) THEN Blank ELSE buffer[q][i]]]
          /\ dirty' = dirty \cup (IF n \in {0, 1} THEN {y} ELSE {}) \cup whole
        BY <1>3 DEF EraseInDisplay, ErasedDirty
    <2>2. n \notin {0, 1} => part = {}
        OBVIOUS
    <2>. HIDE DEF part, whole
    <2>3. ASSUME r \notin whole, r # y \/ part = {}
          PROVE  buffer'[r] = buffer[r]
        <3>1. buffer'[r] = [i \in Cols |-> buffer[r][i]]
            BY <2>1, <2>3
        <3>2. buffer[r] \in [Cols -> Cells]
            BY DEF RowsOf, Cols
        <3>. QED
            BY <3>1, <3>2
    <2>. QED
        BY <2>1, <2>2, <2>3
<1>4. CASE AlignmentDisplay
    BY <1>4 DEF AlignmentDisplay
<1>. QED
    BY <1>1, <1>2, <1>3, <1>4 DEF Edit, EraseCharacters, DeleteCharacters, InsertCharacters,
                                 EraseInLine

\* A scroll changes rows of the scroll region only, and marks one of them if it
\* changes any.
LEMMA ScrollsAreHeard ==
    ASSUME PlaceInv, Rectangular, NEW n \in Nat, ScrollUp(n) \/ ScrollDown(n),
           NEW r \in Rows, buffer'[r] # buffer[r]
    PROVE  InRegion(r) /\ \E q \in dirty' : InRegion(q)
<1>. DEFINE k == Lesser(n, Bottom - Top + 1)
<1>1. k \in Nat /\ InRegion(Top) /\ InRegion(Bottom)
    BY RegionOnScreen DEF Lesser, InRegion
<1>2. CASE ScrollUp(n)
    <2>1. /\ buffer' = [q \in Rows |->
                 IF ~InRegion(q) THEN buffer[q]
                 ELSE IF q + k <= Bottom THEN buffer[q + k] ELSE BlankRow(columns)]
          /\ dirty' = IF k = 0 THEN dirty ELSE dirty \cup {Bottom}
        BY <1>2 DEF ScrollUp
    <2>2. InRegion(r)
        BY <2>1
    <2>3. r + 0 = r /\ r <= Bottom
        BY <2>2, RegionOnScreen DEF Rows, InRegion
    <2>4. k # 0
        BY <2>1, <2>2, <2>3
    <2>. QED
        BY <1>1, <2>1, <2>2, <2>4
<1>3. CASE ScrollDown(n)
    <2>1. /\ \A q \in Rows : ~InRegion(q) => buffer'[q] = buffer[q]
          /\ buffer' = buffer \/ dirty' = dirty \cup {Top}
        BY <1>3 DEF ScrollDown, grid
    <2>. QED
        BY <1>1, <2>1
<1>. QED
    BY <1>2, <1>3

\* So do lines inserted and deleted.
LEMMA LinesAreHeard ==
    ASSUME PlaceInv, Rectangular, NEW n \in Nat, InsertLines(n) \/ DeleteLines(n),
           NEW r \in Rows, buffer'[r] # buffer[r]
    PROVE  InRegion(r) /\ \E q \in dirty' : InRegion(q)
<1>. DEFINE k == Lesser(Greater(n, 1), Bottom - y)
<1>1. InRegion(y) /\ k \in Nat
    <2>1. InRegion(y)
        BY DEF InsertLines, DeleteLines
    <2>. QED
        BY <2>1, RegionOnScreen DEF Lesser, Greater, InRegion
<1>2. CASE InsertLines(n)
    <2>1. /\ buffer' = [q \in Rows |->
                 IF y <= q /\ q < y + k THEN BlankRow(columns)
                 ELSE IF y + k <= q /\ q <= Bottom THEN buffer[q - k] ELSE buffer[q]]
          /\ dirty' = IF k = 0 THEN dirty ELSE dirty \cup {y}
        BY <1>2 DEF InsertLines
    <2>2. k # 0
        <3>1. r - 0 = r /\ (k = 0 => ~(y <= r /\ r < y + k))
            BY <1>1, RegionOnScreen DEF Rows
        <3>. QED
            BY <2>1, <3>1
    <2>3. InRegion(r)
        <3>1. (y <= r /\ r < y + k) \/ (y + k <= r /\ r <= Bottom)
            BY <2>1
        <3>. QED
            BY <1>1, <3>1, RegionOnScreen DEF Rows, InRegion, Lesser, Greater
    <2>. QED
        BY <1>1, <2>1, <2>2, <2>3
<1>3. CASE DeleteLines(n)
    <2>1. /\ buffer' = [q \in Rows |->
                 IF y <= q /\ q + k <= Bottom THEN buffer[q + k]
                 ELSE IF Bottom < q + k /\ q <= Bottom THEN BlankRow(columns) ELSE buffer[q]]
          /\ dirty' = IF k = 0 THEN dirty ELSE dirty \cup {y}
        BY <1>3 DEF DeleteLines
    <2>2. k # 0
        <3>1. r + 0 = r /\ (k = 0 => ~(Bottom < r + k /\ r <= Bottom))
            BY <1>1, RegionOnScreen DEF Rows
        <3>. QED
            BY <2>1, <3>1
    <2>3. InRegion(r)
        <3>1. (y <= r /\ r + k <= Bottom) \/ (Bottom < r + k /\ r <= Bottom)
            BY <2>1
        <3>. QED
            BY <1>1, <3>1, RegionOnScreen DEF Rows, InRegion, Lesser, Greater
    <2>. QED
        BY <1>1, <2>1, <2>2, <2>3
<1>. QED
    BY <1>2, <1>3

\* No row changes unheard but by a combining mark, and no mark is lost before it
\* is taken (dirty in screen.rs: every operation that inserts into it or marks
\* all rows, and take_dirty_rows).
THEOREM NoChangeUnheard == ASSUME AnyDeccolm = FALSE PROVE Spec => ChangesAreMarked
<1>1. PlaceInv /\ Rectangular /\ [Next]_vars => [ChangesTold]_vars
    <2>. SUFFICES ASSUME PlaceInv, Rectangular, Next PROVE ChangesTold
        OBVIOUS
    <2>1. DOMAIN buffer = Rows /\ dirty \subseteq Rows
        BY GridFacts DEF Rows, PlaceInv, InBounds
    <2>2. CASE UNCHANGED <<buffer, dirty>>
        BY <2>2 DEF ChangesTold
    <2>3. CASE DOMAIN buffer' \subseteq dirty'
        BY <2>3 DEF ChangesTold, Told
    <2>4. CASE Scroll
        <3>1. DOMAIN buffer' = Rows /\ dirty \subseteq dirty'
            BY <2>1, <2>4 DEF Scroll, LineFeed, NextLine, Feed, ReverseIndex, ScrollUpBy,
                ScrollDownBy, ScrollUp, ScrollDown, InsertLines, DeleteLines, grid
        <3>2. ASSUME NEW r \in Rows, buffer'[r] # buffer[r]
              PROVE  InRegion(r) /\ \E q \in dirty' : InRegion(q)
            <4>1. Counts \subseteq Nat /\ 1 \in Nat
                BY ScreenAssumption
            <4>2. CASE \E n \in Counts : InsertLines(n) \/ DeleteLines(n)
                BY <3>2, <4>1, <4>2, LinesAreHeard
            <4>3. CASE \E n \in Nat : ScrollUp(n) \/ ScrollDown(n)
                BY <3>2, <4>3, ScrollsAreHeard
            <4>4. UNCHANGED grid => buffer' = buffer
                BY DEF grid
            <4>. QED
                BY <2>4, <3>2, <4>1, <4>2, <4>3, <4>4
                   DEF Scroll, LineFeed, NextLine, Feed, ReverseIndex, ScrollUpBy, ScrollDownBy
        <3>. QED
            BY <2>1, <2>4, <3>1, <3>2 DEF ChangesTold, Told
    <2>5. CASE Edit
        <3>1. DOMAIN buffer' = Rows /\ dirty \subseteq dirty'
            BY <2>1, <2>5 DEF Edit, Draw, EditRow, EraseCharacters, DeleteCharacters,
                InsertCharacters, EraseInLine, EraseInDisplay, AlignmentDisplay
        <3>. QED
            BY <2>1, <2>5, <3>1, EditsAreMarked DEF ChangesTold, Told
    <2>6. CASE Combine
        BY <2>6 DEF ChangesTold, Combine
    <2>7. CASE Move
        <3>1. UNCHANGED <<buffer, dirty>>
            BY <2>7 DEF Move, MoveTo, CursorUp, CursorDown, CursorForward, CursorBack,
                CursorNextLine, CursorPrevLine, CursorToLine, CursorToColumn, CursorPosition,
                CarriageReturn, Tab, SaveCursor, RestoreCursor, grid
        <3>. QED
            BY <2>2, <3>1
    <2>8. CASE \/ \E m \in ModeNames : SetMode(m) \/ ResetMode(m)
               \/ SetColumns80
               \/ \E top \in Counts, bottom \in Counts \cup {lines} : SetMargins(top, bottom)
        <3>1. UNCHANGED <<buffer, dirty>>
            BY <2>8 DEF SetMode, ResetMode, SetColumns80, SetMargins, grid
        <3>. QED
            BY <2>2, <3>1
    <2>9. CASE SetColumns132 \/ Reset
        <3>1. DOMAIN buffer' = Rows /\ dirty' = Rows
            BY <2>1, <2>9 DEF SetColumns132, Reset, Blanked
        <3>. QED
            BY <2>3, <3>1
    <2>10. CASE \E flag \in BOOLEAN : EnterAlt(flag) \/ ExitAlt(flag)
        <3>1. DOMAIN buffer' = Rows /\ Rows \subseteq dirty'
            BY <2>10 DEF EnterAlt, ExitAlt, BlankGrid, Conform, Rows
        <3>. QED
            BY <2>3, <3>1
    <2>11. CASE \E s \in Sizes : Resize(s[1], s[2])
        <3>1. DOMAIN buffer' \subseteq dirty'
            BY <2>11 DEF Resize, ResizeGrid, Conform
        <3>. QED
            BY <2>3, <3>1
    <2>12. CASE TakeDirtyRows
        BY <2>12 DEF ChangesTold, TakeDirtyRows, grid
    <2>. QED
        BY <2>4, <2>5, <2>6, <2>7, <2>8, <2>9, <2>10, <2>11, <2>12
           DEF Next, Step, Sequence, Configure
<1>. QED
    BY <1>1, WellFormedHolds, PTL DEF Spec, ChangesAreMarked

-----------------------------------------------------------------------------
(* The reflow of a paper: what each operator returns.                      *)

\* A line of the scrollback of a given width.
LinesOf(cols) == [cells : RowsOf(cols), wrap : BOOLEAN]

\* A logical line, and how far the reading of a paper is.  The first line starts
\* on the first row.
Entry == [cells : Seq(Cells), start : Nat]
Reading == [done : Seq(Entry), cur : Seq(Cells), start : Nat, skip : BOOLEAN, row : Nat]
FromTop(acc) == IF acc.done = <<>> THEN acc.start = 0 ELSE acc.done[1].start = 0
Readings == {acc \in Reading : FromTop(acc)}

\* The last cell that is not blank, or none.
LEMMA TrimType ==
    ASSUME NEW cells \in Seq(Cells)
    PROVE  TrimBlanks(cells) \in Seq(Cells)
<1>. DEFINE written == {i \in 1..Len(cells) : cells[i] # Blank}
            last == IF written # {} THEN Max(written) ELSE 0
<1>1. TrimBlanks(cells) = SubSeq(cells, 1, last)
    BY DEF TrimBlanks, SelectLastInSeq
<1>2. Len(cells) \in Nat /\ \A i \in 1..Len(cells) : cells[i] \in Cells
    BY ElementOfSeq, LenProperties
<1>3. last \in 0..Len(cells)
    <2>1. CASE written = {}
        BY <1>2, <2>1
    <2>2. CASE written # {}
        <3>1. written \subseteq 0..Len(cells)
            OBVIOUS
        <3>2. Max(written) \in written
            BY <1>2, <2>2, <3>1, Greatest
        <3>. QED
            BY <2>2, <3>1, <3>2
    <2>. QED
        BY <2>1, <2>2
<1>. HIDE DEF last
<1>. QED
    BY <1>1, <1>2, <1>3, SubSeqProperties

\* The cells of a row in order.
LEMMA RunType ==
    ASSUME NEW cols \in Nat, NEW row \in LinesOf(cols)
    PROVE  Run(row) \in Seq(Cells)
<1>1. row.cells \in [0..(cols - 1) -> Cells]
    BY DEF LinesOf, RowsOf
<1>2. Cardinality(DOMAIN row.cells) = cols
    <2>1. Cardinality(0..(cols - 1)) = cols
        BY FS_Interval
    <2>. QED
        BY <1>1, <2>1
<1>3. Run(row) = [i \in 1..cols |-> row.cells[i - 1]]
    BY <1>2 DEF Run
<1>4. \A i \in 1..cols : row.cells[i - 1] \in Cells
    BY <1>1
<1>. QED
    BY <1>3, <1>4

\* A cell is read.
LEMMA FlattenCellType ==
    ASSUME NEW acc \in Readings, NEW c \in Cells
    PROVE  FlattenCell(acc, c) \in Readings
<1>1. acc \in Reading /\ acc.cur \in Seq(Cells)
    BY DEF Readings, Reading
<1>2. CASE acc.skip /\ c = Blank
    <2>1. FlattenCell(acc, c) = [acc EXCEPT !.skip = FALSE]
        BY <1>2 DEF FlattenCell
    <2>2. [acc EXCEPT !.skip = FALSE] \in Reading
        BY <1>1 DEF Reading
    <2>3. FromTop(acc) => FromTop([acc EXCEPT !.skip = FALSE])
        BY <1>1 DEF FromTop, Reading
    <2>. QED
        BY <2>1, <2>2, <2>3 DEF Readings
<1>3. CASE ~(acc.skip /\ c = Blank)
    <2>. DEFINE more == Append(acc.cur, c)
                w == c \in Wide
                next == [acc EXCEPT !.skip = w, !.cur = more]
    <2>1. FlattenCell(acc, c) = next
        BY <1>3 DEF FlattenCell
    <2>2. more \in Seq(Cells) /\ w \in BOOLEAN
        BY <1>1
    <2>. HIDE DEF more, w
    <2>3. next \in Reading
        BY <1>1, <2>2 DEF Reading
    <2>4. next.done = acc.done /\ next.start = acc.start
        BY <1>1 DEF Reading
    <2>. HIDE DEF next
    <2>5. FromTop(next)
        BY <2>4 DEF FromTop, Readings
    <2>. QED
        BY <2>1, <2>3, <2>5 DEF Readings
<1>. QED
    BY <1>2, <1>3

\* The cells of a run are read.
LEMMA GatheredType ==
    ASSUME NEW acc \in Readings, NEW run \in Seq(Cells)
    PROVE  Gathered(acc, run) \in Readings
<1>. DEFINE N == Len(run)
            value(f, n) == IF n = 0 THEN acc ELSE FlattenCell(f[n - 1], run[n])
            step(f) == [n \in 0..N |-> value(f, n)]
            h == CHOOSE f : f = step(f)
            g == [n \in 1..N |-> [a \in Readings |-> FlattenCell(a, run[n])]]
<1>0. N \in Nat /\ \A n \in 1..N : run[n] \in Cells
    BY ElementOfSeq, LenProperties
<1>1. Gathered(acc, run) = h[N]
    BY DEF Gathered
<1>2. g \in [1..N -> [Readings -> Readings]]
    BY <1>0, FlattenCellType
<1>3. \E f : f = step(f)
    <2>. HIDE DEF g
    <2>1. PICK f \in [0..N -> Readings] : Follows(f, N, acc, g)
        BY <1>0, <1>2, Recursion
    <2>2. ASSUME NEW n \in 1..N PROVE f[n] = FlattenCell(f[n - 1], run[n])
        <3>1. n - 1 \in 0..N /\ f[n - 1] \in Readings
            BY <1>0, <2>1
        <3>. QED
            BY <2>1, <3>1 DEF g, Follows
    <2>3. \A n \in 0..N : f[n] = value(f, n)
        BY <1>0, <2>1, <2>2 DEF Follows
    <2>. HIDE DEF value
    <2>4. f = step(f)
        BY <2>1, <2>3
    <2>. QED
        BY <2>4
<1>4. h = step(h)
    BY <1>3
<1>. HIDE DEF h
<1>5. h[0] = acc /\ \A n \in 1..N : h[n] = FlattenCell(h[n - 1], run[n])
    BY <1>0, <1>4
<1>. HIDE DEF N
<1>6. \A n \in 1..N : h[n - 1] \in Readings => h[n] \in Readings
    BY <1>0, <1>5, FlattenCellType
<1>7. \A n \in 0..N : h[n] \in Readings
    BY <1>0, <1>5, <1>6, AlongRecursion
<1>. QED
    BY <1>0, <1>1, <1>7

\* A line that is complete; the first one starts on the first row.
LEMMA LineDoneType ==
    ASSUME NEW acc \in Readings
    PROVE  /\ LineDone(acc) \in Seq(Entry) /\ LineDone(acc) # <<>>
           /\ LineDone(acc)[1].start = 0
<1>. DEFINE line == [cells |-> TrimBlanks(acc.cur), start |-> acc.start]
<1>1. acc \in Reading /\ FromTop(acc) /\ acc.done \in Seq(Entry)
    BY DEF Readings, Reading
<1>2. line \in Entry /\ line.start = acc.start
    BY <1>1, TrimType DEF Reading, Entry
<1>3. LineDone(acc) = Append(acc.done, line)
    BY DEF LineDone
<1>. HIDE DEF line
<1>4. LineDone(acc) \in Seq(Entry) /\ LineDone(acc) # <<>>
    BY <1>1, <1>2, <1>3
<1>5. CASE acc.done = <<>>
    <2>1. LineDone(acc)[1] = line
        BY <1>3, <1>5
    <2>. QED
        BY <1>1, <1>2, <1>4, <1>5, <2>1 DEF FromTop
<1>6. CASE acc.done # <<>>
    <2>1. LineDone(acc)[1] = acc.done[1]
        BY <1>1, <1>2, <1>3, <1>6
    <2>. QED
        BY <1>1, <1>4, <1>6, <2>1 DEF FromTop
<1>. QED
    BY <1>5, <1>6

\* A row is read.
LEMMA FlattenRowType ==
    ASSUME NEW cols \in Nat, NEW acc \in Readings, NEW row \in LinesOf(cols)
    PROVE  FlattenRow(acc, row) \in Readings
<1>. DEFINE fresh == IF Breaks(acc, row)
                     THEN [acc EXCEPT !.done = LineDone(acc), !.cur = <<>>, !.start = acc.row]
                     ELSE acc
            read == Gathered(fresh, Run(row))
<1>1. fresh \in Readings
    <2>. DEFINE done == LineDone(acc)
                next == [acc EXCEPT !.done = done, !.cur = <<>>, !.start = acc.row]
    <2>1. acc \in Reading /\ acc.row \in Nat
        BY DEF Readings, Reading
    <2>2. done \in Seq(Entry) /\ done # <<>> /\ done[1].start = 0
        BY LineDoneType
    <2>. HIDE DEF done
    <2>3. acc \in [done : Seq(Entry), cur : Seq(Cells), start : Nat, skip : BOOLEAN, row : Nat]
           /\ <<>> \in Seq(Cells)
        BY <2>1 DEF Reading
    <2>4. next \in Reading /\ next.done = done
        BY <2>1, <2>2, <2>3 DEF Reading
    <2>. HIDE DEF next
    <2>5. next \in Readings
        BY <2>2, <2>4 DEF Readings, FromTop
    <2>6. fresh = next \/ fresh = acc
        BY DEF next, done
    <2>. HIDE DEF fresh
    <2>. QED
        BY <2>5, <2>6
<1>2. FlattenRow(acc, row) = [read EXCEPT !.row = @ + 1]
    BY DEF FlattenRow
<1>. HIDE DEF fresh
<1>3. read \in Reading /\ FromTop(read)
    BY <1>1, RunType, GatheredType DEF Readings
<1>. HIDE DEF read
<1>. DEFINE next == [read EXCEPT !.row = read.row + 1]
<1>4. next \in Reading /\ next.done = read.done /\ next.start = read.start
    BY <1>3 DEF Reading
<1>5. FlattenRow(acc, row) = next
    BY <1>2
<1>. HIDE DEF next
<1>. QED
    BY <1>3, <1>4, <1>5 DEF Readings, FromTop

\* A paper is flattened into lines, at least one, of which the first starts on
\* its first row.
LEMMA FlattenType ==
    ASSUME NEW cols \in Nat, NEW paper \in Seq(LinesOf(cols))
    PROVE  Flatten(paper) \in Seq(Entry) /\ Flatten(paper) # <<>> /\ Flatten(paper)[1].start = 0
<1>. DEFINE N == Len(paper)
            value(f, n) == IF n = 0 THEN Unread ELSE FlattenRow(f[n - 1], paper[n])
            step(f) == [n \in 0..N |-> value(f, n)]
            h == CHOOSE f : f = step(f)
            g == [n \in 1..N |-> [a \in Readings |-> FlattenRow(a, paper[n])]]
<1>0. N \in Nat /\ \A n \in 1..N : paper[n] \in LinesOf(cols)
    BY ElementOfSeq, LenProperties
<1>1. Flatten(paper) = LineDone(h[N])
    BY DEF Flatten
<1>2. Unread \in Readings
    <2>1. <<>> \in Seq(Entry) /\ <<>> \in Seq(Cells)
        OBVIOUS
    <2>2. Unread \in Reading
        BY <2>1 DEF Unread, Reading
    <2>. QED
        BY <2>2 DEF Unread, Readings, FromTop
<1>3. g \in [1..N -> [Readings -> Readings]]
    BY <1>0, FlattenRowType
<1>4. \E f : f = step(f)
    <2>. HIDE DEF g
    <2>1. PICK f \in [0..N -> Readings] : Follows(f, N, Unread, g)
        BY <1>0, <1>2, <1>3, Recursion
    <2>2. ASSUME NEW n \in 1..N PROVE f[n] = FlattenRow(f[n - 1], paper[n])
        <3>1. n - 1 \in 0..N /\ f[n - 1] \in Readings
            BY <1>0, <2>1
        <3>. QED
            BY <2>1, <3>1 DEF g, Follows
    <2>3. \A n \in 0..N : f[n] = value(f, n)
        BY <1>0, <2>1, <2>2 DEF Follows
    <2>. HIDE DEF value
    <2>4. f = step(f)
        BY <2>1, <2>3
    <2>. QED
        BY <2>4
<1>5. h = step(h)
    BY <1>4
<1>. HIDE DEF h
<1>6. h[0] = Unread /\ \A n \in 1..N : h[n] = FlattenRow(h[n - 1], paper[n])
    BY <1>0, <1>5
<1>. HIDE DEF N
<1>7. \A n \in 1..N : h[n - 1] \in Readings => h[n] \in Readings
    BY <1>0, <1>6, FlattenRowType
<1>8. \A n \in 0..N : h[n] \in Readings
    BY <1>0, <1>2, <1>6, <1>7, AlongRecursion
<1>9. h[N] \in Readings
    BY <1>0, <1>8
<1>. QED
    BY <1>1, <1>9, LineDoneType

\* A row belongs to a line, when the first line starts no later.
LEMMA LineOfType ==
    ASSUME NEW logical \in Seq(Entry), logical # <<>>, logical[1].start = 0, NEW row \in Nat
    PROVE  LineOf(logical, row) \in 1..Len(logical)
<1>. DEFINE above == {n \in 1..Len(logical) : logical[n].start <= row}
<1>1. LineOf(logical, row) = IF above # {} THEN Max(above) ELSE 0
    BY DEF LineOf, SelectLastInSeq
<1>2. Len(logical) \in Nat /\ 1 \in 1..Len(logical)
    BY EmptySeq, LenProperties
<1>3. 1 \in above /\ above \subseteq 0..Len(logical) /\ above \subseteq 1..Len(logical)
    BY <1>2
<1>. HIDE DEF above
<1>4. Max(above) \in above
    BY <1>2, <1>3, Greatest
<1>. QED
    BY <1>1, <1>3, <1>4

\* Rows of one width that are complete, and one that is not.
FullRows(rows, cols) == rows \in Seq(Seq(Cells)) /\ \A r \in 1..Len(rows) : Len(rows[r]) = cols
Sheet == [rows : Seq(Seq(Cells)), row : Seq(Cells)]
Sheets(cols) == {acc \in Sheet : FullRows(acc.rows, cols) /\ Len(acc.row) < cols}

\* A row is padded and begun anew.
LEMMA FlushRowType ==
    ASSUME NEW cols \in Nat \ {0}, NEW acc \in Sheet,
           FullRows(acc.rows, cols), Len(acc.row) <= cols
    PROVE  FlushRow(acc, cols) \in Sheets(cols) /\ FlushRow(acc, cols).rows # <<>>
<1>. DEFINE pad == [i \in 1..(cols - Len(acc.row)) |-> Blank]
            full == acc.row \o pad
            rows == Append(acc.rows, full)
<1>1. acc.row \in Seq(Cells) /\ acc.rows \in Seq(Seq(Cells)) /\ Len(acc.row) \in Nat
    BY LenProperties DEF Sheet
<1>2. pad \in Seq(Cells) /\ Len(pad) = cols - Len(acc.row)
    <2>1. Blank \in Cells /\ cols - Len(acc.row) \in Nat
        BY <1>1 DEF Cells
    <2>. QED
        BY <2>1
<1>. HIDE DEF pad
<1>3. full \in Seq(Cells) /\ Len(full) = cols
    <2>. DEFINE row == acc.row
    <2>1. row \in Seq(Cells) /\ Len(row) + (cols - Len(row)) = cols
        BY <1>1
    <2>. HIDE DEF row
    <2>2. row \o pad \in Seq(Cells) /\ Len(row \o pad) = Len(row) + Len(pad)
        BY <1>2, <2>1, ConcatProperties
    <2>3. Len(pad) = cols - Len(row)
        BY <1>2 DEF row
    <2>. QED
        BY <2>1, <2>2, <2>3 DEF row
<1>4. FlushRow(acc, cols) = [rows |-> rows, row |-> <<>>]
    BY DEF FlushRow, Padded, pad
<1>. HIDE DEF full
<1>5. rows \in Seq(Seq(Cells)) /\ rows # <<>> /\ \A r \in 1..Len(rows) : Len(rows[r]) = cols
    <2>1. Len(acc.rows) \in Nat /\ \A r \in 1..Len(acc.rows) : Len(acc.rows[r]) = cols
        BY <1>1, LenProperties DEF FullRows
    <2>2. /\ rows \in Seq(Seq(Cells)) /\ Len(rows) = Len(acc.rows) + 1
          /\ rows[Len(acc.rows) + 1] = full
          /\ \A r \in 1..Len(acc.rows) : rows[r] = acc.rows[r]
        BY <1>1, <1>3
    <2>. HIDE DEF rows
    <2>3. \A r \in 1..Len(rows) : r = Len(acc.rows) + 1 \/ r \in 1..Len(acc.rows)
        BY <2>1, <2>2
    <2>4. rows # <<>>
        BY <2>1, <2>2
    <2>5. \A r \in 1..Len(rows) : Len(rows[r]) = cols
        BY <1>3, <2>1, <2>2, <2>3
    <2>. QED
        BY <2>2, <2>4, <2>5
<1>. HIDE DEF rows
<1>. DEFINE next == [rows |-> rows, row |-> <<>>]
<1>6. next \in Sheet /\ next.rows = rows /\ next.row = <<>>
    BY <1>5 DEF Sheet
<1>. HIDE DEF next
<1>7. Len(next.row) < cols
    <2>1. Len(<<>>) < cols
        OBVIOUS
    <2>. QED
        BY <1>6, <2>1
<1>8. next \in Sheets(cols)
    BY <1>5, <1>6, <1>7 DEF Sheets, FullRows
<1>. QED
    BY <1>4, <1>5, <1>6, <1>8 DEF next

\* A cell is placed; no row outgrows its width.
LEMMA PlaceCellType ==
    ASSUME NEW cols \in Nat \ {0}, NEW acc \in Sheets(cols), NEW c \in Cells
    PROVE  PlaceCell(acc, c, cols) \in Sheets(cols)
<1>. DEFINE need == IF c \in Wide THEN 2 ELSE 1
            open == IF Len(acc.row) + need > cols THEN FlushRow(acc, cols) ELSE acc
            put == Append(open.row, c)
            full == IF c \in Wide /\ Len(put) < cols THEN Append(put, Blank) ELSE put
            placed == [open EXCEPT !.row = full]
<1>1. PlaceCell(acc, c, cols) = IF Len(full) = cols THEN FlushRow(placed, cols) ELSE placed
    BY DEF PlaceCell
<1>2. open \in Sheets(cols)
    <2>1. acc \in Sheet /\ FullRows(acc.rows, cols) /\ Len(acc.row) < cols /\ Len(acc.row) \in Nat
        BY LenProperties DEF Sheets, Sheet
    <2>2. FlushRow(acc, cols) \in Sheets(cols)
        BY <2>1, FlushRowType
    <2>. QED
        BY <2>2
<1>. HIDE DEF open
<1>3. /\ open \in Sheet /\ FullRows(open.rows, cols)
      /\ open.row \in Seq(Cells) /\ Len(open.row) \in Nat /\ Len(open.row) < cols
    BY <1>2, LenProperties DEF Sheets, Sheet
<1>4. put \in Seq(Cells) /\ Len(put) = Len(open.row) + 1
    BY <1>3
<1>. HIDE DEF put
<1>5. full \in Seq(Cells) /\ Len(full) \in Nat /\ Len(full) <= cols
    <2>1. Blank \in Cells
        BY DEF Cells
    <2>2. Append(put, Blank) \in Seq(Cells) /\ Len(Append(put, Blank)) = Len(put) + 1
        BY <1>4, <2>1
    <2>. QED
        BY <1>3, <1>4, <2>2
<1>. HIDE DEF full
<1>6. placed \in Sheet /\ placed.rows = open.rows /\ placed.row = full
    BY <1>3, <1>5 DEF Sheet
<1>. HIDE DEF placed
<1>7. FlushRow(placed, cols) \in Sheets(cols)
    BY <1>3, <1>5, <1>6, FlushRowType
<1>8. Len(full) # cols => placed \in Sheets(cols)
    BY <1>3, <1>5, <1>6 DEF Sheets
<1>. QED
    BY <1>1, <1>7, <1>8

\* All cells of a line are placed.
LEMMA PlacedCellsType ==
    ASSUME NEW cols \in Nat \ {0}, NEW cells \in Seq(Cells)
    PROVE  PlacedCells(cells, cols) \in Sheets(cols)
<1>. DEFINE N == Len(cells)
            A == Sheets(cols)
            value(f, n) == IF n = 0 THEN Empty ELSE PlaceCell(f[n - 1], cells[n], cols)
            step(f) == [n \in 0..N |-> value(f, n)]
            h == CHOOSE f : f = step(f)
            g == [n \in 1..N |-> [a \in A |-> PlaceCell(a, cells[n], cols)]]
<1>0. N \in Nat /\ \A n \in 1..N : cells[n] \in Cells
    BY ElementOfSeq, LenProperties
<1>1. PlacedCells(cells, cols) = h[N]
    BY DEF PlacedCells
<1>2. Empty \in A
    <2>1. Empty \in Sheet /\ Empty.rows = <<>> /\ Empty.row = <<>>
        BY DEF Empty, Sheet
    <2>2. FullRows(<<>>, cols) /\ Len(<<>>) < cols
        BY DEF FullRows
    <2>. QED
        BY <2>1, <2>2 DEF Sheets
<1>3. g \in [1..N -> [A -> A]]
    BY <1>0, PlaceCellType
<1>. HIDE DEF A
<1>4. \E f : f = step(f)
    <2>. HIDE DEF g
    <2>1. PICK f \in [0..N -> A] : Follows(f, N, Empty, g)
        BY <1>0, <1>2, <1>3, Recursion
    <2>2. ASSUME NEW n \in 1..N PROVE f[n] = PlaceCell(f[n - 1], cells[n], cols)
        <3>1. n - 1 \in 0..N /\ f[n - 1] \in A
            BY <1>0, <2>1
        <3>. QED
            BY <2>1, <3>1 DEF g, Follows
    <2>3. \A n \in 0..N : f[n] = value(f, n)
        BY <1>0, <2>1, <2>2 DEF Follows
    <2>. HIDE DEF value
    <2>4. f = step(f)
        BY <2>1, <2>3
    <2>. QED
        BY <2>4
<1>5. h = step(h)
    BY <1>4
<1>. HIDE DEF h
<1>6. h[0] = Empty /\ \A n \in 1..N : h[n] = PlaceCell(h[n - 1], cells[n], cols)
    BY <1>0, <1>5
<1>. HIDE DEF N
<1>7. \A n \in 1..N : h[n - 1] \in A => h[n] \in A
    BY <1>0, <1>6, PlaceCellType DEF A
<1>8. \A n \in 0..N : h[n] \in A
    BY <1>0, <1>2, <1>6, <1>7, AlongRecursion
<1>. QED
    BY <1>0, <1>1, <1>8 DEF A

\* A line is split into rows of the new width.
LEMMA SplitLineType ==
    ASSUME NEW cols \in Nat \ {0}, NEW cells \in Seq(Cells)
    PROVE  SplitLine(cells, cols) \in Seq(LinesOf(cols))
<1>. DEFINE acc == PlacedCells(cells, cols)
            rows == IF acc.row # <<>> \/ acc.rows = <<>> THEN FlushRow(acc, cols).rows ELSE acc.rows
            cellsOf(r) == [i \in 0..(cols - 1) |-> rows[r][i + 1]]
            flag(r) == r > 1
<1>1. acc \in Sheets(cols)
    BY PlacedCellsType
<1>2. SplitLine(cells, cols) = [r \in DOMAIN rows |-> [cells |-> cellsOf(r), wrap |-> flag(r)]]
    BY DEF SplitLine
<1>. HIDE DEF acc
<1>3. FullRows(rows, cols)
    <2>1. acc \in Sheet /\ FullRows(acc.rows, cols) /\ Len(acc.row) < cols /\ Len(acc.row) \in Nat
        BY <1>1, LenProperties DEF Sheets, Sheet
    <2>2. FullRows(FlushRow(acc, cols).rows, cols)
        BY <2>1, FlushRowType DEF Sheets
    <2>. QED
        BY <2>1, <2>2
<1>. HIDE DEF rows
<1>4. /\ rows \in Seq(Seq(Cells)) /\ Len(rows) \in Nat /\ DOMAIN rows = 1..Len(rows)
      /\ \A r \in 1..Len(rows) : rows[r] \in Seq(Cells) /\ Len(rows[r]) = cols
    BY <1>3, ElementOfSeq, LenProperties DEF FullRows
<1>5. ASSUME NEW r \in 1..Len(rows)
      PROVE  [cells |-> cellsOf(r), wrap |-> flag(r)] \in LinesOf(cols)
    <2>1. \A i \in 0..(cols - 1) : rows[r][i + 1] \in Cells
        BY <1>4, ElementOfSeq
    <2>2. cellsOf(r) \in RowsOf(cols)
        BY <2>1 DEF RowsOf
    <2>3. flag(r) \in BOOLEAN
        OBVIOUS
    <2>. HIDE DEF cellsOf, flag
    <2>. QED
        BY <2>2, <2>3 DEF LinesOf
<1>. HIDE DEF cellsOf, flag
<1>. QED
    BY <1>2, <1>4, <1>5

\* The rows left when some are dropped.
LEMMA DropRowsType ==
    ASSUME NEW cols, NEW paper \in Seq(LinesOf(cols)), NEW n \in Nat, n < Len(paper) \/ n = 0
    PROVE  DropRows(paper, n) \in Seq(LinesOf(cols)) /\ Len(DropRows(paper, n)) = Len(paper) - n
<1>1. CASE n = 0
    BY <1>1, LenProperties DEF DropRows
<1>2. CASE n # 0
    <2>. DEFINE left == SubSeq(paper, n + 1, Len(paper))
                first == [left[1] EXCEPT !.wrap = FALSE]
    <2>1. Len(paper) \in Nat /\ \A i \in 1..Len(paper) : paper[i] \in LinesOf(cols)
        BY ElementOfSeq, LenProperties
    <2>2. left \in Seq(LinesOf(cols)) /\ Len(left) = Len(paper) - n
        BY <2>1, <1>2, SubSeqProperties
    <2>3. 1 \in 1..Len(left) /\ 1 \in DOMAIN left
        BY <2>1, <2>2, <1>2, LenProperties
    <2>4. DropRows(paper, n) = [left EXCEPT ![1] = first]
        BY <1>2 DEF DropRows
    <2>. HIDE DEF left
    <2>5. left[1] \in LinesOf(cols)
        BY <2>2, <2>3, ElementOfSeq
    <2>6. first \in LinesOf(cols)
        BY <2>5 DEF LinesOf
    <2>. HIDE DEF first
    <2>. QED
        BY <2>2, <2>3, <2>4, <2>6, ExceptSeq
<1>. QED
    BY <1>1, <1>2

\* What is shown has the new width, and the cursor is on the new screen.
LEMMA ShownFits ==
    ASSUME NEW cols \in Nat \ {0}, NEW rows \in Nat \ {0}, NEW paper \in Seq(LinesOf(cols)),
           NEW limit \in Nat, NEW target \in Int, NEW offset \in Int
    PROVE  LET new == Shown(paper, Overflow(Len(paper), rows, limit), target, offset, rows, cols)
           IN  /\ new.history \in Seq(LinesOf(cols)) /\ new.screen \in Seq(LinesOf(cols))
               /\ new.x \in 0..(cols - 1) /\ new.y \in 0..(rows - 1)
<1>. DEFINE overflow == Overflow(Len(paper), rows, limit)
            left == DropRows(paper, overflow)
            visible == Greater(Len(paper) - overflow - rows, 0)
            gone == target < overflow
            h == SubSeq(left, 1, visible)
            s == SubSeq(left, visible + 1, Len(left))
            row == IF gone THEN 0 ELSE Lesser(Greater(target - overflow - visible, 0), rows - 1)
            col == IF gone THEN 0 ELSE Lesser(offset % cols, cols - 1)
<1>1. Len(paper) \in Nat
    BY LenProperties
<1>2. overflow \in Nat /\ (overflow < Len(paper) \/ overflow = 0)
    BY <1>1 DEF Overflow
<1>3. Shown(paper, overflow, target, offset, rows, cols)
          = [history |-> h, screen |-> s, y |-> row, x |-> col]
    BY DEF Shown
<1>. HIDE DEF overflow
<1>4. left \in Seq(LinesOf(cols)) /\ Len(left) = Len(paper) - overflow
    BY <1>2, DropRowsType
<1>. HIDE DEF left
<1>5. visible \in Nat
    BY <1>1, <1>2 DEF Greater
<1>. HIDE DEF visible
<1>6. h \in Seq(LinesOf(cols)) /\ s \in Seq(LinesOf(cols))
    <2>1. Len(left) \in Nat /\ \A i \in 1..Len(left) : left[i] \in LinesOf(cols)
        BY <1>4, ElementOfSeq, LenProperties
    <2>2. visible <= Len(left)
        BY <1>1, <1>2, <1>4 DEF visible, Greater
    <2>3. \A i \in 1..visible : left[i] \in LinesOf(cols)
        BY <1>5, <2>1, <2>2
    <2>4. h \in Seq(LinesOf(cols))
        BY <1>4, <1>5, <2>1, <2>2, <2>3, SubSeqProperties
    <2>5. \A i \in (visible + 1)..Len(left) : left[i] \in LinesOf(cols)
        BY <1>5, <2>1
    <2>6. s \in Seq(LinesOf(cols))
        BY <1>4, <1>5, <2>1, <2>2, <2>5, SubSeqProperties
    <2>. QED
        BY <2>4, <2>6
<1>7. row \in 0..(rows - 1)
    BY <1>2, <1>5 DEF Lesser, Greater
<1>8. col \in 0..(cols - 1)
    BY DEF Lesser
<1>. HIDE DEF h, s, row, col
<1>. QED
    BY <1>3, <1>6, <1>7, <1>8 DEF overflow

\* What a reflow leaves has the new width, and the cursor is on the new screen.
LEMMA ReflowedFits ==
    ASSUME NEW cols \in Nat \ {0}, NEW rows \in Nat \ {0}, NEW old \in Nat \ {0},
           NEW paper \in Seq(LinesOf(old)),
           NEW h \in Nat, NEW col \in Nat, NEW row \in Nat, NEW limit \in Nat
    PROVE  LET new == Reflowed(paper, h, col, row, old, rows, cols, limit)
           IN  /\ new.history \in Seq(LinesOf(cols)) /\ new.screen \in Seq(LinesOf(cols))
               /\ new.x \in 0..(cols - 1) /\ new.y \in 0..(rows - 1)
<1>. DEFINE logical == Flatten(paper)
            anchor == LineOf(logical, h + row)
            split == SplitLines(logical, cols)
            start == logical[anchor].start
            len == Len(logical[anchor].cells)
            offset == Lesser(FlatOffset(start, h + row, col, old, cols), Greater(len - 1, 0))
            before == FlattenSeq(SubSeq(split, 1, anchor - 1))
            pasted == FlattenSeq(split)
            target == Len(before) + offset \div cols
<1>1. logical \in Seq(Entry) /\ logical # <<>> /\ logical[1].start = 0
    BY FlattenType
<1>2. Reflowed(paper, h, col, row, old, rows, cols, limit)
        = Shown(pasted, Overflow(Len(pasted), rows, limit), target, offset, rows, cols)
    BY DEF Reflowed, Relaid, Pasted
<1>. HIDE DEF logical
<1>3. anchor \in 1..Len(logical) /\ Len(logical) \in Nat
    <2>1. h + row \in Nat
        OBVIOUS
    <2>. QED
        BY <1>1, <2>1, LineOfType, LenProperties
<1>. HIDE DEF anchor
<1>4. logical[anchor] \in Entry
    BY <1>1, <1>3, ElementOfSeq
<1>5. start \in Nat /\ len \in Nat
    <2>1. start \in Nat /\ logical[anchor].cells \in Seq(Cells)
        BY <1>4 DEF Entry
    <2>. QED
        BY <2>1, LenProperties
<1>. HIDE DEF start, len
<1>6. offset \in Int
    BY <1>5 DEF FlatOffset, Lesser, Greater
<1>. HIDE DEF offset
<1>7. split \in Seq(Seq(LinesOf(cols))) /\ Len(split) = Len(logical)
    <2>1. \A n \in 1..Len(logical) : SplitLine(logical[n].cells, cols) \in Seq(LinesOf(cols))
        <3>1. ASSUME NEW n \in 1..Len(logical)
              PROVE  logical[n].cells \in Seq(Cells)
            <4>1. logical[n] \in Entry
                BY <1>1, ElementOfSeq
            <4>. QED
                BY <4>1 DEF Entry
        <3>. QED
            BY <3>1, SplitLineType
    <2>2. DOMAIN logical = 1..Len(logical)
        BY <1>1, LenProperties
    <2>3. split = [n \in 1..Len(logical) |-> SplitLine(logical[n].cells, cols)]
        BY <2>2 DEF SplitLines
    <2>. QED
        BY <1>3, <2>1, <2>3
<1>. HIDE DEF split
<1>8. pasted \in Seq(LinesOf(cols))
    BY <1>7, FlatType
<1>9. Len(before) \in Nat
    <2>1. SubSeq(split, 1, anchor - 1) \in Seq(Seq(LinesOf(cols)))
        <3>1. \A i \in 1..(anchor - 1) : split[i] \in Seq(LinesOf(cols))
            BY <1>3, <1>7, ElementOfSeq
        <3>. QED
            BY <1>3, <1>7, <3>1, SubSeqProperties
    <2>2. before \in Seq(LinesOf(cols))
        BY <2>1, FlatType
    <2>. QED
        BY <2>2, LenProperties
<1>. HIDE DEF pasted, before
<1>10. target \in Int
    BY <1>6, <1>9
<1>. HIDE DEF target
<1>. QED
    BY <1>2, <1>6, <1>8, <1>10, ShownFits

-----------------------------------------------------------------------------
(* The scrollback.                                                         *)

\* Everything the scrollback and the lines on their way to it must keep.
ScrollbackInv ==
    /\ PlaceInv /\ Rectangular
    /\ history \in Seq(LinesOf(columns)) /\ scrolledOff \in Seq(LinesOf(columns))
    /\ cap \in Nat /\ (cap > 0 => Len(history) <= cap)
    /\ feeding \in BOOLEAN /\ (~feeding => scrolledOff = <<>>)

\* Trimmed, a scrollback is no longer than its capacity.
LEMMA TrimmedType ==
    ASSUME NEW S, NEW h \in Seq(S), NEW n \in Nat
    PROVE  Trimmed(h, n) \in Seq(S) /\ (n > 0 => Len(Trimmed(h, n)) <= n)
<1>1. Len(h) \in Nat /\ \A i \in 1..Len(h) : h[i] \in S
    BY ElementOfSeq, LenProperties
<1>2. CASE n > 0 /\ Len(h) > n
    <2>1. \A i \in (Len(h) - n + 1)..Len(h) : h[i] \in S
        BY <1>1, <1>2
    <2>2. SubSeq(h, Len(h) - n + 1, Len(h)) \in Seq(S)
          /\ Len(SubSeq(h, Len(h) - n + 1, Len(h))) = n
        BY <1>1, <1>2, <2>1, SubSeqProperties
    <2>. QED
        BY <1>2, <2>2 DEF Trimmed
<1>3. CASE ~(n > 0 /\ Len(h) > n)
    BY <1>1, <1>3 DEF Trimmed
<1>. QED
    BY <1>2, <1>3

\* On the alternate screen the scrollback takes the new width and nothing else.
LEMMA ConformedType ==
    ASSUME NEW old \in Nat, NEW h \in Seq(LinesOf(old)), NEW cols \in Nat
    PROVE  Conformed(h, cols) \in Seq(LinesOf(cols)) /\ Len(Conformed(h, cols)) = Len(h)
<1>. DEFINE cell(n, i) == IF i \in DOMAIN h[n].cells THEN h[n].cells[i] ELSE Blank
            line(n) == [h[n] EXCEPT !.cells = [i \in 0..(cols - 1) |-> cell(n, i)]]
<1>1. Len(h) \in Nat /\ DOMAIN h = 1..Len(h) /\ \A n \in 1..Len(h) : h[n] \in LinesOf(old)
    BY ElementOfSeq, LenProperties
<1>2. Conformed(h, cols) = [n \in DOMAIN h |-> line(n)]
    BY DEF Conformed
<1>3. ASSUME NEW n \in 1..Len(h)
      PROVE  line(n) \in LinesOf(cols)
    <2>1. h[n] \in [cells : RowsOf(old), wrap : BOOLEAN]
        BY <1>1 DEF LinesOf
    <2>2. h[n].cells \in [0..(old - 1) -> Cells]
        BY <2>1 DEF RowsOf
    <2>3. \A i \in 0..(cols - 1) : cell(n, i) \in Cells
        BY <2>2 DEF Cells
    <2>. HIDE DEF cell
    <2>4. [i \in 0..(cols - 1) |-> cell(n, i)] \in RowsOf(cols)
        BY <2>3 DEF RowsOf
    <2>. DEFINE row == [i \in 0..(cols - 1) |-> cell(n, i)]
    <2>. HIDE DEF row
    <2>5. [h[n] EXCEPT !.cells = row] \in [cells : RowsOf(cols), wrap : BOOLEAN]
        BY <2>1, <2>4 DEF row
    <2>. QED
        BY <2>5 DEF row, LinesOf
<1>. HIDE DEF line
<1>. QED
    BY <1>1, <1>2, <1>3

\* Only a scroll adds a line to those on their way to the scrollback, and the
\* lines it adds are rows of the screen.
LEMMA ScrollUpAddsRows ==
    ASSUME PlaceInv, Rectangular, NEW n \in Nat, ScrollUp(n),
           scrolledOff \in Seq(LinesOf(columns))
    PROVE  \E off \in Seq(LinesOf(columns)) : scrolledOff' = scrolledOff \o off
<1>. DEFINE k == Lesser(n, Bottom - Top + 1)
            line(i) == [cells |-> buffer[Top + i - 1], wrap |-> wrapped[Top + i - 1]]
            off == [i \in 1..k |-> line(i)]
<1>1. k \in Nat /\ \A i \in 1..k : Top + i - 1 \in 0..(lines - 1)
    BY RegionOnScreen, SMTT(30) DEF Lesser
<1>2. scrolledOff' = IF ToHistory THEN scrolledOff \o off ELSE scrolledOff
    BY DEF ScrollUp
<1>3. \A i \in 1..k : line(i) \in LinesOf(columns)
    BY <1>1, GridFacts DEF LinesOf
<1>. HIDE DEF k, line
<1>4. off \in Seq(LinesOf(columns))
    BY <1>1, <1>3
<1>. HIDE DEF off
<1>5. scrolledOff = scrolledOff \o <<>> /\ <<>> \in Seq(LinesOf(columns))
    BY ConcatEmptySeq
<1>. QED
    BY <1>2, <1>4, <1>5

\* What one sequence of a feed does to them.
LEMMA SequenceAddsRows ==
    ASSUME AnyDeccolm = FALSE, PlaceInv, Rectangular, Sequence,
           scrolledOff \in Seq(LinesOf(columns))
    PROVE  /\ \E off \in Seq(LinesOf(columns)) : scrolledOff' = scrolledOff \o off
           /\ columns' = columns
<1>. DEFINE Adds == \E off \in Seq(LinesOf(columns)) : scrolledOff' = scrolledOff \o off
<1>0. scrolledOff' = scrolledOff => Adds
    <2>1. scrolledOff = scrolledOff \o <<>> /\ <<>> \in Seq(LinesOf(columns))
        BY ConcatEmptySeq
    <2>. QED
        BY <2>1
<1>1. \A n \in Nat : ScrollUp(n) => Adds
    BY ScrollUpAddsRows
<1>2. \A n : ScrollDown(n) => Adds
    BY <1>0 DEF ScrollDown
<1>. HIDE DEF Adds
<1>3. CASE Scroll
    <2>1. Counts \subseteq Nat
        BY ScreenAssumption DEF ScreenAssumption
    <2>2. ASSUME NEW col, Feed(col)
          PROVE  Adds /\ columns' = columns
        BY <1>0, <1>1, <2>2 DEF Feed, size
    <2>3. ASSUME ReverseIndex
          PROVE  Adds /\ columns' = columns
        BY <1>0, <1>2, <2>3 DEF ReverseIndex, size
    <2>4. ASSUME NEW n \in Counts, ScrollUpBy(n) \/ ScrollDownBy(n)
          PROVE  Adds /\ columns' = columns
        BY <1>1, <1>2, <2>1, <2>4 DEF ScrollUpBy, ScrollDownBy, size
    <2>5. ASSUME NEW n \in Counts, InsertLines(n) \/ DeleteLines(n)
          PROVE  Adds /\ columns' = columns
        BY <1>0, <2>5 DEF InsertLines, DeleteLines, size
    <2>. QED
        BY <1>3, <2>2, <2>3, <2>4, <2>5 DEF Scroll, LineFeed, NextLine, Adds
<1>4. CASE Move \/ Edit \/ Combine
    <2>1. UNCHANGED <<size, scrolledOff>>
        BY <1>4 DEF Move, MoveTo, CursorUp, CursorDown, CursorForward, CursorBack,
            CursorNextLine, CursorPrevLine, CursorToLine, CursorToColumn, CursorPosition,
            CarriageReturn, Tab, SaveCursor, RestoreCursor, Edit, Combine, Draw,
            EraseCharacters, DeleteCharacters, InsertCharacters, EraseInLine, EraseInDisplay,
            AlignmentDisplay
    <2>. QED
        BY <1>0, <2>1 DEF size, Adds
<1>5. CASE Configure
    <2>1. scrolledOff' = scrolledOff /\ columns' = columns
        BY <1>5 DEF Configure, SetMode, ResetMode, SetColumns132, SetColumns80, SetMargins,
                    EnterAlt, ExitAlt, size
    <2>. QED
        BY <1>0, <2>1 DEF Adds
<1>. QED
    BY <1>3, <1>4, <1>5 DEF Sequence, Adds

\* The rows of the screen, as lines.
LEMMA VisibleType ==
    ASSUME PlaceInv, Rectangular
    PROVE  Visible \in Seq(LinesOf(columns)) /\ Len(Visible) = lines
<1>. DEFINE line(i) == [cells |-> buffer[i - 1], wrap |-> wrapped[i - 1]]
<1>1. lines \in Nat /\ \A i \in 1..lines : i - 1 \in 0..(lines - 1)
    BY RegionOnScreen
<1>2. \A i \in 1..lines : line(i) \in LinesOf(columns)
    BY <1>1, GridFacts DEF LinesOf
<1>3. Visible = [i \in 1..lines |-> line(i)]
    BY DEF Visible
<1>. HIDE DEF line
<1>4. [i \in 1..lines |-> line(i)] \in Seq(LinesOf(columns))
      /\ Len([i \in 1..lines |-> line(i)]) = lines
    BY <1>1, <1>2
<1>. QED
    BY <1>3, <1>4

\* The capacity and the scrollback, when the new lines have been captured.
LEMMA CapturedType ==
    ASSUME NEW S, NEW h \in Seq(S), NEW more \in Seq(S), NEW n \in Nat
    PROVE  Trimmed(h \o more, n) \in Seq(S) /\ (n > 0 => Len(Trimmed(h \o more, n)) <= n)
<1>1. h \o more \in Seq(S)
    OBVIOUS
<1>. QED
    BY <1>1, TrimmedType

\* A step of the screen alone keeps places and grid.
LEMMA ScreenStepKeeps ==
    ASSUME AnyDeccolm = FALSE, PlaceInv, Rectangular, Next
    PROVE  PlaceInv' /\ Rectangular'
BY NextInPlace, NextKeepsGrid

\* A change of the rows: what is pushed off the top fits above the screen, and
\* what is left fits on it.
LEMMA ResizeRowsKeeps ==
    ASSUME ScrollbackInv, steps' \in 0..MaxSteps, NEW l \in Nat, ResizeRows(l)
    PROVE  ScrollbackInv'
<1>. DEFINE rows == Greater(l, 1)
            excess == Greater(lines - rows, 0)
            fromBottom == Lesser(excess, RowsBelow)
            fromTop == excess - fromBottom
            left == 0..(lines - 1 - excess)
            line(i) == [cells |-> buffer[i - 1], wrap |-> wrapped[i - 1]]
            pushed == [i \in 1..fromTop |-> line(i)]
            g == [r \in left |-> buffer[r + fromTop]]
            w == [r \in left |-> wrapped[r + fromTop]]
<1>0. PlaceInv /\ Rectangular
    BY DEF ScrollbackInv
<1>1. /\ ~feeding /\ ~altScreen /\ UNCHANGED <<cap, feeding>>
      /\ history' = Trimmed(history \o pushed, cap)
      /\ ResizeGrid(g, w, Greater(y - fromTop, 0), rows, columns)
    BY DEF ResizeRows
<1>2. /\ rows \in Nat \ {0} /\ excess \in Nat /\ excess < lines /\ fromTop \in 0..excess
      /\ lines \in Nat \ {0} /\ columns \in Nat \ {0} /\ Greater(y - fromTop, 0) \in Nat
    <2>1. lines \in Nat \ {0} /\ columns \in Nat \ {0} /\ y \in 0..(lines - 1)
        BY <1>0, RegionOnScreen
    <2>2. rows \in Nat \ {0}
        BY DEF Greater
    <2>. HIDE DEF rows
    <2>3. excess \in Nat /\ excess < lines
        BY <2>1, <2>2 DEF Greater
    <2>. HIDE DEF excess
    <2>4. fromBottom \in 0..excess
        BY <2>1, <2>3 DEF Lesser, RowsBelow
    <2>. HIDE DEF fromBottom
    <2>5. fromTop \in 0..excess
        BY <2>3, <2>4
    <2>. HIDE DEF fromTop
    <2>6. Greater(y - fromTop, 0) \in Nat
        BY <2>1, <2>3, <2>5 DEF Greater
    <2>. QED
        BY <2>1, <2>2, <2>3, <2>5, <2>6
<1>. HIDE DEF rows, excess, fromBottom, fromTop
<1>3. \A r \in left : r + fromTop \in 0..(lines - 1)
    BY <1>2
<1>4. g \in Grid(lines - excess, columns) /\ w \in Wraps(lines - excess)
    <2>1. /\ \A r \in left : buffer[r + fromTop] \in RowsOf(columns)
          /\ \A r \in left : wrapped[r + fromTop] \in BOOLEAN
        BY <1>0, <1>3, GridFacts
    <2>2. left = 0..(lines - excess - 1)
        BY <1>2
    <2>. HIDE DEF left
    <2>3. g \in [0..(lines - excess - 1) -> RowsOf(columns)]
          /\ w \in [0..(lines - excess - 1) -> BOOLEAN]
        BY <2>1, <2>2
    <2>. QED
        BY <2>3, GridOfRows DEF Wraps
<1>5. pushed \in Seq(LinesOf(columns))
    <2>1. \A i \in 1..fromTop : i - 1 \in 0..(lines - 1)
        BY <1>2
    <2>2. \A i \in 1..fromTop : line(i) \in LinesOf(columns)
        BY <1>0, <2>1, GridFacts DEF LinesOf
    <2>. HIDE DEF line
    <2>. QED
        BY <1>2, <2>2
<1>. HIDE DEF g, w, left, pushed
<1>6. PlaceInv'
    BY <1>0, <1>1, <1>2, ResizeGridInPlace
<1>7. Rectangular'
    BY <1>0, <1>1, <1>4, ResizeGridFits
<1>8. columns' = columns /\ scrolledOff' = scrolledOff
    BY <1>1 DEF ResizeGrid
<1>9. history' \in Seq(LinesOf(columns)) /\ (cap > 0 => Len(history') <= cap)
    BY <1>1, <1>5, CapturedType DEF ScrollbackInv
<1>. QED
    BY <1>1, <1>6, <1>7, <1>8, <1>9 DEF ScrollbackInv

\* A change of the columns: scrollback and screen are reflowed to the new width.
LEMMA ResizeColumnsKeeps ==
    ASSUME ScrollbackInv, steps' \in 0..MaxSteps, NEW l \in Nat, NEW c \in Nat, ResizeColumns(l, c)
    PROVE  ScrollbackInv'
<1>. DEFINE rows == Greater(l, 1)
            cols == Greater(c, 1)
            past == Trimmed(history \o scrolledOff, cap)
            paper == past \o Visible
            new == Reflowed(paper, Len(past), x, y, columns, rows, cols, cap)
            shown == 0..(Len(new.screen) - 1)
            g == [r \in shown |-> new.screen[r + 1].cells]
            w == [r \in shown |-> new.screen[r + 1].wrap]
<1>0. PlaceInv /\ Rectangular /\ cap \in Nat
    BY DEF ScrollbackInv
<1>1. /\ ~feeding /\ ~altScreen
      /\ history' = Trimmed(new.history, cap)
      /\ buffer' = Conform(g, rows, cols) /\ wrapped' = ConformWraps(w, rows)
      /\ x' = new.x /\ y' = new.y
      /\ lines' = rows /\ columns' = cols /\ margins' = None /\ dirty' = 0..(rows - 1)
      /\ scrolledOff' = <<>>
      /\ UNCHANGED <<stack, mode, alt, cap, feeding>>
    BY DEF ResizeColumns
<1>2. rows \in Nat \ {0} /\ cols \in Nat \ {0}
    BY DEF Greater
<1>. HIDE DEF rows, cols
<1>3. past \in Seq(LinesOf(columns))
    BY CapturedType DEF ScrollbackInv
<1>4. paper \in Seq(LinesOf(columns)) /\ Len(past) \in Nat
    <2>1. Visible \in Seq(LinesOf(columns))
        BY <1>0, VisibleType
    <2>. HIDE DEF past
    <2>. QED
        BY <1>3, <2>1, LenProperties
<1>. HIDE DEF past, paper
<1>5. /\ new.history \in Seq(LinesOf(cols)) /\ new.screen \in Seq(LinesOf(cols))
      /\ new.x \in 0..(cols - 1) /\ new.y \in 0..(rows - 1)
    <2>1. columns \in Nat \ {0} /\ x \in Nat /\ y \in Nat
        BY <1>0, RegionOnScreen
    <2>. QED
        BY <1>0, <1>2, <1>4, <2>1, ReflowedFits
<1>. HIDE DEF new
<1>6. g \in Grid(Len(new.screen), cols) /\ w \in Wraps(Len(new.screen))
    <2>1. Len(new.screen) \in Nat /\ \A i \in 1..Len(new.screen) : new.screen[i] \in LinesOf(cols)
        BY <1>5, ElementOfSeq, LenProperties
    <2>2. ASSUME NEW r \in shown
          PROVE  new.screen[r + 1].cells \in RowsOf(cols) /\ new.screen[r + 1].wrap \in BOOLEAN
        <3>1. new.screen[r + 1] \in LinesOf(cols)
            BY <2>1
        <3>. QED
            BY <3>1 DEF LinesOf
    <2>. QED
        BY <2>2, GridOfRows DEF Wraps
<1>. HIDE DEF g, w
<1>7. Rectangular'
    <2>1. buffer' \in Grid(rows, cols) /\ wrapped' \in Wraps(rows)
        BY <1>1, <1>6, ConformFits
    <2>2. ~altScreen'
        BY <1>1 DEF alt
    <2>. QED
        BY <1>1, <2>1, <2>2 DEF Rectangular
<1>8. PlaceInv'
    <2>1. TypeOK'
        BY <1>0, <1>1, <1>2 DEF PlaceInv, TypeOK, alt
    <2>2. InBounds'
        BY <1>1, <1>2, <1>5 DEF InBounds, Rows
    <2>3. SavesOK'
        BY <1>0, <1>1 DEF PlaceInv, SavesOK, alt
    <2>. QED
        BY <2>1, <2>2, <2>3 DEF PlaceInv
<1>9. history' \in Seq(LinesOf(cols)) /\ (cap > 0 => Len(history') <= cap)
    BY <1>0, <1>1, <1>5, TrimmedType
<1>10. scrolledOff' \in Seq(LinesOf(cols))
    BY <1>1
<1>. QED
    BY <1>0, <1>1, <1>7, <1>8, <1>9, <1>10 DEF ScrollbackInv

\* The start.
LEMMA ScrollbackStarts == HInit => ScrollbackInv
<1>. SUFFICES ASSUME HInit PROVE ScrollbackInv
    OBVIOUS
<1>1. PlaceInv
    BY InitInPlace DEF HInit
<1>2. Rectangular
    BY BlankFits DEF HInit, Init, Rectangular
<1>3. history = <<>> /\ scrolledOff = <<>> /\ cap \in Nat /\ feeding = FALSE /\ Len(history) = 0
    BY HistoryAssumption DEF HInit, Init, HistoryAssumption
<1>4. history \in Seq(LinesOf(columns)) /\ scrolledOff \in Seq(LinesOf(columns))
    BY <1>3
<1>5. feeding \in BOOLEAN /\ (~feeding => scrolledOff = <<>>) /\ cap \in Nat
    BY <1>3
<1>6. cap > 0 => Len(history) <= cap
    BY <1>3
<1>. QED
    BY <1>1, <1>2, <1>4, <1>5, <1>6 DEF ScrollbackInv

\* Every step of the scrollback keeps it as wide as the screen and within its
\* capacity.
LEMMA ScrollbackKept == AnyDeccolm = FALSE /\ ScrollbackInv /\ [HNext]_allVars => ScrollbackInv'
<1>. SUFFICES ASSUME AnyDeccolm = FALSE, ScrollbackInv, [HNext]_allVars PROVE ScrollbackInv'
    OBVIOUS
<1>0. /\ PlaceInv /\ Rectangular /\ cap \in Nat /\ feeding \in BOOLEAN
      /\ history \in Seq(LinesOf(columns)) /\ scrolledOff \in Seq(LinesOf(columns))
      /\ (cap > 0 => Len(history) <= cap) /\ (~feeding => scrolledOff = <<>>)
    BY DEF ScrollbackInv
<1>1. CASE UNCHANGED allVars
    <2>1. UNCHANGED vars /\ UNCHANGED historyVars
        BY <1>1 DEF allVars
    <2>2. PlaceInv' /\ Rectangular'
        BY <1>0, <2>1, NextInPlace, NextKeepsGrid
    <2>. QED
        BY <1>0, <2>1, <2>2 DEF ScrollbackInv, vars, screenVars, size, historyVars
<1>2. CASE HNext
    <2>0. steps < MaxSteps /\ steps' = steps + 1 /\ steps' \in 0..MaxSteps
        <3>1. steps \in 0..MaxSteps /\ steps < MaxSteps /\ steps' = steps + 1
            BY <1>0, <1>2 DEF HNext, PlaceInv, TypeOK
        <3>. QED
            BY <3>1, ScreenAssumption DEF ScreenAssumption
    <2>1. CASE FeedOne
        <3>1. Sequence /\ feeding' = TRUE /\ UNCHANGED <<history, cap>>
            BY <2>1 DEF FeedOne
        <3>2. PlaceInv' /\ Rectangular'
            BY <1>0, <2>0, <3>1, ScreenStepKeeps DEF Next, Step
        <3>3. PICK off \in Seq(LinesOf(columns)) :
                  scrolledOff' = scrolledOff \o off /\ columns' = columns
            BY <1>0, <3>1, SequenceAddsRows
        <3>4. scrolledOff' \in Seq(LinesOf(columns))
            BY <1>0, <3>3
        <3>. QED
            BY <1>0, <3>1, <3>2, <3>3, <3>4 DEF ScrollbackInv
    <2>2. CASE Capture
        <3>1. /\ feeding' = FALSE /\ scrolledOff' = <<>> /\ UNCHANGED cap
              /\ history' = Trimmed(history \o scrolledOff, cap)
              /\ UNCHANGED <<size, grid, cursor, mode, margins, dirty, alt>>
            BY <2>2 DEF Capture
        <3>2. columns' = columns
            BY <3>1 DEF size
        <3>3. history' \in Seq(LinesOf(columns)) /\ (cap > 0 => Len(history') <= cap)
            BY <1>0, <3>1, CapturedType
        <3>4. Rectangular'
            BY <1>0, <3>1, GridFacts, GridPreserves DEF grid
        <3>5. PlaceInv'
            BY <1>0, <2>0, <3>1
            DEF PlaceInv, TypeOK, InBounds, SavesOK, Rows, size, cursor, alt
        <3>6. scrolledOff' \in Seq(LinesOf(columns))
            BY <3>1
        <3>. QED
            BY <1>0, <3>1, <3>2, <3>3, <3>4, <3>5, <3>6 DEF ScrollbackInv
    <2>3. ASSUME NEW n \in Caps, SetCap(n)
          PROVE  ScrollbackInv'
        <3>1. cap' = n /\ history' = Trimmed(history, n) /\ UNCHANGED <<screenVars, feeding>>
            BY <2>3 DEF SetCap
        <3>2. n \in Nat
            BY HistoryAssumption DEF HistoryAssumption
        <3>3. history' \in Seq(LinesOf(columns)) /\ (n > 0 => Len(history') <= n)
            BY <1>0, <3>1, <3>2, TrimmedType
        <3>4. Rectangular'
            BY <1>0, <3>1, GridFacts, GridPreserves DEF screenVars, grid
        <3>5. PlaceInv'
            BY <1>0, <2>0, <3>1
            DEF PlaceInv, TypeOK, InBounds, SavesOK, Rows, screenVars, size, cursor, alt
        <3>. QED
            BY <1>0, <3>1, <3>2, <3>3, <3>4, <3>5 DEF ScrollbackInv, screenVars, size
    <2>4. CASE HReset
        <3>1. Reset /\ history' = <<>> /\ UNCHANGED <<cap, feeding>>
            BY <2>4 DEF HReset
        <3>2. scrolledOff' = <<>>
            BY <3>1 DEF Reset
        <3>3. PlaceInv' /\ Rectangular'
            BY <1>0, <2>0, <3>1, ScreenStepKeeps DEF Next, Step
        <3>4. history' \in Seq(LinesOf(columns')) /\ scrolledOff' \in Seq(LinesOf(columns'))
              /\ Len(history') = 0
            BY <3>1, <3>2
        <3>. QED
            BY <1>0, <3>1, <3>2, <3>3, <3>4 DEF ScrollbackInv
    <2>5. CASE HTakeDirtyRows
        <3>1. TakeDirtyRows /\ UNCHANGED <<history, cap, feeding>>
            BY <2>5 DEF HTakeDirtyRows, historyVars
        <3>2. scrolledOff' = scrolledOff /\ columns' = columns
            BY <3>1 DEF TakeDirtyRows, size
        <3>3. PlaceInv' /\ Rectangular'
            BY <1>0, <2>0, <3>1, ScreenStepKeeps DEF Next, Step
        <3>. QED
            BY <1>0, <3>1, <3>2, <3>3 DEF ScrollbackInv
    <2>6. ASSUME NEW s \in Sizes, ResizeAlt(s[1], s[2])
          PROVE  ScrollbackInv'
        <3>1. /\ ~feeding /\ Resize(s[1], s[2]) /\ UNCHANGED <<cap, feeding>>
              /\ history' = Conformed(history, columns')
            BY <2>6 DEF ResizeAlt
        <3>2. PlaceInv' /\ Rectangular'
            BY <1>0, <2>0, <3>1, ScreenStepKeeps DEF Next, Step
        <3>3. scrolledOff' = scrolledOff
            BY <3>1 DEF Resize, ResizeGrid
        <3>4. columns \in Nat /\ columns' \in Nat
            BY <1>0, <3>2 DEF PlaceInv, TypeOK
        <3>5. history' \in Seq(LinesOf(columns')) /\ Len(history') = Len(history)
            BY <1>0, <3>1, <3>4, ConformedType
        <3>6. scrolledOff' \in Seq(LinesOf(columns'))
            BY <1>0, <3>1, <3>3
        <3>. QED
            BY <1>0, <3>1, <3>2, <3>3, <3>5, <3>6 DEF ScrollbackInv
    <2>7. \A s \in Sizes : s[1] \in Nat /\ s[2] \in Nat
        BY ScreenAssumption DEF ScreenAssumption
    <2>. QED
        BY <1>2, <2>0, <2>1, <2>2, <2>3, <2>4, <2>5, <2>6, <2>7, ResizeRowsKeeps,
           ResizeColumnsKeeps DEF HNext, HStep
<1>. QED
    BY <1>1, <1>2

\* The invariant, as a property of the whole specification.
LEMMA ScrollbackInvHolds == ASSUME AnyDeccolm = FALSE PROVE HSpec => []ScrollbackInv
<1>1. HInit => ScrollbackInv
    BY ScrollbackStarts
<1>2. ScrollbackInv /\ [HNext]_allVars => ScrollbackInv'
    BY ScrollbackKept
<1>. QED
    BY <1>1, <1>2, PTL DEF HSpec

-----------------------------------------------------------------------------
(* What a step leaves of the scrollback.                                   *)

\* A trimmed sequence is what is left behind some index, and full when there is
\* an end that it has lost.
LEMMA TrimmedIsTail ==
    ASSUME NEW S, NEW h \in Seq(S), NEW n \in Nat
    PROVE  \E d \in 0..Len(h) :
               /\ Trimmed(h, n) = SubSeq(h, d + 1, Len(h))
               /\ d > 0 => n > 0 /\ Len(Trimmed(h, n)) = n
<1>1. Len(h) \in Nat /\ \A i \in 1..Len(h) : h[i] \in S
    BY ElementOfSeq, LenProperties
<1>2. CASE n > 0 /\ Len(h) > n
    <2>. DEFINE d == Len(h) - n
    <2>1. d \in 0..Len(h) /\ d + 1 = Len(h) - n + 1
        BY <1>1, <1>2
    <2>2. \A i \in (d + 1)..Len(h) : h[i] \in S
        BY <1>1, <2>1
    <2>3. Len(SubSeq(h, d + 1, Len(h))) = n
        BY <1>1, <1>2, <2>2, SubSeqProperties
    <2>4. Trimmed(h, n) = SubSeq(h, d + 1, Len(h))
        BY <1>2 DEF Trimmed
    <2>. QED
        BY <1>2, <2>1, <2>3, <2>4
<1>3. CASE ~(n > 0 /\ Len(h) > n)
    <2>1. Trimmed(h, n) = SubSeq(h, 0 + 1, Len(h))
        BY <1>3, SubSeqFull DEF Trimmed
    <2>2. 0 \in 0..Len(h)
        BY <1>1
    <2>. QED
        BY <2>1, <2>2
<1>. QED
    BY <1>2, <1>3

\* Made as wide as it is, a scrollback is the same.
LEMMA ConformedKeeps ==
    ASSUME NEW cols \in Nat, NEW h \in Seq(LinesOf(cols))
    PROVE  Conformed(h, cols) = h
<1>. DEFINE cell(n, i) == IF i \in DOMAIN h[n].cells THEN h[n].cells[i] ELSE Blank
            row(n) == [i \in 0..(cols - 1) |-> cell(n, i)]
            line(n) == [h[n] EXCEPT !.cells = row(n)]
<1>1. Len(h) \in Nat /\ h = [n \in 1..Len(h) |-> h[n]] /\ \A n \in 1..Len(h) : h[n] \in LinesOf(cols)
    BY ElementOfSeq, LenProperties
<1>2. Conformed(h, cols) = [n \in DOMAIN h |-> line(n)]
    BY DEF Conformed
<1>3. ASSUME NEW n \in 1..Len(h)
      PROVE  line(n) = h[n]
    <2>1. h[n] \in [cells : RowsOf(cols), wrap : BOOLEAN]
        BY <1>1 DEF LinesOf
    <2>2. h[n].cells \in [0..(cols - 1) -> Cells]
        BY <2>1 DEF RowsOf
    <2>3. row(n) = h[n].cells
        BY <2>2
    <2>. HIDE DEF row
    <2>. QED
        BY <2>1, <2>3
<1>. HIDE DEF line
<1>4. [n \in 1..Len(h) |-> line(n)] = [n \in 1..Len(h) |-> h[n]]
    BY <1>3
<1>5. DOMAIN h = 1..Len(h)
    BY LenProperties
<1>. QED
    BY <1>1, <1>2, <1>4, <1>5

\* What captured lines leave of a scrollback: its end, first in the new one; it
\* is all of it, unless the new one is full.
LEMMA CapturedKeeps ==
    ASSUME NEW S, NEW h \in Seq(S), NEW more \in Seq(S), NEW n \in Nat
    PROVE  \E d \in 0..Len(h) :
               /\ IsPrefix(SubSeq(h, d + 1, Len(h)), Trimmed(h \o more, n))
               /\ d > 0 => n > 0 /\ Len(Trimmed(h \o more, n)) = n
<1>. DEFINE all == h \o more
            new == Trimmed(all, n)
<1>1. /\ Len(h) \in Nat /\ Len(more) \in Nat
      /\ all \in Seq(S) /\ Len(all) = Len(h) + Len(more)
    BY ConcatProperties, LenProperties
<1>2. PICK d \in 0..Len(all) :
          new = SubSeq(all, d + 1, Len(all)) /\ (d > 0 => n > 0 /\ Len(new) = n)
    BY <1>1, TrimmedIsTail
<1>3. new \in Seq(S)
    BY <1>1, TrimmedType
<1>. HIDE DEF new
<1>4. CASE d \in 0..Len(h)
    <2>. DEFINE left == SubSeq(h, d + 1, Len(h))
    <2>1. new = left \o more
        BY <1>2, <1>4, TailOfConcat
    <2>2. \A i \in (d + 1)..Len(h) : h[i] \in S
        BY <1>1, <1>4, ElementOfSeq
    <2>3. left \in Seq(S)
        BY <1>1, <1>4, <2>2, SubSeqProperties
    <2>. HIDE DEF left
    <2>4. IsPrefix(left, new)
        BY <2>1, <2>3, PrefixOfConcat
    <2>. QED
        BY <1>2, <1>4, <2>4 DEF left, new
<1>5. CASE d \notin 0..Len(h)
    <2>. DEFINE none == SubSeq(h, Len(h) + 1, Len(h))
    <2>1. none = <<>>
        BY <1>1, SubSeqEmpty
    <2>2. Len(h) \in 0..Len(h) /\ d > 0
        BY <1>1, <1>2, <1>5
    <2>3. new = <<>> \o new
        BY <1>3, ConcatEmptySeq
    <2>4. IsPrefix(<<>>, new)
        BY <1>3, <2>3, EmptySeq, PrefixOfConcat
    <2>. HIDE DEF none
    <2>5. IsPrefix(none, new)
        BY <2>1, <2>4
    <2>. QED
        BY <1>2, <2>2, <2>5 DEF none, new
<1>. QED
    BY <1>4, <1>5

\* What a step must leave of the scrollback and the lines on their way to it.
Keeps(paper, new) ==
    \E d \in 0..Len(paper) :
        /\ IsPrefix(SubSeq(paper, d + 1, Len(paper)), new)
        /\ d > 0 => (cap' > 0 /\ Len(history') = cap')
        /\ (~feeding' /\ grid' = grid) => new = SubSeq(paper, d + 1, Len(paper))

\* A step that takes nothing away, and adds only in a feed.
LEMMA AppendingKeeps ==
    ASSUME NEW S, NEW paper \in Seq(S), NEW more \in Seq(S), feeding' \/ more = <<>>
    PROVE  Keeps(paper, paper \o more)
<1>1. SubSeq(paper, 0 + 1, Len(paper)) = paper /\ 0 \in 0..Len(paper)
    BY SubSeqFull, LenProperties
<1>2. IsPrefix(paper, paper \o more)
    BY PrefixOfConcat
<1>3. more = <<>> => paper \o more = paper
    BY ConcatEmptySeq
<1>. DEFINE d == 0
            rest(i) == SubSeq(paper, i + 1, Len(paper))
<1>4. d \in 0..Len(paper) /\ ~(d > 0) /\ rest(d) = paper
    BY <1>1
<1>. HIDE DEF d
<1>5. /\ IsPrefix(rest(d), paper \o more)
      /\ ~feeding' => paper \o more = rest(d)
    BY <1>2, <1>3, <1>4
<1>. QED
    BY <1>4, <1>5 DEF Keeps

\* A step that only trims.
LEMMA TrimmingKeeps ==
    ASSUME NEW S, NEW paper \in Seq(S), NEW n \in Nat, cap' = n, history' = Trimmed(paper, n)
    PROVE  Keeps(paper, history')
<1>1. PICK d \in 0..Len(paper) :
          /\ history' = SubSeq(paper, d + 1, Len(paper))
          /\ d > 0 => n > 0 /\ Len(history') = n
    BY TrimmedIsTail
<1>2. IsPrefix(history', history')
    BY TrimmedType, PrefixOfSelf
<1>. QED
    BY <1>1, <1>2 DEF Keeps

\* The grid of a change of the rows is another one.
LEMMA ResizeRowsRegrids ==
    ASSUME ScrollbackInv, NEW l \in Nat, ResizeRows(l)
    PROVE  grid' # grid
<1>. DEFINE rows == Greater(l, 1)
<1>1. /\ rows # lines /\ rows \in Nat \ {0} /\ lines \in Nat \ {0}
      /\ DOMAIN buffer = 0..(lines - 1)
    BY RegionOnScreen, GridFacts DEF ScrollbackInv, ResizeRows, Greater
<1>2. DOMAIN buffer' = 0..(rows - 1)
    BY DEF ResizeRows, ResizeGrid, Conform
<1>. HIDE DEF rows
<1>3. 0..(rows - 1) # 0..(lines - 1)
    <2>1. CASE rows < lines
        <3>1. lines - 1 \in 0..(lines - 1) /\ lines - 1 \notin 0..(rows - 1)
            BY <1>1, <2>1
        <3>. QED
            BY <3>1
    <2>2. CASE lines < rows
        <3>1. rows - 1 \in 0..(rows - 1) /\ rows - 1 \notin 0..(lines - 1)
            BY <1>1, <2>2
        <3>. QED
            BY <3>1
    <2>. QED
        BY <1>1, <2>1, <2>2
<1>. QED
    BY <1>1, <1>2, <1>3 DEF grid

\* The rows a smaller screen pushes off its top: as many as do not fit above the
\* cursor, and in their order.
LEMMA ResizeRowsPushes ==
    ASSUME ScrollbackInv, NEW l \in Nat, ResizeRows(l)
    PROVE  \E k \in 0..y :
               /\ history' = Trimmed(history \o SubSeq(Visible, 1, k), cap)
               /\ y' = y - k
               /\ SubSeq(Visible, 1, k) \in Seq(LinesOf(columns))
               /\ \A r \in 0..(y - k) : buffer'[r] = buffer[r + k] /\ wrapped'[r] = wrapped[r + k]
               /\ columns' = columns /\ lines' \in Nat /\ y - k < lines'
               /\ scrolledOff' = scrolledOff /\ cap' = cap /\ ~feeding /\ ~feeding'
<1>. DEFINE rows == Greater(l, 1)
            excess == Greater(lines - rows, 0)
            fromBottom == Lesser(excess, RowsBelow)
            k == excess - fromBottom
            left == 0..(lines - 1 - excess)
            pushed == [i \in 1..k |-> [cells |-> buffer[i - 1], wrap |-> wrapped[i - 1]]]
            g == [r \in left |-> buffer[r + k]]
            w == [r \in left |-> wrapped[r + k]]
<1>0. /\ PlaceInv /\ Rectangular
      /\ lines \in Nat \ {0} /\ columns \in Nat \ {0} /\ y \in 0..(lines - 1)
      /\ Visible \in Seq(LinesOf(columns)) /\ Len(Visible) = lines
    BY RegionOnScreen, VisibleType DEF ScrollbackInv
<1>1. /\ ~feeding /\ feeding' = feeding /\ cap' = cap
      /\ history' = Trimmed(history \o pushed, cap)
      /\ ResizeGrid(g, w, Greater(y - k, 0), rows, columns)
    BY DEF ResizeRows
<1>2. /\ rows \in Nat \ {0} /\ excess \in Nat /\ excess < lines /\ k \in 0..y
      /\ y - k < rows /\ y - k <= lines - 1 - excess
    <2>1. rows \in Nat \ {0}
        BY DEF Greater
    <2>. HIDE DEF rows
    <2>. QED
        BY <1>0, <2>1 DEF Greater, Lesser, RowsBelow
<1>. HIDE DEF rows, excess, fromBottom, k
<1>3. /\ lines' = rows /\ columns' = columns /\ scrolledOff' = scrolledOff
      /\ buffer' = Conform(g, rows, columns) /\ wrapped' = ConformWraps(w, rows)
      /\ y' = Lesser(Greater(y - k, 0), rows - 1)
    BY <1>1 DEF ResizeGrid
<1>4. y' = y - k
    BY <1>0, <1>2, <1>3 DEF Lesser, Greater
<1>5. pushed = SubSeq(Visible, 1, k) /\ SubSeq(Visible, 1, k) \in Seq(LinesOf(columns))
    <2>. DEFINE s == SubSeq(Visible, 1, k)
    <2>1. \A i \in 1..k : i \in 1..lines
        BY <1>0, <1>2
    <2>2. \A i \in 1..k : Visible[i] \in LinesOf(columns)
        BY <1>0, <2>1, ElementOfSeq
    <2>3. s \in Seq(LinesOf(columns)) /\ Len(s) = k /\ \A i \in 1..k : s[i] = Visible[i]
        BY <1>2, <2>2, SubSeqProperties
    <2>4. \A i \in 1..k : Visible[i] = [cells |-> buffer[i - 1], wrap |-> wrapped[i - 1]]
        BY <2>1 DEF Visible
    <2>5. s = [i \in 1..k |-> s[i]]
        BY <2>3, LenProperties
    <2>. HIDE DEF s
    <2>6. \A i \in 1..k : s[i] = [cells |-> buffer[i - 1], wrap |-> wrapped[i - 1]]
        BY <2>3, <2>4
    <2>7. s = pushed
        BY <2>5, <2>6
    <2>. QED
        BY <2>3, <2>7 DEF s
<1>6. ASSUME NEW r \in 0..(y - k)
      PROVE  buffer'[r] = buffer[r + k] /\ wrapped'[r] = wrapped[r + k]
    <2>1. r \in left /\ r \in 0..(rows - 1) /\ r + k \in 0..(lines - 1)
        BY <1>0, <1>2
    <2>2. buffer[r + k] \in RowsOf(columns) /\ wrapped[r + k] \in BOOLEAN
        BY <1>0, <2>1, GridFacts
    <2>3. g[r] = buffer[r + k] /\ w[r] = wrapped[r + k] /\ r \in DOMAIN g /\ r \in DOMAIN w
        BY <2>1
    <2>. HIDE DEF g, w
    <2>4. buffer'[r] = [i \in 0..(columns - 1) |->
                           IF r \in DOMAIN g /\ i \in DOMAIN g[r] THEN g[r][i] ELSE Blank]
        BY <1>3, <2>1 DEF Conform
    <2>5. buffer'[r] = [i \in 0..(columns - 1) |-> g[r][i]]
        BY <2>2, <2>3, <2>4 DEF RowsOf
    <2>6. g[r] = [i \in 0..(columns - 1) |-> g[r][i]]
        BY <2>2, <2>3 DEF RowsOf
    <2>7. wrapped'[r] = (r \in DOMAIN w /\ w[r])
        BY <1>3, <2>1 DEF ConformWraps
    <2>. QED
        BY <2>2, <2>3, <2>5, <2>6, <2>7
<1>. HIDE DEF pushed, g, w, left
<1>. QED
    BY <1>1, <1>2, <1>3, <1>4, <1>5, <1>6

\* What each step leaves of the scrollback and the lines on their way to it.
LEMMA StepKeepsPaper ==
    ASSUME AnyDeccolm = FALSE, ScrollbackInv, HNext, columns' = columns, ~HReset
    PROVE  Keeps(Paper, Paper')
<1>. DEFINE Lines == LinesOf(columns)
<1>0. /\ PlaceInv /\ Rectangular /\ cap \in Nat /\ columns \in Nat
      /\ history \in Seq(Lines) /\ scrolledOff \in Seq(Lines)
      /\ (~feeding => scrolledOff = <<>>)
    BY DEF ScrollbackInv, PlaceInv, TypeOK
<1>1. Paper \in Seq(Lines) /\ Paper = history \o scrolledOff /\ Paper' = history' \o scrolledOff'
    BY <1>0 DEF Paper
<1>2. ~feeding => Paper = history
    BY <1>0, <1>1, ConcatEmptySeq
<1>3. (scrolledOff' = <<>> /\ history' \in Seq(Lines)) => Paper' = history'
    <2>. HIDE DEF Lines
    <2>. QED
        BY <1>1, ConcatEmptySeq
<1>4. Paper' = Paper => Keeps(Paper, Paper')
    <2>. HIDE DEF Lines
    <2>1. Paper \o <<>> = Paper /\ <<>> \in Seq(Lines)
        BY <1>1, ConcatEmptySeq, EmptySeq
    <2>2. Keeps(Paper, Paper \o <<>>)
        BY <1>1, <2>1, AppendingKeeps
    <2>. QED
        BY <2>1, <2>2
<1>. HIDE DEF Lines
<1>5. CASE FeedOne
    <2>1. Sequence /\ feeding' = TRUE /\ history' = history
        BY <1>5 DEF FeedOne
    <2>2. PICK off \in Seq(Lines) : scrolledOff' = scrolledOff \o off
        BY <1>0, <2>1, SequenceAddsRows DEF Lines
    <2>3. Paper' = Paper \o off
        BY <1>0, <1>1, <2>1, <2>2, ConcatAssociative
    <2>4. Keeps(Paper, Paper \o off)
        BY <1>1, <2>1, AppendingKeeps
    <2>. QED
        BY <2>3, <2>4
<1>6. CASE Capture
    <2>1. history' = Trimmed(Paper, cap) /\ scrolledOff' = <<>> /\ cap' = cap
        BY <1>6 DEF Capture, Paper
    <2>2. Paper' = history'
        BY <1>0, <1>1, <1>3, <2>1, TrimmedType
    <2>. QED
        BY <1>0, <1>1, <2>1, <2>2, TrimmingKeeps
<1>7. ASSUME NEW n \in Caps, SetCap(n)
      PROVE  Keeps(Paper, Paper')
    <2>1. ~feeding /\ history' = Trimmed(history, n) /\ scrolledOff' = scrolledOff /\ cap' = n
        BY <1>7 DEF SetCap, screenVars
    <2>2. n \in Nat
        BY HistoryAssumption DEF HistoryAssumption
    <2>3. Paper = history /\ Paper' = history'
        BY <1>0, <1>2, <1>3, <2>1, <2>2, TrimmedType
    <2>4. Keeps(history, history')
        BY <1>0, <2>1, <2>2, TrimmingKeeps
    <2>. QED
        BY <2>3, <2>4
<1>8. CASE HTakeDirtyRows
    <2>1. history' = history /\ scrolledOff' = scrolledOff
        BY <1>8 DEF HTakeDirtyRows, TakeDirtyRows, historyVars
    <2>. QED
        BY <1>1, <1>4, <2>1
<1>9. ASSUME NEW s \in Sizes, ResizeAlt(s[1], s[2])
      PROVE  Keeps(Paper, Paper')
    <2>1. history' = Conformed(history, columns) /\ scrolledOff' = scrolledOff
        BY <1>9 DEF ResizeAlt, Resize, ResizeGrid
    <2>2. history' = history
        BY <1>0, <2>1, ConformedKeeps DEF Lines
    <2>. QED
        BY <1>1, <1>4, <2>1, <2>2
<1>10. ASSUME NEW l \in Nat, ResizeRows(l)
       PROVE  Keeps(Paper, Paper')
    <2>1. PICK more \in Seq(Lines) :
              /\ history' = Trimmed(history \o more, cap)
              /\ scrolledOff' = scrolledOff /\ cap' = cap /\ ~feeding
        BY <1>10, ResizeRowsPushes DEF Lines
    <2>2. grid' # grid
        BY <1>10, ResizeRowsRegrids
    <2>3. history' \in Seq(Lines)
        BY <1>0, <2>1, CapturedType
    <2>4. Paper = history /\ Paper' = history'
        BY <1>0, <1>2, <1>3, <2>1, <2>3
    <2>5. PICK d \in 0..Len(history) :
              /\ IsPrefix(SubSeq(history, d + 1, Len(history)), history')
              /\ d > 0 => cap > 0 /\ Len(history') = cap
        BY <1>0, <2>1, CapturedKeeps
    <2>6. Keeps(history, history')
        BY <2>1, <2>2, <2>5 DEF Keeps
    <2>. QED
        BY <2>4, <2>6
<1>11. ASSUME NEW l, NEW c, ResizeColumns(l, c)
       PROVE  FALSE
    BY <1>11 DEF ResizeColumns
<1>12. \A s \in Sizes : s[1] \in Nat
    BY ScreenAssumption DEF ScreenAssumption
<1>. QED
    BY <1>5, <1>6, <1>7, <1>8, <1>9, <1>10, <1>11, <1>12 DEF HNext, HStep

\* A change of the rows: the pushed rows and those down to the cursor are the
\* rows that were there, down to the cursor.
LEMMA ResizeRowsKeepsWritten ==
    ASSUME ScrollbackInv, NEW l \in Nat, ResizeRows(l)
    PROVE  IsSuffix(history' \o SubSeq(Visible', 1, y' + 1), history \o SubSeq(Visible, 1, y + 1))
<1>. DEFINE Lines == LinesOf(columns)
            line(r) == [cells |-> buffer[r - 1], wrap |-> wrapped[r - 1]]
<1>0. /\ Visible \in Seq(Lines) /\ Len(Visible) = lines /\ y \in 0..(lines - 1) /\ lines \in Nat
      /\ history \in Seq(Lines) /\ cap \in Nat
    BY RegionOnScreen, VisibleType DEF ScrollbackInv
<1>1. PICK k \in 0..y :
          /\ history' = Trimmed(history \o SubSeq(Visible, 1, k), cap)
          /\ y' = y - k
          /\ SubSeq(Visible, 1, k) \in Seq(Lines)
          /\ \A r \in 0..(y - k) : buffer'[r] = buffer[r + k] /\ wrapped'[r] = wrapped[r + k]
          /\ lines' \in Nat /\ y - k < lines'
    BY ResizeRowsPushes
<1>. HIDE DEF Lines
<1>. DEFINE off == SubSeq(Visible, 1, k)
            kept == SubSeq(Visible, k + 1, y + 1)
            here == SubSeq(Visible', 1, y' + 1)
            all == history \o off
<1>2. \A i \in 1..lines : Visible[i] = line(i) /\ Visible[i] \in Lines
    BY <1>0, ElementOfSeq DEF Visible
<1>3. \A i \in 1..lines' : Visible'[i] = [cells |-> buffer'[i - 1], wrap |-> wrapped'[i - 1]]
    BY <1>1 DEF Visible
<1>4. kept \in Seq(Lines) /\ Len(kept) = y - k + 1
      /\ \A i \in 1..(y - k + 1) : kept[i] = Visible[k + i]
    <2>1. \A i \in (k + 1)..(y + 1) : Visible[i] \in Lines
        BY <1>0, <1>2
    <2>2. k + 1 \in Int /\ y + 1 \in Int /\ k + 1 <= y + 1 /\ y + 1 - (k + 1) + 1 = y - k + 1
        BY <1>0
    <2>. DEFINE from == k + 1
                to == y + 1
    <2>. HIDE DEF from, to
    <2>3. /\ SubSeq(Visible, from, to) \in Seq(Lines)
          /\ Len(SubSeq(Visible, from, to)) = IF from <= to THEN to - from + 1 ELSE 0
          /\ \A i \in 1..(to - from + 1) : SubSeq(Visible, from, to)[i] = Visible[from + i - 1]
        BY <2>1, <2>2, SubSeqProperties DEF from, to
    <2>4. from <= to /\ to - from + 1 = y - k + 1
        BY <1>0, <2>2 DEF from, to
    <2>5. kept = SubSeq(Visible, from, to)
        BY DEF from, to
    <2>. HIDE DEF kept
    <2>6. kept \in Seq(Lines) /\ Len(kept) = y - k + 1
          /\ \A i \in 1..(y - k + 1) : kept[i] = Visible[from + i - 1]
        BY <2>3, <2>4, <2>5
    <2>7. \A i \in 1..(y - k + 1) : from + i - 1 = k + i
        BY <1>0 DEF from
    <2>. QED
        BY <2>6, <2>7
<1>5. here = kept
    <2>1. ASSUME NEW i \in 1..(y - k + 1)
          PROVE  Visible'[i] = Visible[k + i]
        <3>1. i - 1 \in 0..(y - k) /\ i \in 1..lines' /\ k + i \in 1..lines /\ i - 1 + k = k + i - 1
            BY <1>0, <1>1
        <3>2. Visible'[i] = [cells |-> buffer'[i - 1], wrap |-> wrapped'[i - 1]]
            BY <1>3, <3>1
        <3>3. buffer'[i - 1] = buffer[k + i - 1] /\ wrapped'[i - 1] = wrapped[k + i - 1]
            BY <1>1, <3>1
        <3>4. Visible[k + i] = line(k + i)
            BY <1>2, <3>1
        <3>. QED
            BY <3>2, <3>3, <3>4
    <2>2. \A i \in 1..(y - k + 1) : k + i \in 1..lines
        BY <1>0
    <2>3. \A i \in 1..(y' + 1) : Visible'[i] \in Lines
        BY <1>1, <1>2, <2>1, <2>2
    <2>4. here \in Seq(Lines) /\ Len(here) = y - k + 1
          /\ \A i \in 1..(y - k + 1) : here[i] = Visible'[i]
        BY <1>0, <1>1, <2>3, SubSeqProperties
    <2>. HIDE DEF here, kept, line
    <2>. QED
        BY <1>4, <2>1, <2>4, SeqEqual
<1>6. SubSeq(Visible, 1, y + 1) = off \o kept
    <2>1. /\ 1 \in 1..(Len(Visible) + 1) /\ k \in (1 - 1)..Len(Visible)
          /\ y + 1 \in k..Len(Visible)
        BY <1>0
    <2>. QED
        BY <1>0, <2>1, ConcatAdjacentSubSeq
<1>7. off \in Seq(Lines) /\ all \in Seq(Lines)
    BY <1>0, <1>1
<1>. HIDE DEF off, kept, here
<1>8. history \o SubSeq(Visible, 1, y + 1) = all \o kept
    <2>1. (history \o off) \o kept = history \o (off \o kept)
        BY <1>0, <1>4, <1>7, ConcatAssociative, SMTT(30)
    <2>. QED
        BY <1>6, <2>1
<1>9. PICK d \in 0..Len(all) : history' = SubSeq(all, d + 1, Len(all))
    BY <1>0, <1>1, <1>7, TrimmedIsTail DEF off
<1>10. history' \o here = SubSeq(all \o kept, d + 1, Len(all \o kept))
    BY <1>4, <1>5, <1>7, <1>9, TailOfConcat
<1>11. all \o kept \in Seq(Lines) /\ d \in 0..Len(all \o kept)
    BY <1>4, <1>7, ConcatProperties, LenProperties
<1>12. IsSuffix(history' \o here, all \o kept)
    <2>. HIDE DEF all
    <2>. QED
        BY <1>10, <1>11, TailIsSuffix
<1>. QED
    BY <1>8, <1>12 DEF here

-----------------------------------------------------------------------------
(* The theorems on the scrollback.                                         *)

\* Every line of the scrollback and on its way to it is as wide as the screen,
\* the scrollback keeps to its capacity, and the screen below it stays well
\* formed, through feeds, resizes and reflows, resets and changes of capacity.
THEOREM ScrollbackFits == ASSUME AnyDeccolm = FALSE PROVE HSpec => []HistoryFits
<1>1. ScrollbackInv => HistoryFits
    <2>. SUFFICES ASSUME ScrollbackInv PROVE HistoryFits
        OBVIOUS
    <2>1. Rectangular /\ InBounds /\ (cap > 0 => Len(history) <= cap)
        BY DEF ScrollbackInv, PlaceInv
    <2>2. Paper \in Seq(LinesOf(columns))
        <3>1. history \in Seq(LinesOf(columns)) /\ scrolledOff \in Seq(LinesOf(columns))
            BY DEF ScrollbackInv
        <3>. QED
            BY <3>1 DEF Paper
    <2>3. \A n \in DOMAIN Paper : Paper[n] \in LinesOf(columns)
        BY <2>2, ElementOfSeq, LenProperties
    <2>4. Line = LinesOf(columns)
        BY DEF Line, LinesOf, RowsOf
    <2>. QED
        BY <2>1, <2>3, <2>4 DEF HistoryFits
<1>. QED
    BY <1>1, ScrollbackInvHolds, PTL

\* What has scrolled off is only lost at its old end, to the capacity, and only
\* a feed or a shrinking screen adds to it.
THEOREM ScrollbackOnlyGrows == ASSUME AnyDeccolm = FALSE PROVE HSpec => ScrollbackIsAppended
<1>1. ScrollbackInv /\ [HNext]_allVars =>
          [(columns' = columns /\ ~HReset) =>
               \E d \in 0..Len(Paper) :
                   /\ IsPrefix(SubSeq(Paper, d + 1, Len(Paper)), Paper')
                   /\ d > 0 => (cap' > 0 /\ Len(history') = cap')
                   /\ (~feeding' /\ grid' = grid) =>
                          Paper' = SubSeq(Paper, d + 1, Len(Paper))]_allVars
    <2>. SUFFICES ASSUME ScrollbackInv, HNext, columns' = columns, ~HReset
                  PROVE  \E d \in 0..Len(Paper) :
                             /\ IsPrefix(SubSeq(Paper, d + 1, Len(Paper)), Paper')
                             /\ d > 0 => (cap' > 0 /\ Len(history') = cap')
                             /\ (~feeding' /\ grid' = grid) =>
                                    Paper' = SubSeq(Paper, d + 1, Len(Paper))
        OBVIOUS
    <2>1. Keeps(Paper, Paper')
        BY StepKeepsPaper
    <2>. QED
        BY <2>1 DEF Keeps
<1>. QED
    BY <1>1, ScrollbackInvHolds, PTL DEF HSpec, ScrollbackIsAppended

\* A change of the rows loses nothing above the cursor but the oldest lines of a
\* full scrollback.
THEOREM WrittenLinesSurvive == ASSUME AnyDeccolm = FALSE PROVE HSpec => ResizeKeepsWrittenLines
<1>1. ScrollbackInv /\ [HNext]_allVars =>
          [(~feeding' /\ ~altScreen /\ columns' = columns /\ lines' # lines) =>
               IsSuffix(history' \o VisibleTo(y)', history \o VisibleTo(y))]_allVars
    <2>. SUFFICES ASSUME ScrollbackInv, HNext, ~feeding', ~altScreen, columns' = columns,
                         lines' # lines
                  PROVE  IsSuffix(history' \o VisibleTo(y)', history \o VisibleTo(y))
        OBVIOUS
    <2>1. \E s \in Sizes : ResizeRows(s[1])
        <3>1. ASSUME FeedOne \/ Capture \/ (\E n \in Caps : SetCap(n)) \/ HReset \/ HTakeDirtyRows
              PROVE  feeding' \/ lines' = lines
            BY <3>1 DEF FeedOne, Capture, SetCap, HReset, HTakeDirtyRows, Reset, TakeDirtyRows,
                        screenVars, size
        <3>2. ASSUME NEW l, NEW c, ResizeAlt(l, c) \/ ResizeColumns(l, c)
              PROVE  altScreen \/ columns' # columns
            BY <3>2 DEF ResizeAlt, ResizeColumns
        <3>. QED
            BY <3>1, <3>2 DEF HNext, HStep
    <2>2. \A s \in Sizes : s[1] \in Nat
        BY ScreenAssumption DEF ScreenAssumption
    <2>. QED
        BY <2>1, <2>2, ResizeRowsKeepsWritten DEF VisibleTo
<1>. QED
    BY <1>1, ScrollbackInvHolds, PTL DEF HSpec, ResizeKeepsWrittenLines
=============================================================================
