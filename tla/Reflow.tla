------------------------------- MODULE Reflow --------------------------------
(***************************************************************************)
(* HistoryScreen::reflow (src/src/terminal/history.rs) as operators: the   *)
(* rows of scrollback and screen are one paper; it is flattened into       *)
(* logical lines, which are split again at the new width.                  *)
(*                                                                         *)
(* A row is [cells, wrap] with cells counted from 0; wrap says that it     *)
(* continues the row above.  Rows and lines are counted from 0, too, where *)
(* a number is the code's index; sequences start at 1.                     *)
(***************************************************************************)
EXTENDS Screen, SequencesExt

\* The cells of a row in order.
Run(row) == [i \in 1..Cardinality(DOMAIN row.cells) |-> row.cells[i - 1]]

TrimBlanks(cells) ==
    SubSeq(cells, 1, SelectLastInSeq(cells, LAMBDA c : c # Blank))

\* The blank that follows a wide glyph is its second half, wherever it is.
FlattenCell(acc, c) ==
    IF acc.skip /\ c = Blank THEN [acc EXCEPT !.skip = FALSE]
    ELSE [acc EXCEPT !.skip = c \in Wide, !.cur = Append(@, c)]

LineDone(acc) == Append(acc.done, [cells |-> TrimBlanks(acc.cur), start |-> acc.start])

\* The cells of a run, one after the other.
Gathered(acc, run) ==
    LET read[n \in 0..Len(run)] == IF n = 0 THEN acc ELSE FlattenCell(read[n - 1], run[n])
    IN  read[Len(run)]

Breaks(acc, row) == acc.row > 0 /\ ~row.wrap

FlattenRow(acc, row) ==
    LET fresh == IF Breaks(acc, row)
                 THEN [acc EXCEPT !.done = LineDone(acc), !.cur = <<>>, !.start = acc.row]
                 ELSE acc
    IN  [Gathered(fresh, Run(row)) EXCEPT !.row = @ + 1]

Unread == [done |-> <<>>, cur |-> <<>>, start |-> 0, skip |-> FALSE, row |-> 0]

\* The logical lines of a paper, each with the row it starts on.
Flatten(paper) ==
    LET read[n \in 0..Len(paper)] == IF n = 0 THEN Unread ELSE FlattenRow(read[n - 1], paper[n])
    IN  LineDone(read[Len(paper)])

\* The logical line a row belongs to.
LineOf(logical, row) == SelectLastInSeq(logical, LAMBDA line : line.start <= row)

-----------------------------------------------------------------------------
Padded(row, cols) == row \o [i \in 1..(cols - Len(row)) |-> Blank]
FlushRow(acc, cols) == [rows |-> Append(acc.rows, Padded(acc.row, cols)), row |-> <<>>]

\* A wide glyph is never split: the gap it leaves is padded.
PlaceCell(acc, c, cols) ==
    LET need == IF c \in Wide THEN 2 ELSE 1
        open == IF Len(acc.row) + need > cols THEN FlushRow(acc, cols) ELSE acc
        put == Append(open.row, c)
        full == IF c \in Wide /\ Len(put) < cols THEN Append(put, Blank) ELSE put
        placed == [open EXCEPT !.row = full]
    IN  IF Len(full) = cols THEN FlushRow(placed, cols) ELSE placed

Empty == [rows |-> <<>>, row |-> <<>>]
PlacedCells(cells, cols) ==
    LET placed[n \in 0..Len(cells)] ==
            IF n = 0 THEN Empty ELSE PlaceCell(placed[n - 1], cells[n], cols)
    IN  placed[Len(cells)]

\* The rows of one line; an empty one has a row of its own.
SplitLine(cells, cols) ==
    LET acc == PlacedCells(cells, cols)
        rows == IF acc.row # <<>> \/ acc.rows = <<>> THEN FlushRow(acc, cols).rows ELSE acc.rows
    IN  [r \in DOMAIN rows |->
            [cells |-> [i \in 0..(cols - 1) |-> rows[r][i + 1]], wrap |-> r > 1]]

SplitLines(logical, cols) == [n \in DOMAIN logical |-> SplitLine(logical[n].cells, cols)]

\* The rows that no longer fit, oldest first; the row then first starts a line.
Overflow(n, rows, limit) == IF limit > 0 /\ n > limit + rows THEN n - (limit + rows) ELSE 0
DropRows(paper, n) ==
    IF n = 0 THEN paper
    ELSE LET left == SubSeq(paper, n + 1, Len(paper)) IN [left EXCEPT ![1].wrap = FALSE]

\* Mutant: the offset counts the rows of the new width.
FlatOffsetNew(start, row, col, oldCols, cols) == (row - start) * cols + Lesser(col, oldCols - 1)

\* Where the cursor is in its line; wide glyphs count as the cells they fill.
FlatOffset(start, row, col, oldCols, cols) == (row - start) * oldCols + Lesser(col, oldCols - 1)

\* The rows left when `overflow` are dropped, and the cursor at row `target`.
Shown(paper, overflow, target, offset, rows, cols) ==
    LET left == DropRows(paper, overflow)
        visible == Greater(Len(paper) - overflow - rows, 0)
        gone == target < overflow
    IN  [history |-> SubSeq(left, 1, visible),
         screen |-> SubSeq(left, visible + 1, Len(left)),
         y |-> IF gone THEN 0 ELSE Lesser(Greater(target - overflow - visible, 0), rows - 1),
         x |-> IF gone THEN 0 ELSE Lesser(offset % cols, cols - 1)]

\* The paper made of the split lines, the cursor at an offset in line `anchor`.
Pasted(split, anchor, offset, rows, cols, limit) ==
    LET before == FlattenSeq(SubSeq(split, 1, anchor - 1))
        paper == FlattenSeq(split)
    IN  Shown(paper, Overflow(Len(paper), rows, limit), Len(before) + offset \div cols,
              offset, rows, cols)

Relaid(logical, anchor, row, col, oldCols, rows, cols, limit) ==
    Pasted(SplitLines(logical, cols), anchor,
           Lesser(FlatOffset(logical[anchor].start, row, col, oldCols, cols),
                  Greater(Len(logical[anchor].cells) - 1, 0)),
           rows, cols, limit)

\* reflow(): h rows of the paper are scrollback, the cursor is on the screen.
Reflowed(paper, h, col, row, oldCols, rows, cols, limit) ==
    LET logical == Flatten(paper)
    IN  Relaid(logical, LineOf(logical, h + row), h + row, col, oldCols, rows, cols, limit)
==============================================================================
