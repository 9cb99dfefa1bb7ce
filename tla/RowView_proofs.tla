---------------------------- MODULE RowView_proofs ----------------------------
(***************************************************************************)
(* Theorems about RowView, for any columns, rows, regions and positions of *)
(* the pointer: what the state of the mouse means and which column it      *)
(* holds, that the selection is a range of rows, and that the slider       *)
(* reaches every row of a table of any size.                               *)
(***************************************************************************)
EXTENDS RowView, TableView_proofs

-----------------------------------------------------------------------------
(* Rows.                                                                    *)

\* The inductive invariant: the columns, a bar that is scaled for the table, and a
\* selection that is a range.
RowsKept ==
  /\ ColumnsKept
  /\ BarFits(scroll, mRowCount) /\ mTableOffset \in Nat
  /\ dump \in BOOLEAN
  /\ mSelection \in [firstSelectedIndex : Int, fromIndex : Int, toIndex : Int]
  /\ SelectionIsRange

\* Below the header the pointer is on a row.
LEMMA PointerIsOnARow ==
  ASSUME mTableOffset \in Nat, NEW y \in Int, y >= HeaderHeight
  PROVE  RowAt(y) \in Nat
BY PointerIsOnALine DEF RowAt

\* A single row is a range, and so is one extended to a row.
LEMMA SelectionsAreRanges ==
  ASSUME RowsKept, NEW i \in Nat,
         mSelection' = Single(i) \/ mSelection' = expandSelectionUpTo(i) \/ UNCHANGED mSelection
  PROVE  /\ mSelection' \in [firstSelectedIndex : Int, fromIndex : Int, toIndex : Int]
         /\ SelectionIsRange'
<1>1. CASE mSelection' = Single(i)
  BY <1>1 DEF Single, SelectionIsRange
<1>2. CASE mSelection' = expandSelectionUpTo(i)
  <2> DEFINE first == mSelection.firstSelectedIndex
  <2>5. i \in Int
    OBVIOUS
  <2>1. /\ mSelection \in [firstSelectedIndex : Int, fromIndex : Int, toIndex : Int]
        /\ mSelection.firstSelectedIndex \in Nat
    BY DEF RowsKept, SelectionIsRange
  <2>2. CASE i < mSelection.firstSelectedIndex
    <3>1. mSelection' = [mSelection EXCEPT !.fromIndex = i, !.toIndex = first]
      BY <1>2, <2>1, <2>2 DEF expandSelectionUpTo
    <3>2. /\ mSelection' \in [firstSelectedIndex : Int, fromIndex : Int, toIndex : Int]
          /\ mSelection'.fromIndex = i /\ mSelection'.toIndex = first
          /\ mSelection'.firstSelectedIndex = first
      BY <2>1, <2>5, <3>1
    <3> QED
      BY <2>1, <2>2, <3>2 DEF SelectionIsRange
  <2>3. CASE i > mSelection.firstSelectedIndex
    <3>1. mSelection' = [mSelection EXCEPT !.fromIndex = first, !.toIndex = i]
      BY <1>2, <2>1, <2>3 DEF expandSelectionUpTo
    <3>2. /\ mSelection' \in [firstSelectedIndex : Int, fromIndex : Int, toIndex : Int]
          /\ mSelection'.fromIndex = first /\ mSelection'.toIndex = i
          /\ mSelection'.firstSelectedIndex = first
      BY <2>1, <2>5, <3>1
    <3> QED
      BY <2>1, <2>3, <3>2 DEF SelectionIsRange
  <2>4. CASE i = mSelection.firstSelectedIndex
    <3>1. mSelection' = mSelection
      BY <1>2, <2>1, <2>4 DEF expandSelectionUpTo
    <3> QED
      BY <3>1 DEF RowsKept, SelectionIsRange
  <2> QED
    BY <2>1, <2>2, <2>3, <2>4
<1>3. CASE UNCHANGED mSelection
  BY <1>3 DEF RowsKept, SelectionIsRange
<1> QED
  BY <1>1, <1>2, <1>3

\* Handlers of the mouse leave the rows alone.
LEMMA RowsUntouched ==
  ASSUME RowsKept, ColumnsKept', UNCHANGED <<rows, dump>>,
         mSelection' \in [firstSelectedIndex : Int, fromIndex : Int, toIndex : Int],
         SelectionIsRange'
  PROVE  RowsKept'
  BY DEF RowsKept, rows, BarFits

\* Slots that move the table leave the columns, the mouse and the selection alone.
LEMMA MouseUntouched ==
  ASSUME RowsKept, UNCHANGED <<columns, mGuiState, mouse, dump, mSelection>>,
         BarFits(scroll, mRowCount)', mTableOffset' \in Nat
  PROVE  RowsKept'
<1>1. ColumnsKept'
  BY MouseAtRest DEF RowsKept
<1>2. SelectionIsRange'
  BY DEF RowsKept, SelectionIsRange
<1> QED
  BY <1>1, <1>2 DEF RowsKept

\* A region is shown in no more lines than it has bytes.
LEMMA LinesOfBytes ==
  ASSUME NEW size \in int_t, NEW rva \in 0 .. size - 1
  PROVE  size \div mDumpByteWidth \in int_t /\ rva \div mDumpByteWidth \in Nat
<1>1. /\ size \in Nat /\ rva \in Nat /\ mDumpByteWidth \in Nat \ {0}
      /\ \A k \in Nat : k <= size => k \in int_t
  <2>1. 2 ^ (2 * IntBits - 1) \in Nat
    BY IntAssumption, PowersOfTwo
  <2> QED
    BY <2>1, DumpAssumption DEF int_t
<1>2. ASSUME NEW n \in Nat
      PROVE  n \div mDumpByteWidth \in Nat /\ n \div mDumpByteWidth <= n
  <2> DEFINE k == n \div mDumpByteWidth
  <2>1. k \in Int /\ mDumpByteWidth * k <= n /\ n < mDumpByteWidth * k + mDumpByteWidth
    BY <1>1, Quotient
  <2> HIDE DEF k
  <2>2. k >= 0
    <3>1. ASSUME k <= -1
          PROVE  mDumpByteWidth * k <= mDumpByteWidth * (-1)
      BY <1>1, <2>1, <3>1, TimesIsMonotonic
    <3>2. mDumpByteWidth * (-1) = -mDumpByteWidth /\ mDumpByteWidth * k \in Int
      BY <1>1, <2>1
    <3> QED
      BY <1>1, <2>1, <3>1, <3>2
  <2>3. k * 1 <= k * mDumpByteWidth
    BY <1>1, <2>1, <2>2, TimesIsMonotonic
  <2>4. k * mDumpByteWidth = mDumpByteWidth * k /\ k * mDumpByteWidth \in Int
    BY <1>1, <2>1, Z3
  <2>5. k <= n
    BY <1>1, <2>1, <2>3, <2>4
  <2> QED
    BY <2>1, <2>2, <2>5 DEF k
<1> QED
  BY <1>1, <1>2

\* Every event keeps the invariant.
LEMMA EventKeepsRows ==
  ASSUME RowsKept, [RowNext]_rowVars
  PROVE  RowsKept'
<1>2. ColumnsKept /\ mTableOffset \in Nat /\ BarFits(scroll, mRowCount)
  BY DEF RowsKept
<1>3. 0 \in Nat
  OBVIOUS
<1>4. ASSUME NEW p \in Positions, mouseMoveEvent(p[1], p[2])
      PROVE  RowsKept'
  <2>1. p[1] \in Int /\ p[2] \in Int
    BY <1>4, PointerAssumption DEF Positions
  <2>2. Moved(p[1], p[2]) /\ UNCHANGED <<rows, dump>>
    BY <1>4 DEF mouseMoveEvent
  <2>3. CASE mGuiState = "MultiRowsSelectionState" /\ InTable(p[2]) /\ RowAt(p[2]) < mRowCount
    <3>1. mGuiState \notin {"NoState", "ReadyToResize", "ResizeColumnState"}
      BY <2>3
    <3>2. TableMouseMove(p[1])
      BY <1>4, <2>3 DEF mouseMoveEvent, TableMouseMove
    <3>3. ColumnsKept'
      BY <1>2, <2>1, <2>2, <3>2, MoveKeepsTable
    <3>4. RowAt(p[2]) \in Nat
      <4>1. p[2] >= HeaderHeight
        BY <2>1, <2>3, SizesAssumption DEF InTable, transY
      <4> QED
        BY <1>2, <2>1, <4>1, PointerIsOnARow
    <3>5. mSelection' = Single(RowAt(p[2])) \/ mSelection' = expandSelectionUpTo(RowAt(p[2]))
      BY <1>4, <2>3 DEF mouseMoveEvent
    <3> QED
      BY <2>2, <3>3, <3>4, <3>5, SelectionsAreRanges, RowsUntouched
  <2>4. CASE ~ (mGuiState = "MultiRowsSelectionState" /\ InTable(p[2]) /\ RowAt(p[2]) < mRowCount)
    <3>1. TableMouseMove(p[1]) /\ UNCHANGED mSelection
      BY <1>4, <2>4 DEF mouseMoveEvent
    <3>2. ColumnsKept'
      BY <1>2, <2>1, <2>2, <3>1, MoveKeepsTable
    <3> QED
      BY <1>3, <2>2, <3>1, <3>2, SelectionsAreRanges, RowsUntouched
  <2> QED
    BY <2>3, <2>4
<1>5. CASE mousePressEvent
  <2> DEFINE x == pointer[1]
             y == pointer[2]
             onRow == mGuiState = "NoState" /\ y > HeaderHeight /\ RowAt(y) < mRowCount
  <2>1. x \in Int /\ y \in Int /\ UNCHANGED <<rows, dump, pointer>> /\ left' = TRUE
    BY <1>2, <1>5 DEF mousePressEvent, Pressed, ColumnsKept
  <2>2. onRow => mSelection' = Single(RowAt(y)) /\ mGuiState' = "MultiRowsSelectionState"
                 /\ UNCHANGED columns
    BY <1>5 DEF mousePressEvent
  <2>3. ~onRow => TableMousePress(x, y) /\ UNCHANGED mSelection
    BY <1>5 DEF mousePressEvent
  <2>4. ColumnsKept'
    <3> HIDE DEF onRow
    <3> QED
      BY <1>2, <2>1, <2>2, <2>3, PressKeepsTable
  <2>5. CASE onRow
    <3>1. RowAt(y) \in Nat
      BY <1>2, <2>1, <2>5, PointerIsOnARow, SizesAssumption
    <3> QED
      BY <2>1, <2>2, <2>4, <2>5, <3>1, SelectionsAreRanges, RowsUntouched
  <2>6. CASE ~onRow
    BY <1>3, <2>1, <2>3, <2>4, <2>6, SelectionsAreRanges, RowsUntouched
  <2> QED
    BY <2>5, <2>6
<1>6. CASE mouseReleaseEvent
  <2>1. /\ UNCHANGED <<rows, dump, mSelection, pointer, columns>>
        /\ left /\ left' = FALSE
        /\ mGuiState' = IF mGuiState \in {"MultiRowsSelectionState", "ResizeColumnState",
                                          "HeaderButtonPressed"}
                        THEN "NoState" ELSE mGuiState
    BY <1>6 DEF mouseReleaseEvent, Released, TableMouseRelease
  <2>2. ColumnsKept'
    BY <1>2, <2>1, ReleaseKeepsTable
  <2> QED
    BY <1>3, <2>1, <2>2, SelectionsAreRanges, RowsUntouched
<1>7. CASE vertSliderActionSlot
  <2>1. PICK action \in SliderAction : setTableOffset(sliderMovedHook(action[2]))
    BY <1>7 DEF vertSliderActionSlot
  <2> DEFINE row == sliderMovedHook(action[2])
  <2>2. row \in Nat
    <3>1. action[2] \in Int
      BY <1>2, <2>1, ActionsMoveByNumbers
    <3>2. mTableOffset + action[2] \in Int /\ mRowCount - 1 \in Int
      BY <1>2, <3>1 DEF BarFits, int_t
    <3> QED
      BY <3>2, BoundedProperties DEF sliderMovedHook
  <2>3. mTableOffset' = row /\ scroll' = SetValue(scroll, mRowCount, row) /\ UNCHANGED mRowCount
    BY <2>1 DEF setTableOffset
  <2> HIDE DEF row
  <2>4. BarFits(scroll, mRowCount)'
    BY <1>2, <2>2, <2>3, ValueFits
  <2> QED
    BY <1>7, <2>2, <2>3, <2>4, MouseUntouched DEF vertSliderActionSlot
<1>8. ASSUME NEW n \in Regions, stateChangedSlot(n)
      PROVE  RowsKept'
  <2>1. scroll' = WithRange(n) /\ mRowCount' = n /\ UNCHANGED mTableOffset /\ n \in int_t
    BY <1>8, DumpAssumption DEF stateChangedSlot, setRowCount
  <2>2. BarFits(scroll, mRowCount)'
    BY <1>2, <2>1, RangeFits
  <2> QED
    BY <1>2, <1>8, <2>1, <2>2, MouseUntouched DEF stateChangedSlot
<1>9. ASSUME NEW size \in DumpSize, NEW rva \in 0 .. size - 1, printDumpAt(size, rva)
      PROVE  RowsKept'
  <2> DEFINE count == size \div mDumpByteWidth
             row == rva \div mDumpByteWidth
  <2>1. count \in int_t /\ row \in Nat
    BY DumpAssumption, LinesOfBytes
  <2>2. mRowCount' = count /\ mTableOffset' = row /\ scroll' = SetValue(WithRange(count), count, row)
    BY <1>9 DEF printDumpAt, ShowRow
  <2> HIDE DEF count, row
  <2>3. BarFits(WithRange(count), count)
    BY <1>2, <2>1, RangeFits
  <2>4. BarFits(scroll, mRowCount)'
    BY <2>1, <2>2, <2>3, ValueFits
  <2> QED
    BY <1>9, <2>1, <2>2, <2>4, MouseUntouched DEF printDumpAt
<1>10. CASE UNCHANGED rowVars
  <2>1. UNCHANGED <<columns, mGuiState, mouse, dump, mSelection, rows>>
    BY <1>10 DEF rowVars, tableVars
  <2>2. BarFits(scroll, mRowCount)' /\ mTableOffset' \in Nat
    BY <1>2, <2>1 DEF rows, BarFits
  <2> QED
    BY <2>1, <2>2, MouseUntouched
<1> QED
  BY <1>4, <1>5, <1>6, <1>7, <1>8, <1>9, <1>10 DEF RowNext

\* In the beginning it holds.
LEMMA BeginningKeepsRows == RowInit => RowsKept
<1> SUFFICES ASSUME RowInit
             PROVE  RowsKept
  OBVIOUS
<1>1. ColumnsKept /\ BarFits(scroll, mRowCount)
  BY BeginningKeepsColumns, BeginningFits DEF RowInit
<1> QED
  BY <1>1 DEF RowInit, TableInit, RowsKept, SelectionIsRange, Single

\* Columns are resized only while the handle is shown; rows are selected, columns
\* resized and headers pressed only while the button is held.
THEOREM DragsAreHeld == RowSpec => []DragIsHeld
<1>1. RowsKept => DragIsHeld
  BY DEF RowsKept, ColumnsKept, MouseKept
<1> QED
  BY <1>1, BeginningKeepsRows, EventKeepsRows, PTL DEF RowSpec

\* The states of the table that occur are those of its variables' types.
THEOREM RowsTypeCorrect == RowSpec => []RowTypeOK
<1>1. RowsKept => RowTypeOK
  BY DEF RowsKept, ColumnsKept, BarFits, WideEnough, MouseKept, GuiState, RowTypeOK, TableTypeOK, int_t
<1> QED
  BY <1>1, BeginningKeepsRows, EventKeepsRows, PTL DEF RowSpec

\* The selection is a range of rows with the row where it began at one end, whatever
\* the mouse, the slider and the debugger do in between.
THEOREM SelectionStaysRange == RowSpec => []SelectionIsRange
<1>1. RowsKept => SelectionIsRange
  BY DEF RowsKept
<1> QED
  BY <1>1, BeginningKeepsRows, EventKeepsRows, PTL DEF RowSpec

\* While the handle is announced there is a border under the pointer, and a press
\* resizes the column on its left, which exists.
THEOREM HandleHasColumn == RowSpec => []ReadyHasColumn
<1>1. RowsKept => ReadyHasColumn
  BY KeptColumnsAreReady DEF RowsKept
<1> QED
  BY <1>1, BeginningKeepsRows, EventKeepsRows, PTL DEF RowSpec

\* Every position of the slider shows a row, its end the last one, and the slider stays
\* where it was dragged or one short of it: for a table of any number of rows that an
\* int_t holds, and an int of any width.
THEOREM SliderAlwaysReaches == RowSpec => []SliderReachesTable
<1>1. RowsKept => SliderReachesTable
  BY FittingBarReaches DEF RowsKept
<1> QED
  BY <1>1, BeginningKeepsRows, EventKeepsRows, PTL DEF RowSpec
=============================================================================
