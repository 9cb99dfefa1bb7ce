----------------------------- MODULE TableView -----------------------------
(***************************************************************************)
(* AbstractTableView, the base of the tables of the GUI: the columns and   *)
(* the mouse on their borders and headers, the vertical scroll bar and its *)
(* scaling in the 64-bit build, and the lines that a paint prepares.       *)
(*                                                                         *)
(* The classes derived from it (RowView, Disassembly) handle an event of   *)
(* the mouse themselves or pass it on to the handler here; all of this     *)
(* runs in the GUI thread, one event at a time.  QScrollBar is external:   *)
(* `scroll` holds what the code reads of it.  The right button is left out *)
(* (the handlers ignore it) and so are the size changes of the window.  A   *)
(* header that is pressed is drawn so and signals its press and release;   *)
(* nothing receives these, and only the state of the mouse is kept here.   *)
(***************************************************************************)
EXTENDS Integers, FiniteSetsExt

CONSTANTS
  ColumnCount,
  MinWidth,     \* smallest width of a column that is resized: 20
  Grip,         \* pixels beside a border that take hold of it: 2
  Width, Height, HeaderHeight, RowHeight,
  FirstWidth,   \* width of the columns in the beginning
  Inside,       \* positions <<x, y>> of the pointer in the table
  Outside,      \* positions while a button is held
  IntMax,       \* 0x7FFFFFFF
  IntBits,      \* 32
  Win64         \* the 64-bit build

ASSUME SizesAssumption ==
  /\ ColumnCount \in Nat \ {0}
  /\ Grip \in Nat /\ MinWidth \in Nat /\ MinWidth > 2 * Grip
  /\ Width \in Int /\ FirstWidth \in Int /\ FirstWidth >= MinWidth
  /\ HeaderHeight \in Nat /\ RowHeight \in Nat \ {0} /\ Height \in Nat
ASSUME PointerAssumption == Inside \subseteq Int \X Int /\ Outside \subseteq Int \X Int
ASSUME IntAssumption ==
  /\ IntBits \in Nat \ {0, 1} /\ IntMax = 2 ^ (IntBits - 1) - 1
  /\ Win64 \in BOOLEAN

VARIABLES
  mTableOffset, mRowCount,
  scroll,       \* the scroll bar: is64, shift, max, value
  widths,       \* the width of each column; the last one takes what is left
  mGuiState,
  splitHandle,  \* the pointer has the shape that announces a resize
  resize,       \* mColResizeData: index and lastPosX
  pointer, left \* position of the mouse and state of its left button

rows == <<mTableOffset, mRowCount, scroll>>
columns == <<widths, splitHandle, resize>>
mouse == <<pointer, left>>
tableVars == <<rows, columns, mGuiState, mouse>>

\* The values of an int_t of the 64-bit build that are not negative.
int_t == 0 .. 2 ^ (2 * IntBits - 1) - 1

Column == 0 .. ColumnCount - 1
LastColumn == ColumnCount - 1

TableInit ==
  /\ mTableOffset = 0 /\ mRowCount = 0
  /\ scroll = [is64 |-> FALSE, shift |-> 0, max |-> 0, value |-> 0]
  /\ widths = [i \in Column |-> FirstWidth]
  /\ mGuiState = "NoState"
  /\ splitHandle = FALSE
  /\ resize = [index |-> 0, lastPosX |-> 0]
  /\ pointer \in Inside /\ left = FALSE

-----------------------------------------------------------------------------
(* Columns.                                                                 *)

\* The border on the right of column i: its position and width follow.
Border(i) == IF i = LastColumn THEN Width ELSE
  LET sum[k \in 0 .. i] == widths[k] + IF k = 0 THEN 0 ELSE sum[k - 1] IN sum[i]

getColumnPosition(i) == IF i = 0 THEN 0 ELSE Border(i - 1)
getColumnWidth(i) ==
  IF i < 0 THEN -1 ELSE IF i < LastColumn THEN widths[i] ELSE Width - getColumnPosition(i)

getColumnIndexFromX(x) ==
  IF \E i \in Column : x <= Border(i)
  THEN CHOOSE i \in Column : x <= Border(i) /\ \A j \in 0 .. i - 1 : x > Border(j)
  ELSE LastColumn

\* A border that can be dragged is within reach of x.
OnGrip(x) ==
  LET i == getColumnIndexFromX(x) IN
  \/ i # 0 /\ getColumnPosition(i) <= x /\ x <= getColumnPosition(i) + Grip
  \/ i # LastColumn /\ Border(i) - Grip <= x /\ x <= Border(i)

\* The column that a press at x begins to resize.
ColumnGripped(x) ==
  LET i == getColumnIndexFromX(x) IN IF x <= getColumnPosition(i) + Grip THEN i - 1 ELSE i

OnHeader(y) == 0 <= y /\ y <= HeaderHeight

-----------------------------------------------------------------------------
(* The mouse.                                                               *)

ColumnResized(x) == Max({MinWidth, getColumnWidth(resize.index) + x - resize.lastPosX})

\* Mutant of HandleShown: that the pointer leaves the border is not noticed.
HandleShownForEver(x) ==
  IF ~left /\ OnGrip(x) /\ ~splitHandle
  THEN /\ splitHandle' = TRUE
       /\ mGuiState' = "ReadyToResize"
       /\ UNCHANGED <<widths, resize>>
  ELSE UNCHANGED <<mGuiState, columns>>

\* NoState and ReadyToResize: the handle is shown over a border, and hidden elsewhere.
HandleShown(x) ==
  IF ~left /\ OnGrip(x) # splitHandle
  THEN /\ splitHandle' = OnGrip(x)
       /\ mGuiState' = IF OnGrip(x) THEN "ReadyToResize" ELSE "NoState"
       /\ UNCHANGED <<widths, resize>>
  ELSE UNCHANGED <<mGuiState, columns>>

\* Where QList::operator[] has no element the behaviour is undefined: left out.
ColumnDragged(x) ==
  /\ resize.index \in Column
  /\ widths' = [widths EXCEPT ![resize.index] = ColumnResized(x)]
  /\ resize' = [resize EXCEPT !.lastPosX = x]
  /\ UNCHANGED <<mGuiState, splitHandle>>

TableMouseMove(x) ==
  CASE mGuiState \in {"NoState", "ReadyToResize"} -> HandleShown(x)
    [] mGuiState = "ResizeColumnState" -> ColumnDragged(x)
    [] OTHER -> UNCHANGED <<mGuiState, columns>>

TableMousePress(x, y) ==
  IF splitHandle
  THEN /\ mGuiState' = "ResizeColumnState"
       /\ resize' = [index |-> ColumnGripped(x), lastPosX |-> x]
       /\ UNCHANGED <<widths, splitHandle>>
  ELSE IF OnHeader(y)
  THEN mGuiState' = "HeaderButtonPressed" /\ UNCHANGED columns
  ELSE UNCHANGED <<mGuiState, columns>>

\* Mutant of TableMouseRelease: only a resize ends.
TableMouseReleaseResizeOnly ==
  /\ mGuiState' = IF mGuiState = "ResizeColumnState" THEN "NoState" ELSE mGuiState
  /\ UNCHANGED columns

TableMouseRelease ==
  /\ mGuiState' = IF mGuiState \in {"ResizeColumnState", "HeaderButtonPressed"}
                  THEN "NoState" ELSE mGuiState
  /\ UNCHANGED columns

-----------------------------------------------------------------------------
(* The scroll bar.                                                          *)

Bounded(v, max) == Max({0, Min({v, max})})

\* 32 less the leading zeros of a 64-bit count.
ShiftFor(count) ==
  (CHOOSE b \in 0 .. 2 * IntBits : 2 ^ b > count /\ (b = 0 \/ 2 ^ (b - 1) <= count)) - IntBits

\* updateScrollBarRange: an empty table leaves the scroll bar alone.
WithRange(count) ==
  IF count <= 0 THEN scroll
  ELSE LET big == Win64 /\ count > IntMax
           max == IF big THEN IntMax ELSE count
       IN  [is64 |-> big, shift |-> IF big THEN ShiftFor(count) ELSE 0,
            max |-> max, value |-> Bounded(scroll.value, max)]

Signed(v) == LET m == v % 2 ^ IntBits IN IF m > IntMax THEN m - 2 ^ IntBits ELSE m

\* Position of the slider for a row, with bar s of a table of `count` rows.  The bar
\* of a table that has been emptied still has its scale.
scaleFromUint64ToScrollBarRange(s, count, row) ==
  LET scaled == s.max * (row \div 2 ^ s.shift)
  IN  IF ~s.is64 THEN row
      ELSE IF row = count - 1 THEN s.max
      ELSE IF count = 0 THEN Signed(0 - scaled)
      ELSE scaled \div ((count - 1) \div 2 ^ s.shift)

\* Mutant of scaleFromScrollBarRangeToUint64: the slider at its end is scaled as well.
ScaleWithoutEnd(s, count, pos) ==
  IF ~s.is64 THEN pos
  ELSE IF count = 0 THEN 0
  ELSE ((((count - 1) \div 2 ^ s.shift) * pos) \div IntMax) * 2 ^ s.shift

scaleFromScrollBarRangeToUint64(s, count, pos) ==
  IF ~s.is64 THEN pos
  ELSE IF pos = IntMax THEN count - 1
  ELSE IF count = 0 THEN 0
  ELSE ((((count - 1) \div 2 ^ s.shift) * pos) \div IntMax) * 2 ^ s.shift

SetValue(s, count, row) ==
  [s EXCEPT !.value = Bounded(scaleFromUint64ToScrollBarRange(s, count, row), s.max)]

\* setTableOffset, and the end of vertSliderActionSlot.
setTableOffset(row) ==
  /\ mTableOffset' = row
  /\ scroll' = SetValue(scroll, mRowCount, row)
  /\ UNCHANGED mRowCount

setRowCount(count) ==
  /\ mRowCount' = count
  /\ scroll' = WithRange(count)
  /\ UNCHANGED mTableOffset

\* setRowCount(count) followed by setTableOffset(row).
ShowRow(count, row) ==
  /\ mRowCount' = count
  /\ mTableOffset' = row
  /\ scroll' = SetValue(WithRange(count), count, row)

\* The actions of a scroll bar, with the delta that vertSliderActionSlot hands to
\* sliderMovedHook: a step for a key or an arrow, three for the wheel or a page, and
\* for a drag to a position of the slider the distance in rows.
StepActions == {<<"SingleStep", 1>>, <<"SingleStep", -1>>}
PageActions == {<<"PageStep", 3>>, <<"PageStep", -3>>}
DistanceTo(pos) == scaleFromScrollBarRangeToUint64(scroll, mRowCount, pos) - mTableOffset

SliderAction ==
  StepActions \cup PageActions
    \cup {<<"SliderMove", DistanceTo(pos)>> : pos \in 0 .. scroll.max}
    \cup {<<"ToEnd", DistanceTo(pos)>> : pos \in {0, scroll.max}}

\* Mutant of sliderMovedHook: bounded above only.
sliderMovedHookAbove(delta) == Min({mTableOffset + delta, mRowCount - 1})

\* AbstractTableView::sliderMovedHook
sliderMovedHook(delta) == Bounded(mTableOffset + delta, mRowCount - 1)

-----------------------------------------------------------------------------
(* Painting.                                                                *)

getTableHeight == Height - HeaderHeight
getViewableRowsCount == (getTableHeight + RowHeight - 1) \div RowHeight
transY(y) == y - HeaderHeight
getIndexOffsetFromY(y) == y \div RowHeight
InTable(y) == 0 <= transY(y) /\ transY(y) <= getTableHeight

\* The lines that a paint shows; mShouldReload is set by the constructor and never
\* reset, so that every paint prepares them.
prepareData == Min({mRowCount - mTableOffset, getViewableRowsCount})

Moved(x, y) == pointer' = <<x, y>> /\ UNCHANGED left
Positions == IF left THEN Inside \cup Outside ELSE Inside
Pressed == ~left /\ pointer \in Inside /\ left' = TRUE /\ UNCHANGED pointer
Released == left /\ left' = FALSE /\ UNCHANGED pointer

-----------------------------------------------------------------------------
(* Properties.                                                              *)

TableTypeOK ==
  /\ mTableOffset \in Int /\ mRowCount \in Nat
  /\ scroll \in [is64 : BOOLEAN, shift : Int, max : Nat, value : Nat] /\ scroll.value <= scroll.max
  /\ widths \in [Column -> Int]
  /\ splitHandle \in BOOLEAN /\ left \in BOOLEAN
  /\ resize \in [index : Int, lastPosX : Int]
  /\ pointer \in Int \X Int

\* A drag is of one kind: columns are resized only while the handle is shown, and
\* rows are selected, columns resized or headers pressed only while a button is held.
DragIsHeld ==
  /\ mGuiState \in {"MultiRowsSelectionState", "ResizeColumnState", "HeaderButtonPressed"} => left
  /\ mGuiState \in {"ReadyToResize", "ResizeColumnState"} => splitHandle

\* While the pointer announces a resize there is a border under it, and a press
\* resizes the column on the left of that border, which exists: this needs the
\* smallest width that every earlier resize has left.
ReadyHasColumn ==
  mGuiState = "ReadyToResize" =>
    /\ splitHandle /\ OnGrip(pointer[1])
    /\ ColumnGripped(pointer[1]) \in Column \ {LastColumn}

\* A drag of the slider to any position shows a row of the table, the last one at the
\* end, and leaves the slider where it was dragged, or one short of it.
SliderReachesTable ==
  mRowCount > 0 =>
    \A pos \in 0 .. scroll.max :
      LET row == Bounded(scaleFromScrollBarRangeToUint64(scroll, mRowCount, pos), mRowCount - 1)
          back == scaleFromUint64ToScrollBarRange(scroll, mRowCount, row)
      IN  /\ pos = scroll.max => row = mRowCount - 1
          /\ back \in {pos, pos - 1}
=============================================================================
