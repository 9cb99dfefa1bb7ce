------------------------------ MODULE RowView ------------------------------
(***************************************************************************)
(* The tables of rows: the memory map (StdTable, MemoryMapView), filled    *)
(* whenever the debuggee pauses, and the dump (HexDump), moved whenever    *)
(* the debugger shows an address.  Their mouse handlers are the same but   *)
(* for the selection of several rows, which the memory map does not allow. *)
(* A paint reads this state and changes nothing that a handler reads.      *)
(***************************************************************************)
EXTENDS TableView

CONSTANTS
  Regions,      \* numbers of regions of the debuggee when it pauses
  DumpSize,     \* sizes in bytes of the region of an address shown in the dump
  mDumpByteWidth

ASSUME DumpAssumption ==
  Regions \subseteq int_t /\ DumpSize \subseteq int_t /\ mDumpByteWidth \in Nat \ {0}

VARIABLES
  dump,         \* the table is the dump, and not the memory map
  mSelection

rowVars == <<tableVars, dump, mSelection>>

Single(i) == [firstSelectedIndex |-> i, fromIndex |-> i, toIndex |-> i]

RowInit == TableInit /\ dump \in BOOLEAN /\ mSelection = Single(0)

-----------------------------------------------------------------------------
\* Mutant of expandSelectionUpTo: the other end stays where it was.
expandSelectionOneEnd(to) ==
  IF to < mSelection.firstSelectedIndex
  THEN [mSelection EXCEPT !.fromIndex = to]
  ELSE [mSelection EXCEPT !.toIndex = to]

\* At the row where the selection began nothing changes.
expandSelectionUpTo(to) ==
  LET first == mSelection.firstSelectedIndex IN
  CASE to < first -> [mSelection EXCEPT !.fromIndex = to, !.toIndex = first]
    [] to > first -> [mSelection EXCEPT !.fromIndex = first, !.toIndex = to]
    [] OTHER -> mSelection

RowAt(y) == mTableOffset + getIndexOffsetFromY(transY(y))

mouseMoveEvent(x, y) ==
  /\ Moved(x, y)
  /\ IF mGuiState = "MultiRowsSelectionState" /\ InTable(y) /\ RowAt(y) < mRowCount
     THEN /\ mSelection' = IF dump THEN expandSelectionUpTo(RowAt(y)) ELSE Single(RowAt(y))
          /\ UNCHANGED <<mGuiState, columns>>
     ELSE TableMouseMove(x) /\ UNCHANGED mSelection
  /\ UNCHANGED <<rows, dump>>

mousePressEvent ==
  LET x == pointer[1]
      y == pointer[2]
  IN
  /\ Pressed
  /\ IF mGuiState = "NoState" /\ y > HeaderHeight /\ RowAt(y) < mRowCount
     THEN /\ mSelection' = Single(RowAt(y))
          /\ mGuiState' = "MultiRowsSelectionState"
          /\ UNCHANGED columns
     ELSE TableMousePress(x, y) /\ UNCHANGED mSelection
  /\ UNCHANGED <<rows, dump>>

mouseReleaseEvent ==
  /\ Released
  /\ IF mGuiState = "MultiRowsSelectionState"
     THEN mGuiState' = "NoState" /\ UNCHANGED columns
     ELSE TableMouseRelease
  /\ UNCHANGED <<rows, dump, mSelection>>

\* vertSliderActionSlot, for the bar, the wheel and the keys.
vertSliderActionSlot ==
  /\ \E action \in SliderAction : setTableOffset(sliderMovedHook(action[2]))
  /\ UNCHANGED <<columns, mGuiState, mouse, dump, mSelection>>

\* MemoryMapView: neither the position nor the selection follows the rows.
stateChangedSlot(n) ==
  /\ ~dump
  /\ setRowCount(n)
  /\ UNCHANGED <<columns, mGuiState, mouse, dump, mSelection>>

\* HexDump: bytes behind the last full row are not shown.
printDumpAt(size, rva) ==
  /\ dump
  /\ ShowRow(size \div mDumpByteWidth, rva \div mDumpByteWidth)
  /\ UNCHANGED <<columns, mGuiState, mouse, dump, mSelection>>

RowNext ==
  \/ \E p \in Positions : mouseMoveEvent(p[1], p[2])
  \/ mousePressEvent
  \/ mouseReleaseEvent
  \/ vertSliderActionSlot
  \/ \E n \in Regions : stateChangedSlot(n)
  \/ \E size \in DumpSize : \E rva \in 0 .. size - 1 : printDumpAt(size, rva)

RowSpec == RowInit /\ [][RowNext]_rowVars

-----------------------------------------------------------------------------
(* Properties.                                                              *)

RowTypeOK ==
  /\ TableTypeOK /\ mTableOffset >= 0
  /\ dump \in BOOLEAN
  /\ mSelection \in [firstSelectedIndex : Int, fromIndex : Int, toIndex : Int]
  /\ mGuiState \in {"NoState", "ReadyToResize", "ResizeColumnState", "HeaderButtonPressed",
                    "MultiRowsSelectionState"}

\* The selection is a range with the row where it began at one end, even if rows
\* come and go or the table is scrolled while the mouse is held.
SelectionIsRange ==
  LET s == mSelection IN
  /\ 0 <= s.fromIndex /\ s.fromIndex <= s.toIndex
  /\ s.firstSelectedIndex \in {s.fromIndex, s.toIndex}
=============================================================================
