---------------------------- MODULE Disassembly ----------------------------
(***************************************************************************)
(* The disassembly: a table whose rows are the bytes of a page, of which   *)
(* only those are shown where an instruction starts.  It walks forward     *)
(* and back over instructions of unknown length: to paint, for a key, for  *)
(* the slider, and when the debugger shows an address.                     *)
(*                                                                         *)
(* All handlers run in the GUI thread.  A slot that moves the table is     *)
(* painted later, so that the next handler may meet the lines of an older  *)
(* position, or of another page; a handler that repaints does so at once.  *)
(* mCipRva is left out, it is only painted.  The window shows at least two *)
(* lines.  `Code` is external: the decoder BeaEngine and the memory of the *)
(* debuggee, which does not change while its page is shown.                *)
(***************************************************************************)
EXTENDS TableView, SequencesExt

CONSTANTS
  Page,         \* pages of the debuggee; Unmapped stands for an address in none
  Unmapped,
  Code,         \* for each page, the length of the instruction at each of its bytes
  MaxLength,    \* 16
  MaxBack       \* 127

ASSUME CodeAssumption ==
  /\ MaxLength \in Nat \ {0} /\ MaxBack \in Nat \ {0}
  /\ Code \in [Page -> Seq(1 .. MaxLength)]
  /\ \A p \in Page : Len(Code[p]) \in int_t
  /\ Unmapped \in Page /\ Code[Unmapped] = <<>>
  /\ \A p \in Page \ {Unmapped} : Len(Code[p]) > MaxLength   \* 4096 bytes or more
ASSUME WindowAssumption == getViewableRowsCount >= 2

VARIABLES
  page,         \* mMemPage
  mSelection,
  mInstBuffer   \* rva and length of the lines painted; mNbrOfLineToPrint is its length

disVars == <<tableVars, page, mSelection, mInstBuffer>>

Size == Len(Code[page])

Single(i) == [firstSelectedIndex |-> i, fromIndex |-> i, toIndex |-> i]
getInitialSelection == mSelection.firstSelectedIndex

DisInit ==
  /\ TableInit
  /\ page = Unmapped /\ mSelection = Single(0) /\ mInstBuffer = <<>>

-----------------------------------------------------------------------------
(* Walking over instructions, in page p.                                    *)

\* Outside of the page, and in a debuggee that is gone, a byte reads as a nop.
LengthAt(p, rva) == IF rva \in 0 .. Len(Code[p]) - 1 THEN Code[p][rva + 1] ELSE 1

\* QBeaEngine::DisassembleNext over what is left of the page: the walk ends with it,
\* and the rest of an instruction that the page cuts off counts byte by byte.
NextLength(p, rva) ==
  IF rva >= Len(Code[p]) THEN 0
  ELSE IF rva + LengthAt(p, rva) > Len(Code[p]) THEN 1 ELSE LengthAt(p, rva)

getNextInstructionRVA(p, rva, count) ==
  LET walk[n \in 0 .. count] ==
        IF n = 0 THEN rva ELSE LET before == walk[n - 1] IN before + NextLength(p, before)
  IN  walk[count]

\* The addresses from which QBeaEngine::DisassembleBack looks for ip: it starts where
\* `count` instructions of the greatest length, and three more, would reach ip.
Sweep(p, ip, count) ==
  LET start == Max({0, ip - MaxLength * (count + 3)})
      at[n \in 0 .. ip] ==
        IF n = 0 THEN start
        ELSE LET a == at[n - 1] IN IF a < ip THEN a + LengthAt(p, a) ELSE a
  IN  {at[n] : n \in 0 .. ip}

\* getPreviousInstructionRVA.  Too close to the start of the page it does not move;
\* the bytes are read from `count` and three instructions before as well.
getPreviousInstructionRVA(p, ip, count) ==
  LET n == Min({count, MaxBack})
      before == {a \in Sweep(p, ip, n) : a < ip}
  IN  IF ip < n THEN ip
      ELSE IF Cardinality(before) < n THEN Min(before)
      ELSE CHOOSE a \in before : Cardinality({b \in before : b >= a}) = n

\* Mutant of getInstructionRVA: counts one instruction too many ahead.
OneInstructionMore(index, count) ==
  IF mRowCount = 0 THEN IF count = 0 /\ index < 0 THEN 0 ELSE -1
  ELSE LET addr == IF count = 0 THEN index
            ELSE IF count < 0 THEN getPreviousInstructionRVA(page, index, -count)
              ELSE getNextInstructionRVA(page, index, count + 1)
  IN  IF addr < 0 THEN 0 ELSE Min({addr, mRowCount - 1})

\* Mutant of getInstructionRVA: not bounded by the rows.
InstructionUnbounded(index, count) ==
  IF count = 0 THEN index
  ELSE IF count < 0 THEN getPreviousInstructionRVA(page, index, -count)
  ELSE getNextInstructionRVA(page, index, count)

\* Without rows every walk ends at -1.
getInstructionRVA(index, count) ==
  IF mRowCount = 0 THEN IF count = 0 /\ index < 0 THEN 0 ELSE -1
  ELSE LET addr == IF count = 0 THEN index
            ELSE IF count < 0 THEN getPreviousInstructionRVA(page, index, -count)
              ELSE getNextInstructionRVA(page, index, count)
  IN  IF addr < 0 THEN 0 ELSE Min({addr, mRowCount - 1})

\* A walk that starts before the page reads other memory, and one that starts behind
\* its end a negative number of bytes, which is undefined: these steps are left out.
Walks(rva) == mRowCount > 0 => rva \in 0 .. Size

-----------------------------------------------------------------------------
(* Painting.                                                                *)

\* The lines of page p from `offset`, as prepareData makes them: it counts them with
\* one walk and reads them with another, that knows the full length of each.
Lines(p, count, offset) ==
  LET Number == CHOOSE n \in 0 .. getViewableRowsCount :
        /\ n = getViewableRowsCount \/ NextLength(p, getNextInstructionRVA(p, offset, n)) = 0
        /\ \A k \in 0 .. n - 1 : NextLength(p, getNextInstructionRVA(p, offset, k)) # 0
      end[n \in 0 .. getViewableRowsCount] ==
        IF n = 0 THEN offset ELSE LET rva == end[n - 1] IN rva + LengthAt(p, rva)
  IN  IF count = 0 THEN <<>>
      ELSE [n \in 1 .. Number |-> [rva |-> end[n - 1], length |-> LengthAt(p, end[n - 1])]]

Rvas(buffer) == {line.rva : line \in ToSet(buffer)}

\* repaint, at the end of a handler
repaint == mInstBuffer' = Lines(page', mRowCount', mTableOffset')
repaintIf(painted) == IF painted THEN Walks(mTableOffset) /\ repaint ELSE UNCHANGED mInstBuffer

paintEvent ==
  /\ Walks(mTableOffset)
  /\ UNCHANGED <<tableVars, page, mSelection>>
  /\ repaint

-----------------------------------------------------------------------------
(* The mouse.                                                               *)

expandSelectionUpTo(to) ==
  LET first == getInitialSelection IN
  CASE to < first -> [mSelection EXCEPT !.fromIndex = to, !.toIndex = first]
    [] to > first -> [mSelection EXCEPT !.fromIndex = first, !.toIndex = to]
    [] OTHER -> mSelection

\* The line under y, bounded to the lines there are.  Where there are none the
\* behaviour of QList::at is undefined: left out.
LineAt(y) == mInstBuffer[Min({getIndexOffsetFromY(transY(y)), Len(mInstBuffer) - 1}) + 1]

mouseMoveEvent(x, y) ==
  /\ Moved(x, y)
  /\ UNCHANGED <<rows, page>>
  /\ IF mGuiState = "MultiRowsSelectionState" /\ InTable(y)
     THEN /\ mInstBuffer # <<>>
          /\ UNCHANGED <<mGuiState, columns>>
          /\ IF LineAt(y).rva < mRowCount
             THEN /\ mSelection' = expandSelectionUpTo(LineAt(y).rva)
                  /\ Walks(mTableOffset) /\ repaint
             ELSE UNCHANGED <<mSelection, mInstBuffer>>
     ELSE /\ TableMouseMove(x)
          /\ repaintIf(mGuiState \in {"ResizeColumnState", "HeaderButtonPressed"})
          /\ UNCHANGED mSelection

mousePressEvent ==
  LET x == pointer[1]
      y == pointer[2]
      rva == getInstructionRVA(mTableOffset, getIndexOffsetFromY(transY(y)))
  IN
  /\ Pressed
  /\ UNCHANGED <<rows, page>>
  /\ IF mGuiState = "NoState" /\ y > HeaderHeight /\ rva < mRowCount
     THEN /\ Walks(mTableOffset)
          /\ mSelection' = Single(rva)
          /\ mGuiState' = "MultiRowsSelectionState"
          /\ UNCHANGED columns
          /\ repaint
     ELSE /\ TableMousePress(x, y)
          /\ repaintIf(~splitHandle /\ OnHeader(y))
          /\ UNCHANGED mSelection

mouseReleaseEvent ==
  /\ Released
  /\ IF mGuiState = "MultiRowsSelectionState"
     THEN mGuiState' = "NoState" /\ UNCHANGED columns
     ELSE TableMouseRelease
  /\ UNCHANGED <<rows, page, mSelection>>
  /\ Walks(mTableOffset) /\ repaint

-----------------------------------------------------------------------------
(* The keys and the scroll bar.                                             *)

\* selectPrevious and selectNext
SelectionAfter(key) == getInstructionRVA(getInitialSelection, IF key = "Up" THEN -1 ELSE 1)

\* Mutant of OffsetAfter: one line too many above the selection.
OffsetAfterTooFar(key) ==
  LET sel == SelectionAfter(key)
      nbr == Len(mInstBuffer)
  IN  CASE sel < mTableOffset -> sel
        [] sel >= mTableOffset /\ sel >= getInstructionRVA(mTableOffset, nbr - 1) ->
             getInstructionRVA(sel, -nbr)
        [] OTHER -> mTableOffset

\* A selection above the lines comes first, one at or below the last line last but one.
OffsetAfter(key) ==
  LET sel == SelectionAfter(key)
      nbr == Len(mInstBuffer)
      botRVA == mTableOffset
      topRVA == getInstructionRVA(mTableOffset, nbr - 1)
  IN  CASE sel < botRVA -> sel
        [] sel >= botRVA /\ sel >= topRVA -> getInstructionRVA(sel, 2 - nbr)
        [] OTHER -> mTableOffset

keyPressEvent(key) ==
  /\ Walks(mTableOffset) /\ Walks(getInitialSelection)
  /\ mSelection' = Single(SelectionAfter(key))
  /\ IF OffsetAfter(key) = mTableOffset THEN UNCHANGED rows ELSE setTableOffset(OffsetAfter(key))
  /\ UNCHANGED <<columns, mGuiState, mouse, page>>
  /\ repaint

\* Disassembly::sliderMovedHook
InstructionMovedTo(type, delta) ==
  IF type = "SliderMove"
  THEN IF mTableOffset + delta > 0
       THEN getInstructionRVA(getInstructionRVA(mTableOffset + delta, -1), 1)
       ELSE 0
  ELSE getInstructionRVA(mTableOffset, delta)

\* vertSliderActionSlot
vertSliderActionSlot ==
  /\ Walks(mTableOffset)
  /\ \E action \in SliderAction :
       setTableOffset(InstructionMovedTo(action[1], action[2]))
  /\ UNCHANGED <<columns, mGuiState, mouse, page, mSelection, mInstBuffer>>

-----------------------------------------------------------------------------
(* The debugger.                                                            *)

\* Mutant of Among: an address above the lines counts as shown.
AmongOrAbove(rva) == mInstBuffer # <<>> /\ rva < Last(mInstBuffer).rva

Among(rva) ==
  mInstBuffer # <<>> /\ Head(mInstBuffer).rva <= rva /\ rva < Last(mInstBuffer).rva

\* An address among the lines is painted at once, where the table stands; for the one
\* of the last line the table moves by a line, for any other one to it.
disassambleAt(p, rva) ==
  /\ page' = p
  /\ mSelection' = Single(rva)
  /\ UNCHANGED <<columns, mGuiState, mouse>>
  /\ IF Among(rva)
     THEN /\ mTableOffset \in 0 .. Len(Code[p])
          /\ setRowCount(Len(Code[p]))
          /\ repaint
     ELSE /\ ShowRow(Len(Code[p]),
                    IF mInstBuffer # <<>> /\ rva = Last(mInstBuffer).rva
                    THEN Head(mInstBuffer).rva + Head(mInstBuffer).length
                    ELSE rva)
          /\ UNCHANGED mInstBuffer

\* debugStateChangedSlot when the debuggee stops: disassembleClear
disassembleClear ==
  /\ setRowCount(0)
  /\ UNCHANGED <<columns, mGuiState, mouse, page, mSelection>>
  /\ repaint

DisNext ==
  \/ \E p \in Positions : mouseMoveEvent(p[1], p[2])
  \/ mousePressEvent
  \/ mouseReleaseEvent
  \/ \E key \in {"Up", "Down"} : keyPressEvent(key)
  \/ vertSliderActionSlot
  \/ \E p \in Page : \E rva \in 0 .. Max({0, Len(Code[p]) - 1}) : disassambleAt(p, rva)
  \/ disassembleClear
  \/ paintEvent

DisSpec == DisInit /\ [][DisNext]_disVars

-----------------------------------------------------------------------------
(* Properties.                                                              *)

\* The rows of the pages, and -1, which is the row of an empty table.
AnyRow == {-1, 0} \cup UNION {0 .. Len(Code[p]) - 1 : p \in Page}

\* The second line, where the debugger puts the table, may start behind the end of a
\* page that cuts the first line off.
DisTypeOK ==
  /\ TableTypeOK /\ \E row \in AnyRow, length \in 0 .. MaxLength : mTableOffset = row + length
  /\ page \in Page
  /\ mSelection \in [firstSelectedIndex : AnyRow, fromIndex : AnyRow, toIndex : AnyRow]
  /\ mInstBuffer \in Seq([rva : Nat, length : 1 .. MaxLength])
  /\ mGuiState \in {"NoState", "ReadyToResize", "ResizeColumnState", "HeaderButtonPressed",
                    "MultiRowsSelectionState"}

\* The lines are those of the position: nothing has moved since they were painted.
Painted ==
  mRowCount > 0 /\ mTableOffset \in 0 .. Size - 1 /\ mInstBuffer = Lines(page, mRowCount, mTableOffset)

\* The line of the mouse, found by counting instructions, and the line drawn there are
\* the same, up to a line that the end of the page cuts off.
LinesAgree ==
  Painted =>
    \A i \in 1 .. Len(mInstBuffer) :
      (i = 1 \/ mInstBuffer[i].rva < Size) => getInstructionRVA(mTableOffset, i - 1) = mInstBuffer[i].rva

\* The starts of the instructions of page p, and that a walk back from each meets them.
Starts(p) == {getNextInstructionRVA(p, 0, n) : n \in 0 .. Len(Code[p])} \ {Len(Code[p])}
InStep(p) ==
  /\ \A rva \in Starts(p) : rva + LengthAt(p, rva) <= Len(Code[p])
  /\ \A rva \in Starts(p), n \in 1 .. MaxBack :
       rva < n \/ getPreviousInstructionRVA(p, rva, n) \in Starts(p)

\* A key that moves the selection from a line to another instruction leaves it among
\* the lines.
KeyShowsSelection ==
  [][\A key \in {"Up", "Down"} :
       /\ keyPressEvent(key)
       /\ Painted /\ mTableOffset \in Starts(page) /\ InStep(page)
       /\ getInitialSelection \in Rvas(mInstBuffer)
       /\ SelectionAfter(key) \in Starts(page)
       => SelectionAfter(key) \in Rvas(mInstBuffer')]_disVars

\* An address that the debugger shows, in the page that is shown, is among the lines:
\* the code misses this for an address inside of a line, for lines that are not painted
\* yet, and where there is one line only.
AddressIsShown ==
  [][\A rva \in 0 .. Size - 1 :
       /\ disassambleAt(page, rva)
       /\ mInstBuffer = <<>> \/ Painted
       /\ Len(mInstBuffer) # 1
       /\ \A line \in ToSet(mInstBuffer) : rva \notin line.rva + 1 .. line.rva + line.length - 1
       => rva \in Rvas(Lines(page, Size, mTableOffset'))]_disVars
=============================================================================
