--------------------------- MODULE TableView_proofs ---------------------------
(***************************************************************************)
(* What holds of every table, for any columns, rows and positions of the   *)
(* pointer: where the borders of the columns are and which column a border *)
(* belongs to, what the state of the mouse means, and that the scroll bar  *)
(* is scaled so that the slider reaches every row.  RowView_proofs and     *)
(* Disassembly_proofs show that their events keep it.                      *)
(***************************************************************************)
EXTENDS TableView, DataLemmas

-----------------------------------------------------------------------------
(* Columns.                                                                 *)

\* Every column has a border, at the sum of the widths up to it.
LEMMA BordersAreNumbers ==
  ASSUME widths \in [Column -> Int], NEW i \in Column
  PROVE  /\ Border(i) \in Int
         /\ i = 0 /\ i # LastColumn => Border(i) = widths[0]
<1>1. CASE i = LastColumn
  BY <1>1, SizesAssumption DEF Border
<1>2. CASE i # LastColumn
  <2> DEFINE Sums(f) == f = [k \in 0 .. i |-> widths[k] + IF k = 0 THEN 0 ELSE f[k - 1]]
             step == [p \in (1 .. i) \X Int |-> widths[p[1]] + p[2]]
             sum == CHOOSE f : Sums(f)
  <2>1. i \in Nat /\ \A k \in 0 .. i : widths[k] \in Int
    BY SizesAssumption DEF Column
  <2>2. step \in [(1 .. i) \X Int -> Int]
    BY <2>1
  <2>3. PICK f \in [0 .. i -> Int] : Recurs(f, i, widths[0], step)
    <3> HIDE DEF step
    <3>1. widths[0] \in Int
      BY <2>1
    <3> QED
      BY <2>1, <2>2, <3>1, RecursionOnRange
  <2>4. Sums(f)
    <3>1. ASSUME NEW k \in 0 .. i
          PROVE  f[k] = widths[k] + IF k = 0 THEN 0 ELSE f[k - 1]
      <4>1. CASE k = 0
        BY <2>1, <2>3, <4>1 DEF Recurs
      <4>2. CASE k # 0
        <5>1. k \in 1 .. i /\ k - 1 \in 0 .. i
          BY <2>1, <4>2
        <5>2. f[k] = step[<<k, f[k - 1]>>] /\ f[k - 1] \in Int
          BY <2>3, <4>2, <5>1 DEF Recurs
        <5> QED
          BY <4>2, <5>1, <5>2
      <4> QED
        BY <4>1, <4>2
    <3> QED
      BY <2>3, <3>1 DEF Recurs
  <2>5. Sums(sum)
    <3> HIDE DEF Sums
    <3> QED
      BY <2>4
  <2>6. Border(i) = sum[i]
    BY <1>2 DEF Border
  <2> HIDE DEF sum
  <2>7. \A k \in 0 .. i : sum[k] = widths[k] + IF k = 0 THEN 0 ELSE sum[k - 1]
    BY <2>5
  <2> DEFINE T == {k \in 0 .. i : sum[k] \notin Int}
  <2>8. ASSUME T # {}
        PROVE  FALSE
    <3>1. T \in SUBSET Nat
      BY <2>1
    <3>2. PICK k \in T : \A l \in T : k <= l
      <4> HIDE DEF T
      <4> QED
        BY <2>8, <3>1, LeastNumber
    <3>3. k # 0 => sum[k - 1] \in Int
      BY <2>1, <3>2
    <3>4. k \in 0 .. i /\ sum[k] \notin Int /\ widths[k] \in Int
      BY <2>1
    <3>5. sum[k] = widths[k] + IF k = 0 THEN 0 ELSE sum[k - 1]
      BY <2>7, <3>4
    <3> QED
      BY <3>3, <3>4, <3>5
  <2>9. sum[i] \in Int
    BY <2>1, <2>8
  <2>10. i = 0 => sum[i] = widths[0]
    BY <2>1, <2>7
  <2> QED
    BY <2>6, <2>9, <2>10
<1> QED
  BY <1>1, <1>2

\* A position belongs to the first column whose border is not before it.
LEMMA IndexIsAColumn ==
  ASSUME widths \in [Column -> Int], NEW x \in Int
  PROVE  LET i == getColumnIndexFromX(x) IN
         /\ i \in Column
         /\ x <= Border(i) \/ i = LastColumn
<1> DEFINE T == {i \in Column : x <= Border(i)}
<1>1. CASE T # {}
  <2>1. T \in SUBSET Nat
    BY SizesAssumption DEF Column
  <2>2. PICK i \in T : \A j \in T : i <= j
    <3> HIDE DEF T
    <3> QED
      BY <1>1, <2>1, LeastNumber
  <2>3. ASSUME NEW j \in 0 .. i - 1
        PROVE  x > Border(j)
    <3>1. j \in Column /\ ~ (i <= j)
      BY SizesAssumption DEF Column
    <3>2. ~ (x <= Border(j))
      BY <2>2, <3>1
    <3> QED
      BY <3>1, <3>2, BordersAreNumbers
  <2>4. i \in Column /\ x <= Border(i) /\ \A j \in 0 .. i - 1 : x > Border(j)
    BY <2>3
  <2> DEFINE First(c) == c \in Column /\ x <= Border(c) /\ \A j \in 0 .. c - 1 : x > Border(j)
  <2>5. First(CHOOSE c \in Column : x <= Border(c) /\ \A j \in 0 .. c - 1 : x > Border(j))
    BY <2>4
  <2> QED
    BY <1>1, <2>5 DEF getColumnIndexFromX
<1>2. CASE T = {}
  BY <1>2, SizesAssumption DEF getColumnIndexFromX, Column, LastColumn
<1> QED
  BY <1>1, <1>2

\* Columns that have at least the smallest width.
WideEnough == widths \in [Column -> Int] /\ \A i \in Column : widths[i] >= MinWidth

\* Under the handle is the border of a column, and not that of the last one.
LEMMA GripHasColumn ==
  ASSUME WideEnough, NEW x \in Int
  PROVE  /\ ColumnGripped(x) \in Int
         /\ OnGrip(x) => ColumnGripped(x) \in Column \ {LastColumn}
<1> DEFINE i == getColumnIndexFromX(x)
<1>1. i \in Column
  BY IndexIsAColumn DEF WideEnough
<1> HIDE DEF i
<1>2. ColumnGripped(x) = IF x <= getColumnPosition(i) + Grip THEN i - 1 ELSE i
  BY DEF ColumnGripped, i
<1>3. ASSUME OnGrip(x)
      PROVE  \/ i # 0 /\ getColumnPosition(i) <= x /\ x <= getColumnPosition(i) + Grip
             \/ i # LastColumn /\ Border(i) - Grip <= x /\ x <= Border(i)
  BY <1>3 DEF OnGrip, i
<1>4. ASSUME i = 0, i # LastColumn, Border(i) - Grip <= x
      PROVE  ~ (x <= getColumnPosition(i) + Grip)
  <2>1. Border(i) = widths[0] /\ widths[0] \in Int /\ widths[0] >= MinWidth
    BY <1>1, <1>4, BordersAreNumbers DEF WideEnough
  <2> QED
    BY <1>4, <2>1, SizesAssumption DEF getColumnPosition
<1>5. i \in Int /\ ColumnGripped(x) \in Int
  BY <1>1, <1>2, SizesAssumption DEF Column
<1>6. ASSUME OnGrip(x)
      PROVE  ColumnGripped(x) \in Column \ {LastColumn}
  <2>1. CASE x <= getColumnPosition(i) + Grip
    <3>1. i # 0
      BY <1>3, <1>4, <1>6, <2>1
    <3> QED
      BY <1>1, <1>2, <2>1, <3>1, SizesAssumption DEF Column, LastColumn
  <2>2. CASE ~ (x <= getColumnPosition(i) + Grip)
    BY <1>1, <1>2, <1>3, <1>6, <2>2
  <2> QED
    BY <2>1, <2>2
<1> QED
  BY <1>5, <1>6

\* Where the borders are depends on nothing but the widths.
LEMMA GripOfWidths ==
  ASSUME UNCHANGED widths, NEW x
  PROVE  OnGrip(x)' <=> OnGrip(x)
  BY DEF OnGrip, getColumnIndexFromX, getColumnPosition, Border

-----------------------------------------------------------------------------
(* The scroll bar.                                                          *)

\* A bounded number is within its bounds, and within them it is what it was.
LEMMA BoundedProperties ==
  ASSUME NEW v \in Int, NEW max \in Int
  PROVE  /\ Bounded(v, max) \in Nat
         /\ max >= 0 => Bounded(v, max) <= max
         /\ max >= 0 /\ v >= max => Bounded(v, max) = max
         /\ v \in 0 .. max => Bounded(v, max) = v
<1> DEFINE low == Min({v, max})
<1>1. low = IF v <= max THEN v ELSE max
  BY DEF Min
<1> HIDE DEF low
<1>2. Max({0, low}) = IF low >= 0 THEN low ELSE 0
  BY <1>1 DEF Max
<1>3. Bounded(v, max) = Max({0, low})
  BY DEF Bounded, low
<1> QED
  BY <1>1, <1>2, <1>3

\* An int has positive values.
LEMMA IntMaxIsPositive == IntMax \in Nat \ {0}
<1> DEFINE p == 2 ^ (IntBits - 2)
<1>1. IntBits - 2 \in Nat /\ IntBits - 1 = (IntBits - 2) + 1
  BY IntAssumption
<1>2. p \in Nat \ {0} /\ 2 ^ (IntBits - 1) = 2 * p
  BY <1>1, PowersOfTwo
<1> HIDE DEF p
<1> QED
  BY <1>2, IntAssumption

\* A table that is too large for the scroll bar is scaled so that the rows are at
\* least as many as the positions of the slider.
LEMMA BigTablesAreScaled ==
  ASSUME NEW count \in int_t, count > IntMax
  PROVE  /\ ShiftFor(count) \in Nat
         /\ (count - 1) \div 2 ^ ShiftFor(count) >= IntMax
<1> DEFINE top == 2 ^ (IntBits - 1)
           Fits(b) == 2 ^ b > count /\ (b = 0 \/ 2 ^ (b - 1) <= count)
           T == {b \in 0 .. 2 * IntBits : 2 ^ b > count}
<1>1. /\ IntBits \in Nat \ {0, 1} /\ IntBits - 1 \in Nat /\ top \in Nat \ {0}
      /\ IntMax = top - 1 /\ count \in Nat
  BY IntAssumption, PowersOfTwo DEF int_t
<1>2. 2 * IntBits - 1 \in T
  <2>1. 2 * IntBits - 1 \in Nat
    BY <1>1
  <2>2. 2 ^ (2 * IntBits - 1) \in Nat
    BY <2>1, PowersOfTwo
  <2>3. count < 2 ^ (2 * IntBits - 1)
    BY <2>2 DEF int_t
  <2> QED
    BY <1>1, <2>1, <2>2, <2>3
<1>3. \E b \in 0 .. 2 * IntBits : Fits(b)
  <2>1. T \in SUBSET Nat
    BY <1>1
  <2>2. PICK b \in T : \A c \in T : b <= c
    <3> HIDE DEF T
    <3> QED
      BY <1>2, <2>1, LeastNumber
  <2>3. ASSUME b # 0
        PROVE  2 ^ (b - 1) <= count
    <3>1. b - 1 \in 0 .. 2 * IntBits /\ ~ (b <= b - 1)
      BY <1>1, <2>1, <2>3
    <3>2. 2 ^ (b - 1) \in Nat
      BY <1>1, <3>1, PowersOfTwo
    <3> QED
      BY <1>1, <2>2, <3>1, <3>2
  <2> QED
    BY <2>3
<1> DEFINE b == CHOOSE b \in 0 .. 2 * IntBits : Fits(b)
<1>4. b \in 0 .. 2 * IntBits /\ Fits(b)
  <2> HIDE DEF Fits
  <2> QED
    BY <1>3
<1>5. ShiftFor(count) = b - IntBits
  BY DEF ShiftFor
<1> HIDE DEF b
<1>6. b \in Nat
  BY <1>1, <1>4
<1>7. b >= IntBits
  <2> SUFFICES ASSUME b <= IntBits - 1
               PROVE  FALSE
    BY <1>1, <1>6
  <2> DEFINE k == (IntBits - 1) - b
             p == 2 ^ b
  <2>1. k \in Nat /\ b + k = IntBits - 1
    BY <1>1, <1>6
  <2>2. p \in Nat /\ 2 ^ k \in Nat \ {0} /\ top = p * 2 ^ k
    BY <1>6, <2>1, PowersOfTwo, PowersMultiply
  <2>3. p > count
    BY <1>4
  <2> HIDE DEF top, k, p
  <2>4. p * 1 <= p * 2 ^ k
    BY <2>2, TimesIsMonotonic
  <2> QED
    BY <1>1, <2>2, <2>3, <2>4
<1> DEFINE s == b - IntBits
           p == 2 ^ s
           d == (count - 1) \div p
<1>8. s \in Nat /\ p \in Nat \ {0}
  BY <1>1, <1>6, <1>7, PowersOfTwo
<1>9. 2 ^ (b - 1) = top * p
  <2>1. b - 1 = (IntBits - 1) + s
    BY <1>1, <1>6
  <2> HIDE DEF s
  <2> QED
    BY <1>1, <1>8, <2>1, PowersMultiply
<1>10. top * p <= count
  BY <1>1, <1>4, <1>7, <1>9
<1> HIDE DEF top, p
<1>11. IntMax * p <= count - 1
  <2>1. IntMax * p = top * p - p
    BY <1>1, <1>8, Z3
  <2>2. top * p \in Int
    BY <1>1, <1>8
  <2> QED
    BY <1>1, <1>8, <1>10, <2>1, <2>2
<1>12. d \in Int /\ p * d <= count - 1 /\ count - 1 < p * d + p
  BY <1>1, <1>8, Quotient
<1> HIDE DEF d
<1>13. d >= IntMax
  <2> SUFFICES ASSUME d + 1 <= IntMax
               PROVE  FALSE
    BY <1>1, <1>12
  <2>1. p * (d + 1) <= p * IntMax
    BY <1>1, <1>8, <1>12, TimesIsMonotonic
  <2>2. p * (d + 1) = p * d + p /\ p * IntMax = IntMax * p
    BY <1>1, <1>8, <1>12, Z3
  <2>3. p * d \in Int /\ IntMax * p \in Int
    BY <1>1, <1>8, <1>12
  <2> QED
    BY <1>1, <1>8, <1>11, <1>12, <2>1, <2>2, <2>3
<1> QED
  BY <1>5, <1>8, <1>13 DEF p, d

-----------------------------------------------------------------------------
\* The bar s is scaled for a table of `count` rows; the one of an empty table is as it
\* was left.
BarFits(s, count) ==
  /\ count \in int_t
  /\ s \in [is64 : BOOLEAN, shift : Nat, max : Nat, value : Nat] /\ s.value <= s.max
  /\ count > 0 =>
       LET big == Win64 /\ count > IntMax IN
       /\ s.is64 = big
       /\ s.shift = IF big THEN ShiftFor(count) ELSE 0
       /\ s.max = IF big THEN IntMax ELSE count

\* A new number of rows sets the scale.
LEMMA RangeFits ==
  ASSUME NEW old, BarFits(scroll, old), NEW count \in int_t
  PROVE  BarFits(WithRange(count), count)
<1>1. count \in Nat /\ IntMax \in Nat
  BY IntMaxIsPositive DEF int_t
<1>2. CASE count = 0
  BY <1>1, <1>2 DEF BarFits, WithRange
<1>3. CASE count > 0
  <2> DEFINE big == Win64 /\ count > IntMax
             shift == IF big THEN ShiftFor(count) ELSE 0
             max == IF big THEN IntMax ELSE count
             before == scroll.value
             value == Bounded(before, max)
  <2>1. big \in BOOLEAN /\ shift \in Nat /\ max \in Nat
    BY <1>1, BigTablesAreScaled, IntAssumption
  <2>2. value \in Nat /\ value <= max
    <3>1. before \in Int
      BY DEF BarFits
    <3> HIDE DEF max, before
    <3> QED
      BY <2>1, <3>1, BoundedProperties
  <2>3. WithRange(count) = [is64 |-> big, shift |-> shift, max |-> max, value |-> value]
    BY <1>1, <1>3 DEF WithRange
  <2>4. /\ WithRange(count).is64 = big /\ WithRange(count).shift = shift
        /\ WithRange(count).max = max
    BY <2>3
  <2>5. /\ WithRange(count) \in [is64 : BOOLEAN, shift : Nat, max : Nat, value : Nat]
        /\ WithRange(count).value <= WithRange(count).max
    <3> HIDE DEF big, shift, max, value
    <3> QED
      BY <2>1, <2>2, <2>3
  <2> QED
    BY <1>1, <2>4, <2>5 DEF BarFits
<1> QED
  BY <1>1, <1>2, <1>3

\* The position of the slider for a row is a number, even in a table that was emptied.
LEMMA ScaledRowIsANumber ==
  ASSUME NEW s, NEW count, BarFits(s, count), NEW row \in Int
  PROVE  scaleFromUint64ToScrollBarRange(s, count, row) \in Int
<1> DEFINE p == 2 ^ s.shift
           scaled == s.max * (row \div p)
           d == (count - 1) \div p
<1>1. s.shift \in Nat /\ s.max \in Nat /\ count \in Nat /\ p \in Nat \ {0}
  BY PowersOfTwo DEF BarFits, int_t
<1>2. ASSUME count # 0, s.is64
      PROVE  d >= IntMax
  <2>1. /\ count \in int_t /\ s.is64 = (Win64 /\ count > IntMax)
        /\ s.shift = IF Win64 /\ count > IntMax THEN ShiftFor(count) ELSE 0
    <3>1. count > 0
      BY <1>1, <1>2
    <3> QED
      BY <3>1 DEF BarFits
  <2>2. count > IntMax /\ s.shift = ShiftFor(count)
    BY <1>2, <2>1, Zenon
  <2> QED
    BY <2>1, <2>2, BigTablesAreScaled
<1> HIDE DEF p
<1>3. row \div p \in Int /\ d \in Int
  BY <1>1, Quotient
<1>4. scaled \in Int
  BY <1>1, <1>3
<1> HIDE DEF scaled
<1>5. Signed(0 - scaled) \in Int
  <2> DEFINE w == 2 ^ IntBits
             v == (0 - scaled) % w
  <2>1. w \in Nat \ {0}
    BY IntAssumption, PowersOfTwo
  <2>2. Signed(0 - scaled) = IF v > IntMax THEN v - w ELSE v
    BY DEF Signed
  <2> HIDE DEF w
  <2>3. v \in Int
    BY <1>4, <2>1
  <2> HIDE DEF v
  <2> QED
    BY <2>1, <2>2, <2>3
<1>6. scaleFromUint64ToScrollBarRange(s, count, row) =
        IF ~s.is64 THEN row
        ELSE IF row = count - 1 THEN s.max
        ELSE IF count = 0 THEN Signed(0 - scaled)
        ELSE scaled \div d
  BY DEF scaleFromUint64ToScrollBarRange, scaled, p
<1> HIDE DEF d
<1>7. ASSUME count # 0, s.is64
      PROVE  scaled \div d \in Int
  <2>1. d \in Nat \ {0}
    BY <1>2, <1>3, <1>7, IntMaxIsPositive
  <2> QED
    BY <1>4, <2>1, Quotient
<1> QED
  BY <1>1, <1>5, <1>6, <1>7

\* Moving the slider to a row keeps the scale.
LEMMA ValueFits ==
  ASSUME NEW s, NEW count, BarFits(s, count), NEW row \in Int
  PROVE  BarFits(SetValue(s, count, row), count)
<1> DEFINE scaled == scaleFromUint64ToScrollBarRange(s, count, row)
           max == s.max
           v == Bounded(scaled, max)
<1>1. s \in [is64 : BOOLEAN, shift : Nat, max : Nat, value : Nat]
  BY DEF BarFits
<1>2. v \in Nat /\ v <= s.max
  <2>1. scaled \in Int /\ max \in Nat
    BY <1>1, ScaledRowIsANumber
  <2>2. max \in Int /\ max >= 0
    BY <2>1
  <2> HIDE DEF scaled, max
  <2>3. v \in Nat /\ v <= max
    BY <2>1, <2>2, BoundedProperties
  <2> QED
    BY <2>3 DEF max
<1>3. SetValue(s, count, row) = [s EXCEPT !.value = v]
  BY DEF SetValue
<1> HIDE DEF v
<1> QED
  BY <1>1, <1>2, <1>3 DEF BarFits

\* The slider reaches every row, and stays where it is dragged.
LEMMA FittingBarReaches ==
  ASSUME BarFits(scroll, mRowCount)
  PROVE  SliderReachesTable
<1> DEFINE There(pos) == scaleFromScrollBarRangeToUint64(scroll, mRowCount, pos)
           Row(pos) == Bounded(There(pos), mRowCount - 1)
           Back(row) == scaleFromUint64ToScrollBarRange(scroll, mRowCount, row)
<1> SUFFICES ASSUME mRowCount > 0, NEW pos \in 0 .. scroll.max
             PROVE  /\ pos = scroll.max => Row(pos) = mRowCount - 1
                    /\ Back(Row(pos)) \in {pos, pos - 1}
  BY DEF SliderReachesTable
<1>1. /\ mRowCount \in int_t /\ mRowCount \in Nat \ {0} /\ IntMax \in Nat \ {0}
      /\ scroll.is64 \in BOOLEAN /\ scroll.shift \in Nat
  BY IntMaxIsPositive DEF BarFits, int_t
<1>2. pos \in Int /\ pos >= 0 /\ mRowCount - 1 \in Int /\ mRowCount - 1 >= 0
  BY <1>1 DEF BarFits
<1>3. CASE ~ scroll.is64
  <2>1. scroll.max = mRowCount /\ There(pos) = pos
    BY <1>1, <1>3 DEF BarFits, scaleFromScrollBarRangeToUint64
  <2>2. \A row : Back(row) = row
    BY <1>3 DEF scaleFromUint64ToScrollBarRange
  <2> HIDE DEF There
  <2>3. Row(pos) = IF pos <= mRowCount - 1 THEN pos ELSE mRowCount - 1
    <3> DEFINE last == mRowCount - 1
    <3>1. last \in Int /\ last >= 0
      BY <1>2
    <3> HIDE DEF last
    <3>2. pos <= last => pos \in 0 .. last
      BY <1>2, <3>1
    <3>3. pos <= last => Bounded(pos, last) = pos
      BY <1>2, <3>1, <3>2, BoundedProperties
    <3>4. ~ (pos <= last) => Bounded(pos, last) = last
      BY <1>2, <3>1, BoundedProperties
    <3> QED
      BY <2>1, <3>3, <3>4 DEF last
  <2> HIDE DEF Row, Back
  <2> QED
    BY <1>1, <2>1, <2>2, <2>3
<1>4. CASE scroll.is64
  <2> DEFINE p == 2 ^ scroll.shift
             d == (mRowCount - 1) \div p
             q == (d * pos) \div IntMax
  <2>1. scroll.max = IntMax /\ mRowCount > IntMax /\ scroll.shift = ShiftFor(mRowCount)
    BY <1>1, <1>4 DEF BarFits
  <2>2. p \in Nat \ {0} /\ d >= IntMax
    BY <1>1, <2>1, BigTablesAreScaled, PowersOfTwo
  <2>3. There(pos) = IF pos = IntMax THEN mRowCount - 1 ELSE q * p
    BY <1>1, <1>4 DEF scaleFromScrollBarRangeToUint64
  <2>4. \A row : Back(row) = IF row = mRowCount - 1 THEN IntMax ELSE (IntMax * (row \div p)) \div d
    BY <1>1, <1>4, <2>1 DEF scaleFromUint64ToScrollBarRange
  <2> HIDE DEF p, There, Back
  <2>5. d \in Int /\ p * d <= mRowCount - 1
    BY <1>1, <2>2, Quotient
  <2>6. CASE pos = IntMax
    <3>1. Row(pos) = mRowCount - 1
      BY <1>2, <2>3, <2>6, BoundedProperties
    <3> HIDE DEF Row
    <3> QED
      BY <2>1, <2>4, <2>6, <3>1
  <2>7. CASE pos # IntMax
    <3>1. pos \in 0 .. IntMax - 1 /\ d \in Nat
      BY <1>1, <1>2, <2>1, <2>2, <2>5, <2>7
    <3> HIDE DEF d
    <3>2. q \in Nat /\ q < d /\ (IntMax * q) \div d \in {pos, pos - 1}
      BY <1>1, <2>2, <3>1, ThereAndBack
    <3> HIDE DEF q
    <3>3. q * p \in Nat /\ q * p < mRowCount - 1
      <4>1. p * (q + 1) <= p * d
        BY <2>2, <2>5, <3>1, <3>2, TimesIsMonotonic
      <4>2. p * (q + 1) = q * p + p /\ q * p \in Nat /\ p * d \in Int
        BY <2>2, <2>5, <3>2, Z3
      <4> QED
        BY <1>1, <2>2, <2>5, <4>1, <4>2
    <3>4. Row(pos) = q * p
      BY <1>2, <2>3, <2>7, <3>3, BoundedProperties
    <3>5. (q * p) \div p = q
      <4>1. p * q <= q * p /\ q * p < p * q + p
        BY <2>2, <3>2, Z3
      <4> QED
        BY <2>2, <3>2, <3>3, <4>1, Quotient
    <3>6. Back(q * p) = (IntMax * q) \div d
      BY <1>1, <2>4, <3>3, <3>5
    <3> HIDE DEF Row
    <3> QED
      BY <2>1, <2>7, <3>2, <3>4, <3>6
  <2> QED
    BY <2>6, <2>7
<1> QED
  BY <1>1, <1>3, <1>4

-----------------------------------------------------------------------------
(* The mouse.                                                               *)

GuiState == {"NoState", "ReadyToResize", "ResizeColumnState", "HeaderButtonPressed",
             "MultiRowsSelectionState"}

\* The strengthening of DragIsHeld that every event keeps.
MouseKept ==
  mGuiState \in GuiState /\ left \in BOOLEAN /\ splitHandle \in BOOLEAN /\ DragIsHeld

\* A move of the mouse only shows or hides the handle, while no button is held.
LEMMA MoveKeeps ==
  ASSUME MouseKept, NEW x, TableMouseMove(x), UNCHANGED left
  PROVE  MouseKept'
<1>1. CASE mGuiState \in {"NoState", "ReadyToResize"} /\ HandleShown(x)
  <2>1. OnGrip(x) \in BOOLEAN
    BY DEF OnGrip
  <2> QED
    BY <1>1, <2>1 DEF HandleShown, MouseKept, DragIsHeld, GuiState, columns
<1>2. CASE mGuiState = "ResizeColumnState" /\ ColumnDragged(x)
  BY <1>2 DEF ColumnDragged, MouseKept, DragIsHeld, GuiState
<1>3. CASE UNCHANGED <<mGuiState, columns>>
  BY <1>3 DEF MouseKept, DragIsHeld, GuiState, columns
<1> QED
  BY <1>1, <1>2, <1>3 DEF TableMouseMove, MouseKept, GuiState

-----------------------------------------------------------------------------
\* The columns and the mouse on them: the handle is announced only while no button is
\* held, so that no width changes under it.
ColumnsKept ==
  /\ WideEnough
  /\ resize \in [index : Int, lastPosX : Int] /\ pointer \in Int \X Int
  /\ MouseKept
  /\ mGuiState = "ReadyToResize" => ~left /\ OnGrip(pointer[1])

\* The width of a column is a number, that of the last one too.
LEMMA WidthIsANumber ==
  ASSUME WideEnough, NEW i \in Column
  PROVE  getColumnWidth(i) \in Int
<1>1. i \in Int /\ i >= 0 /\ Width \in Int
  BY SizesAssumption DEF Column
<1>2. i < LastColumn => widths[i] \in Int
  BY DEF WideEnough
<1>3. getColumnPosition(i) \in Int
  <2>1. CASE i = 0
    BY <2>1 DEF getColumnPosition
  <2>2. CASE i # 0
    <3>1. i - 1 \in Column
      BY <2>2, SizesAssumption DEF Column
    <3> QED
      BY <2>2, <3>1, BordersAreNumbers DEF getColumnPosition, WideEnough
  <2> QED
    BY <2>1, <2>2
<1> QED
  BY <1>1, <1>2, <1>3 DEF getColumnWidth

\* A move shows or hides the handle, or drags a border.
LEMMA MoveKeepsColumns ==
  ASSUME ColumnsKept, MouseKept', NEW x \in Int, NEW y \in Int, Moved(x, y), TableMouseMove(x)
  PROVE  ColumnsKept'
<1>1. pointer' = <<x, y>> /\ pointer' \in Int \X Int /\ pointer'[1] = x /\ UNCHANGED left
  BY DEF Moved
<1>2. CASE mGuiState \in {"NoState", "ReadyToResize"}
  <2>1. HandleShown(x) /\ UNCHANGED <<widths, resize>>
    BY <1>2 DEF TableMouseMove, HandleShown, columns
  <2>2. WideEnough' /\ (OnGrip(x)' <=> OnGrip(x))
    BY <2>1, GripOfWidths DEF WideEnough, ColumnsKept
  <2>3. OnGrip(x) \in BOOLEAN /\ splitHandle \in BOOLEAN
    BY DEF OnGrip, ColumnsKept, MouseKept
  <2>4. mGuiState' = "ReadyToResize" => ~left /\ OnGrip(x)
    <3>1. CASE ~left /\ OnGrip(x) # splitHandle
      BY <2>1, <2>3, <3>1 DEF HandleShown
    <3>2. CASE ~ (~left /\ OnGrip(x) # splitHandle)
      BY <2>1, <2>3, <3>2 DEF HandleShown, ColumnsKept, MouseKept, DragIsHeld, columns
    <3> QED
      BY <3>1, <3>2
  <2>5. mGuiState' = "ReadyToResize" => ~left' /\ OnGrip(pointer[1])'
    BY <1>1, <2>2, <2>4
  <2> QED
    BY <1>1, <2>1, <2>2, <2>5 DEF ColumnsKept
<1>3. CASE mGuiState = "ResizeColumnState"
  <2>1. ColumnDragged(x)
    BY <1>3 DEF TableMouseMove
  <2>2. getColumnWidth(resize.index) \in Int
    BY <2>1, WidthIsANumber DEF ColumnDragged, ColumnsKept
  <2>3. ColumnResized(x) \in Int /\ ColumnResized(x) >= MinWidth
    <3> DEFINE w == getColumnWidth(resize.index) + x - resize.lastPosX
    <3>1. w \in Int /\ MinWidth \in Int
      BY <2>2, SizesAssumption DEF ColumnsKept
    <3> HIDE DEF w
    <3>2. Max({MinWidth, w}) = IF MinWidth >= w THEN MinWidth ELSE w
      BY <3>1 DEF Max
    <3> QED
      BY <3>1, <3>2 DEF ColumnResized, w
  <2>4. WideEnough'
    BY <2>1, <2>3 DEF ColumnDragged, ColumnsKept, WideEnough
  <2>5. resize' \in [index : Int, lastPosX : Int]
    BY <2>1 DEF ColumnDragged, ColumnsKept
  <2>6. mGuiState' = "ResizeColumnState"
    BY <1>3, <2>1 DEF ColumnDragged
  <2> QED
    BY <1>1, <2>4, <2>5, <2>6 DEF ColumnsKept
<1>4. CASE mGuiState \notin {"NoState", "ReadyToResize", "ResizeColumnState"}
  BY <1>1, <1>4 DEF TableMouseMove, ColumnsKept, WideEnough, columns
<1> QED
  BY <1>2, <1>3, <1>4

\* Columns that nothing touches, under a mouse that is pressed or released.
LEMMA ColumnsUntouched ==
  ASSUME ColumnsKept, MouseKept', UNCHANGED <<widths, pointer>>,
         resize' \in [index : Int, lastPosX : Int],
         mGuiState' = "ReadyToResize" => mGuiState = "ReadyToResize" /\ UNCHANGED left
  PROVE  ColumnsKept'
<1>1. WideEnough' /\ (OnGrip(pointer[1])' <=> OnGrip(pointer[1]))
  BY GripOfWidths DEF WideEnough, ColumnsKept
<1> QED
  BY <1>1 DEF ColumnsKept

\* Where nothing happens to the columns and the mouse they stay as they are.
LEMMA MouseAtRest ==
  ASSUME ColumnsKept, UNCHANGED <<columns, mGuiState, mouse>>
  PROVE  ColumnsKept'
<1>1. UNCHANGED <<widths, splitHandle, resize, mGuiState, pointer, left>>
  BY DEF columns, mouse
<1>2. MouseKept'
  BY <1>1 DEF ColumnsKept, MouseKept, DragIsHeld
<1> QED
  BY <1>1, <1>2, ColumnsUntouched DEF ColumnsKept

\* A move of the mouse.
LEMMA MoveKeepsTable ==
  ASSUME ColumnsKept, NEW x \in Int, NEW y \in Int, Moved(x, y), TableMouseMove(x)
  PROVE  ColumnsKept'
<1>1. MouseKept'
  BY MoveKeeps DEF ColumnsKept, Moved
<1> QED
  BY <1>1, MoveKeepsColumns

\* A press selects a row, or is one on the columns: it takes hold of a border only
\* where the handle is shown.
LEMMA PressKeepsTable ==
  ASSUME ColumnsKept, left' = TRUE, UNCHANGED pointer, NEW y,
         \/ mGuiState' = "MultiRowsSelectionState" /\ UNCHANGED columns
         \/ TableMousePress(pointer[1], y)
  PROVE  ColumnsKept'
<1> DEFINE x == pointer[1]
<1>1. MouseKept'
  <2>1. UNCHANGED splitHandle
    BY DEF TableMousePress, columns
  <2>2. \/ mGuiState' = "MultiRowsSelectionState"
        \/ mGuiState' = "ResizeColumnState" /\ splitHandle
        \/ mGuiState' = "HeaderButtonPressed"
        \/ mGuiState' = mGuiState
    BY DEF TableMousePress
  <2> QED
    BY <2>1, <2>2 DEF ColumnsKept, MouseKept, DragIsHeld, GuiState
<1>2. UNCHANGED widths /\ resize' \in [index : Int, lastPosX : Int]
  <2>1. ColumnGripped(x) \in Int /\ x \in Int
    BY GripHasColumn DEF ColumnsKept
  <2> QED
    BY <2>1 DEF TableMousePress, columns, ColumnsKept
<1>3. mGuiState' # "ReadyToResize"
  BY DEF TableMousePress, ColumnsKept, MouseKept, DragIsHeld
<1> QED
  BY <1>1, <1>2, <1>3, ColumnsUntouched

\* A release ends the selection of rows, or what was begun on the columns.
LEMMA ReleaseKeepsTable ==
  ASSUME ColumnsKept, left, left' = FALSE, UNCHANGED <<pointer, columns>>,
         mGuiState' = IF mGuiState \in {"MultiRowsSelectionState", "ResizeColumnState",
                                        "HeaderButtonPressed"}
                      THEN "NoState" ELSE mGuiState
  PROVE  ColumnsKept'
<1>1. UNCHANGED <<widths, splitHandle, resize>>
  BY DEF columns
<1>2. MouseKept'
  BY <1>1 DEF ColumnsKept, MouseKept, DragIsHeld, GuiState
<1>3. mGuiState' # "ReadyToResize"
  BY DEF ColumnsKept
<1> QED
  BY <1>1, <1>2, <1>3, ColumnsUntouched DEF ColumnsKept

\* In the beginning.
LEMMA BeginningKeepsColumns == TableInit => ColumnsKept
<1> SUFFICES ASSUME TableInit
             PROVE  ColumnsKept
  OBVIOUS
<1> USE DEF TableInit
<1>1. MouseKept
  BY DEF MouseKept, DragIsHeld, GuiState
<1>2. WideEnough
  BY SizesAssumption DEF WideEnough
<1>3. pointer \in Int \X Int /\ resize \in [index : Int, lastPosX : Int]
  BY PointerAssumption
<1> QED
  BY <1>1, <1>2, <1>3 DEF ColumnsKept

\* While the handle is announced there is a border under the pointer.
LEMMA KeptColumnsAreReady == ColumnsKept => ReadyHasColumn
<1> SUFFICES ASSUME ColumnsKept, mGuiState = "ReadyToResize"
             PROVE  /\ splitHandle /\ OnGrip(pointer[1])
                    /\ ColumnGripped(pointer[1]) \in Column \ {LastColumn}
  BY DEF ReadyHasColumn
<1>1. splitHandle /\ OnGrip(pointer[1]) /\ WideEnough /\ pointer[1] \in Int
  BY DEF ColumnsKept, MouseKept, DragIsHeld
<1> QED
  BY <1>1, GripHasColumn

\* Below the header the pointer is on a line.
LEMMA PointerIsOnALine ==
  ASSUME NEW y \in Int, y >= HeaderHeight
  PROVE  getIndexOffsetFromY(transY(y)) \in Nat
<1> DEFINE below == transY(y)
           k == below \div RowHeight
<1>1. below \in Nat /\ RowHeight \in Nat \ {0}
  BY SizesAssumption DEF transY
<1> HIDE DEF below
<1>2. k \in Int /\ below < RowHeight * k + RowHeight
  BY <1>1, Quotient
<1> HIDE DEF k
<1>3. k >= 0
  <2>1. ASSUME k <= -1
        PROVE  RowHeight * k <= RowHeight * (-1)
    BY <1>1, <1>2, <2>1, TimesIsMonotonic
  <2>2. RowHeight * (-1) = -RowHeight /\ RowHeight * k \in Int
    BY <1>1, <1>2
  <2> QED
    BY <1>1, <1>2, <2>1, <2>2
<1> QED
  BY <1>2, <1>3 DEF getIndexOffsetFromY, k, below

-----------------------------------------------------------------------------
(* The slider.                                                              *)

\* The slider, the wheel and the keys move the table by a number of rows.
LEMMA ActionsMoveByNumbers ==
  ASSUME BarFits(scroll, mRowCount), mTableOffset \in Int, NEW action \in SliderAction
  PROVE  action[2] \in Int
<1>1. CASE action \in StepActions \cup PageActions
  BY <1>1 DEF StepActions, PageActions
<1>2. ASSUME NEW pos \in 0 .. scroll.max
      PROVE  DistanceTo(pos) \in Int
  <2> DEFINE p == 2 ^ scroll.shift
             d == (mRowCount - 1) \div p
             q == (d * pos) \div IntMax
  <2>1. /\ mRowCount \in Nat /\ IntMax \in Nat \ {0} /\ p \in Nat \ {0} /\ pos \in Int
    BY IntMaxIsPositive, PowersOfTwo DEF BarFits, int_t
  <2>2. scaleFromScrollBarRangeToUint64(scroll, mRowCount, pos) =
          IF ~scroll.is64 THEN pos
          ELSE IF pos = IntMax THEN mRowCount - 1
          ELSE IF mRowCount = 0 THEN 0 ELSE q * p
    BY DEF scaleFromScrollBarRangeToUint64
  <2> HIDE DEF p
  <2>3. d \in Int
    BY <2>1, Quotient
  <2> HIDE DEF d
  <2>4. d * pos \in Int
    BY <2>1, <2>3
  <2>5. q \in Int
    BY <2>1, <2>4, Quotient
  <2> HIDE DEF q
  <2>6. q * p \in Int
    BY <2>1, <2>5
  <2>7. scaleFromScrollBarRangeToUint64(scroll, mRowCount, pos) \in Int
    BY <2>1, <2>2, <2>6
  <2> QED
    BY <2>7 DEF DistanceTo
<1>3. 0 \in 0 .. scroll.max /\ scroll.max \in 0 .. scroll.max
  BY DEF BarFits
<1>4. CASE action \notin StepActions \cup PageActions
  <2>1. \E pos \in 0 .. scroll.max : action[2] = DistanceTo(pos)
    BY <1>3, <1>4 DEF SliderAction
  <2> QED
    BY <1>2, <2>1
<1> QED
  BY <1>1, <1>4

\* A table without rows is scaled, and one without a scroll bar yet.
LEMMA BeginningFits == TableInit => BarFits(scroll, mRowCount)
<1>1. 0 \in int_t
  <2>1. 2 ^ (2 * IntBits - 1) \in Nat \ {0}
    BY IntAssumption, PowersOfTwo
  <2> QED
    BY <2>1 DEF int_t
<1> QED
  BY <1>1 DEF TableInit, BarFits

\* A slider that is dragged means a row of the table, or the one behind the last.
LEMMA PositionsAreRows ==
  ASSUME BarFits(scroll, mRowCount), mRowCount > 0, NEW pos \in 0 .. scroll.max
  PROVE  scaleFromScrollBarRangeToUint64(scroll, mRowCount, pos) \in 0 .. mRowCount
<1> DEFINE There == scaleFromScrollBarRangeToUint64(scroll, mRowCount, pos)
<1> SUFFICES There \in 0 .. mRowCount
  OBVIOUS
<1>1. /\ mRowCount \in int_t /\ mRowCount \in Nat \ {0} /\ IntMax \in Nat \ {0}
      /\ scroll.is64 \in BOOLEAN /\ scroll.shift \in Nat /\ pos \in Nat /\ pos <= scroll.max
  BY IntMaxIsPositive DEF BarFits, int_t
<1>2. CASE ~ scroll.is64
  <2>1. scroll.max = mRowCount /\ There = pos
    BY <1>1, <1>2 DEF BarFits, scaleFromScrollBarRangeToUint64
  <2> QED
    BY <1>1, <2>1
<1>3. CASE scroll.is64
  <2> DEFINE p == 2 ^ scroll.shift
             d == (mRowCount - 1) \div p
             q == (d * pos) \div IntMax
  <2>1. scroll.max = IntMax /\ mRowCount > IntMax /\ scroll.shift = ShiftFor(mRowCount)
    BY <1>1, <1>3 DEF BarFits
  <2>2. p \in Nat \ {0} /\ d >= IntMax
    BY <1>1, <2>1, BigTablesAreScaled, PowersOfTwo
  <2>3. There = IF pos = IntMax THEN mRowCount - 1 ELSE q * p
    BY <1>1, <1>3 DEF scaleFromScrollBarRangeToUint64
  <2> HIDE DEF p, There
  <2>4. d \in Int /\ p * d <= mRowCount - 1
    BY <1>1, <2>2, Quotient
  <2>5. CASE pos # IntMax
    <3>1. pos \in 0 .. IntMax - 1 /\ d \in Nat
      BY <1>1, <2>1, <2>2, <2>4, <2>5
    <3> HIDE DEF d
    <3>2. q \in Nat /\ q < d
      BY <1>1, <2>2, <3>1, ThereAndBack
    <3> HIDE DEF q
    <3>3. p * q <= p * d
      BY <2>2, <2>4, <3>2, TimesIsMonotonic
    <3>4. q * p = p * q /\ q * p \in Nat /\ p * d \in Int
      BY <2>2, <2>4, <3>2, Z3
    <3>5. q * p <= mRowCount - 1 /\ There = q * p
      BY <1>1, <2>3, <2>4, <2>5, <3>3, <3>4
    <3> QED
      BY <1>1, <3>4, <3>5
  <2>6. CASE pos = IntMax
    <3>1. There = mRowCount - 1
      BY <2>3, <2>6
    <3> HIDE DEF d
    <3> QED
      BY <1>1, <3>1
  <2> QED
    BY <2>5, <2>6
<1> QED
  BY <1>1, <1>2, <1>3
=============================================================================
