------------------------- MODULE Disassembly_proofs -------------------------
(***************************************************************************)
(* The disassembly, for every page, code, window and slider: the line      *)
(* under the mouse is the line drawn there, the debugger shows the address *)
(* it moves to, and the arrow keys keep the selection among the lines.     *)
(*                                                                         *)
(* Walks over instructions are recursive functions on ranges of numbers:   *)
(* RecursionOnRange says they exist, and what holds along a walk is shown  *)
(* at the least number where it would fail (LeastNumber).                  *)
(***************************************************************************)
EXTENDS Disassembly, TableView_proofs

-----------------------------------------------------------------------------
(* Walking over instructions.                                               *)

\* An instruction has a length; the walk ends at the end of the page, and before it
\* every step moves it on, though not behind the end.
LEMMA Lengths ==
  ASSUME NEW p \in Page, NEW rva \in Int
  PROVE  /\ Len(Code[p]) \in Nat
         /\ LengthAt(p, rva) \in 1 .. MaxLength /\ LengthAt(p, rva) \in Nat
         /\ NextLength(p, rva) \in Nat
         /\ rva >= Len(Code[p]) => NextLength(p, rva) = 0
         /\ rva < Len(Code[p]) => /\ NextLength(p, rva) # 0 /\ NextLength(p, rva) > 0
                                  /\ rva + NextLength(p, rva) <= Len(Code[p])
         /\ rva < Len(Code[p]) /\ rva + LengthAt(p, rva) <= Len(Code[p])
              => NextLength(p, rva) = LengthAt(p, rva)
<1> DEFINE size == Len(Code[p])
<1>1. Code[p] \in Seq(1 .. MaxLength) /\ MaxLength \in Nat \ {0} /\ size \in Nat
  BY CodeAssumption
<1>2. LengthAt(p, rva) \in 1 .. MaxLength
  <2>1. rva \in 0 .. size - 1 => rva + 1 \in 1 .. size
    BY <1>1
  <2>2. rva \in 0 .. size - 1 => Code[p][rva + 1] \in 1 .. MaxLength
    BY <1>1, <2>1
  <2> QED
    BY <1>1, <2>2 DEF LengthAt
<1>3. NextLength(p, rva) = IF rva >= size THEN 0
                           ELSE IF rva + LengthAt(p, rva) > size THEN 1 ELSE LengthAt(p, rva)
  BY DEF NextLength
<1> HIDE DEF size
<1> QED
  BY <1>1, <1>2, <1>3 DEF size

\* f holds the positions of a walk of n steps from rva, over instructions of page p.
Walk(f, p, rva, n) ==
  f = [k \in 0 .. n |-> IF k = 0 THEN rva ELSE f[k - 1] + NextLength(p, f[k - 1])]

\* There is one walk, and getNextInstructionRVA is where it ends.
LEMMA WalkExists ==
  ASSUME NEW p \in Page, NEW rva \in Int, NEW n \in Nat
  PROVE  \E f \in [0 .. n -> Int] : Walk(f, p, rva, n) /\ getNextInstructionRVA(p, rva, n) = f[n]
<1> DEFINE step == [q \in (1 .. n) \X Int |-> q[2] + NextLength(p, q[2])]
           f == CHOOSE f : Walk(f, p, rva, n)
<1>1. step \in [(1 .. n) \X Int -> Int]
  BY Lengths
<1>2. PICK g \in [0 .. n -> Int] : Recurs(g, n, rva, step)
  <2> HIDE DEF step
  <2> QED
    BY <1>1, RecursionOnRange
<1>3. Walk(g, p, rva, n)
  <2>1. ASSUME NEW k \in 0 .. n
        PROVE  g[k] = IF k = 0 THEN rva ELSE g[k - 1] + NextLength(p, g[k - 1])
    <3>1. g[k] = IF k = 0 THEN rva ELSE step[<<k, g[k - 1]>>]
      BY <1>2 DEF Recurs
    <3>2. k # 0 => k \in 1 .. n /\ g[k - 1] \in Int
      BY <1>2
    <3>3. k # 0 => step[<<k, g[k - 1]>>] = g[k - 1] + NextLength(p, g[k - 1])
      BY <3>2
    <3> QED
      BY <3>1, <3>3
  <2> QED
    BY <1>2, <2>1 DEF Walk
<1>4. Walk(f, p, rva, n)
  BY <1>3
<1>5. getNextInstructionRVA(p, rva, n) = f[n]
  BY DEF getNextInstructionRVA, Walk
<1> HIDE DEF f
<1>6. DOMAIN f = 0 .. n /\ f[0] = rva
      /\ \A k \in 1 .. n : f[k] = f[k - 1] + NextLength(p, f[k - 1])
  BY <1>4 DEF Walk
<1> DEFINE T == {k \in 0 .. n : f[k] \notin Int}
<1>7. ASSUME T # {}
      PROVE  FALSE
  <2>1. PICK k \in T : \A l \in T : k <= l
    <3>1. T \in SUBSET Nat
      OBVIOUS
    <3> HIDE DEF T
    <3> QED
      BY <1>7, <3>1, LeastNumber
  <2>2. k \in 0 .. n /\ f[k] \notin Int /\ k # 0
    BY <1>6
  <2>3. k - 1 \in 0 .. n /\ k \in 1 .. n /\ ~ (k <= k - 1)
    BY <2>2
  <2>4. f[k - 1] \in Int
    BY <2>1, <2>3
  <2>5. f[k] = f[k - 1] + NextLength(p, f[k - 1])
    BY <1>6, <2>3
  <2>6. NextLength(p, f[k - 1]) \in Nat
    BY <2>4, Lengths
  <2> QED
    BY <2>2, <2>4, <2>5, <2>6
<1>8. f \in [0 .. n -> Int]
  <2>1. \A k \in 0 .. n : f[k] \in Int
    BY <1>7
  <2> QED
    BY <1>4, <2>1 DEF Walk
<1> QED
  BY <1>4, <1>5, <1>8

\* Walks from the same position meet after as many steps.
LEMMA WalksAgree ==
  ASSUME NEW p \in Page, NEW rva \in Int, NEW m \in Nat, NEW n \in Nat, m <= n,
         NEW f, NEW g, Walk(f, p, rva, m), Walk(g, p, rva, n)
  PROVE  f[m] = g[m]
<1> DEFINE T == {k \in 0 .. m : f[k] # g[k]}
<1>1. /\ f[0] = rva /\ g[0] = rva
      /\ \A k \in 1 .. m : f[k] = f[k - 1] + NextLength(p, f[k - 1])
      /\ \A k \in 1 .. m : g[k] = g[k - 1] + NextLength(p, g[k - 1])
  BY DEF Walk
<1>2. ASSUME T # {}
      PROVE  FALSE
  <2>1. PICK k \in T : \A l \in T : k <= l
    <3>1. T \in SUBSET Nat
      OBVIOUS
    <3> HIDE DEF T
    <3> QED
      BY <1>2, <3>1, LeastNumber
  <2>2. k \in 0 .. m /\ f[k] # g[k] /\ k # 0
    BY <1>1
  <2>3. k - 1 \in 0 .. m /\ k \in 1 .. m /\ ~ (k <= k - 1)
    BY <2>2
  <2>4. f[k - 1] = g[k - 1]
    BY <2>1, <2>3
  <2> QED
    BY <1>1, <2>2, <2>3, <2>4
<1> QED
  BY <1>2

\* getNextInstructionRVA of no instruction, of one more, and of one less from the next.
LEMMA NextByOne ==
  ASSUME NEW p \in Page, NEW rva \in Int, NEW n \in Nat
  PROVE  /\ getNextInstructionRVA(p, rva, 0) = rva
         /\ getNextInstructionRVA(p, rva, n) \in Int
         /\ getNextInstructionRVA(p, rva, n + 1) =
              getNextInstructionRVA(p, rva, n) + NextLength(p, getNextInstructionRVA(p, rva, n))
<1>1. PICK f \in [0 .. 0 -> Int] : Walk(f, p, rva, 0) /\ getNextInstructionRVA(p, rva, 0) = f[0]
  BY WalkExists
<1>2. PICK g \in [0 .. n -> Int] : Walk(g, p, rva, n) /\ getNextInstructionRVA(p, rva, n) = g[n]
  BY WalkExists
<1>3. PICK h \in [0 .. n + 1 -> Int] :
        Walk(h, p, rva, n + 1) /\ getNextInstructionRVA(p, rva, n + 1) = h[n + 1]
  <2>1. n + 1 \in Nat
    OBVIOUS
  <2> QED
    BY <2>1, WalkExists
<1>4. g[n] = h[n]
  <2>1. n + 1 \in Nat /\ n <= n + 1
    OBVIOUS
  <2> QED
    BY <1>2, <1>3, <2>1, WalksAgree
<1>5. h[n + 1] = h[n] + NextLength(p, h[n])
  <2>1. n + 1 \in 0 .. n + 1 /\ n + 1 # 0 /\ (n + 1) - 1 = n
    OBVIOUS
  <2> QED
    BY <1>3, <2>1 DEF Walk
<1>6. f[0] = rva
  BY <1>1 DEF Walk
<1> QED
  BY <1>1, <1>2, <1>3, <1>4, <1>5, <1>6

-----------------------------------------------------------------------------
(* The lines.                                                               *)

\* e holds where the lines from `offset` start, at their full lengths.
Ends(e, p, offset) ==
  e = [n \in 0 .. getViewableRowsCount |->
         IF n = 0 THEN offset ELSE e[n - 1] + LengthAt(p, e[n - 1])]

\* Number lines from `offset` are all that the window holds, or all up to the end of
\* the page.
Counted(Number, p, offset) ==
  /\ Number \in 0 .. getViewableRowsCount
  /\ \/ Number = getViewableRowsCount
     \/ NextLength(p, getNextInstructionRVA(p, offset, Number)) = 0
  /\ \A k \in 0 .. Number - 1 : NextLength(p, getNextInstructionRVA(p, offset, k)) # 0

\* The window holds two lines or more, by the assumption on its size.
LEMMA WindowHoldsLines == getViewableRowsCount \in Nat \ {0, 1}
<1>1. Height - HeaderHeight + RowHeight - 1 \in Int /\ RowHeight \in Nat \ {0}
  BY SizesAssumption
<1>2. getViewableRowsCount \in Int
  BY <1>1 DEF getViewableRowsCount, getTableHeight
<1> QED
  BY <1>2, WindowAssumption

\* Walking over the full lengths defines where the lines start; each is behind the
\* one before.
LEMMA EndsExist ==
  ASSUME NEW p \in Page, NEW offset \in Int
  PROVE  \E e \in [0 .. getViewableRowsCount -> Int] : Ends(e, p, offset)
<1> DEFINE V == getViewableRowsCount
           step == [q \in (1 .. V) \X Int |-> q[2] + LengthAt(p, q[2])]
<1>1. step \in [(1 .. V) \X Int -> Int] /\ V \in Nat
  BY Lengths, WindowHoldsLines
<1>2. PICK g \in [0 .. V -> Int] : Recurs(g, V, offset, step)
  <2> HIDE DEF step, V
  <2> QED
    BY <1>1, RecursionOnRange
<1>3. ASSUME NEW k \in 0 .. V
      PROVE  g[k] = IF k = 0 THEN offset ELSE g[k - 1] + LengthAt(p, g[k - 1])
  <2> HIDE DEF V
  <2>1. g[k] = IF k = 0 THEN offset ELSE step[<<k, g[k - 1]>>]
    BY <1>2 DEF Recurs
  <2>2. k # 0 => k \in 1 .. V /\ g[k - 1] \in Int
    BY <1>1, <1>2
  <2>3. k # 0 => step[<<k, g[k - 1]>>] = g[k - 1] + LengthAt(p, g[k - 1])
    BY <2>2
  <2> QED
    BY <2>1, <2>3
<1> QED
  BY <1>2, <1>3 DEF Ends

\* They are numbers.
LEMMA EndsAreNumbers ==
  ASSUME NEW p \in Page, NEW offset \in Int, NEW e, Ends(e, p, offset)
  PROVE  e \in [0 .. getViewableRowsCount -> Int]
<1> DEFINE V == getViewableRowsCount
           T == {k \in 0 .. V : e[k] \notin Int}
<1>1. V \in Nat
  BY WindowHoldsLines
<1>2. \A k \in 0 .. V : e[k] = IF k = 0 THEN offset ELSE e[k - 1] + LengthAt(p, e[k - 1])
  BY DEF Ends
<1>3. e = [k \in 0 .. V |-> IF k = 0 THEN offset ELSE e[k - 1] + LengthAt(p, e[k - 1])]
  BY DEF Ends
<1> HIDE DEF V
<1>4. ASSUME T # {}
      PROVE  FALSE
  <2>1. PICK k \in T : \A l \in T : k <= l
    <3>1. T \in SUBSET Nat
      BY <1>1
    <3> HIDE DEF T
    <3> QED
      BY <1>4, <3>1, LeastNumber
  <2>2. k \in 0 .. V /\ e[k] \notin Int /\ k # 0
    BY <1>1, <1>2
  <2>3. k - 1 \in 0 .. V /\ ~ (k <= k - 1)
    BY <1>1, <2>2
  <2>4. e[k - 1] \in Int
    BY <2>1, <2>3
  <2>5. e[k] = e[k - 1] + LengthAt(p, e[k - 1])
    BY <1>2, <2>2
  <2>6. LengthAt(p, e[k - 1]) \in Nat
    BY <2>4, Lengths
  <2> QED
    BY <2>2, <2>4, <2>5, <2>6
<1>5. \A k \in 0 .. V : e[k] \in Int
  BY <1>4
<1>6. DOMAIN e = 0 .. V
  BY <1>3, Zenon
<1>7. e = [k \in 0 .. V |-> e[k]]
  BY <1>3, <1>2
<1> QED
  BY <1>5, <1>7 DEF V

\* What is known of these starts, without the recursion.
LEMMA EndsGrow ==
  ASSUME NEW p \in Page, NEW offset \in Int,
         NEW e \in [0 .. getViewableRowsCount -> Int], Ends(e, p, offset)
  PROVE  /\ e[0] = offset
         /\ \A k \in 1 .. getViewableRowsCount :
              /\ k - 1 \in 0 .. getViewableRowsCount
              /\ e[k] = e[k - 1] + LengthAt(p, e[k - 1]) /\ e[k - 1] < e[k]
<1> DEFINE V == getViewableRowsCount
<1>1. V \in Nat \ {0, 1}
  BY WindowHoldsLines
<1>2. \A k \in 0 .. V : e[k] = IF k = 0 THEN offset ELSE e[k - 1] + LengthAt(p, e[k - 1])
  BY DEF Ends
<1> HIDE DEF V
<1>3. ASSUME NEW k \in 1 .. V
      PROVE  k - 1 \in 0 .. V /\ e[k] = e[k - 1] + LengthAt(p, e[k - 1]) /\ e[k - 1] < e[k]
  <2>1. k \in 0 .. V /\ k # 0 /\ k - 1 \in 0 .. V
    BY <1>1
  <2>2. e[k] = e[k - 1] + LengthAt(p, e[k - 1])
    BY <1>2, <2>1
  <2>3. e[k - 1] \in Int
    BY <2>1 DEF V
  <2>4. LengthAt(p, e[k - 1]) \in Nat /\ LengthAt(p, e[k - 1]) \in 1 .. MaxLength
    BY <2>3, Lengths
  <2>5. MaxLength \in Nat
    BY CodeAssumption
  <2> QED
    BY <2>1, <2>2, <2>3, <2>4, <2>5
<1>4. e[0] = offset
  BY <1>1, <1>2
<1> QED
  BY <1>3, <1>4 DEF V

\* So a line further down starts further on.
LEMMA EndsIncrease ==
  ASSUME NEW p \in Page, NEW offset \in Int,
         NEW e \in [0 .. getViewableRowsCount -> Int], Ends(e, p, offset),
         NEW j \in 0 .. getViewableRowsCount, NEW k \in 0 .. getViewableRowsCount, j < k
  PROVE  e[j] < e[k]
<1> DEFINE V == getViewableRowsCount
           T == {m \in 0 .. V : j < m /\ ~ (e[j] < e[m])}
<1>1. V \in Nat /\ e \in [0 .. V -> Int]
  BY WindowHoldsLines
<1>2. \A m \in 1 .. V : m - 1 \in 0 .. V /\ e[m - 1] < e[m]
  BY EndsGrow
<1>3. j \in 0 .. V
  OBVIOUS
<1> HIDE DEF V
<1>4. ASSUME T # {}
      PROVE  FALSE
  <2>1. PICK m \in T : \A l \in T : m <= l
    <3>1. T \in SUBSET Nat
      BY <1>1
    <3> HIDE DEF T
    <3> QED
      BY <1>4, <3>1, LeastNumber
  <2>2. m \in 0 .. V /\ j < m /\ ~ (e[j] < e[m]) /\ m \in 1 .. V
    BY <1>1, <1>3
  <2>3. m - 1 \in 0 .. V /\ e[m - 1] < e[m] /\ ~ (m <= m - 1)
    BY <1>1, <1>2, <2>2
  <2>4. e[m - 1] \in Int /\ e[m] \in Int /\ e[j] \in Int
    BY <1>1, <1>3, <2>2, <2>3
  <2>5. j < m - 1 => e[j] < e[m - 1]
    BY <2>1, <2>3
  <2>6. j < m - 1 \/ j = m - 1
    BY <1>1, <1>3, <2>2
  <2> QED
    BY <2>2, <2>3, <2>4, <2>5, <2>6
<1> QED
  BY <1>4 DEF V

\* There is one such walk.
LEMMA EndsAreUnique ==
  ASSUME NEW p \in Page, NEW offset \in Int,
         NEW e \in [0 .. getViewableRowsCount -> Int], Ends(e, p, offset),
         NEW f \in [0 .. getViewableRowsCount -> Int], Ends(f, p, offset)
  PROVE  f = e
<1> DEFINE V == getViewableRowsCount
           T == {m \in 0 .. V : f[m] # e[m]}
<1>1. V \in Nat /\ e \in [0 .. V -> Int] /\ f \in [0 .. V -> Int]
  BY WindowHoldsLines
<1>2. /\ e[0] = offset /\ f[0] = offset
      /\ \A m \in 1 .. V : m - 1 \in 0 .. V /\ e[m] = e[m - 1] + LengthAt(p, e[m - 1])
      /\ \A m \in 1 .. V : f[m] = f[m - 1] + LengthAt(p, f[m - 1])
  BY EndsGrow
<1> HIDE DEF V
<1>3. ASSUME T # {}
      PROVE  FALSE
  <2>1. PICK m \in T : \A l \in T : m <= l
    <3>1. T \in SUBSET Nat
      BY <1>1
    <3> HIDE DEF T
    <3> QED
      BY <1>3, <3>1, LeastNumber
  <2>2. m \in 0 .. V /\ f[m] # e[m]
    OBVIOUS
  <2>3. m # 0
    BY <1>2, <2>2
  <2>4. m \in 1 .. V /\ m - 1 \in 0 .. V /\ ~ (m <= m - 1)
    BY <1>1, <2>2, <2>3
  <2>5. f[m - 1] = e[m - 1]
    BY <2>1, <2>4
  <2> QED
    BY <1>2, <2>2, <2>4, <2>5
<1>4. \A m \in 0 .. V : f[m] = e[m]
  BY <1>3
<1>5. f = [m \in 0 .. V |-> f[m]] /\ e = [m \in 0 .. V |-> e[m]]
  BY <1>1
<1> QED
  BY <1>4, <1>5, Zenon

\* The walk that counts stands at the start of every line that is not behind the
\* end of the page: an instruction before it was not cut off.
LEMMA EndsAreWalked ==
  ASSUME NEW p \in Page, NEW offset \in Int,
         NEW e \in [0 .. getViewableRowsCount -> Int], Ends(e, p, offset),
         NEW k \in 0 .. getViewableRowsCount, e[k] < Len(Code[p])
  PROVE  getNextInstructionRVA(p, offset, k) = e[k]
<1> DEFINE V == getViewableRowsCount
           size == Len(Code[p])
           T == {m \in 0 .. V : e[m] < size /\ getNextInstructionRVA(p, offset, m) # e[m]}
<1>1. V \in Nat /\ size \in Nat /\ e \in [0 .. V -> Int]
  BY WindowHoldsLines, Lengths
<1>2. e[0] = offset /\ \A m \in 1 .. V :
        m - 1 \in 0 .. V /\ e[m] = e[m - 1] + LengthAt(p, e[m - 1]) /\ e[m - 1] < e[m]
  BY EndsGrow
<1> HIDE DEF V, size
<1>3. ASSUME T # {}
      PROVE  FALSE
  <2>1. PICK m \in T : \A l \in T : m <= l
    <3>1. T \in SUBSET Nat
      BY <1>1
    <3> HIDE DEF T
    <3> QED
      BY <1>3, <3>1, LeastNumber
  <2>2. m \in 0 .. V /\ e[m] < size /\ getNextInstructionRVA(p, offset, m) # e[m]
    OBVIOUS
  <2>3. m # 0
    BY <1>2, <2>2, NextByOne
  <2>4. m \in 1 .. V /\ m - 1 \in 0 .. V /\ m - 1 \in Nat /\ m \in Nat /\ (m - 1) + 1 = m
        /\ ~ (m <= m - 1)
    BY <1>1, <2>2, <2>3
  <2>5. e[m - 1] \in Int /\ e[m] \in Int
        /\ e[m] = e[m - 1] + LengthAt(p, e[m - 1]) /\ e[m - 1] < e[m]
    BY <1>1, <1>2, <2>4
  <2>6. e[m - 1] < size
    BY <1>1, <2>2, <2>5
  <2>7. getNextInstructionRVA(p, offset, m - 1) = e[m - 1]
    BY <2>1, <2>4, <2>6
  <2>8. NextLength(p, e[m - 1]) = LengthAt(p, e[m - 1])
    <3>1. e[m - 1] + LengthAt(p, e[m - 1]) <= size
      BY <1>1, <2>2, <2>5
    <3> QED
      BY <2>5, <2>6, <3>1, Lengths DEF size
  <2>9. getNextInstructionRVA(p, offset, m) = e[m]
    BY <2>4, <2>5, <2>7, <2>8, NextByOne
  <2> QED
    BY <2>2, <2>9
<1> QED
  BY <1>3 DEF V, size

\* The number of lines that prepareData counts exists.
LEMMA LinesAreCounted ==
  ASSUME NEW p \in Page, NEW offset \in Int
  PROVE  \E Number \in 0 .. getViewableRowsCount : Counted(Number, p, offset)
<1> DEFINE V == getViewableRowsCount
           Stops(n) == n = V \/ NextLength(p, getNextInstructionRVA(p, offset, n)) = 0
           T == {n \in 0 .. V : Stops(n)}
<1>1. V \in Nat
  BY WindowHoldsLines
<1> HIDE DEF V
<1>2. PICK n \in T : \A m \in T : n <= m
  <2>1. V \in T /\ T \in SUBSET Nat
    BY <1>1
  <2> HIDE DEF T
  <2> QED
    BY <2>1, LeastNumber
<1>3. n \in 0 .. V /\ Stops(n)
  OBVIOUS
<1>4. ASSUME NEW k \in 0 .. n - 1
      PROVE  ~ Stops(k)
  <2>1. k \in 0 .. V /\ ~ (n <= k)
    BY <1>1, <1>3
  <2> QED
    BY <1>2, <2>1
<1>5. Counted(n, p, offset)
  BY <1>3, <1>4 DEF Counted, V
<1> QED
  BY <1>3, <1>5 DEF V

\* What a paint prepares: as many lines as were counted, each at its start.
LEMMA LinesAre ==
  ASSUME NEW p \in Page, NEW offset \in Int, NEW count, count # 0
  PROVE  \E Number \in 0 .. getViewableRowsCount, e \in [0 .. getViewableRowsCount -> Int] :
           /\ Counted(Number, p, offset) /\ Ends(e, p, offset)
           /\ Lines(p, count, offset) =
                [n \in 1 .. Number |-> [rva |-> e[n - 1], length |-> LengthAt(p, e[n - 1])]]
<1> DEFINE V == getViewableRowsCount
           Number == CHOOSE n \in 0 .. V :
             /\ n = V \/ NextLength(p, getNextInstructionRVA(p, offset, n)) = 0
             /\ \A k \in 0 .. n - 1 : NextLength(p, getNextInstructionRVA(p, offset, k)) # 0
           e == CHOOSE e : Ends(e, p, offset)
<1>1. Lines(p, count, offset) =
        [n \in 1 .. Number |-> [rva |-> e[n - 1], length |-> LengthAt(p, e[n - 1])]]
  BY DEF Lines, Ends
<1>2. Number \in 0 .. V /\ Counted(Number, p, offset)
  <2>1. PICK n \in 0 .. V : Counted(n, p, offset)
    BY LinesAreCounted
  <2> QED
    BY <2>1 DEF Counted
<1>3. Ends(e, p, offset) /\ e \in [0 .. V -> Int]
  <2>1. PICK g \in [0 .. V -> Int] : Ends(g, p, offset)
    BY EndsExist
  <2>2. Ends(e, p, offset)
    BY <2>1
  <2> HIDE DEF e
  <2> QED
    BY <2>2, EndsAreNumbers
<1> QED
  BY <1>1, <1>2, <1>3

-----------------------------------------------------------------------------
(* The rows are those of the page.                                          *)

\* The inductive invariant: the rows of the table are the bytes of the page that is
\* shown, or none after the debuggee has stopped.
RowsOfPage == page \in Page /\ mRowCount \in {0, Size}

\* In the beginning no page is shown and there are no rows.
LEMMA InitRowsOfPage == DisInit => RowsOfPage
  BY CodeAssumption DEF DisInit, TableInit, RowsOfPage

\* Only the debugger changes the page or the number of rows, and then both.
LEMMA NextRowsOfPage == RowsOfPage /\ [DisNext]_disVars => RowsOfPage'
<1> SUFFICES ASSUME RowsOfPage, [DisNext]_disVars
             PROVE  RowsOfPage'
  OBVIOUS
<1> USE DEF RowsOfPage, Size
<1>1. CASE UNCHANGED disVars
  BY <1>1 DEF disVars, tableVars, rows
<1>2. ASSUME NEW q \in Positions, mouseMoveEvent(q[1], q[2])
      PROVE  RowsOfPage'
  BY <1>2 DEF mouseMoveEvent, rows
<1>3. CASE mousePressEvent
  BY <1>3 DEF mousePressEvent, rows
<1>4. CASE mouseReleaseEvent
  BY <1>4 DEF mouseReleaseEvent, rows
<1>5. ASSUME NEW key \in {"Up", "Down"}, keyPressEvent(key)
      PROVE  RowsOfPage'
  BY <1>5 DEF keyPressEvent, setTableOffset, rows
<1>6. CASE vertSliderActionSlot
  BY <1>6 DEF vertSliderActionSlot, setTableOffset
<1>7. ASSUME NEW p \in Page, NEW rva, disassambleAt(p, rva)
      PROVE  RowsOfPage'
  BY <1>7 DEF disassambleAt, setRowCount, ShowRow
<1>8. CASE disassembleClear
  BY <1>8 DEF disassembleClear, setRowCount
<1>9. CASE paintEvent
  BY <1>9 DEF paintEvent, tableVars, rows
<1> QED
  BY <1>1, <1>2, <1>3, <1>4, <1>5, <1>6, <1>7, <1>8, <1>9 DEF DisNext

\* Counted from where the table stands, the line that the mouse means is the line drawn.
LEMMA PaintedLinesAgree == RowsOfPage => LinesAgree
<1> SUFFICES ASSUME RowsOfPage, Painted,
                    NEW i \in 1 .. Len(mInstBuffer), i = 1 \/ mInstBuffer[i].rva < Size
             PROVE  getInstructionRVA(mTableOffset, i - 1) = mInstBuffer[i].rva
  BY DEF LinesAgree
<1> DEFINE o == mTableOffset
           V == getViewableRowsCount
<1>1. page \in Page /\ Size \in Nat /\ mRowCount = Size /\ mRowCount # 0
  BY CodeAssumption DEF RowsOfPage, Painted, Size
<1>2. o \in Int /\ 0 <= o /\ o < Size /\ mInstBuffer = Lines(page, mRowCount, o)
  BY <1>1 DEF Painted
<1>3. V \in Nat
  BY WindowHoldsLines
<1> HIDE DEF o
<1>4. PICK Number \in 0 .. V, e \in [0 .. V -> Int] :
        /\ Ends(e, page, o)
        /\ mInstBuffer =
             [n \in 1 .. Number |-> [rva |-> e[n - 1], length |-> LengthAt(page, e[n - 1])]]
  BY <1>1, <1>2, LinesAre
<1>5. /\ e[0] = o
      /\ \A k \in 0 .. V : 0 < k => e[0] < e[k]
  <2>1. 0 \in 0 .. V
    BY <1>3
  <2> QED
    BY <1>1, <1>2, <1>4, <2>1, EndsGrow, EndsIncrease
<1> HIDE DEF V
<1>6. i \in 1 .. Number /\ i - 1 \in 0 .. V /\ i - 1 \in Nat /\ (i = 1 => i - 1 = 0)
  <2>1. Len(mInstBuffer) = Number
    BY <1>3, <1>4
  <2> QED
    BY <1>3, <2>1
<1>7. mInstBuffer[i].rva = e[i - 1]
  BY <1>4, <1>6
<1>8. e[i - 1] \in Int /\ e[i - 1] < Size
  BY <1>2, <1>4, <1>5, <1>6, <1>7
<1>9. getNextInstructionRVA(page, o, i - 1) = e[i - 1]
  BY <1>1, <1>2, <1>4, <1>6, <1>8, EndsAreWalked DEF Size, V
<1>10. 0 <= e[i - 1]
  BY <1>2, <1>5, <1>6, <1>8
<1>11. getInstructionRVA(mTableOffset, i - 1) =
         IF e[i - 1] < 0 THEN 0 ELSE Min({e[i - 1], mRowCount - 1})
  <2> DEFINE d == i - 1
             c == e[i - 1]
  <2>1. ~ (d < 0) /\ (d = 0 => o = c) /\ getNextInstructionRVA(page, o, d) = c
    BY <1>5, <1>6, <1>9
  <2>2. mRowCount # 0
    BY <1>1
  <2> HIDE DEF c, d
  <2>3. getInstructionRVA(o, d) = IF c < 0 THEN 0 ELSE Min({c, mRowCount - 1})
    BY <2>1, <2>2 DEF getInstructionRVA
  <2> QED
    BY <2>3 DEF c, d, o
<1>12. Min({e[i - 1], mRowCount - 1}) = e[i - 1]
  BY <1>1, <1>8 DEF Min
<1> QED
  BY <1>7, <1>8, <1>10, <1>11, <1>12

\* The mouse and the paint agree on which line is where, for any code, page and window.
THEOREM MouseMeansTheLine == DisSpec => []LinesAgree
<1>1. DisInit => RowsOfPage
  BY InitRowsOfPage
<1>2. RowsOfPage /\ [DisNext]_disVars => RowsOfPage'
  BY NextRowsOfPage
<1>3. RowsOfPage => LinesAgree
  BY PaintedLinesAgree
<1> QED
  BY <1>1, <1>2, <1>3, PTL DEF DisSpec

-----------------------------------------------------------------------------
(* An address that the debugger shows.                                      *)

\* The lines of a paint, field by field: Number of them were counted, and e holds where
\* they start.
Prepared(lines, Number, e, p, offset) ==
  /\ Counted(Number, p, offset) /\ Ends(e, p, offset)
  /\ Len(lines) = Number /\ (lines = <<>> <=> Number = 0)
  /\ \A n \in 1 .. Number :
       /\ lines[n].rva = e[n - 1] /\ lines[n].length = LengthAt(p, e[n - 1])
       /\ lines[n] \in ToSet(lines)
  /\ Rvas(lines) = {e[n - 1] : n \in 1 .. Number}

\* So they are, whatever the page and the position.
LEMMA LinesArePrepared ==
  ASSUME NEW p \in Page, NEW offset \in Int, NEW count, count # 0
  PROVE  \E Number \in 0 .. getViewableRowsCount, e \in [0 .. getViewableRowsCount -> Int] :
           Prepared(Lines(p, count, offset), Number, e, p, offset)
<1> DEFINE V == getViewableRowsCount
           lines == Lines(p, count, offset)
<1>0. lines = Lines(p, count, offset)
  OBVIOUS
<1> HIDE DEF lines
<1>1. PICK Number \in 0 .. V, e \in [0 .. V -> Int] :
        /\ Counted(Number, p, offset) /\ Ends(e, p, offset)
        /\ lines = [n \in 1 .. Number |-> [rva |-> e[n - 1], length |-> LengthAt(p, e[n - 1])]]
  BY <1>0, LinesAre
<1>2. V \in Nat
  BY WindowHoldsLines
<1> HIDE DEF V
<1>3. /\ lines \in Seq([rva : Int, length : Nat]) /\ Len(lines) = Number
      /\ DOMAIN lines = 1 .. Number /\ (lines = <<>> <=> Number = 0)
  <2>1. \A n \in 1 .. Number : n - 1 \in 0 .. V
    BY <1>2
  <2>2. \A n \in 1 .. Number : e[n - 1] \in Int /\ LengthAt(p, e[n - 1]) \in Nat
    BY <1>1, <2>1, Lengths
  <2>3. Number \in Nat
    BY <1>2
  <2>4. DOMAIN lines = 1 .. Number
    BY <1>1
  <2>5. lines \in Seq([rva : Int, length : Nat])
    BY <1>1, <2>2, <2>3
  <2>6. Len(lines) = Number
    BY <2>3, <2>4, <2>5
  <2> QED
    BY <2>3, <2>4, <2>5, <2>6, EmptySeq
<1>4. \A n \in 1 .. Number : lines[n].rva = e[n - 1] /\ lines[n].length = LengthAt(p, e[n - 1])
  BY <1>1
<1>5. \A n \in 1 .. Number : lines[n] \in ToSet(lines)
  BY <1>3 DEF ToSet
<1>6. Rvas(lines) = {e[n - 1] : n \in 1 .. Number}
  <2>1. Rvas(lines) = {lines[n].rva : n \in 1 .. Number}
    BY <1>3 DEF Rvas, ToSet
  <2> QED
    BY <1>4, <2>1
<1>7. Prepared(lines, Number, e, p, offset)
  BY <1>1, <1>3, <1>4, <1>5, <1>6 DEF Prepared
<1>8. Number \in 0 .. getViewableRowsCount /\ e \in [0 .. getViewableRowsCount -> Int]
  BY DEF V
<1> QED
  BY ONLY <1>0, <1>7, <1>8, Zenon

\* Every line within the page that fits in the window is shown.
LEMMA LineIsShown ==
  ASSUME NEW p \in Page, NEW offset \in Int, NEW count, count # 0,
         NEW e \in [0 .. getViewableRowsCount -> Int], Ends(e, p, offset),
         NEW k \in 0 .. getViewableRowsCount - 1, e[k] < Len(Code[p])
  PROVE  e[k] \in Rvas(Lines(p, count, offset))
<1> DEFINE V == getViewableRowsCount
           size == Len(Code[p])
<1>1. V \in Nat \ {0, 1} /\ size \in Nat /\ e \in [0 .. V -> Int] /\ k \in 0 .. V - 1
  BY WindowHoldsLines, CodeAssumption
<1>2. PICK Number \in 0 .. V, f \in [0 .. V -> Int] :
        Prepared(Lines(p, count, offset), Number, f, p, offset)
  BY LinesArePrepared
<1>3. f = e
  BY <1>2, EndsAreUnique DEF Prepared
<1>4. \A m \in 0 .. V : m <= k => e[m] < size
  <2>1. \A m \in 0 .. V : m < k => e[m] < e[k]
    <3>1. k \in 0 .. V
      BY <1>1
    <3> QED
      BY <3>1, EndsIncrease
  <2>2. k \in 0 .. V /\ e[k] < size
    BY <1>1
  <2> HIDE DEF V, size
  <2>3. ASSUME NEW m \in 0 .. V, m <= k
        PROVE  e[m] < size
    <3>1. e[m] \in Int /\ e[k] \in Int
      BY <1>1, <2>2
    <3>2. m < k \/ m = k
      BY <1>1, <2>3
    <3>3. e[m] < e[k] \/ e[m] = e[k]
      BY <2>1, <3>2
    <3>4. size \in Int /\ e[k] < size
      BY <1>1, <2>2
    <3> QED
      BY ONLY <3>1, <3>3, <3>4
  <2> QED
    BY <2>3
<1>5. k < Number
  <2> SUFFICES ASSUME Number <= k
               PROVE  FALSE
    BY <1>1, <1>2
  <2> HIDE DEF V, size
  <2>1. Number \in 0 .. V /\ Number # V
    BY <1>1, <1>2
  <2>2. e[Number] < size /\ e[Number] \in Int
    BY <1>1, <1>4, <2>1
  <2>3. getNextInstructionRVA(p, offset, Number) = e[Number]
    BY <1>2, <2>1, <2>2, EndsAreWalked DEF V, size
  <2>4. NextLength(p, e[Number]) # 0
    BY <2>2, Lengths DEF size
  <2> QED
    BY <1>2, <2>1, <2>3, <2>4 DEF Prepared, Counted, V
<1>6. k + 1 \in 1 .. Number /\ (k + 1) - 1 = k
  BY <1>1, <1>2, <1>5
<1> QED
  BY <1>2, <1>3, <1>6 DEF Prepared

\* Within the page an instruction can be read, and so there is a line at least.
LEMMA FirstLineIsThere ==
  ASSUME NEW p \in Page, NEW rva \in 0 .. Len(Code[p]) - 1, NEW count, count # 0
  PROVE  rva \in Rvas(Lines(p, count, rva))
<1>1. rva \in Int /\ rva < Len(Code[p]) /\ 0 \in 0 .. getViewableRowsCount - 1
  BY CodeAssumption, WindowHoldsLines
<1>2. PICK e \in [0 .. getViewableRowsCount -> Int] : Ends(e, p, rva)
  BY <1>1, EndsExist
<1>3. e[0] = rva
  BY <1>1, <1>2, EndsGrow
<1> QED
  BY <1>1, <1>2, <1>3, LineIsShown

\* rva is inside of none of the lines.
WithinNone(rva, lines) ==
  \A line \in ToSet(lines) : rva \notin line.rva + 1 .. line.rva + line.length - 1

\* Lines follow each other without a gap: an address between the first and the last
\* that is not inside of a line is where one starts.
LEMMA LinesLeaveNoGap ==
  ASSUME NEW p \in Page, NEW offset \in Int, NEW lines,
         NEW Number \in 1 .. getViewableRowsCount,
         NEW e \in [0 .. getViewableRowsCount -> Int], Prepared(lines, Number, e, p, offset),
         NEW rva \in Int, e[0] <= rva, rva <= e[Number - 1],
         WithinNone(rva, lines)
  PROVE  rva \in Rvas(lines)
<1> DEFINE V == getViewableRowsCount
           T == {k \in 0 .. Number - 1 : rva <= e[k]}
<1>1. V \in Nat /\ e \in [0 .. V -> Int] /\ Number \in 1 .. V
  BY WindowHoldsLines
<1>2. \A k \in 1 .. V : k - 1 \in 0 .. V /\ e[k] = e[k - 1] + LengthAt(p, e[k - 1])
  <2>1. Ends(e, p, offset)
    BY DEF Prepared
  <2> QED
    BY <2>1, EndsGrow
<1> HIDE DEF V
<1>3. PICK k \in T : \A m \in T : k <= m
  <2>1. Number - 1 \in T /\ T \in SUBSET Nat
    BY <1>1
  <2> HIDE DEF T
  <2> QED
    BY <2>1, LeastNumber
<1>4. k \in 0 .. Number - 1 /\ rva <= e[k] /\ k \in 0 .. V /\ e[k] \in Int
  <2>1. k \in 0 .. Number - 1 /\ rva <= e[k]
    OBVIOUS
  <2>2. k \in 0 .. V
    BY <1>1, <2>1
  <2> QED
    BY <1>1, <2>1, <2>2
<1>5. e[k] = rva
  <2>1. CASE k = 0
    BY <1>4, <2>1
  <2>2. CASE k # 0
    <3>1. k \in 1 .. Number /\ k - 1 \in 0 .. Number - 1 /\ k \in 1 .. V /\ ~ (k <= k - 1)
      BY <1>1, <1>4, <2>2
    <3>2. k - 1 \in 0 .. V /\ e[k] = e[k - 1] + LengthAt(p, e[k - 1])
      BY <1>2, <3>1
    <3>3. e[k - 1] \in Int
      BY <1>1, <3>2
    <3>4. ~ (rva <= e[k - 1])
      BY <1>3, <3>1
    <3>5. LengthAt(p, e[k - 1]) \in Nat
      BY <3>3, Lengths
    <3>6. rva \notin e[k - 1] + 1 .. e[k - 1] + LengthAt(p, e[k - 1]) - 1
      <4>1. lines[k] \in ToSet(lines) /\ lines[k].rva = e[k - 1]
            /\ lines[k].length = LengthAt(p, e[k - 1])
        BY <3>1 DEF Prepared
      <4> QED
        BY <4>1 DEF WithinNone
    <3> QED
      BY <1>4, <3>2, <3>3, <3>4, <3>5, <3>6
  <2> QED
    BY <2>1, <2>2
<1>6. k + 1 \in 1 .. Number /\ (k + 1) - 1 = k
  BY <1>1, <1>4
<1> QED
  BY <1>5, <1>6 DEF Prepared

\* From the second line on, the lines that stood in the page are shown again.
LEMMA LinesMoveUp ==
  ASSUME NEW p \in Page, NEW offset \in Int, NEW next \in Int,
         NEW e \in [0 .. getViewableRowsCount -> Int], Ends(e, p, offset), next = e[1],
         NEW last \in 1 .. getViewableRowsCount - 1, e[last] < Len(Code[p]),
         NEW count, count # 0
  PROVE  e[last] \in Rvas(Lines(p, count, next))
<1> DEFINE V == getViewableRowsCount
           size == Len(Code[p])
<1>1. V \in Nat \ {0, 1} /\ size \in Nat /\ e[last] < size /\ e \in [0 .. V -> Int] /\ last \in 1 .. V - 1
  BY WindowHoldsLines, CodeAssumption
<1>2. PICK f \in [0 .. V -> Int] : Ends(f, p, next)
  BY EndsExist
<1>3. \A k \in 1 .. V : k - 1 \in 0 .. V /\ e[k] = e[k - 1] + LengthAt(p, e[k - 1])
  BY EndsGrow
<1>4. f[0] = next /\ \A k \in 1 .. V : k - 1 \in 0 .. V /\ f[k] = f[k - 1] + LengthAt(p, f[k - 1])
  BY <1>2, EndsGrow
<1> DEFINE T == {k \in 0 .. last - 1 : f[k] # e[k + 1]}
<1>5. ASSUME T # {}
      PROVE  FALSE
  <2> HIDE DEF V
  <2>1. PICK k \in T : \A m \in T : k <= m
    <3>1. T \in SUBSET Nat
      BY <1>1
    <3> HIDE DEF T
    <3> QED
      BY <1>5, <3>1, LeastNumber
  <2>2. k \in 0 .. last - 1 /\ f[k] # e[k + 1]
    OBVIOUS
  <2>3. k # 0
    BY <1>4, <2>2
  <2>4. k - 1 \in 0 .. last - 1 /\ k \in 1 .. V /\ k + 1 \in 1 .. V /\ (k - 1) + 1 = k
        /\ (k + 1) - 1 = k /\ ~ (k <= k - 1)
    BY <1>1, <2>2, <2>3
  <2>5. f[k - 1] = e[k]
    BY <2>1, <2>4
  <2>6. f[k] = f[k - 1] + LengthAt(p, f[k - 1]) /\ e[k + 1] = e[k] + LengthAt(p, e[k])
    BY <1>3, <1>4, <2>4
  <2> QED
    BY <2>2, <2>5, <2>6
<1>6. \A k \in 0 .. last - 1 : f[k] = e[k + 1]
  BY <1>5
<1>7. last - 1 \in 0 .. V - 1 /\ f[last - 1] = e[last] /\ f[last - 1] < size
  <2> HIDE DEF V, size
  <2>1. last - 1 \in 0 .. last - 1 /\ (last - 1) + 1 = last /\ last - 1 \in 0 .. V - 1
    BY <1>1
  <2> QED
    BY <1>1, <1>6, <2>1
<1> QED
  BY <1>2, <1>7, LineIsShown

\* What a step that shows an address does to the position of the table.
LEMMA ShownWhere ==
  ASSUME NEW rva, disassambleAt(page, rva)
  PROVE  mTableOffset' = IF Among(rva) THEN mTableOffset
                         ELSE IF mInstBuffer # <<>> /\ rva = Last(mInstBuffer).rva
                         THEN Head(mInstBuffer).rva + Head(mInstBuffer).length
                         ELSE rva
  BY DEF disassambleAt, setRowCount, ShowRow

\* The lines painted show an address of the page that the debugger shows in it.
LEMMA StepShowsAddress ==
  ASSUME RowsOfPage, NEW rva \in 0 .. Size - 1, disassambleAt(page, rva),
         mInstBuffer = <<>> \/ Painted, Len(mInstBuffer) # 1,
         WithinNone(rva, mInstBuffer)
  PROVE  rva \in Rvas(Lines(page, Size, mTableOffset'))
<1> DEFINE o == mTableOffset
<1>1. page \in Page /\ Size \in Nat /\ rva \in Int /\ 0 <= rva /\ rva < Size /\ Size # 0
  BY CodeAssumption DEF RowsOfPage, Size
<1>2. getViewableRowsCount \in Nat \ {0, 1}
  BY WindowHoldsLines
<1>3. ASSUME mTableOffset' = rva
      PROVE  rva \in Rvas(Lines(page, Size, mTableOffset'))
  BY <1>1, <1>3, FirstLineIsThere DEF Size
<1>4. CASE mInstBuffer = <<>>
  <2>1. ~ Among(rva)
    BY <1>4 DEF Among
  <2> QED
    BY <1>3, <1>4, <2>1, ShownWhere
<1>5. CASE mInstBuffer # <<>>
  <2>1. o \in Int /\ mInstBuffer = Lines(page, Size, o)
    BY <1>1, <1>5 DEF Painted, RowsOfPage
  <2> HIDE DEF o
  <2>2. PICK Number \in 0 .. getViewableRowsCount, e \in [0 .. getViewableRowsCount -> Int] :
          Prepared(mInstBuffer, Number, e, page, o)
    BY <1>1, <2>1, LinesArePrepared
  <2>3. Len(mInstBuffer) = Number /\ Number \in 2 .. getViewableRowsCount /\ Ends(e, page, o)
    BY <1>2, <1>5, <2>2 DEF Prepared
  <2> DEFINE last == Number - 1
  <2>4. last \in 1 .. getViewableRowsCount - 1 /\ last \in 0 .. getViewableRowsCount /\ Number \in 1 .. Number /\ 1 \in 1 .. Number
        /\ last + 1 = Number
    BY <1>2, <2>3
  <2>5. /\ Last(mInstBuffer).rva = e[last]
        /\ Head(mInstBuffer).rva = e[0]
        /\ Head(mInstBuffer).length = LengthAt(page, e[0])
    <3>1. Last(mInstBuffer) = mInstBuffer[Number] /\ Head(mInstBuffer) = mInstBuffer[1]
      BY <2>3 DEF Last
    <3> QED
      BY <2>2, <2>4, <3>1 DEF Prepared
  <2>6. e[1] = e[0] + LengthAt(page, e[0]) /\ e[1] \in Int /\ e[0] \in Int /\ e[last] \in Int
    <3>1. 1 \in 1 .. getViewableRowsCount /\ 1 - 1 = 0 /\ 0 \in 0 .. getViewableRowsCount /\ 1 \in 0 .. getViewableRowsCount
      BY <1>2
    <3>2. \A k \in 1 .. getViewableRowsCount : e[k] = e[k - 1] + LengthAt(page, e[k - 1])
      <4>1. page \in Page /\ o \in Int /\ Ends(e, page, o)
        BY <1>1, <2>1, <2>3
      <4> QED
        BY ONLY <4>1, EndsGrow, e \in [0 .. getViewableRowsCount -> Int]
    <3>3. e[1] = e[1 - 1] + LengthAt(page, e[1 - 1])
      BY <3>1, <3>2
    <3> QED
      BY <2>4, <3>1, <3>3
  <2> HIDE DEF last
  <2>7. CASE Among(rva)
    <3>1. e[0] <= rva /\ rva <= e[Number - 1] /\ mTableOffset' = o
      BY <1>1, <2>5, <2>6, <2>7, ShownWhere DEF Among, last, o
    <3>2. rva \in Rvas(mInstBuffer)
      <4>1. Number \in 1 .. getViewableRowsCount
        BY <1>2, <2>3
      <4> QED
        BY <1>1, <2>1, <2>2, <3>1, <4>1, LinesLeaveNoGap
    <3> QED
      BY <2>1, <3>1, <3>2
  <2>8. CASE ~ Among(rva) /\ rva = e[last]
    <3>1. mTableOffset' = e[1]
      BY <1>5, <2>5, <2>6, <2>8, ShownWhere
    <3> DEFINE next == e[1]
    <3>2. e[last] < Len(Code[page])
      BY <1>1, <2>8 DEF Size
    <3>3. e[last] \in Rvas(Lines(page, Size, next))
      BY <1>1, <2>1, <2>3, <2>4, <2>6, <3>2, LinesMoveUp
    <3> QED
      BY <2>8, <3>1, <3>3
  <2>9. CASE ~ Among(rva) /\ rva # e[last]
    BY <1>3, <2>5, <2>9, ShownWhere
  <2> QED
    BY <2>7, <2>8, <2>9
<1> QED
  BY <1>4, <1>5

\* The debugger's address is among the lines of the position that it leaves, for any
\* code and window, wherever the table stood before.
THEOREM DebuggerShowsAddress == DisSpec => AddressIsShown
<1>1. DisInit => RowsOfPage
  BY InitRowsOfPage
<1>2. RowsOfPage /\ [DisNext]_disVars => RowsOfPage'
  BY NextRowsOfPage
<1> DEFINE Shows == \A rva \in 0 .. Size - 1 :
             /\ disassambleAt(page, rva)
             /\ mInstBuffer = <<>> \/ Painted
             /\ Len(mInstBuffer) # 1
             /\ \A line \in ToSet(mInstBuffer) :
                  rva \notin line.rva + 1 .. line.rva + line.length - 1
             => rva \in Rvas(Lines(page, Size, mTableOffset'))
<1>3. RowsOfPage => Shows
  BY StepShowsAddress DEF WithinNone
<1>4. AddressIsShown <=> [][Shows]_disVars
  BY DEF AddressIsShown
<1> HIDE DEF Shows
<1> QED
  BY <1>1, <1>2, <1>3, <1>4, PTL DEF DisSpec
-----------------------------------------------------------------------------
(* Instructions from the start of the page.                                 *)

\* Where the walk from the start of page p is after n instructions.
Forward(p, n) == getNextInstructionRVA(p, 0, n)

\* It stays in the page, moves on as long as there is an instruction, and never back.
LEMMA ForwardMovesOn ==
  ASSUME NEW p \in Page
  PROVE  /\ Forward(p, 0) = 0
         /\ \A n \in Nat : /\ Forward(p, n) \in 0 .. Len(Code[p]) /\ Forward(p, n) \in Int
                           /\ Forward(p, n) < Len(Code[p]) => n <= Forward(p, n)
                           /\ Forward(p, n + 1) = Forward(p, n) + NextLength(p, Forward(p, n))
<1> DEFINE size == Len(Code[p])
           Holds(n) == Forward(p, n) \in 0 .. size /\ (Forward(p, n) < size => n <= Forward(p, n))
           T == {n \in Nat : ~ Holds(n)}
<1>1. size \in Nat
  BY CodeAssumption
<1>2. /\ Forward(p, 0) = 0
      /\ \A n \in Nat : Forward(p, n + 1) = Forward(p, n) + NextLength(p, Forward(p, n))
  <2>1. 0 \in Int
    OBVIOUS
  <2> QED
    BY <2>1, NextByOne DEF Forward
<1>3. ASSUME T # {}
      PROVE  FALSE
  <2>1. PICK n \in T : \A m \in T : n <= m
    <3>1. T \in SUBSET Nat
      OBVIOUS
    <3> HIDE DEF T
    <3> QED
      BY <1>3, <3>1, LeastNumber
  <2>2. n \in Nat /\ ~ Holds(n)
    OBVIOUS
  <2> HIDE DEF size
  <2>3. n # 0
    BY <1>1, <1>2, <2>2
  <2>4. n - 1 \in Nat /\ ~ (n <= n - 1) /\ (n - 1) + 1 = n
    BY <2>2, <2>3
  <2>5. Holds(n - 1)
    BY <2>1, <2>4
  <2> DEFINE before == Forward(p, n - 1)
  <2>6. before \in Int /\ before \in 0 .. size /\ (before < size => n - 1 <= before)
    BY <2>5
  <2>7. Forward(p, n) = before + NextLength(p, before)
    BY <1>2, <2>4
  <2>8. /\ NextLength(p, before) \in Nat
        /\ before >= size => NextLength(p, before) = 0
        /\ before < size => NextLength(p, before) > 0 /\ before + NextLength(p, before) <= size
    <3> HIDE DEF before
    <3> QED
      BY <2>6, Lengths DEF size
  <2> HIDE DEF before
  <2>9. Holds(n)
    BY <1>1, <2>2, <2>6, <2>7, <2>8
  <2> QED
    BY <2>2, <2>9
<1> QED
  BY <1>2, <1>3

\* More instructions lead further, or as far.
LEMMA ForwardIncreases ==
  ASSUME NEW p \in Page, NEW m \in Nat, NEW n \in Nat, m <= n
  PROVE  Forward(p, m) <= Forward(p, n)
<1> DEFINE T == {k \in Nat : m <= k /\ ~ (Forward(p, m) <= Forward(p, k))}
<1>1. \A k \in Nat : Forward(p, k) \in Int /\ NextLength(p, Forward(p, k)) \in Nat
        /\ Forward(p, k + 1) = Forward(p, k) + NextLength(p, Forward(p, k))
  <2>1. \A k \in Nat : Forward(p, k) \in Int
        /\ Forward(p, k + 1) = Forward(p, k) + NextLength(p, Forward(p, k))
    BY ForwardMovesOn
  <2> QED
    BY <2>1, Lengths
<1>2. ASSUME T # {}
      PROVE  FALSE
  <2>1. PICK k \in T : \A l \in T : k <= l
    <3>1. T \in SUBSET Nat
      OBVIOUS
    <3> HIDE DEF T
    <3> QED
      BY <1>2, <3>1, LeastNumber
  <2>2. k \in Nat /\ m <= k /\ ~ (Forward(p, m) <= Forward(p, k))
    OBVIOUS
  <2>3. k # m
    BY <1>1, <2>2
  <2>4. k - 1 \in Nat /\ m <= k - 1 /\ ~ (k <= k - 1) /\ (k - 1) + 1 = k
    BY <2>2, <2>3
  <2>5. Forward(p, m) <= Forward(p, k - 1)
    BY <2>1, <2>4
  <2>6. Forward(p, k) = Forward(p, k - 1) + NextLength(p, Forward(p, k - 1))
    BY <1>1, <2>4
  <2>7. /\ Forward(p, m) \in Int /\ Forward(p, k - 1) \in Int
        /\ NextLength(p, Forward(p, k - 1)) \in Nat
    BY <1>1, <2>4
  <2> QED
    BY <2>2, <2>5, <2>6, <2>7
<1> QED
  BY <1>2

\* Where no instruction is cut off, an instruction ends where the next one starts, or
\* the page ends, and none starts inside of it.
LEMMA StartsFollow ==
  ASSUME NEW p \in Page, InStep(p), NEW rva \in Starts(p)
  PROVE  /\ rva \in 0 .. Len(Code[p]) - 1 /\ rva \in Int /\ rva < Len(Code[p])
         /\ NextLength(p, rva) = LengthAt(p, rva)
         /\ rva + LengthAt(p, rva) \in Starts(p) \cup {Len(Code[p])}
         /\ \A later \in Starts(p) : rva < later => rva + LengthAt(p, rva) <= later
<1> DEFINE size == Len(Code[p])
<1>1. size \in Nat
  BY CodeAssumption
<1>2. Starts(p) = {Forward(p, n) : n \in 0 .. size} \ {size}
  BY DEF Starts, Forward
<1>3. /\ Forward(p, 0) = 0
      /\ \A n \in Nat : /\ Forward(p, n) \in 0 .. size
                        /\ Forward(p, n) < size => n <= Forward(p, n)
                        /\ Forward(p, n + 1) = Forward(p, n) + NextLength(p, Forward(p, n))
  BY ForwardMovesOn
<1>4. rva + LengthAt(p, rva) <= size
  BY DEF InStep
<1> HIDE DEF size
<1>5. PICK n \in 0 .. size : rva = Forward(p, n)
  BY <1>2
<1>6. rva \in 0 .. size - 1 /\ rva \in Int /\ rva < size
  BY <1>1, <1>2, <1>3, <1>5
<1>7. NextLength(p, rva) = LengthAt(p, rva)
  BY <1>4, <1>6, Lengths DEF size
<1>8. n + 1 \in 0 .. size /\ n \in Nat /\ n + 1 \in Nat
  BY <1>1, <1>3, <1>5, <1>6
<1>9. Forward(p, n + 1) = rva + LengthAt(p, rva)
  BY <1>3, <1>5, <1>7, <1>8
<1>10. rva + LengthAt(p, rva) \in Starts(p) \cup {size}
  BY <1>2, <1>8, <1>9
<1>11. ASSUME NEW later \in Starts(p), rva < later
       PROVE  rva + LengthAt(p, rva) <= later
  <2>1. PICK m \in 0 .. size : later = Forward(p, m)
    BY <1>2
  <2>2. m \in Nat /\ later \in Int
    BY <1>1, <1>3, <2>1
  <2>3. ~ (m <= n)
    <3>1. m <= n => later <= rva
      BY <1>5, <1>8, <2>1, <2>2, ForwardIncreases
    <3> QED
      BY <1>6, <1>11, <2>2, <3>1
  <2>4. n + 1 <= m
    BY <1>8, <2>2, <2>3
  <2> QED
    BY <1>8, <1>9, <2>1, <2>2, <2>4, ForwardIncreases
<1> QED
  BY <1>6, <1>7, <1>10, <1>11 DEF size

\* Lines that begin at an instruction are instructions, up to the end of the page,
\* and the walk that counts goes with them.
LEMMA EndsInStep ==
  ASSUME NEW p \in Page, InStep(p), NEW offset \in Starts(p),
         NEW e \in [0 .. getViewableRowsCount -> Int], Ends(e, p, offset),
         NEW k \in 0 .. getViewableRowsCount
  PROVE  e[k] \in Starts(p) \/ e[k] >= Len(Code[p])
<1> DEFINE V == getViewableRowsCount
           size == Len(Code[p])
           T == {m \in 0 .. V : ~ (e[m] \in Starts(p) \/ e[m] >= size)}
<1>1. V \in Nat /\ size \in Nat /\ e \in [0 .. V -> Int] /\ offset \in Int
  <2>1. offset \in Int
    BY StartsFollow
  <2> QED
    BY <2>1, WindowHoldsLines, CodeAssumption
<1>2. e[0] = offset /\ \A m \in 1 .. V :
        m - 1 \in 0 .. V /\ e[m] = e[m - 1] + LengthAt(p, e[m - 1])
  BY <1>1, EndsGrow
<1> HIDE DEF V, size
<1>3. ASSUME T # {}
      PROVE  FALSE
  <2>1. PICK m \in T : \A l \in T : m <= l
    <3>1. T \in SUBSET Nat
      BY <1>1
    <3> HIDE DEF T
    <3> QED
      BY <1>3, <3>1, LeastNumber
  <2>2. m \in 0 .. V /\ e[m] \notin Starts(p) /\ ~ (e[m] >= size)
    OBVIOUS
  <2>3. m # 0
    BY <1>2, <2>2
  <2>4. m \in 1 .. V /\ m - 1 \in 0 .. V /\ ~ (m <= m - 1)
    BY <1>1, <2>2, <2>3
  <2>5. e[m - 1] \in Starts(p) \/ e[m - 1] >= size
    BY <2>1, <2>4
  <2>6. e[m] = e[m - 1] + LengthAt(p, e[m - 1]) /\ e[m - 1] \in Int /\ e[m] \in Int
    BY <1>1, <1>2, <2>2, <2>4
  <2>7. LengthAt(p, e[m - 1]) \in Nat
    BY <2>6, Lengths
  <2>8. CASE e[m - 1] \in Starts(p)
    <3>1. e[m] \in Starts(p) \cup {size}
      BY <2>6, <2>8, StartsFollow DEF size
    <3> QED
      BY <1>1, <2>2, <3>1
  <2>9. CASE e[m - 1] >= size
    BY <1>1, <2>2, <2>6, <2>7, <2>9
  <2> QED
    BY <2>5, <2>8, <2>9
<1> QED
  BY <1>3 DEF V, size

\* The address rva is one of those up to the j-th of a walk.
IsMet(e, j, rva) == \E k \in 0 .. j : e[k] = rva

\* An instruction at or behind the first line and not behind line j is one of the lines.
LEMMA StartIsALine ==
  ASSUME NEW p \in Page, InStep(p), NEW offset \in Starts(p),
         NEW e \in [0 .. getViewableRowsCount -> Int], Ends(e, p, offset),
         NEW rva \in Starts(p), offset <= rva,
         NEW j \in 0 .. getViewableRowsCount, rva <= e[j]
  PROVE  IsMet(e, j, rva)
<1> SUFFICES \E k \in 0 .. j : e[k] = rva
  BY DEF IsMet
<1> DEFINE V == getViewableRowsCount
           T == {m \in 0 .. j : rva <= e[m]}
<1>1. /\ V \in Nat /\ e \in [0 .. V -> Int] /\ j \in 0 .. V
      /\ offset \in Int /\ rva \in Int /\ rva < Len(Code[p]) /\ Len(Code[p]) \in Nat
  <2>1. offset \in Int /\ rva \in Int /\ rva < Len(Code[p])
    BY StartsFollow
  <2> QED
    BY <2>1, WindowHoldsLines, CodeAssumption
<1>2. e[0] = offset /\ \A m \in 1 .. V :
        m - 1 \in 0 .. V /\ e[m] = e[m - 1] + LengthAt(p, e[m - 1])
  BY <1>1, EndsGrow
<1>3. \A m \in 0 .. V : e[m] \in Starts(p) \/ e[m] >= Len(Code[p])
  BY EndsInStep
<1> HIDE DEF V
<1>4. PICK k \in T : \A m \in T : k <= m
  <2>1. j \in T /\ T \in SUBSET Nat
    BY <1>1
  <2> HIDE DEF T
  <2> QED
    BY <2>1, LeastNumber
<1>5. k \in 0 .. j /\ rva <= e[k]
  OBVIOUS
<1>6. k \in 0 .. V /\ e[k] \in Int
  <2>1. k \in 0 .. V
    BY <1>1, <1>5
  <2> QED
    BY <1>1, <2>1
<1>7. CASE k = 0
  BY <1>1, <1>2, <1>5, <1>7
<1>8. CASE k # 0
  <2>1. k \in 1 .. V /\ k - 1 \in 0 .. j /\ k - 1 \in 0 .. V /\ ~ (k <= k - 1)
    BY <1>1, <1>5, <1>6, <1>8
  <2>2. e[k] = e[k - 1] + LengthAt(p, e[k - 1]) /\ e[k - 1] \in Int
    BY <1>1, <1>2, <2>1
  <2>3. ~ (rva <= e[k - 1])
    BY <1>4, <2>1
  <2>4. e[k - 1] \in Starts(p)
    BY <1>1, <1>3, <2>1, <2>2, <2>3
  <2>5. e[k] <= rva
    BY <1>1, <2>2, <2>3, <2>4, StartsFollow
  <2>6. e[k] = rva
    BY <1>1, <1>5, <1>6, <2>5
  <2> QED
    BY <1>5, <2>6
<1> QED
  BY <1>7, <1>8
-----------------------------------------------------------------------------
(* Looking back.                                                            *)

\* at holds the addresses that DisassembleBack visits from `start` until it reaches ip.
Visits(at, p, ip, start) ==
  at = [n \in 0 .. ip |->
          IF n = 0 THEN start
          ELSE IF at[n - 1] < ip THEN at[n - 1] + LengthAt(p, at[n - 1]) ELSE at[n - 1]]

\* There are such addresses, and all of those on the way count: the walk has as many
\* steps as it can need.
LEMMA VisitsExist ==
  ASSUME NEW p \in Page, NEW ip \in Nat \ {0}, NEW start \in 0 .. ip - 1
  PROVE  /\ \E at : Visits(at, p, ip, start)
         /\ \A at : Visits(at, p, ip, start) =>
              /\ at \in [0 .. ip -> Nat] /\ at[0] = start
              /\ \A n \in 0 .. ip : at[n] < ip =>
                   n + 1 \in 0 .. ip /\ at[n + 1] = at[n] + LengthAt(p, at[n])
<1> DEFINE step == [q \in (1 .. ip) \X Nat |->
                      IF q[2] < ip THEN q[2] + LengthAt(p, q[2]) ELSE q[2]]
<1>1. step \in [(1 .. ip) \X Nat -> Nat] /\ ip \in Nat /\ start \in Nat
  <2>1. \A a \in Nat : a \in Int /\ LengthAt(p, a) \in Nat
    BY Lengths
  <2> QED
    BY <2>1
<1>2. PICK g \in [0 .. ip -> Nat] : Recurs(g, ip, start, step)
  <2> HIDE DEF step
  <2> QED
    BY <1>1, RecursionOnRange
<1>3. Visits(g, p, ip, start)
  <2>1. ASSUME NEW n \in 0 .. ip
        PROVE  g[n] = IF n = 0 THEN start
                      ELSE IF g[n - 1] < ip THEN g[n - 1] + LengthAt(p, g[n - 1]) ELSE g[n - 1]
    <3>1. g[n] = IF n = 0 THEN start ELSE step[<<n, g[n - 1]>>]
      BY <1>2 DEF Recurs
    <3>2. n # 0 => n \in 1 .. ip /\ g[n - 1] \in Nat
      BY <1>2
    <3>3. n # 0 => step[<<n, g[n - 1]>>] =
                     IF g[n - 1] < ip THEN g[n - 1] + LengthAt(p, g[n - 1]) ELSE g[n - 1]
      BY <3>2
    <3> HIDE DEF step
    <3> QED
      BY <3>1, <3>3
  <2> QED
    BY <1>2, <2>1 DEF Visits
<1>4. ASSUME NEW at, Visits(at, p, ip, start)
      PROVE  /\ at \in [0 .. ip -> Nat] /\ at[0] = start
             /\ \A n \in 0 .. ip : at[n] < ip =>
                  n + 1 \in 0 .. ip /\ at[n + 1] = at[n] + LengthAt(p, at[n])
  <2>1. /\ DOMAIN at = 0 .. ip
        /\ \A n \in 0 .. ip : at[n] =
             IF n = 0 THEN start
             ELSE IF at[n - 1] < ip THEN at[n - 1] + LengthAt(p, at[n - 1]) ELSE at[n - 1]
    BY <1>4 DEF Visits
  <2> DEFINE Holds(n) == at[n] \in Nat /\ (at[n] < ip => n <= at[n])
             T == {n \in 0 .. ip : ~ Holds(n)}
  <2>2. ASSUME T # {}
        PROVE  FALSE
    <3>1. PICK n \in T : \A m \in T : n <= m
      <4>1. T \in SUBSET Nat
        OBVIOUS
      <4> HIDE DEF T
      <4> QED
        BY <2>2, <4>1, LeastNumber
    <3>2. n \in 0 .. ip /\ ~ Holds(n)
      OBVIOUS
    <3>3. n # 0
      BY <2>1, <3>2
    <3>4. n - 1 \in 0 .. ip /\ ~ (n <= n - 1)
      BY <3>2, <3>3
    <3>5. Holds(n - 1)
      BY <3>1, <3>4
    <3> DEFINE before == at[n - 1]
    <3>6. before \in Nat /\ (before < ip => n - 1 <= before)
      BY <3>5
    <3>7. at[n] = IF before < ip THEN before + LengthAt(p, before) ELSE before
      BY <2>1, <3>2, <3>3
    <3> HIDE DEF before
    <3> DEFINE length == LengthAt(p, before)
    <3>8. length \in Nat /\ length >= 1
      <4>1. before \in Int
        BY <3>6
      <4>2. length \in 1 .. MaxLength /\ length \in Nat
        BY <4>1, Lengths
      <4>3. MaxLength \in Nat
        BY CodeAssumption
      <4> HIDE DEF length
      <4> QED
        BY <4>2, <4>3
    <3> HIDE DEF length
    <3>9. at[n] \in Nat /\ (at[n] < ip => n <= at[n])
      BY <3>2, <3>6, <3>7, <3>8 DEF length
    <3> QED
      BY <3>2, <3>9
  <2>3. \A n \in 0 .. ip : Holds(n)
    BY <2>2
  <2>4. at \in [0 .. ip -> Nat]
    <3>1. at = [n \in 0 .. ip |-> at[n]]
      BY <1>4, <2>1 DEF Visits
    <3> QED
      BY <2>3, <3>1
  <2>5. ASSUME NEW n \in 0 .. ip, at[n] < ip
        PROVE  n + 1 \in 0 .. ip /\ at[n + 1] = at[n] + LengthAt(p, at[n])
    <3>1. n + 1 \in 0 .. ip /\ n + 1 # 0 /\ (n + 1) - 1 = n
      BY <2>3, <2>5
    <3> QED
      BY <2>1, <2>5, <3>1
  <2>6. at[0] = start
    BY <2>1
  <2> QED
    BY <2>4, <2>5, <2>6
<1> QED
  BY <1>3, <1>4

\* The sweep begins before ip and steps from instruction to instruction.
LEMMA SweepStepsOn ==
  ASSUME NEW p \in Page, NEW ip \in Nat \ {0}, NEW count \in Nat
  PROVE  /\ Sweep(p, ip, count) \in SUBSET Nat
         /\ \E a \in Sweep(p, ip, count) : a < ip
         /\ \A a \in Sweep(p, ip, count) : a < ip => a + LengthAt(p, a) \in Sweep(p, ip, count)
<1> DEFINE back == MaxLength * (count + 3)
           start == Max({0, ip - back})
           at == CHOOSE at : Visits(at, p, ip, start)
<1>1. Sweep(p, ip, count) = {at[n] : n \in 0 .. ip}
  BY DEF Sweep, Visits
<1>2. back \in Nat \ {0}
  BY CodeAssumption
<1> HIDE DEF back
<1>3. start \in 0 .. ip - 1
  <2>1. start = IF ip - back >= 0 THEN ip - back ELSE 0
    BY <1>2 DEF Max
  <2> QED
    BY <1>2, <2>1
<1> HIDE DEF start
<1>4. Visits(at, p, ip, start)
  BY <1>3, VisitsExist
<1> HIDE DEF at
<1>5. /\ at \in [0 .. ip -> Nat] /\ at[0] = start
      /\ \A n \in 0 .. ip : at[n] < ip =>
           n + 1 \in 0 .. ip /\ at[n + 1] = at[n] + LengthAt(p, at[n])
  BY <1>3, <1>4, VisitsExist
<1>6. \E a \in Sweep(p, ip, count) : a < ip
  <2>1. 0 \in 0 .. ip /\ at[0] < ip
    BY <1>3, <1>5
  <2> QED
    BY <1>1, <2>1
<1> QED
  BY <1>1, <1>5, <1>6

\* The instruction `prev` was found n before ip: it was visited, and so were no more
\* than n between the two.
FoundBack(p, ip, n, prev) ==
  /\ prev \in Sweep(p, ip, n) /\ prev < ip
  /\ getPreviousInstructionRVA(p, ip, n) = prev
  /\ Cardinality({b \in Sweep(p, ip, n) : prev <= b /\ b < ip}) <= n

\* What the code finds `count` before ip is found so, as far back as it looks.
LEMMA PreviousIsVisited ==
  ASSUME NEW p \in Page, NEW count \in Nat \ {0}, NEW n, n = Min({count, MaxBack}),
         NEW ip \in Nat, n <= ip
  PROVE  /\ n \in 1 .. count /\ n \in 1 .. MaxBack /\ ip \in Nat \ {0}
         /\ FoundBack(p, ip, n, getPreviousInstructionRVA(p, ip, count))
<1> DEFINE swept == Sweep(p, ip, n)
           before == {a \in swept : a < ip}
           prev == getPreviousInstructionRVA(p, ip, count)
<1>1. n \in 1 .. count /\ n \in 1 .. MaxBack /\ n = Min({n, MaxBack})
  <2>1. n = IF count <= MaxBack THEN count ELSE MaxBack
    BY CodeAssumption DEF Min
  <2>2. n \in 1 .. count /\ n \in 1 .. MaxBack
    BY <2>1, CodeAssumption
  <2> QED
    BY <2>2, CodeAssumption DEF Min
<1>2. ip \in Nat \ {0} /\ ~ (ip < n) /\ n \in Nat
  BY <1>1
<1>3. /\ prev = IF Cardinality(before) < n THEN Min(before)
                ELSE CHOOSE a \in before : Cardinality({b \in before : b >= a}) = n
      /\ getPreviousInstructionRVA(p, ip, n) = prev
  <2> DEFINE Found(m) == LET met == {a \in Sweep(p, ip, m) : a < ip} IN
        IF ip < m THEN ip
        ELSE IF Cardinality(met) < m THEN Min(met)
             ELSE CHOOSE a \in met : Cardinality({b \in met : b >= a}) = m
  <2>1. \A c : getPreviousInstructionRVA(p, ip, c) = Found(Min({c, MaxBack}))
    BY DEF getPreviousInstructionRVA
  <2>2. Found(n) = IF Cardinality(before) < n THEN Min(before)
                   ELSE CHOOSE a \in before : Cardinality({b \in before : b >= a}) = n
    BY <1>2, Zenon
  <2> HIDE DEF Found, before
  <2>3. prev = Found(n) /\ getPreviousInstructionRVA(p, ip, n) = Found(n)
    BY <1>1, <2>1
  <2> QED
    BY <2>2, <2>3
<1>4. swept \in SUBSET Nat /\ \E a \in swept : a < ip
  BY <1>2, SweepStepsOn
<1> HIDE DEF swept, prev
<1>5. /\ before \in SUBSET (0 .. ip - 1) /\ before # {} /\ before \in SUBSET Nat
      /\ IsFiniteSet(before) /\ Cardinality(before) \in Nat
  <2>1. before \in SUBSET (0 .. ip - 1) /\ before # {} /\ before \in SUBSET Nat
    <3>1. ASSUME NEW a \in before
          PROVE  a \in Nat /\ a \in 0 .. ip - 1
      <4>1. a \in swept /\ a < ip /\ swept \in SUBSET Nat
        BY <1>4
      <4>2. a \in Nat
        BY <4>1
      <4> QED
        BY <1>2, <4>1, <4>2
    <3>2. before # {}
      BY <1>4
    <3> HIDE DEF before
    <3> QED
      BY <3>1, <3>2
  <2>2. IsFiniteSet(0 .. ip - 1)
    BY <1>2, FS_Interval
  <2> HIDE DEF before
  <2> QED
    BY <2>1, <2>2, FS_Subset, FS_CardinalityType
<1>6. prev \in before /\ Cardinality({b \in before : prev <= b}) <= n
  <2> HIDE DEF before
  <2>1. CASE Cardinality(before) < n
    <3>1. PICK a \in before : \A b \in before : a <= b
      BY <1>5, LeastNumber
    <3>2. prev = CHOOSE low \in before : \A b \in before : low <= b
      BY <1>3, <2>1 DEF Min
    <3>3. prev \in before
      BY <3>1, <3>2
    <3>4. {b \in before : prev <= b} \in SUBSET before
      OBVIOUS
    <3>5. /\ Cardinality({b \in before : prev <= b}) <= Cardinality(before)
          /\ Cardinality({b \in before : prev <= b}) \in Nat
      BY <1>5, <3>4, FS_Subset, FS_CardinalityType
    <3> QED
      BY <1>2, <1>5, <2>1, <3>3, <3>5
  <2>2. CASE ~ (Cardinality(before) < n)
    <3>1. n \in 1 .. Cardinality(before) /\ ip - 1 \in Nat
      BY <1>1, <1>2, <1>5, <2>2
    <3>2. PICK a \in before : RankFromTop(before, a) = n
      BY <1>5, <3>1, EveryRankFromTopIsTaken
    <3>3. \A c \in before : {b \in before : b >= c} = {b \in before : c <= b}
      BY <1>5
    <3>4. \E c \in before : Cardinality({b \in before : b >= c}) = n
      BY <3>2, <3>3 DEF RankFromTop
    <3>5. prev \in before /\ Cardinality({b \in before : b >= prev}) = n
      BY <1>3, <2>2, <3>4
    <3> QED
      BY <1>2, <3>3, <3>5
  <2> QED
    BY <2>1, <2>2
<1>7. {b \in before : prev <= b} = {b \in swept : prev <= b /\ b < ip}
  OBVIOUS
<1> QED
  BY <1>1, <1>2, <1>3, <1>6, <1>7 DEF FoundBack, swept, prev

\* From an instruction found so, the lines reach the one that was looked back from.
LEMMA LinesReachBack ==
  ASSUME NEW p \in Page, InStep(p), NEW ip \in Starts(p), NEW prev \in Starts(p),
         NEW n \in Nat, n < getViewableRowsCount, FoundBack(p, ip, n, prev),
         NEW count, count # 0
  PROVE  ip \in Rvas(Lines(p, count, prev))
<1> DEFINE V == getViewableRowsCount
           swept == Sweep(p, ip, n)
           B == {b \in swept : prev <= b /\ b < ip}
           j == V - 1
<1>1. ip \in Int /\ prev \in Int /\ ip < Len(Code[p]) /\ 0 <= ip /\ 0 <= prev
  BY StartsFollow
<1>9. prev \in swept /\ prev < ip /\ Cardinality(B) <= n
  BY DEF FoundBack
<1>10. /\ swept \in SUBSET Nat
       /\ \A a \in swept : a < ip => a + LengthAt(p, a) \in swept
  <2>1. ip \in Nat \ {0}
    BY <1>1, <1>9
  <2> QED
    BY <2>1, SweepStepsOn
<1> HIDE DEF swept
<1>2. V \in Nat \ {0, 1} /\ j \in Nat /\ j \in 0 .. V /\ j + 1 = V
  BY WindowHoldsLines
<1>3. PICK e \in [0 .. V -> Int] : Ends(e, p, prev)
  BY <1>1, EndsExist
<1>4. e[0] = prev /\ \A m \in 1 .. V :
        m - 1 \in 0 .. V /\ e[m] = e[m - 1] + LengthAt(p, e[m - 1])
  BY <1>1, <1>3, EndsGrow
<1>5. \A a, b \in 0 .. V : a < b => e[a] < e[b]
  BY <1>1, <1>3, EndsIncrease
<1> HIDE DEF V, j
<1>6. ASSUME ~ (ip <= e[j])
      PROVE  FALSE
  <2>1. \A k \in 0 .. j : k \in 0 .. V /\ e[k] \in Int /\ prev <= e[k] /\ e[k] < ip
    <3>1. ASSUME NEW k \in 0 .. j
          PROVE  k \in 0 .. V /\ e[k] \in Int /\ prev <= e[k] /\ e[k] < ip
      <4>1. k \in 0 .. V /\ 0 \in 0 .. V /\ (k < j \/ k = j) /\ (0 < k \/ k = 0)
        BY <1>2
      <4>2. e[k] \in Int /\ e[j] \in Int
        BY <1>2, <4>1
      <4>3. e[0] <= e[k] /\ e[k] <= e[j]
        BY <1>2, <1>5, <4>1, <4>2
      <4> QED
        BY <1>1, <1>4, <1>6, <4>1, <4>2, <4>3
    <3> QED
      BY <3>1
  <2> DEFINE T == {k \in 0 .. j : e[k] \notin swept}
  <2>2. ASSUME T # {}
        PROVE  FALSE
    <3>1. PICK k \in T : \A m \in T : k <= m
      <4>1. T \in SUBSET Nat
        BY <1>2
      <4> HIDE DEF T
      <4> QED
        BY <2>2, <4>1, LeastNumber
    <3>2. k \in 0 .. j /\ e[k] \notin swept
      OBVIOUS
    <3>3. k # 0
      BY <1>4, <1>9, <3>2
    <3>4. k - 1 \in 0 .. j /\ k \in 1 .. V /\ ~ (k <= k - 1)
      BY <1>2, <3>2, <3>3
    <3>5. e[k - 1] \in swept /\ e[k - 1] < ip
      BY <2>1, <3>1, <3>4
    <3> QED
      BY <1>4, <1>10, <3>2, <3>4, <3>5
  <2>3. \A k \in 0 .. j : e[k] \in B
    BY <2>1, <2>2
  <2> DEFINE f == [k \in 0 .. j |-> e[k]]
  <2>4. \A a, b \in 0 .. j : e[a] = e[b] => a = b
    <3>1. \A a, b \in 0 .. j : a \in Int /\ b \in Int /\ e[a] \in Int /\ e[b] \in Int
      BY <1>2, <2>1
    <3> QED
      BY <1>5, <2>1, <3>1
  <2>5. IsFiniteSet(B) /\ Cardinality(B) \in Nat
    <3>1. ip \in Nat
      BY <1>1
    <3>2. B \in SUBSET (0 .. ip)
      <4>1. \A b \in B : b \in 0 .. ip
        BY <1>10, <3>1
      <4> HIDE DEF B
      <4> QED
        BY <4>1
    <3>3. IsFiniteSet(0 .. ip)
      BY <1>1, FS_Interval
    <3> HIDE DEF B
    <3> QED
      BY <3>2, <3>3, FS_Subset, FS_CardinalityType
  <2>6. f \in Injection(0 .. j, B)
    <3>1. f \in [0 .. j -> B]
      BY <2>3
    <3>2. \A a, b \in 0 .. j : f[a] = f[b] => a = b
      BY <2>4
    <3> HIDE DEF f, B
    <3> QED
      BY <3>1, <3>2, Fun_IsInj
  <2>7. Cardinality(0 .. j) = j + 1 /\ Cardinality(0 .. j) <= Cardinality(B)
    <3>1. Cardinality(0 .. j) = j + 1
      BY <1>2, FS_Interval
    <3> HIDE DEF f, B
    <3> QED
      BY <2>5, <2>6, <3>1, FS_Injection
  <2>8. Cardinality(B) <= n /\ n < V
    BY <1>9 DEF V
  <2> HIDE DEF B
  <2> QED
    BY <1>2, <2>5, <2>7, <2>8
<1>7. PICK k \in 0 .. j : e[k] = ip
  <2>1. ip <= e[j] /\ prev <= ip
    BY <1>1, <1>6, <1>9
  <2> QED
    BY ONLY p \in Page, InStep(p), ip \in Starts(p), prev \in Starts(p), e \in [0 .. V -> Int],
            <1>2, <1>3, <2>1, StartIsALine DEF IsMet, V
<1>8. k \in 0 .. V - 1 /\ e[k] < Len(Code[p])
  BY <1>1, <1>2, <1>7
<1> QED
  BY <1>1, <1>3, <1>7, <1>8, LineIsShown DEF V
-----------------------------------------------------------------------------
(* A key.                                                                   *)

\* A key paints the lines of the position it chooses, whether it moves there or stays.
LEMMA KeyPaints ==
  ASSUME NEW key, keyPressEvent(key)
  PROVE  mInstBuffer' = Lines(page, mRowCount, OffsetAfter(key))
  BY DEF keyPressEvent, setTableOffset, repaint, rows

\* The lines of a position where an instruction starts are instructions of the page,
\* and behind those that do not fill the window it ends.
LEMMA CountedInPage ==
  ASSUME NEW p \in Page, InStep(p), NEW offset \in Starts(p),
         NEW e \in [0 .. getViewableRowsCount -> Int], Ends(e, p, offset),
         NEW Number, Counted(Number, p, offset), Number # 0
  PROVE  /\ \A k \in 0 .. Number - 1 : e[k] \in Starts(p) /\ e[k] < Len(Code[p])
         /\ Number = getViewableRowsCount \/ e[Number] = Len(Code[p])
<1> DEFINE V == getViewableRowsCount
           size == Len(Code[p])
           Walked(k) == getNextInstructionRVA(p, offset, k)
           T == {k \in 0 .. Number - 1 : ~ (e[k] < size)}
<1>1. /\ V \in Nat /\ size \in Nat /\ e \in [0 .. V -> Int]
      /\ offset \in Int /\ offset < size /\ Number \in 1 .. V
  <2>1. offset \in Int /\ offset < size
    BY StartsFollow
  <2> QED
    BY <2>1, WindowHoldsLines, CodeAssumption DEF Counted
<1>2. e[0] = offset /\ \A m \in 1 .. V :
        m - 1 \in 0 .. V /\ e[m] = e[m - 1] + LengthAt(p, e[m - 1])
  BY <1>1, EndsGrow
<1>3. \A m \in 0 .. V : e[m] \in Starts(p) \/ e[m] >= size
  BY EndsInStep
<1>4. \A m \in 0 .. V : e[m] < size => Walked(m) = e[m]
  BY <1>1, EndsAreWalked
<1>5. \A m \in Nat : Walked(m + 1) = Walked(m) + NextLength(p, Walked(m))
  BY <1>1, NextByOne
<1>6. /\ \A k \in 0 .. Number - 1 : NextLength(p, Walked(k)) # 0
      /\ Number = V \/ NextLength(p, Walked(Number)) = 0
  BY DEF Counted
<1> HIDE DEF V, size, Walked
<1>7. ASSUME NEW m \in 1 .. V, e[m - 1] < size
      PROVE  /\ e[m] \in Starts(p) \cup {size} /\ Walked(m) = e[m]
             /\ e[m - 1] \in Starts(p)
  <2>1. m - 1 \in 0 .. V /\ m - 1 \in Nat /\ (m - 1) + 1 = m /\ e[m - 1] \in Int
    <3>1. m - 1 \in 0 .. V /\ m - 1 \in Nat /\ (m - 1) + 1 = m
      BY <1>1
    <3> QED
      BY <1>1, <3>1
  <2>2. e[m - 1] \in Starts(p)
    BY <1>1, <1>3, <1>7, <2>1
  <2>3. /\ NextLength(p, e[m - 1]) = LengthAt(p, e[m - 1])
        /\ e[m - 1] + LengthAt(p, e[m - 1]) \in Starts(p) \cup {size}
    BY <2>2, StartsFollow DEF size
  <2>4. Walked(m - 1) = e[m - 1]
    BY <1>4, <1>7, <2>1
  <2>5. Walked(m) = Walked(m - 1) + NextLength(p, Walked(m - 1))
    BY <1>5, <2>1
  <2> QED
    BY <1>2, <2>2, <2>3, <2>4, <2>5
<1>8. ASSUME T # {}
      PROVE  FALSE
  <2>1. PICK k \in T : \A m \in T : k <= m
    <3>1. T \in SUBSET Nat
      BY <1>1
    <3> HIDE DEF T
    <3> QED
      BY <1>8, <3>1, LeastNumber
  <2>2. k \in 0 .. Number - 1 /\ ~ (e[k] < size)
    OBVIOUS
  <2>3. k # 0
    BY <1>1, <1>2, <2>2
  <2>4. k \in 1 .. V /\ k - 1 \in 0 .. Number - 1 /\ ~ (k <= k - 1)
    BY <1>1, <2>2, <2>3
  <2>5. e[k - 1] < size
    BY <2>1, <2>4
  <2>6. e[k] \in Starts(p) \cup {size} /\ Walked(k) = e[k]
    BY <1>7, <2>4, <2>5
  <2>7. e[k] = size
    BY <2>2, <2>6, StartsFollow DEF size
  <2>8. NextLength(p, size) = 0
    <3>1. size \in Int /\ size >= size
      BY <1>1
    <3> QED
      BY <3>1, Lengths DEF size
  <2> QED
    BY <1>6, <2>2, <2>6, <2>7, <2>8
<1>9. \A k \in 0 .. Number - 1 : e[k] \in Starts(p) /\ e[k] < size
  <2>1. ASSUME NEW k \in 0 .. Number - 1
        PROVE  e[k] \in Starts(p) /\ e[k] < size
    <3>1. e[k] < size
      BY <1>8
    <3>2. k \in 0 .. V
      BY <1>1
    <3>3. e[k] \in Int
      BY <1>1, <3>2
    <3> QED
      BY <1>1, <1>3, <3>1, <3>2, <3>3
  <2> QED
    BY <2>1
<1>10. ASSUME Number # V
       PROVE  e[Number] = size
  <2>1. Number - 1 \in 0 .. Number - 1
    BY <1>1
  <2>2. e[Number] \in Starts(p) \cup {size} /\ Walked(Number) = e[Number]
    BY <1>1, <1>7, <1>9, <2>1
  <2>3. NextLength(p, e[Number]) = 0
    BY <1>6, <1>10, <2>2
  <2> SUFFICES ASSUME e[Number] \in Starts(p)
               PROVE  FALSE
    BY <2>2
  <2>4. e[Number] \in Int /\ e[Number] < size
    BY StartsFollow DEF size
  <2> QED
    BY <2>3, <2>4, Lengths DEF size
<1> QED
  BY <1>9, <1>10 DEF V, size

\* In a table with rows the walks end at one of them.
LEMMA InstructionOfRow ==
  ASSUME RowsOfPage, mRowCount # 0, NEW index \in 0 .. Size - 1
  PROVE  /\ getInstructionRVA(index, 0) = index
         /\ \A count \in Nat \ {0} :
              LET addr == getPreviousInstructionRVA(page, index, count) IN
              addr \in 0 .. index => getInstructionRVA(index, -count) = addr
<1>1. mRowCount = Size /\ Size \in Nat \ {0} /\ index \in Int
  BY CodeAssumption DEF RowsOfPage, Size
<1> DEFINE Kept(addr) == IF addr < 0 THEN 0 ELSE Min({addr, mRowCount - 1})
<1>2. \A addr \in 0 .. index : Kept(addr) = addr
  BY <1>1 DEF Min
<1>3. \A count : getInstructionRVA(index, count) =
        Kept(IF count = 0 THEN index
             ELSE IF count < 0 THEN getPreviousInstructionRVA(page, index, -count)
             ELSE getNextInstructionRVA(page, index, count))
  BY <1>1 DEF getInstructionRVA
<1> HIDE DEF Kept
<1>4. getInstructionRVA(index, 0) = index
  <2>1. index \in 0 .. index
    BY <1>1
  <2> QED
    BY <1>2, <1>3, <2>1
<1>5. ASSUME NEW count \in Nat \ {0}, getPreviousInstructionRVA(page, index, count) \in 0 .. index
      PROVE  getInstructionRVA(index, -count) = getPreviousInstructionRVA(page, index, count)
  <2>1. -count # 0 /\ -count < 0 /\ -(-count) = count
    OBVIOUS
  <2> QED
    BY <1>2, <1>3, <1>5, <2>1
<1> QED
  BY <1>4, <1>5

\* A window that holds one instruction of a page shows its last one, and there is
\* another one before it.
LEMMA KeyUpLeavesLastLine ==
  ASSUME RowsOfPage, mRowCount # 0, NEW index \in 0 .. Size - 1,
         index + LengthAt(page, index) = Size
  PROVE  getInstructionRVA(index, -1) < index
<1>1. page \in Page /\ Size \in Nat \ {0} /\ mRowCount = Size /\ index \in Int
  BY CodeAssumption DEF RowsOfPage, Size
<1>2. Size > MaxLength
  BY <1>1, CodeAssumption DEF Size
<1>3. index >= 1
  <2>1. LengthAt(page, index) \in 1 .. MaxLength /\ LengthAt(page, index) \in Nat
    BY <1>1, Lengths
  <2>2. MaxLength \in Nat
    BY CodeAssumption
  <2> QED
    BY <1>1, <1>2, <2>1, <2>2
<1> DEFINE n == Min({1, MaxBack})
           prev == getPreviousInstructionRVA(page, index, 1)
<1>4. n = 1
  BY CodeAssumption DEF Min
<1>5. prev \in Sweep(page, index, n) /\ prev < index
  <2>1. 1 \in Nat \ {0} /\ index \in Nat /\ n <= index
    BY <1>1, <1>3, <1>4
  <2> HIDE DEF n
  <2> QED
    BY <1>1, <2>1, PreviousIsVisited DEF n, FoundBack
<1>6. prev \in Nat
  <2>1. Sweep(page, index, n) \in SUBSET Nat
    BY <1>1, <1>3, <1>4, SweepStepsOn
  <2> QED
    BY <1>5, <2>1
<1>7. getInstructionRVA(index, -1) = prev
  <2>1. prev \in 0 .. index /\ 1 \in Nat \ {0}
    BY <1>1, <1>5, <1>6
  <2> QED
    BY <2>1, InstructionOfRow
<1> QED
  BY <1>5, <1>7

\* What an instruction is looked back from is among the lines painted from there, if
\* no more are asked for than the window holds besides it.
LEMMA LookingBackShows ==
  ASSUME RowsOfPage, mRowCount # 0, InStep(page), NEW s \in Starts(page),
         NEW back \in Nat \ {0}, back < getViewableRowsCount
  PROVE  s \in Rvas(Lines(page, mRowCount, getInstructionRVA(s, -back)))
<1> DEFINE n == Min({back, MaxBack})
           prev == getPreviousInstructionRVA(page, s, back)
<1>1. /\ page \in Page /\ Size \in Nat \ {0} /\ mRowCount = Size
      /\ s \in 0 .. Size - 1 /\ s \in Nat
  <2>1. page \in Page /\ Size \in Nat \ {0} /\ mRowCount = Size
    BY CodeAssumption DEF RowsOfPage, Size
  <2>2. s \in 0 .. Size - 1
    BY <2>1, StartsFollow DEF Size
  <2> QED
    BY <2>1, <2>2
<1>2. prev \in 0 .. s => getInstructionRVA(s, -back) = prev
  BY <1>1, InstructionOfRow
<1>3. n \in Nat /\ n = Min({back, MaxBack})
  <2>1. n = IF back <= MaxBack THEN back ELSE MaxBack
    BY CodeAssumption DEF Min
  <2> QED
    BY <2>1, CodeAssumption
<1>4. prev = IF s < n THEN s ELSE prev
  BY DEF getPreviousInstructionRVA
<1> HIDE DEF n
<1>5. CASE s < n
  <2>1. getInstructionRVA(s, -back) = s
    BY <1>1, <1>2, <1>4, <1>5
  <2> QED
    BY <1>1, <2>1, FirstLineIsThere DEF Size
<1>6. CASE n <= s
  <2>1. /\ n \in 1 .. back /\ n \in 1 .. MaxBack /\ s \in Nat \ {0}
        /\ FoundBack(page, s, n, prev)
    BY <1>1, <1>3, <1>6, PreviousIsVisited
  <2>2. /\ prev \in Sweep(page, s, n) /\ prev < s
        /\ getPreviousInstructionRVA(page, s, n) = prev
    BY <2>1 DEF FoundBack
  <2>3. prev \in Starts(page)
    BY <1>1, <1>6, <2>1, <2>2 DEF InStep
  <2>4. getInstructionRVA(s, -back) = prev
    <3>1. prev \in Nat
      <4>1. Sweep(page, s, n) \in SUBSET Nat
        BY <1>1, <1>3, <2>1, SweepStepsOn
      <4> QED
        BY <2>2, <4>1
    <3>2. prev \in 0 .. s
      BY <1>1, <2>2, <3>1
    <3> QED
      BY <1>2, <3>2
  <2>5. n < getViewableRowsCount
    BY <2>1, WindowHoldsLines
  <2> HIDE DEF prev
  <2>6. s \in Rvas(Lines(page, mRowCount, prev))
    BY <1>1, <1>3, <2>1, <2>3, <2>5, LinesReachBack
  <2> QED
    BY <2>4, <2>6
<1> QED
  BY <1>1, <1>3, <1>5, <1>6

\* The only line of a window that holds more is the last instruction of the page.
LEMMA OnlyLineIsLast ==
  ASSUME RowsOfPage, Painted, mTableOffset \in Starts(page), InStep(page),
         Len(mInstBuffer) = 1
  PROVE  mTableOffset + LengthAt(page, mTableOffset) = Size
<1> DEFINE o == mTableOffset
<1>1. /\ page \in Page /\ mRowCount # 0 /\ mInstBuffer = Lines(page, mRowCount, o) /\ o \in Int
  BY StartsFollow DEF RowsOfPage, Painted
<1> HIDE DEF o
<1>2. PICK Number \in 0 .. getViewableRowsCount, e \in [0 .. getViewableRowsCount -> Int] :
        Prepared(mInstBuffer, Number, e, page, o)
  BY <1>1, LinesArePrepared
<1>3. Counted(Number, page, o) /\ Ends(e, page, o) /\ Number = 1
  BY <1>2 DEF Prepared
<1>4. 1 \in 1 .. getViewableRowsCount /\ 1 # getViewableRowsCount /\ 1 - 1 = 0
  BY WindowHoldsLines
<1>5. e[0] = o /\ e[1] = e[0] + LengthAt(page, e[0])
  <2>1. e \in [0 .. getViewableRowsCount -> Int]
    OBVIOUS
  <2>2. /\ e[0] = o
        /\ \A k \in 1 .. getViewableRowsCount : e[k] = e[k - 1] + LengthAt(page, e[k - 1])
    BY ONLY <1>1, <1>3, <2>1, EndsGrow
  <2> QED
    BY <1>4, <2>2
<1>6. e[Number] = Len(Code[page])
  <2>1. /\ e \in [0 .. getViewableRowsCount -> Int] /\ Number # 0
        /\ InStep(page) /\ o \in Starts(page)
    BY <1>3 DEF o
  <2>2. Number = getViewableRowsCount \/ e[Number] = Len(Code[page])
    BY ONLY <1>1, <1>3, <2>1, CountedInPage
  <2> QED
    BY <1>3, <1>4, <2>2
<1> QED
  BY <1>3, <1>5, <1>6 DEF Size, o

\* A key that moves the selection from a line to the instruction s chooses a position
\* from which s is painted.
LEMMA KeyOffsetShows ==
  ASSUME RowsOfPage, Painted, mTableOffset \in Starts(page), InStep(page),
         NEW key \in {"Up", "Down"}, getInitialSelection \in Rvas(mInstBuffer),
         NEW s \in Starts(page), s = SelectionAfter(key)
  PROVE  s \in Rvas(Lines(page, mRowCount, OffsetAfter(key)))
<1> DEFINE o == mTableOffset
           top == getInstructionRVA(o, Len(mInstBuffer) - 1)
           offset == OffsetAfter(key)
<1>1. /\ page \in Page /\ Size \in Nat \ {0} /\ mRowCount = Size /\ mRowCount # 0
      /\ mInstBuffer = Lines(page, mRowCount, o)
  BY CodeAssumption DEF RowsOfPage, Painted, Size
<1>2. /\ o \in 0 .. Size - 1 /\ o \in Int
      /\ s \in 0 .. Size - 1 /\ s \in Int /\ s < Size
  BY <1>1, StartsFollow DEF Size
<1>3. offset = IF s < o THEN s
               ELSE IF s >= top THEN getInstructionRVA(s, 2 - Len(mInstBuffer)) ELSE o
  <2>1. OffsetAfter(key) = CASE s < o -> s
                             [] s >= o /\ s >= top -> getInstructionRVA(s, 2 - Len(mInstBuffer))
                             [] OTHER -> o
    BY DEF OffsetAfter
  <2> HIDE DEF o, top
  <2> QED
    BY <1>2, <2>1
<1>4. s = getInstructionRVA(getInitialSelection, IF key = "Up" THEN -1 ELSE 1)
  BY DEF SelectionAfter
<1> HIDE DEF o, offset, top
<1>5. PICK Number \in 0 .. getViewableRowsCount, e \in [0 .. getViewableRowsCount -> Int] :
        Prepared(mInstBuffer, Number, e, page, o)
  BY <1>1, <1>2, LinesArePrepared
<1>6. /\ Counted(Number, page, o) /\ Ends(e, page, o) /\ Len(mInstBuffer) = Number
      /\ Rvas(mInstBuffer) = {e[n - 1] : n \in 1 .. Number}
      /\ \A n \in 1 .. Number : mInstBuffer[n].rva = e[n - 1]
  BY <1>5 DEF Prepared
<1>7. Number \in Nat \ {0} /\ Number <= getViewableRowsCount /\ getViewableRowsCount \in Nat
  <2>1. Number # 0
    BY <1>6
  <2> QED
    BY <2>1, WindowHoldsLines
<1>8. e[0] = o
  BY <1>1, <1>2, <1>6, EndsGrow
<1>9. \A k \in 0 .. Number - 1 : e[k] \in Starts(page) /\ e[k] < Size
  BY <1>1, <1>6, <1>7, CountedInPage DEF Size, o
<1>10. top = e[Number - 1]
  <2>1. LinesAgree
    BY PaintedLinesAgree
  <2>2. Number \in 1 .. Len(mInstBuffer) /\ Number - 1 \in 0 .. Number - 1 /\ Number \in 1 .. Number
    BY <1>6, <1>7
  <2>3. mInstBuffer[Number].rva = e[Number - 1] /\ e[Number - 1] < Size
    BY <1>6, <1>9, <2>2
  <2> QED
    BY <1>6, <2>1, <2>2, <2>3 DEF LinesAgree, o, top
<1>11. offset = s => s \in Rvas(Lines(page, mRowCount, offset))
  BY <1>1, <1>2, FirstLineIsThere DEF Size
<1>12. CASE s < o
  BY <1>3, <1>11, <1>12 DEF offset
<1>13. CASE ~ (s < o) /\ ~ (s >= top)
  <2>1. Number - 1 \in 0 .. getViewableRowsCount /\ Number - 1 \in 0 .. Number - 1
    BY <1>7
  <2>2. e[Number - 1] \in Int
    BY <2>1
  <2>3. o <= s /\ s <= e[Number - 1]
    BY <1>2, <1>10, <1>13, <2>2
  <2>4. PICK k \in 0 .. Number - 1 : e[k] = s
    <3> DEFINE j == Number - 1
    <3>1. /\ e \in [0 .. getViewableRowsCount -> Int] /\ Ends(e, page, o)
          /\ InStep(page) /\ o \in Starts(page) /\ s \in Starts(page)
          /\ j \in 0 .. getViewableRowsCount /\ s <= e[j] /\ o <= s /\ page \in Page
      BY <1>1, <1>6, <2>1, <2>3 DEF o
    <3> HIDE DEF j
    <3>2. IsMet(e, j, s)
      BY ONLY <3>1, StartIsALine
    <3> QED
      BY <3>2 DEF IsMet, j
  <2>5. k + 1 \in 1 .. Number /\ (k + 1) - 1 = k
    BY <1>7
  <2>6. s \in Rvas(mInstBuffer)
    BY <1>6, <2>4, <2>5
  <2> QED
    BY <1>1, <1>3, <1>13, <2>6 DEF offset
<1>14. CASE ~ (s < o) /\ s >= top
  <2>1. offset = getInstructionRVA(s, 2 - Number)
    BY <1>3, <1>6, <1>14
  <2>2. CASE Number = 1
    <3>1. getInitialSelection = o
      BY <1>6, <1>8, <2>2
    <3>2. o + LengthAt(page, o) = Size
      BY <1>6, <2>2, OnlyLineIsLast DEF o
    <3>3. s = o
      <4>1. o < s => o + LengthAt(page, o) <= s
        BY <1>1, StartsFollow DEF o
      <4>2. o < s => Size <= s
        BY <3>2, <4>1
      <4> QED
        BY <1>1, <1>2, <1>14, <4>2
    <3>4. CASE key = "Up"
      <4>1. getInstructionRVA(o, -1) < o
        BY <1>1, <1>2, <3>2, KeyUpLeavesLastLine
      <4>2. s < o
        BY <1>4, <3>1, <3>4, <4>1
      <4> QED
        BY <1>14, <4>2
    <3>5. CASE key = "Down"
      <4>1. s = getInstructionRVA(s, 1)
        BY <1>4, <3>1, <3>3, <3>5
      <4>2. offset = s
        BY <2>1, <2>2, <4>1
      <4> QED
        BY <1>11, <4>2 DEF offset
    <3> QED
      BY <3>4, <3>5
  <2>3. CASE Number = 2
    <3>1. getInstructionRVA(s, 0) = s
      BY <1>1, <1>2, InstructionOfRow
    <3>2. offset = s
      BY <2>1, <2>3, <3>1
    <3> QED
      BY <1>11, <3>2 DEF offset
  <2>4. CASE Number # 1 /\ Number # 2
    <3> DEFINE back == Number - 2
    <3>1. back \in Nat \ {0} /\ 2 - Number = -back /\ back < getViewableRowsCount
      BY <1>7, <2>4
    <3> HIDE DEF back
    <3>2. offset = getInstructionRVA(s, -back)
      BY <2>1, <3>1
    <3>3. s \in Rvas(Lines(page, mRowCount, getInstructionRVA(s, -back)))
      BY <1>1, <3>1, LookingBackShows
    <3> QED
      BY <3>2, <3>3 DEF offset
  <2> QED
    BY <2>2, <2>3, <2>4
<1> QED
  BY <1>12, <1>13, <1>14

\* So it is painted.
LEMMA StepKeyShows ==
  ASSUME RowsOfPage, NEW key \in {"Up", "Down"}, keyPressEvent(key),
         Painted, mTableOffset \in Starts(page), InStep(page),
         getInitialSelection \in Rvas(mInstBuffer), SelectionAfter(key) \in Starts(page)
  PROVE  SelectionAfter(key) \in Rvas(mInstBuffer')
<1>1. mInstBuffer' = Lines(page, mRowCount, OffsetAfter(key))
  BY KeyPaints
<1>2. SelectionAfter(key) \in Rvas(Lines(page, mRowCount, OffsetAfter(key)))
  BY KeyOffsetShows
<1> QED
  BY <1>1, <1>2

\* The arrow keys keep the selection in sight, for any code, page and window, if the
\* page is longer than an instruction.
THEOREM KeysShowSelection == DisSpec => KeyShowsSelection
<1>1. DisInit => RowsOfPage
  BY InitRowsOfPage
<1>2. RowsOfPage /\ [DisNext]_disVars => RowsOfPage'
  BY NextRowsOfPage
<1> DEFINE Shows == \A key \in {"Up", "Down"} :
             /\ keyPressEvent(key)
             /\ Painted /\ mTableOffset \in Starts(page) /\ InStep(page)
             /\ getInitialSelection \in Rvas(mInstBuffer)
             /\ SelectionAfter(key) \in Starts(page)
             => SelectionAfter(key) \in Rvas(mInstBuffer')
<1>3. RowsOfPage => Shows
  BY StepKeyShows
<1>4. KeyShowsSelection <=> [][Shows]_disVars
  BY DEF KeyShowsSelection
<1> HIDE DEF Shows
<1> QED
  BY <1>1, <1>2, <1>3, <1>4, PTL DEF DisSpec

-----------------------------------------------------------------------------
(* The table, the selection and the lines.                                  *)

\* Where the table may stand.
AnyOffset == {offset \in Int : \E row \in AnyRow, length \in 0 .. MaxLength : offset = row + length}

\* What is in a sequence.
LEMMA ElementsAreIn ==
  ASSUME NEW S, NEW s \in Seq(S)
  PROVE  /\ \A i \in 1 .. Len(s) : s[i] \in S
         /\ s # <<>> => Head(s) \in S
<1>1. \A i \in 1 .. Len(s) : s[i] \in S
  OBVIOUS
<1>2. ASSUME s # <<>>
      PROVE  Head(s) \in S
  <2>1. Len(s) \in Nat \ {0}
    BY <1>2, EmptySeq
  <2> QED
    BY <1>1, <2>1
<1> QED
  BY <1>1, <1>2

\* Lines from a row.
LinesOfRow(lines) ==
  /\ lines \in Seq([rva : Nat, length : 1 .. MaxLength])
  /\ lines # <<>> => Head(lines).rva \in AnyRow

\* The inductive invariant: the columns, the rows of the page, a bar that is scaled for
\* them, and a table, a selection and lines at rows of some page: the pages change
\* under all three.
DisKept ==
  /\ ColumnsKept /\ RowsOfPage /\ BarFits(scroll, mRowCount)
  /\ mTableOffset \in AnyOffset
  /\ mSelection \in [firstSelectedIndex : AnyRow, fromIndex : AnyRow, toIndex : AnyRow]
  /\ LinesOfRow(mInstBuffer)

\* A row is a number, and a place for the table.
LEMMA RowsAreOffsets ==
  /\ AnyRow \subseteq Int /\ AnyRow \subseteq AnyOffset /\ 0 \in AnyRow /\ -1 \in AnyRow
  /\ \A p \in Page : 0 .. Len(Code[p]) - 1 \subseteq AnyRow
<1>1. AnyRow \subseteq Int
  BY CodeAssumption DEF AnyRow
<1>2. \A row \in AnyRow : row = row + 0
  BY <1>1
<1>3. 0 \in 0 .. MaxLength
  BY CodeAssumption
<1> QED
  BY <1>1, <1>2, <1>3 DEF AnyOffset, AnyRow

\* The lines that a paint prepares are lines from a row.
LEMMA PaintedFromRow ==
  ASSUME NEW p \in Page, NEW count, NEW offset \in Int,
         count # 0 => offset \in 0 .. Len(Code[p])
  PROVE  LinesOfRow(Lines(p, count, offset))
<1> DEFINE V == getViewableRowsCount
           Line == [rva : Nat, length : 1 .. MaxLength]
           lines == Lines(p, count, offset)
<1>0. lines = Lines(p, count, offset)
  OBVIOUS
<1>1. CASE count = 0
  BY <1>1 DEF Lines, LinesOfRow
<1>2. CASE count # 0
  <2> HIDE DEF lines
  <2>1. PICK Number \in 0 .. V, e \in [0 .. V -> Int] :
          /\ Counted(Number, p, offset) /\ Ends(e, p, offset)
          /\ lines = [n \in 1 .. Number |-> [rva |-> e[n - 1], length |-> LengthAt(p, e[n - 1])]]
    BY <1>0, <1>2, LinesAre
  <2>2. V \in Nat /\ offset \in Nat /\ offset <= Len(Code[p]) /\ e[0] = offset
        /\ Len(Code[p]) \in Nat
    <3>1. V \in Nat
      BY WindowHoldsLines
    <3>2. e[0] = offset
      BY <2>1, EndsGrow
    <3>3. Len(Code[p]) \in Nat
      BY CodeAssumption
    <3> QED
      BY <1>2, <3>1, <3>2, <3>3
  <2>3. \A k \in 0 .. V : e[k] \in Nat /\ offset <= e[k]
    <3> SUFFICES ASSUME NEW k \in 0 .. V
                 PROVE  e[k] \in Nat /\ offset <= e[k]
      OBVIOUS
    <3>1. 0 \in 0 .. V /\ e[k] \in Int
      BY <2>2
    <3>2. 0 < k => e[0] < e[k]
      BY <2>1, <3>1, EndsIncrease
    <3>3. k = 0 \/ 0 < k
      BY <2>2
    <3> QED
      BY <2>2, <3>1, <3>2, <3>3
  <2> HIDE DEF V
  <2>4. \A n \in 1 .. Number : [rva |-> e[n - 1], length |-> LengthAt(p, e[n - 1])] \in Line
    <3> SUFFICES ASSUME NEW n \in 1 .. Number
                 PROVE  e[n - 1] \in Nat /\ LengthAt(p, e[n - 1]) \in 1 .. MaxLength
      OBVIOUS
    <3>1. n - 1 \in 0 .. V
      BY <2>2
    <3>2. e[n - 1] \in Nat /\ e[n - 1] \in Int
      BY <2>3, <3>1
    <3> QED
      BY <3>2, Lengths
  <2>5. lines \in Seq(Line)
    <3>1. Number \in Nat
      BY <2>2
    <3> HIDE DEF Line
    <3>2. lines \in [1 .. Number -> Line]
      BY <2>1, <2>4
    <3> QED
      BY <3>1, <3>2
  <2>6. ASSUME lines # <<>>
        PROVE  Head(lines).rva \in AnyRow
    <3>1. Number # 0 /\ Len(lines) = Number
      <4>1. DOMAIN lines = 1 .. Number /\ Number \in Nat
        BY <2>1, <2>2
      <4> QED
        BY <2>5, <2>6, <4>1, EmptySeq
    <3>2. 1 \in 1 .. Number /\ 0 \in 0 .. Number - 1 /\ 1 - 1 = 0
      BY <2>2, <3>1
    <3>3. Head(lines).rva = offset
      BY <2>1, <2>2, <2>5, <2>6, <3>2
    <3>4. NextLength(p, offset) # 0
      <4>1. NextLength(p, getNextInstructionRVA(p, offset, 0)) # 0
        BY <2>1, <3>2 DEF Counted
      <4>2. getNextInstructionRVA(p, offset, 0) = offset
        BY NextByOne
      <4> QED
        BY <4>1, <4>2
    <3>5. ~ (offset >= Len(Code[p]))
      BY <3>4, Lengths
    <3>6. offset \in 0 .. Len(Code[p]) - 1
      BY <2>2, <3>5
    <3> QED
      BY <3>3, <3>6, RowsAreOffsets
  <2> QED
    BY <1>0, <2>5, <2>6 DEF LinesOfRow
<1> QED
  BY <1>1, <1>2

\* A walk ends at a row of the table, and without rows at -1 or 0.
LEMMA WalksEndAtRows ==
  ASSUME RowsOfPage, NEW index \in Int, Walks(index), NEW count \in Int
  PROVE  /\ getInstructionRVA(index, count) \in AnyRow
         /\ mRowCount # 0 => getInstructionRVA(index, count) \in 0 .. Size - 1
<1>1. CASE mRowCount = 0
  BY <1>1, RowsAreOffsets DEF getInstructionRVA
<1>2. CASE mRowCount # 0
  <2> DEFINE addr == IF count = 0 THEN index
                     ELSE IF count < 0 THEN getPreviousInstructionRVA(page, index, -count)
                     ELSE getNextInstructionRVA(page, index, count)
  <2>1. /\ page \in Page /\ mRowCount = Size /\ Size \in Nat \ {0} /\ Size = Len(Code[page])
        /\ index \in Nat
    BY <1>2, CodeAssumption DEF RowsOfPage, Size, Walks
  <2>2. addr \in Int
    <3>1. CASE count = 0
      BY <3>1
    <3>2. CASE count > 0
      BY <2>1, <3>2, NextByOne
    <3>3. CASE count < 0
      <4> DEFINE back == -count
                 n == Min({back, MaxBack})
                 prev == getPreviousInstructionRVA(page, index, back)
      <4>1. back \in Nat \ {0}
        BY <3>3
      <4> HIDE DEF back
      <4>2. n \in Int
        <5>1. n = IF back <= MaxBack THEN back ELSE MaxBack
          BY <4>1, CodeAssumption DEF Min
        <5> QED
          BY <4>1, <5>1, CodeAssumption
      <4>3. CASE index < n
        <5>1. prev = index
          BY <4>3 DEF getPreviousInstructionRVA
        <5> QED
          BY <3>3, <5>1 DEF back
      <4>4. CASE ~ (index < n)
        <5> DEFINE m == n
        <5>1. m = Min({back, MaxBack}) /\ m <= index
          BY <2>1, <4>2, <4>4
        <5> HIDE DEF m
        <5>2. m \in Nat /\ FoundBack(page, index, m, prev) /\ index \in Nat \ {0}
          BY <2>1, <4>1, <5>1, PreviousIsVisited
        <5>3. Sweep(page, index, m) \in SUBSET Nat
          BY <2>1, <5>2, SweepStepsOn
        <5>4. prev \in Int
          BY <5>2, <5>3 DEF FoundBack
        <5> QED
          BY <3>3, <5>4 DEF back
      <4> QED
        BY <4>3, <4>4
    <3> QED
      BY <3>1, <3>2, <3>3
  <2>3. getInstructionRVA(index, count) = IF addr < 0 THEN 0 ELSE Min({addr, mRowCount - 1})
    BY <1>2 DEF getInstructionRVA
  <2> HIDE DEF addr
  <2>4. Min({addr, mRowCount - 1}) = IF addr <= mRowCount - 1 THEN addr ELSE mRowCount - 1
    BY <2>1, <2>2 DEF Min
  <2> DEFINE row == getInstructionRVA(index, count)
  <2>5. row = IF addr < 0 THEN 0 ELSE IF addr <= mRowCount - 1 THEN addr ELSE mRowCount - 1
    BY <2>3, <2>4
  <2>6. mRowCount \in Nat \ {0} /\ mRowCount = Size
    BY <2>1
  <2> HIDE DEF row
  <2>7. row \in 0 .. mRowCount - 1
    BY ONLY <2>2, <2>5, <2>6
  <2>8. getInstructionRVA(index, count) \in 0 .. Size - 1
    BY <2>6, <2>7 DEF row
  <2>9. getInstructionRVA(index, count) \in AnyRow
    BY <2>1, <2>8, RowsAreOffsets
  <2> QED
    BY <2>8, <2>9
<1> QED
  BY <1>1, <1>2

\* A selection of rows, alone or extended.
LEMMA SelectionsAreRows ==
  ASSUME DisKept, NEW i \in AnyRow, mSelection' = Single(i) \/ mSelection' = expandSelectionUpTo(i)
  PROVE  mSelection' \in [firstSelectedIndex : AnyRow, fromIndex : AnyRow, toIndex : AnyRow]
<1>1. CASE mSelection' = Single(i)
  BY <1>1 DEF Single
<1>2. CASE mSelection' = expandSelectionUpTo(i)
  <2> DEFINE first == mSelection.firstSelectedIndex
  <2>1. /\ mSelection \in [firstSelectedIndex : AnyRow, fromIndex : AnyRow, toIndex : AnyRow]
        /\ first \in AnyRow /\ i \in Int /\ first \in Int
    BY RowsAreOffsets DEF DisKept
  <2>2. \/ mSelection' = [mSelection EXCEPT !.fromIndex = i, !.toIndex = first]
        \/ mSelection' = [mSelection EXCEPT !.fromIndex = first, !.toIndex = i]
        \/ mSelection' = mSelection
    <3>1. CASE i < first
      BY <1>2, <3>1 DEF expandSelectionUpTo, getInitialSelection
    <3>2. CASE i > first
      BY <1>2, <2>1, <3>2 DEF expandSelectionUpTo, getInitialSelection
    <3>3. CASE i = first
      BY <1>2, <2>1, <3>3 DEF expandSelectionUpTo, getInitialSelection
    <3> QED
      BY <2>1, <3>1, <3>2, <3>3
  <2> HIDE DEF first
  <2> QED
    BY <2>1, <2>2
<1> QED
  BY <1>1, <1>2

\* Handlers of the mouse leave the rows alone; they paint where the table stands.
LEMMA MouseKeepsLines ==
  ASSUME DisKept, ColumnsKept', UNCHANGED <<rows, page>>,
         mSelection' \in [firstSelectedIndex : AnyRow, fromIndex : AnyRow, toIndex : AnyRow],
         UNCHANGED mInstBuffer \/ (Walks(mTableOffset) /\ repaint)
  PROVE  DisKept'
<1>1. UNCHANGED <<mTableOffset, mRowCount, scroll>>
  BY DEF rows
<1>2. RowsOfPage' /\ BarFits(scroll, mRowCount)' /\ mTableOffset' \in AnyOffset
  BY <1>1 DEF DisKept, RowsOfPage, Size, BarFits
<1>3. LinesOfRow(mInstBuffer')
  <2>1. CASE UNCHANGED mInstBuffer
    BY <2>1 DEF DisKept
  <2>2. CASE Walks(mTableOffset) /\ repaint
    <3>1. mInstBuffer' = Lines(page, mRowCount, mTableOffset)
      BY <1>1, <2>2 DEF repaint
    <3>2. page \in Page /\ mTableOffset \in Int
      BY DEF DisKept, RowsOfPage, AnyOffset
    <3>3. mRowCount # 0 => mTableOffset \in 0 .. Len(Code[page])
      BY <2>2 DEF Walks, Size, DisKept, BarFits, int_t
    <3> QED
      BY <3>1, <3>2, <3>3, PaintedFromRow
  <2> QED
    BY <2>1, <2>2
<1> QED
  BY <1>2, <1>3 DEF DisKept

\* The line under the pointer is one of those painted.
LEMMA PointerIsOnAPaintedLine ==
  ASSUME DisKept, mInstBuffer # <<>>, NEW y \in Int, InTable(y)
  PROVE  /\ LineAt(y).rva \in Nat
         /\ LineAt(y).rva < mRowCount => LineAt(y).rva \in AnyRow
<1> DEFINE k == getIndexOffsetFromY(transY(y))
           last == Len(mInstBuffer) - 1
           i == Min({k, last}) + 1
<1>1. mInstBuffer \in Seq([rva : Nat, length : 1 .. MaxLength]) /\ Len(mInstBuffer) \in Nat \ {0}
  BY EmptySeq DEF DisKept, LinesOfRow
<1>2. k \in Nat
  <2>1. y >= HeaderHeight
    BY SizesAssumption DEF InTable, transY
  <2> QED
    BY <2>1, PointerIsOnALine
<1> HIDE DEF k
<1>3. i \in 1 .. Len(mInstBuffer)
  <2>1. Min({k, last}) = IF k <= last THEN k ELSE last
    BY <1>1, <1>2 DEF Min
  <2> QED
    BY <1>1, <1>2, <2>1
<1>4. LineAt(y) = mInstBuffer[i]
  BY DEF LineAt, k
<1> HIDE DEF i
<1>5. LineAt(y).rva \in Nat
  <2>1. mInstBuffer[i] \in [rva : Nat, length : 1 .. MaxLength]
    BY <1>1, <1>3, ElementsAreIn
  <2> QED
    BY <1>4, <2>1
<1>6. ASSUME LineAt(y).rva < mRowCount
      PROVE  LineAt(y).rva \in AnyRow
  <2>1. page \in Page /\ mRowCount \in {0, Len(Code[page])} /\ Len(Code[page]) \in Nat
    BY CodeAssumption DEF DisKept, RowsOfPage, Size
  <2>2. LineAt(y).rva \in 0 .. Len(Code[page]) - 1
    BY <1>5, <1>6, <2>1
  <2> QED
    BY <2>1, <2>2, RowsAreOffsets
<1> QED
  BY <1>5, <1>6

\* A key moves the table to a row, or leaves it where it is.
LEMMA KeyMovesToRow ==
  ASSUME DisKept, NEW key \in {"Up", "Down"}, Walks(mTableOffset), Walks(getInitialSelection)
  PROVE  /\ SelectionAfter(key) \in AnyRow
         /\ OffsetAfter(key) \in AnyOffset
         /\ mRowCount # 0 => OffsetAfter(key) \in 0 .. Size
<1> DEFINE sel == SelectionAfter(key)
           nbr == Len(mInstBuffer)
           top == getInstructionRVA(mTableOffset, nbr - 1)
           back == getInstructionRVA(sel, 2 - nbr)
<1>1. /\ RowsOfPage /\ mTableOffset \in Int /\ mTableOffset \in AnyOffset /\ nbr \in Nat
      /\ getInitialSelection \in Int /\ mRowCount \in Nat
      /\ Size \in Nat /\ mRowCount \in {0, Size}
  <2>1. RowsOfPage /\ mTableOffset \in AnyOffset /\ mTableOffset \in Int
    BY DEF DisKept, AnyOffset
  <2>2. nbr \in Nat
    BY DEF DisKept, LinesOfRow
  <2>3. getInitialSelection \in AnyRow
    BY DEF DisKept, getInitialSelection
  <2>4. Size \in Nat
    BY <2>1, CodeAssumption DEF RowsOfPage, Size
  <2>5. mRowCount \in {0, Size}
    BY <2>1 DEF RowsOfPage
  <2> HIDE DEF nbr
  <2> QED
    BY <2>1, <2>2, <2>3, <2>4, <2>5, RowsAreOffsets
<1>2. sel \in AnyRow /\ (mRowCount # 0 => sel \in 0 .. Size - 1)
  <2>1. (IF key = "Up" THEN -1 ELSE 1) \in Int
    OBVIOUS
  <2> QED
    BY <1>1, <2>1, WalksEndAtRows DEF SelectionAfter
<1> HIDE DEF sel, nbr
<1>3. sel \in Int /\ Walks(sel)
  <2>1. sel \in Int
    BY <1>2, RowsAreOffsets
  <2>2. ASSUME mRowCount > 0
        PROVE  sel \in 0 .. Size
    <3>1. sel \in 0 .. Size - 1
      BY <1>1, <1>2, <2>2
    <3> QED
      BY <1>1, <3>1
  <2> QED
    BY <2>1, <2>2 DEF Walks
<1>4. top \in Int
  <2>1. nbr - 1 \in Int
    BY <1>1
  <2> QED
    BY <1>1, <2>1, WalksEndAtRows, RowsAreOffsets
<1>5. back \in AnyRow /\ (mRowCount # 0 => back \in 0 .. Size - 1)
  <2>1. 2 - nbr \in Int
    BY <1>1
  <2> QED
    BY <1>1, <1>3, <2>1, WalksEndAtRows
<1>6. OffsetAfter(key) = CASE sel < mTableOffset -> sel
                           [] sel >= mTableOffset /\ sel >= top -> back
                           [] OTHER -> mTableOffset
  BY DEF OffsetAfter, sel, nbr
<1> HIDE DEF top, back
<1>7. OffsetAfter(key) \in {sel, back, mTableOffset}
  <2>1. CASE sel < mTableOffset
    BY <1>1, <1>3, <1>6, <2>1
  <2>2. CASE ~ (sel < mTableOffset) /\ sel >= mTableOffset /\ sel >= top
    BY <1>6, <2>2
  <2>3. CASE ~ (sel < mTableOffset) /\ ~ (sel >= mTableOffset /\ sel >= top)
    BY <1>6, <2>3
  <2> QED
    BY <2>1, <2>2, <2>3
<1>8. mRowCount # 0 => mTableOffset \in 0 .. Size
  BY <1>1 DEF Walks
<1>9. OffsetAfter(key) \in AnyOffset
  <2>1. sel \in AnyOffset /\ back \in AnyOffset
    BY <1>2, <1>5, RowsAreOffsets
  <2> QED
    BY <1>1, <1>7, <2>1
<1>10. ASSUME mRowCount # 0
       PROVE  OffsetAfter(key) \in 0 .. Size
  <2>1. sel \in 0 .. Size /\ back \in 0 .. Size
    BY <1>1, <1>2, <1>5, <1>10
  <2> QED
    BY <1>7, <1>8, <1>10, <2>1
<1> QED
  BY <1>2, <1>9, <1>10 DEF sel

\* The slider moves the table to a row.
LEMMA SliderMovesToRow ==
  ASSUME DisKept, Walks(mTableOffset), NEW action \in SliderAction
  PROVE  InstructionMovedTo(action[1], action[2]) \in AnyRow
<1> DEFINE delta == action[2]
           target == mTableOffset + delta
<1>1. RowsOfPage /\ BarFits(scroll, mRowCount) /\ mTableOffset \in Int
  BY DEF DisKept, AnyOffset
<1>2. delta \in Int
  BY <1>1, ActionsMoveByNumbers
<1>3. CASE action[1] # "SliderMove"
  <2>1. InstructionMovedTo(action[1], action[2]) = getInstructionRVA(mTableOffset, delta)
    BY <1>3 DEF InstructionMovedTo
  <2> QED
    BY <1>1, <1>2, <2>1, WalksEndAtRows
<1>4. CASE action[1] = "SliderMove"
  <2>1. PICK pos \in 0 .. scroll.max : delta = DistanceTo(pos)
    BY <1>4 DEF SliderAction, StepActions, PageActions
  <2>2. mRowCount > 0 => target \in 0 .. Size
    <3>1. ASSUME mRowCount > 0
          PROVE  target \in 0 .. Size
      <4> DEFINE there == scaleFromScrollBarRangeToUint64(scroll, mRowCount, pos)
      <4>1. there \in 0 .. mRowCount /\ mRowCount \in Nat
        BY <1>1, <3>1, PositionsAreRows DEF BarFits, int_t
      <4>2. delta = there - mTableOffset
        BY <2>1 DEF DistanceTo
      <4>3. mRowCount = Size
        BY <1>1, <3>1 DEF RowsOfPage
      <4> HIDE DEF there, delta
      <4> QED
        BY <1>1, <4>1, <4>2, <4>3
    <3> QED
      BY <3>1
  <2> HIDE DEF delta
  <2>3. target \in Int
    BY <1>1, <1>2
  <2> HIDE DEF target
  <2> DEFINE before == getInstructionRVA(target, -1)
  <2>4. before \in AnyRow /\ (mRowCount # 0 => before \in 0 .. Size - 1)
    <3>1. Walks(target) /\ -1 \in Int
      BY <2>2 DEF Walks
    <3> QED
      BY <1>1, <2>3, <3>1, WalksEndAtRows
  <2> HIDE DEF before
  <2>5. getInstructionRVA(before, 1) \in AnyRow
    <3>1. before \in Int /\ 1 \in Int
      BY <2>4, RowsAreOffsets
    <3>2. Walks(before)
      <4>1. mRowCount \in Nat /\ Size \in Nat
        BY <1>1, CodeAssumption DEF BarFits, int_t, RowsOfPage, Size
      <4> QED
        BY <2>4, <4>1 DEF Walks
    <3> QED
      BY <1>1, <3>1, <3>2, WalksEndAtRows
  <2>6. InstructionMovedTo(action[1], action[2]) =
          IF target > 0 THEN getInstructionRVA(before, 1) ELSE 0
    BY <1>4 DEF InstructionMovedTo, before, target, delta
  <2> QED
    BY <2>5, <2>6, RowsAreOffsets
<1> QED
  BY <1>3, <1>4

\* Every event keeps the invariant.
LEMMA EventKeepsDis ==
  ASSUME DisKept, [DisNext]_disVars
  PROVE  DisKept'
<1> DEFINE Selections == [firstSelectedIndex : AnyRow, fromIndex : AnyRow, toIndex : AnyRow]
<1>1. /\ ColumnsKept /\ RowsOfPage /\ BarFits(scroll, mRowCount) /\ mTableOffset \in Int
      /\ mSelection \in Selections /\ LinesOfRow(mInstBuffer) /\ mTableOffset \in AnyOffset
  BY DEF DisKept, AnyOffset
<1>2. RowsOfPage'
  BY <1>1, NextRowsOfPage
<1>3. ASSUME NEW q \in Positions, mouseMoveEvent(q[1], q[2])
      PROVE  DisKept'
  <2>1. q[1] \in Int /\ q[2] \in Int
    BY PointerAssumption DEF Positions
  <2>2. Moved(q[1], q[2]) /\ UNCHANGED <<rows, page>>
    BY <1>3 DEF mouseMoveEvent
  <2>3. CASE mGuiState = "MultiRowsSelectionState" /\ InTable(q[2])
    <3>1. /\ mInstBuffer # <<>> /\ UNCHANGED <<mGuiState, columns>>
          /\ \/ /\ LineAt(q[2]).rva < mRowCount
                /\ mSelection' = expandSelectionUpTo(LineAt(q[2]).rva)
                /\ Walks(mTableOffset) /\ repaint
             \/ UNCHANGED <<mSelection, mInstBuffer>>
      BY <1>3, <2>3 DEF mouseMoveEvent
    <3>2. ColumnsKept'
      <4>1. TableMouseMove(q[1])
        BY <2>3, <3>1 DEF TableMouseMove
      <4> QED
        BY <1>1, <2>1, <2>2, <4>1, MoveKeepsTable
    <3>3. mSelection' \in Selections
      <4>1. LineAt(q[2]).rva < mRowCount => LineAt(q[2]).rva \in AnyRow
        BY <2>1, <2>3, <3>1, PointerIsOnAPaintedLine
      <4> QED
        BY <1>1, <3>1, <4>1, SelectionsAreRows
    <3> QED
      BY <2>2, <3>1, <3>2, <3>3, MouseKeepsLines
  <2>4. CASE ~ (mGuiState = "MultiRowsSelectionState" /\ InTable(q[2]))
    <3>1. /\ TableMouseMove(q[1]) /\ UNCHANGED mSelection
          /\ UNCHANGED mInstBuffer \/ (Walks(mTableOffset) /\ repaint)
      BY <1>3, <2>4 DEF mouseMoveEvent, repaintIf
    <3>2. ColumnsKept'
      BY <1>1, <2>1, <2>2, <3>1, MoveKeepsTable
    <3> QED
      BY <1>1, <2>2, <3>1, <3>2, MouseKeepsLines
  <2> QED
    BY <2>3, <2>4
<1>4. CASE mousePressEvent
  <2> DEFINE x == pointer[1]
             y == pointer[2]
             rva == getInstructionRVA(mTableOffset, getIndexOffsetFromY(transY(y)))
             onLine == mGuiState = "NoState" /\ y > HeaderHeight /\ rva < mRowCount
  <2>1. UNCHANGED <<rows, page, pointer>> /\ left' = TRUE /\ y \in Int
    BY <1>1, <1>4 DEF mousePressEvent, Pressed, ColumnsKept
  <2>2. CASE onLine
    <3>1. /\ Walks(mTableOffset) /\ mSelection' = Single(rva)
          /\ mGuiState' = "MultiRowsSelectionState" /\ UNCHANGED columns /\ repaint
      BY <1>4, <2>2 DEF mousePressEvent
    <3>2. ColumnsKept'
      BY <1>1, <2>1, <3>1, PressKeepsTable
    <3>3. rva \in AnyRow
      <4>1. getIndexOffsetFromY(transY(y)) \in Int
        BY <2>1, <2>2, PointerIsOnALine, SizesAssumption
      <4> QED
        BY <1>1, <3>1, <4>1, WalksEndAtRows
    <3> HIDE DEF rva
    <3> QED
      BY <2>1, <3>1, <3>2, <3>3, SelectionsAreRows, MouseKeepsLines
  <2>3. CASE ~onLine
    <3>1. /\ TableMousePress(x, y) /\ UNCHANGED mSelection
          /\ UNCHANGED mInstBuffer \/ (Walks(mTableOffset) /\ repaint)
      BY <1>4, <2>3 DEF mousePressEvent, repaintIf
    <3>2. ColumnsKept'
      BY <1>1, <2>1, <3>1, PressKeepsTable
    <3> QED
      BY <1>1, <2>1, <3>1, <3>2, MouseKeepsLines
  <2> QED
    BY <2>2, <2>3
<1>5. CASE mouseReleaseEvent
  <2>1. /\ UNCHANGED <<rows, page, mSelection, pointer, columns>>
        /\ left /\ left' = FALSE /\ Walks(mTableOffset) /\ repaint
        /\ mGuiState' = IF mGuiState \in {"MultiRowsSelectionState", "ResizeColumnState",
                                          "HeaderButtonPressed"}
                        THEN "NoState" ELSE mGuiState
    BY <1>5 DEF mouseReleaseEvent, Released, TableMouseRelease
  <2>2. ColumnsKept'
    BY <1>1, <2>1, ReleaseKeepsTable
  <2> QED
    BY <1>1, <2>1, <2>2, MouseKeepsLines
<1>6. ASSUME NEW key \in {"Up", "Down"}, keyPressEvent(key)
      PROVE  DisKept'
  <2> DEFINE offset == OffsetAfter(key)
             sel == SelectionAfter(key)
  <2>1. /\ Walks(mTableOffset) /\ Walks(getInitialSelection) /\ mSelection' = Single(sel)
        /\ UNCHANGED <<columns, mGuiState, mouse, page>>
        /\ IF offset = mTableOffset THEN UNCHANGED rows ELSE setTableOffset(offset)
    BY <1>6 DEF keyPressEvent
  <2>2. sel \in AnyRow /\ offset \in AnyOffset /\ (mRowCount # 0 => offset \in 0 .. Size)
    BY <2>1, KeyMovesToRow
  <2> HIDE DEF offset, sel
  <2>3. offset \in Int
    BY <2>2 DEF AnyOffset
  <2>4. /\ UNCHANGED mRowCount /\ mTableOffset' = offset
        /\ scroll' = scroll \/ scroll' = SetValue(scroll, mRowCount, offset)
    BY <2>1 DEF setTableOffset, rows
  <2>5. BarFits(scroll, mRowCount)'
    <3>1. BarFits(SetValue(scroll, mRowCount, offset), mRowCount)
      BY <1>1, <2>3, ValueFits
    <3> QED
      BY <1>1, <2>4, <3>1 DEF BarFits
  <2>6. LinesOfRow(mInstBuffer')
    <3>1. mInstBuffer' = Lines(page, mRowCount, offset)
      BY <1>6, KeyPaints DEF offset
    <3> QED
      BY <1>1, <2>2, <2>3, <3>1, PaintedFromRow DEF RowsOfPage, Size
  <2>7. mSelection' \in Selections
    BY <2>1, <2>2, SelectionsAreRows
  <2>8. ColumnsKept'
    BY <1>1, <2>1, MouseAtRest
  <2> QED
    BY <1>2, <2>2, <2>4, <2>5, <2>6, <2>7, <2>8 DEF DisKept
<1>7. CASE vertSliderActionSlot
  <2>1. /\ Walks(mTableOffset)
        /\ UNCHANGED <<columns, mGuiState, mouse, page, mSelection, mInstBuffer>>
    BY <1>7 DEF vertSliderActionSlot
  <2>2. PICK action \in SliderAction : setTableOffset(InstructionMovedTo(action[1], action[2]))
    BY <1>7 DEF vertSliderActionSlot
  <2> DEFINE row == InstructionMovedTo(action[1], action[2])
  <2>3. row \in AnyRow /\ row \in Int /\ row \in AnyOffset
    BY <2>1, SliderMovesToRow, RowsAreOffsets
  <2>4. mTableOffset' = row /\ scroll' = SetValue(scroll, mRowCount, row) /\ UNCHANGED mRowCount
    BY <2>2 DEF setTableOffset
  <2> HIDE DEF row
  <2>5. BarFits(scroll, mRowCount)'
    BY <1>1, <2>3, <2>4, ValueFits
  <2>6. ColumnsKept'
    BY <1>1, <2>1, MouseAtRest
  <2> QED
    BY <1>1, <1>2, <2>1, <2>3, <2>4, <2>5, <2>6 DEF DisKept
<1>8. ASSUME NEW p \in Page, NEW rva \in 0 .. Max({0, Len(Code[p]) - 1}), disassambleAt(p, rva)
      PROVE  DisKept'
  <2> DEFINE size == Len(Code[p])
             at == IF mInstBuffer # <<>> /\ rva = Last(mInstBuffer).rva
                   THEN Head(mInstBuffer).rva + Head(mInstBuffer).length ELSE rva
  <2>1. size \in int_t /\ size \in Nat
    BY CodeAssumption
  <2>2. rva \in AnyRow /\ rva \in Int
    <3>1. Max({0, size - 1}) = IF size - 1 > 0 THEN size - 1 ELSE 0
      BY <2>1 DEF Max
    <3>2. rva = 0 \/ rva \in 0 .. size - 1
      BY <2>1, <3>1
    <3> QED
      BY <3>2, RowsAreOffsets
  <2>3. /\ page' = p /\ mSelection' = Single(rva) /\ UNCHANGED <<columns, mGuiState, mouse>>
        /\ IF Among(rva)
           THEN mTableOffset \in 0 .. size /\ setRowCount(size) /\ repaint
           ELSE ShowRow(size, at) /\ UNCHANGED mInstBuffer
    BY <1>8 DEF disassambleAt
  <2>4. ColumnsKept' /\ mSelection' \in Selections
    BY <1>1, <2>2, <2>3, MouseAtRest, SelectionsAreRows
  <2>5. BarFits(WithRange(size), size)
    BY <1>1, <2>1, RangeFits
  <2>6. CASE Among(rva)
    <3>1. /\ mRowCount' = size /\ scroll' = WithRange(size) /\ mTableOffset' = mTableOffset
          /\ mInstBuffer' = Lines(p, size, mTableOffset) /\ mTableOffset \in 0 .. size
      BY <2>3, <2>6 DEF setRowCount, repaint
    <3> HIDE DEF size
    <3>2. BarFits(scroll, mRowCount)'
      BY <2>5, <3>1 DEF BarFits
    <3>3. LinesOfRow(mInstBuffer')
      BY <1>1, <3>1, PaintedFromRow DEF size
    <3> QED
      BY <1>1, <1>2, <2>4, <3>1, <3>2, <3>3 DEF DisKept
  <2>7. CASE ~Among(rva)
    <3>1. at \in AnyOffset
      <4>1. CASE mInstBuffer # <<>> /\ rva = Last(mInstBuffer).rva
        <5> DEFINE top == Head(mInstBuffer)
        <5>1. top.rva \in AnyRow /\ mInstBuffer \in Seq([rva : Nat, length : 1 .. MaxLength])
          BY <1>1, <4>1 DEF LinesOfRow
        <5>2. top \in [rva : Nat, length : 1 .. MaxLength]
          BY <4>1, <5>1, ElementsAreIn
        <5>3. top.length \in 0 .. MaxLength /\ MaxLength \in Nat
          BY <5>2, CodeAssumption
        <5>4. at = top.rva + top.length
          BY <4>1
        <5>5. top.rva \in Int
          BY <5>1, RowsAreOffsets
        <5> HIDE DEF at, top
        <5>6. at \in Int
          BY <5>3, <5>4, <5>5
        <5> QED
          BY <5>1, <5>3, <5>4, <5>6 DEF AnyOffset
      <4>2. CASE ~ (mInstBuffer # <<>> /\ rva = Last(mInstBuffer).rva)
        BY <2>2, <4>2, RowsAreOffsets
      <4> QED
        BY <4>1, <4>2
    <3>2. mRowCount' = size /\ mTableOffset' = at /\ scroll' = SetValue(WithRange(size), size, at)
          /\ UNCHANGED mInstBuffer
      BY <2>3, <2>7 DEF ShowRow
    <3> HIDE DEF at, size
    <3>3. at \in Int
      BY <3>1 DEF AnyOffset
    <3>4. BarFits(scroll, mRowCount)'
      BY <2>5, <3>2, <3>3, ValueFits
    <3> QED
      BY <1>1, <1>2, <2>4, <3>1, <3>2, <3>4 DEF DisKept
  <2> QED
    BY <2>6, <2>7
<1>9. CASE disassembleClear
  <2>1. /\ UNCHANGED <<columns, mGuiState, mouse, page, mSelection, mTableOffset>>
        /\ mRowCount' = 0 /\ scroll' = WithRange(0) /\ mInstBuffer' = Lines(page, 0, mTableOffset)
    BY <1>9 DEF disassembleClear, setRowCount, repaint
  <2>2. BarFits(scroll, mRowCount)'
    <3>1. 0 \in int_t
      BY CodeAssumption
    <3> QED
      BY <1>1, <2>1, <3>1, RangeFits
  <2>3. LinesOfRow(mInstBuffer')
    BY <2>1 DEF Lines, LinesOfRow
  <2>4. ColumnsKept'
    BY <1>1, <2>1, MouseAtRest
  <2> QED
    BY <1>1, <1>2, <2>1, <2>2, <2>3, <2>4 DEF DisKept
<1>10. CASE UNCHANGED <<tableVars, page, mSelection>> /\ (UNCHANGED mInstBuffer \/ paintEvent)
  <2>1. UNCHANGED <<columns, mGuiState, mouse, rows>>
    BY <1>10 DEF tableVars
  <2>2. ColumnsKept'
    BY <1>1, <2>1, MouseAtRest
  <2> QED
    BY <1>1, <1>10, <2>1, <2>2, MouseKeepsLines DEF paintEvent
<1>11. CASE paintEvent
  BY <1>10, <1>11 DEF paintEvent
<1>12. CASE UNCHANGED disVars
  BY <1>10, <1>12 DEF disVars
<1> QED
  BY <1>3, <1>4, <1>5, <1>6, <1>7, <1>8, <1>9, <1>11, <1>12 DEF DisNext

\* In the beginning it holds.
LEMMA BeginningKeepsDis == DisInit => DisKept
<1> SUFFICES ASSUME DisInit
             PROVE  DisKept
  OBVIOUS
<1>1. ColumnsKept /\ BarFits(scroll, mRowCount) /\ RowsOfPage
  BY BeginningKeepsColumns, BeginningFits, InitRowsOfPage DEF DisInit
<1>2. mTableOffset \in AnyOffset /\ mSelection = Single(0)
  BY RowsAreOffsets DEF DisInit, TableInit
<1>3. mSelection \in [firstSelectedIndex : AnyRow, fromIndex : AnyRow, toIndex : AnyRow]
  BY <1>2, RowsAreOffsets DEF Single
<1>4. LinesOfRow(mInstBuffer)
  BY DEF DisInit, LinesOfRow
<1> QED
  BY <1>1, <1>2, <1>3, <1>4 DEF DisKept

\* The table, the selection and the lines stay at rows of the pages, one instruction
\* further at most, whatever the keys, the slider, the mouse and the debugger do.
THEOREM DisassemblyTypeCorrect == DisSpec => []DisTypeOK
<1>1. DisKept => DisTypeOK
  BY DEF DisKept, ColumnsKept, BarFits, WideEnough, MouseKept, GuiState, RowsOfPage, LinesOfRow,
         AnyOffset, DisTypeOK, TableTypeOK, int_t
<1> QED
  BY <1>1, BeginningKeepsDis, EventKeepsDis, PTL DEF DisSpec

\* In the disassembly too a drag is of one kind, and ends with the button, although the
\* debugger may show another page while it lasts.
THEOREM DragsAreHeld == DisSpec => []DragIsHeld
<1>1. DisKept => DragIsHeld
  BY DEF DisKept, ColumnsKept, MouseKept
<1> QED
  BY <1>1, BeginningKeepsDis, EventKeepsDis, PTL DEF DisSpec

\* In the disassembly too the handle announces a resize only over a border, and a press
\* resizes the column on its left, which exists.
THEOREM HandleHasColumn == DisSpec => []ReadyHasColumn
<1>1. DisKept => ReadyHasColumn
  BY KeptColumnsAreReady DEF DisKept
<1> QED
  BY <1>1, BeginningKeepsDis, EventKeepsDis, PTL DEF DisSpec

\* In the disassembly too the slider reaches every row, and stays where it is dragged.
THEOREM SliderAlwaysReaches == DisSpec => []SliderReachesTable
<1>1. DisKept => SliderReachesTable
  BY FittingBarReaches DEF DisKept
<1> QED
  BY <1>1, BeginningKeepsDis, EventKeepsDis, PTL DEF DisSpec
=============================================================================
