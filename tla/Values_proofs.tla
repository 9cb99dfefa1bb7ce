---------------------------- MODULE Values_proofs ----------------------------
(***************************************************************************)
(* Theorems about what an expression reads and writes: the variables, for  *)
(* any names and values; the memory, for any pages, bytes and debuggees,   *)
(* whose steps are calls of Variables; the registers, for any width of a   *)
(* byte, both sizes of a uint and any of the names.                        *)
(***************************************************************************)
EXTENDS Memory, Registers, DataLemmas

-----------------------------------------------------------------------------
(* The list of variables.                                                   *)

\* What the operations keep: the reserved variables at the head, no name twice.
VarsKept == VarsTypeOK /\ ReservedStay /\ NamesUnique

-----------------------------------------------------------------------------
\* The list varinit makes: nine entries, none of them of the user.
LEMMA Varinit ==
  /\ Len(varinit) = 9 /\ DOMAIN varinit = 1 .. 9
  /\ varinit \in Seq(Var)
  /\ \A i \in 1 .. 9 : varinit[i].type # "user"
<1>1. \A names \in SUBSET Word, type \in VarType : Reserved(names, type) \in Var
  BY ValueAssumption DEF Reserved, Var
<1>2. /\ {"res", "result"} \in SUBSET Word /\ {"res1", "result1"} \in SUBSET Word
      /\ {"res2", "result2"} \in SUBSET Word /\ {"res3", "result3"} \in SUBSET Word
      /\ {"res4", "result4"} \in SUBSET Word /\ {"hp", "hProcess"} \in SUBSET Word
      /\ {"pid"} \in SUBSET Word /\ {"ans", "an"} \in SUBSET Word
      /\ {"lastalloc"} \in SUBSET Word
  BY WordAssumption DEF ReservedWords
<1>3. {"system", "readonly", "hidden"} \subseteq VarType
  BY DEF VarType
<1>4. varinit \in Seq(Var)
  BY <1>1, <1>2, <1>3 DEF varinit
<1>5. Len(varinit) = 9 /\ DOMAIN varinit = 1 .. 9
  BY DEF varinit
<1>6. \A i \in 1 .. 9 : varinit[i].type # "user"
  BY DEF varinit, Reserved
<1> QED
  BY <1>4, <1>5, <1>6

\* The names of the reserved variables, by their place.
LEMMA VarinitNames ==
  /\ varinit[1].names = {"res", "result"} /\ varinit[2].names = {"res1", "result1"}
  /\ varinit[3].names = {"res2", "result2"} /\ varinit[4].names = {"res3", "result3"}
  /\ varinit[5].names = {"res4", "result4"} /\ varinit[6].names = {"hp", "hProcess"}
  /\ varinit[7].names = {"pid"} /\ varinit[8].names = {"ans", "an"}
  /\ varinit[9].names = {"lastalloc"}
  /\ varinit[6].type = "readonly" /\ varinit[7].type = "readonly"
  /\ varinit[9].type = "readonly"
BY DEF varinit, Reserved

\* The first of a set of indices is the least of them.
LEMMA FirstIsLeast ==
  ASSUME NEW w \in Word, VarsTypeOK, IsVariable(w), NamesUnique
  PROVE  /\ First(varfind(w)) \in DOMAIN vars
         /\ varfind(w) = {First(varfind(w))}
<1>1. PICK i \in varfind(w) : TRUE
  BY DEF IsVariable
<1>2. varfind(w) = {i}
  BY <1>1 DEF varfind, NamesUnique
<1>3. i \in Nat
  BY <1>1 DEF varfind, VarsTypeOK
<1>4. First(varfind(w)) = i
  BY <1>2, <1>3 DEF First
<1> QED
  BY <1>1, <1>2, <1>4 DEF varfind

-----------------------------------------------------------------------------
\* A new variable has a name that no entry answers to.
LEMMA varnewKeeps ==
  ASSUME VarsKept, NEW w \in Word, NEW v \in Value, vars' = varnew(w, v)
  PROVE  VarsKept'
<1>1. CASE IsVariable(w)
  BY <1>1 DEF VarsKept, VarsTypeOK, ReservedStay, NamesUnique, varnew
<1>2. CASE ~IsVariable(w)
  <2> DEFINE new == [names |-> {w}, type |-> "user", value |-> v]
  <2>1. new \in Var
    BY DEF Var, VarType
  <2>2. vars' = Append(vars, new)
    BY <1>2 DEF varnew
  <2>3. vars \in Seq(Var) /\ Len(vars) \in Nat /\ DOMAIN vars = 1 .. Len(vars)
    BY DEF VarsKept, VarsTypeOK
  <2>4. /\ vars' \in Seq(Var) /\ Len(vars') = Len(vars) + 1
        /\ DOMAIN vars' = 1 .. Len(vars) + 1
        /\ \A i \in 1 .. Len(vars) : vars'[i] = vars[i]
        /\ vars'[Len(vars) + 1] = new
    BY <2>1, <2>2, <2>3
  <2>5. \A i \in DOMAIN vars : w \notin vars[i].names
    BY <1>2 DEF IsVariable, varfind
  <2>6. NamesUnique'
    BY <2>3, <2>4, <2>5 DEF VarsKept, NamesUnique
  <2>7. ReservedStay'
    BY <2>3, <2>4, Varinit DEF VarsKept, ReservedStay
  <2> QED
    BY <2>4, <2>6, <2>7 DEF VarsKept, VarsTypeOK
<1> QED
  BY <1>1, <1>2

\* What the other lemmas use of ReservedStay.
LEMMA ReservedPlaces ==
  ASSUME VarsTypeOK
  PROVE  /\ ReservedStay => \A k \in 1 .. 9 :
              k \in DOMAIN vars /\ vars[k].names = varinit[k].names /\ vars[k].type = varinit[k].type
         /\ (\A k \in 1 .. 9 : k \in DOMAIN vars
              /\ vars[k].names = varinit[k].names /\ vars[k].type = varinit[k].type)
              => ReservedStay
<1>1. DOMAIN vars = 1 .. Len(vars) /\ Len(vars) \in Nat
  BY DEF VarsTypeOK
<1> QED
  BY <1>1, Varinit DEF ReservedStay

\* Where the reserved variables keep names and types, they stay.
LEMMA ReservedPlacesNext ==
  ASSUME VarsTypeOK',
         \A k \in 1 .. 9 : k \in DOMAIN vars'
              /\ vars'[k].names = varinit[k].names /\ vars'[k].type = varinit[k].type
  PROVE  ReservedStay'
<1>1. DOMAIN vars' = 1 .. Len(vars') /\ Len(vars') \in Nat
  BY DEF VarsTypeOK
<1>2. Len(vars') >= Len(varinit)
  BY <1>1, Varinit
<1>3. \A i \in DOMAIN varinit : vars'[i].names = varinit[i].names /\ vars'[i].type = varinit[i].type
  BY Varinit
<1> QED
  BY <1>2, <1>3 DEF ReservedStay

\* Entries that keep their names and types keep what VarsKept says.
LEMMA SameNamesKeep ==
  ASSUME VarsKept, vars' \in Seq(Var), DOMAIN vars' = DOMAIN vars,
         \A i \in DOMAIN vars : vars'[i].names = vars[i].names /\ vars'[i].type = vars[i].type
  PROVE  VarsKept'
<1>1. VarsTypeOK'
  BY DEF VarsTypeOK
<1>2. \A k \in 1 .. 9 : k \in DOMAIN vars'
              /\ vars'[k].names = varinit[k].names /\ vars'[k].type = varinit[k].type
  BY ReservedPlaces DEF VarsKept
<1>3. ReservedStay'
  BY <1>1, <1>2, ReservedPlacesNext
<1>4. NamesUnique'
  BY DEF VarsKept, NamesUnique
<1> QED
  BY <1>3, <1>4 DEF VarsKept, VarsTypeOK

\* Setting a variable changes no name.
LEMMA varsetKeeps ==
  ASSUME VarsKept, NEW w \in Word, NEW v \in Value, vars' = varset(w, v)
  PROVE  VarsKept'
<1>1. CASE ~Writable(w)
  BY <1>1 DEF VarsKept, VarsTypeOK, ReservedStay, NamesUnique, varset
<1>2. CASE Writable(w)
  <2> DEFINE i == First(varfind(w))
  <2>1. i \in DOMAIN vars
    BY <1>2, FirstIsLeast DEF Writable, VarsKept
  <2>2. vars' = [vars EXCEPT ![i].value = v]
    BY <1>2 DEF varset
  <2>3. vars \in Seq(Var) /\ DOMAIN vars = 1 .. Len(vars)
    BY DEF VarsKept, VarsTypeOK
  <2>4. vars[i] \in Var
    BY <2>1, <2>3
  <2>5. [vars[i] EXCEPT !.value = v] \in Var
    BY <2>4 DEF Var
  <2>6. vars' = [vars EXCEPT ![i] = [vars[i] EXCEPT !.value = v]]
    BY <2>2
  <2>7. vars' \in Seq(Var) /\ DOMAIN vars' = DOMAIN vars
    BY <2>1, <2>3, <2>5, <2>6, ExceptSeq
  <2>8. \A j \in DOMAIN vars : vars'[j].names = vars[j].names /\ vars'[j].type = vars[j].type
    BY <2>1, <2>3, <2>4, <2>6 DEF Var
  <2> QED
    BY <2>7, <2>8, SameNamesKeep
<1> QED
  BY <1>1, <1>2

\* Nor does a call of the debugger.
LEMMA SetByDebuggerKeeps ==
  ASSUME VarsKept, NEW names, NEW values \in [names -> Value], vars' = SetByDebugger(values)
  PROVE  VarsKept'
<1>1. vars \in Seq(Var) /\ DOMAIN vars = 1 .. Len(vars) /\ Len(vars) \in Nat
  BY DEF VarsKept, VarsTypeOK
<1>2. ASSUME NEW i \in DOMAIN vars
      PROVE  /\ vars'[i] \in Var
             /\ vars'[i].names = vars[i].names /\ vars'[i].type = vars[i].type
  <2> DEFINE named == vars[i].names \cap DOMAIN values
  <2>1. vars[i] \in Var
    BY <1>1
  <2>2. CASE named = {}
    BY <2>1, <2>2 DEF SetByDebugger
  <2>3. CASE named # {}
    <3> DEFINE w == CHOOSE x \in named : TRUE
    <3>1. w \in named
      BY <2>3
    <3>2. values[w] \in Value
      BY <3>1
    <3>3. vars'[i] = [vars[i] EXCEPT !.value = values[w]]
      BY <2>3 DEF SetByDebugger
    <3> QED
      BY <2>1, <3>2, <3>3 DEF Var
  <2> QED
    BY <2>2, <2>3
<1>3. DOMAIN vars' = DOMAIN vars
  BY DEF SetByDebugger
<1>4. vars' = [i \in 1 .. Len(vars) |-> vars'[i]]
  BY <1>1 DEF SetByDebugger
<1>5. vars' \in Seq(Var)
  BY <1>1, <1>2, <1>4, IsASeq
<1> QED
  BY <1>2, <1>3, <1>5, SameNamesKeep

\* Behind the reserved entries the list closes up.
LEMMA vardelKeeps ==
  ASSUME VarsKept, NEW w \in Word, vars' = vardel(w)
  PROVE  VarsKept'
<1>1. CASE vars' = vars
  BY <1>1 DEF VarsKept, VarsTypeOK, ReservedStay, NamesUnique
<1>2. CASE vars' # vars
  <2> DEFINE i == First(varfind(w))
  <2>1. IsVariable(w) /\ vars[i].type = "user" /\ vars' = RemoveAt(vars, i)
    BY <1>2 DEF vardel
  <2>2. i \in DOMAIN vars
    BY <2>1, FirstIsLeast DEF VarsKept
  <2>3. vars \in Seq(Var) /\ DOMAIN vars = 1 .. Len(vars) /\ Len(vars) \in Nat
    BY DEF VarsKept, VarsTypeOK
  <2>4. i \notin 1 .. 9
    BY <2>1, Varinit DEF VarsKept, ReservedStay
  <2>5. /\ vars' \in Seq(Var) /\ Len(vars') = Len(vars) - 1
        /\ \A j \in 1 .. Len(vars) - 1 :
             vars'[j] = IF j < i THEN vars[j] ELSE vars[j + 1]
    <3>1. vars' = RemoveAt(vars, i)
      BY <2>1
    <3> HIDE DEF i
    <3>2. /\ RemoveAt(vars, i) \in Seq(Var) /\ Len(RemoveAt(vars, i)) = Len(vars) - 1
          /\ \A j \in 1 .. Len(vars) - 1 :
               RemoveAt(vars, i)[j] = IF j < i THEN vars[j] ELSE vars[j + 1]
      BY <2>2, <2>3, RemoveAtProperties
    <3> QED
      BY <3>1, <3>2
  <2>6. DOMAIN vars' = 1 .. Len(vars) - 1
    BY <2>3, <2>5
  <2>7. ASSUME NEW j \in 1 .. Len(vars) - 1, NEW k \in 1 .. Len(vars) - 1,
                vars'[j].names \cap vars'[k].names # {}
         PROVE  j = k
    <3> DEFINE old(n) == IF n < i THEN n ELSE n + 1
    <3>1. old(j) \in DOMAIN vars /\ old(k) \in DOMAIN vars
      BY <2>2, <2>3
    <3>2. vars'[j] = vars[old(j)] /\ vars'[k] = vars[old(k)]
      BY <2>5
    <3>3. old(j) = old(k)
      BY <2>7, <3>1, <3>2 DEF VarsKept, NamesUnique
    <3> QED
      BY <2>2, <2>3, <3>3
  <2>8. NamesUnique'
    BY <2>6, <2>7 DEF NamesUnique
  <2>9. VarsTypeOK'
    BY <2>5 DEF VarsTypeOK
  <2>10. ASSUME NEW k \in 1 .. 9
         PROVE  k \in DOMAIN vars' /\ vars'[k] = vars[k]
    <3>1. \A m \in 1 .. 9 : m \in DOMAIN vars
      BY ReservedPlaces DEF VarsKept
    <3>2. Len(vars) >= 9 /\ i > 9
      BY <2>2, <2>3, <2>4, <3>1
    <3> QED
      BY <2>2, <2>3, <2>5, <2>6, <3>2
  <2>11. ReservedStay'
    BY <2>9, <2>10, ReservedPlaces, ReservedPlacesNext DEF VarsKept
  <2> QED
    BY <2>8, <2>9, <2>11 DEF VarsKept
<1> QED
  BY <1>1, <1>2

-----------------------------------------------------------------------------
\* The list varinit makes has no name twice.
LEMMA InitKept == VarsInit => VarsKept
<1> SUFFICES ASSUME VarsInit
             PROVE  VarsKept
  OBVIOUS
<1>1. \A i, j \in 1 .. 9 : varinit[i].names \cap varinit[j].names # {} => i = j
  BY VarinitNames
<1> QED
  BY <1>1, Varinit DEF VarsInit, VarsKept, VarsTypeOK, ReservedStay, NamesUnique

\* Every call keeps the list in order.
LEMMA StepKeeps == VarsKept /\ [VarsNext]_vars => VarsKept'
<1> SUFFICES ASSUME VarsKept, [VarsNext]_vars
             PROVE  VarsKept'
  OBVIOUS
<1>1. ASSUME NEW w \in Typed, NEW v \in TypedValue, vars' = varnew(w, v)
      PROVE  VarsKept'
  BY <1>1, varnewKeeps, TypedAssumption
<1>2. ASSUME NEW w \in Typed, NEW v \in TypedValue, vars' = varset(w, v)
      PROVE  VarsKept'
  BY <1>2, varsetKeeps, TypedAssumption
<1>3. ASSUME NEW w \in Typed, vars' = vardel(w)
      PROVE  VarsKept'
  BY <1>3, vardelKeeps, TypedAssumption
<1>4. CASE DebuggerCall
  BY <1>4, SetByDebuggerKeeps DEF DebuggerCall
<1>5. CASE UNCHANGED vars
  BY <1>5 DEF VarsKept, VarsTypeOK, ReservedStay, NamesUnique
<1> QED
  BY <1>1, <1>2, <1>3, <1>4, <1>5 DEF VarsNext, UserCall

\* The list of variables is always one of typed entries.
THEOREM VariablesTypeCorrect == VarsSpec => []VarsTypeOK
<1>1. VarsKept => VarsTypeOK
  BY DEF VarsKept
<1> QED
  BY <1>1, InitKept, StepKeeps, PTL DEF VarsSpec

\* No two variables answer to one name, whatever is created and deleted.
THEOREM NamesStayUnique == VarsSpec => []NamesUnique
<1>1. VarsKept => NamesUnique
  BY DEF VarsKept
<1> QED
  BY <1>1, InitKept, StepKeeps, PTL DEF VarsSpec

\* The reserved variables are never deleted, moved or renamed.
THEOREM ReservedVariablesStay == VarsSpec => []ReservedStay
<1>1. VarsKept => ReservedStay
  BY DEF VarsKept
<1> QED
  BY <1>1, InitKept, StepKeeps, PTL DEF VarsSpec

-----------------------------------------------------------------------------
(* The memory and the variables.                                            *)

\* The reserved variables that the theorems are about, by their place in the list.
PlaceOf(w) ==
  CASE w = "lastalloc" -> 9 [] w = "pid" -> 7 [] w = "hProcess" -> 6

Watched == {"lastalloc", "pid", "hProcess"}

-----------------------------------------------------------------------------
(* The reserved variables.                                                  *)

\* A name that one entry answers to is looked up there.
LEMMA LookedUp ==
  ASSUME NEW s, NEW k \in Nat, NEW w, {i \in DOMAIN s : w \in s[i].names} = {k}
  PROVE  (CHOOSE n \in {i \in DOMAIN s : w \in s[i].names} :
            \A j \in {i \in DOMAIN s : w \in s[i].names} : n <= j) = k
OBVIOUS

\* Where the watched names are among the reserved variables.
LEMMA Watch == \A w \in Watched :
  /\ PlaceOf(w) \in 1 .. 9 /\ w \in varinit[PlaceOf(w)].names
  /\ varinit[PlaceOf(w)].type = "readonly"
BY VarinitNames DEF Watched, PlaceOf

\* A reserved variable is read at its place.
LEMMA WatchedRead ==
  ASSUME VarsKept, NEW w \in Watched
  PROVE  /\ PlaceOf(w) \in DOMAIN vars
         /\ varfind(w) = {PlaceOf(w)} /\ First(varfind(w)) = PlaceOf(w)
         /\ varget(w) = vars[PlaceOf(w)].value
<1>1. PlaceOf(w) \in DOMAIN vars /\ w \in vars[PlaceOf(w)].names
  BY Watch, ReservedPlaces DEF VarsKept
<1>2. {i \in DOMAIN vars : w \in vars[i].names} = {PlaceOf(w)}
  BY <1>1 DEF VarsKept, NamesUnique
<1>3. First(varfind(w)) = PlaceOf(w)
  BY <1>2, Watch, LookedUp DEF First, varfind
<1> QED
  BY <1>1, <1>2, <1>3 DEF varfind, varget

\* So it is after a step.
LEMMA WatchedReadNext ==
  ASSUME VarsKept', NEW w \in Watched,
         PlaceOf(w) \in DOMAIN vars', w \in vars'[PlaceOf(w)].names
  PROVE  varget(w)' = vars'[PlaceOf(w)].value
<1>1. {i \in DOMAIN vars' : w \in vars'[i].names} = {PlaceOf(w)}
  BY DEF VarsKept, NamesUnique
<1>2. First(varfind(w)') = PlaceOf(w)
  BY <1>1, Watch, LookedUp DEF First, varfind
<1> QED
  BY <1>2 DEF varget

\* No command of the user writes a variable that is watched.
LEMMA UserLeaves ==
  ASSUME VarsKept, UserCall, NEW w \in Watched
  PROVE  varget(w)' = varget(w)
<1> DEFINE k == PlaceOf(w)
<1>1. k \in 1 .. 9 /\ k \in DOMAIN vars /\ w \in vars[k].names /\ vars[k].type = "readonly"
  BY Watch, ReservedPlaces DEF VarsKept
<1>2. VarsKept'
  BY StepKeeps DEF VarsNext
<1>3. vars \in Seq(Var) /\ DOMAIN vars = 1 .. Len(vars) /\ Len(vars) \in Nat
  BY DEF VarsKept, VarsTypeOK
<1>4. k \in DOMAIN vars' /\ vars'[k] = vars[k]
  <2>1. ASSUME NEW n \in Typed, NEW v \in TypedValue, vars' = varnew(n, v)
        PROVE  k \in DOMAIN vars' /\ vars'[k] = vars[k]
    <3>1. CASE IsVariable(n)
      BY <1>1, <2>1, <3>1 DEF varnew
    <3>2. CASE ~IsVariable(n)
      <4> DEFINE new == [names |-> {n}, type |-> "user", value |-> v]
      <4>1. new \in Var
        BY TypedAssumption DEF Var, VarType
      <4>2. vars' = Append(vars, new)
        BY <2>1, <3>2 DEF varnew
      <4> QED
        BY <1>1, <1>3, <4>1, <4>2, AppendProperties
    <3> QED
      BY <3>1, <3>2
  <2>2. ASSUME NEW n \in Typed, NEW v \in TypedValue, vars' = varset(n, v)
        PROVE  k \in DOMAIN vars' /\ vars'[k] = vars[k]
    <3>1. CASE ~Writable(n)
      BY <1>1, <2>2, <3>1 DEF varset
    <3>2. CASE Writable(n)
      <4>1. First(varfind(n)) # k
        BY <1>1, <3>2 DEF Writable
      <4> QED
        BY <1>1, <2>2, <3>2, <4>1 DEF varset
    <3> QED
      BY <3>1, <3>2
  <2>3. ASSUME NEW n \in Typed, vars' = vardel(n)
        PROVE  k \in DOMAIN vars' /\ vars'[k] = vars[k]
    <3>1. CASE vars' = vars
      BY <1>1, <3>1
    <3>2. CASE vars' # vars
      <4> DEFINE i == First(varfind(n))
      <4>1. IsVariable(n) /\ vars[i].type = "user" /\ vars' = RemoveAt(vars, i)
        BY <2>3, <3>2 DEF vardel
      <4>2. i \in DOMAIN vars
        BY <4>1, FirstIsLeast, TypedAssumption DEF VarsKept
      <4>3. \A m \in 1 .. 9 : m \in DOMAIN vars /\ vars[m].type # "user"
        BY Varinit, ReservedPlaces DEF VarsKept
      <4>4. i > 9
        BY <1>3, <4>1, <4>2, <4>3
      <4>5. /\ SubSeq(vars, 1, i - 1) \in Seq(Var) /\ Len(SubSeq(vars, 1, i - 1)) = i - 1
            /\ SubSeq(vars, 1, i - 1)[k] = vars[k]
        BY <1>1, <1>3, <4>2, <4>4, SubSeqProperties
      <4>6. SubSeq(vars, i + 1, Len(vars)) \in Seq(Var)
        BY <1>3, <4>2
      <4>7. vars' = SubSeq(vars, 1, i - 1) \o SubSeq(vars, i + 1, Len(vars))
        BY <4>1 DEF RemoveAt
      <4> HIDE DEF i
      <4> DEFINE front == SubSeq(vars, 1, i - 1)
                 back == SubSeq(vars, i + 1, Len(vars))
      <4>8. k <= Len(front) /\ k \in 1 .. Len(front) + Len(back)
        BY <1>1, <1>3, <4>2, <4>4, <4>5, <4>6
      <4>9. front \in Seq(Var) /\ back \in Seq(Var) /\ vars' = front \o back /\ front[k] = vars[k]
        BY <4>5, <4>6, <4>7
      <4> HIDE DEF front, back, k
      <4>10. Len(vars') = Len(front) + Len(back) /\ DOMAIN vars' = 1 .. Len(front) + Len(back)
             /\ vars'[k] = front[k]
        BY <4>8, <4>9, ConcatProperties
      <4> QED
        BY <4>8, <4>9, <4>10
    <3> QED
      BY <3>1, <3>2
  <2> QED
    BY <2>1, <2>2, <2>3 DEF UserCall
<1>5. varget(w) = vars[k].value
  BY WatchedRead
<1>6. w \in vars'[k].names
  BY <1>1, <1>4
<1>7. varget(w)' = vars'[k].value
  BY <1>2, <1>4, <1>6, WatchedReadNext
<1> QED
  BY <1>4, <1>5, <1>7

\* What the debugger writes is what is read: each watched entry has one name that
\* the debugger uses.
KeyOf(w) == IF w = "hProcess" THEN "hp" ELSE w

\* A call of the debugger sets the names it is given and leaves the others.
LEMMA DebuggerWrites ==
  ASSUME VarsKept, NEW names, NEW values \in [names -> Value],
         names \subseteq {"res", "hp", "pid", "lastalloc"},
         vars' = SetByDebugger(values), NEW w \in Watched
  PROVE  /\ VarsKept'
         /\ varget(w)' = IF KeyOf(w) \in names THEN values[KeyOf(w)] ELSE varget(w)
<1> DEFINE k == PlaceOf(w)
           named == vars[k].names \cap DOMAIN values
<1>1. VarsKept'
  BY SetByDebuggerKeeps
<1>2. k \in DOMAIN vars /\ vars[k].names = varinit[k].names /\ w \in vars[k].names
  BY Watch, ReservedPlaces DEF VarsKept
<1>3. varinit[k].names = {w, KeyOf(w)}
  BY VarinitNames DEF Watched, PlaceOf, KeyOf
<1>4. named = IF KeyOf(w) \in names THEN {KeyOf(w)} ELSE {}
  BY <1>2, <1>3 DEF Watched, KeyOf
<1>5. vars[k] \in Var
  BY <1>2 DEF VarsKept, VarsTypeOK
<1>6. vars'[k] = IF named = {} THEN vars[k]
                 ELSE [vars[k] EXCEPT !.value = values[CHOOSE x \in named : TRUE]]
  BY <1>2 DEF SetByDebugger
<1>7. k \in DOMAIN vars'
  BY <1>2 DEF SetByDebugger
<1>8. w \in vars'[k].names
  BY <1>2, <1>5, <1>6 DEF Var
<1>9. varget(w)' = vars'[k].value
  BY <1>1, <1>7, <1>8, WatchedReadNext
<1>10. varget(w) = vars[k].value
  BY WatchedRead
<1>11. CASE KeyOf(w) \in names
  <2>1. named # {} /\ (CHOOSE x \in named : TRUE) = KeyOf(w)
    BY <1>4, <1>11
  <2>2. vars'[k].value = values[KeyOf(w)]
    BY <1>5, <1>6, <2>1 DEF Var
  <2> QED
    BY <1>1, <1>9, <1>11, <2>2
<1>12. CASE KeyOf(w) \notin names
  BY <1>1, <1>4, <1>6, <1>9, <1>10, <1>12
<1> QED
  BY <1>11, <1>12

-----------------------------------------------------------------------------
(* The memory.                                                              *)

\* The addresses at which pages begin are values.
LEMMA BasesAreValues == \A p \in Image \cup Heap : p * PageSize \in Value
<1> SUFFICES ASSUME NEW p \in Image \cup Heap
             PROVE  p * PageSize \in Value
  OBVIOUS
<1>1. 0 \in 0 .. PageSize - 1
  BY PageSizeAssumption DEF PageSizeOK
<1>2. p * PageSize + 0 \in Value
  BY <1>1, PagesAssumption DEF AddressesAreValues
<1>3. p * PageSize \in Int
  BY PageSizeAssumption, PagesAssumption DEF PageSizeOK, PagesOK
<1> QED
  BY <1>2, <1>3

\* A size rounded up to pages is at least one page.
LEMMA PagesNeeded == \A n \in Nat \ {0} : (n + PageSize - 1) \div PageSize \in Nat \ {0}
<1> SUFFICES ASSUME NEW n \in Nat \ {0}
             PROVE  (n + PageSize - 1) \div PageSize \in Nat \ {0}
  OBVIOUS
<1>1. PageSize \in Nat \ {0}
  BY PageSizeAssumption DEF PageSizeOK
<1>2. n + PageSize - 1 >= PageSize /\ n + PageSize - 1 \in Nat
  BY <1>1
<1> DEFINE m == n + PageSize - 1
<1>3. m \in Nat /\ m >= PageSize
  BY <1>1, <1>2
<1> HIDE DEF m
<1>4. m \div PageSize \in Nat /\ m \div PageSize >= 1
  BY <1>1, <1>3
<1> QED
  BY <1>4 DEF m

\* What every step keeps of the memory, and how it calls the variables.
MemoryKept == VarsKept /\ MemoryTypeOK

\* Fresh pages hold bytes.
LEMMA ZeroedTyped ==
  ASSUME NEW pages, MemoryTypeOK
  PROVE  Zeroed(pages) \in [Addresses(Image \cup Heap) -> Byte]
BY ByteAssumption DEF Zeroed, MemoryTypeOK

\* A step is a call of the variables, and the rest keeps its types.
LEMMA MemoryStep ==
  MemoryKept /\ [MemoryNext]_memoryVars => MemoryKept' /\ [VarsNext]_vars
<1> SUFFICES ASSUME MemoryKept, [MemoryNext]_memoryVars
             PROVE  MemoryKept' /\ [VarsNext]_vars
  OBVIOUS
<1> DEFINE Rest == /\ mem' \in [Addresses(Image \cup Heap) -> Byte]
                   /\ allocs' \in SUBSET Allocation
                   /\ session' \in Session \cup {0}
                   /\ lost' \in BOOLEAN
<1>1. SUFFICES Rest /\ [VarsNext]_vars
  <2>1. VarsKept'
    BY <1>1, StepKeeps DEF MemoryKept
  <2> QED
    BY <1>1, <2>1 DEF MemoryKept, VarsKept, MemoryTypeOK
<1>2. ASSUME NEW names \in SUBSET {"res", "hp", "pid", "lastalloc"}, NEW values \in [names -> Value],
             vars' = SetByDebugger(values)
      PROVE  [VarsNext]_vars
  BY <1>2 DEF VarsNext, DebuggerCall
<1>3. {0, 1} \subseteq Value /\ Session \subseteq Value
  BY SessionAssumption, ValueAssumption
<1> USE DEF MemoryKept, MemoryTypeOK
<1>4. CASE AllocFails
  <2>1. [w \in {"res"} |-> 0] \in [{"res"} -> Value]
    BY <1>3
  <2> QED
    BY <1>2, <1>4, <2>1 DEF AllocFails, memory
<1>5. ASSUME NEW n \in Nat \ {0}, Alloc(n)
      PROVE  Rest /\ [VarsNext]_vars
  <2>1. PICK r \in Places(n) :
          /\ allocs' = allocs \cup {r}
          /\ mem' = Zeroed(PagesOf(r))
          /\ vars' = SetByDebugger([w \in {"res", "lastalloc"} |-> r.base * PageSize])
    BY <1>5 DEF Alloc
  <2>2. r \in Allocation
    BY <2>1, PagesNeeded DEF Places, Allocation
  <2>3. r.base * PageSize \in Value
    BY <2>2, BasesAreValues DEF Allocation
  <2>4. [w \in {"res", "lastalloc"} |-> r.base * PageSize] \in [{"res", "lastalloc"} -> Value]
    BY <2>3
  <2>5. [VarsNext]_vars
    BY <1>2, <2>1, <2>4
  <2>6. mem' \in [Addresses(Image \cup Heap) -> Byte]
    BY <2>1, ZeroedTyped
  <2> QED
    BY <1>5, <2>1, <2>2, <2>5, <2>6 DEF Alloc
<1>6. ASSUME NEW addr, FreeMemory(addr)
      PROVE  Rest /\ [VarsNext]_vars
  <2> DEFINE freed == {r \in allocs : r.base * PageSize = addr}
             ok == IF freed = {} THEN 0 ELSE 1
             both == [w \in {"res", "lastalloc"} |-> IF w = "res" THEN ok ELSE 0]
             one == [w \in {"res"} |-> ok]
  <2>1. both \in [{"res", "lastalloc"} -> Value] /\ one \in [{"res"} -> Value]
    BY <1>3
  <2> HIDE DEF both, one
  <2>2. \/ vars' = SetByDebugger(both) /\ lost' = FALSE
        \/ vars' = SetByDebugger(one) /\ UNCHANGED lost
    BY <1>6 DEF FreeMemory, both, one
  <2>3. [VarsNext]_vars
    BY <1>2, <2>1, <2>2
  <2> QED
    BY <1>6, <2>2, <2>3 DEF FreeMemory
<1>7. ASSUME NEW bytes, NEW value \in Byte, FillBytes(bytes, value)
      PROVE  Rest /\ [VarsNext]_vars
  BY <1>7 DEF FillBytes
<1>8. ASSUME NEW s \in Session, SessionBegins(s)
      PROVE  Rest /\ [VarsNext]_vars
  <2>1. [w \in {"hp", "pid"} |-> s] \in [{"hp", "pid"} -> Value]
    BY <1>3
  <2>2. [VarsNext]_vars
    BY <1>2, <1>8, <2>1 DEF SessionBegins
  <2> QED
    BY <1>8, <2>2, ZeroedTyped DEF SessionBegins
<1>9. CASE SessionEnds
  <2>1. [w \in {"hp", "pid"} |-> 0] \in [{"hp", "pid"} -> Value]
    BY <1>3
  <2>2. [VarsNext]_vars
    BY <1>2, <1>9, <2>1 DEF SessionEnds
  <2> QED
    BY <1>9, <2>2 DEF SessionEnds
<1>10. CASE DebuggeeFrees
  BY <1>10 DEF DebuggeeFrees
<1>11. CASE UserVariable
  BY <1>11 DEF UserVariable, memory, VarsNext
<1>12. CASE UNCHANGED memoryVars
  BY <1>12 DEF memoryVars, memory
<1>13. CASE MemoryCommand
  <2>1. \A n \in 1 .. PageSize * Cardinality(Heap) : n \in Nat \ {0}
    OBVIOUS
  <2> QED
    BY <1>4, <1>5, <1>6, <1>7, <1>13, <2>1 DEF MemoryCommand, Fill, FillRest
<1> QED
  BY <1>8, <1>9, <1>10, <1>11, <1>12, <1>13 DEF MemoryNext, SessionStep

\* At the start there is no session and nothing reserved.
LEMMA MemoryBegins == MemoryInit => MemoryKept
<1> SUFFICES ASSUME MemoryInit
             PROVE  MemoryKept
  OBVIOUS
<1>1. VarsKept
  BY InitKept DEF MemoryInit
<1> QED
  BY <1>1, ByteAssumption DEF MemoryInit, MemoryKept, MemoryTypeOK, VarsKept

\* The memory, the reservations and the variables keep their types.
THEOREM MemoryTypeCorrect == MemorySpec => []MemoryTypeOK
<1>1. MemoryKept => MemoryTypeOK
  BY DEF MemoryKept
<1> QED
  BY <1>1, MemoryBegins, MemoryStep, PTL DEF MemorySpec

\* Whatever the commands on memory and the sessions do to the variables is a
\* sequence of the calls that Variables allows.
THEOREM MemoryImplementsVariables == MemorySpec => VarsSpec
<1>1. MemoryInit => VarsInit
  BY DEF MemoryInit
<1> QED
  BY <1>1, MemoryBegins, MemoryStep, PTL DEF MemorySpec, VarsSpec

\* The names stay unique and the reserved variables stay while memory is used.
THEOREM MemoryKeepsVariables == MemorySpec => [](NamesUnique /\ ReservedStay)
<1>1. MemoryKept => NamesUnique /\ ReservedStay
  BY DEF MemoryKept, VarsKept
<1> QED
  BY <1>1, MemoryBegins, MemoryStep, PTL DEF MemorySpec

-----------------------------------------------------------------------------
(* What the variables say of the debuggee.                                  *)

\* The ids and the last allocation: who may change them, and what is kept.
LEMMA IdsStep ==
  MemoryKept /\ IdsAreTheSessions /\ [MemoryNext]_memoryVars => IdsAreTheSessions'
<1> SUFFICES ASSUME MemoryKept, IdsAreTheSessions, [MemoryNext]_memoryVars
             PROVE  IdsAreTheSessions'
  OBVIOUS
<1>1. VarsKept /\ {"pid", "hProcess"} \subseteq Watched
      /\ KeyOf("pid") = "pid" /\ KeyOf("hProcess") = "hp"
  BY DEF MemoryKept, Watched, KeyOf
<1>2. {0, 1} \subseteq Value /\ Session \subseteq Value
  BY SessionAssumption, ValueAssumption
<1>3. ASSUME NEW names, NEW values \in [names -> Value], names \subseteq {"res", "lastalloc"},
             vars' = SetByDebugger(values), session' = session
      PROVE  IdsAreTheSessions'
  <2>1. varget("pid")' = varget("pid")
    BY <1>1, <1>3, DebuggerWrites
  <2>2. varget("hProcess")' = varget("hProcess")
    BY <1>1, <1>3, DebuggerWrites
  <2> QED
    BY <1>3, <2>1, <2>2 DEF IdsAreTheSessions
<1>4. ASSUME NEW s \in Value, vars' = SetByDebugger([w \in {"hp", "pid"} |-> s]), session' = s
      PROVE  IdsAreTheSessions'
  <2> DEFINE values == [w \in {"hp", "pid"} |-> s]
  <2>1. values \in [{"hp", "pid"} -> Value] /\ values["hp"] = s /\ values["pid"] = s
    OBVIOUS
  <2>2. vars' = SetByDebugger(values)
    BY <1>4
  <2> HIDE DEF values
  <2>3. varget("pid")' = s
    BY <1>1, <2>1, <2>2, DebuggerWrites
  <2>4. varget("hProcess")' = s
    BY <1>1, <2>1, <2>2, DebuggerWrites
  <2> QED
    BY <1>4, <2>3, <2>4 DEF IdsAreTheSessions
<1>5. ASSUME vars' = vars, session' = session
      PROVE  IdsAreTheSessions'
  BY <1>5 DEF IdsAreTheSessions, varget, varfind, First
<1>6. CASE AllocFails
  <2>1. [w \in {"res"} |-> 0] \in [{"res"} -> Value]
    BY <1>2
  <2> QED
    BY <1>3, <1>6, <2>1 DEF AllocFails, memory
<1>7. ASSUME NEW n \in Nat \ {0}, Alloc(n)
      PROVE  IdsAreTheSessions'
  <2>1. PICK r \in Places(n) :
          vars' = SetByDebugger([w \in {"res", "lastalloc"} |-> r.base * PageSize])
    BY <1>7 DEF Alloc
  <2>2. r.base * PageSize \in Value
    BY <2>1, BasesAreValues DEF Places
  <2>3. [w \in {"res", "lastalloc"} |-> r.base * PageSize] \in [{"res", "lastalloc"} -> Value]
    BY <2>2
  <2> QED
    BY <1>3, <1>7, <2>1, <2>3 DEF Alloc
<1>8. ASSUME NEW addr, FreeMemory(addr)
      PROVE  IdsAreTheSessions'
  <2> DEFINE freed == {r \in allocs : r.base * PageSize = addr}
             ok == IF freed = {} THEN 0 ELSE 1
             both == [w \in {"res", "lastalloc"} |-> IF w = "res" THEN ok ELSE 0]
             one == [w \in {"res"} |-> ok]
  <2>1. both \in [{"res", "lastalloc"} -> Value] /\ one \in [{"res"} -> Value]
    BY <1>2
  <2> HIDE DEF both, one
  <2>2. vars' = SetByDebugger(both) \/ vars' = SetByDebugger(one)
    BY <1>8 DEF FreeMemory, both, one
  <2>3. session' = session
    BY <1>8 DEF FreeMemory
  <2> QED
    BY <1>3, <2>1, <2>2, <2>3
<1>9. ASSUME NEW bytes, NEW value, FillBytes(bytes, value)
      PROVE  IdsAreTheSessions'
  BY <1>5, <1>9 DEF FillBytes
<1>10. ASSUME NEW s \in Session, SessionBegins(s)
       PROVE  IdsAreTheSessions'
  BY <1>2, <1>4, <1>10 DEF SessionBegins
<1>11. CASE SessionEnds
  BY <1>2, <1>4, <1>11 DEF SessionEnds
<1>12. CASE DebuggeeFrees
  BY <1>5, <1>12 DEF DebuggeeFrees
<1>13. CASE UserVariable
  <2>1. varget("pid")' = varget("pid")
    BY <1>1, <1>13, UserLeaves DEF UserVariable
  <2>2. varget("hProcess")' = varget("hProcess")
    BY <1>1, <1>13, UserLeaves DEF UserVariable
  <2> QED
    BY <1>13, <2>1, <2>2 DEF UserVariable, memory, IdsAreTheSessions
<1>14. CASE UNCHANGED memoryVars
  BY <1>5, <1>14 DEF memoryVars, memory
<1>15. CASE MemoryCommand
  <2>1. \A n \in 1 .. PageSize * Cardinality(Heap) : n \in Nat \ {0}
    OBVIOUS
  <2> QED
    BY <1>6, <1>7, <1>8, <1>9, <1>15, <2>1 DEF MemoryCommand, Fill, FillRest
<1> QED
  BY <1>10, <1>11, <1>12, <1>13, <1>14, <1>15 DEF MemoryNext, SessionStep

\* The watched names begin at zero.
LEMMA WatchedBegin == VarsInit => \A w \in Watched : varget(w) = 0
<1> SUFFICES ASSUME VarsInit, NEW w \in Watched
             PROVE  varget(w) = 0
  OBVIOUS
<1>1. varget(w) = varinit[PlaceOf(w)].value
  BY InitKept, WatchedRead DEF VarsInit
<1>2. \A i \in 1 .. 9 : varinit[i].value = 0
  BY DEF varinit, Reserved
<1> QED
  BY <1>1, <1>2, Watch

\* $pid and $hProcess are those of the debuggee, whatever the user types.
THEOREM IdsStayTheSessions == MemorySpec => []IdsAreTheSessions
<1>1. MemoryInit => IdsAreTheSessions
  BY WatchedBegin DEF MemoryInit, IdsAreTheSessions, Watched
<1> QED
  BY <1>1, MemoryBegins, MemoryStep, IdsStep, PTL DEF MemorySpec

\* A step keeps $lastalloc at a reservation: alloc sets both, free takes both away.
LEMMA LastAllocStep ==
  MemoryKept /\ LastAllocIsAllocated /\ [MemoryNext]_memoryVars => LastAllocIsAllocated'
<1> SUFFICES ASSUME MemoryKept, LastAllocIsAllocated, [MemoryNext]_memoryVars
             PROVE  LastAllocIsAllocated'
  OBVIOUS
<1> DEFINE last == varget("lastalloc")
<1>1. VarsKept /\ "lastalloc" \in Watched /\ KeyOf("lastalloc") = "lastalloc"
  BY DEF MemoryKept, Watched, KeyOf
<1>2. {0, 1} \subseteq Value /\ Session \subseteq Value
  BY SessionAssumption, ValueAssumption
<1>3. ASSUME NEW names, NEW values \in [names -> Value], names \subseteq {"res", "hp", "pid"},
             vars' = SetByDebugger(values)
      PROVE  last' = last
  BY <1>1, <1>3, DebuggerWrites
<1>4. ASSUME last' = last, allocs \subseteq allocs', lost => lost'
      PROVE  LastAllocIsAllocated'
  BY <1>4 DEF LastAllocIsAllocated
<1>5. ASSUME vars' = vars
      PROVE  last' = last
  BY <1>5 DEF varget, varfind, First
<1>6. CASE AllocFails
  <2>1. [w \in {"res"} |-> 0] \in [{"res"} -> Value]
    BY <1>2
  <2>2. last' = last
    BY <1>3, <1>6, <2>1 DEF AllocFails
  <2> QED
    BY <1>4, <1>6, <2>2 DEF AllocFails, memory
<1>7. ASSUME NEW n \in Nat \ {0}, Alloc(n)
      PROVE  LastAllocIsAllocated'
  <2>1. PICK r \in Places(n) :
          /\ allocs' = allocs \cup {r}
          /\ vars' = SetByDebugger([w \in {"res", "lastalloc"} |-> r.base * PageSize])
    BY <1>7 DEF Alloc
  <2> DEFINE values == [w \in {"res", "lastalloc"} |-> r.base * PageSize]
  <2>2. r.base * PageSize \in Value
    BY <2>1, BasesAreValues DEF Places
  <2>3. values \in [{"res", "lastalloc"} -> Value] /\ values["lastalloc"] = r.base * PageSize
    BY <2>2
  <2>4. vars' = SetByDebugger(values)
    BY <2>1
  <2> HIDE DEF values
  <2>5. last' = r.base * PageSize
    BY <1>1, <2>3, <2>4, DebuggerWrites
  <2> QED
    BY <2>1, <2>5 DEF LastAllocIsAllocated
<1>8. ASSUME NEW addr, FreeMemory(addr)
      PROVE  LastAllocIsAllocated'
  <2> DEFINE freed == {r \in allocs : r.base * PageSize = addr}
             ok == IF freed = {} THEN 0 ELSE 1
             both == [w \in {"res", "lastalloc"} |-> IF w = "res" THEN ok ELSE 0]
             one == [w \in {"res"} |-> ok]
  <2>1. /\ both \in [{"res", "lastalloc"} -> Value] /\ both["lastalloc"] = 0
        /\ one \in [{"res"} -> Value]
    BY <1>2
  <2> HIDE DEF both, one
  <2>2. CASE addr = last
    <3>1. vars' = SetByDebugger(both)
      BY <1>8, <2>2 DEF FreeMemory, both
    <3>2. last' = 0
      BY <1>1, <2>1, <3>1, DebuggerWrites
    <3> QED
      BY <3>2 DEF LastAllocIsAllocated
  <2>3. CASE addr # last
    <3>1. vars' = SetByDebugger(one) /\ UNCHANGED lost
      BY <1>8, <2>3 DEF FreeMemory, one
    <3>2. last' = last
      BY <1>3, <2>1, <3>1
    <3>3. \A r \in allocs : r.base * PageSize = last => r \in allocs'
      BY <1>8, <2>3 DEF FreeMemory
    <3> QED
      BY <3>1, <3>2, <3>3 DEF LastAllocIsAllocated
  <2> QED
    BY <2>2, <2>3
<1>9. ASSUME NEW bytes, NEW value, FillBytes(bytes, value)
      PROVE  LastAllocIsAllocated'
  BY <1>4, <1>5, <1>9 DEF FillBytes
<1>10. ASSUME NEW s \in Session, SessionBegins(s)
       PROVE  LastAllocIsAllocated'
  <2>1. [w \in {"hp", "pid"} |-> s] \in [{"hp", "pid"} -> Value]
    BY <1>2
  <2>2. last' = last
    BY <1>3, <1>10, <2>1 DEF SessionBegins
  <2> QED
    BY <1>4, <1>10, <2>2 DEF SessionBegins
<1>11. CASE SessionEnds
  <2>1. [w \in {"hp", "pid"} |-> 0] \in [{"hp", "pid"} -> Value]
    BY <1>2
  <2>2. last' = last
    BY <1>3, <1>11, <2>1 DEF SessionEnds
  <2> QED
    BY <1>11, <2>2 DEF SessionEnds, LastAllocIsAllocated
<1>12. CASE DebuggeeFrees
  <2>1. last' = last
    BY <1>5, <1>12 DEF DebuggeeFrees
  <2> QED
    BY <1>12, <2>1 DEF DebuggeeFrees, LastAllocIsAllocated
<1>13. CASE UserVariable
  <2>1. last' = last
    BY <1>1, <1>13, UserLeaves DEF UserVariable
  <2> QED
    BY <1>4, <1>13, <2>1 DEF UserVariable, memory
<1>14. CASE UNCHANGED memoryVars
  BY <1>4, <1>5, <1>14 DEF memoryVars, memory
<1>15. CASE MemoryCommand
  <2>1. \A n \in 1 .. PageSize * Cardinality(Heap) : n \in Nat \ {0}
    OBVIOUS
  <2> QED
    BY <1>6, <1>7, <1>8, <1>9, <1>15, <2>1 DEF MemoryCommand, Fill, FillRest
<1> QED
  BY <1>10, <1>11, <1>12, <1>13, <1>14, <1>15 DEF MemoryNext, SessionStep

\* $lastalloc is the base of memory that is reserved, unless the debuggee freed it or
\* is gone.
THEOREM LastAllocStaysAllocated == MemorySpec => []LastAllocIsAllocated
<1>1. MemoryInit => LastAllocIsAllocated
  BY WatchedBegin DEF MemoryInit, LastAllocIsAllocated, Watched
<1> QED
  BY <1>1, MemoryBegins, MemoryStep, LastAllocStep, PTL DEF MemorySpec

-----------------------------------------------------------------------------
(* memread.                                                                 *)

\* The page that the loop reads next begins before the end of the buffer.
LEMMA PageInBuffer ==
  ASSUME NEW addr \in Nat, NEW n \in Nat, NEW i \in 0 .. LastPage(n)
  PROVE  /\ SizeRead(addr, i) \in Nat /\ SizeRead(addr, i) <= n
         /\ StartRva(addr, i) \in 0 .. PageSize - 1
<1>1. PageSize \in Nat \ {0}
  BY PageSizeAssumption DEF PageSizeOK
<1>2. Rva(addr) \in 0 .. PageSize - 1
  BY <1>1 DEF Rva
<1>3. n \div PageSize \in Nat /\ PageSize * (n \div PageSize) <= n
  BY <1>1
<1>4. i \in Nat /\ i <= n \div PageSize
  BY <1>3 DEF LastPage
<1>5. CASE i = 0
  BY <1>1, <1>2, <1>5 DEF SizeRead, StartRva
<1>6. CASE i # 0
  <2>1. i * PageSize \in Nat /\ i * PageSize <= n
    BY <1>1, <1>3, <1>4
  <2>2. i * PageSize >= PageSize
    BY <1>1, <1>4, <1>6
  <2>3. SizeRead(addr, i) = i * PageSize - Rva(addr)
    BY <1>6 DEF SizeRead
  <2> QED
    BY <1>1, <1>2, <1>6, <2>1, <2>2, <2>3 DEF StartRva
<1> QED
  BY <1>5, <1>6

\* No copy of memread leaves the buffer, for any address, size and page size.
THEOREM ReadsStayInBuffer == MemorySpec => []ReadStaysInBuffer
<1>1. ReadStaysInBuffer
  <2> SUFFICES ASSUME NEW addr \in Value, NEW n \in Value, NEW i \in 0 .. LastPage(n)
               PROVE  /\ 0 <= SizeRead(addr, i) /\ 0 <= CopySize(addr, n, i)
                      /\ SizeRead(addr, i) + CopySize(addr, n, i) <= n
    BY DEF ReadStaysInBuffer
  <2>1. addr \in Nat /\ n \in Nat
    BY ValueAssumption
  <2>2. PageSize \in Nat
    BY PageSizeAssumption DEF PageSizeOK
  <2> QED
    BY <2>1, <2>2, PageInBuffer DEF CopySize
<1> QED
  BY <1>1, PTL

\* Division and remainder by the size of a page.
LEMMA PageOf ==
  ASSUME NEW a \in Nat
  PROVE  /\ a \div PageSize \in Nat /\ a % PageSize \in 0 .. PageSize - 1
         /\ a = (a \div PageSize) * PageSize + (a % PageSize)
         /\ \A q \in Nat : q * PageSize <= a /\ a < q * PageSize + PageSize => q = a \div PageSize
<1>1. PageSize \in Nat /\ PageSize > 0
  BY PageSizeAssumption DEF PageSizeOK
<1> DEFINE p == PageSize
<1>2. p \in Nat /\ p > 0
  BY <1>1
<1> HIDE DEF p
<1>3. a \div p \in Nat /\ a % p \in 0 .. p - 1 /\ a = (a \div p) * p + (a % p)
  BY <1>2
<1>4. ASSUME NEW q \in Nat, q * p <= a, a < q * p + p
      PROVE  q = a \div p
  <2> DEFINE d == a \div p
  <2>1. d \in Nat /\ d * p <= a /\ a < d * p + p
    BY <1>2, <1>3
  <2> HIDE DEF d
  <2>2. ASSUME q < d PROVE FALSE
    <3>1. d >= q + 1
      BY <2>1, <2>2
    <3>2. d * p >= (q + 1) * p
      BY <1>2, <2>1, <3>1
    <3>3. (q + 1) * p = q * p + p
      BY <1>2
    <3> QED
      BY <1>2, <1>4, <2>1, <3>2, <3>3
  <2>3. ASSUME d < q PROVE FALSE
    <3>1. q >= d + 1
      BY <2>1, <2>3
    <3>2. q * p >= (d + 1) * p
      BY <1>2, <2>1, <3>1
    <3>3. (d + 1) * p = d * p + p
      BY <1>2, <2>1
    <3> QED
      BY <1>2, <1>4, <2>1, <3>2, <3>3
  <2>4. q = d
    BY <2>1, <2>2, <2>3
  <2> QED
    BY <2>4 DEF d
<1> QED
  BY <1>3, <1>4 DEF p

\* When the range ends on the pages the loop reads, byte k of the buffer is
\* copied with one page, the one it lies on.
Covers(addr, n, i, k) ==
  SizeRead(addr, i) <= k /\ k < SizeRead(addr, i) + CopySize(addr, n, i)

OnPage(addr, k) == (Rva(addr) + k) \div PageSize

\* Of the copies of the loop exactly one covers a byte: the one of its page.
LEMMA CoveredOnce ==
  ASSUME NEW addr \in Nat, NEW n \in Nat \ {0}, EndsOnPagesRead(addr, n),
         NEW k \in 0 .. n - 1
  PROVE  /\ OnPage(addr, k) \in 0 .. LastPage(n)
         /\ \A i \in 0 .. LastPage(n) : Covers(addr, n, i, k) <=> i = OnPage(addr, k)
<1> DEFINE p == PageSize
           r == Rva(addr)
           l == LastPage(n)
<1>1. p \in Nat /\ p > 0
  BY PageSizeAssumption DEF PageSizeOK
<1>2. r \in 0 .. p - 1
  BY PageOf DEF Rva
<1>3. l \in Nat /\ n % p \in 0 .. p - 1 /\ n = l * p + (n % p) /\ r + (n % p) <= p
  BY PageOf DEF LastPage, EndsOnPagesRead
<1> DEFINE j == OnPage(addr, k)
<1>4. r + k \in Nat
  BY <1>2
<1>5. /\ j \in Nat /\ j * p <= r + k /\ r + k < j * p + p
      /\ \A q \in Nat : q * p <= r + k /\ r + k < q * p + p => q = j
  <2>1. (r + k) % p \in 0 .. p - 1 /\ j \in Nat /\ r + k = j * p + ((r + k) % p)
    BY <1>4, PageOf DEF OnPage
  <2>2. \A q \in Nat : q * p <= r + k /\ r + k < q * p + p => q = j
    BY <1>4, PageOf DEF OnPage
  <2> HIDE DEF j, p, r
  <2>3. j * p \in Nat
    BY <1>1, <2>1
  <2> QED
    BY <1>1, <1>4, <2>1, <2>2, <2>3
<1>6. \A i \in 0 .. l :
        /\ SizeRead(addr, i) = IF i = 0 THEN 0 ELSE i * p - r
        /\ CopySize(addr, n, i) = IF SizeRead(addr, i) + p > n THEN n - SizeRead(addr, i)
                                ELSE p - (IF i = 0 THEN r ELSE 0)
  BY DEF SizeRead, CopySize, StartRva
<1> HIDE DEF p, r, l, j
<1>7. r + k < l * p + p
  BY <1>1, <1>2, <1>3
<1>8. \A q \in Nat : q * p \in Nat
  BY <1>1
<1>9. j <= l
  <2> SUFFICES ASSUME j > l PROVE FALSE
    BY <1>3, <1>5
  <2>1. j >= l + 1
    BY <1>3, <1>5
  <2>2. j * p >= (l + 1) * p
    BY <1>1, <1>3, <1>5, <2>1
  <2>3. (l + 1) * p = l * p + p
    BY <1>1, <1>3
  <2> QED
    BY <1>1, <1>2, <1>3, <1>5, <1>7, <1>8, <2>2, <2>3
<1>10. ASSUME NEW i \in 0 .. l
       PROVE  Covers(addr, n, i, k) <=> i * p <= r + k /\ r + k < i * p + p
  <2>1. i \in Nat /\ i <= l /\ i * p \in Nat /\ l * p \in Nat /\ (i = 0 => i * p = 0)
    BY <1>1, <1>3, <1>8
  <2>2. CASE i = l
    <3>1. k < n /\ r + k < i * p + p
      BY <1>7, <2>2
    <3>2. CASE SizeRead(addr, i) + p > n
      <4>1. SizeRead(addr, i) + CopySize(addr, n, i) = n
        BY <1>1, <1>2, <1>6, <2>1, <3>2
      <4>2. SizeRead(addr, i) <= k <=> i * p <= r + k
        BY <1>1, <1>2, <1>6, <2>1
      <4> QED
        BY <3>1, <4>1, <4>2 DEF Covers
    <3>3. CASE ~ (SizeRead(addr, i) + p > n)
      BY <1>1, <1>2, <1>6, <2>1, <3>1, <3>3 DEF Covers
    <3> QED
      BY <3>2, <3>3
  <2>3. CASE i < l
    <3>1. l >= i + 1
      BY <1>3, <2>1, <2>3
    <3>2. l * p >= (i + 1) * p
      BY <1>1, <1>3, <2>1, <3>1
    <3>3. (i + 1) * p = i * p + p
      BY <1>1, <2>1
    <3>4. i * p + p <= n
      BY <1>1, <1>3, <2>1, <3>2, <3>3
    <3>5. ~ (SizeRead(addr, i) + p > n)
      BY <1>1, <1>2, <1>6, <2>1, <3>4
    <3>6. CopySize(addr, n, i) = p - (IF i = 0 THEN r ELSE 0)
      BY <1>6, <3>5
    <3> QED
      BY <1>1, <1>2, <1>6, <2>1, <3>6 DEF Covers
  <2> QED
    BY <1>3, <2>1, <2>2, <2>3
<1>11. ASSUME NEW i \in 0 .. l
       PROVE  Covers(addr, n, i, k) <=> i = j
  BY <1>5, <1>10
<1> QED
  BY <1>3, <1>5, <1>9, <1>11 DEF j, l

\* The copy of that page takes byte k from its place in the debuggee.
LEMMA ByteOnPage ==
  ASSUME NEW addr \in Nat, NEW k \in Nat, NEW junk
  PROVE  PageByte(addr, OnPage(addr, k), k, junk) = mem[addr + k]
<1> DEFINE p == PageSize
           r == Rva(addr)
           a == addr \div PageSize
           j == OnPage(addr, k)
           m == (r + k) % p
           offset == StartRva(addr, j) + k - SizeRead(addr, j)
<1>1. p \in Nat /\ p > 0
  BY PageSizeAssumption DEF PageSizeOK
<1>2. a \in Nat /\ r \in 0 .. p - 1 /\ addr = a * p + r
  BY PageOf DEF Rva
<1>3. r + k \in Nat
  BY <1>2
<1>4. j \in Nat /\ m \in 0 .. p - 1 /\ r + k = j * p + m
  BY <1>3, PageOf DEF OnPage
<1>5. offset = (IF j = 0 THEN r ELSE 0) + k - (IF j = 0 THEN 0 ELSE j * p - r)
  BY DEF StartRva, SizeRead
<1>6. PageByte(addr, j, k, junk) = IF offset < p THEN mem[(a + j) * p + offset] ELSE junk[k]
  BY DEF PageByte
<1> HIDE DEF p, r, a, j, m, offset
<1>7. j * p \in Nat /\ (j = 0 => j * p = 0) /\ a * p \in Nat /\ (a + j) * p = a * p + j * p
  BY <1>1, <1>2, <1>4
<1>8. offset = m
  BY <1>1, <1>2, <1>4, <1>5, <1>7
<1>9. (a + j) * p + offset = addr + k
  BY <1>1, <1>2, <1>4, <1>7, <1>8
<1> QED
  BY <1>1, <1>4, <1>6, <1>8, <1>9 DEF j

\* The recursion of memread over the pages, solved.
LEMMA BufferIsExact ==
  ASSUME NEW addr \in Nat, NEW n \in Nat \ {0}, EndsOnPagesRead(addr, n), NEW junk,
         NEW k \in 0 .. n - 1
  PROVE  memread(addr, n, junk)[k] = mem[addr + k]
<1> DEFINE l == LastPage(n)
           Loop(g) == [i \in 0 .. l |->
             [h \in 0 .. n - 1 |->
               IF SizeRead(addr, i) <= h /\ h < SizeRead(addr, i) + CopySize(addr, n, i)
               THEN PageByte(addr, i, h, junk)
               ELSE IF i = 0 THEN junk[h] ELSE g[i - 1][h]]]
           buffer == CHOOSE g : g = Loop(g)
           read == [i \in 0 .. l |-> [h \in 0 .. n - 1 |->
             IF OnPage(addr, h) <= i THEN mem[addr + h] ELSE junk[h]]]
<1>1. memread(addr, n, junk) = buffer[l]
  BY DEF memread
<1>2. l \in Nat
  BY PageOf DEF LastPage
<1>3. \A h \in 0 .. n - 1 : OnPage(addr, h) \in 0 .. l
      /\ \A i \in 0 .. l : (SizeRead(addr, i) <= h /\ h < SizeRead(addr, i) + CopySize(addr, n, i))
                           <=> i = OnPage(addr, h)
  BY CoveredOnce DEF Covers
<1>4. \A h \in 0 .. n - 1 : PageByte(addr, OnPage(addr, h), h, junk) = mem[addr + h]
  BY ByteOnPage
<1> HIDE DEF l
<1>5. \A g : \A i \in 0 .. l : \A h \in 0 .. n - 1 :
        Loop(g)[i][h] = IF i = OnPage(addr, h) THEN mem[addr + h]
                        ELSE IF i = 0 THEN junk[h] ELSE g[i - 1][h]
  <2> SUFFICES ASSUME NEW g, NEW i \in 0 .. l, NEW h \in 0 .. n - 1
               PROVE  Loop(g)[i][h] = IF i = OnPage(addr, h) THEN mem[addr + h]
                                      ELSE IF i = 0 THEN junk[h] ELSE g[i - 1][h]
    BY Zenon
  <2> DEFINE covered == SizeRead(addr, i) <= h /\ h < SizeRead(addr, i) + CopySize(addr, n, i)
  <2>1. Loop(g)[i][h] = IF covered THEN PageByte(addr, i, h, junk)
                        ELSE IF i = 0 THEN junk[h] ELSE g[i - 1][h]
    OBVIOUS
  <2>2. covered <=> i = OnPage(addr, h)
    BY <1>3
  <2>3. i = OnPage(addr, h) => PageByte(addr, i, h, junk) = mem[addr + h]
    BY <1>4
  <2> HIDE DEF covered, Loop
  <2>4. CASE i = OnPage(addr, h)
    BY <2>1, <2>2, <2>3, <2>4
  <2>5. CASE i # OnPage(addr, h)
    BY <2>1, <2>2, <2>5
  <2> QED
    BY <2>4, <2>5
<1>6. read = Loop(read)
  <2>1. ASSUME NEW i \in 0 .. l, NEW h \in 0 .. n - 1
        PROVE  read[i][h] = Loop(read)[i][h]
    <3>1. OnPage(addr, h) \in Nat
      BY <1>2, <1>3
    <3>2. i \in Nat
      BY <1>2
    <3>3. i # 0 => i - 1 \in 0 .. l
      BY <1>2
    <3>4. Loop(read)[i][h] = IF i = OnPage(addr, h) THEN mem[addr + h]
                        ELSE IF i = 0 THEN junk[h] ELSE read[i - 1][h]
      <4> HIDE DEF Loop, read
      <4> QED
        BY <1>5
    <3> HIDE DEF Loop
    <3>5. i # 0 => read[i - 1][h] = IF OnPage(addr, h) <= i - 1 THEN mem[addr + h] ELSE junk[h]
      BY <3>3
    <3> QED
      BY <3>1, <3>2, <3>4, <3>5
  <2>2. \A i \in 0 .. l : read[i] = Loop(read)[i]
    <3>1. ASSUME NEW i \in 0 .. l
          PROVE  read[i] = Loop(read)[i]
      <4> DEFINE f == read[i]
                 g == Loop(read)[i]
      <4>1. f = [h \in 0 .. n - 1 |-> f[h]]
        OBVIOUS
      <4>2. g = [h \in 0 .. n - 1 |-> g[h]]
        OBVIOUS
      <4>3. \A h \in 0 .. n - 1 : f[h] = g[h]
        BY <2>1
      <4> HIDE DEF f, g
      <4>4. f = g
        BY <4>1, <4>2, <4>3
      <4> QED
        BY <4>4 DEF f, g
    <3> QED
      BY <3>1
  <2> QED
    BY <2>2
<1>7. buffer = Loop(buffer)
  <2> HIDE DEF Loop, read
  <2> QED
    BY <1>6
<1> HIDE DEF buffer
<1>8. \A i \in 0 .. l : buffer[i][k] = IF OnPage(addr, k) <= i THEN mem[addr + k] ELSE junk[k]
  <2> DEFINE Wrong == {i \in 0 .. l :
                buffer[i][k] # IF OnPage(addr, k) <= i THEN mem[addr + k] ELSE junk[k]}
  <2>1. ASSUME Wrong # {} PROVE FALSE
    <3>1. Wrong \in SUBSET Nat
      BY <1>2
    <3> HIDE DEF Wrong
    <3>2. PICK i \in Wrong : \A m \in Wrong : i <= m
      BY <2>1, <3>1, LeastNumber
    <3>3. i \in 0 .. l /\ i \in Nat
      BY <1>2, <3>2 DEF Wrong
    <3>4. buffer[i][k] = IF i = OnPage(addr, k) THEN mem[addr + k]
                        ELSE IF i = 0 THEN junk[k] ELSE buffer[i - 1][k]
      <4> HIDE DEF Loop
      <4> QED
        BY <1>5, <1>7, <3>3
    <3>5. i # 0 => i - 1 \in 0 .. l /\ i - 1 \notin Wrong
      BY <1>2, <3>2, <3>3
    <3>6. i # 0 => buffer[i - 1][k] = IF OnPage(addr, k) <= i - 1 THEN mem[addr + k] ELSE junk[k]
      BY <3>5 DEF Wrong
    <3>7. OnPage(addr, k) \in Nat
      BY <1>2, <1>3
    <3>8. buffer[i][k] = IF OnPage(addr, k) <= i THEN mem[addr + k] ELSE junk[k]
      BY <3>3, <3>4, <3>6, <3>7
    <3> QED
      BY <3>2, <3>8 DEF Wrong
  <2> QED
    BY <2>1
<1>9. OnPage(addr, k) <= l /\ l \in 0 .. l
  BY <1>2, <1>3
<1> QED
  BY <1>1, <1>8, <1>9

\* A read that succeeds returns the bytes of the debuggee, for any address, size
\* and page size, when the range ends on the pages the loop reads.
THEOREM ReadsAreExact == MemorySpec => []ReadIsExact
<1>1. MemoryTypeOK => ReadIsExact
  <2> SUFFICES ASSUME MemoryTypeOK, NEW addr \in DOMAIN mem, NEW n \in Value \ {0},
                      EndsOnPagesRead(addr, n), NEW v \in Byte, NEW k \in 0 .. n - 1
               PROVE  memread(addr, n, [h \in 0 .. n - 1 |-> v])[k] = mem[addr + k]
    BY Zenon DEF ReadIsExact
  <2>1. addr \in Nat /\ n \in Nat \ {0}
    BY ValueAssumption DEF MemoryTypeOK, Addresses
  <2> QED
    BY <2>1, BufferIsExact
<1> QED
  BY <1>1, MemoryTypeCorrect, PTL


-----------------------------------------------------------------------------
(* Numbers and their bytes.                                                 *)

\* What the bytes count.
LEMMA Weights ==
  /\ Weight(0) = 1
  /\ \A i \in Nat : Weight(i) \in Nat \ {0} /\ \A j \in Nat : Weight(i + j) = Weight(i) * Weight(j)
<1>1. ByteBits \in Nat /\ ByteBits * 0 = 0
  BY BaseAssumption
<1>2. Weight(0) = 1
  BY <1>1, PowersOfTwo DEF Weight
<1>3. ASSUME NEW i \in Nat
      PROVE  Weight(i) \in Nat \ {0} /\ \A j \in Nat : Weight(i + j) = Weight(i) * Weight(j)
  <2>1. ByteBits * i \in Nat
    BY <1>1, Z3
  <2>2. ASSUME NEW j \in Nat
        PROVE  Weight(i + j) = Weight(i) * Weight(j)
    <3>1. ByteBits * j \in Nat /\ ByteBits * (i + j) = ByteBits * i + ByteBits * j
      BY <1>1, Z3
    <3>2. 2 ^ (ByteBits * i + ByteBits * j) = 2 ^ (ByteBits * i) * 2 ^ (ByteBits * j)
      BY <2>1, <3>1, PowersMultiply
    <3> QED
      BY <3>1, <3>2 DEF Weight
  <2> QED
    BY <2>1, <2>2, PowersOfTwo DEF Weight
<1> QED
  BY <1>2, <1>3

\* The bytes below k are those of the remainder.
LEMMA LowBytes ==
  ASSUME NEW q \in Int, NEW m \in Int, NEW k \in Nat, NEW i \in 0 .. k - 1
  PROVE  ByteAt(Weight(k) * q + m, i) = ByteAt(m, i)
<1> DEFINE d == Weight(i)
           b == Weight(1)
           r == Weight(k - (i + 1))
<1>1. /\ d \in Nat \ {0} /\ b \in Nat \ {0} /\ r \in Nat \ {0}
      /\ Weight(k) = (d * b) * r
  <2>1. /\ i \in Nat /\ 1 \in Nat /\ i + 1 \in Nat /\ k - (i + 1) \in Nat
        /\ k = (i + 1) + (k - (i + 1))
    OBVIOUS
  <2>2. Weight(i + 1) = d * b /\ Weight(k) = Weight(i + 1) * r
    BY <2>1, Weights
  <2> QED
    BY <2>1, <2>2, Weights
<1> HIDE DEF d, b, r
<1>2. /\ Weight(k) * q = d * (b * (r * q))
      /\ r * q \in Int /\ b * (r * q) \in Int /\ m \div d \in Int
  <2>1. r * q \in Int /\ b * (r * q) \in Int /\ ((d * b) * r) * q = d * (b * (r * q))
    BY <1>1, Z3
  <2>2. m \div d \in Int
    BY <1>1, Quotient
  <2> QED
    BY <1>1, <2>1, <2>2
<1> DEFINE c == r * q
           t == m \div d
<1>3. (Weight(k) * q + m) \div d = b * c + t
  <2> DEFINE e == b * c
  <2>1. e \in Int
    BY <1>2
  <2> HIDE DEF e
  <2>2. (d * e + m) \div d = e + t
    BY <1>1, <2>1, DivideSum
  <2> QED
    BY <1>2, <2>2 DEF e
<1>4. (b * c + t) % b = t % b
  <2>1. c \in Int /\ t \in Int
    BY <1>2
  <2> HIDE DEF c, t
  <2> QED
    BY <1>1, <2>1, DivideSum
<1> QED
  BY <1>3, <1>4 DEF ByteAt, d, b

\* The bytes from k on are those of the quotient.
LEMMA HighBytes ==
  ASSUME NEW x \in Int, NEW k \in Nat, NEW i \in Nat, k <= i
  PROVE  ByteAt(x, i) = ByteAt(x \div Weight(k), i - k)
<1>1. i - k \in Nat /\ k + (i - k) = i
  OBVIOUS
<1>2. /\ Weight(i) = Weight(k) * Weight(i - k)
      /\ Weight(k) \in Nat \ {0} /\ Weight(i - k) \in Nat \ {0}
  BY <1>1, Weights
<1>3. x \div (Weight(k) * Weight(i - k)) = (x \div Weight(k)) \div Weight(i - k)
  BY <1>2, DivideTwice
<1> QED
  BY <1>2, <1>3 DEF ByteAt

\* A register may be zero.
LEMMA ZeroIsUint == 0 \in Uint
<1>1. UintBytes \in Nat
  BY BaseAssumption
<1>2. Weight(UintBytes) \in Nat \ {0}
  BY <1>1, Weights
<1> QED
  BY <1>2 DEF Uint

-----------------------------------------------------------------------------
(* Writing a part.                                                          *)

\* The low bytes of a register are written, the others stay.
LEMMA WithLowWrites ==
  ASSUME NEW old \in Uint, NEW v \in Uint, NEW k \in Nat, k <= UintBytes
  PROVE  /\ WithLow(old, k, v) \in Uint
         /\ \A i \in 0 .. UintBytes - 1 :
              ByteAt(WithLow(old, k, v), i) = IF i < k THEN ByteAt(v, i) ELSE ByteAt(old, i)
<1> DEFINE w == Weight(k)
           q == old \div w
           m == v % w
           new == WithLow(old, k, v)
           vq == v \div w
           top == Weight(UintBytes - k)
<1>1. /\ w \in Nat \ {0} /\ old \in Nat /\ v \in Nat /\ top \in Nat \ {0}
      /\ Weight(UintBytes) = w * top /\ UintBytes \in Nat
      /\ old < Weight(UintBytes) /\ Weight(UintBytes) \in Nat
  <2>1. UintBytes \in Nat /\ UintBytes - k \in Nat /\ k + (UintBytes - k) = UintBytes
    BY BaseAssumption
  <2>2. w \in Nat \ {0} /\ top \in Nat \ {0} /\ Weight(UintBytes) \in Nat \ {0}
    BY <2>1, Weights
  <2>3. Weight(UintBytes) = w * top
    BY <2>1, Weights
  <2> QED
    BY <2>1, <2>2, <2>3 DEF Uint
<1> HIDE DEF w, top
<1>2. /\ old % w = old - w * q /\ q \in Int /\ old % w \in Int /\ w * q <= old /\ old < w * q + w
      /\ m \in 0 .. w - 1 /\ m \in Int /\ v = w * vq + m /\ vq \in Int
  <2>1. /\ old % w = old - w * q /\ old % w \in 0 .. w - 1
        /\ q \in Int /\ w * q <= old /\ old < w * q + w
    <3>1. w \in Nat \ {0} /\ old \in Int
      BY <1>1
    <3> QED
      BY ONLY <3>1, Remainder, Quotient
  <2>2. m = v - w * vq /\ m \in 0 .. w - 1 /\ vq \in Int
    <3>1. w \in Nat \ {0} /\ v \in Int
      BY <1>1
    <3> QED
      BY ONLY <3>1, Remainder, Quotient
  <2>3. w * vq \in Int /\ v \in Int
    BY <1>1, <2>2, Z3
  <2> HIDE DEF q, m, vq, new
  <2>4. v = w * vq + m
    BY <2>2, <2>3
  <2> QED
    BY <1>1, <2>1, <2>2, <2>4
<1>3. new = w * q + m
  <2>1. new = old - (old % w) + m
    BY DEF WithLow, w
  <2>2. w * q \in Int
    BY <1>1, <1>2, Z3
  <2> HIDE DEF q, m, new
  <2> QED
    BY <1>1, <1>2, <2>1, <2>2
<1> HIDE DEF q, m, new, vq
<1>4. q >= 0 /\ q <= top - 1
  BY <1>1, <1>2, Z3
<1>5. new \in Uint
  <2>1. w * q <= w * (top - 1) /\ w * (top - 1) = w * top - w /\ 0 <= w * q
    BY <1>1, <1>2, <1>4, Z3
  <2>2. w * q \in Int /\ w * top \in Int
    BY <1>1, <1>2, Z3
  <2> QED
    BY <1>1, <1>2, <1>3, <2>1, <2>2 DEF Uint
<1>6. ASSUME NEW i \in 0 .. UintBytes - 1
      PROVE  ByteAt(new, i) = IF i < k THEN ByteAt(v, i) ELSE ByteAt(old, i)
  <2>1. CASE i < k
    <3>1. i \in 0 .. k - 1
      BY <1>1, <2>1
    <3>2. ByteAt(w * q + m, i) = ByteAt(m, i) /\ ByteAt(w * vq + m, i) = ByteAt(m, i)
      BY <1>2, <3>1, LowBytes DEF w
    <3> QED
      BY <1>2, <1>3, <2>1, <3>2
  <2>2. CASE ~ (i < k)
    <3>1. i \in Nat /\ k <= i /\ new \in Int
      BY <1>1, <1>5, <2>2 DEF Uint
    <3>2. new \div w = q
      <4>1. new \div w = q + m \div w
        BY <1>1, <1>2, <1>3, DivideSum
      <4>2. m \div w = 0
        BY <1>1, <1>2, DivideSmall
      <4> QED
        BY <1>2, <4>1, <4>2
    <3>3. ByteAt(new, i) = ByteAt(new \div w, i - k) /\ ByteAt(old, i) = ByteAt(q, i - k)
      BY <1>1, <3>1, HighBytes DEF w, q
    <3> QED
      BY <2>2, <3>2, <3>3
  <2> QED
    BY <2>1, <2>2
<1> QED
  BY <1>5, <1>6 DEF new

\* The second byte of a register is written, the others stay.
LEMMA WithHighWrites ==
  ASSUME NEW old \in Uint, NEW v \in Uint
  PROVE  /\ WithHigh(old, v) \in Uint
         /\ \A i \in 0 .. UintBytes - 1 :
              ByteAt(WithHigh(old, v), i) = IF i = 1 THEN ByteAt(v, 0) ELSE ByteAt(old, i)
<1> DEFINE b == Weight(1)
           p == old \div b
           l == old % b
           q == p \div b
           h == p % b
           c == v % b
           new == WithHigh(old, v)
           top == Weight(UintBytes - 2)
<1>1. /\ b \in Nat \ {0} /\ top \in Nat \ {0} /\ old \in Nat /\ v \in Nat
      /\ Weight(UintBytes) = b * (b * top) /\ UintBytes \in Nat
      /\ old < b * (b * top) /\ b * (b * top) \in Int /\ b * top \in Int
  <2>1. UintBytes \in Nat /\ UintBytes - 2 \in Nat /\ UintBytes - 1 \in Nat /\ 1 \in Nat
        /\ 1 + (UintBytes - 2) = UintBytes - 1 /\ 1 + (UintBytes - 1) = UintBytes
    BY BaseAssumption
  <2>2. b \in Nat \ {0} /\ top \in Nat \ {0} /\ Weight(UintBytes) \in Nat \ {0}
    BY <2>1, Weights
  <2>3. Weight(UintBytes - 1) = b * top /\ Weight(UintBytes) = b * Weight(UintBytes - 1)
    BY <2>1, Weights
  <2>4. b * top \in Int /\ b * (b * top) \in Int
    BY <2>2, Z3
  <2> QED
    BY <2>1, <2>2, <2>3, <2>4 DEF Uint
<1> HIDE DEF b, top
<1>2. /\ p \in Int /\ l = old - b * p /\ l \in 0 .. b - 1 /\ b * p <= old /\ old < b * p + b
  <2>1. b \in Nat \ {0} /\ old \in Int
    BY <1>1
  <2> QED
    BY ONLY <2>1, Remainder, Quotient
<1> HIDE DEF p, l
<1>3. /\ q \in Int /\ h = p - b * q /\ h \in 0 .. b - 1 /\ b * q <= p /\ p < b * q + b
  <2>1. b \in Nat \ {0} /\ p \in Int
    BY <1>1, <1>2
  <2> QED
    BY ONLY <2>1, Remainder, Quotient
<1>4. c \in 0 .. b - 1 /\ ByteAt(v, 0) = c
  <2>1. v \div 1 = v
    <3>1. v \in Int /\ 1 * v <= v /\ v < 1 * v + 1 /\ 1 \in Nat \ {0}
      BY <1>1
    <3> QED
      BY <3>1, Quotient
  <2>2. c \in 0 .. b - 1
    <3>1. b \in Nat \ {0} /\ v \in Int
      BY <1>1
    <3> QED
      BY ONLY <3>1, Remainder
  <2> QED
    BY <2>1, <2>2, Weights DEF ByteAt, b
<1>5. new = old - h * b + c * b
  BY DEF WithHigh, ByteAt, h, p, b, c
<1> HIDE DEF q, h, c, new
<1>6. new = b * (b * q + c) + l /\ b * q + c \in Int /\ old = b * p + l
  <2>1. /\ b * p \in Int /\ b * q \in Int /\ b * (b * q) \in Int
        /\ h * b = b * p - b * (b * q) /\ c * b \in Int /\ b * (b * q + c) = b * (b * q) + c * b
    BY <1>1, <1>2, <1>3, <1>4, Z3
  <2>2. b * (b * q + c) \in Int
    BY <2>1
  <2> QED
    BY <1>1, <1>2, <1>4, <1>5, <2>1, <2>2
<1>7. new \in Uint
  <2>1. 0 <= p /\ p <= b * top - 1
    BY <1>1, <1>2, Z3
  <2>2. 0 <= q /\ q <= top - 1
    BY <1>1, <1>2, <1>3, <2>1, Z3
  <2> DEFINE s == b * q + c
  <2>3. 0 <= s /\ s <= b * top - 1 /\ s \in Int
    <3>1. 0 <= b * q /\ b * q <= b * (top - 1) /\ b * (top - 1) = b * top - b /\ b * q \in Int
      BY <1>1, <1>3, <2>2, Z3
    <3> QED
      BY <1>1, <1>4, <3>1
  <2> HIDE DEF s
  <2>4. 0 <= b * s /\ b * s <= b * (b * top - 1) /\ b * (b * top - 1) = b * (b * top) - b
        /\ b * s \in Int
    BY <1>1, <2>3, Z3
  <2>5. new = b * s + l
    BY <1>6 DEF s
  <2> QED
    BY <1>1, <1>2, <2>4, <2>5 DEF Uint
<1>8. ByteAt(new, 0) = ByteAt(old, 0)
  <2>1. 0 \in 0 .. 1 - 1 /\ 1 \in Nat /\ l \in Int /\ p \in Int
    BY <1>1, <1>2
  <2> DEFINE s == b * q + c
  <2>2. s \in Int /\ new = b * s + l
    BY <1>6
  <2> HIDE DEF s
  <2> QED
    BY <1>6, <2>1, <2>2, LowBytes DEF b
<1>9. ASSUME NEW i \in 0 .. UintBytes - 1, i # 0
      PROVE  ByteAt(new, i) = IF i = 1 THEN c ELSE ByteAt(old, i)
  <2>1. i \in Nat /\ 1 <= i /\ 1 \in Nat /\ new \in Int /\ old \in Int
    BY <1>1, <1>7, <1>9 DEF Uint
  <2>2. new \div b = b * q + c
    <3> DEFINE s == b * q + c
    <3>1. s \in Int /\ new = b * s + l /\ l \in Int
      BY <1>1, <1>2, <1>6
    <3> HIDE DEF s
    <3>2. new \div b = s + l \div b
      BY <1>1, <3>1, DivideSum
    <3>3. l \div b = 0
      BY <1>1, <1>2, DivideSmall
    <3>4. new \div b = s
      BY <3>1, <3>2, <3>3
    <3> QED
      BY <3>4 DEF s
  <2>3. ByteAt(new, i) = ByteAt(b * q + c, i - 1) /\ ByteAt(old, i) = ByteAt(p, i - 1)
    BY <2>1, <2>2, HighBytes DEF b, p
  <2>4. CASE i = 1
    <3>1. ByteAt(b * q + c, 0) = ByteAt(c, 0)
      <4>1. 0 \in 0 .. 1 - 1 /\ 1 \in Nat /\ c \in Int /\ q \in Int
        BY <1>1, <1>3, <1>4
      <4> QED
        BY <4>1, LowBytes DEF b
    <3>2. ByteAt(c, 0) = c
      <4>1. c \in Int /\ 1 * c <= c /\ c < 1 * c + 1 /\ 1 \in Nat \ {0}
        BY <1>1, <1>4
      <4>2. c \div 1 = c
        BY <4>1, Quotient
      <4>3. c % b = c
        BY <1>1, <1>4, DivideSmall
      <4> QED
        BY <4>2, <4>3, Weights DEF ByteAt, b
    <3> QED
      BY <2>3, <2>4, <3>1, <3>2
  <2>5. CASE i # 1
    <3>1. i - 1 \in Nat /\ 1 <= i - 1 /\ b * q + c \in Int
      BY <1>6, <2>1, <2>5
    <3>2. (b * q + c) \div b = q
      <4>1. (b * q + c) \div b = q + c \div b
        <5>1. b \in Nat \ {0} /\ q \in Int /\ c \in Int
          BY <1>1, <1>3, <1>4
        <5> QED
          BY ONLY <5>1, DivideSum
      <4>2. c \div b = 0
        BY <1>1, <1>4, DivideSmall
      <4> QED
        BY <1>3, <4>1, <4>2
    <3>3. /\ ByteAt(b * q + c, i - 1) = ByteAt(q, (i - 1) - 1)
          /\ ByteAt(p, i - 1) = ByteAt(q, (i - 1) - 1)
      BY <1>2, <2>1, <3>1, <3>2, HighBytes DEF b, q
    <3> QED
      BY <2>3, <2>5, <3>3
  <2> QED
    BY <2>4, <2>5
<1> QED
  BY <1>4, <1>7, <1>8, <1>9 DEF new

-----------------------------------------------------------------------------
(* The registers.                                                           *)

\* A part is the second byte of a register, or low bytes of it.
IsPart(r) == (r.low = 0 /\ r.bytes \in 0 .. UintBytes) \/ (r.low = 1 /\ r.bytes = 1)

\* Every name is one of a part.
LEMMA RegistersAreParts == \A n \in DOMAIN Register : IsPart(Register[n])
<1> USE BaseAssumption
<1>1. \A n \in DOMAIN DwordRegister : IsPart(DwordRegister[n])
  BY DEF DwordRegister, IsPart, Part
<1>2. \A n \in DOMAIN SegmentRegister : IsPart(SegmentRegister[n])
  BY DEF SegmentRegister, IsPart, Part
<1>3. \A n \in DOMAIN WordRegister : IsPart(WordRegister[n])
  BY DEF WordRegister, IsPart, Part
<1>4. \A n \in DOMAIN ByteRegister : IsPart(ByteRegister[n])
  BY DEF ByteRegister, IsPart, Part
<1>5. \A n \in DOMAIN DebugRegister : IsPart(DebugRegister[n])
  BY DEF DebugRegister, IsPart, Part
<1>6. \A n \in DOMAIN NativeRegister : IsPart(NativeRegister[n])
  BY DEF NativeRegister, IsPart, Part
<1>7. Win64 => \A n \in DOMAIN WideRegister : IsPart(WideRegister[n])
  BY DEF WideRegister, IsPart, Part, Win64
<1>8. \A n \in DOMAIN WidePartRegister : IsPart(WidePartRegister[n])
  BY DEF WidePartRegister, IsPart, Part
<1>9. \A t \in Tables : \A n \in DOMAIN t : IsPart(t[n])
  BY <1>1, <1>2, <1>3, <1>4, <1>5, <1>6, <1>7, <1>8 DEF Tables
<1>10. ASSUME NEW n \in DOMAIN Register
       PROVE  \E t \in Tables : n \in DOMAIN t /\ Register[n] = t[n]
  <2> DEFINE t == CHOOSE u \in Tables : n \in DOMAIN u
  <2>1. n \in UNION {DOMAIN u : u \in Tables} /\ Register[n] = t[n]
    BY Zenon DEF Register
  <2>2. \E u \in Tables : n \in DOMAIN u
    BY <2>1
  <2>3. t \in Tables /\ n \in DOMAIN t
    BY <2>2
  <2> QED
    BY <2>1, <2>3
<1> QED
  BY <1>9, <1>10

\* What every step keeps.
RegistersTypeOK == regs \in [Context -> Uint]

\* Writing a register writes the bytes of its name and leaves the others.
LEMMA SetRegisterWrites ==
  ASSUME RegistersTypeOK, NEW n \in UsedRegister, NEW v \in Uint
  PROVE  /\ setregister(n, v) \in [Context -> Uint]
         /\ \A r \in Context : \A i \in 0 .. UintBytes - 1 :
              ByteAt(setregister(n, v)[r], i) =
                IF r = Register[n].of /\ i \in BytesOf(n)
                THEN ByteAt(v, i - Register[n].low) ELSE ByteAt(regs[r], i)
<1> DEFINE part == Register[n]
           old == regs[part.of]
           new == IF part.low = 1 THEN WithHigh(old, v) ELSE WithLow(old, part.bytes, v)
<1>1. IsPart(part) /\ part.of \in Context
  <2>1. n \in DOMAIN Register
    BY UsedAssumption
  <2> QED
    BY <2>1, RegistersAreParts DEF Context
<1>2. old \in Uint /\ UintBytes \in Nat /\ regs \in [Context -> Uint]
  BY <1>1, BaseAssumption DEF RegistersTypeOK
<1>3. setregister(n, v) = [regs EXCEPT ![part.of] = new]
  BY DEF setregister
<1>4. /\ setregister(n, v)[part.of] = new
      /\ \A r \in Context : r # part.of => setregister(n, v)[r] = regs[r]
  <2> HIDE DEF new, part
  <2> QED
    BY <1>1, <1>2, <1>3
<1>5. BytesOf(n) = part.low .. part.low + part.bytes - 1
  BY DEF BytesOf
<1> HIDE DEF part, old, new
<1>6. /\ new \in Uint
      /\ \A i \in 0 .. UintBytes - 1 :
           ByteAt(new, i) = IF i \in BytesOf(n) THEN ByteAt(v, i - part.low) ELSE ByteAt(old, i)
  <2>1. CASE part.low = 1
    <3>1. part.bytes = 1 /\ new = WithHigh(old, v)
      BY <1>1, <2>1 DEF IsPart, new
    <3>2. \A i \in 0 .. UintBytes - 1 : i \in BytesOf(n) <=> i = 1
      BY <1>2, <1>5, <2>1, <3>1
    <3>3. /\ WithHigh(old, v) \in Uint
          /\ \A i \in 0 .. UintBytes - 1 :
               ByteAt(WithHigh(old, v), i) = IF i = 1 THEN ByteAt(v, 0) ELSE ByteAt(old, i)
      BY <1>2, WithHighWrites
    <3>4. 1 - part.low = 0
      BY <2>1
    <3> QED
      BY <3>1, <3>2, <3>3, <3>4
  <2>2. CASE part.low # 1
    <3>1. /\ part.low = 0 /\ part.bytes \in Nat /\ part.bytes <= UintBytes
          /\ new = WithLow(old, part.bytes, v)
      BY <1>1, <1>2, <2>2 DEF IsPart, new
    <3>2. \A i \in 0 .. UintBytes - 1 : (i \in BytesOf(n) <=> i < part.bytes) /\ i - part.low = i
      BY <1>2, <1>5, <3>1
    <3>3. /\ WithLow(old, part.bytes, v) \in Uint
          /\ \A i \in 0 .. UintBytes - 1 :
               ByteAt(WithLow(old, part.bytes, v), i) =
                 IF i < part.bytes THEN ByteAt(v, i) ELSE ByteAt(old, i)
      BY <1>2, <3>1, WithLowWrites
    <3> QED
      BY <3>1, <3>2, <3>3
  <2> QED
    BY <2>1, <2>2
<1>7. setregister(n, v) \in [Context -> Uint]
  BY <1>2, <1>3, <1>6
<1>8. ASSUME NEW r \in Context, NEW i \in 0 .. UintBytes - 1
      PROVE  ByteAt(setregister(n, v)[r], i) =
               IF r = part.of /\ i \in BytesOf(n) THEN ByteAt(v, i - part.low) ELSE ByteAt(regs[r], i)
  <2>1. CASE r = part.of
    BY <1>4, <1>6, <2>1 DEF old
  <2>2. CASE r # part.of
    BY <1>4, <2>2
  <2> QED
    BY <2>1, <2>2
<1> QED
  BY <1>7, <1>8 DEF part

\* A flag is a bit of the register that holds it: flipping it leaves the register one.
LEMMA SetFlagKeeps ==
  ASSUME RegistersTypeOK, NEW f \in UsedFlag, NEW set \in BOOLEAN
  PROVE  setflag(f, set) \in [Context -> Uint]
<1> DEFINE bit == 2 ^ FlagBit[f]
           x == regs["eflags"]
           is == valflagfromstring(f)
           new == IF ~ (set \/ is) THEN x ELSE IF is THEN x - bit ELSE x + bit
           above == 2 ^ ((ByteBits * UintBytes - FlagBit[f]) - 1)
<1>1. /\ FlagBit[f] \in Nat /\ FlagBit[f] < ByteBits * UintBytes /\ ByteBits * UintBytes \in Nat
  <2>1. f \in DOMAIN FlagBit /\ FlagBit[f] < ByteBits * UintBytes
    BY UsedAssumption
  <2>2. \A g \in DOMAIN FlagBit : FlagBit[g] \in Nat
    BY DEF FlagBit
  <2>3. ByteBits \in Nat /\ UintBytes \in Nat
    BY BaseAssumption
  <2>4. ByteBits * UintBytes \in Nat
    BY <2>3, Z3
  <2> QED
    BY <2>1, <2>2, <2>4
<1>2. /\ bit \in Nat \ {0} /\ above \in Nat \ {0}
      /\ Weight(UintBytes) = bit * (2 * above)
  <2> DEFINE n == FlagBit[f]
             m == (ByteBits * UintBytes - FlagBit[f]) - 1
  <2>1. n \in Nat /\ m \in Nat /\ m + 1 \in Nat /\ n + (m + 1) = ByteBits * UintBytes
    BY <1>1
  <2> HIDE DEF n, m
  <2>2. 2 ^ n \in Nat \ {0} /\ 2 ^ m \in Nat \ {0} /\ 2 ^ (m + 1) = 2 * 2 ^ m
    BY <2>1, PowersOfTwo
  <2>3. 2 ^ (n + (m + 1)) = 2 ^ n * 2 ^ (m + 1)
    BY <2>1, PowersMultiply
  <2> QED
    BY <2>1, <2>2, <2>3 DEF Weight, n, m
<1>3. "eflags" \in Context /\ x \in Uint /\ regs \in [Context -> Uint]
  <2>1. Register["cflags"].of = "eflags"
    <3> DEFINE Right(t) == "cflags" \in DOMAIN t => t["cflags"].of = "eflags"
    <3>1. \E t \in Tables : "cflags" \in DOMAIN t
      <4>1. "cflags" \in DOMAIN NativeRegister
        BY DEF NativeRegister
      <4>2. NativeRegister \in Tables
        BY DEF Tables
      <4> QED
        BY <4>1, <4>2
    <3>2. \A t \in Tables : Right(t)
      <4>1. Right(DwordRegister) /\ Right(SegmentRegister) /\ Right(WordRegister)
        BY DEF DwordRegister, SegmentRegister, WordRegister
      <4>2. Right(ByteRegister) /\ Right(DebugRegister)
        BY DEF ByteRegister, DebugRegister
      <4>3. Right(NativeRegister)
        BY DEF NativeRegister, Part
      <4>4. Win64 => Right(WideRegister) /\ Right(WidePartRegister)
        BY DEF WideRegister, WidePartRegister
      <4> HIDE DEF Right
      <4> QED
        BY <4>1, <4>2, <4>3, <4>4 DEF Tables
    <3>3. "cflags" \in UNION {DOMAIN t : t \in Tables}
      BY <3>1
    <3>4. Register["cflags"] = (CHOOSE t \in Tables : "cflags" \in DOMAIN t)["cflags"]
      BY <3>3 DEF Register
    <3> QED
      BY <3>1, <3>2, <3>4
  <2>2. "eflags" \in Context
    BY <2>1 DEF Context
  <2> QED
    BY <2>2 DEF RegistersTypeOK
<1>4. setflag(f, set) = [regs EXCEPT !["eflags"] = new]
  BY DEF setflag
<1> DEFINE q == x \div bit
<1>5. /\ x \in Nat /\ x <= bit * (2 * above) - 1 /\ bit * (2 * above) \in Int
      /\ q \in Int /\ bit * q <= x /\ x < bit * q + bit /\ (is <=> q % 2 = 1)
  <2>1. bit * (2 * above) \in Int
    BY <1>2, Z3
  <2>2. x \in Nat /\ x <= bit * (2 * above) - 1
    BY <1>2, <1>3, <2>1 DEF Uint
  <2>3. is <=> q % 2 = 1
    BY DEF valflagfromstring
  <2> HIDE DEF bit, x, is, above
  <2> QED
    BY <1>2, <2>1, <2>2, <2>3, Quotient DEF q
<1> HIDE DEF bit, x, is, above, q
<1>6. x - bit \in Uint \/ ~ is
  <2>1. is => q >= 1
    <3>1. q >= 0
      BY <1>2, <1>5, Z3
    <3> QED
      BY <1>5, <3>1
  <2>2. is => bit * q >= bit /\ bit * q \in Int
    BY <1>2, <1>5, <2>1, Z3
  <2> QED
    BY <1>2, <1>5, <2>2 DEF Uint
<1>7. x + bit \in Uint \/ is
  <2>1. q <= 2 * above - 1
    BY <1>2, <1>5, Z3
  <2>2. ~ is => q <= 2 * above - 2
    BY <1>2, <1>5, <2>1
  <2>3. ~ is => bit * q <= bit * (2 * above) - 2 * bit /\ bit * q \in Int
    BY <1>2, <1>5, <2>2, Z3
  <2> QED
    BY <1>2, <1>5, <2>3 DEF Uint
<1>8. new \in Uint
  BY <1>3, <1>6, <1>7
<1> HIDE DEF new
<1> QED
  BY <1>3, <1>4, <1>8

\* In every state of the registers, whatever was written to them, writing one by any of
\* its names changes the bytes of that name and no other.
THEOREM PartsStayApart == RegistersSpec => []RegistersAreTheirBytes
<1>1. RegistersInit => RegistersTypeOK
  BY ZeroIsUint DEF RegistersInit, RegistersTypeOK
<1>2. RegistersTypeOK /\ [RegistersNext]_regs => RegistersTypeOK'
  <2> SUFFICES ASSUME RegistersTypeOK, [RegistersNext]_regs
               PROVE  RegistersTypeOK'
    OBVIOUS
  <2>1. CASE \E n \in UsedRegister, v \in Uint : regs' = setregister(n, v)
    BY <2>1, SetRegisterWrites DEF RegistersTypeOK
  <2>2. CASE \E f \in UsedFlag, set \in BOOLEAN : regs' = setflag(f, set)
    BY <2>2, SetFlagKeeps DEF RegistersTypeOK
  <2>3. CASE regs' \in [Context -> Uint]
    BY <2>3 DEF RegistersTypeOK
  <2>4. CASE UNCHANGED regs
    BY <2>4 DEF RegistersTypeOK
  <2> QED
    BY <2>1, <2>2, <2>3, <2>4 DEF RegistersNext
<1>3. RegistersTypeOK => RegistersAreTheirBytes
  BY SetRegisterWrites DEF RegistersAreTheirBytes
<1> QED
  BY <1>1, <1>2, <1>3, PTL DEF RegistersSpec
=============================================================================
