----------------------------- MODULE Variables -----------------------------
(***************************************************************************)
(* The variables of the debugger (variable.cpp): a list of named values,   *)
(* nine of them reserved by varinit, the others made by the user.          *)
(*                                                                         *)
(* A name is a member of Word: the text without the '$' that the code puts *)
(* in front of it, upper and lower case being the same.  An entry has a    *)
(* set of names, the name and its aliases.                                 *)
(***************************************************************************)
EXTENDS Naturals, SequencesExt

CONSTANTS
  Word,         \* names that variables may have
  Value,        \* values of a uint
  Typed,        \* names in the commands of the user (all of them in the code)
  TypedValue    \* values in the commands of the user (likewise)

ReservedWords ==
  {"res", "result", "res1", "result1", "res2", "result2", "res3", "result3",
   "res4", "result4", "hp", "hProcess", "pid", "ans", "an", "lastalloc"}

ASSUME WordAssumption == ReservedWords \subseteq Word
ASSUME ValueAssumption == 0 \in Value /\ Value \subseteq Nat
ASSUME TypedAssumption == Typed \subseteq Word /\ TypedValue \subseteq Value

VARIABLE vars   \* the list, head first

VarType == {"system", "user", "readonly", "hidden"}
Var == [names : SUBSET Word, type : VarType, value : Value]

VarsTypeOK == vars \in Seq(Var)

Reserved(names, type) == [names |-> names, type |-> type, value |-> 0]

varinit ==
  << Reserved({"res", "result"}, "system"),
     Reserved({"res1", "result1"}, "system"),
     Reserved({"res2", "result2"}, "system"),
     Reserved({"res3", "result3"}, "system"),
     Reserved({"res4", "result4"}, "system"),
     Reserved({"hp", "hProcess"}, "readonly"),
     Reserved({"pid"}, "readonly"),
     Reserved({"ans", "an"}, "hidden"),
     Reserved({"lastalloc"}, "readonly") >>

VarsInit == vars = varinit

-----------------------------------------------------------------------------
(* The operations.  A call that is refused changes nothing.                 *)

\* Mutant of varfind: only the first name of an entry is compared, so that an
\* alias is free for a variable of the user.
varfindFirstName(w) ==
  {i \in DOMAIN vars : w \in vars[i].names \ {"result", "hProcess", "an"}}

\* The entries that answer to w; the code returns the first.
varfind(w) == {i \in DOMAIN vars : w \in vars[i].names}

First(S) == CHOOSE i \in S : \A j \in S : i <= j

IsVariable(w) == varfind(w) # {}
varget(w) == vars[First(varfind(w))].value

Writable(w) ==
  IsVariable(w) /\ vars[First(varfind(w))].type \notin {"readonly", "hidden"}

varnew(w, v) ==
  IF IsVariable(w) THEN vars
  ELSE Append(vars, [names |-> {w}, type |-> "user", value |-> v])

\* varset with setreadonly: what the debugger itself writes, for each name in
\* the domain of `values`.
SetByDebugger(values) ==
  [i \in DOMAIN vars |->
     LET named == vars[i].names \cap DOMAIN values IN
     IF named = {} THEN vars[i]
     ELSE [vars[i] EXCEPT !.value = values[CHOOSE w \in named : TRUE]]]

\* Mutant of varset: the type of the variable is not tested.
varsetAnyway(w, v) ==
  IF IsVariable(w) THEN [vars EXCEPT ![First(varfind(w))].value = v] ELSE vars

\* varset without setreadonly: what a command of the user writes.
varset(w, v) ==
  IF Writable(w) THEN [vars EXCEPT ![First(varfind(w))].value = v] ELSE vars

\* Mutant of vardel: variables of the system are deleted as well.
vardelSystem(w) ==
  IF ~IsVariable(w) THEN vars ELSE RemoveAt(vars, First(varfind(w)))

\* vardel for the user: never with delsystem.
vardel(w) ==
  IF IsVariable(w) /\ vars[First(varfind(w))].type = "user"
  THEN RemoveAt(vars, First(varfind(w))) ELSE vars

-----------------------------------------------------------------------------
(* What the commands of the user and the debugger may do to the list.       *)

UserCall ==
  \/ \E w \in Typed, v \in TypedValue : vars' = varnew(w, v)
  \/ \E w \in Typed, v \in TypedValue : vars' = varset(w, v)
  \/ \E w \in Typed : vars' = vardel(w)

DebuggerCall ==
  \E names \in SUBSET {"res", "hp", "pid", "lastalloc"} :
    \E values \in [names -> Value] : vars' = SetByDebugger(values)

VarsNext == UserCall \/ DebuggerCall

VarsSpec == VarsInit /\ [][VarsNext]_vars

-----------------------------------------------------------------------------
(* Properties.                                                              *)

\* A name is an alias of one variable only: whatever is created and deleted, no
\* two entries answer to one name, so that a variable and its alias share a value.
NamesUnique ==
  \A i, j \in DOMAIN vars : vars[i].names \cap vars[j].names # {} => i = j

\* Variables.htm: variables of the system "cannot be deleted".  The reserved ones
\* stay at the head of the list, with their names and their types.
ReservedStay ==
  /\ Len(vars) >= Len(varinit)
  /\ \A i \in DOMAIN varinit : /\ vars[i].names = varinit[i].names
                               /\ vars[i].type = varinit[i].type
=============================================================================
