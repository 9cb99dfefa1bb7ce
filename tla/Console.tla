------------------------------ MODULE Console ------------------------------
(***************************************************************************)
(* What a line typed by the user does to the registers, the memory and the *)
(* variables: the rewriting of lines that begin with no command            *)
(* (specialformat, cmdfindmain), the commands mov, var and vardel, and the *)
(* display of a value (cbBadCmd), which changes nothing.                   *)
(*                                                                         *)
(* A line is a sequence of tokens as Arguments leaves it: no spaces but    *)
(* the one behind the command, arguments separated by commas.              *)
(***************************************************************************)
EXTENDS Expressions

CONSTANTS
  Line,         \* the lines the user may type
  Odd           \* names of variables made of a text that is not one word

Command(name) == Token("command", name, 0)
Comma == Op(",")
Equal == Op("=")

\* Whether mov, the last to change anything, displayed the value it had assigned.
VARIABLE echo

NoEcho == [kind |-> "none", settled |-> TRUE, assigned |-> TRUE]

console == <<memoryVars, regs, echo>>

ConsoleInit == MemoryInit /\ RegistersInit /\ echo = NoEcho

-----------------------------------------------------------------------------
(* From a line to a command.                                                *)

EndsTwice(s) ==
  Len(s) > 1 /\ s[Len(s)] = s[Len(s) - 1] /\ s[Len(s)] \in {Op("+"), Op("-")}
AndOne(s) == SubSeq(s, 1, Len(s) - 2) \o <<s[Len(s)], Num(1)>>

\* x++ to x+1
Incremented(s) == IF EndsTwice(s) THEN AndOne(s) ELSE s

Mov(dest, src) == <<Command("mov")>> \o dest \o <<Comma>> \o src

\* x=y to mov x,y; x*=y to mov x,x*y; x++ to mov x,x+1; a final = is dropped.
specialformat(s) ==
  LET equal == {i \in DOMAIN s : s[i] = Equal}
      before == SubSeq(s, 1, First(equal) - 1)
      after == SubSeq(s, First(equal) + 1, Len(s))
      dest == SubSeq(before, 1, Len(before) - 1)
  IN
  IF equal = {}
  THEN IF EndsTwice(s) THEN Mov(SubSeq(s, 1, Len(s) - 2), AndOne(s)) ELSE s
  ELSE IF after = <<>> THEN before
  ELSE IF before # <<>> /\ mathisoperator(before[Len(before)]) > 2
       THEN Mov(dest, before \o Incremented(after))
  ELSE Mov(before, Incremented(after))

\* The arguments of a line that begins with a command.
Argument(line, n) ==
  LET commas == SetToSortSeq({i \in DOMAIN line : line[i] = Comma}, <)
      bounds == <<1>> \o commas \o <<Len(line) + 1>>
  IN  SubSeq(line, bounds[n + 1] + 1, bounds[n + 2] - 1)

HasArguments(line, n) ==
  Argument(line, 0) # <<>> /\ (n = 1 \/ (Comma \in ToSet(line) /\ Argument(line, 1) # <<>>))

-----------------------------------------------------------------------------
(* The handlers.                                                            *)

Zeros == [k \in 0 .. UintBytes - 1 |-> 0]
Junk == {[k \in 0 .. UintBytes - 1 |-> v] : v \in Byte}

SingleName(dest) == Len(dest) = 1 /\ dest[1].kind \in {"word", "dollar"}
NameText(dest) == IF SingleName(dest) THEN dest[1].text ELSE Odd[dest]

WriteMemory(size, addr, v) ==
  /\ \A a \in addr .. addr + size - 1 : a \div PageSize \in Committed
  /\ mem' = [a \in DOMAIN mem |->
               IF a \in addr .. addr + size - 1 THEN ByteAt(v, a - addr) ELSE mem[a]]
  /\ UNCHANGED <<regs, vars>>

WriteRegister(name, v) ==
  /\ Debugging
  /\ regs' = setregister(name, v)
  /\ UNCHANGED <<mem, vars>>

WriteFlag(name, v) ==
  /\ Debugging
  /\ regs' = setflag(name, v # 0)
  /\ UNCHANGED <<mem, vars>>

\* Mutant of WriteVariable: that varset refused is not noticed.
WriteVariableAnyway(name, v) ==
  /\ IsVariable(name)
  /\ vars' = varset(name, v)
  /\ UNCHANGED <<mem, regs>>

WriteVariable(name, v) ==
  /\ Writable(name)
  /\ vars' = varset(name, v)
  /\ UNCHANGED <<mem, regs>>

\* valtostring: FALSE when it refuses.
valtostring(dest, v, junk) ==
  IF dest[1].kind = "at"
  THEN LET addr == valfromstring(Tail(dest), junk) IN
       Debugging /\ addr.ok /\ WriteMemory(dest[1].n, addr.v, v)
  ELSE /\ Len(dest) = 1
       /\ CASE dest[1].kind = "word" /\ isregister(dest[1].text)
                 -> WriteRegister(dest[1].text, v)
            [] dest[1].kind = "flag" /\ isflag(dest[1].text)
                 -> WriteFlag(dest[1].text, v)
            [] OTHER -> SingleName(dest) /\ WriteVariable(dest[1].text, v)

\* Number of values that a destination can hold.
Holds(dest) ==
  IF dest[1].kind = "at" THEN Weight(dest[1].n)
  ELSE IF dest[1].kind = "flag" THEN 2
  ELSE IF isregister(dest[1].text) THEN Weight(Register[dest[1].text].bytes)
  ELSE Modulus

\* A location that memread reads to its last byte, and that the assignment does not move:
\* its address is not itself read from the memory.
Settled(dest) ==
  dest[1].kind = "at" =>
    /\ \A i \in 2 .. Len(dest) : dest[i].kind # "at"
    /\ EndsOnPagesRead(valfromstring(Tail(dest), Zeros).v, dest[1].n)

\* cbBadCmd(arg1), of a destination that could be read before: the value displayed
\* then is compared with the value v that was assigned.
Display(dest, v) ==
  LET shown == valfromstring(dest, Zeros)
      expected == IF dest[1].kind = "flag" /\ v # 0 THEN 1 ELSE v % Holds(dest)
  IN  echo' = [kind |-> dest[1].kind, settled |-> Settled(dest),
               assigned |-> (shown' = Variable(expected))]

\* cbInstrMov: a destination that has no value becomes a variable.  The arguments
\* of Display are bound: they are those before the assignment.
cbInstrMov(line, junk) ==
  LET dest == Argument(line, 0)
      src == valfromstring(Argument(line, 1), junk)
      old == valfromstring(dest, junk)
  IN
  /\ HasArguments(line, 2)
  /\ src.ok
  /\ IF old.ok
     THEN /\ old.isvar
          /\ valtostring(dest, src.v, junk)
          /\ \E d \in {dest}, v \in {src.v} : Display(d, v)
     ELSE /\ vars' = varnew(NameText(dest), src.v)
          /\ echo' = NoEcho
          /\ UNCHANGED <<mem, regs>>

\* cbInstrVar: the name without '$' must have no value.
cbInstrVar(line, junk) ==
  LET name == Argument(line, 0)
      bare == IF name[1].kind = "dollar" THEN <<Name(name[1].text)>> ELSE name
      v == IF Comma \in ToSet(line) THEN valfromstring(Argument(line, 1), junk) ELSE Number(0)
  IN
  /\ HasArguments(line, 1)
  /\ ~valfromstring(bare, junk).ok
  /\ v.ok
  /\ vars' = varnew(NameText(name), v.v)
  /\ echo' = NoEcho
  /\ UNCHANGED <<mem, regs>>

cbInstrVarDel(line) ==
  /\ HasArguments(line, 1)
  /\ vars' = vardel(NameText(Argument(line, 0)))
  /\ echo' = NoEcho
  /\ UNCHANGED <<mem, regs>>

\* Lines that fail, that show a value or that are unknown change nothing.
Run(line, junk) ==
  CASE line[1] = Command("mov") -> cbInstrMov(line, junk)
    [] line[1] = Command("var") -> cbInstrVar(line, junk)
    [] line[1] = Command("vardel") -> cbInstrVarDel(line)
    [] OTHER -> FALSE

Enter(line) ==
  /\ UNCHANGED <<allocs, session, lost>>
  /\ \E junk \in Junk : Run(specialformat(line), junk)

Begin == \E s \in Session : SessionBegins(s) /\ regs' = [r \in Context |-> 0] /\ echo' = NoEcho
End == SessionEnds /\ UNCHANGED regs /\ echo' = NoEcho

ConsoleNext == Begin \/ End \/ \E line \in Line : Enter(line)

ConsoleSpec == ConsoleInit /\ [][ConsoleNext]_console

-----------------------------------------------------------------------------
(* Properties.                                                              *)

\* mov_set.htm, "Value to store in the variable": what a mov or a quick assignment
\* displays of its destination, a register, a part of one, a variable or a location,
\* is the value of the source before, cut to the size of the destination.  They may
\* use each other, and the value be one that the destination can no longer hold.
\* Not so for a flag: setting one that is set clears it; nor for a location that is not
\* Settled: memread leaves out the end of one that runs over the pages it counted.
AssignedIsShown == echo.kind # "flag" /\ echo.settled => echo.assigned

\* The operators of the trees: one for each level.
TreeOperators == {"*", "+", "-", "<", "&", "^", "|"}
Leaf == [eax |-> <<Name("eax")>>, three |-> <<Num(3)>>, two |-> <<Num(2)>>]

\* Expressions of two operators in both shapes, without and with `~`.
Trees ==
  LET Pairs == TreeOperators \X TreeOperators
      Grouped(p, f) == {<<p[1], f, <<p[2], Leaf.three, Leaf.two>>>>,
                        <<p[1], <<p[2], f, Leaf.three>>, Leaf.two>>}
  IN  UNION {Grouped(p, Leaf.eax) \cup {<<p[1], <<"~", <<p[2], Leaf.eax, Leaf.two>>>>, Leaf.three>>}
               : p \in Pairs}

Texts == {[tree |-> e, text |-> TextOf(e)] : e \in Trees}

\* The value of an expression is the value of its tree, whatever brackets its text
\* needs: the levels of the operators are those of the comment in math.cpp, and the
\* operators of one level associate to the right.
EvaluatorFollowsTrees ==
  \A t \in Texts : valfromstring(t.text, Zeros) = ValueOf(t.tree)
=============================================================================
