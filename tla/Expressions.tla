---------------------------- MODULE Expressions ----------------------------
(***************************************************************************)
(* The evaluator of expressions (math.cpp, valfromstring) over the         *)
(* variables, the memory and the registers.                                *)
(*                                                                         *)
(* A text is a sequence of tokens: a hex number, a dot, a word, a word     *)
(* with '$', a flag with '!', '@' with the size to read, an operator.      *)
(* Words are classified as the code classifies text: register, hex digits, *)
(* API of a module of the debuggee, variable.                              *)
(***************************************************************************)
EXTENDS Memory, Registers, Bitwise

CONSTANTS
  HexWord,      \* the words that are hex numbers, with their values
  Api           \* the APIs of the modules of the debuggee, with their addresses

Token(kind, text, n) == [kind |-> kind, text |-> text, n |-> n]
Num(n) == Token("num", "", n)
Dot == Token("dot", "", 0)
Name(w) == Token("word", w, 0)
Dollar(w) == Token("dollar", w, 0)
FlagName(f) == Token("flag", f, 0)
At(n) == Token("at", "", n)
Op(c) == Token("op", c, 0)

NoValue == [ok |-> FALSE, v |-> 0, isvar |-> FALSE]
Number(v) == [ok |-> TRUE, v |-> v, isvar |-> FALSE]
Variable(v) == [ok |-> TRUE, v |-> v, isvar |-> TRUE]

-----------------------------------------------------------------------------
(* Operators.                                                               *)

\* Mutant of mathisoperator: addition is resolved before multiplication.
Misordered(token) ==
  IF token.kind # "op" THEN 0
  ELSE CASE token.text \in {"(", ")"} -> 1
         [] token.text = "~" -> 2
         [] token.text \in {"*", "#", "/", "%"} -> 4
         [] token.text \in {"+", "-"} -> 3
         [] token.text \in {"<", ">"} -> 5
         [] token.text = "&" -> 6
         [] token.text = "^" -> 7
         [] token.text = "|" -> 8
         [] OTHER -> 0

mathisoperator(token) ==
  IF token.kind # "op" THEN 0
  ELSE CASE token.text \in {"(", ")"} -> 1
         [] token.text = "~" -> 2
         [] token.text \in {"*", "#", "/", "%"} -> 3
         [] token.text \in {"+", "-"} -> 4
         [] token.text \in {"<", ">"} -> 5
         [] token.text = "&" -> 6
         [] token.text = "^" -> 7
         [] token.text = "|" -> 8
         [] OTHER -> 0

mathcontains(s) == \E i \in DOMAIN s : mathisoperator(s[i]) > 0

Modulus == Weight(UintBytes)
Complement(x) == Modulus - 1 - x

\* The processor takes the count of a shift modulo the number of bits.
Shift(x) == 2 ^ (x % (ByteBits * UintBytes))

\* The unsigned operations; signed ones are never switched on.
mathdounsignedoperation(op, left, right) ==
  CASE op = "*" -> Number((left * right) % Modulus)
    [] op = "#" -> Number((left * right) \div Modulus)
    [] op = "/" -> IF right = 0 THEN NoValue ELSE Number(left \div right)
    [] op = "%" -> IF right = 0 THEN NoValue ELSE Number(left % right)
    [] op = "+" -> Number((left + right) % Modulus)
    [] op = "-" -> Number((left - right) % Modulus)
    [] op = "<" -> Number((left * Shift(right)) % Modulus)
    [] op = ">" -> Number(left \div Shift(right))
    [] op = "&" -> Number(left & right)
    [] op = "^" -> Number(left ^^ right)
    [] op = "|" -> Number(left | right)
    [] OTHER -> NoValue

-----------------------------------------------------------------------------
(* Evaluation.  `junk` is what memread may find on the stack.               *)

RECURSIVE valfromstring(_, _), mathfromstring(_, _), mathhandlebrackets(_, _)

\* `@`: size bytes, the lowest first.  Without a debuggee every location reads 0.
ReadMemory(size, addr, junk) ==
  IF ~addr.ok THEN NoValue
  ELSE IF ~ReadSucceeds(addr.v, size) THEN NoValue
  ELSE LET buffer == memread(addr.v, size, junk) IN
       Variable(MapThenSumSet(LAMBDA k : buffer[k] * Weight(k), 0 .. size - 1))

\* A single token that is neither a number nor '@'.  A name is looked up as a
\* register, a hex number, an API, a variable, in this order.
Location(token) ==
  IF token.kind = "word" /\ isregister(token.text)
  THEN Variable(IF Debugging THEN getregister(token.text) ELSE 0)
  ELSE IF token.kind = "flag" /\ isflag(token.text)
  THEN Variable(IF Debugging /\ valflagfromstring(token.text) THEN 1 ELSE 0)
  ELSE IF token.kind = "word" /\ token.text \in DOMAIN HexWord
  THEN Number(HexWord[token.text])
  ELSE IF token.kind = "word" /\ token.text \in DOMAIN Api /\ Debugging
  THEN Number(Api[token.text])
  ELSE IF token.kind \in {"word", "dollar"} /\ IsVariable(token.text)
  THEN Variable(varget(token.text))
  ELSE NoValue

\* ".-" begins a negative decimal number: what follows the number is ignored.
IsNegative(s) == Len(s) > 2 /\ s[1].kind = "dot" /\ s[2] = Op("-")
Negative(s) == Number(IF s[3].kind = "num" THEN (0 - s[3].n) % Modulus ELSE 0)

\* Operators that precede an expression, brackets and `~` excepted, are skipped.
SkipOperators(s) ==
  LET kept == {i \in DOMAIN s : mathisoperator(s[i]) <= 2} IN
  IF kept = {} THEN <<>> ELSE SubSeq(s, First(kept), Len(s))

valfromstring(s, junk) ==
  IF IsNegative(s) THEN Negative(s)
  ELSE IF s = <<>> THEN Number(0)
  ELSE IF mathcontains(s)
       THEN LET t == mathhandlebrackets(SkipOperators(s), junk) IN
            IF t.ok THEN mathfromstring(t.text, junk) ELSE NoValue
  ELSE IF s[1].kind = "at"
       THEN IF ~Debugging THEN Variable(0)
            ELSE ReadMemory(s[1].n, valfromstring(Tail(s), junk), junk)
  ELSE IF Len(s) = 2 /\ s[1].kind = "dot" /\ s[2].kind = "num" THEN Number(s[2].n)
  ELSE IF Len(s) # 1 THEN NoValue
  ELSE IF s[1].kind = "num" THEN Number(s[1].n)
  ELSE Location(s[1])

\* Missing brackets are closed at the end.  Every pair is replaced by its value, the
\* innermost first, printed with "%X": as a number of 32 bits.
mathhandlebrackets(s, junk) ==
  LET opened == {i \in DOMAIN s : s[i] = Op("(")}
      closed == {i \in DOMAIN s : s[i] = Op(")")}
      open == CHOOSE i \in opened : \A j \in opened : j <= i
      close == First({j \in closed : j > open} \cup {Len(s) + 1})
      value == mathfromstring(SubSeq(s, open + 1, close - 1), junk)
  IN
  IF Cardinality(closed) > Cardinality(opened) THEN [ok |-> FALSE, text |-> s]
  ELSE IF opened = {} THEN [ok |-> TRUE, text |-> s]
  ELSE IF ~value.ok THEN [ok |-> FALSE, text |-> s]
  ELSE mathhandlebrackets(SubSeq(s, 1, open - 1) \o <<Num(value.v % Weight(4))>>
                            \o SubSeq(s, close + 1, Len(s)), junk)

\* The text is split at the leftmost operator of the highest number: operators of
\* one number associate to the right.
mathfromstring(s, junk) ==
  LET level == Max({mathisoperator(s[i]) : i \in DOMAIN s} \cup {0})
      pos == First({i \in DOMAIN s : mathisoperator(s[i]) = level})
      left == SubSeq(s, 1, pos - 1)
      right == SubSeq(s, pos + 1, Len(s))
      r == valfromstring(right, junk)
      l == valfromstring(left, junk)
  IN
  IF level <= 1 THEN valfromstring(s, junk)
  ELSE IF right = <<>> THEN NoValue
  ELSE IF ~r.ok THEN NoValue
  ELSE IF s[pos].text = "~" /\ left = <<>> THEN Number(Complement(r.v))
  ELSE IF ~l.ok THEN NoValue
  ELSE mathdounsignedoperation(s[pos].text, l.v, r.v)

-----------------------------------------------------------------------------
(* The values of expressions by their structure: <<token>> for an operand, *)
(* <<"~", e>> and <<op, e, f>>.                                             *)

RECURSIVE TextOf(_), ValueOf(_)

\* The comment "operator precedence" of math.cpp, tightest first.
Precedence ==
  << {"(", ")"}, {"~"}, {"*", "#", "/", "%"}, {"+", "-"}, {"<", ">"}, {"&"}, {"^"}, {"|"} >>
OperatorOf(e) == IF Len(e) = 1 THEN 0 ELSE CHOOSE i \in DOMAIN Precedence : e[1] \in Precedence[i]
InBrackets(s) == <<Op("(")>> \o s \o <<Op(")")>>

\* An operand is in brackets when its operator binds less, and the left one also
\* when its operator binds as much as the operator between them.
TextOf(e) ==
  LET Operand(f, limit) ==
        IF OperatorOf(f) >= limit THEN InBrackets(TextOf(f)) ELSE TextOf(f)
  IN
  CASE Len(e) = 1 -> e
    [] Len(e) = 2 -> <<Op("~")>> \o Operand(e[2], 3)
    [] Len(e) = 3 -> Operand(e[2], OperatorOf(e)) \o <<Op(e[1])>>
                       \o Operand(e[3], OperatorOf(e) + 1)

ValueOf(e) ==
  CASE Len(e) = 1 -> IF e[1].kind = "num" THEN Number(e[1].n) ELSE Location(e[1])
    [] Len(e) = 2 -> LET r == ValueOf(e[2]) IN IF r.ok THEN Number(Complement(r.v)) ELSE NoValue
    [] Len(e) = 3 ->
         LET l == ValueOf(e[2]) 
             r == ValueOf(e[3])
         IN  IF l.ok /\ r.ok THEN mathdounsignedoperation(e[1], l.v, r.v) ELSE NoValue
=============================================================================
