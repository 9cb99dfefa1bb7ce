------------------------------ MODULE Arguments ------------------------------
(***************************************************************************)
(* A command line on its way to a handler (argument.cpp): argformat brings *)
(* it into the form that arggetcount and argget rely on.  A line of a      *)
(* script is formatted twice, once when it is collected and once when it   *)
(* is run (simplescript.cpp).                                              *)
(*                                                                         *)
(* Lines are sequences of kinds of characters.  argformat works in place:  *)
(* "mark" is the value 1 that hides a backslash which another one          *)
(* protects, and "nul" ends a string.  Lines are short against deflen, and *)
(* argformat leaves upper and lower case as they are.                      *)
(***************************************************************************)
EXTENDS Naturals, SequencesExt

CONSTANTS
  Before,       \* what may stand in front of the buffer of the arguments, which
                \* argformat looks at: the end of another buffer, "nul", in practice
  MaxLength     \* bound on the lines that are typed

Char == {"letter", "space", "comma", "quote", "backslash"}
Separator == {"space", "comma"}

ASSUME BeforeAssumption == Before \subseteq Char \cup {"nul"} /\ MaxLength \in Nat

VARIABLES
  line,         \* the buffer of cmdloop
  passes,       \* how often it has been formatted
  typed         \* the line as the user typed it (auxiliary)

argumentVars == <<line, passes, typed>>

ArgumentsInit == line = <<>> /\ passes = 0 /\ typed = <<>>

-----------------------------------------------------------------------------
(* The passes of argformat over the arguments s.                            *)

CharAt(s, i) == IF i \in DOMAIN s THEN s[i] ELSE "nul"

\* Two characters c in a row are left out, and what follows them is copied unseen.
WithoutDoubled(c, s) ==
  LET from[i \in 1 .. Len(s) + 3] ==
        IF i > Len(s) THEN <<>>
        ELSE IF i = Len(s) \/ s[i] # c \/ s[i + 1] # c THEN <<s[i]>> \o from[i + 1]
        ELSE SubSeq(s, i + 2, Min({i + 2, Len(s)})) \o from[i + 3]
  IN  from[1]

\* A backslash that is not protected by the one before it protects the next.
Protects(s) ==
  LET free[i \in 0 .. Len(s)] ==
        IF i = 0 THEN FALSE ELSE s[i] = "backslash" /\ ~free[i - 1]
  IN  {i \in DOMAIN s : free[i]}

\* Double backslashes are marked, so that they protect nothing.
Marked(s) ==
  [i \in DOMAIN s |->
     IF s[i] = "backslash" /\ (i \in Protects(s) => CharAt(s, i + 1) = "backslash")
     THEN "mark" ELSE s[i]]

Restored(s) == ReplaceAll(s, "mark", "backslash")

\* Mutant of Trimmed: a separator at the end is cut off even if it is protected.
TrimmedAnyway(s, before) ==
  LET kept == {i \in DOMAIN s : s[i] \notin Separator} IN
  IF kept = {} THEN <<>>
  ELSE SubSeq(s, CHOOSE i \in kept : \A j \in kept : i <= j,
                 CHOOSE i \in kept : \A j \in kept : j <= i)

\* Separators are cut off at both ends, up to one that a backslash protects.
Trimmed(s, before) ==
  LET kept == {i \in DOMAIN s : \/ s[i] \notin Separator
                                \/ i > 1 /\ s[i - 1] = "backslash"
                                \/ i = 1 /\ before = "backslash"}
  IN
  IF kept = {} THEN <<>>
  ELSE SubSeq(s, CHOOSE i \in kept : \A j \in kept : i <= j,
                 CHOOSE i \in kept : \A j \in kept : j <= i)

QuotesBefore(s, i) == Cardinality({j \in 1 .. i : s[j] = "quote"})

\* Mutant of Unquoted: commas in quotes are left as they are.
UnquotedComma(s) ==
  LET Copied(i) == CASE s[i] = "quote" -> <<>>
                     [] QuotesBefore(s, i) % 2 = 1 /\ s[i] \in {"space", "backslash"}
                          -> <<"backslash", s[i]>>
                     [] OTHER -> <<s[i]>>
  IN  FlattenSeq([i \in DOMAIN s |-> Copied(i)])

\* Quotes are left out, and what they enclose is protected.
Unquoted(s) ==
  LET Copied(i) == CASE s[i] = "quote" -> <<>>
                     [] QuotesBefore(s, i) % 2 = 1 /\ s[i] \in Separator \cup {"backslash"}
                          -> <<"backslash", s[i]>>
                     [] OTHER -> <<s[i]>>
  IN  FlattenSeq([i \in DOMAIN s |-> Copied(i)])

WithoutSpaces(s, before) ==
  LET Kept(i) == \/ s[i] # "space"
                 \/ (IF i = 1 THEN before ELSE s[i - 1]) = "backslash"
  IN  FlattenSeq([i \in DOMAIN s |-> IF Kept(i) THEN <<s[i]>> ELSE <<>>])

\* Where the quotes leave nothing over, the buffer `temp` still holds its content of
\* the first pass, which is taken instead.
FormattedArguments(s, before) ==
  LET temp == WithoutDoubled("quote", s)
      trimmed == Trimmed(Marked(temp), before)
      unquoted == Unquoted(Restored(trimmed))
      paired == QuotesBefore(trimmed, Len(trimmed)) % 2 = 0
      text == IF ~paired THEN trimmed ELSE IF unquoted = <<>> THEN temp ELSE unquoted
  IN  Restored(WithoutSpaces(WithoutDoubled("comma", Marked(text)), before))

WithoutLeadingSpaces(s) ==
  LET kept == {i \in DOMAIN s : s[i] # "space"} IN
  IF kept = {} THEN <<>> ELSE SubSeq(s, CHOOSE i \in kept : \A j \in kept : i <= j, Len(s))

\* Index of the space behind the command, or of the end.
CommandEnd(s) ==
  LET ends == {i \in DOMAIN s : s[i] = "space"} \cup {Len(s) + 1} IN
  CHOOSE i \in ends : \A j \in ends : i <= j

argformat(cmd, before) ==
  LET s == WithoutLeadingSpaces(cmd)
      command == SubSeq(s, 1, CommandEnd(s) - 1)
      arguments == FormattedArguments(SubSeq(s, CommandEnd(s) + 1, Len(s)), before)
  IN  IF arguments = <<>> THEN command ELSE command \o <<"space">> \o arguments

-----------------------------------------------------------------------------
(* The arguments of a formatted line, from 0.                               *)

\* The commas that separate arguments, in a marked text.
Commas(s) == {i \in DOMAIN s : s[i] = "comma" /\ CharAt(s, i - 1) # "backslash"}

ArgumentText(cmd) ==
  WithoutLeadingSpaces(SubSeq(cmd, CommandEnd(cmd) + 1, Len(cmd)))

arggetcount(cmd) ==
  IF CommandEnd(cmd) > Len(cmd) THEN 0
  ELSE 1 + Cardinality(Commas(Marked(SubSeq(cmd, CommandEnd(cmd), Len(cmd)))))

\* The text with its separating commas zeroed and its protected characters bare.
Unescaped(s) ==
  LET zeroed == Restored([i \in DOMAIN s |-> IF i \in Commas(Marked(s)) THEN "nul" ELSE Marked(s)[i]])
      Escape(i) == i \in Protects(zeroed) /\ CharAt(zeroed, i + 1) \in Separator \cup {"backslash"}
  IN  FlattenSeq([i \in DOMAIN zeroed |-> IF Escape(i) THEN <<>> ELSE <<zeroed[i]>>])

\* argget for n below arggetcount(cmd): the text behind the n-th nul, up to the next.
argget(cmd, n) ==
  LET text == Unescaped(ArgumentText(cmd))
      NulsUpTo(i) == Cardinality({j \in 1 .. i : text[j] = "nul"})
      start == Min({i \in 0 .. Len(text) : NulsUpTo(i) = n})
      stop == Min({i \in start + 1 .. Len(text) + 1 : CharAt(text, i) = "nul"})
  IN  SubSeq(text, start + 1, stop - 1)

-----------------------------------------------------------------------------
Type(c) ==
  /\ passes = 0 /\ Len(line) < MaxLength
  /\ line' = Append(line, c)
  /\ typed' = line'
  /\ UNCHANGED passes

\* cmdloop formats what its provider hands to it: the message of the GUI or a line of
\* a script, and, if it was collected by a script, once more when it is run.
Format ==
  /\ passes < 2 /\ line # <<>>
  /\ \E before \in Before : line' = argformat(line, before)
  /\ passes' = passes + 1
  /\ UNCHANGED typed

\* The handler has returned; the provider empties the buffer.
Handled == passes > 0 /\ line' = <<>> /\ typed' = <<>> /\ passes' = 0

ArgumentsNext == Format \/ Handled \/ \E c \in Char : Type(c)

ArgumentsSpec == ArgumentsInit /\ [][ArgumentsNext]_argumentVars

-----------------------------------------------------------------------------
(* Properties.                                                              *)

\* A text whose separators and backslashes all have a backslash before them, and the
\* text that is meant.
IsPrefixed(u) ==
  LET special == {i \in DOMAIN u : u[i] \in Separator \cup {"backslash"}} IN
  /\ "quote" \notin ToSet(u)
  /\ \A i \in special : i \in Protects(u) \/ i - 1 \in Protects(u)
  /\ \A i \in Protects(u) : i + 1 \in special
Meant(u) ==
  FlattenSeq([i \in DOMAIN u |-> IF i \in Protects(u) THEN <<>> ELSE <<u[i]>>])

IsQuoted(u) ==
  /\ Len(u) > 2 /\ Head(u) = "quote" /\ Last(u) = "quote"
  /\ \A i \in 2 .. Len(u) - 1 : u[i] # "quote"
Enclosed(u) == SubSeq(u, 2, Len(u) - 1)

\* Lines of one and of two arguments: the text before and behind the one that is
\* protected.  Of two doubled commas one may be protected, and argformat takes both:
\* a text that ends in a comma has to be the last.
Frames ==
  { [before |-> <<"letter", "space">>, behind |-> <<>>, n |-> 0],
    [before |-> <<"letter", "space">>, behind |-> <<"comma", "letter">>, n |-> 0],
    [before |-> <<"letter", "space", "letter", "comma">>, behind |-> <<>>, n |-> 1] }

\* Commands.htm: comma, space and backslash "need to be prefixed".  A text that the
\* user protects, by prefixes or by quotes, arrives in the handler as it was meant,
\* as one argument of the right number.
ProtectedTextArrives ==
  passes = 1 =>
    \A f \in Frames :
      LET rest == Len(typed) - Len(f.behind)
          u == SubSeq(typed, Len(f.before) + 1, rest)
          text == IF IsQuoted(u) THEN Enclosed(u) ELSE Meant(u)
      IN
      /\ u # <<>> /\ typed = f.before \o u \o f.behind
      /\ IsQuoted(u) \/ IsPrefixed(u)
      /\ f.behind = <<>> \/ Last(text) # "comma"
      => /\ arggetcount(line) = IF Len(f.before) > 2 \/ f.behind # <<>> THEN 2 ELSE 1
         /\ argget(line, f.n) = text

\* Quotes in pairs, in the arguments only, apart from each other and not behind a
\* backslash, and no commas that meet when what is between them is left out.
Tidy(cmd) ==
  LET s == WithoutLeadingSpaces(cmd)
      quotes == {i \in DOMAIN s : s[i] = "quote"}
  IN
  /\ Cardinality(quotes) % 2 = 0
  /\ \A i \in quotes : i > CommandEnd(s) /\ CharAt(s, i - 1) \notin {"quote", "backslash"}
  /\ \A i, j \in DOMAIN s :
       s[i] = "comma" /\ s[j] = "comma" /\ i < j =>
         \E k \in i .. j : s[k] \notin Separator \cup {"quote"}

\* A line of a script means what it means when it is typed: to format it again when
\* it is run changes nothing, for lines that are tidy.
ScriptKeepsLine == [][Format /\ passes = 1 /\ Tidy(typed) => line' = line]_argumentVars
=============================================================================
