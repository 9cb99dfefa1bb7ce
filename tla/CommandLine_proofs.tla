-------------------------- MODULE CommandLine_proofs --------------------------
(***************************************************************************)
(* A command on its way from the GUI to its handler, in two parts.         *)
(* MsgStack, which carries it, for any senders, messages and stack size.   *)
(* Arguments, which brings it into form, for lines of any length and       *)
(* whatever stands in front of the buffer.                                 *)
(***************************************************************************)
EXTENDS MsgStack, Arguments, DataLemmas

-----------------------------------------------------------------------------
(* The message stack.                                                       *)

\* As long as no stale slot was written the stack is intact and fits.
Full == stale \/ (IntactUntilStale /\ stackpos <= MaxMessages)

\* A single sender finds at most the messages it counted when it began.
OneSender ==
  (\A t, u \in Sender : t = u) =>
    /\ stackpos <= MaxMessages
    /\ \A t \in Sender : newmsg[t] # Null => stackpos <= pos[t]

\* A message is in one place: fresh, with one sender, in one slot or delivered.
Sent(m) == m \notin fresh
OnePlace ==
  /\ \A t \in Sender : newmsg[t] # Null => Sent(newmsg[t])
  /\ \A i \in Slot : msg[i] # Null => Sent(msg[i])
  /\ \A k \in DOMAIN delivered : Sent(delivered[k])
  /\ \A t, u \in Sender : newmsg[t] # Null /\ newmsg[t] = newmsg[u] => t = u
  /\ \A t \in Sender, i \in Slot : newmsg[t] # Null => msg[i] # newmsg[t]
  /\ \A t \in Sender, k \in DOMAIN delivered : newmsg[t] # delivered[k]
  /\ \A i, j \in Slot : msg[i] # Null /\ msg[i] = msg[j] => i = j
  /\ \A i \in Slot, k \in DOMAIN delivered : msg[i] # delivered[k]
  /\ \A k, l \in DOMAIN delivered : delivered[k] = delivered[l] => k = l

-----------------------------------------------------------------------------
\* The stack pointer, the slots and the senders' copies keep their types: a
\* sender that found room has a slot of the array, however stale.
THEOREM TypeCorrect == Spec => []TypeOK
<1> USE MaxMessagesAssumption, NullAssumption
<1>1. Init => TypeOK
  <2> SUFFICES ASSUME Init
               PROVE  TypeOK
    OBVIOUS
  <2>1. accepted \in Seq(Message) /\ delivered \in Seq(Message)
    BY DEF Init
  <2>2. /\ msg \in [Slot -> Message \cup {Null}]
        /\ stackpos \in Nat
        /\ pos \in [Sender -> Slot]
        /\ newmsg \in [Sender -> Message \cup {Null}]
        /\ fresh \in SUBSET Message
    BY DEF Init, Slot
  <2>3. crashed \in BOOLEAN /\ stale \in BOOLEAN
    BY DEF Init
  <2> QED
    BY <2>1, <2>2, <2>3 DEF TypeOK
<1>2. TypeOK /\ [Next]_vars => TypeOK'
  <2> SUFFICES ASSUME TypeOK, [Next]_vars
               PROVE  TypeOK'
    OBVIOUS
  <2> USE DEF TypeOK, Slot, senders, Present
  <2>1. ASSUME NEW t \in Sender, NEW m \in Message, SendBegin(t, m)
        PROVE  TypeOK'
    BY <2>1 DEF SendBegin
  <2>2. ASSUME NEW m \in Message, SendRefused(m)
        PROVE  TypeOK'
    BY <2>2 DEF SendRefused
  <2>3. ASSUME NEW t \in Sender, SendEnd(t)
        PROVE  TypeOK'
    BY <2>3 DEF SendEnd
  <2>4. CASE Get
    BY <2>4 DEF Get
  <2>5. CASE GetCrashes
    BY <2>5 DEF GetCrashes
  <2>6. CASE UNCHANGED vars
    BY <2>6 DEF vars
  <2> QED
    BY <2>1, <2>2, <2>3, <2>4, <2>5, <2>6 DEF Next
<1> QED
  BY <1>1, <1>2, PTL DEF Spec

-----------------------------------------------------------------------------
\* Full is inductive.
LEMMA FullInductive == TypeOK /\ Full /\ [Next]_vars => Full'
<1> SUFFICES ASSUME TypeOK, Full, [Next]_vars
             PROVE  Full'
  OBVIOUS
<1> USE MaxMessagesAssumption, NullAssumption
    DEF TypeOK, Full, IntactUntilStale, Slot, senders, Present
<1>1. ASSUME NEW t \in Sender, NEW m \in Message, SendBegin(t, m)
      PROVE  Full'
  BY <1>1 DEF SendBegin
<1>2. ASSUME NEW m \in Message, SendRefused(m)
      PROVE  Full'
  BY <1>2 DEF SendRefused
<1>3. ASSUME NEW t \in Sender, SendEnd(t)
      PROVE  Full'
  <2> SUFFICES ASSUME ~stale'
               PROVE  IntactUntilStale' /\ stackpos' <= MaxMessages
    OBVIOUS
  <2>1. ~stale /\ pos[t] = stackpos
    BY <1>3 DEF SendEnd
  <2>2. stackpos' = stackpos + 1 /\ stackpos' <= MaxMessages
    BY <1>3, <2>1 DEF SendEnd
  <2>3. ~crashed'
    BY <1>3 DEF SendEnd
  <2>4. \A i \in Slot : i < stackpos' <=> msg'[i] # Null
    BY <1>3, <2>1, <2>2 DEF SendEnd
  <2> QED
    BY <2>2, <2>3, <2>4
<1>4. CASE Get
  BY <1>4 DEF Get
<1>5. CASE GetCrashes
  BY <1>5 DEF GetCrashes
<1>6. CASE UNCHANGED vars
  BY <1>6 DEF vars
<1> QED
  BY <1>1, <1>2, <1>3, <1>4, <1>5, <1>6 DEF Next

\* Full holds throughout every behaviour.
LEMMA FullAlways == Spec => []Full
<1>1. Init => Full
  BY MaxMessagesAssumption DEF Init, Full, IntactUntilStale, Slot
<1> QED
  BY <1>1, FullInductive, TypeCorrect, PTL DEF Spec

\* The command loop reads no empty slot, and the messages are the slots below
\* stackpos, until a sender writes the slot of an outdated stackpos.
THEOREM StackIsIntact == Spec => []IntactUntilStale
<1>1. Full => IntactUntilStale
  BY DEF Full, IntactUntilStale
<1> QED
  BY <1>1, FullAlways, PTL

-----------------------------------------------------------------------------
\* With one sending thread, as today, msgsend never writes beyond the array and
\* stackpos never passes its end, whatever stale slots are written.
THEOREM StackposIsInBounds == Spec => []StackposInBounds
<1> USE MaxMessagesAssumption, NullAssumption
<1>1. Init => OneSender
  BY DEF Init, OneSender
<1>2. TypeOK /\ OneSender /\ [Next]_vars => OneSender'
  <2> SUFFICES ASSUME TypeOK, OneSender, [Next]_vars, \A t, u \in Sender : t = u
               PROVE  OneSender'
    BY DEF OneSender
  <2> USE DEF TypeOK, OneSender, Slot, senders, Present
  <2>1. ASSUME NEW t \in Sender, NEW m \in Message, SendBegin(t, m)
        PROVE  OneSender'
    BY <2>1 DEF SendBegin
  <2>2. ASSUME NEW m \in Message, SendRefused(m)
        PROVE  OneSender'
    BY <2>2 DEF SendRefused
  <2>3. ASSUME NEW t \in Sender, SendEnd(t)
        PROVE  OneSender'
    BY <2>3 DEF SendEnd
  <2>4. CASE Get
    BY <2>4 DEF Get
  <2>5. CASE GetCrashes
    BY <2>5 DEF GetCrashes
  <2>6. CASE UNCHANGED vars
    BY <2>6 DEF vars
  <2> QED
    BY <2>1, <2>2, <2>3, <2>4, <2>5, <2>6 DEF Next
<1>3. TypeOK /\ OneSender => StackposInBounds
  BY DEF TypeOK, OneSender, StackposInBounds
<1> QED
  BY <1>1, <1>2, <1>3, TypeCorrect, PTL DEF Spec

-----------------------------------------------------------------------------
\* A message moves from fresh to a sender, to a slot and to delivered; it may
\* be lost on the way but is never copied.
LEMMA OnePlaceInductive == TypeOK /\ OnePlace /\ [Next]_vars => OnePlace'
<1> SUFFICES ASSUME TypeOK, OnePlace, [Next]_vars
             PROVE  OnePlace'
  OBVIOUS
<1> USE MaxMessagesAssumption, NullAssumption
    DEF TypeOK, OnePlace, Sent, Slot, senders, Present
<1>1. ASSUME NEW t \in Sender, NEW m \in Message, SendBegin(t, m)
      PROVE  OnePlace'
  BY <1>1 DEF SendBegin
<1>2. ASSUME NEW m \in Message, SendRefused(m)
      PROVE  OnePlace'
  BY <1>2 DEF SendRefused
<1>3. ASSUME NEW t \in Sender, SendEnd(t)
      PROVE  OnePlace'
  BY <1>3 DEF SendEnd
<1>4. CASE Get
  BY <1>4 DEF Get
<1>5. CASE GetCrashes
  BY <1>5 DEF GetCrashes
<1>6. CASE UNCHANGED vars
  BY <1>6 DEF vars
<1> QED
  BY <1>1, <1>2, <1>3, <1>4, <1>5, <1>6 DEF Next

\* However sends and gets interleave, and even when a stale slot is written, no
\* command is executed twice.
THEOREM CommandsAtMostOnce == Spec => []AtMostOnce
<1>1. Init => OnePlace
  BY DEF Init, OnePlace, Sent
<1>2. OnePlace => AtMostOnce
  BY DEF OnePlace, AtMostOnce, IsInjective, Range
<1> QED
  BY <1>1, <1>2, OnePlaceInductive, TypeCorrect, PTL DEF Spec

-----------------------------------------------------------------------------
\* The abstract stack that the slots below stackpos hold.
Stack == IF stale THEN <<>> ELSE [i \in 1 .. stackpos |-> msg[i - 1]]

\* An intact array of slots is a sequence of messages.
LEMMA StackIsSequence ==
  ASSUME TypeOK, Full, ~stale
  PROVE  Stack \in Seq(Message) /\ Len(Stack) = stackpos
<1>1. \A i \in 1 .. stackpos : msg[i - 1] \in Message
  BY MaxMessagesAssumption, NullAssumption DEF TypeOK, Full, IntactUntilStale, Slot
<1> QED
  BY <1>1 DEF TypeOK, Stack

\* msgqueue.cpp implements the stack that CommandStack promises: as long as no
\* stale slot was written every accepted send is a push, every msgget that
\* returns a message a pop, and nothing else changes the stack.
THEOREM ImplementsCommandStack == Spec => ImplementsStack
<1> USE MaxMessagesAssumption, NullAssumption
<1>1. Init => Intact!Init
  BY DEF Init, Intact!Init
<1>2. TypeOK /\ TypeOK' /\ Full /\ Full' /\ [Next]_vars => [Intact!Next]_(Intact!vars)
  <2> SUFFICES ASSUME TypeOK, TypeOK', Full, Full', [Next]_vars
               PROVE  [Intact!Next]_(Intact!vars)
    OBVIOUS
  <2>1. CASE stale'
    <3>1. Stack' = <<>>
      BY <2>1 DEF Stack
    <3> QED
      BY <2>1, <3>1 DEF TypeOK, Stack, Intact!Next, Intact!Break
  <2>2. CASE ~stale' /\ UNCHANGED <<Stack, delivered, stale>>
    BY <2>2 DEF Stack, Intact!vars
  <2>3. ASSUME ~stale', NEW t \in Sender, SendEnd(t)
        PROVE  Intact!Next
    <3>1. ~stale /\ pos[t] = stackpos /\ newmsg[t] \in Message
      BY <2>3 DEF SendEnd, TypeOK
    <3>2. Stack \in Seq(Message) /\ Len(Stack) = stackpos
      BY <3>1, StackIsSequence
    <3>3. stackpos < MaxMessages
      BY <2>3, <3>1 DEF TypeOK, Slot
    <3>4. Stack' = [i \in 1 .. stackpos + 1 |->
                      IF i = stackpos + 1 THEN newmsg[t] ELSE msg[i - 1]]
      BY <2>3, <3>1, <3>3 DEF SendEnd, TypeOK, Stack, Slot
    <3>5. Stack' = Append(Stack, newmsg[t])
      BY <3>1, <3>2, <3>4 DEF Stack, TypeOK
    <3>6. delivered' = delivered /\ stale' = stale
      <4>1. delivered' = delivered
        BY <2>3 DEF SendEnd
      <4>2. stale \in BOOLEAN /\ stale' \in BOOLEAN
        BY DEF TypeOK
      <4>3. stale' = stale
        BY ONLY <2>3, <3>1, <4>2, Zenon
      <4> QED
        BY <4>1, <4>3
    <3>7. /\ ~stale
          /\ Len(Stack) < MaxMessages
          /\ Stack' = Append(Stack, newmsg[t])
          /\ delivered' = delivered
          /\ stale' = stale
      BY <3>1, <3>2, <3>3, <3>5, <3>6
    <3>8. PICK m \in Message : m = newmsg[t]
      BY <3>1
    <3>9. Intact!Send(m)
      BY ONLY <3>7, <3>8, Zenon DEF Stack, Intact!Send
    <3> QED
      BY ONLY <3>9, Zenon DEF Intact!Next
  <2>4. ASSUME ~stale', Get
        PROVE  Intact!Next
    <3>1. ~stale /\ UNCHANGED stale
      BY <2>4 DEF Get
    <3>2. Stack \in Seq(Message) /\ Len(Stack) = stackpos /\ stackpos > 0
      BY <2>4, <3>1, StackIsSequence DEF Get
    <3>3. Last(Stack) = msg[stackpos - 1]
      BY <3>1, <3>2 DEF Stack, Last, TypeOK
    <3>4. Stack' = [i \in 1 .. stackpos - 1 |-> msg[i - 1]]
      BY <2>4, <3>1, <3>2 DEF Get, Stack, TypeOK, Slot, Present
    <3>5. Stack' = Front(Stack)
      BY <3>1, <3>2, <3>4 DEF Stack, Front, TypeOK
    <3>6. Stack # <<>>
      BY <3>2
    <3>7. delivered' = Append(delivered, Last(Stack))
      BY <2>4, <3>3 DEF Get
    <3>8. Intact!Get
      BY ONLY <3>1, <3>5, <3>6, <3>7, Zenon DEF Stack, Intact!Get, Last, Front, Intact!Last, Intact!Front
    <3> QED
      BY ONLY <3>8, Zenon DEF Intact!Next
  <2>5. ASSUME ~stale', GetCrashes
        PROVE  FALSE
    BY <2>5 DEF GetCrashes, TypeOK, Full, IntactUntilStale, Slot, Present
  <2>6. ASSUME \/ \E t \in Sender, m \in Message : SendBegin(t, m)
               \/ \E m \in Message : SendRefused(m)
               \/ UNCHANGED vars
        PROVE  UNCHANGED <<Stack, delivered, stale>>
    <3>1. UNCHANGED <<msg, stackpos, delivered, stale>>
      BY <2>6 DEF SendBegin, SendRefused, vars
    <3>2. Stack' = Stack
      BY ONLY <3>1 DEF Stack
    <3> QED
      BY <3>1, <3>2
  <2> QED
    BY <2>1, <2>2, <2>3, <2>4, <2>5, <2>6 DEF Next
<1> QED
  BY <1>1, <1>2, TypeCorrect, FullAlways, PTL DEF Spec, ImplementsStack, Intact!Spec

-----------------------------------------------------------------------------
(* Arguments: the passes.                                                   *)

\* What a line is made of while it is formatted and read.
Content == Char \cup {"nul", "mark"}

\* The characters that need a backslash before them.
Special == Separator \cup {"backslash"}

\* Protects follows the rule by which a backslash protects what follows it.
LEMMA ProtectsRule ==
  ASSUME NEW S, NEW s \in Seq(S)
  PROVE  /\ Protects(s) \subseteq 1 .. Len(s)
         /\ \A i \in 1 .. Len(s) :
              i \in Protects(s) <=> s[i] = "backslash" /\ i - 1 \notin Protects(s)
<1> DEFINE n == Len(s)
           step == [kb \in (1 .. n) \X BOOLEAN |-> s[kb[1]] = "backslash" /\ ~ kb[2]]
           Rule(f) == f = [i \in 0 .. n |->
                             IF i = 0 THEN FALSE ELSE s[i] = "backslash" /\ ~ f[i - 1]]
           free == CHOOSE f : Rule(f)
<1>1. n \in Nat /\ DOMAIN s = 1 .. n
  OBVIOUS
<1>2. step \in [(1 .. n) \X BOOLEAN -> BOOLEAN]
  OBVIOUS
<1>3. PICK g \in [0 .. n -> BOOLEAN] : Recurs(g, n, FALSE, step)
  <2> HIDE DEF step, n
  <2> QED
    BY <1>1, <1>2, RecursionOnRange
<1>4. Rule(g)
  <2>1. ASSUME NEW k \in 0 .. n
        PROVE  g[k] = IF k = 0 THEN FALSE ELSE s[k] = "backslash" /\ ~ g[k - 1]
    <3>1. g[k] = IF k = 0 THEN FALSE ELSE step[<<k, g[k - 1]>>]
      BY <1>3 DEF Recurs
    <3>2. CASE k # 0
      <4>1. k \in 1 .. n /\ g[k - 1] \in BOOLEAN
        BY <3>2
      <4>2. step[<<k, g[k - 1]>>] = (s[k] = "backslash" /\ ~ g[k - 1])
        BY <4>1
      <4> HIDE DEF step
      <4> QED
        BY <3>1, <3>2, <4>2
    <3> QED
      BY <3>1, <3>2
  <2> HIDE DEF n, step
  <2> QED
    BY <2>1, Zenon
<1>5. Rule(free)
  <2> HIDE DEF Rule
  <2> QED
    BY <1>4
<1>6. Protects(s) = {i \in 1 .. n : free[i]}
  BY <1>1 DEF Protects
<1>7. \A i \in 1 .. n : free[i] = (s[i] = "backslash" /\ ~ free[i - 1])
  <2>1. TAKE i \in 1 .. n
  <2>2. i \in 0 .. n /\ i # 0
    BY <1>1
  <2> HIDE DEF free, n
  <2> QED
    BY <1>5, <2>2, Zenon
<1>8. ~ free[0]
  <2>1. 0 \in 0 .. n
    BY <1>1
  <2> HIDE DEF free, n
  <2> QED
    BY <1>5, <2>1, Zenon
<1>9. ASSUME NEW i \in 1 .. n
      PROVE  i \in Protects(s) <=> s[i] = "backslash" /\ i - 1 \notin Protects(s)
  <2>1. i - 1 \in Protects(s) <=> free[i - 1]
    <3>1. CASE i = 1
      <4> HIDE DEF free, n
      <4>1. i - 1 = 0 /\ 0 \notin 1 .. n
        BY <1>1, <3>1
      <4> QED
        BY <1>6, <1>8, <4>1
    <3>2. CASE i # 1
      <4>1. i - 1 \in 1 .. n
        BY <1>1, <3>2
      <4> HIDE DEF free, n
      <4> QED
        BY <1>6, <4>1
    <3> QED
      BY <3>1, <3>2
  <2> HIDE DEF free, n
  <2> QED
    BY <1>6, <1>7, <2>1
<1> HIDE DEF free
<1> QED
  BY <1>6, <1>9

\* The rule leaves no choice.
LEMMA ProtectsUnique ==
  ASSUME NEW S, NEW s \in Seq(S), NEW Z \in SUBSET (1 .. Len(s)),
         \A i \in 1 .. Len(s) : i \in Z <=> s[i] = "backslash" /\ i - 1 \notin Z
  PROVE  Protects(s) = Z
<1> DEFINE P == Protects(s)
           T == {i \in 1 .. Len(s) : ~ (i \in P <=> i \in Z)}
<1>1. /\ P \subseteq 1 .. Len(s)
      /\ \A i \in 1 .. Len(s) : i \in P <=> s[i] = "backslash" /\ i - 1 \notin P
  BY ProtectsRule
<1>2. ASSUME T # {}
      PROVE  FALSE
  <2>1. PICK i \in T : \A j \in T : i <= j
    <3>1. T \in SUBSET Nat
      OBVIOUS
    <3> HIDE DEF T
    <3> QED
      BY <1>2, <3>1, LeastNumber
  <2>2. i \in 1 .. Len(s) /\ Len(s) \in Nat
    OBVIOUS
  <2>3. i - 1 \in P <=> i - 1 \in Z
    <3>1. i - 1 \notin T
      BY <2>1, <2>2
    <3>2. i - 1 \in 1 .. Len(s) => (i - 1 \in P <=> i - 1 \in Z)
      BY <3>1
    <3> HIDE DEF P, T
    <3> QED
      BY <1>1, <3>2
  <2> HIDE DEF P
  <2> QED
    BY <1>1, <2>1, <2>2, <2>3
<1> HIDE DEF P
<1>3. P = Z
  BY <1>1, <1>2
<1> QED
  BY <1>3 DEF P

\* A pass of argformat for doubled characters changes nothing where there are none.
LEMMA WithoutDoubledKeeps ==
  ASSUME NEW S, NEW s \in Seq(S), NEW c,
         \A i \in 1 .. Len(s) - 1 : ~ (s[i] = c /\ s[i + 1] = c)
  PROVE  WithoutDoubled(c, s) = s
<1> DEFINE n == Len(s)
           Value(f, i) ==
             IF i > n THEN <<>>
             ELSE IF i = n \/ s[i] # c \/ s[i + 1] # c THEN <<s[i]>> \o f[i + 1]
             ELSE SubSeq(s, i + 2, Min({i + 2, n})) \o f[i + 3]
           Rule(f) == f = [i \in 1 .. n + 3 |-> Value(f, i)]
           from == CHOOSE f : Rule(f)
           Rest(i) == SubSeq(s, i, n)
           g == [i \in 1 .. n + 3 |-> Rest(i)]
<1>1. n \in Nat
  OBVIOUS
<1>2. \A i \in 1 .. n + 3 : i > n => Rest(i) = <<>>
  BY SubSeqEmpty
<1>3. \A i \in 1 .. n : Rest(i) = <<s[i]>> \o Rest(i + 1)
  <2>1. TAKE i \in 1 .. n
  <2>2. i \in 1 .. Len(s) /\ n \in i .. Len(s)
    OBVIOUS
  <2> QED
    BY <2>2, SubSeqRecursiveFirst
<1>4. \A i \in 1 .. n : i = n \/ s[i] # c \/ s[i + 1] # c
  OBVIOUS
<1> HIDE DEF Rest
<1>5. Rule(g)
  <2>1. ASSUME NEW i \in 1 .. n + 3
        PROVE  g[i] = Value(g, i)
    <3>1. CASE i > n
      BY <1>2, <3>1
    <3>2. CASE ~ (i > n)
      <4>1. i \in 1 .. n /\ i + 1 \in 1 .. n + 3
        BY <1>1, <3>2
      <4>2. Value(g, i) = <<s[i]>> \o g[i + 1]
        <5> HIDE DEF g, n
        <5> QED
          BY <1>4, <3>2, <4>1
      <4>3. g[i] = Rest(i) /\ g[i + 1] = Rest(i + 1)
        BY <4>1
      <4> HIDE DEF g, n, Value
      <4> QED
        BY <1>3, <4>1, <4>2, <4>3
    <3> QED
      BY <3>1, <3>2
  <2>2. g = [i \in 1 .. n + 3 |-> g[i]]
    OBVIOUS
  <2> HIDE DEF g, Value, n
  <2> QED
    BY <2>1, <2>2, Zenon
<1>6. Rule(from)
  <2> HIDE DEF Rule, g
  <2> QED
    BY <1>5
<1>7. WithoutDoubled(c, s) = from[1]
  BY DEF WithoutDoubled
<1> HIDE DEF from
<1>8. \A i \in 1 .. n + 3 : from[i] = Value(from, i)
  <2> HIDE DEF Value
  <2> QED
    BY <1>6, Zenon
<1> DEFINE T == {k \in 0 .. n : from[n + 1 - k] # Rest(n + 1 - k)}
<1>9. ASSUME T # {}
      PROVE  FALSE
  <2>1. PICK k \in T : \A j \in T : k <= j
    <3>1. T \in SUBSET Nat
      OBVIOUS
    <3> HIDE DEF T
    <3> QED
      BY <1>9, <3>1, LeastNumber
  <2> DEFINE i == n + 1 - k
  <2>2. k \in 0 .. n /\ from[i] # Rest(i) /\ i \in 1 .. n + 3
    BY <1>1
  <2>3. CASE k = 0
    <3>1. i = n + 1 /\ i > n
      BY <1>1, <2>3
    <3>2. from[i] = <<>>
      BY <1>8, <2>2, <3>1
    <3> QED
      BY <1>2, <2>2, <3>1, <3>2
  <2>4. CASE k # 0
    <3>1. k - 1 \in 0 .. n /\ k - 1 \notin T
      <4>1. k \in 0 .. n
        BY <2>2
      <4>2. k - 1 \in 0 .. n /\ ~ (k <= k - 1)
        BY <1>1, <2>4, <4>1
      <4> HIDE DEF T
      <4> QED
        BY <2>1, <4>2
    <3>2. n + 1 - (k - 1) = i + 1 /\ i \in 1 .. n /\ ~ (i > n)
      BY <1>1, <2>2, <2>4
    <3>3. from[i + 1] = Rest(i + 1)
      BY <3>1, <3>2
    <3>4. Value(from, i) = <<s[i]>> \o from[i + 1]
      <4> HIDE DEF i, n
      <4> QED
        BY <1>4, <3>2
    <3>5. from[i] = Value(from, i)
      BY <1>8, <2>2
    <3> HIDE DEF Value, i, n, T
    <3> QED
      BY <1>3, <2>2, <3>2, <3>3, <3>4, <3>5
  <2> QED
    BY <2>3, <2>4
<1>10. from[1] = Rest(1)
  <2>1. n \in 0 .. n /\ n + 1 - n = 1
    BY <1>1
  <2>2. n \notin T
    BY <1>9
  <2> QED
    BY <2>1, <2>2
<1>11. Rest(1) = s
  BY SubSeqFull DEF Rest
<1> QED
  BY <1>7, <1>10, <1>11

\* Nothing is cut off at the ends of a text whose ends are kept.
LEMMA TrimmedKeeps ==
  ASSUME NEW S, NEW s \in Seq(S), NEW before, s # <<>>,
         s[1] \notin Separator,
         \/ s[Len(s)] \notin Separator
         \/ Len(s) > 1 /\ s[Len(s) - 1] = "backslash"
  PROVE  Trimmed(s, before) = s
<1> DEFINE n == Len(s)
           kept == {i \in DOMAIN s : \/ s[i] \notin Separator
                                     \/ i > 1 /\ s[i - 1] = "backslash"
                                     \/ i = 1 /\ before = "backslash"}
           first == CHOOSE i \in kept : \A j \in kept : i <= j
           last == CHOOSE i \in kept : \A j \in kept : j <= i
<1>1. n \in Nat /\ n >= 1 /\ DOMAIN s = 1 .. n
  OBVIOUS
<1>2. 1 \in kept /\ n \in kept /\ kept \subseteq 1 .. n
  <2> HIDE DEF Separator
  <2> QED
    BY <1>1
<1> HIDE DEF kept
<1>a. \A j \in kept : 1 <= j /\ j <= n
  BY <1>1, <1>2
<1>3. first \in kept /\ \A j \in kept : first <= j
  <2> HIDE DEF n
  <2> QED
    BY <1>2, <1>a, Zenon
<1>4. last \in kept /\ \A j \in kept : j <= last
  <2> HIDE DEF n
  <2> QED
    BY <1>2, <1>a, Zenon
<1>5. Trimmed(s, before) = SubSeq(s, first, last)
  BY <1>2 DEF Trimmed, kept
<1> HIDE DEF first, last
<1>6. first = 1 /\ last = n
  <2>1. first \in 1 .. n /\ last \in 1 .. n /\ first <= 1 /\ n <= last
    BY <1>2, <1>3, <1>4, Zenon
  <2> HIDE DEF n
  <2> QED
    BY <1>1, <2>1
<1> QED
  BY <1>5, <1>6, SubSeqFull

\* Double backslashes are marked, the others and all other characters stay, and
\* Restored takes the marks back.
LEMMA MarkedText ==
  ASSUME NEW s \in Seq(Char)
  PROVE  /\ Marked(s) \in Seq(Content) /\ Len(Marked(s)) = Len(s)
         /\ Restored(Marked(s)) = s
         /\ \A i \in 1 .. Len(s) : s[i] # "backslash" => Marked(s)[i] = s[i]
         /\ \A i \in 1 .. Len(s) : s[i] = "backslash" => Marked(s)[i] \in {"mark", "backslash"}
         /\ \A i \in 1 .. Len(s) :
              Marked(s)[i] = "backslash" <=>
                s[i] = "backslash" /\ i \in Protects(s) /\ CharAt(s, i + 1) # "backslash"
<1> DEFINE M == Marked(s)
<1>1. DOMAIN s = 1 .. Len(s) /\ Len(s) \in Nat
  OBVIOUS
<1>2. M = [i \in 1 .. Len(s) |->
            IF s[i] = "backslash" /\ (i \in Protects(s) => CharAt(s, i + 1) = "backslash")
            THEN "mark" ELSE s[i]]
  BY <1>1 DEF Marked
<1>3. \A i \in 1 .. Len(s) :
        /\ s[i] \in Char
        /\ M[i] = IF s[i] = "backslash" /\ (i \in Protects(s) => CharAt(s, i + 1) = "backslash")
                  THEN "mark" ELSE s[i]
  <2>1. \A i \in 1 .. Len(s) : s[i] \in Char
    OBVIOUS
  <2> HIDE DEF M
  <2> QED
    BY <1>2, <2>1, Zenon
<1>4. \A i \in 1 .. Len(s) : M[i] \in Content
  <2> HIDE DEF M
  <2> QED
    BY <1>3 DEF Content
<1>5. M \in [1 .. Len(s) -> Content]
  <2>1. M = [i \in 1 .. Len(s) |-> M[i]]
    BY <1>2
  <2> HIDE DEF M
  <2> QED
    BY <1>4, <2>1
<1>6. M \in Seq(Content) /\ Len(M) = Len(s) /\ DOMAIN M = 1 .. Len(s)
  <2> HIDE DEF M
  <2> QED
    BY <1>1, <1>5, SequenceOfLength
<1>7. Restored(M) = s
  <2>1. Restored(M) = [i \in 1 .. Len(s) |-> IF M[i] = "mark" THEN "backslash" ELSE M[i]]
    <3> HIDE DEF M
    <3> QED
      BY <1>6 DEF Restored, ReplaceAll
  <2>2. \A i \in 1 .. Len(s) : (IF M[i] = "mark" THEN "backslash" ELSE M[i]) = s[i]
    <3> HIDE DEF M
    <3> QED
      BY <1>3 DEF Char
  <2>3. Restored(M) = [i \in 1 .. Len(s) |-> s[i]]
    <3> HIDE DEF M
    <3> QED
      BY <2>1, <2>2
  <2> QED
    BY <2>3
<1> HIDE DEF M
<1>8. \A i \in 1 .. Len(s) : /\ s[i] # "backslash" => M[i] = s[i]
                             /\ s[i] = "backslash" => M[i] \in {"mark", "backslash"}
                             /\ M[i] = "backslash" <=>
                                  s[i] = "backslash" /\ i \in Protects(s) /\ CharAt(s, i + 1) # "backslash"
  BY <1>3
<1> QED
  BY <1>6, <1>7, <1>8, Zenon DEF M

-----------------------------------------------------------------------------
(* Arguments: prefixed texts.                                               *)

\* What a prefixed text is, at each of its places.
LEMMA PrefixedText ==
  ASSUME NEW u \in Seq(Char)
  PROVE  IsPrefixed(u) <=>
           /\ \A i \in 1 .. Len(u) : u[i] # "quote"
           /\ \A i \in 1 .. Len(u) :
                u[i] \in Special => i \in Protects(u) \/ i - 1 \in Protects(u)
           /\ \A i \in Protects(u) : i + 1 \in 1 .. Len(u) /\ u[i + 1] \in Special
<1> DEFINE special == {i \in DOMAIN u : u[i] \in Special}
<1>1. DOMAIN u = 1 .. Len(u)
  OBVIOUS
<1>2. "quote" \notin ToSet(u) <=> \A i \in 1 .. Len(u) : u[i] # "quote"
  BY <1>1, Zenon DEF ToSet
<1>3. IsPrefixed(u) <=> /\ "quote" \notin ToSet(u)
                        /\ \A i \in special : i \in Protects(u) \/ i - 1 \in Protects(u)
                        /\ \A i \in Protects(u) : i + 1 \in special
  BY Zenon DEF IsPrefixed, Special
<1>4. \A i : i \in special <=> i \in 1 .. Len(u) /\ u[i] \in Special
  BY <1>1, Zenon
<1> HIDE DEF special
<1> QED
  BY <1>2, <1>3, <1>4, Zenon

\* The sequences that Meant joins.
Bare(u) == [i \in 1 .. Len(u) |-> IF i \in Protects(u) THEN <<>> ELSE <<u[i]>>]

\* They are sequences of characters, and so is the text that is meant.
LEMMA BareType ==
  ASSUME NEW u \in Seq(Char)
  PROVE  /\ Bare(u) \in [1 .. Len(u) -> Seq(Char)]
         /\ Meant(u) = FlattenSeq(Bare(u))
         /\ Meant(u) \in Seq(Char)
<1>1. Len(u) \in Nat /\ DOMAIN u = 1 .. Len(u) /\ \A i \in 1 .. Len(u) : u[i] \in Char
  OBVIOUS
<1>2. \A i \in 1 .. Len(u) :
        (IF i \in Protects(u) THEN <<>> ELSE <<u[i]>>) \in Seq(Char)
  <2>1. <<>> \in Seq(Char) /\ \A c \in Char : <<c>> \in Seq(Char)
    <3> HIDE DEF Char
    <3> QED
      OBVIOUS
  <2> QED
    BY <1>1, <2>1, Zenon
<1>3. Bare(u) \in [1 .. Len(u) -> Seq(Char)]
  BY <1>2, Zenon DEF Bare
<1>4. Meant(u) = FlattenSeq(Bare(u))
  BY <1>1, Zenon DEF Meant, Bare
<1> QED
  BY <1>1, <1>3, <1>4, FlattenType, Zenon

\* The last character of a prefixed text is the last one that it means.
LEMMA LastMeant ==
  ASSUME NEW u \in Seq(Char), IsPrefixed(u), u # <<>>
  PROVE  /\ Meant(u) \in Seq(Char) /\ Meant(u) # <<>>
         /\ Last(Meant(u)) = u[Len(u)]
<1> DEFINE n == Len(u)
           m == n - 1
           G == [i \in 1 .. m |-> Bare(u)[i]]
<1>1. n \in Nat /\ n >= 1 /\ m \in Nat /\ n = m + 1 /\ n \in 1 .. n
      /\ \A i \in 1 .. m : i \in 1 .. n
  OBVIOUS
<1>2. /\ Bare(u) \in [1 .. n -> Seq(Char)] /\ Meant(u) = FlattenSeq(Bare(u))
      /\ Meant(u) \in Seq(Char)
  BY BareType
<1>3. n \notin Protects(u)
  <2>1. \A i \in Protects(u) : i + 1 \in 1 .. n
    BY PrefixedText
  <2> QED
    BY <1>1, <2>1
<1>4. Bare(u)[n] = <<u[n]>>
  <2> HIDE DEF n
  <2> QED
    BY <1>1, <1>3, Zenon DEF Bare, n
<1> HIDE DEF m, n
<1>5. G \in [1 .. m -> Seq(Char)] /\ \A i \in 1 .. m : Bare(u)[i] = G[i]
  BY <1>1, <1>2, Zenon
<1> HIDE DEF G
<1>6. FlattenSeq(G) \in Seq(Char) /\ IsJoined(FlattenSeq(Bare(u)), FlattenSeq(G), Bare(u)[m + 1])
  <2>1. Bare(u) \in [1 .. m + 1 -> Seq(Char)]
    BY <1>1, <1>2
  <2> QED
    BY <1>1, <1>5, <2>1, FlattenOneMore
<1> DEFINE g == FlattenSeq(G)
           c == u[n]
<1>7. Meant(u) = g \o <<c>> /\ g \in Seq(Char) /\ c \in Char
  <2>1. c \in Char
    BY <1>1 DEF n
  <2> QED
    BY <1>1, <1>2, <1>4, <1>6, <2>1 DEF IsJoined
<1> HIDE DEF g, c
<1>8. Last(g \o <<c>>) = c /\ g \o <<c>> # <<>>
  <2>1. <<c>> \in Seq(Char) /\ Len(<<c>>) = 1 /\ Len(g) \in Nat
    BY <1>7
  <2>2. /\ Len(g \o <<c>>) = Len(g) + 1
        /\ (g \o <<c>>)[Len(g) + 1] = c
    <3> HIDE DEF Char
    <3> QED
      BY <1>7, <2>1
  <2>3. Len(<<>>) = 0 /\ Len(g) + 1 # 0
    BY <2>1
  <2> QED
    BY <2>2, <2>3 DEF Last
<1> QED
  BY <1>2, <1>7, <1>8 DEF c, n

\* A character, with a backslash before it if it needs one.
Escape(c) == IF c \in Special THEN <<"backslash", c>> ELSE <<c>>

\* With one more character, escaped if need be, a prefixed text stays prefixed, and
\* means one character more.
LEMMA PrefixedPlus ==
  ASSUME NEW u \in Seq(Char), IsPrefixed(u), NEW c \in Char, c # "quote"
  PROVE  LET v == u \o Escape(c) IN
         /\ v \in Seq(Char) /\ IsPrefixed(v)
         /\ IsJoined(Meant(v), Meant(u), <<c>>)
<1> DEFINE n == Len(u)
           v == u \o Escape(c)
           P == Protects(u)
<1>1. n \in Nat /\ n + 1 \in Nat
  OBVIOUS
<1>2. /\ P \subseteq 1 .. n
      /\ \A i \in 1 .. n : i \in P <=> u[i] = "backslash" /\ i - 1 \notin P
  BY ProtectsRule
<1>3. /\ \A i \in 1 .. n : u[i] # "quote"
      /\ \A i \in 1 .. n : u[i] \in Special => i \in P \/ i - 1 \in P
      /\ \A i \in P : i + 1 \in 1 .. n /\ u[i + 1] \in Special
  BY PrefixedText
<1>4. n \notin P /\ n + 1 \notin P
  BY <1>1, <1>2, <1>3
<1>5. Bare(u) \in [1 .. n -> Seq(Char)] /\ Meant(u) = FlattenSeq(Bare(u))
      /\ Meant(u) \in Seq(Char)
  BY BareType
<1>6. <<>> \in Seq(Char) /\ <<c>> \in Seq(Char)
  OBVIOUS
<1>7. \A i \in 1 .. n : Bare(u)[i] = IF i \in P THEN <<>> ELSE <<u[i]>>
  BY DEF Bare
<1>8. CASE c \notin Special
  <2>1. v = u \o <<c>>
    BY <1>8 DEF Escape
  <2>2. /\ v \in Seq(Char) /\ Len(v) = n + 1 /\ v[n + 1] = c
        /\ \A i \in 1 .. n : v[i] = u[i]
    <3> HIDE DEF Char
    <3>1. u \o <<c>> \in Seq(Char) /\ Len(u \o <<c>>) = n + 1 /\ (u \o <<c>>)[n + 1] = c
          /\ \A i \in 1 .. n : (u \o <<c>>)[i] = u[i]
      OBVIOUS
    <3> HIDE DEF v
    <3> QED
      BY <2>1, <3>1
  <2> HIDE DEF v, P, n
  <2>3. Protects(v) = P
    <3>1. P \in SUBSET (1 .. Len(v))
      BY <1>1, <1>2, <2>2
    <3>2. ASSUME NEW i \in 1 .. Len(v)
          PROVE  i \in P <=> v[i] = "backslash" /\ i - 1 \notin P
      <4>1. CASE i = n + 1
        <5>1. c # "backslash"
          BY <1>8 DEF Special
        <5> QED
          BY <1>4, <2>2, <4>1, <5>1
      <4>2. CASE i # n + 1
        <5>1. i \in 1 .. n
          BY <1>1, <2>2, <4>2
        <5> QED
          BY <1>2, <2>2, <5>1
      <4> QED
        BY <4>1, <4>2
    <3> QED
      BY <2>2, <3>1, <3>2, ProtectsUnique
  <2>4. IsPrefixed(v)
    <3>1. ASSUME NEW i \in 1 .. Len(v)
          PROVE  v[i] # "quote" /\ (v[i] \in Special => i \in P \/ i - 1 \in P)
      <4>1. i = n + 1 \/ i \in 1 .. n
        BY <1>1, <2>2
      <4> QED
        BY <1>3, <1>8, <2>2, <4>1
    <3>2. \A i \in P : i + 1 \in 1 .. Len(v) /\ v[i + 1] \in Special
      BY <1>1, <1>3, <2>2
    <3> QED
      BY <2>2, <2>3, <3>1, <3>2, PrefixedText
  <2>5. /\ Bare(v) \in [1 .. n + 1 -> Seq(Char)] /\ Meant(v) = FlattenSeq(Bare(v))
        /\ \A i \in 1 .. n + 1 : Bare(v)[i] = IF i \in P THEN <<>> ELSE <<v[i]>>
    <3>1. Bare(v) \in [1 .. Len(v) -> Seq(Char)] /\ Meant(v) = FlattenSeq(Bare(v))
      BY <2>2, BareType
    <3>2. \A i \in 1 .. Len(v) : Bare(v)[i] = IF i \in P THEN <<>> ELSE <<v[i]>>
      BY <2>3, Zenon DEF Bare
    <3> QED
      BY <2>2, <3>1, <3>2, Zenon
  <2>6. Bare(v)[n + 1] = <<c>> /\ \A i \in 1 .. n : Bare(v)[i] = Bare(u)[i]
    <3>1. n + 1 \in 1 .. n + 1 /\ \A i \in 1 .. n : i \in 1 .. n + 1
      BY <1>1
    <3> QED
      BY <1>4, <1>7, <2>2, <2>5, <3>1
  <2>7. IsJoined(FlattenSeq(Bare(v)), FlattenSeq(Bare(u)), Bare(v)[n + 1])
    BY <1>1, <1>5, <2>5, <2>6, FlattenOneMore
  <2>8. IsJoined(Meant(v), Meant(u), <<c>>)
    BY <1>5, <2>5, <2>6, <2>7
  <2> QED
    BY <2>2, <2>4, <2>8 DEF v
<1>9. CASE c \in Special
  <2>1. v = u \o <<"backslash", c>>
    BY <1>9 DEF Escape
  <2>2. /\ v \in Seq(Char) /\ Len(v) = n + 2
        /\ v[n + 1] = "backslash" /\ v[n + 2] = c
        /\ \A i \in 1 .. n : v[i] = u[i]
    <3> DEFINE e == <<"backslash", c>>
    <3>1. e \in Seq(Char) /\ Len(e) = 2 /\ e[1] = "backslash" /\ e[2] = c
      BY DEF Char
    <3> HIDE DEF e, Char
    <3>2. /\ u \o e \in Seq(Char) /\ Len(u \o e) = n + 2
          /\ (u \o e)[n + 1] = e[1] /\ (u \o e)[n + 2] = e[2]
          /\ \A i \in 1 .. n : (u \o e)[i] = u[i]
      <4>1. /\ u \o e \in Seq(Char) /\ Len(u \o e) = n + Len(e)
            /\ \A i \in 1 .. n + Len(e) :
                 (u \o e)[i] = IF i <= n THEN u[i] ELSE e[i - n]
        BY <3>1, ConcatProperties
      <4>2. /\ n + 1 \in 1 .. n + 2 /\ ~ (n + 1 <= n) /\ (n + 1) - n = 1
            /\ n + 2 \in 1 .. n + 2 /\ ~ (n + 2 <= n) /\ (n + 2) - n = 2
            /\ \A i \in 1 .. n : i \in 1 .. n + 2 /\ i <= n
        BY <1>1
      <4> HIDE DEF n
      <4> QED
        BY <3>1, <4>1, <4>2, Zenon
    <3>3. v = u \o e
      BY <2>1 DEF e
    <3> HIDE DEF v
    <3> QED
      BY <3>1, <3>2, <3>3
  <2> HIDE DEF v, P, n
  <2> DEFINE Z == P \cup {n + 1}
  <2>3. Protects(v) = Z
    <3>1. Z \in SUBSET (1 .. Len(v))
      BY <1>1, <1>2, <2>2
    <3>2. ASSUME NEW i \in 1 .. Len(v)
          PROVE  i \in Z <=> v[i] = "backslash" /\ i - 1 \notin Z
      <4>1. CASE i = n + 1
        <5>1. i - 1 = n /\ n # n + 1
          BY <1>1, <4>1
        <5> QED
          BY <1>4, <2>2, <4>1, <5>1
      <4>2. CASE i = n + 2
        <5>1. i - 1 = n + 1 /\ i # n + 1 /\ i \notin P
          BY <1>1, <1>2, <4>2
        <5> QED
          BY <5>1
      <4>3. CASE i # n + 1 /\ i # n + 2
        <5>1. i \in 1 .. n /\ i - 1 # n + 1
          BY <1>1, <2>2, <4>3
        <5> QED
          BY <1>2, <2>2, <4>3, <5>1
      <4> QED
        BY <4>1, <4>2, <4>3
    <3> HIDE DEF Z
    <3> QED
      BY <2>2, <3>1, <3>2, ProtectsUnique
  <2>4. IsPrefixed(v)
    <3>1. ASSUME NEW i \in 1 .. Len(v)
          PROVE  v[i] # "quote" /\ (v[i] \in Special => i \in Z \/ i - 1 \in Z)
      <4>1. i = n + 1 \/ i \in 1 .. n \/ (i = n + 2 /\ i - 1 = n + 1)
        BY <1>1, <2>2
      <4> QED
        BY <1>3, <2>2, <4>1
    <3>2. ASSUME NEW i \in Z
          PROVE  i + 1 \in 1 .. Len(v) /\ v[i + 1] \in Special
      <4>1. CASE i \in P
        BY <1>1, <1>3, <2>2, <4>1
      <4>2. CASE i = n + 1
        <5>1. i + 1 = n + 2 /\ n + 2 \in 1 .. Len(v)
          BY <1>1, <2>2, <4>2
        <5> QED
          BY <1>9, <2>2, <5>1
      <4> QED
        BY <4>1, <4>2
    <3> HIDE DEF Z
    <3> QED
      BY <2>2, <2>3, <3>1, <3>2, PrefixedText
  <2>5. /\ Bare(v) \in [1 .. (n + 1) + 1 -> Seq(Char)] /\ Meant(v) = FlattenSeq(Bare(v))
        /\ \A i \in 1 .. (n + 1) + 1 : Bare(v)[i] = IF i \in Z THEN <<>> ELSE <<v[i]>>
    <3>1. Bare(v) \in [1 .. Len(v) -> Seq(Char)] /\ Meant(v) = FlattenSeq(Bare(v))
      BY <2>2, BareType
    <3>2. \A i \in 1 .. Len(v) : Bare(v)[i] = IF i \in Z THEN <<>> ELSE <<v[i]>>
      <4> HIDE DEF Z
      <4> QED
        BY <2>3, Zenon DEF Bare
    <3>3. Len(v) = (n + 1) + 1
      BY <1>1, <2>2
    <3> HIDE DEF Z
    <3> QED
      BY <3>1, <3>2, <3>3, Zenon
  <2> DEFINE F == [i \in 1 .. n + 1 |-> Bare(v)[i]]
  <2>6. /\ (n + 1) + 1 \in 1 .. (n + 1) + 1 /\ n + 1 \in 1 .. n + 1 /\ (n + 1) + 1 = n + 2
        /\ \A i \in 1 .. n + 1 : i \in 1 .. (n + 1) + 1
        /\ \A i \in 1 .. n : i \in 1 .. n + 1 /\ i # n + 1
    BY <1>1
  <2>7. F \in [1 .. n + 1 -> Seq(Char)] /\ \A i \in 1 .. n + 1 : Bare(v)[i] = F[i]
    BY <2>5, <2>6, Zenon
  <2>8. Bare(v)[(n + 1) + 1] = <<c>>
    <3>1. (n + 1) + 1 \notin Z
      BY <1>1, <1>2
    <3> QED
      BY <2>2, <2>5, <2>6, <3>1
  <2>9. F[n + 1] = <<>> /\ \A i \in 1 .. n : F[i] = Bare(u)[i]
    <3>1. n + 1 \in Z
      OBVIOUS
    <3>2. F[n + 1] = <<>>
      BY <2>5, <2>6, <3>1
    <3>3. ASSUME NEW i \in 1 .. n
          PROVE  F[i] = Bare(u)[i]
      <4>1. i \in Z <=> i \in P
        BY <2>6
      <4>2. F[i] = IF i \in Z THEN <<>> ELSE <<v[i]>>
        BY <2>5, <2>6
      <4> QED
        BY <1>7, <2>2, <4>1, <4>2
    <3> QED
      BY <3>2, <3>3
  <2> HIDE DEF F, Z
  <2>10. IsJoined(FlattenSeq(F), Meant(u), <<>>)
    <3>1. IsJoined(FlattenSeq(F), FlattenSeq(Bare(u)), F[n + 1])
      BY <1>1, <1>5, <2>7, <2>9, FlattenOneMore
    <3> QED
      BY <1>5, <2>9, <3>1
  <2>11. FlattenSeq(F) = Meant(u)
    <3>1. Meant(u) \o <<>> = Meant(u)
      BY <1>5, ConcatEmptySeq
    <3> QED
      BY <2>10, <3>1 DEF IsJoined
  <2>12. IsJoined(FlattenSeq(Bare(v)), FlattenSeq(F), <<c>>)
    <3>1. IsJoined(FlattenSeq(Bare(v)), FlattenSeq(F), Bare(v)[(n + 1) + 1])
      BY <1>1, <2>5, <2>7, FlattenOneMore
    <3> QED
      BY <2>8, <3>1
  <2>13. IsJoined(Meant(v), Meant(u), <<c>>)
    BY <2>5, <2>11, <2>12
  <2> QED
    BY <2>2, <2>4, <2>13 DEF v
<1> QED
  BY <1>8, <1>9

\* The characters of a text, escaped one by one.
Escapes(t) == [i \in 1 .. Len(t) |-> Escape(t[i])]

\* A text that is escaped is prefixed, and means what it was.
LEMMA EscapedIsPrefixed ==
  ASSUME NEW t \in Seq(Char), \A i \in 1 .. Len(t) : t[i] # "quote"
  PROVE  LET w == FlattenSeq(Escapes(t)) IN
         /\ Escapes(t) \in [1 .. Len(t) -> Seq(Char)]
         /\ w \in Seq(Char) /\ IsPrefixed(w) /\ Meant(w) = t
         /\ t # <<>> => w # <<>>
<1> DEFINE n == Len(t)
           E == Escapes(t)
<1>1. n \in Nat /\ \A i \in 1 .. n : t[i] \in Char /\ <<t[i]>> \in Seq(Char)
  OBVIOUS
<1>2. E \in [1 .. n -> Seq(Char)] /\ \A i \in 1 .. n : E[i] = Escape(t[i])
  <2>1. \A c \in Char : Escape(c) \in Seq(Char)
    <3>1. \A b, c \in Char : <<b, c>> \in Seq(Char) /\ <<c>> \in Seq(Char)
      <4> HIDE DEF Char
      <4> QED
        OBVIOUS
    <3>2. "backslash" \in Char
      BY DEF Char
    <3> QED
      BY <3>1, <3>2, Zenon DEF Escape
  <2> QED
    BY <1>1, <2>1, Zenon DEF Escapes
<1> HIDE DEF E
<1>3. PICK f : Joins(f, E, n, Char)
  BY <1>1, <1>2, FlattenRule
<1>4. /\ f \in [0 .. n -> Seq(Char)]
      /\ f[0] = <<>>
      /\ \A i \in 1 .. n : f[i] = f[i - 1] \o E[i]
      /\ FlattenSeq(E) = f[n]
  BY <1>3 DEF Joins
<1> DEFINE First(k) == SubSeq(t, 1, k)
           Good(k) == f[k] \in Seq(Char) /\ IsPrefixed(f[k]) /\ Meant(f[k]) = First(k)
           T == {k \in 0 .. n : ~ Good(k)}
<1>5. First(0) = <<>> /\ First(n) = t
  BY SubSeqEmpty, SubSeqFull
<1>6. \A k \in 1 .. n : First(k) = First(k - 1) \o <<t[k]>>
  <2>1. TAKE k \in 1 .. n
  <2>2. 1 \in 1 .. Len(t) /\ k \in 1 .. Len(t)
    OBVIOUS
  <2> QED
    BY <2>2, SubSeqRecursiveSecond
<1> HIDE DEF First
<1>7. /\ <<>> \in Seq(Char) /\ IsPrefixed(<<>>) /\ Meant(<<>>) = <<>>
  <2>1. <<>> \in Seq(Char) /\ Len(<<>>) = 0
    OBVIOUS
  <2>2. Protects(<<>>) = {}
    <3>1. Protects(<<>>) \subseteq 1 .. 0
      BY <2>1, ProtectsRule
    <3> QED
      BY <3>1
  <2>3. IsPrefixed(<<>>)
    <3>1. ASSUME NEW e \in Seq(Char), Len(e) = 0, Protects(e) = {}
          PROVE  IsPrefixed(e)
      <4>1. 1 .. Len(e) = {}
        BY <3>1
      <4> QED
        BY <3>1, <4>1, PrefixedText
    <3> QED
      BY <2>1, <2>2, <3>1, Zenon
  <2>4. /\ Bare(<<>>) \in [1 .. 0 -> Seq(Char)]
        /\ Meant(<<>>) = FlattenSeq(Bare(<<>>))
    BY <2>1, BareType
  <2>5. PICK g : Joins(g, Bare(<<>>), 0, Char)
    <3>1. 0 \in Nat
      OBVIOUS
    <3> QED
      BY <2>4, <3>1, FlattenRule
  <2>6. FlattenSeq(Bare(<<>>)) = <<>>
    BY <2>5, Zenon DEF Joins
  <2> QED
    BY <2>1, <2>3, <2>4, <2>6, Zenon
<1>8. ASSUME T # {}
      PROVE  FALSE
  <2>1. PICK k \in T : \A l \in T : k <= l
    <3>1. T \subseteq 0 .. n
      BY Zenon
    <3>2. 0 .. n \subseteq Nat
      OBVIOUS
    <3> HIDE DEF T
    <3> QED
      BY <1>8, <3>1, <3>2, LeastNumber
  <2>2. k \in 0 .. n /\ ~ Good(k)
    BY <2>1, Zenon
  <2>3. CASE k = 0
    BY <1>4, <1>5, <1>7, <2>2, <2>3, Zenon
  <2>4. CASE k # 0
    <3>1. k - 1 \in 0 .. n /\ k \in 1 .. n /\ ~ (k <= k - 1)
      BY <1>1, <2>2, <2>4
    <3>2. Good(k - 1)
      BY <2>1, <3>1, Zenon
    <3>3. f[k] = f[k - 1] \o Escape(t[k]) /\ t[k] \in Char /\ t[k] # "quote"
      BY <1>1, <1>2, <1>4, <3>1
    <3> DEFINE c == t[k]
               u == f[k - 1]
               v == u \o Escape(c)
    <3>4. u \in Seq(Char) /\ IsPrefixed(u) /\ Meant(u) = First(k - 1)
      BY <3>2, Zenon
    <3>5. c \in Char /\ c # "quote"
      BY <3>3
    <3>6. f[k] = v
      BY <3>3, Zenon
    <3>7. First(k) = First(k - 1) \o <<c>>
      BY <1>6, <3>1
    <3> HIDE DEF u, c
    <3>8. v \in Seq(Char) /\ IsPrefixed(v) /\ IsJoined(Meant(v), Meant(u), <<c>>)
      BY <3>4, <3>5, PrefixedPlus
    <3> HIDE DEF v
    <3>9. Meant(v) = First(k)
      BY <3>4, <3>7, <3>8 DEF IsJoined
    <3> QED
      BY <2>2, <3>6, <3>8, <3>9, Zenon
  <2> QED
    BY <2>3, <2>4
<1>9. Good(n)
  <2>1. n \in 0 .. n
    BY <1>1
  <2> QED
    BY <1>8, <2>1, Zenon
<1> DEFINE w == FlattenSeq(E)
<1>10. w \in Seq(Char) /\ IsPrefixed(w) /\ Meant(w) = t
  BY <1>4, <1>5, <1>9, Zenon
<1> HIDE DEF w
<1>11. t # <<>> => w # <<>>
  BY <1>7, <1>10
<1> QED
  BY <1>2, <1>10, <1>11, Zenon DEF w, E

-----------------------------------------------------------------------------
(* Arguments: where a text stands.                                          *)

\* The text u stands in s behind the first a characters, and no other part of s has
\* a backslash.
Placed(s, a, u) ==
  /\ a + Len(u) <= Len(s)
  /\ \A i \in 1 .. Len(u) : s[a + i] = u[i]
  /\ \A i \in 1 .. Len(s) : s[i] = "backslash" => a < i /\ i <= a + Len(u)

\* The same characters are protected in a text and where it stands.
LEMMA ProtectsPlaced ==
  ASSUME NEW S, NEW s \in Seq(S), NEW u \in Seq(Char), NEW a \in Nat, Placed(s, a, u)
  PROVE  Protects(s) = {a + i : i \in Protects(u)}
<1> DEFINE Z == {a + i : i \in Protects(u)}
           P == Protects(u)
<1>1. /\ P \subseteq 1 .. Len(u)
      /\ \A i \in 1 .. Len(u) : i \in P <=> u[i] = "backslash" /\ i - 1 \notin P
  BY ProtectsRule
<1>2. /\ a + Len(u) <= Len(s) /\ Len(u) \in Nat /\ Len(s) \in Nat
      /\ \A i \in 1 .. Len(u) : s[a + i] = u[i]
      /\ \A i \in 1 .. Len(s) : s[i] = "backslash" => a < i /\ i <= a + Len(u)
  BY DEF Placed
<1> HIDE DEF P
<1>3. \A k \in Int : k \in Z <=> k - a \in P
  <2>1. TAKE k \in Int
  <2>2. k \in Z => k - a \in P
    <3>1. ASSUME k \in Z
          PROVE  k - a \in P
      <4>1. PICK i \in P : k = a + i
        BY <3>1 DEF P
      <4>2. i \in Int /\ k - a = i
        BY <1>1, <4>1
      <4> QED
        BY <4>2
    <3> QED
      BY <3>1
  <2>3. k - a \in P => k \in Z
    <3>1. k = a + (k - a)
      OBVIOUS
    <3> QED
      BY <3>1 DEF P
  <2> QED
    BY <2>2, <2>3
<1> HIDE DEF Z
<1>4. Z \in SUBSET (1 .. Len(s))
  <2>1. \A k \in Z : k \in Int
    BY <1>1 DEF Z, P
  <2>2. ASSUME NEW k \in Z
        PROVE  k \in 1 .. Len(s)
    <3>1. k \in Int /\ k - a \in 1 .. Len(u)
      BY <1>1, <1>3, <2>1
    <3> QED
      BY <1>2, <3>1
  <2> QED
    BY <2>2
<1>5. ASSUME NEW k \in 1 .. Len(s)
      PROVE  k \in Z <=> s[k] = "backslash" /\ k - 1 \notin Z
  <2>1. k \in Int /\ k - 1 \in Int /\ (k - 1) - a = (k - a) - 1
    BY <1>2
  <2>2. CASE a < k /\ k <= a + Len(u)
    <3>1. k - a \in 1 .. Len(u) /\ k = a + (k - a)
      BY <1>2, <2>1, <2>2
    <3>2. s[k] = u[k - a]
      BY <1>2, <3>1
    <3> QED
      BY <1>1, <1>3, <2>1, <3>1, <3>2
  <2>3. CASE ~ (a < k /\ k <= a + Len(u))
    <3>1. s[k] # "backslash"
      BY <1>2, <2>3
    <3>2. k - a \notin 1 .. Len(u)
      BY <1>2, <2>1, <2>3
    <3> QED
      BY <1>1, <1>3, <2>1, <3>1, <3>2
  <2> QED
    BY <2>2, <2>3
<1>6. Protects(s) = Z
  BY <1>4, <1>5, ProtectsUnique
<1> QED
  BY <1>6 DEF Z

\* In the marked text a backslash stands before each separator of a prefixed text,
\* and none at the end of it.
LEMMA MarkedPlaced ==
  ASSUME NEW s \in Seq(Char), NEW u \in Seq(Char), NEW a \in Nat,
         Placed(s, a, u), IsPrefixed(u)
  PROVE  /\ \A i \in 1 .. Len(u) :
              u[i] \in Separator => i > 1 /\ Marked(s)[(a + i) - 1] = "backslash"
         /\ u # <<>> => Marked(s)[a + Len(u)] # "backslash"
<1> DEFINE P == Protects(u)
<1>1. /\ P \subseteq 1 .. Len(u)
      /\ \A i \in 1 .. Len(u) : i \in P <=> u[i] = "backslash" /\ i - 1 \notin P
  BY ProtectsRule
<1>2. /\ \A i \in 1 .. Len(u) : u[i] \in Special => i \in P \/ i - 1 \in P
      /\ \A i \in P : i + 1 \in 1 .. Len(u) /\ u[i + 1] \in Special
  BY PrefixedText
<1>3. /\ a + Len(u) <= Len(s) /\ Len(u) \in Nat /\ Len(s) \in Nat
      /\ \A i \in 1 .. Len(u) : s[a + i] = u[i]
  BY DEF Placed
<1>4. Protects(s) = {a + i : i \in P}
  BY ProtectsPlaced
<1> DEFINE M == Marked(s)
<1>5. \A i \in 1 .. Len(s) :
        M[i] = "backslash" <=>
          s[i] = "backslash" /\ i \in Protects(s) /\ CharAt(s, i + 1) # "backslash"
  BY MarkedText
<1> HIDE DEF P, M
<1>6. ASSUME NEW i \in 1 .. Len(u), u[i] \in Separator
      PROVE  i > 1 /\ M[(a + i) - 1] = "backslash"
  <2>1. u[i] \in Special /\ u[i] # "backslash"
    BY <1>6 DEF Separator, Special
  <2>2. i - 1 \in P
    BY <1>1, <1>2, <2>1
  <2>3. i - 1 \in 1 .. Len(u) /\ i \in Int /\ u[i - 1] = "backslash"
    BY <1>1, <2>2
  <2>4. /\ i > 1 /\ (a + i) - 1 = a + (i - 1) /\ (a + i) - 1 \in 1 .. Len(s)
        /\ ((a + i) - 1) + 1 = a + i /\ a + i \in 1 .. Len(s)
    BY <1>3, <2>3
  <2>5. s[(a + i) - 1] = "backslash" /\ (a + i) - 1 \in Protects(s)
    BY <1>3, <1>4, <2>2, <2>3, <2>4
  <2>6. CharAt(s, a + i) # "backslash"
    <3>1. DOMAIN s = 1 .. Len(s) /\ s[a + i] = u[i]
      BY <1>3
    <3> QED
      BY <2>1, <2>4, <3>1 DEF CharAt
  <2> QED
    BY <1>5, <2>4, <2>5, <2>6
<1>7. ASSUME u # <<>>
      PROVE  M[a + Len(u)] # "backslash"
  <2>1. Len(u) >= 1 /\ a + Len(u) \in 1 .. Len(s)
    BY <1>3, <1>7
  <2>2. Len(u) \notin P
    BY <1>2, <1>3
  <2>3. a + Len(u) \notin Protects(s)
    <3>1. ASSUME a + Len(u) \in Protects(s)
          PROVE  FALSE
      <4>1. PICK i \in P : a + Len(u) = a + i
        BY <1>4, <3>1
      <4>2. i \in Int
        BY <1>1
      <4>3. i = Len(u)
        BY <1>3, <4>1, <4>2
      <4> QED
        BY <2>2, <4>3
    <3> QED
      BY <3>1
  <2> QED
    BY <1>5, <2>1, <2>3
<1> QED
  BY <1>6, <1>7 DEF M

\* The passes over the commas and the spaces change nothing in a text where commas do
\* not meet and all spaces are in a prefixed part.
LEMMA CommasAndSpacesKept ==
  ASSUME NEW s \in Seq(Char), NEW u \in Seq(Char), NEW a \in Nat, NEW before,
         Placed(s, a, u), IsPrefixed(u),
         \A i \in 1 .. Len(s) - 1 : ~ (s[i] = "comma" /\ s[i + 1] = "comma"),
         \A i \in 1 .. Len(s) : s[i] = "space" => a < i /\ i <= a + Len(u)
  PROVE  Restored(WithoutSpaces(WithoutDoubled("comma", Marked(s)), before)) = s
<1> DEFINE M == Marked(s)
<1>1. /\ M \in Seq(Content) /\ Len(M) = Len(s) /\ Restored(M) = s
      /\ \A i \in 1 .. Len(s) : s[i] # "backslash" => M[i] = s[i]
      /\ \A i \in 1 .. Len(s) : s[i] = "backslash" => M[i] \in {"mark", "backslash"}
  BY MarkedText
<1>2. Len(s) \in Nat /\ Len(u) \in Nat
      /\ \A i \in 1 .. Len(u) : s[a + i] = u[i]
  BY DEF Placed
<1>3. \A i \in 1 .. Len(u) :
        u[i] \in Separator => i > 1 /\ M[(a + i) - 1] = "backslash"
  BY MarkedPlaced
<1> HIDE DEF M
<1>4. WithoutDoubled("comma", M) = M
  <2>1. ASSUME NEW i \in 1 .. Len(M) - 1
        PROVE  ~ (M[i] = "comma" /\ M[i + 1] = "comma")
    <3>1. i \in 1 .. Len(s) - 1 /\ i \in 1 .. Len(s) /\ i + 1 \in 1 .. Len(s)
      BY <1>1, <1>2
    <3>2. \A j \in 1 .. Len(s) : M[j] = "comma" => s[j] = "comma"
      BY <1>1
    <3> QED
      BY <3>1, <3>2
  <2> QED
    BY <1>1, <2>1, WithoutDoubledKeeps
<1>5. WithoutSpaces(M, before) = M
  <2> DEFINE Kept(i) == \/ M[i] # "space"
                        \/ (IF i = 1 THEN before ELSE M[i - 1]) = "backslash"
  <2>1. ASSUME NEW i \in 1 .. Len(s)
        PROVE  Kept(i)
    <3>1. CASE M[i] = "space"
      <4>1. s[i] = "space"
        BY <1>1, <3>1
      <4>2. a < i /\ i <= a + Len(u)
        BY <4>1
      <4>3. i - a \in 1 .. Len(u) /\ a + (i - a) = i
        BY <1>2, <4>2
      <4>4. u[i - a] \in Separator
        BY <1>2, <4>1, <4>3 DEF Separator
      <4>5. i - a > 1 /\ M[i - 1] = "backslash"
        BY <1>3, <4>3, <4>4
      <4>6. i # 1
        BY <4>3, <4>5
      <4> QED
        BY <4>5, <4>6
    <3> QED
      BY <3>1
  <2>2. DOMAIN M = 1 .. Len(M)
    BY <1>1
  <2>3. WithoutSpaces(M, before) =
          FlattenSeq([i \in 1 .. Len(M) |-> IF Kept(i) THEN <<M[i]>> ELSE <<>>])
    BY <2>2 DEF WithoutSpaces
  <2> HIDE DEF Kept
  <2>4. [i \in 1 .. Len(M) |-> IF Kept(i) THEN <<M[i]>> ELSE <<>>]
          = [i \in 1 .. Len(M) |-> <<M[i]>>]
    BY <1>1, <2>1
  <2> QED
    BY <1>1, <2>3, <2>4, FlattenSingles
<1> QED
  BY <1>1, <1>4, <1>5 DEF M

\* What may stand before a text among the arguments, and behind it.
Fronts == {<<>>, <<"letter", "comma">>}
Backs == {<<>>, <<"comma", "letter">>}

\* The characters of front, u and back, one behind the other.
Around(x, front, u, back) ==
  LET a == Len(front)
      b == Len(front) + Len(u)
  IN  /\ x \in Seq(Char) /\ x # <<>> /\ Len(x) = b + Len(back)
      /\ a \in {0, 2} /\ Len(back) \in {0, 2} /\ Len(u) \in Nat /\ Len(u) >= 1
      /\ a = 2 => x[1] = "letter" /\ x[2] = "comma"
      /\ Len(back) = 2 => x[b + 1] = "comma" /\ x[b + 2] = "letter"
      /\ \A i \in 1 .. Len(u) : x[a + i] = u[i] /\ u[i] \in Char

\* To join them puts their characters there.
LEMMA JoinedAround ==
  ASSUME NEW u \in Seq(Char), u # <<>>, NEW front \in Fronts, NEW back \in Backs,
         NEW x, AreJoined(x, front, u, back)
  PROVE  Around(x, front, u, back)
<1> DEFINE a == Len(front)
           m == Len(u)
           l == Len(back)
<1>1. /\ front \in Seq(Char) /\ a \in {0, 2}
      /\ a = 2 => front[1] = "letter" /\ front[2] = "comma"
  <2>1. CASE front = <<>>
    BY <2>1
  <2>2. CASE front = <<"letter", "comma">>
    <3>1. \A b, c \in Char : <<b, c>> \in Seq(Char) /\ Len(<<b, c>>) = 2
      <4> HIDE DEF Char
      <4> QED
        OBVIOUS
    <3> QED
      BY <2>2, <3>1 DEF Char
  <2> QED
    BY <2>1, <2>2 DEF Fronts
<1>2. /\ back \in Seq(Char) /\ l \in {0, 2}
      /\ l = 2 => back[1] = "comma" /\ back[2] = "letter"
  <2>1. CASE back = <<>>
    BY <2>1
  <2>2. CASE back = <<"comma", "letter">>
    <3>1. \A b, c \in Char : <<b, c>> \in Seq(Char) /\ Len(<<b, c>>) = 2
      <4> HIDE DEF Char
      <4> QED
        OBVIOUS
    <3> QED
      BY <2>2, <3>1 DEF Char
  <2> QED
    BY <2>1, <2>2 DEF Backs
<1>3. m \in Nat /\ m >= 1 /\ \A i \in 1 .. m : u[i] \in Char
  OBVIOUS
<1> HIDE DEF Char
<1>4. /\ front \o u \in Seq(Char) /\ Len(front \o u) = a + m
      /\ \A i \in 1 .. a + m : (front \o u)[i] = IF i <= a THEN front[i] ELSE u[i - a]
  BY <1>1, ConcatProperties
<1> DEFINE y == front \o u
<1> HIDE DEF y
<1>5. /\ y \o back \in Seq(Char) /\ Len(y \o back) = (a + m) + l
      /\ \A i \in 1 .. (a + m) + l :
           (y \o back)[i] = IF i <= a + m THEN y[i] ELSE back[i - (a + m)]
  BY <1>2, <1>4, ConcatProperties DEF y
<1>6. x = y \o back
  BY DEF AreJoined, y
<1>7. /\ x \in Seq(Char) /\ Len(x) = (a + m) + l
      /\ \A i \in 1 .. (a + m) + l :
           x[i] = IF i <= a + m THEN IF i <= a THEN front[i] ELSE u[i - a]
                  ELSE back[i - (a + m)]
  <2>1. \A i \in 1 .. (a + m) + l : i <= a + m => i \in 1 .. a + m
    BY <1>1, <1>2, <1>3
  <2> QED
    BY <1>4, <1>5, <1>6, <2>1, Zenon DEF y
<1> HIDE DEF a, m, l
<1>8. x # <<>>
  BY <1>1, <1>2, <1>3, <1>7
<1>9. a = 2 => x[1] = "letter" /\ x[2] = "comma"
  <2>1. a = 2 => /\ 1 \in 1 .. (a + m) + l /\ 1 <= a + m /\ 1 <= a
                 /\ 2 \in 1 .. (a + m) + l /\ 2 <= a + m /\ 2 <= a
    BY <1>2, <1>3
  <2> QED
    BY <1>1, <1>7, <2>1
<1>10. l = 2 => x[(a + m) + 1] = "comma" /\ x[(a + m) + 2] = "letter"
  <2>1. l = 2 => /\ (a + m) + 1 \in 1 .. (a + m) + l /\ ~ ((a + m) + 1 <= a + m)
                 /\ (a + m) + 2 \in 1 .. (a + m) + l /\ ~ ((a + m) + 2 <= a + m)
                 /\ ((a + m) + 1) - (a + m) = 1 /\ ((a + m) + 2) - (a + m) = 2
    BY <1>1, <1>3
  <2> QED
    BY <1>2, <1>7, <2>1
<1>11. \A i \in 1 .. m : x[a + i] = u[i] /\ u[i] \in Char
  <2>1. \A i \in 1 .. m : /\ a + i \in 1 .. (a + m) + l /\ a + i <= a + m
                          /\ ~ (a + i <= a) /\ (a + i) - a = i
    BY <1>1, <1>2, <1>3
  <2> QED
    BY <1>3, <1>7, <2>1
<1> QED
  BY <1>1, <1>2, <1>3, <1>7, <1>8, <1>9, <1>10, <1>11 DEF Around, a, m, l

\* A prefixed text in its place: nothing there is for argformat to change.
LEMMA PrefixedAround ==
  ASSUME NEW w \in Seq(Char), IsPrefixed(w), NEW front, NEW back, NEW x,
         Around(x, front, w, back), back # <<>> => w[Len(w)] # "comma",
         Len(back) = 2 <=> back # <<>>
  PROVE  /\ Len(front) \in Nat /\ Placed(x, Len(front), w)
         /\ \A i \in 1 .. Len(x) : x[i] # "quote"
         /\ \A i \in 1 .. Len(x) - 1 : ~ (x[i] = "comma" /\ x[i + 1] = "comma")
         /\ \A i \in 1 .. Len(x) :
              x[i] = "space" => Len(front) < i /\ i <= Len(front) + Len(w)
         /\ x[1] \notin Separator
         /\ x[Len(x)] \in Separator => Len(x) = Len(front) + Len(w)
<1> DEFINE a == Len(front)
           m == Len(w)
           b == a + m
           l == Len(back)
           P == Protects(w)
<1>1. /\ x \in Seq(Char) /\ Len(x) = b + l
      /\ a \in {0, 2} /\ l \in {0, 2} /\ m \in Nat /\ m >= 1
      /\ a = 2 => x[1] = "letter" /\ x[2] = "comma"
      /\ l = 2 => x[b + 1] = "comma" /\ x[b + 2] = "letter"
      /\ \A i \in 1 .. m : x[a + i] = w[i]
  BY DEF Around
<1>2. /\ \A i \in 1 .. m : w[i] # "quote"
      /\ \A i \in 1 .. m : w[i] \in Special => i \in P \/ i - 1 \in P
  BY PrefixedText
<1>3. /\ P \subseteq 1 .. m /\ \A i \in 1 .. m : i \in P => w[i] = "backslash"
  BY ProtectsRule
<1>4. l = 2 => w[m] # "comma"
  OBVIOUS
<1> HIDE DEF a, l, m, P
<1>5. ASSUME NEW k \in 1 .. Len(x)
      PROVE  \/ a = 2 /\ k = 1 /\ x[k] = "letter"
             \/ a = 2 /\ k = 2 /\ x[k] = "comma"
             \/ k - a \in 1 .. m /\ a + (k - a) = k /\ x[k] = w[k - a] /\ a < k /\ k <= b
             \/ l = 2 /\ k = b + 1 /\ x[k] = "comma"
             \/ l = 2 /\ k = b + 2 /\ x[k] = "letter"
  <2>1. \/ a = 2 /\ k = 1
        \/ a = 2 /\ k = 2
        \/ k - a \in 1 .. m /\ a + (k - a) = k /\ a < k /\ k <= b
        \/ l = 2 /\ k = b + 1
        \/ l = 2 /\ k = b + 2
    BY <1>1
  <2> QED
    BY <1>1, <2>1
<1>6. \A i \in 1 .. m : w[i] \in Separator => i - 1 \in P /\ w[i - 1] = "backslash" /\ i - 1 \in 1 .. m
  BY <1>2, <1>3 DEF Separator, Special
<1>7. Placed(x, a, w)
  <2>1. \A k \in 1 .. Len(x) : x[k] = "backslash" => a < k /\ k <= b
    BY <1>5
  <2>2. b <= Len(x)
    BY <1>1
  <2> QED
    BY <1>1, <2>1, <2>2 DEF Placed, m
<1>8. \A i \in 1 .. Len(x) : x[i] # "quote"
  BY <1>2, <1>5
<1>9. ASSUME NEW i \in 1 .. Len(x) - 1, x[i] = "comma", x[i + 1] = "comma"
      PROVE  FALSE
  <2>1. i \in 1 .. Len(x) /\ i + 1 \in 1 .. Len(x)
    BY <1>1
  <2>2. (i + 1) - a \in 1 .. m /\ x[i + 1] = w[(i + 1) - a] => i - a \in 1 .. m /\ w[i - a] = "backslash"
    <3>1. ASSUME (i + 1) - a \in 1 .. m, x[i + 1] = w[(i + 1) - a]
          PROVE  i - a \in 1 .. m /\ w[i - a] = "backslash"
      <4>1. ((i + 1) - a) - 1 = i - a
        BY <1>1
      <4>2. w[(i + 1) - a] \in Separator
        BY <1>9, <3>1 DEF Separator
      <4> QED
        BY <1>6, <3>1, <4>1, <4>2
    <3> QED
      BY <3>1
  <2>3. (i + 1) - a \in 1 .. m /\ x[i + 1] = w[(i + 1) - a] => FALSE
    <3>1. i - a \in 1 .. m => x[i] = w[i - a]
      <4>1. a + (i - a) = i
        BY <1>1
      <4> QED
        BY <1>1, <4>1
    <3> QED
      BY <1>9, <2>2, <3>1
  <2>4. \/ a = 2 /\ i + 1 = 2
        \/ l = 2 /\ i + 1 = b + 1
    BY <1>5, <1>9, <2>1, <2>3
  <2>5. CASE a = 2 /\ i + 1 = 2
    BY <1>1, <1>9, <2>1, <2>5
  <2>6. CASE l = 2 /\ i + 1 = b + 1
    <3>1. i = a + m /\ m \in 1 .. m
      BY <1>1, <2>1, <2>6
    <3>2. x[i] = w[m]
      BY <1>1, <3>1
    <3> QED
      BY <1>4, <1>9, <2>6, <3>2
  <2> QED
    BY <2>4, <2>5, <2>6
<1>10. \A i \in 1 .. Len(x) : x[i] = "space" => a < i /\ i <= b
  BY <1>5
<1>11. x[1] \notin Separator
  <2>1. CASE a = 2
    BY <1>1, <2>1 DEF Separator
  <2>2. CASE a = 0
    <3>1. 1 \in 1 .. m /\ a + 1 = 1 /\ 1 - 1 \notin 1 .. m
      BY <1>1, <2>2
    <3> QED
      BY <1>1, <1>6, <3>1
  <2> QED
    BY <1>1, <2>1, <2>2
<1>12. x[Len(x)] \in Separator => Len(x) = b
  <2>1. CASE l = 2
    BY <1>1, <2>1 DEF Separator
  <2>2. CASE l = 0
    BY <1>1, <2>2
  <2> QED
    BY <1>1, <2>1, <2>2
<1>13. a \in Nat
  BY <1>1
<1> QED
  BY <1>7, <1>8, <1>9, <1>10, <1>11, <1>12, <1>13 DEF a, m

-----------------------------------------------------------------------------
(* Arguments: what argformat does to a text that is protected.              *)

\* A pass for doubled characters, and one for the ends, over a text that needs none.
LEMMA NoQuotesCounted ==
  ASSUME NEW S, NEW s \in Seq(S), \A i \in 1 .. Len(s) : s[i] # "quote"
  PROVE  \A i \in 0 .. Len(s) : QuotesBefore(s, i) = 0
<1>1. ASSUME NEW i \in 0 .. Len(s)
      PROVE  QuotesBefore(s, i) = 0
  <2>1. Len(s) \in Nat
    OBVIOUS
  <2>2. {j \in 1 .. i : s[j] = "quote"} = {}
    BY <2>1
  <2> QED
    BY <2>2, FS_EmptySet DEF QuotesBefore
<1> QED
  BY <1>1

\* A text without quotes.
Plain(s) == \A k \in 1 .. Len(s) : s[k] # "quote"

\* A text without quotes has none to leave out.
LEMMA UnquotedPlain ==
  ASSUME NEW s \in Seq(Char), Plain(s)
  PROVE  Unquoted(s) = s
<1> DEFINE n == Len(s)
           Copy(i) == CASE s[i] = "quote" -> <<>>
                        [] QuotesBefore(s, i) % 2 = 1 /\ s[i] \in Separator \cup {"backslash"}
                             -> <<"backslash", s[i]>>
                        [] OTHER -> <<s[i]>>
<1>1. n \in Nat /\ \A i \in 1 .. n : s[i] # "quote"
  BY DEF Plain
<1>2. ASSUME NEW i \in 1 .. n
      PROVE  Copy(i) = <<s[i]>>
  <2>1. i \in 0 .. n
    BY <1>1
  <2>2. QuotesBefore(s, i) = 0
    BY <1>1, <2>1, NoQuotesCounted
  <2>3. s[i] # "quote" /\ ~ (QuotesBefore(s, i) % 2 = 1)
    BY <1>1, <2>2
  <2> QED
    BY <2>3, Zenon
<1>3. DOMAIN s = 1 .. n
  OBVIOUS
<1>4. Unquoted(s) = FlattenSeq([i \in 1 .. n |-> Copy(i)])
  BY <1>3, Zenon DEF Unquoted
<1> HIDE DEF Copy
<1>5. [i \in 1 .. n |-> Copy(i)] = [i \in 1 .. n |-> <<s[i]>>]
  BY <1>2
<1> QED
  BY <1>4, <1>5, FlattenSingles

\* The arguments are left as they are when the text in question is prefixed.
LEMMA FormattedPrefixed ==
  ASSUME NEW u \in Seq(Char), IsPrefixed(u), NEW front, NEW back, NEW x, NEW before,
         Around(x, front, u, back), back # <<>> => u[Len(u)] # "comma",
         Len(back) = 2 <=> back # <<>>
  PROVE  FormattedArguments(x, before) = x
<1> DEFINE a == Len(front)
           m == Len(u)
           n == Len(x)
<1>1. /\ a \in Nat /\ Placed(x, a, u)
      /\ \A i \in 1 .. n : x[i] # "quote"
      /\ \A i \in 1 .. n - 1 : ~ (x[i] = "comma" /\ x[i + 1] = "comma")
      /\ \A i \in 1 .. n : x[i] = "space" => a < i /\ i <= a + m
      /\ x[1] \notin Separator
      /\ x[n] \in Separator => n = a + m
  BY PrefixedAround
<1>2. /\ x \in Seq(Char) /\ x # <<>> /\ n \in Nat /\ n >= 1 /\ m \in Nat /\ m >= 1
      /\ \A i \in 1 .. m : x[a + i] = u[i]
  <2>1. x \in Seq(Char) /\ x # <<>> /\ m \in Nat /\ m >= 1
        /\ \A i \in 1 .. m : x[a + i] = u[i]
    BY DEF Around
  <2> QED
    BY <2>1
<1> DEFINE M == Marked(x)
<1>3. /\ M \in Seq(Content) /\ Len(M) = n /\ Restored(M) = x
      /\ \A i \in 1 .. n : x[i] # "backslash" => M[i] = x[i]
      /\ \A i \in 1 .. n : x[i] = "backslash" => M[i] \in {"mark", "backslash"}
  BY <1>2, MarkedText
<1>4. \A i \in 1 .. m : u[i] \in Separator => i > 1 /\ M[(a + i) - 1] = "backslash"
  BY <1>1, <1>2, MarkedPlaced
<1> HIDE DEF M, a, m
<1>5. WithoutDoubled("quote", x) = x
  <2>1. \A i \in 1 .. n - 1 : ~ (x[i] = "quote" /\ x[i + 1] = "quote")
    <3>1. \A i \in 1 .. n - 1 : i \in 1 .. n
      BY <1>2
    <3> QED
      BY <1>1, <3>1
  <2> QED
    BY <1>2, <2>1, WithoutDoubledKeeps
<1>6. Trimmed(M, before) = M
  <2>1. M # <<>>
    <3>1. Len(<<>>) = 0
      OBVIOUS
    <3> QED
      BY <1>2, <1>3, <3>1
  <2>2. \A i \in 1 .. n : M[i] \in Separator => x[i] = M[i]
    BY <1>3 DEF Separator
  <2>3. M[1] \notin Separator
    <3>1. 1 \in 1 .. n
      BY <1>2
    <3> QED
      BY <1>1, <2>2, <3>1
  <2>4. M[n] \in Separator => n > 1 /\ M[n - 1] = "backslash"
    <3>1. ASSUME M[n] \in Separator
          PROVE  n > 1 /\ M[n - 1] = "backslash"
      <4>1. n \in 1 .. n /\ x[n] \in Separator
        <5>1. n \in 1 .. n
          BY <1>2
        <5> QED
          BY <2>2, <3>1, <5>1
      <4>2. n = a + m /\ m \in 1 .. m
        BY <1>1, <1>2, <4>1
      <4>3. u[m] \in Separator
        BY <1>2, <4>1, <4>2
      <4>4. m > 1 /\ M[(a + m) - 1] = "backslash"
        BY <1>4, <4>2, <4>3
      <4> QED
        BY <1>1, <1>2, <4>2, <4>4
    <3> QED
      BY <3>1
  <2> QED
    BY <1>3, <2>1, <2>3, <2>4, TrimmedKeeps
<1>7. QuotesBefore(M, Len(M)) = 0
  <2>1. \A i \in 1 .. Len(M) : M[i] # "quote"
    BY <1>1, <1>3
  <2>2. Len(M) \in 0 .. Len(M)
    BY <1>2, <1>3
  <2> QED
    BY <1>3, <2>1, <2>2, NoQuotesCounted
<1>8. Unquoted(x) = x
  BY <1>1, <1>2, UnquotedPlain DEF Plain
<1>9. Restored(WithoutSpaces(WithoutDoubled("comma", M), before)) = x
  BY <1>1, <1>2, CommasAndSpacesKept DEF M, a, m
<1>10. FormattedArguments(x, before) =
         Restored(WithoutSpaces(WithoutDoubled("comma", Marked(x)), before))
  <2>1. QuotesBefore(M, Len(M)) % 2 = 0
    BY <1>7
  <2> HIDE DEF n
  <2> QED
    BY <1>2, <1>3, <1>5, <1>6, <1>8, <2>1, Zenon DEF FormattedArguments, M
<1> QED
  BY <1>9, <1>10 DEF M

\* The text t stands in s behind the first a characters, enclosed by the only two
\* quotes.
Enclosing(s, a, t) ==
  /\ a + Len(t) + 2 <= Len(s)
  /\ \A i \in 1 .. Len(s) : s[i] = "quote" <=> i \in {a + 1, a + Len(t) + 2}
  /\ \A i \in 1 .. Len(t) : s[(a + 1) + i] = t[i]

\* How many quotes stand up to a place.
LEMMA QuotesUpTo ==
  ASSUME NEW S, NEW s \in Seq(S), NEW t \in Seq(Char), NEW a \in Nat, Enclosing(s, a, t),
         NEW i \in 0 .. Len(s)
  PROVE  QuotesBefore(s, i) =
           IF i <= a THEN 0 ELSE IF i <= a + Len(t) + 1 THEN 1 ELSE 2
<1> DEFINE q == {j \in 1 .. i : s[j] = "quote"}
           b == a + Len(t) + 2
<1>1. /\ b <= Len(s) /\ Len(s) \in Nat /\ Len(t) \in Nat /\ a + 1 < b /\ b \in Nat
      /\ \A j \in 1 .. Len(s) : s[j] = "quote" <=> j \in {a + 1, b}
  BY DEF Enclosing
<1> HIDE DEF b
<1>2. \A j : j \in q <=> j \in 1 .. i /\ (j = a + 1 \/ j = b)
  BY <1>1
<1>3. QuotesBefore(s, i) = Cardinality(q)
  BY DEF QuotesBefore
<1> HIDE DEF q
<1>4. CASE i <= a
  <2>1. q = {}
    BY <1>1, <1>2, <1>4
  <2> QED
    BY <1>3, <1>4, <2>1, FS_EmptySet
<1>5. CASE ~ (i <= a) /\ i <= a + Len(t) + 1
  <2>1. q = {a + 1}
    <3>1. i < b /\ a + 1 <= i
      BY <1>1, <1>5 DEF b
    <3> QED
      BY <1>1, <1>2, <3>1
  <2> QED
    BY <1>3, <1>5, <2>1, FS_Singleton
<1>6. CASE ~ (i <= a) /\ ~ (i <= a + Len(t) + 1)
  <2>1. q = {a + 1} \cup {b} /\ b \notin {a + 1}
    <3>1. b <= i /\ a + 1 <= i
      BY <1>1, <1>6 DEF b
    <3> QED
      BY <1>1, <1>2, <3>1
  <2>2. IsFiniteSet({a + 1}) /\ Cardinality({a + 1}) = 1
    BY FS_Singleton
  <2>3. Cardinality(q) = 2
    <3>1. Cardinality({a + 1} \cup {b}) = Cardinality({a + 1}) + 1
      BY <2>1, <2>2, FS_AddElement, Zenon
    <3> QED
      BY <2>1, <2>2, <3>1
  <2> QED
    BY <1>3, <1>6, <2>3
<1> QED
  BY <1>4, <1>5, <1>6

\* Unquoted leaves the two quotes out, escapes what they enclose and leaves the rest.
LEMMA UnquotedText ==
  ASSUME NEW s \in Seq(Char), NEW t \in Seq(Char), NEW a \in Nat, Enclosing(s, a, t)
  PROVE  LET front == [i \in 1 .. a |-> s[i]]
             b == a + Len(t) + 2
             back == [i \in 1 .. Len(s) - b |-> s[b + i]]
         IN  AreJoined(Unquoted(s), front, FlattenSeq(Escapes(t)), back)
<1> DEFINE n == Len(s)
           m == Len(t)
           b == a + m + 2
           l == n - b
           front == [i \in 1 .. a |-> s[i]]
           back == [i \in 1 .. l |-> s[b + i]]
           w == FlattenSeq(Escapes(t))
           Copied(i) == CASE s[i] = "quote" -> <<>>
                          [] QuotesBefore(s, i) % 2 = 1 /\ s[i] \in Separator \cup {"backslash"}
                               -> <<"backslash", s[i]>>
                          [] OTHER -> <<s[i]>>
           H == [i \in 1 .. n |-> Copied(i)]
<1>1. /\ n \in Nat /\ m \in Nat /\ b \in Nat /\ l \in Nat /\ b = (a + 1) + m + 1 /\ n = b + l
      /\ \A i \in 1 .. n : s[i] = "quote" <=> i \in {a + 1, b}
      /\ \A i \in 1 .. m : s[(a + 1) + i] = t[i]
      /\ \A i \in 1 .. n : s[i] \in Char /\ <<s[i]>> \in Seq(Char)
  BY DEF Enclosing
<1>2. \A i \in 1 .. n : i \in 0 .. n /\
        QuotesBefore(s, i) = IF i <= a THEN 0 ELSE IF i <= a + m + 1 THEN 1 ELSE 2
  BY QuotesUpTo
<1>3. Unquoted(s) = FlattenSeq(H)
  <2>1. DOMAIN s = 1 .. n
    OBVIOUS
  <2> QED
    BY <2>1, Zenon DEF Unquoted
<1>4. \A i \in 1 .. n : H[i] = Copied(i)
  OBVIOUS
<1>5. ASSUME NEW i \in 1 .. n
      PROVE  H[i] = IF i \in {a + 1, b} THEN <<>>
                    ELSE IF a + 1 < i /\ i < b THEN Escape(s[i]) ELSE <<s[i]>>
  <2>1. H[i] = Copied(i)
    BY <1>4, Zenon
  <2>2. s[i] = "quote" <=> i \in {a + 1, b}
    BY <1>1, Zenon
  <2>3. QuotesBefore(s, i) = IF i <= a THEN 0 ELSE IF i <= a + m + 1 THEN 1 ELSE 2
    BY <1>2, Zenon
  <2> HIDE DEF H
  <2>4. CASE i \in {a + 1, b}
    <3>1. s[i] = "quote" /\ s[i] \notin Separator \cup {"backslash"}
      BY <2>2, <2>4 DEF Separator
    <3>2. Copied(i) = <<>>
      <4> HIDE DEF Separator, b
      <4> QED
        BY <3>1
    <3> QED
      BY <2>1, <2>4, <3>2
  <2>5. CASE a + 1 < i /\ i < b
    <3>1. QuotesBefore(s, i) = 1
      BY <1>1, <2>3, <2>5
    <3>2. i \notin {a + 1, b} /\ s[i] # "quote" /\ QuotesBefore(s, i) % 2 = 1
      BY <1>1, <2>2, <2>5, <3>1
    <3> HIDE DEF b, n
    <3>3. Copied(i) = Escape(s[i])
      BY <3>2, Zenon DEF Escape, Special
    <3> QED
      BY <2>1, <2>5, <3>2, <3>3
  <2>6. CASE i \notin {a + 1, b} /\ ~ (a + 1 < i /\ i < b)
    <3>1. QuotesBefore(s, i) \in {0, 2}
      BY <1>1, <2>3, <2>6
    <3>2. s[i] # "quote" /\ ~ (QuotesBefore(s, i) % 2 = 1)
      BY <2>2, <2>6, <3>1
    <3>3. Copied(i) = <<s[i]>>
      BY <3>2, Zenon
    <3> QED
      BY <2>1, <2>6, <3>3
  <2> QED
    BY <2>4, <2>5, <2>6
<1> DEFINE Upto(k) == [i \in 1 .. k |-> H[i]]
           Rest == [i \in 1 .. l |-> H[b + i]]
<1>6. H \in [1 .. n -> Seq(Char)]
  <2>1. \A c \in Char : Escape(c) \in Seq(Char)
    <3>1. \A e, c \in Char : <<e, c>> \in Seq(Char) /\ <<c>> \in Seq(Char)
      <4> HIDE DEF Char
      <4> QED
        OBVIOUS
    <3>2. "backslash" \in Char
      BY DEF Char
    <3> QED
      BY <3>1, <3>2, Zenon DEF Escape
  <2>2. <<>> \in Seq(Char)
    OBVIOUS
  <2>3. ASSUME NEW i \in 1 .. n
        PROVE  H[i] \in Seq(Char)
    <3>1. s[i] \in Char /\ <<s[i]>> \in Seq(Char) /\ Escape(s[i]) \in Seq(Char)
      BY <1>1, <2>1
    <3> DEFINE U == Seq(Char)
    <3> HIDE DEF H, b, U
    <3> QED
      BY <1>5, <2>2, <3>1 DEF U
  <2>4. H = [i \in 1 .. n |-> H[i]]
    OBVIOUS
  <2> HIDE DEF H, n
  <2> QED
    BY <2>3, <2>4
<1> HIDE DEF H, n, m, l
<1>7. \A k \in 0 .. n : /\ Upto(k) \in [1 .. k -> Seq(Char)]
                        /\ \A i \in 1 .. k : Upto(k)[i] = H[i]
  <2>1. \A k \in 0 .. n : \A i \in 1 .. k : i \in 1 .. n
    BY <1>1
  <2> QED
    BY <1>6, <2>1, Zenon
<1>8. /\ a \in 0 .. n /\ a + 1 \in 0 .. n /\ (a + 1) + m \in 0 .. n /\ b \in 0 .. n
      /\ a + 1 \in 1 .. n /\ b \in 1 .. n /\ a + 1 \in Nat /\ (a + 1) + m \in Nat
      /\ a + 1 \in 1 .. a + 1 /\ b = ((a + 1) + m) + 1 /\ b \in 1 .. b
  BY <1>1
<1> HIDE DEF b, Upto, Rest
\* In front of the first quote, and with it.
<1>9. FlattenSeq(Upto(a)) = front /\ front \in Seq(Char) /\ Len(front) = a
  <2>1. \A i \in 1 .. a : i \in 1 .. n /\ i \notin {a + 1, b} /\ ~ (a + 1 < i /\ i < b)
    BY <1>1
  <2>2. \A i \in 1 .. a : Upto(a)[i] = <<s[i]>> /\ s[i] \in Char
    BY <1>1, <1>5, <1>7, <1>8, <2>1
  <2>3. front \in [1 .. a -> Char]
    BY <2>2
  <2>4. front \in Seq(Char) /\ Len(front) = a /\ \A i \in 1 .. a : front[i] = s[i]
    <3>1. \A i \in 1 .. a : front[i] = s[i]
      OBVIOUS
    <3> HIDE DEF front
    <3> QED
      BY <2>3, <3>1, SequenceOfLength
  <2> HIDE DEF front
  <2>5. Upto(a) = [i \in 1 .. a |-> Upto(a)[i]]
    BY DEF Upto
  <2>6. Upto(a) = [i \in 1 .. Len(front) |-> <<front[i]>>]
    BY <2>2, <2>4, <2>5
  <2> QED
    BY <2>4, <2>6, FlattenSingles
<1> HIDE DEF front
<1>10. FlattenSeq(Upto(a + 1)) = front
  <2>1. IsJoined(FlattenSeq(Upto(a + 1)), FlattenSeq(Upto(a)), Upto(a + 1)[a + 1])
    <3>1. \A i \in 1 .. a : i \in 1 .. a + 1 /\ Upto(a + 1)[i] = Upto(a)[i]
      <4>1. \A i \in 1 .. a : i \in 1 .. a + 1
        OBVIOUS
      <4> QED
        BY <1>7, <1>8, <4>1
    <3>2. Upto(a) \in [1 .. a -> Seq(Char)] /\ Upto(a + 1) \in [1 .. a + 1 -> Seq(Char)]
      BY <1>7, <1>8
    <3> QED
      BY <3>1, <3>2, FlattenOneMore
  <2>2. Upto(a + 1)[a + 1] = <<>>
    BY <1>5, <1>7, <1>8
  <2>3. front \o <<>> = front
    BY <1>9, ConcatEmptySeq
  <2> QED
    BY <1>9, <2>1, <2>2, <2>3 DEF IsJoined
\* What is between the quotes, and the second quote.
<1>11. Escapes(t) \in [1 .. m -> Seq(Char)] /\ \A i \in 1 .. m : Escapes(t)[i] = Escape(t[i])
  <2>1. \A i \in 1 .. m : t[i] # "quote"
    <3>1. ASSUME NEW i \in 1 .. m
          PROVE  t[i] # "quote"
      <4>1. (a + 1) + i \in 1 .. n /\ (a + 1) + i \notin {a + 1, b}
        BY <1>1
      <4> QED
        BY <1>1, <4>1
    <3> QED
      BY <3>1
  <2>2. Escapes(t) \in [1 .. m -> Seq(Char)]
    BY <2>1, EscapedIsPrefixed DEF m
  <2> QED
    BY <2>2, Zenon DEF Escapes, m
<1>12. IsJoined(FlattenSeq(Upto((a + 1) + m)), front, w) /\ w \in Seq(Char)
  <2>1. /\ Upto(a + 1) \in [1 .. a + 1 -> Seq(Char)]
        /\ Upto((a + 1) + m) \in [1 .. (a + 1) + m -> Seq(Char)]
    BY <1>7, <1>8
  <2>2. \A i \in 1 .. a + 1 : Upto((a + 1) + m)[i] = Upto(a + 1)[i]
    <3>1. \A i \in 1 .. a + 1 : i \in 1 .. (a + 1) + m
      BY <1>1
    <3> QED
      BY <1>7, <1>8, <3>1
  <2>3. ASSUME NEW i \in 1 .. m
        PROVE  Upto((a + 1) + m)[(a + 1) + i] = Escapes(t)[i]
    <3>1. /\ (a + 1) + i \in 1 .. (a + 1) + m /\ (a + 1) + i \in 1 .. n
          /\ (a + 1) + i \notin {a + 1, b} /\ a + 1 < (a + 1) + i /\ (a + 1) + i < b
      BY <1>1
    <3>2. Upto((a + 1) + m)[(a + 1) + i] = H[(a + 1) + i]
      BY <1>7, <1>8, <3>1
    <3>3. H[(a + 1) + i] = Escape(s[(a + 1) + i])
      BY <1>5, <3>1
    <3> QED
      BY <1>1, <1>11, <3>2, <3>3
  <2>4. Follow(Upto((a + 1) + m), Upto(a + 1), a + 1, Escapes(t), m)
    BY <2>2, <2>3 DEF Follow
  <2>5. /\ IsJoined(FlattenSeq(Upto((a + 1) + m)), FlattenSeq(Upto(a + 1)), FlattenSeq(Escapes(t)))
        /\ FlattenSeq(Escapes(t)) \in Seq(Char)
    BY <1>1, <1>8, <1>11, <2>1, <2>4, FlattenBoth
  <2> QED
    BY <1>10, <2>5
<1> HIDE DEF w
<1>13. IsJoined(FlattenSeq(Upto(b)), front, w)
  <2>1. /\ Upto((a + 1) + m) \in [1 .. (a + 1) + m -> Seq(Char)]
        /\ Upto(b) \in [1 .. ((a + 1) + m) + 1 -> Seq(Char)]
    BY <1>7, <1>8
  <2>2. \A i \in 1 .. (a + 1) + m : Upto(b)[i] = Upto((a + 1) + m)[i]
    <3>1. \A i \in 1 .. (a + 1) + m : i \in 1 .. b
      BY <1>1
    <3> QED
      BY <1>7, <1>8, <3>1
  <2>3. /\ FlattenSeq(Upto((a + 1) + m)) \in Seq(Char)
        /\ IsJoined(FlattenSeq(Upto(b)), FlattenSeq(Upto((a + 1) + m)), Upto(b)[((a + 1) + m) + 1])
    BY <1>8, <2>1, <2>2, FlattenOneMore
  <2>4. Upto(b)[((a + 1) + m) + 1] = <<>>
    BY <1>5, <1>7, <1>8
  <2> DEFINE x == FlattenSeq(Upto((a + 1) + m))
  <2>5. x \o <<>> = x
    BY <2>3, ConcatEmptySeq
  <2> QED
    BY <1>12, <2>3, <2>4, <2>5 DEF IsJoined
\* Behind the second quote.
<1>14. Rest \in [1 .. l -> Seq(Char)] /\ FlattenSeq(Rest) = back /\ back \in Seq(Char)
  <2>1. \A i \in 1 .. l : /\ b + i \in 1 .. n /\ b + i \notin {a + 1, b}
                          /\ ~ (a + 1 < b + i /\ b + i < b)
    BY <1>1
  <2>2. \A i \in 1 .. l : Rest[i] = <<s[b + i]>> /\ s[b + i] \in Char
    BY <1>1, <1>5, <2>1 DEF Rest
  <2>3. back \in [1 .. l -> Char]
    BY <2>2
  <2>4. back \in Seq(Char) /\ Len(back) = l /\ \A i \in 1 .. l : back[i] = s[b + i]
    <3>1. \A i \in 1 .. l : back[i] = s[b + i]
      OBVIOUS
    <3> HIDE DEF back
    <3> QED
      BY <1>1, <2>3, <3>1, SequenceOfLength
  <2> HIDE DEF back
  <2>5. Rest = [i \in 1 .. l |-> Rest[i]]
    BY DEF Rest
  <2>6. Rest = [i \in 1 .. Len(back) |-> <<back[i]>>]
    BY <2>2, <2>4, <2>5
  <2>7. Rest \in [1 .. l -> Seq(Char)]
    <3>1. ASSUME NEW i \in 1 .. l
          PROVE  Rest[i] \in Seq(Char)
      <4>1. b + i \in 1 .. n /\ Rest[i] = <<s[b + i]>>
        BY <2>1, <2>2
      <4>2. <<s[b + i]>> \in Seq(Char)
        BY <1>1, <4>1, Zenon
      <4> QED
        BY <4>1, <4>2
    <3> QED
      BY <2>5, <3>1
  <2> QED
    BY <2>4, <2>6, <2>7, FlattenSingles
<1> HIDE DEF back
<1>15. IsJoined(FlattenSeq(H), FlattenSeq(Upto(b)), back)
  <2>1. Upto(b) \in [1 .. b -> Seq(Char)] /\ H \in [1 .. b + l -> Seq(Char)]
    BY <1>1, <1>6, <1>7, <1>8
  <2>2. Follow(H, Upto(b), b, Rest, l)
    <3>1. \A i \in 1 .. b : H[i] = Upto(b)[i]
      BY <1>7, <1>8
    <3>2. \A i \in 1 .. l : H[b + i] = Rest[i]
      BY DEF Rest
    <3> QED
      BY <3>1, <3>2 DEF Follow
  <2>3. IsJoined(FlattenSeq(H), FlattenSeq(Upto(b)), FlattenSeq(Rest))
    BY <1>1, <1>14, <2>1, <2>2, FlattenBoth
  <2> QED
    BY <1>14, <2>3
<1>16. AreJoined(Unquoted(s), front, w, back)
  BY <1>3, <1>13, <1>15 DEF IsJoined, AreJoined
<1> QED
  BY <1>16, Zenon DEF front, back, w, b, l, n, m

\* A text in quotes has its prefixed form in its place.
LEMMA FormattedQuoted ==
  ASSUME NEW u \in Seq(Char), IsQuoted(u), NEW front \in Fronts, NEW back \in Backs,
         NEW x, NEW before, AreJoined(x, front, u, back),
         back # <<>> => Enclosed(u)[Len(Enclosed(u))] # "comma"
  PROVE  /\ Enclosed(u) \in Seq(Char) /\ Enclosed(u) # <<>>
         /\ LET w == FlattenSeq(Escapes(Enclosed(u))) IN
            /\ w \in Seq(Char) /\ w # <<>> /\ IsPrefixed(w) /\ Meant(w) = Enclosed(u)
            /\ back # <<>> => w[Len(w)] # "comma"
            /\ AreJoined(FormattedArguments(x, before), front, w, back)
<1> DEFINE a == Len(front)
           t == Enclosed(u)
           m == Len(t)
           n == Len(x)
           w == FlattenSeq(Escapes(t))
<1>1. /\ Len(u) \in Nat /\ Len(u) > 2 /\ u # <<>> /\ u[1] = "quote" /\ u[Len(u)] = "quote"
      /\ \A i \in 2 .. Len(u) - 1 : u[i] # "quote"
      /\ \A i \in 1 .. Len(u) : u[i] \in Char
  BY DEF IsQuoted, Last
<1>2. /\ t \in Seq(Char) /\ m = Len(u) - 2 /\ t # <<>>
      /\ \A i \in 1 .. m : t[i] = u[i + 1]
  <2>1. t = SubSeq(u, 2, Len(u) - 1)
    BY DEF Enclosed
  <2>2. \A i \in 2 .. Len(u) - 1 : u[i] \in Char
    BY <1>1
  <2> HIDE DEF t
  <2>3. /\ SubSeq(u, 2, Len(u) - 1) \in Seq(Char)
        /\ Len(SubSeq(u, 2, Len(u) - 1)) = IF 2 <= Len(u) - 1 THEN ((Len(u) - 1) - 2) + 1 ELSE 0
        /\ \A i \in 1 .. ((Len(u) - 1) - 2) + 1 : SubSeq(u, 2, Len(u) - 1)[i] = u[(2 + i) - 1]
    <3>1. 2 \in Int /\ Len(u) - 1 \in Int
      BY <1>1
    <3> QED
      BY <2>2, <3>1, SubSeqProperties
  <2>4. m = Len(u) - 2
    BY <1>1, <2>1, <2>3
  <2>5. \A i \in 1 .. m : t[i] = u[i + 1]
    <3>1. \A i \in 1 .. m : i \in 1 .. ((Len(u) - 1) - 2) + 1 /\ (2 + i) - 1 = i + 1
      BY <1>1, <2>4
    <3> QED
      BY <2>1, <2>3, <3>1
  <2>6. t # <<>>
    <3>1. Len(<<>>) = 0 /\ Len(u) - 2 # 0
      BY <1>1
    <3> QED
      BY <2>4, <3>1
  <2> QED
    BY <2>1, <2>3, <2>4, <2>5, <2>6
<1>3. \A i \in 1 .. m : t[i] # "quote"
  <2>1. \A i \in 1 .. m : i + 1 \in 2 .. Len(u) - 1
    BY <1>1, <1>2
  <2> QED
    BY <1>1, <1>2, <2>1
<1> HIDE DEF t
<1>4. /\ Escapes(t) \in [1 .. m -> Seq(Char)] /\ w \in Seq(Char) /\ IsPrefixed(w)
      /\ Meant(w) = t /\ w # <<>>
  BY <1>2, <1>3, EscapedIsPrefixed
<1> HIDE DEF w
<1>5. back # <<>> => w[Len(w)] # "comma"
  <2>1. Last(Meant(w)) = w[Len(w)]
    BY <1>4, LastMeant
  <2> QED
    BY <1>4, <2>1 DEF Last, t
<1>6. Around(x, front, u, back)
  BY <1>1, JoinedAround
<1>7. /\ x \in Seq(Char) /\ x # <<>> /\ n = (a + Len(u)) + Len(back)
      /\ a \in {0, 2} /\ Len(back) \in {0, 2}
      /\ a = 2 => x[1] = "letter" /\ x[2] = "comma"
      /\ Len(back) = 2 => x[(a + Len(u)) + 1] = "comma" /\ x[(a + Len(u)) + 2] = "letter"
      /\ \A i \in 1 .. Len(u) : x[a + i] = u[i]
  BY <1>6 DEF Around
<1> DEFINE b == a + Len(u)
<1> HIDE DEF a, m, n
<1>8. /\ b \in Nat /\ a + 1 < b /\ b \in 1 .. n /\ a + 1 \in 1 .. n /\ n \in Nat /\ n >= 3
      /\ b = a + m + 2 /\ n = b + Len(back)
  BY <1>1, <1>2, <1>7 DEF m
<1>9. ASSUME NEW k \in 1 .. n
      PROVE  x[k] = "quote" <=> k \in {a + 1, b}
  <2>1. \/ a = 2 /\ k = 1
        \/ a = 2 /\ k = 2
        \/ k - a \in 1 .. Len(u) /\ a + (k - a) = k
        \/ Len(back) = 2 /\ k = b + 1
        \/ Len(back) = 2 /\ k = b + 2
    <3> DEFINE g == Len(u)
               l == Len(back)
    <3>1. k \in 1 .. (a + g) + l /\ g \in Nat
      BY <1>1, <1>7
    <3>2. (a = 0 \/ a = 2) /\ (l = 0 \/ l = 2) /\ k \in Int
      BY <1>7, <1>8
    <3> HIDE DEF g, l
    <3>3. \/ a = 2 /\ k = 1
          \/ a = 2 /\ k = 2
          \/ k - a \in 1 .. g /\ a + (k - a) = k
          \/ l = 2 /\ k = (a + g) + 1
          \/ l = 2 /\ k = (a + g) + 2
      <4>1. k >= 1 /\ k <= (a + g) + l
        BY <3>1
      <4>2. CASE a = 0 /\ l = 0
        BY <3>1, <3>2, <4>1, <4>2
      <4>3. CASE a = 0 /\ l = 2
        BY <3>1, <3>2, <4>1, <4>3
      <4>4. CASE a = 2 /\ l = 0
        BY <3>1, <3>2, <4>1, <4>4
      <4>5. CASE a = 2 /\ l = 2
        BY <3>1, <3>2, <4>1, <4>5
      <4> QED
        BY <3>2, <4>2, <4>3, <4>4, <4>5
    <3> QED
      BY <3>3 DEF b, g, l
  <2>2. CASE k - a \in 1 .. Len(u) /\ a + (k - a) = k
    <3>1. x[k] = u[k - a]
      BY <1>7, <2>2
    <3>2. u[k - a] = "quote" <=> k - a = 1 \/ k - a = Len(u)
      <4>1. k - a = 1 \/ k - a = Len(u) \/ k - a \in 2 .. Len(u) - 1
        BY <1>1, <2>2
      <4>2. k - a \in 2 .. Len(u) - 1 => k - a # 1 /\ k - a # Len(u)
        BY <1>1
      <4> QED
        BY <1>1, <4>1, <4>2
    <3>3. (k - a = 1 \/ k - a = Len(u)) <=> k \in {a + 1, b}
      BY <1>1, <1>7, <2>2
    <3> QED
      BY <3>1, <3>2, <3>3
  <2>3. CASE a = 2 /\ (k = 1 \/ k = 2)
    <3>1. k # a + 1 /\ k # b
      BY <1>8, <2>3
    <3> QED
      BY <1>7, <2>3, <3>1
  <2>4. CASE Len(back) = 2 /\ (k = b + 1 \/ k = b + 2)
    <3>1. k # a + 1 /\ k # b
      BY <1>8, <2>4
    <3> QED
      BY <1>7, <2>4, <3>1
  <2> QED
    BY <2>1, <2>2, <2>3, <2>4
<1>10. /\ a \in Nat /\ Enclosing(x, a, t)
       /\ \A i \in 1 .. m : x[(a + 1) + i] = t[i]
  <2>1. a \in Nat /\ b = a + Len(t) + 2 /\ b <= n
    BY <1>7, <1>8 DEF m
  <2>2. ASSUME NEW i \in 1 .. m
        PROVE  x[(a + 1) + i] = t[i]
    <3>1. i + 1 \in 1 .. Len(u) /\ (a + 1) + i = a + (i + 1)
      BY <1>1, <1>2, <1>7 DEF m
    <3> QED
      BY <1>2, <1>7, <3>1 DEF m
  <2> HIDE DEF b
  <2>3. Enclosing(x, a, t)
    BY <1>9, <2>1, <2>2 DEF Enclosing, m, n
  <2> QED
    BY <2>1, <2>2, <2>3
<1> HIDE DEF b
\* The passes over quotes and ends find nothing to do.
<1> DEFINE M == Marked(x)
<1>11. /\ M \in Seq(Content) /\ Len(M) = n /\ Restored(M) = x
       /\ \A i \in 1 .. n : x[i] # "backslash" => M[i] = x[i]
       /\ \A i \in 1 .. n : x[i] = "backslash" => M[i] \in {"mark", "backslash"}
  BY <1>7, MarkedText DEF n
<1> HIDE DEF M
<1>12. WithoutDoubled("quote", x) = x
  <2>1. ASSUME NEW i \in 1 .. n - 1, x[i] = "quote", x[i + 1] = "quote"
        PROVE  FALSE
    <3>1. i \in 1 .. n /\ i + 1 \in 1 .. n
      BY <1>8
    <3>2. i \in {a + 1, b} /\ i + 1 \in {a + 1, b}
      BY <1>9, <2>1, <3>1
    <3>3. a + 1 + 1 # b
      BY <1>1, <1>7 DEF b
    <3> QED
      BY <1>7, <1>8, <3>1, <3>2, <3>3
  <2> QED
    BY <1>7, <2>1, WithoutDoubledKeeps DEF n
<1>13. Trimmed(M, before) = M
  <2>1. M # <<>>
    <3>1. Len(<<>>) = 0
      OBVIOUS
    <3> QED
      BY <1>8, <1>11, <3>1
  <2>2. x[1] \in {"letter", "quote"} /\ x[n] \in {"letter", "quote"}
    <3>1. x[1] \in {"letter", "quote"}
      <4>1. a = 0 => 1 \in 1 .. n /\ 1 = a + 1
        BY <1>8
      <4> QED
        BY <1>7, <1>9, <4>1
    <3>2. x[n] \in {"letter", "quote"}
      <4>1. CASE Len(back) = 2
        BY <1>7, <4>1
      <4>2. CASE Len(back) = 0
        <5>1. n = b /\ n \in 1 .. n
          BY <1>8, <4>2
        <5> QED
          BY <1>9, <5>1
      <4> QED
        BY <1>7, <4>1, <4>2
    <3> QED
      BY <3>1, <3>2
  <2>3. M[1] \notin Separator /\ M[n] \notin Separator
    <3>1. 1 \in 1 .. n /\ n \in 1 .. n
      BY <1>8
    <3> QED
      BY <1>11, <2>2, <3>1 DEF Separator
  <2> QED
    BY <1>11, <2>1, <2>3, TrimmedKeeps
<1>14. QuotesBefore(M, Len(M)) = 2
  <2>1. \A i \in 1 .. n : M[i] = "quote" <=> x[i] = "quote"
    BY <1>11
  <2>2. {j \in 1 .. n : M[j] = "quote"} = {j \in 1 .. n : x[j] = "quote"}
    BY <2>1
  <2>3. QuotesBefore(M, n) = QuotesBefore(x, n)
    BY <2>2 DEF QuotesBefore
  <2>4. n \in 0 .. Len(x)
    BY <1>8 DEF n
  <2>5. QuotesBefore(x, n) = IF n <= a THEN 0 ELSE IF n <= a + Len(t) + 1 THEN 1 ELSE 2
    BY <1>2, <1>7, <1>10, <2>4, QuotesUpTo
  <2>6. ~ (n <= a) /\ ~ (n <= a + Len(t) + 1)
    BY <1>8, <1>10 DEF m
  <2> QED
    BY <1>11, <2>3, <2>5, <2>6
\* The quotes are left out, and what they enclose is escaped.
<1> DEFINE y == Unquoted(x)
<1>15. AreJoined(y, front, w, back)
  <2> DEFINE front2 == [i \in 1 .. a |-> x[i]]
             c == a + Len(t) + 2
             back2 == [i \in 1 .. Len(x) - c |-> x[c + i]]
  <2>1. AreJoined(Unquoted(x), front2, FlattenSeq(Escapes(t)), back2)
    BY <1>2, <1>7, <1>10, UnquotedText
  <2>2. c = b /\ Len(x) - c = Len(back)
    <3>1. c = b
      BY <1>8 DEF m
    <3>2. Len(back) \in Nat
      BY <1>7
    <3> QED
      BY <1>8, <3>1, <3>2 DEF n
  <2>3. front2 = front
    <3>1. CASE front = <<>>
      <4>1. 1 .. a = {}
        BY <3>1 DEF a
      <4>2. front2 = <<>>
        BY <4>1
      <4> QED
        BY <3>1, <4>2
    <3>2. CASE front = <<"letter", "comma">>
      <4>1. a = 2
        BY <3>2 DEF a
      <4>2. front2 = [i \in 1 .. 2 |-> x[i]] /\ x[1] = "letter" /\ x[2] = "comma"
        BY <1>7, <4>1
      <4> QED
        BY <3>2, <4>2
    <3> QED
      BY <3>1, <3>2 DEF Fronts
  <2>4. back2 = [i \in 1 .. Len(back) |-> x[b + i]]
    BY <2>2, Zenon
  <2> HIDE DEF back2, c
  <2>5. back2 = back
    <3>1. CASE back = <<>>
      <4>1. 1 .. Len(back) = {}
        BY <3>1
      <4>2. back2 = <<>>
        BY <2>4, <4>1
      <4> QED
        BY <3>1, <4>2
    <3>2. CASE back = <<"comma", "letter">>
      <4>1. Len(back) = 2
        BY <3>2
      <4>2. x[b + 1] = "comma" /\ x[b + 2] = "letter"
        BY <1>7, <4>1 DEF b
      <4>3. back2 = [i \in 1 .. 2 |-> x[b + i]]
        BY <2>4, <4>1
      <4> QED
        BY <3>2, <4>2, <4>3
    <3> QED
      BY <3>1, <3>2 DEF Backs
  <2> QED
    BY <2>1, <2>3, <2>5 DEF w
<1> HIDE DEF y
<1>16. Around(y, front, w, back)
  BY <1>4, <1>15, JoinedAround
<1>17. Len(back) = 2 <=> back # <<>>
  <2>1. CASE back = <<>>
    BY <2>1
  <2>2. CASE back = <<"comma", "letter">>
    <3>1. Len(<<"comma", "letter">>) = 2 /\ Len(<<>>) = 0
      OBVIOUS
    <3> QED
      BY <2>2, <3>1
  <2> QED
    BY <2>1, <2>2 DEF Backs
<1>18. /\ a \in Nat /\ Placed(y, a, w)
       /\ \A i \in 1 .. Len(y) - 1 : ~ (y[i] = "comma" /\ y[i + 1] = "comma")
       /\ \A i \in 1 .. Len(y) : y[i] = "space" => a < i /\ i <= a + Len(w)
  BY <1>4, <1>5, <1>16, <1>17, PrefixedAround DEF a
<1>19. y \in Seq(Char) /\ y # <<>>
  BY <1>16 DEF Around
<1>20. Restored(WithoutSpaces(WithoutDoubled("comma", Marked(y)), before)) = y
  BY <1>4, <1>18, <1>19, CommasAndSpacesKept
<1>21. FormattedArguments(x, before) = y
  <2>1. QuotesBefore(M, Len(M)) % 2 = 0
    BY <1>14
  <2>2. FormattedArguments(x, before) =
          Restored(WithoutSpaces(WithoutDoubled("comma", Marked(y)), before))
    BY <1>11, <1>12, <1>13, <1>19, <2>1, Zenon DEF FormattedArguments, M, y
  <2> QED
    BY <1>20, <2>2
<1> QED
  BY <1>2, <1>4, <1>5, <1>15, <1>21, Zenon DEF t, w

\* The command, the space behind it and the arguments of a line.
LEMMA CommandAndArguments ==
  ASSUME NEW x \in Seq(Char), x # <<>>, NEW cmd, IsJoined(cmd, <<"letter", "space">>, x)
  PROVE  /\ cmd \in Seq(Char) /\ Len(cmd) = Len(x) + 2
         /\ cmd[1] = "letter" /\ cmd[2] = "space"
         /\ \A i \in 1 .. Len(x) : cmd[2 + i] = x[i]
         /\ WithoutLeadingSpaces(cmd) = cmd /\ CommandEnd(cmd) = 2
         /\ SubSeq(cmd, 1, 1) = <<"letter">> /\ SubSeq(cmd, 3, Len(cmd)) = x
<1> DEFINE c == <<"letter", "space">>
           n == Len(x)
<1>1. c \in Seq(Char) /\ Len(c) = 2 /\ c[1] = "letter" /\ c[2] = "space"
  <2>1. \A d, e \in Char : <<d, e>> \in Seq(Char) /\ Len(<<d, e>>) = 2
    <3> HIDE DEF Char
    <3> QED
      OBVIOUS
  <2> QED
    BY <2>1 DEF Char
<1> HIDE DEF c
<1>2. /\ c \o x \in Seq(Char) /\ Len(c \o x) = 2 + n
      /\ \A i \in 1 .. 2 + n : (c \o x)[i] = IF i <= 2 THEN c[i] ELSE x[i - 2]
  <2>1. /\ c \o x \in Seq(Char) /\ Len(c \o x) = Len(c) + n
        /\ \A i \in 1 .. Len(c) + n : (c \o x)[i] = IF i <= Len(c) THEN c[i] ELSE x[i - Len(c)]
    BY <1>1, ConcatProperties
  <2> HIDE DEF n
  <2> QED
    BY <1>1, <2>1
<1>3. cmd = c \o x
  BY DEF IsJoined, c
<1>4. n \in Nat /\ n >= 1
  OBVIOUS
<1>5. /\ cmd \in Seq(Char) /\ Len(cmd) = n + 2 /\ DOMAIN cmd = 1 .. n + 2
      /\ cmd[1] = "letter" /\ cmd[2] = "space"
      /\ \A i \in 1 .. n : cmd[2 + i] = x[i]
  <2>1. 1 \in 1 .. 2 + n /\ 2 \in 1 .. 2 + n /\ 2 + n = n + 2
        /\ \A i \in 1 .. n : 2 + i \in 1 .. 2 + n /\ ~ (2 + i <= 2) /\ (2 + i) - 2 = i
    BY <1>4
  <2>2. cmd \in Seq(Char) /\ Len(cmd) = n + 2
    BY <1>2, <1>3, <2>1
  <2>3. DOMAIN cmd = 1 .. n + 2
    BY <2>2
  <2> HIDE DEF n
  <2> QED
    BY <1>1, <1>2, <1>3, <2>1, <2>2, <2>3
<1> HIDE DEF n
<1>6. WithoutLeadingSpaces(cmd) = cmd
  <2> DEFINE kept == {i \in DOMAIN cmd : cmd[i] # "space"}
             first == CHOOSE i \in kept : \A j \in kept : i <= j
  <2>1. 1 \in kept /\ \A j \in kept : 1 <= j
    BY <1>4, <1>5
  <2>2. \A i \in kept : i \in Int
    BY <1>4, <1>5
  <2> HIDE DEF kept
  <2>3. first \in kept /\ \A j \in kept : first <= j
    BY <2>1, Zenon
  <2>4. kept # {}
    BY <2>1
  <2> HIDE DEF first
  <2>5. first = 1
    BY <2>1, <2>2, <2>3
  <2>6. WithoutLeadingSpaces(cmd) = SubSeq(cmd, first, Len(cmd))
    BY <2>4, Zenon DEF WithoutLeadingSpaces, kept, first
  <2> QED
    BY <1>5, <2>5, <2>6, SubSeqFull
<1>7. CommandEnd(cmd) = 2
  <2> DEFINE ends == {i \in DOMAIN cmd : cmd[i] = "space"} \cup {Len(cmd) + 1}
             first == CHOOSE i \in ends : \A j \in ends : i <= j
  <2>1. 2 \in ends /\ \A j \in ends : 2 <= j /\ j \in Int
    <3>1. ASSUME NEW j \in ends
          PROVE  2 <= j /\ j \in Int
      <4>1. CASE j = Len(cmd) + 1
        BY <1>4, <1>5, <4>1
      <4>2. CASE j \in 1 .. n + 2 /\ cmd[j] = "space"
        <5>1. j # 1
          BY <1>5, <4>2
        <5> QED
          BY <1>4, <4>2, <5>1
      <4> QED
        BY <1>5, <4>1, <4>2
    <3>2. 2 \in ends
      BY <1>4, <1>5
    <3> QED
      BY <3>1, <3>2
  <2> HIDE DEF ends
  <2>2. first \in ends /\ \A j \in ends : first <= j
    BY <2>1, Zenon
  <2>3. CommandEnd(cmd) = first
    BY Zenon DEF CommandEnd, ends, first
  <2> HIDE DEF first
  <2> QED
    BY <2>1, <2>2, <2>3
<1>8. SubSeq(cmd, 1, 1) = <<"letter">>
  <2> DEFINE s == SubSeq(cmd, 1, 1)
  <2>1. \A i \in 1 .. 1 : cmd[i] \in Char
    BY <1>5 DEF Char
  <2>2. s \in Seq(Char) /\ Len(s) = 1 /\ s[1] = "letter"
    <3>1. /\ s \in Seq(Char)
          /\ Len(s) = IF 1 <= 1 THEN (1 - 1) + 1 ELSE 0
          /\ \A i \in 1 .. (1 - 1) + 1 : s[i] = cmd[(1 + i) - 1]
      BY <2>1, SubSeqProperties
    <3>2. Len(s) = 1 /\ s[1] = cmd[(1 + 1) - 1] /\ (1 + 1) - 1 = 1
      BY <3>1
    <3> QED
      BY <1>5, <3>1, <3>2
  <2> HIDE DEF s
  <2>3. s = <<"letter">>
    BY <2>2
  <2> QED
    BY <2>3 DEF s
<1>9. SubSeq(cmd, 3, Len(cmd)) = x
  <2> DEFINE s == SubSeq(cmd, 3, Len(cmd))
             e == Len(cmd)
  <2>1. e \in Int /\ e = n + 2 /\ 3 \in Int
    BY <1>4, <1>5
  <2>2. \A i \in 3 .. e : cmd[i] \in Char
    BY <1>4, <1>5, <2>1
  <2>3. /\ s \in Seq(Char)
        /\ Len(s) = IF 3 <= e THEN (e - 3) + 1 ELSE 0
        /\ \A i \in 1 .. (e - 3) + 1 : s[i] = cmd[(3 + i) - 1]
    BY <2>1, <2>2, SubSeqProperties
  <2> HIDE DEF s, e
  <2>4. Len(s) = n
    BY <1>4, <2>1, <2>3
  <2>5. \A i \in 1 .. n : s[i] = x[i]
    <3>1. \A i \in 1 .. n : i \in 1 .. (e - 3) + 1 /\ (3 + i) - 1 = 2 + i
      BY <1>4, <2>1
    <3> QED
      BY <1>5, <2>3, <3>1
  <2>6. s = x
    BY <2>3, <2>4, <2>5, SeqEqual DEF n
  <2> QED
    BY <2>6 DEF s, e
<1> QED
  BY <1>5, <1>6, <1>7, <1>8, <1>9 DEF n

\* argformat of such a line formats its arguments.
LEMMA FormattedLine ==
  ASSUME NEW x \in Seq(Char), x # <<>>, NEW cmd, IsJoined(cmd, <<"letter", "space">>, x),
         NEW before, FormattedArguments(x, before) # <<>>
  PROVE  IsJoined(argformat(cmd, before), <<"letter", "space">>, FormattedArguments(x, before))
<1>1. /\ Len(cmd) = Len(x) + 2 /\ WithoutLeadingSpaces(cmd) = cmd /\ CommandEnd(cmd) = 2
      /\ SubSeq(cmd, 1, 1) = <<"letter">> /\ SubSeq(cmd, 3, Len(cmd)) = x
  BY CommandAndArguments
<1> DEFINE y == FormattedArguments(x, before)
<1>2. 2 - 1 = 1 /\ 2 + 1 = 3
  OBVIOUS
<1> HIDE DEF y
<1>3. argformat(cmd, before) = (<<"letter">> \o <<"space">>) \o y
  <2>1. FormattedArguments(SubSeq(cmd, CommandEnd(cmd) + 1, Len(cmd)), before) = y
    BY <1>1, <1>2 DEF y
  <2>2. SubSeq(cmd, 1, CommandEnd(cmd) - 1) = <<"letter">>
    BY <1>1, <1>2
  <2> QED
    BY <1>1, <2>1, <2>2, Zenon DEF argformat, y
<1>4. IsJoined(<<"letter", "space">>, <<"letter">>, <<"space">>)
  <2>1. "letter" \in Char /\ "space" \in Char
    BY DEF Char
  <2> QED
    BY <2>1, PairIsJoined
<1> QED
  BY <1>3, <1>4, Zenon DEF IsJoined, y

-----------------------------------------------------------------------------
(* Arguments: how the arguments are read.                                   *)

\* The commas that separate arguments are those outside of a prefixed text.
LEMMA CommasPlaced ==
  ASSUME NEW s \in Seq(Char), NEW w \in Seq(Char), w # <<>>, NEW a \in Nat,
         Placed(s, a, w), IsPrefixed(w)
  PROVE  Commas(Marked(s)) =
           {k \in 1 .. Len(s) : s[k] = "comma" /\ ~ (a < k /\ k <= a + Len(w))}
<1> DEFINE M == Marked(s)
           m == Len(w)
<1>1. /\ M \in Seq(Content) /\ Len(M) = Len(s)
      /\ \A i \in 1 .. Len(s) : s[i] # "backslash" => M[i] = s[i]
      /\ \A i \in 1 .. Len(s) : s[i] = "backslash" => M[i] \in {"mark", "backslash"}
      /\ \A i \in 1 .. Len(s) : M[i] = "backslash" => s[i] = "backslash"
  BY MarkedText
<1>2. /\ a + m <= Len(s) /\ Len(s) \in Nat /\ m \in Nat
      /\ \A i \in 1 .. m : s[a + i] = w[i]
      /\ \A i \in 1 .. Len(s) : s[i] = "backslash" => a < i /\ i <= a + m
  BY DEF Placed
<1>3. /\ \A i \in 1 .. m : w[i] \in Separator => i > 1 /\ M[(a + i) - 1] = "backslash"
      /\ M[a + m] # "backslash"
  BY MarkedPlaced
<1>4. DOMAIN M = 1 .. Len(s)
  BY <1>1
<1> HIDE DEF M, m
<1>5. Commas(M) = {k \in 1 .. Len(s) : M[k] = "comma" /\ CharAt(M, k - 1) # "backslash"}
  BY <1>4 DEF Commas
<1>6. ASSUME NEW k \in 1 .. Len(s)
      PROVE  M[k] = "comma" /\ CharAt(M, k - 1) # "backslash" <=>
               s[k] = "comma" /\ ~ (a < k /\ k <= a + m)
  <2>1. M[k] = "comma" <=> s[k] = "comma"
    BY <1>1
  <2>2. k - 1 \in 1 .. Len(s) => CharAt(M, k - 1) = M[k - 1]
    BY <1>4 DEF CharAt
  <2>3. k - 1 \notin 1 .. Len(s) => CharAt(M, k - 1) # "backslash"
    BY <1>4 DEF CharAt
  <2>4. CASE s[k] = "comma" /\ a < k /\ k <= a + m
    <3>1. k - a \in 1 .. m /\ a + (k - a) = k
      BY <1>2, <2>4
    <3>2. w[k - a] \in Separator
      BY <1>2, <2>4, <3>1 DEF Separator
    <3>3. M[k - 1] = "backslash" /\ k - 1 \in 1 .. Len(s)
      BY <1>2, <1>3, <3>1, <3>2
    <3> QED
      BY <2>2, <2>4, <3>3
  <2>5. CASE s[k] = "comma" /\ ~ (a < k /\ k <= a + m)
    <3>1. CASE k - 1 \in 1 .. Len(s)
      <4>1. M[k - 1] # "backslash"
        <5>1. CASE k - 1 = a + m
          BY <1>3, <5>1
        <5>2. CASE k - 1 # a + m
          <6>1. ~ (a < k - 1 /\ k - 1 <= a + m)
            BY <1>2, <2>5, <5>2
          <6> QED
            BY <1>1, <1>2, <3>1, <6>1
        <5> QED
          BY <5>1, <5>2
      <4> QED
        BY <2>1, <2>2, <2>5, <3>1, <4>1
    <3> QED
      BY <2>1, <2>3, <2>5, <3>1
  <2> QED
    BY <2>1, <2>4, <2>5
<1>7. Commas(M) = {k \in 1 .. Len(s) : s[k] = "comma" /\ ~ (a < k /\ k <= a + m)}
  BY <1>5, <1>6
<1> QED
  BY <1>7 DEF M, m

\* Which commas separate the arguments around a prefixed text.
LEMMA CommasAround ==
  ASSUME NEW w \in Seq(Char), w # <<>>, IsPrefixed(w), NEW front, NEW back, NEW x,
         Around(x, front, w, back), Placed(x, Len(front), w)
  PROVE  \A k \in Int : k \in Commas(Marked(x)) <=>
           \/ Len(front) = 2 /\ k = 2
           \/ Len(back) = 2 /\ k = (Len(front) + Len(w)) + 1
<1> DEFINE a == Len(front)
           m == Len(w)
           b == a + m
           l == Len(back)
<1>1. /\ x \in Seq(Char) /\ Len(x) = b + l
      /\ a \in {0, 2} /\ l \in {0, 2} /\ m \in Nat /\ m >= 1
      /\ a = 2 => x[1] = "letter" /\ x[2] = "comma"
      /\ l = 2 => x[b + 1] = "comma" /\ x[b + 2] = "letter"
  BY DEF Around
<1>2. a \in Nat
  BY <1>1
<1>3. Commas(Marked(x)) = {k \in 1 .. Len(x) : x[k] = "comma" /\ ~ (a < k /\ k <= b)}
  BY <1>1, <1>2, CommasPlaced
<1> HIDE DEF a, m, l
<1>4. ASSUME NEW k \in Int
      PROVE  k \in Commas(Marked(x)) <=> (a = 2 /\ k = 2) \/ (l = 2 /\ k = b + 1)
  <2>1. ASSUME k \in Commas(Marked(x))
        PROVE  (a = 2 /\ k = 2) \/ (l = 2 /\ k = b + 1)
    <3>1. k \in 1 .. b + l /\ x[k] = "comma" /\ ~ (a < k /\ k <= b)
      BY <1>1, <1>3, <2>1
    <3>2. (a = 2 /\ k = 1) \/ (a = 2 /\ k = 2) \/ (l = 2 /\ k = b + 1) \/ (l = 2 /\ k = b + 2)
      BY <1>1, <3>1
    <3> QED
      BY <1>1, <3>1, <3>2
  <2>2. ASSUME (a = 2 /\ k = 2) \/ (l = 2 /\ k = b + 1)
        PROVE  k \in Commas(Marked(x))
    <3>1. k \in 1 .. Len(x) /\ ~ (a < k /\ k <= b)
      BY <1>1, <2>2
    <3> QED
      BY <1>1, <1>3, <2>2, <3>1
  <2> QED
    BY <2>1, <2>2
<1> QED
  BY <1>4 DEF a, m, l

\* Around what is meant, the separating comma is a nul when the arguments are read.
LEMMA UnescapedAround ==
  ASSUME NEW w \in Seq(Char), w # <<>>, IsPrefixed(w), NEW front, NEW back, NEW x,
         Around(x, front, w, back), Placed(x, Len(front), w)
  PROVE  \E f, g \in Seq(Content) :
           /\ AreJoined(Unescaped(x), f, Meant(w), g)
           /\ Len(f) = Len(front) /\ Len(g) = Len(back)
           /\ Len(f) = 2 => f[1] = "letter" /\ f[2] = "nul"
           /\ Len(g) = 2 => g[1] = "nul" /\ g[2] = "letter"
<1> DEFINE a == Len(front)
           m == Len(w)
           b == a + m
           l == Len(back)
           n == Len(x)
           M == Marked(x)
           K == Commas(M)
           N == [i \in 1 .. n |-> IF i \in K THEN "nul" ELSE M[i]]
           z == Restored(N)
           P == Protects(w)
<1>1. /\ x \in Seq(Char) /\ n = b + l
      /\ a \in {0, 2} /\ l \in {0, 2} /\ m \in Nat /\ m >= 1
      /\ a = 2 => x[1] = "letter" /\ x[2] = "comma"
      /\ l = 2 => x[b + 1] = "comma" /\ x[b + 2] = "letter"
      /\ \A i \in 1 .. m : x[a + i] = w[i] /\ w[i] \in Char
  BY DEF Around
<1>2. a \in Nat /\ b \in Nat /\ n \in Nat /\ \A i \in 1 .. n : x[i] \in Char
  BY <1>1
<1>3. \A k \in Int : k \in K <=> (a = 2 /\ k = 2) \/ (l = 2 /\ k = b + 1)
  BY CommasAround
<1>4. M \in Seq(Content) /\ Len(M) = n /\ Restored(M) = x
  BY <1>1, MarkedText
<1>5. \A i \in 1 .. n : x[i] = "backslash" => a < i /\ i <= b
  BY DEF Placed
<1>6. P \subseteq 1 .. m /\ \A i \in P : i + 1 \in 1 .. m /\ w[i + 1] \in Special
  BY ProtectsRule, PrefixedText
<1> HIDE DEF K, M, a, m, l, n, P
\* The text with the commas zeroed.
<1>7. /\ z \in Seq(Content) /\ Len(z) = n
      /\ \A i \in 1 .. n : z[i] = IF i \in K THEN "nul" ELSE x[i]
  <2>1. \A i \in 1 .. n : M[i] \in Content
    BY <1>4
  <2>2. N \in [1 .. n -> Content]
    BY <2>1 DEF Content
  <2>3. \A i \in 1 .. n : N[i] = IF i \in K THEN "nul" ELSE M[i]
    OBVIOUS
  <2> HIDE DEF N
  <2>4. N \in Seq(Content) /\ Len(N) = n
    BY <1>2, <2>2, SequenceOfLength
  <2>5. \A i \in 1 .. n : x[i] = IF M[i] = "mark" THEN "backslash" ELSE M[i]
    <3>1. Restored(M) = [i \in 1 .. n |-> IF M[i] = "mark" THEN "backslash" ELSE M[i]]
      BY <1>4 DEF Restored, ReplaceAll
    <3> QED
      BY <1>4, <3>1
  <2>6. z = [i \in 1 .. n |-> IF N[i] = "mark" THEN "backslash" ELSE N[i]]
    BY <2>4 DEF Restored, ReplaceAll
  <2> HIDE DEF z
  <2>7. \A i \in 1 .. n : z[i] = IF i \in K THEN "nul" ELSE x[i]
    BY <2>3, <2>5, <2>6
  <2>8. \A i \in 1 .. n : z[i] \in Content
    BY <1>2, <2>7 DEF Content
  <2>9. z = [i \in 1 .. n |-> z[i]]
    BY <2>6
  <2>10. z \in [1 .. n -> Content]
    BY <2>8, <2>9
  <2> QED
    BY <1>2, <2>7, <2>10, SequenceOfLength
<1>8. Unescaped(x) = FlattenSeq([i \in 1 .. n |->
        IF i \in Protects(z) /\ CharAt(z, i + 1) \in Separator \cup {"backslash"}
        THEN <<>> ELSE <<z[i]>>])
  <2>1. DOMAIN x = 1 .. n
    BY <1>1 DEF n
  <2>2. DOMAIN z = 1 .. n
    BY <1>7
  <2>3. z = Restored([i \in DOMAIN x |-> IF i \in Commas(Marked(x)) THEN "nul" ELSE Marked(x)[i]])
    BY <2>1 DEF K, M
  <2> HIDE DEF z
  <2> QED
    BY <2>2, <2>3, Zenon DEF Unescaped
<1> HIDE DEF N, z
<1>9. \A i \in 1 .. m : a + i \in 1 .. n /\ a + i \in Int /\ a + i \notin K /\ z[a + i] = w[i]
  <2>1. \A i \in 1 .. m : a + i \in 1 .. n /\ a + i \in Int /\ a + i # b + 1
                          /\ (a = 2 => a + i # 2)
    BY <1>1
  <2> QED
    BY <1>1, <1>3, <1>7, <2>1
<1>10. Placed(z, a, w)
  <2>1. b <= Len(z)
    BY <1>1, <1>7
  <2>2. \A i \in 1 .. Len(z) : z[i] = "backslash" => a < i /\ i <= b
    BY <1>5, <1>7
  <2> QED
    BY <1>9, <2>1, <2>2 DEF Placed, m
<1>11. Protects(z) = {a + i : i \in P}
  BY <1>2, <1>7, <1>10, ProtectsPlaced DEF P
<1> DEFINE H == [i \in 1 .. n |->
                   IF i \in Protects(z) /\ CharAt(z, i + 1) \in Separator \cup {"backslash"}
                   THEN <<>> ELSE <<z[i]>>]
<1>12. \A i \in 1 .. n : H[i] = IF i \in Protects(z) /\ CharAt(z, i + 1) \in Special
                                THEN <<>> ELSE <<z[i]>>
  BY Zenon DEF Special
<1>13. H \in [1 .. n -> Seq(Content)]
  <2>1. \A i \in 1 .. n : z[i] \in Content
    BY <1>7
  <2>2. <<>> \in Seq(Content) /\ \A c \in Content : <<c>> \in Seq(Content)
    <3> HIDE DEF Content
    <3> QED
      OBVIOUS
  <2> QED
    BY <2>1, <2>2, Zenon
<1> HIDE DEF H
<1>14. \A i \in 1 .. n : ~ (a < i /\ i <= a + m) => H[i] = <<z[i]>>
  <2>1. ASSUME NEW i \in 1 .. n, ~ (a < i /\ i <= a + m)
        PROVE  i \notin Protects(z)
    <3>1. ASSUME i \in Protects(z)
          PROVE  FALSE
      <4>1. PICK j \in P : i = a + j
        BY <1>11, <3>1
      <4>2. j \in 1 .. m
        BY <1>6
      <4> QED
        BY <1>1, <2>1, <4>1, <4>2
    <3> QED
      BY <3>1
  <2> QED
    BY <1>12, <2>1
<1>15. Bare(w) \in [1 .. m -> Seq(Char)] /\ Meant(w) = FlattenSeq(Bare(w)) /\ Meant(w) \in Seq(Char)
  BY BareType DEF m
<1>16. ASSUME NEW i \in 1 .. m
       PROVE  H[a + i] = Bare(w)[i]
  <2>1. a + i \in Protects(z) <=> i \in P
    <3>1. ASSUME a + i \in Protects(z)
          PROVE  i \in P
      <4>1. PICK j \in P : a + i = a + j
        BY <1>11, <3>1
      <4>2. j \in 1 .. m
        BY <1>6
      <4>3. i = j
        BY <1>1, <1>2, <4>1, <4>2
      <4> QED
        BY <4>3
    <3> QED
      BY <1>11, <3>1
  <2>2. i \in P => CharAt(z, (a + i) + 1) \in Special
    <3>1. ASSUME i \in P
          PROVE  CharAt(z, (a + i) + 1) \in Special
      <4>1. i + 1 \in 1 .. m /\ w[i + 1] \in Special /\ (a + i) + 1 = a + (i + 1)
        BY <1>1, <1>2, <1>6, <3>1
      <4>2. DOMAIN z = 1 .. n
        BY <1>7
      <4>3. a + (i + 1) \in 1 .. n /\ z[a + (i + 1)] = w[i + 1]
        BY <1>9, <4>1
      <4> QED
        BY <4>1, <4>2, <4>3 DEF CharAt
    <3> QED
      BY <3>1
  <2>3. Bare(w)[i] = IF i \in P THEN <<>> ELSE <<w[i]>>
    BY Zenon DEF Bare, P, m
  <2> QED
    BY <1>9, <1>12, <2>1, <2>2, <2>3
<1>17. PICK f \in Seq(Content), g \in Seq(Content) :
         /\ AreJoined(FlattenSeq(H), f, FlattenSeq(Bare(w)), g)
         /\ Len(f) = a /\ Len(g) = Len(z) - (a + m)
         /\ \A i \in 1 .. a : f[i] = z[i]
         /\ \A i \in 1 .. Len(z) - (a + m) : g[i] = z[(a + m) + i]
  <2>1. H \in [1 .. Len(z) -> Seq(Content)] /\ a + m <= Len(z)
    BY <1>1, <1>7, <1>13
  <2>2. Bare(w) \in [1 .. m -> Seq(Content)]
    <3>1. \A s \in Seq(Char) : s \in Seq(Content)
      <4>1. Char \subseteq Content
        BY DEF Content
      <4> QED
        BY <4>1, SeqMonotonic
    <3> QED
      BY <1>15, <3>1, Zenon
  <2>3. Surround(H, Bare(w), z, a, m)
    BY <1>7, <1>14, <1>16, <2>1 DEF Surround
  <2>4. z \in Seq(Content) /\ a \in Nat /\ m \in Nat
    BY <1>1, <1>2, <1>7
  <2>5. Surrounded(FlattenSeq(H), FlattenSeq(Bare(w)), Content, z, a, m)
    BY <2>1, <2>2, <2>3, <2>4, FlattenAround
  <2> QED
    BY <2>5 DEF Surrounded
<1>18. AreJoined(Unescaped(x), f, Meant(w), g)
  BY <1>8, <1>15, <1>17 DEF H
<1>19. Len(g) = l
  BY <1>1, <1>2, <1>7, <1>17
<1>20. a = 2 => f[1] = "letter" /\ f[2] = "nul"
  <2>1. ASSUME a = 2
        PROVE  f[1] = "letter" /\ f[2] = "nul"
    <3>1. 1 \in 1 .. a /\ 2 \in 1 .. a /\ 1 \in 1 .. n /\ 2 \in 1 .. n
      BY <1>1, <2>1
    <3>2. 2 \in K /\ 1 \notin K
      <4>1. 1 # b + 1
        BY <1>1, <2>1
      <4> QED
        BY <1>3, <2>1, <4>1
    <3>3. f[1] = z[1] /\ f[2] = z[2]
      BY <1>17, <3>1
    <3> QED
      BY <1>1, <1>7, <2>1, <3>1, <3>2, <3>3
  <2> QED
    BY <2>1
<1>21. l = 2 => g[1] = "nul" /\ g[2] = "letter"
  <2>1. ASSUME l = 2
        PROVE  g[1] = "nul" /\ g[2] = "letter"
    <3>1. Len(z) - (a + m) = 2 /\ b + 1 \in 1 .. n /\ b + 2 \in 1 .. n /\ b + 1 \in Int /\ b + 2 \in Int
      BY <1>1, <1>2, <1>7, <2>1
    <3>2. b + 1 \in K /\ b + 2 \notin K
      <4>1. b + 2 # 2 /\ b + 2 # b + 1
        BY <1>1
      <4> QED
        BY <1>3, <2>1, <3>1, <4>1
    <3>3. g[1] = z[b + 1] /\ g[2] = z[b + 2]
      <4>1. 1 \in 1 .. 2 /\ 2 \in 1 .. 2
        OBVIOUS
      <4> QED
        BY <1>17, <3>1, <4>1 DEF b
    <3> QED
      BY <1>1, <1>7, <2>1, <3>1, <3>2, <3>3
  <2> QED
    BY <2>1
<1>22. /\ f \in Seq(Content) /\ g \in Seq(Content)
       /\ AreJoined(Unescaped(x), f, Meant(w), g)
       /\ Len(f) = a /\ Len(g) = l
       /\ Len(f) = 2 => f[1] = "letter" /\ f[2] = "nul"
       /\ Len(g) = 2 => g[1] = "nul" /\ g[2] = "letter"
  BY <1>17, <1>18, <1>19, <1>20, <1>21
<1> QED
  BY <1>22 DEF a, l

\* The nuls of s up to i.
NulsUpTo(s, i) == Cardinality({j \in 1 .. i : s[j] = "nul"})

\* Where the argument with number n starts, and where it stops when it starts there.
StartOf(s, n) == Min({i \in 0 .. Len(s) : NulsUpTo(s, i) = n})
StopOf(s, start) == Min({i \in start + 1 .. Len(s) + 1 : CharAt(s, i) = "nul"})

\* Behind its separator, if there is one, starts the text that is meant.
LEMMA StartFound ==
  ASSUME NEW S, NEW r \in Seq(S), NEW a \in {0, 2}, a <= Len(r),
         a = 2 => r[1] = "letter" /\ r[2] = "nul"
  PROVE  StartOf(r, IF a = 2 THEN 1 ELSE 0) = a
<1> DEFINE n == IF a = 2 THEN 1 ELSE 0
           A == {i \in 0 .. Len(r) : NulsUpTo(r, i) = n}
<1>1. NulsUpTo(r, 0) = 0
  <2>1. {j \in 1 .. 0 : r[j] = "nul"} = {}
    OBVIOUS
  <2> QED
    BY <2>1, FS_EmptySet DEF NulsUpTo
<1>2. ASSUME a = 2
      PROVE  NulsUpTo(r, 1) = 0 /\ NulsUpTo(r, 2) = 1
  <2>1. {j \in 1 .. 1 : r[j] = "nul"} = {}
    <3>1. \A j \in 1 .. 1 : j = 1
      OBVIOUS
    <3> QED
      BY <1>2, <3>1
  <2>2. {j \in 1 .. 2 : r[j] = "nul"} = {2}
    <3>1. 2 \in 1 .. 2 /\ \A j \in 1 .. 2 : j = 1 \/ j = 2
      OBVIOUS
    <3> QED
      BY <1>2, <3>1
  <2> QED
    BY <2>1, <2>2, FS_EmptySet, FS_Singleton DEF NulsUpTo
<1>3. Len(r) \in Nat /\ A \in SUBSET Int
  OBVIOUS
<1>4. a \in A
  BY <1>1, <1>2, <1>3
<1>5. ASSUME NEW j \in A
      PROVE  a <= j
  <2>1. j \in 0 .. Len(r) /\ NulsUpTo(r, j) = n
    OBVIOUS
  <2>2. CASE a = 0
    BY <2>1, <2>2
  <2>3. CASE a = 2
    <3>1. j # 0 /\ j # 1
      BY <1>1, <1>2, <2>1, <2>3
    <3> QED
      BY <2>1, <2>3, <3>1
  <2> QED
    BY <2>2, <2>3
<1>6. StartOf(r, n) = Min(A)
  BY DEF StartOf
<1> HIDE DEF A, n
<1>7. Min(A) = a
  BY <1>3, <1>4, <1>5, LeastIs
<1> QED
  BY <1>6, <1>7 DEF n

\* It stops at the next separator, or at the end.
LEMMA StopFound ==
  ASSUME NEW S, NEW r \in Seq(S), NEW a \in Nat, NEW m \in Nat, NEW l \in {0, 2},
         Len(r) = (a + m) + l,
         \A i \in 1 .. m : r[a + i] # "nul",
         l = 2 => r[(a + m) + 1] = "nul"
  PROVE  StopOf(r, a) = (a + m) + 1
<1> DEFINE k == (a + m) + 1
           B == {i \in a + 1 .. Len(r) + 1 : CharAt(r, i) = "nul"}
<1>1. DOMAIN r = 1 .. (a + m) + l
  OBVIOUS
<1>2. B \in SUBSET Int
  OBVIOUS
<1>3. k \in B
  <2>1. k \in a + 1 .. Len(r) + 1
    OBVIOUS
  <2>2. CASE l = 0
    <3>1. k \notin DOMAIN r
      BY <1>1, <2>2
    <3> QED
      BY <2>1, <3>1 DEF CharAt
  <2>3. CASE l = 2
    <3>1. k \in DOMAIN r
      BY <1>1, <2>3
    <3> QED
      BY <2>1, <2>3, <3>1 DEF CharAt
  <2> QED
    BY <2>2, <2>3
<1>4. ASSUME NEW j \in B
      PROVE  k <= j
  <2>1. j \in a + 1 .. Len(r) + 1 /\ CharAt(r, j) = "nul"
    OBVIOUS
  <2>2. ASSUME ~ (k <= j)
        PROVE  FALSE
    <3>1. j - a \in 1 .. m /\ a + (j - a) = j /\ j \in 1 .. (a + m) + l
      BY <2>1, <2>2
    <3>2. r[j] # "nul"
      BY <3>1
    <3> QED
      BY <1>1, <2>1, <3>1, <3>2 DEF CharAt
  <2> QED
    BY <2>2
<1>5. StopOf(r, a) = Min(B)
  BY DEF StopOf
<1> HIDE DEF B, k
<1>6. Min(B) = k
  BY <1>2, <1>3, <1>4, LeastIs
<1> QED
  BY <1>5, <1>6 DEF k

\* The text between the two is the one that is meant.
LEMMA TextFound ==
  ASSUME NEW f \in Seq(Content), NEW v \in Seq(Char), NEW g \in Seq(Content), NEW r,
         AreJoined(r, f, v, g), Len(f) \in {0, 2}, Len(g) \in {0, 2},
         Len(f) = 2 => f[1] = "letter" /\ f[2] = "nul",
         Len(g) = 2 => g[1] = "nul",
         NEW cmd, Unescaped(ArgumentText(cmd)) = r
  PROVE  argget(cmd, IF Len(f) = 2 THEN 1 ELSE 0) = v
<1> DEFINE a == Len(f)
           m == Len(v)
           l == Len(g)
           b == a + m
           n == IF a = 2 THEN 1 ELSE 0
<1>1. v \in Seq(Content) /\ \A i \in 1 .. m : v[i] # "nul"
  <2>1. Char \subseteq Content /\ "nul" \notin Char
    BY DEF Content, Char
  <2>2. \A i \in 1 .. m : v[i] \in Char
    <3> HIDE DEF Char
    <3> QED
      OBVIOUS
  <2>3. v \in Seq(Content)
    BY <2>1, SeqMonotonic
  <2> QED
    BY <2>1, <2>2, <2>3
<1>2. /\ r \in Seq(Content) /\ Len(r) = b + l
      /\ \A i \in 1 .. a : r[i] = f[i]
      /\ \A i \in 1 .. m : r[a + i] = v[i]
      /\ \A i \in 1 .. l : r[b + i] = g[i]
  BY <1>1, JoinedPlaces
<1>3. a \in {0, 2} /\ l \in {0, 2} /\ m \in Nat
  OBVIOUS
<1>4. /\ a = 2 => f[1] = "letter" /\ f[2] = "nul"
      /\ l = 2 => g[1] = "nul"
  OBVIOUS
<1> HIDE DEF a, m, l
<1>5. /\ a = 2 => r[1] = "letter" /\ r[2] = "nul"
      /\ l = 2 => r[b + 1] = "nul"
  <2>1. (a = 2 => 1 \in 1 .. a /\ 2 \in 1 .. a) /\ (l = 2 => 1 \in 1 .. l)
    OBVIOUS
  <2> QED
    BY <1>2, <1>4, <2>1
<1>6. a \in Nat /\ b \in Nat /\ a <= Len(r) /\ \A i \in 1 .. m : r[a + i] # "nul"
  <2>1. \A i \in 1 .. m : r[a + i] # "nul"
    BY <1>1, <1>2, Zenon
  <2>2. a \in Nat /\ b \in Nat /\ a <= b + l
    BY <1>3
  <2> QED
    BY <1>2, <2>1, <2>2
<1>7. StartOf(r, n) = a
  BY <1>2, <1>3, <1>5, <1>6, StartFound
<1>8. StopOf(r, a) = b + 1
  BY <1>2, <1>3, <1>5, <1>6, StopFound
<1>9. argget(cmd, n) = SubSeq(r, a + 1, b)
  <2>1. argget(cmd, n) = SubSeq(r, StartOf(r, n) + 1, StopOf(r, StartOf(r, n)) - 1)
    BY Zenon DEF argget, StartOf, StopOf, NulsUpTo
  <2>2. (b + 1) - 1 = b
    BY <1>6
  <2> HIDE DEF b, n
  <2> QED
    BY <1>7, <1>8, <2>1, <2>2
<1>10. SubSeq(r, a + 1, b) = v
  <2> DEFINE s == SubSeq(r, a + 1, b)
             p == a + 1
  <2>1. p \in Int /\ b \in Int /\ \A i \in p .. b : r[i] \in Content
    <3>1. \A i \in p .. b : i \in 1 .. b + l
      BY <1>3
    <3>2. \A i \in 1 .. b + l : r[i] \in Content
      BY <1>2
    <3> QED
      BY <1>6, <3>1, <3>2
  <2>2. /\ s \in Seq(Content)
        /\ Len(s) = IF p <= b THEN (b - p) + 1 ELSE 0
        /\ \A i \in 1 .. (b - p) + 1 : s[i] = r[(p + i) - 1]
    <3> HIDE DEF b, p
    <3>1. /\ SubSeq(r, p, b) \in Seq(Content)
          /\ Len(SubSeq(r, p, b)) = IF p <= b THEN (b - p) + 1 ELSE 0
          /\ \A i \in 1 .. (b - p) + 1 : SubSeq(r, p, b)[i] = r[(p + i) - 1]
      BY <2>1, SubSeqProperties
    <3> QED
      BY <3>1 DEF p
  <2> HIDE DEF s
  <2>3. Len(s) = m
    BY <1>3, <2>2
  <2>4. \A i \in 1 .. m : s[i] = v[i]
    <3>1. \A i \in 1 .. m : i \in 1 .. (b - p) + 1 /\ (p + i) - 1 = a + i
      BY <1>3
    <3> HIDE DEF p
    <3> QED
      BY <1>2, <2>2, <3>1
  <2>5. s = v
    BY <1>1, <2>2, <2>3, <2>4, SeqEqual DEF m
  <2> QED
    BY <2>5 DEF s
<1> QED
  BY <1>9, <1>10 DEF a, n

\* The text of the arguments of a line, and the text with the space before it.
LEMMA ArgumentsOfLine ==
  ASSUME NEW x \in Seq(Char), x # <<>>, x[1] # "space",
         NEW cmd, IsJoined(cmd, <<"letter", "space">>, x)
  PROVE  /\ ArgumentText(cmd) = x /\ CommandEnd(cmd) = 2 /\ Len(cmd) = Len(x) + 2
         /\ LET z == SubSeq(cmd, 2, Len(cmd)) IN
            /\ z \in Seq(Char) /\ Len(z) = Len(x) + 1 /\ z[1] = "space"
            /\ \A i \in 1 .. Len(x) : z[1 + i] = x[i]
<1> DEFINE n == Len(x)
           e == Len(cmd)
           z == SubSeq(cmd, 2, e)
<1>1. /\ cmd \in Seq(Char) /\ e = n + 2 /\ cmd[2] = "space"
      /\ \A i \in 1 .. n : cmd[2 + i] = x[i]
      /\ CommandEnd(cmd) = 2 /\ SubSeq(cmd, 3, e) = x
  BY CommandAndArguments
<1>2. n \in Nat /\ n >= 1 /\ DOMAIN x = 1 .. n
  OBVIOUS
<1>3. WithoutLeadingSpaces(x) = x
  <2> DEFINE kept == {i \in DOMAIN x : x[i] # "space"}
             first == CHOOSE i \in kept : \A j \in kept : i <= j
  <2>1. 1 \in kept /\ \A j \in kept : 1 <= j
    BY <1>2
  <2>2. \A i \in kept : i \in Int
    BY <1>2
  <2> HIDE DEF kept
  <2>3. first \in kept /\ \A j \in kept : first <= j
    BY <2>1, Zenon
  <2>4. kept # {}
    BY <2>1
  <2> HIDE DEF first
  <2>5. first = 1
    BY <2>1, <2>2, <2>3
  <2>6. WithoutLeadingSpaces(x) = SubSeq(x, first, Len(x))
    BY <2>4, Zenon DEF WithoutLeadingSpaces, kept, first
  <2> QED
    BY <2>5, <2>6, SubSeqFull
<1>4. ArgumentText(cmd) = x
  <2>1. 2 + 1 = 3
    OBVIOUS
  <2> QED
    BY <1>1, <1>3, <2>1 DEF ArgumentText
<1>5. \A i \in 1 .. e : cmd[i] \in Char
  <2> HIDE DEF n
  <2> QED
    BY <1>1
<1> HIDE DEF n, e
<1>6. /\ z \in Seq(Char)
      /\ Len(z) = IF 2 <= e THEN (e - 2) + 1 ELSE 0
      /\ \A i \in 1 .. (e - 2) + 1 : z[i] = cmd[(2 + i) - 1]
  <2>1. 2 \in Int /\ e \in Int /\ \A i \in 2 .. e : cmd[i] \in Char
    BY <1>1, <1>2, <1>5
  <2> QED
    BY <2>1, SubSeqProperties
<1> HIDE DEF z
<1>7. Len(z) = n + 1
  BY <1>1, <1>2, <1>6
<1>8. z[1] = "space"
  <2>1. 1 \in 1 .. (e - 2) + 1 /\ (2 + 1) - 1 = 2
    BY <1>1, <1>2
  <2> QED
    BY <1>1, <1>6, <2>1
<1>9. \A i \in 1 .. n : z[1 + i] = x[i]
  <2>1. \A i \in 1 .. n : 1 + i \in 1 .. (e - 2) + 1 /\ (2 + (1 + i)) - 1 = 2 + i
    BY <1>1, <1>2
  <2> QED
    BY <1>1, <1>6, <2>1
<1>10. CommandEnd(cmd) = 2 /\ e = n + 2
  BY <1>1
<1> QED
  BY <1>4, <1>6, <1>7, <1>8, <1>9, <1>10 DEF z, e, n

\* The separating commas are counted, those in the text that is meant are not.
LEMMA ArgumentsCounted ==
  ASSUME NEW w \in Seq(Char), w # <<>>, IsPrefixed(w), NEW front, NEW back, NEW x,
         Around(x, front, w, back), Placed(x, Len(front), w),
         ~ (Len(front) = 2 /\ Len(back) = 2), x[1] # "space",
         NEW cmd, IsJoined(cmd, <<"letter", "space">>, x)
  PROVE  arggetcount(cmd) = IF Len(front) = 2 \/ Len(back) = 2 THEN 2 ELSE 1
<1> DEFINE a == Len(front)
           m == Len(w)
           b == a + m
           l == Len(back)
           z == SubSeq(cmd, 2, Len(cmd))
           K == Commas(Marked(z))
<1>1. /\ x \in Seq(Char) /\ x # <<>> /\ Len(x) = b + l
      /\ a \in {0, 2} /\ l \in {0, 2} /\ m \in Nat /\ m >= 1
      /\ a = 2 => x[1] = "letter" /\ x[2] = "comma"
      /\ l = 2 => x[b + 1] = "comma" /\ x[b + 2] = "letter"
      /\ \A i \in 1 .. m : x[a + i] = w[i]
  BY DEF Around
<1>2. /\ CommandEnd(cmd) = 2 /\ Len(cmd) = Len(x) + 2
      /\ z \in Seq(Char) /\ Len(z) = Len(x) + 1 /\ z[1] = "space"
      /\ \A i \in 1 .. Len(x) : z[1 + i] = x[i]
  BY <1>1, ArgumentsOfLine
<1>3. \A i \in 1 .. Len(x) : x[i] = "backslash" => a < i /\ i <= b
  BY DEF Placed
<1>4. ~ (a = 2 /\ l = 2)
  OBVIOUS
<1>5. arggetcount(cmd) = 1 + Cardinality(K)
  <2>1. ~ (2 > Len(cmd))
    BY <1>1, <1>2
  <2> HIDE DEF z
  <2> QED
    BY <1>2, <2>1, Zenon DEF arggetcount, K, z
<1> HIDE DEF a, m, l, z
<1>6. \A i \in 1 .. (b + l) + 1 : z[i] = IF i = 1 THEN "space" ELSE x[i - 1]
  <2>1. \A i \in 1 .. (b + l) + 1 : i # 1 => i - 1 \in 1 .. b + l /\ 1 + (i - 1) = i
    BY <1>1
  <2>2. \A i \in 1 .. b + l : z[1 + i] = x[i]
    BY <1>1, <1>2
  <2> HIDE DEF b
  <2> QED
    BY <1>2, <2>1, <2>2
<1>7. Placed(z, 1 + a, w)
  <2>1. 1 + a + m <= Len(z)
    BY <1>1, <1>2
  <2>2. ASSUME NEW i \in 1 .. m
        PROVE  z[(1 + a) + i] = w[i]
    <3>1. a + i \in 1 .. b + l /\ 1 + (a + i) = (1 + a) + i
      BY <1>1
    <3> QED
      BY <1>1, <1>2, <3>1
  <2>3. ASSUME NEW i \in 1 .. Len(z), z[i] = "backslash"
        PROVE  1 + a < i /\ i <= 1 + a + m
    <3>1. i \in 1 .. (b + l) + 1
      BY <1>1, <1>2
    <3>2. i # 1 /\ i - 1 \in 1 .. b + l /\ x[i - 1] = "backslash"
      BY <1>1, <1>6, <2>3, <3>1
    <3>3. a < i - 1 /\ i - 1 <= b
      BY <1>1, <1>3, <3>2
    <3> QED
      BY <1>1, <3>1, <3>3
  <2> QED
    BY <2>1, <2>2, <2>3 DEF Placed, m
<1>8. K = {k \in 1 .. Len(z) : z[k] = "comma" /\ ~ (1 + a < k /\ k <= 1 + a + m)}
  <2>1. 1 + a \in Nat
    BY <1>1
  <2> QED
    BY <1>2, <1>7, <2>1, CommasPlaced DEF K, m
<1> HIDE DEF K
\* Behind the text and before it, one comma or none.
<1>9. ASSUME NEW k
      PROVE  k \in K <=> (a = 2 /\ k = 3) \/ (l = 2 /\ k = b + 2)
  <2>1. ASSUME k \in K
        PROVE  (a = 2 /\ k = 3) \/ (l = 2 /\ k = b + 2)
    <3>1. k \in 1 .. (b + l) + 1 /\ z[k] = "comma" /\ ~ (1 + a < k /\ k <= 1 + a + m)
      BY <1>1, <1>2, <1>8, <2>1
    <3>2. k # 1 /\ x[k - 1] = "comma"
      BY <1>6, <3>1
    <3>3. \/ a = 2 /\ k - 1 = 1
          \/ a = 2 /\ k - 1 = 2
          \/ l = 2 /\ k - 1 = b + 1
          \/ l = 2 /\ k - 1 = b + 2
      BY <1>1, <3>1, <3>2
    <3>4. a = 2 => k - 1 # 1
      BY <1>1, <3>2
    <3>5. l = 2 => k - 1 # b + 2
      BY <1>1, <3>2
    <3> QED
      BY <1>1, <3>1, <3>3, <3>4, <3>5
  <2>2. ASSUME a = 2, k = 3
        PROVE  k \in K
    <3>1. 3 \in 1 .. (b + l) + 1 /\ 3 - 1 = 2 /\ 3 # 1 /\ ~ (1 + a < 3)
      BY <1>1, <2>2
    <3>2. z[3] = "comma"
      BY <1>1, <1>6, <2>2, <3>1
    <3> QED
      BY <1>1, <1>2, <1>8, <2>2, <3>1, <3>2
  <2>3. ASSUME l = 2, k = b + 2
        PROVE  k \in K
    <3>1. b + 2 \in 1 .. (b + l) + 1 /\ (b + 2) - 1 = b + 1 /\ b + 2 # 1 /\ ~ (b + 2 <= 1 + a + m)
      BY <1>1, <2>3
    <3>2. z[b + 2] = "comma"
      BY <1>1, <1>6, <2>3, <3>1
    <3> QED
      BY <1>1, <1>2, <1>8, <2>3, <3>1, <3>2
  <2> QED
    BY <2>1, <2>2, <2>3
<1>10. CASE a = 2
  <2>1. \A k : k \in K <=> k = 3
    BY <1>4, <1>9, <1>10
  <2>2. K = {3}
    BY <2>1
  <2>3. Cardinality(K) = 1
    BY <2>2, FS_Singleton
  <2> QED
    BY <1>5, <1>10, <2>3 DEF a, l
<1>11. CASE l = 2
  <2>1. \A k : k \in K <=> k = b + 2
    BY <1>4, <1>9, <1>11
  <2>2. K = {b + 2}
    BY <2>1
  <2>3. Cardinality(K) = 1
    BY <2>2, FS_Singleton
  <2> QED
    BY <1>5, <1>11, <2>3 DEF a, l
<1>12. CASE a # 2 /\ l # 2
  <2>1. K = {}
    BY <1>9, <1>12
  <2>2. Cardinality(K) = 0
    BY <2>1, FS_EmptySet
  <2> QED
    BY <1>5, <1>12, <2>2 DEF a, l
<1> QED
  BY <1>10, <1>11, <1>12

\* A prefixed text arrives as it is meant, as one argument of the right number.
LEMMA PrefixedArrives ==
  ASSUME NEW w \in Seq(Char), w # <<>>, IsPrefixed(w),
         NEW front \in Fronts, NEW back \in Backs, front = <<>> \/ back = <<>>,
         back # <<>> => w[Len(w)] # "comma",
         NEW x, AreJoined(x, front, w, back),
         NEW cmd, IsJoined(cmd, <<"letter", "space">>, x)
  PROVE  /\ arggetcount(cmd) = IF front # <<>> \/ back # <<>> THEN 2 ELSE 1
         /\ argget(cmd, IF front # <<>> THEN 1 ELSE 0) = Meant(w)
<1>1. /\ Len(front) = 2 <=> front # <<>>
      /\ Len(back) = 2 <=> back # <<>>
      /\ Len(front) \in {0, 2} /\ Len(back) \in {0, 2}
  <2>1. \A c, d \in Char : Len(<<c, d>>) = 2 /\ <<c, d>> # <<>>
    <3> HIDE DEF Char
    <3> QED
      OBVIOUS
  <2>2. \A p \in {front, back} : (Len(p) = 2 <=> p # <<>>) /\ Len(p) \in {0, 2}
    <3>1. \A p \in {front, back} : p = <<>> \/ \E c, d \in Char : p = <<c, d>>
      BY DEF Fronts, Backs, Char
    <3> QED
      BY <2>1, <3>1
  <2> QED
    BY <2>2
<1>2. Around(x, front, w, back)
  BY JoinedAround
<1>3. Placed(x, Len(front), w) /\ x[1] \notin Separator
  BY <1>1, <1>2, PrefixedAround
<1>4. x[1] # "space" /\ x \in Seq(Char) /\ x # <<>>
  BY <1>2, <1>3 DEF Separator, Around
<1>5. ~ (Len(front) = 2 /\ Len(back) = 2)
  BY <1>1
<1>6. arggetcount(cmd) = IF Len(front) = 2 \/ Len(back) = 2 THEN 2 ELSE 1
  BY <1>2, <1>3, <1>4, <1>5, ArgumentsCounted
<1>7. ArgumentText(cmd) = x
  BY <1>4, ArgumentsOfLine
<1>8. PICK f, g \in Seq(Content) :
        /\ AreJoined(Unescaped(x), f, Meant(w), g)
        /\ Len(f) = Len(front) /\ Len(g) = Len(back)
        /\ Len(f) = 2 => f[1] = "letter" /\ f[2] = "nul"
        /\ Len(g) = 2 => g[1] = "nul" /\ g[2] = "letter"
  BY <1>2, <1>3, UnescapedAround
<1>9. Meant(w) \in Seq(Char)
  BY BareType
<1>10. argget(cmd, IF Len(f) = 2 THEN 1 ELSE 0) = Meant(w)
  <2>1. Unescaped(ArgumentText(cmd)) = Unescaped(x)
    BY <1>7
  <2>2. Len(f) \in {0, 2} /\ Len(g) \in {0, 2}
    BY <1>1, <1>8
  <2> QED
    BY <1>8, <1>9, <2>1, <2>2, TextFound
<1> QED
  BY <1>1, <1>6, <1>8, <1>10

-----------------------------------------------------------------------------
(* Arguments: a text arrives.                                               *)

\* The text that is meant by u, which the user protects by quotes or by prefixes.
TextOf(u) == IF IsQuoted(u) THEN Enclosed(u) ELSE Meant(u)

\* It arrives when the line around it has been formatted once.
LEMMA FormattedArrives ==
  ASSUME NEW u \in Seq(Char), u # <<>>, IsQuoted(u) \/ IsPrefixed(u),
         NEW front \in Fronts, NEW back \in Backs, front = <<>> \/ back = <<>>,
         back = <<>> \/ Last(TextOf(u)) # "comma",
         NEW x, AreJoined(x, front, u, back),
         NEW cmd, IsJoined(cmd, <<"letter", "space">>, x), NEW before
  PROVE  /\ arggetcount(argformat(cmd, before)) = IF front # <<>> \/ back # <<>> THEN 2 ELSE 1
         /\ argget(argformat(cmd, before), IF front # <<>> THEN 1 ELSE 0) = TextOf(u)
<1> DEFINE y == FormattedArguments(x, before)
<1>1. Around(x, front, u, back)
  BY JoinedAround
<1>2. x \in Seq(Char) /\ x # <<>>
  BY <1>1 DEF Around
<1>3. CASE IsQuoted(u)
  <2> DEFINE w == FlattenSeq(Escapes(Enclosed(u)))
  <2>1. TextOf(u) = Enclosed(u)
    BY <1>3 DEF TextOf
  <2>2. back # <<>> => Enclosed(u)[Len(Enclosed(u))] # "comma"
    BY <2>1 DEF Last
  <2>3. /\ w \in Seq(Char) /\ w # <<>> /\ IsPrefixed(w) /\ Meant(w) = Enclosed(u)
        /\ back # <<>> => w[Len(w)] # "comma"
        /\ AreJoined(y, front, w, back)
    BY <1>3, <2>2, FormattedQuoted
  <2> HIDE DEF w, y
  <2>4. Around(y, front, w, back)
    BY <2>3, JoinedAround
  <2>5. y # <<>>
    BY <2>4 DEF Around
  <2>6. IsJoined(argformat(cmd, before), <<"letter", "space">>, y)
    BY <1>2, <2>5, FormattedLine DEF y
  <2> QED
    BY <2>1, <2>3, <2>6, PrefixedArrives
<1>4. CASE ~ IsQuoted(u)
  <2>1. TextOf(u) = Meant(u) /\ IsPrefixed(u)
    BY <1>4 DEF TextOf
  <2>2. Last(Meant(u)) = u[Len(u)]
    BY <2>1, LastMeant
  <2>3. back # <<>> => u[Len(u)] # "comma"
    BY <2>1, <2>2
  <2>4. Len(back) = 2 <=> back # <<>>
    <3>1. \A c, d \in Char : Len(<<c, d>>) = 2 /\ <<c, d>> # <<>>
      <4> HIDE DEF Char
      <4> QED
        OBVIOUS
    <3>2. back = <<>> \/ \E c, d \in Char : back = <<c, d>>
      BY DEF Backs, Char
    <3>3. Len(<<>>) = 0
      OBVIOUS
    <3> QED
      BY ONLY <3>1, <3>2, <3>3
  <2>5. y = x
    BY <1>1, <2>1, <2>3, <2>4, FormattedPrefixed
  <2> HIDE DEF y
  <2>6. IsJoined(argformat(cmd, before), <<"letter", "space">>, x)
    BY <1>2, <2>5, FormattedLine DEF y
  <2> QED
    BY <2>1, <2>3, <2>6, PrefixedArrives
<1> QED
  BY <1>3, <1>4

\* The frames are those of Fronts and Backs, behind a command.
LEMMA FramesRule ==
  ASSUME NEW f \in Frames
  PROVE  \E front \in Fronts, back \in Backs :
           /\ IsJoined(f.before, <<"letter", "space">>, front) /\ f.behind = back
           /\ front = <<>> \/ back = <<>>
           /\ Len(f.before) > 2 <=> front # <<>>
           /\ f.n = IF front # <<>> THEN 1 ELSE 0
<1> DEFINE c == <<"letter", "space">>
           p == <<"letter", "comma">>
           q == <<"letter", "space", "letter", "comma">>
<1>1. /\ c \in Seq(Char) /\ Len(c) = 2 /\ c[1] = "letter" /\ c[2] = "space"
      /\ p \in Seq(Char) /\ Len(p) = 2 /\ p[1] = "letter" /\ p[2] = "comma" /\ p # <<>>
      /\ q \in Seq(Char) /\ Len(q) = 4
      /\ q[1] = "letter" /\ q[2] = "space" /\ q[3] = "letter" /\ q[4] = "comma"
  <2>1. \A d, e, g, h \in Char :
          /\ <<d, e>> \in Seq(Char) /\ Len(<<d, e>>) = 2 /\ <<d, e>> # <<>>
          /\ <<d, e, g, h>> \in Seq(Char) /\ Len(<<d, e, g, h>>) = 4
    <3> HIDE DEF Char
    <3> QED
      OBVIOUS
  <2> QED
    BY <2>1 DEF Char
<1>2. \/ f.before = c /\ f.behind = <<>> /\ f.n = 0
      \/ f.before = c /\ f.behind = <<"comma", "letter">> /\ f.n = 0
      \/ f.before = q /\ f.behind = <<>> /\ f.n = 1
  BY DEF Frames
<1>3. /\ <<>> \in Fronts /\ p \in Fronts
      /\ <<>> \in Backs /\ <<"comma", "letter">> \in Backs
  BY DEF Fronts, Backs
<1> HIDE DEF c, p, q
<1>4. IsJoined(c, c, <<>>)
  <2>1. c \o <<>> = c
    BY <1>1, ConcatEmptySeq
  <2> QED
    BY <2>1 DEF IsJoined
<1>5. IsJoined(q, c, p)
  <2>1. /\ c \o p \in Seq(Char) /\ Len(c \o p) = Len(c) + Len(p)
        /\ \A i \in 1 .. Len(c) + Len(p) :
             (c \o p)[i] = IF i <= Len(c) THEN c[i] ELSE p[i - Len(c)]
    BY <1>1, ConcatProperties
  <2> DEFINE r == c \o p
  <2>2. /\ r \in Seq(Char) /\ Len(r) = 4
        /\ \A i \in 1 .. 4 : r[i] = IF i <= 2 THEN c[i] ELSE p[i - 2]
    <3>1. Len(c) + Len(p) = 4
      BY <1>1
    <3> QED
      BY <1>1, <2>1, <3>1
  <2> HIDE DEF r
  <2>3. \A i \in 1 .. 4 : r[i] = q[i]
    <3>1. \A i \in 1 .. 4 : i = 1 \/ i = 2 \/ i = 3 \/ i = 4
      OBVIOUS
    <3>2. r[1] = c[1] /\ r[2] = c[2] /\ r[3] = p[1] /\ r[4] = p[2]
      BY <2>2
    <3> QED
      BY <1>1, <3>1, <3>2
  <2>4. r = q
    BY <1>1, <2>2, <2>3, SeqEqual
  <2> QED
    BY <2>4 DEF IsJoined, r
<1>6. CASE f.before = c
  <2>1. ~ (Len(f.before) > 2) /\ f.n = 0 /\ f.behind \in Backs
    <3>1. ~ (f.before = q)
      BY <1>1, <1>6
    <3>2. f.n = 0 /\ f.behind \in Backs
      BY <1>2, <1>3, <3>1
    <3>3. Len(f.before) = 2
      BY <1>1, <1>6
    <3>4. ~ (2 > 2)
      OBVIOUS
    <3> QED
      BY <3>2, <3>3, <3>4
  <2> QED
    BY <1>3, <1>4, <1>6, <2>1 DEF c
<1>7. CASE f.before = q
  <2>1. Len(f.before) > 2 /\ f.n = 1 /\ f.behind = <<>>
    <3>1. ~ (f.before = c)
      BY <1>1, <1>7
    <3> QED
      BY <1>1, <1>2, <1>7, <3>1
  <2> QED
    BY <1>1, <1>3, <1>5, <1>7, <2>1 DEF c
<1> QED
  BY <1>2, <1>6, <1>7

\* What the buffer holds before its first formatting and after it.
ArgumentsInv ==
  /\ typed \in Seq(Char) /\ passes \in 0 .. 2
  /\ passes = 0 => line = typed
  /\ passes = 1 => \E before \in Before : line = argformat(typed, before)

\* Every action keeps it.
THEOREM ArgumentsInvariant == ArgumentsSpec => []ArgumentsInv
<1>1. ArgumentsInit => ArgumentsInv
  BY DEF ArgumentsInit, ArgumentsInv
<1>2. ArgumentsInv /\ [ArgumentsNext]_argumentVars => ArgumentsInv'
  <2> SUFFICES ASSUME ArgumentsInv, [ArgumentsNext]_argumentVars
               PROVE  ArgumentsInv'
    OBVIOUS
  <2>1. CASE Format
    <3>1. passes < 2 /\ passes' = passes + 1 /\ typed' = typed
      BY <2>1 DEF Format
    <3>2. ASSUME passes' = 1
          PROVE  \E before \in Before : line' = argformat(typed', before)
      <4>1. passes = 0
        BY <3>1, <3>2 DEF ArgumentsInv
      <4>2. line = typed
        BY <4>1 DEF ArgumentsInv
      <4> QED
        BY <2>1, <3>1, <4>2, Zenon DEF Format
    <3>3. typed \in Seq(Char) /\ passes' \in 0 .. 2 /\ passes' # 0
      BY <3>1 DEF ArgumentsInv
    <3> QED
      BY <3>1, <3>2, <3>3 DEF ArgumentsInv
  <2>2. CASE Handled
    BY <2>2 DEF Handled, ArgumentsInv
  <2>3. ASSUME NEW c \in Char, Type(c)
        PROVE  ArgumentsInv'
    <3>1. passes = 0 /\ passes' = 0 /\ line' = Append(typed, c) /\ typed' = Append(typed, c)
      BY <2>3 DEF Type, ArgumentsInv
    <3>2. typed \in Seq(Char)
      BY DEF ArgumentsInv
    <3>3. Append(typed, c) \in Seq(Char)
      BY <3>2
    <3> QED
      BY <3>1, <3>3 DEF ArgumentsInv
  <2>4. CASE UNCHANGED argumentVars
    BY <2>4 DEF argumentVars, ArgumentsInv
  <2> QED
    BY <2>1, <2>2, <2>3, <2>4 DEF ArgumentsNext
<1> QED
  BY <1>1, <1>2, PTL DEF ArgumentsSpec

\* A text that the user protects, by prefixes or by quotes, arrives in the handler as
\* it was meant, as one argument of the right number: whatever its length, and
\* whatever stands in front of the buffer.
THEOREM ProtectedTextAlwaysArrives == ArgumentsSpec => []ProtectedTextArrives
<1>1. ArgumentsInv => ProtectedTextArrives
  <2> SUFFICES ASSUME ArgumentsInv, passes = 1, NEW f \in Frames
               PROVE  LET rest == Len(typed) - Len(f.behind)
                          u == SubSeq(typed, Len(f.before) + 1, rest)
                          text == IF IsQuoted(u) THEN Enclosed(u) ELSE Meant(u)
                      IN
                      /\ u # <<>> /\ typed = f.before \o u \o f.behind
                      /\ IsQuoted(u) \/ IsPrefixed(u)
                      /\ f.behind = <<>> \/ Last(text) # "comma"
                      => /\ arggetcount(line) =
                              IF Len(f.before) > 2 \/ f.behind # <<>> THEN 2 ELSE 1
                         /\ argget(line, f.n) = text
    BY Zenon DEF ProtectedTextArrives
  <2> DEFINE c == <<"letter", "space">>
             rest == Len(typed) - Len(f.behind)
             u == SubSeq(typed, Len(f.before) + 1, rest)
             text == IF IsQuoted(u) THEN Enclosed(u) ELSE Meant(u)
  <2>1. typed \in Seq(Char)
    BY DEF ArgumentsInv
  <2>2. PICK before \in Before : line = argformat(typed, before)
    BY DEF ArgumentsInv
  <2>3. PICK front \in Fronts, back \in Backs :
           /\ IsJoined(f.before, c, front) /\ f.behind = back
           /\ front = <<>> \/ back = <<>>
           /\ Len(f.before) > 2 <=> front # <<>>
           /\ f.n = IF front # <<>> THEN 1 ELSE 0
    BY FramesRule
  <2>4. c \in Seq(Char) /\ front \in Seq(Char) /\ back \in Seq(Char)
    <3>1. <<>> \in Seq(Char) /\ \A d, e \in Char : <<d, e>> \in Seq(Char)
      <4> HIDE DEF Char
      <4> QED
        OBVIOUS
    <3> QED
      BY <3>1 DEF Fronts, Backs, Char
  <2> HIDE DEF c
  <2>5. Len(f.before) \in Nat /\ Len(f.behind) \in Nat
    <3>1. c \o front \in Seq(Char)
      BY <2>4, ConcatProperties
    <3> QED
      BY <2>3, <2>4, <3>1 DEF IsJoined
  <2>6. u \in Seq(Char)
    <3>1. Len(f.before) + 1 \in Int /\ rest \in Int
          /\ \A i \in Len(f.before) + 1 .. rest : typed[i] \in Char
      <4>1. Len(typed) \in Nat
        BY <2>1
      <4>2. \A i \in Len(f.before) + 1 .. rest : i \in 1 .. Len(typed)
        BY <2>5, <4>1
      <4> QED
        BY <2>1, <2>5, <4>1, <4>2
    <3> HIDE DEF rest
    <3> QED
      BY <3>1, SubSeqProperties
  <2> HIDE DEF u
  <2> SUFFICES ASSUME u # <<>>, typed = f.before \o u \o f.behind,
                      IsQuoted(u) \/ IsPrefixed(u),
                      f.behind = <<>> \/ Last(text) # "comma"
               PROVE  /\ arggetcount(line) =
                            IF Len(f.before) > 2 \/ f.behind # <<>> THEN 2 ELSE 1
                      /\ argget(line, f.n) = text
    BY DEF u
  <2>7. AreJoined(typed, f.before, u, back)
    BY <2>3 DEF AreJoined
  <2>8. PICK x : AreJoined(x, front, u, back) /\ IsJoined(typed, c, x)
    BY <2>3, <2>4, <2>6, <2>7, JoinedApart
  <2>9. text = TextOf(u)
    BY DEF TextOf
  <2> HIDE DEF text
  <2>10. /\ arggetcount(argformat(typed, before)) =
              IF front # <<>> \/ back # <<>> THEN 2 ELSE 1
         /\ argget(argformat(typed, before), IF front # <<>> THEN 1 ELSE 0) = TextOf(u)
    BY <2>3, <2>6, <2>8, <2>9, FormattedArrives DEF c
  <2> QED
    BY <2>2, <2>3, <2>9, <2>10
<1> QED
  BY <1>1, ArgumentsInvariant, PTL

-----------------------------------------------------------------------------
(* Arguments: the end of a text, with one more character.                   *)

\* The end of a text: a backslash that protects what follows, a separator that none
\* protects, a comma with nothing behind it that is kept.
Free(s) == Len(s) \in Protects(s)
Loose(s) == s # <<>> /\ s[Len(s)] \in Separator /\ Len(s) - 1 \notin Protects(s)
Pending(s) ==
  \E j \in 1 .. Len(s) :
    s[j] = "comma" /\ \A k \in j + 1 .. Len(s) : s[k] \in Separator \cup {"quote"}

\* No commas that meet when what is between them is left out.
Apart(s) ==
  \A i, j \in 1 .. Len(s) :
    s[i] = "comma" /\ s[j] = "comma" /\ i < j =>
      \E k \in i .. j : s[k] \notin Separator \cup {"quote"}

\* The characters of a text with one more at its end.
LEMMA OneMorePlaces ==
  ASSUME NEW s \in Seq(Char), NEW c \in Char, NEW v, IsJoined(v, s, <<c>>)
  PROVE  /\ v \in Seq(Char) /\ v # <<>> /\ Len(v) = Len(s) + 1 /\ v[Len(s) + 1] = c
         /\ \A i \in 1 .. Len(s) : v[i] = s[i]
<1> DEFINE n == Len(s)
           w == Append(s, c)
<1>1. w = s \o <<c>>
  BY AppendIsConcat
<1>2. v = w
  BY <1>1 DEF IsJoined
<1>3. /\ w \in Seq(Char) /\ w # <<>> /\ Len(w) = n + 1 /\ w[n + 1] = c
      /\ \A i \in 1 .. n : w[i] = s[i]
  <2> HIDE DEF Char
  <2>1. s \in Seq(Char) /\ c \in Char
    OBVIOUS
  <2> QED
    BY <2>1, AppendProperties
<1> HIDE DEF w
<1> QED
  BY <1>2, <1>3

\* Its end follows from the end it had and the one more character.
LEMMA OneMore ==
  ASSUME NEW s \in Seq(Char), NEW c \in Char, NEW v, IsJoined(v, s, <<c>>)
  PROVE  /\ \A i \in 1 .. Len(s) : i \in Protects(v) <=> i \in Protects(s)
         /\ Free(v) <=> c = "backslash" /\ ~ Free(s)
         /\ Loose(v) <=> c \in Separator /\ ~ Free(s)
         /\ Pending(v) <=> c = "comma" \/ (c \in {"space", "quote"} /\ Pending(s))
         /\ Apart(s) /\ (c = "comma" => ~ Pending(s)) => Apart(v)
<1> DEFINE n == Len(s)
           P == Protects(s)
           Z == IF c = "backslash" /\ n \notin P THEN P \cup {n + 1} ELSE P
<1>1. /\ v \in Seq(Char) /\ v # <<>> /\ Len(v) = n + 1 /\ v[n + 1] = c
      /\ \A i \in 1 .. n : v[i] = s[i]
  BY OneMorePlaces
<1>2. n \in Nat
  OBVIOUS
<1>3. /\ P \subseteq 1 .. n
      /\ \A i \in 1 .. n : i \in P <=> s[i] = "backslash" /\ i - 1 \notin P
  BY ProtectsRule
<1> HIDE DEF n, P
<1>4. \A i \in 1 .. n : i \in 1 .. n + 1 /\ i # n + 1 /\ i - 1 # n + 1
  BY <1>2
<1>5. n + 1 \notin P /\ n + 1 \in 1 .. n + 1 /\ (n + 1) - 1 = n /\ n # n + 1
  BY <1>2, <1>3
<1>6. Protects(v) = Z
  <2>1. Z \in SUBSET (1 .. n + 1)
    BY <1>3, <1>4, <1>5
  <2>2. ASSUME NEW i \in 1 .. n + 1
        PROVE  i \in Z <=> v[i] = "backslash" /\ i - 1 \notin Z
    <3>1. CASE i \in 1 .. n
      BY <1>1, <1>3, <1>4, <3>1
    <3>2. CASE i = n + 1
      BY <1>1, <1>5, <3>2
    <3> QED
      BY <1>2, <3>1, <3>2
  <2> HIDE DEF Z
  <2> QED
    BY <1>1, <2>1, <2>2, ProtectsUnique
<1>7. \A i \in 1 .. n : i \in Protects(v) <=> i \in P
  BY <1>4, <1>6
<1>8. Free(v) <=> c = "backslash" /\ ~ Free(s)
  BY <1>1, <1>5, <1>6 DEF Free, n, P
<1>9. n \in Protects(v) <=> n \in P
  BY <1>5, <1>6
<1>10. Loose(v) <=> c \in Separator /\ ~ Free(s)
  <2>1. Len(v) - 1 = n
    BY <1>1, <1>5
  <2> QED
    BY <1>1, <1>9, <2>1 DEF Loose, Free, n, P
<1> HIDE DEF Z
<1>11. Pending(v) <=> c = "comma" \/ (c \in {"space", "quote"} /\ Pending(s))
  <2> DEFINE Ending(r, j) ==
               r[j] = "comma" /\ \A k \in j + 1 .. Len(r) : r[k] \in Separator \cup {"quote"}
  <2>1. Ending(v, n + 1) <=> c = "comma"
    <3>1. \A k \in (n + 1) + 1 .. n + 1 : FALSE
      BY <1>2
    <3> QED
      BY <1>1, <3>1
  <2>2. ASSUME NEW j \in 1 .. n
        PROVE  Ending(v, j) <=> Ending(s, j) /\ c \in Separator \cup {"quote"}
    <3>1. n + 1 \in j + 1 .. n + 1 /\ \A k \in j + 1 .. n : k \in j + 1 .. n + 1 /\ k \in 1 .. n
      BY <1>2
    <3>2. \A k \in j + 1 .. n + 1 : k = n + 1 \/ k \in j + 1 .. n
      BY <1>2
    <3>3. Ending(v, j) => Ending(s, j) /\ c \in Separator \cup {"quote"}
      BY <1>1, <3>1 DEF n
    <3>4. Ending(s, j) /\ c \in Separator \cup {"quote"} => Ending(v, j)
      BY <1>1, <3>1, <3>2 DEF n
    <3> QED
      BY <3>3, <3>4
  <2>3. \A j \in 1 .. n + 1 : j = n + 1 \/ j \in 1 .. n
    BY <1>2
  <2>4. Pending(v) <=> \E j \in 1 .. n + 1 : Ending(v, j)
    BY <1>1 DEF Pending
  <2>5. Pending(s) <=> \E j \in 1 .. n : Ending(s, j)
    BY DEF Pending, n
  <2> HIDE DEF Ending
  <2>6. Pending(v) <=> c = "comma" \/ (c \in Separator \cup {"quote"} /\ Pending(s))
    BY <1>4, <1>5, <2>1, <2>2, <2>3, <2>4, <2>5
  <2> QED
    BY <2>6 DEF Separator
<1>12. ASSUME Apart(s), c = "comma" => ~ Pending(s)
       PROVE  Apart(v)
  <2>1. SUFFICES ASSUME NEW i \in 1 .. n + 1, NEW j \in 1 .. n + 1,
                        v[i] = "comma", v[j] = "comma", i < j
                 PROVE  \E k \in i .. j : v[k] \notin Separator \cup {"quote"}
    BY <1>1 DEF Apart
  <2>2. i \in 1 .. n /\ \A k \in i .. n : k \in 1 .. n
    BY <1>2, <2>1
  <2>3. CASE j \in 1 .. n
    <3>1. PICK k \in i .. j : s[k] \notin Separator \cup {"quote"}
      BY <1>1, <1>12, <2>1, <2>2, <2>3 DEF Apart, n
    <3>2. k \in 1 .. n
      BY <1>2, <2>2, <2>3
    <3> QED
      BY <1>1, <3>1, <3>2
  <2>4. CASE j = n + 1
    <3>1. s[i] = "comma" /\ ~ Pending(s)
      BY <1>1, <1>12, <2>1, <2>2, <2>4
    <3>2. PICK k \in i + 1 .. n : s[k] \notin Separator \cup {"quote"}
      BY <2>2, <3>1 DEF Pending, n
    <3>3. k \in 1 .. n /\ k \in i .. j
      BY <1>2, <2>2, <2>4
    <3> QED
      BY <1>1, <3>2, <3>3
  <2> QED
    BY <1>2, <2>3, <2>4
<1> QED
  BY <1>7, <1>8, <1>10, <1>11, <1>12 DEF n, P

\* The empty text.
LEMMA NothingAtTheEnd ==
  ~ Free(<<>>) /\ ~ Loose(<<>>) /\ ~ Pending(<<>>) /\ Apart(<<>>)
<1> DEFINE e == <<>>
<1>1. e \in Seq(Char) /\ Len(e) = 0
  OBVIOUS
<1>2. \A i \in 1 .. Len(e) : FALSE
  BY <1>1
<1>3. Protects(e) \subseteq 1 .. Len(e)
  BY <1>1, ProtectsRule
<1>4. e = <<>>
  OBVIOUS
<1> HIDE DEF e
<1>5. ~ Free(e) /\ ~ Loose(e) /\ ~ Pending(e) /\ Apart(e)
  BY <1>1, <1>2, <1>3, <1>4 DEF Free, Loose, Pending, Apart
<1> QED
  BY <1>4, <1>5

\* A text up to a place.
Start(s, i) == SubSeq(s, 1, i)

\* Its characters, and the one more that comes with the next place.
LEMMA StartRule ==
  ASSUME NEW s \in Seq(Char)
  PROVE  /\ Start(s, 0) = <<>> /\ Start(s, Len(s)) = s
         /\ \A i \in 0 .. Len(s) :
              /\ Start(s, i) \in Seq(Char) /\ Len(Start(s, i)) = i
              /\ \A k \in 1 .. i : Start(s, i)[k] = s[k]
         /\ \A i \in 1 .. Len(s) : IsJoined(Start(s, i), Start(s, i - 1), <<s[i]>>)
<1> DEFINE n == Len(s)
<1>1. n \in Nat /\ \A i \in 1 .. n : s[i] \in Char
  OBVIOUS
<1>2. Start(s, 0) = <<>>
  BY SubSeqEmpty DEF Start
<1>3. Start(s, n) = s
  BY SubSeqFull DEF Start
<1>4. ASSUME NEW i \in 0 .. n
      PROVE  /\ Start(s, i) \in Seq(Char) /\ Len(Start(s, i)) = i
             /\ \A k \in 1 .. i : Start(s, i)[k] = s[k]
  <2> DEFINE u == SubSeq(s, 1, i)
  <2>1. 1 \in Int /\ i \in Int /\ \A k \in 1 .. i : s[k] \in Char
    BY <1>1
  <2>2. /\ u \in Seq(Char) /\ Len(u) = (IF 1 <= i THEN (i - 1) + 1 ELSE 0)
        /\ \A k \in 1 .. (i - 1) + 1 : u[k] = s[(1 + k) - 1]
    BY <2>1, SubSeqProperties
  <2> HIDE DEF u
  <2>3. Len(u) = i
    BY <1>1, <2>2
  <2>4. \A k \in 1 .. i : k \in 1 .. (i - 1) + 1 /\ (1 + k) - 1 = k
    BY <2>1
  <2>5. \A k \in 1 .. i : u[k] = s[k]
    BY <2>2, <2>4
  <2> QED
    BY <2>2, <2>3, <2>5 DEF u, Start
<1>5. ASSUME NEW i \in 1 .. n
      PROVE  IsJoined(Start(s, i), Start(s, i - 1), <<s[i]>>)
  <2>1. 1 \in 1 .. Len(s) /\ i \in 1 .. Len(s)
    BY <1>1
  <2>2. SubSeq(s, 1, i) = SubSeq(s, 1, i - 1) \o <<s[i]>>
    BY <2>1, SubSeqRecursiveSecond
  <2> QED
    BY <2>2 DEF Start, IsJoined
<1> QED
  BY <1>2, <1>3, <1>4, <1>5

\* Its end is the text's own.
LEMMA StartEnds ==
  ASSUME NEW s \in Seq(Char), NEW i \in 0 .. Len(s)
  PROVE  /\ Free(Start(s, i)) <=> i \in Protects(s)
         /\ Apart(s) /\ i < Len(s) /\ s[i + 1] = "comma" => ~ Pending(Start(s, i))
<1> DEFINE n == Len(s)
           u == Start(s, i)
           P == Protects(s)
           Z == {k \in 1 .. i : k \in P}
<1>1. n \in Nat /\ i \in 0 .. n
  OBVIOUS
<1>2. u \in Seq(Char) /\ Len(u) = i /\ \A k \in 1 .. i : u[k] = s[k]
  BY StartRule
<1>3. /\ P \subseteq 1 .. n
      /\ \A k \in 1 .. n : k \in P <=> s[k] = "backslash" /\ k - 1 \notin P
  BY ProtectsRule
<1> HIDE DEF n, u, P
<1>4. Protects(u) = Z
  <2>1. Z \in SUBSET (1 .. i)
    OBVIOUS
  <2>2. ASSUME NEW k \in 1 .. i
        PROVE  k \in Z <=> u[k] = "backslash" /\ k - 1 \notin Z
    <3>1. k \in 1 .. n
      BY <1>1
    <3>2. k - 1 \in Z <=> k - 1 \in P
      <4>1. k - 1 \in 1 .. i \/ k - 1 = 0
        BY <1>1
      <4>2. 0 \notin P
        BY <1>1, <1>3
      <4> QED
        BY <4>1, <4>2
    <3> HIDE DEF Z
    <3>3. k \in Z <=> k \in P
      BY DEF Z
    <3> QED
      BY <1>2, <1>3, <3>1, <3>2, <3>3
  <2> HIDE DEF Z
  <2> QED
    BY <1>2, <2>1, <2>2, ProtectsUnique
<1>5. Free(u) <=> i \in P
  <2>1. i \in 1 .. i \/ i = 0
    BY <1>1
  <2>2. 0 \notin P /\ 0 \notin 1 .. i
    BY <1>1, <1>3
  <2> QED
    BY <1>2, <1>4, <2>1, <2>2 DEF Free
<1>6. ASSUME Apart(s), i < n, s[i + 1] = "comma", Pending(u)
      PROVE  FALSE
  <2>1. PICK j \in 1 .. i : u[j] = "comma" /\ \A k \in j + 1 .. i : u[k] \in Separator \cup {"quote"}
    BY <1>2, <1>6 DEF Pending
  <2>2. i + 1 \in 1 .. n /\ j \in 1 .. n /\ j < i + 1
    BY <1>1, <1>6
  <2>3. PICK k \in j .. i + 1 : s[k] \notin Separator \cup {"quote"}
    BY <1>2, <1>6, <2>1, <2>2 DEF Apart, n
  <2>4. k = j \/ k = i + 1 \/ (k \in j + 1 .. i /\ k \in 1 .. i)
    BY <1>1, <2>1
  <2> QED
    BY <1>2, <1>6, <2>1, <2>3, <2>4 DEF Separator
<1> QED
  BY <1>5, <1>6 DEF u, n, P

-----------------------------------------------------------------------------
(* Arguments: quotes are left out.                                          *)

\* A place has an odd number of quotes before it, and is not behind the last of a pair.
Inside(s, i) == QuotesBefore(s, i) % 2 = 1

\* It changes with every quote.
LEMMA QuotesStep ==
  ASSUME NEW S, NEW s \in Seq(S)
  PROVE  /\ ~ Inside(s, 0)
         /\ \A i \in 1 .. Len(s) :
              Inside(s, i) <=> IF s[i] = "quote" THEN ~ Inside(s, i - 1) ELSE Inside(s, i - 1)
         /\ QuotesBefore(s, Len(s)) % 2 = 0 <=> ~ Inside(s, Len(s))
<1> DEFINE n == Len(s)
           Q(i) == {j \in 1 .. i : s[j] = "quote"}
<1>1. n \in Nat
  OBVIOUS
<1>2. ASSUME NEW i \in 0 .. n
      PROVE  IsFiniteSet(Q(i)) /\ Cardinality(Q(i)) \in Nat
  <2>1. IsFiniteSet(1 .. i)
    BY <1>1, FS_Interval
  <2>2. IsFiniteSet(Q(i))
    BY <2>1, FS_Subset
  <2> QED
    BY <2>2, FS_CardinalityType
<1>3. Q(0) = {}
  OBVIOUS
<1>4. Cardinality(Q(0)) = 0
  BY <1>3, FS_EmptySet
<1>5. \A a \in Nat : (a % 2 = 0 <=> ~ (a % 2 = 1)) /\ ((a + 1) % 2 = 1 <=> ~ (a % 2 = 1))
  BY Z3
<1>6. ASSUME NEW i \in 1 .. n
      PROVE  Cardinality(Q(i)) =
               IF s[i] = "quote" THEN Cardinality(Q(i - 1)) + 1 ELSE Cardinality(Q(i - 1))
  <2>1. i - 1 \in 0 .. n /\ i \notin 1 .. i - 1 /\ 1 .. i = (1 .. i - 1) \cup {i}
    BY <1>1
  <2>2. IsFiniteSet(Q(i - 1))
    BY <1>2, <2>1
  <2>3. CASE s[i] = "quote"
    <3>1. Q(i) = Q(i - 1) \cup {i} /\ i \notin Q(i - 1)
      BY <2>1, <2>3
    <3> HIDE DEF Q
    <3> QED
      BY <2>2, <2>3, <3>1, FS_AddElement
  <2>4. CASE s[i] # "quote"
    <3>1. Q(i) = Q(i - 1)
      BY <2>1, <2>4
    <3> HIDE DEF Q
    <3> QED
      BY <2>4, <3>1
  <2> QED
    BY <2>3, <2>4
<1>7. \A i \in 0 .. n : QuotesBefore(s, i) = Cardinality(Q(i))
  BY DEF QuotesBefore
<1> HIDE DEF Q, n
<1>8. \A i \in 0 .. n : QuotesBefore(s, i) \in Nat
  BY <1>2, <1>7
<1>9. ~ Inside(s, 0)
  BY <1>1, <1>4, <1>5, <1>7 DEF Inside
<1>10. ASSUME NEW i \in 1 .. n
       PROVE  Inside(s, i) <=> IF s[i] = "quote" THEN ~ Inside(s, i - 1) ELSE Inside(s, i - 1)
  <2>1. i \in 0 .. n /\ i - 1 \in 0 .. n
    BY <1>1
  <2> DEFINE a == QuotesBefore(s, i - 1)
  <2>2. a \in Nat /\ QuotesBefore(s, i) = IF s[i] = "quote" THEN a + 1 ELSE a
    BY <1>6, <1>7, <1>8, <2>1
  <2>3. Inside(s, i - 1) <=> a % 2 = 1
    BY DEF Inside
  <2>4. Inside(s, i) <=> QuotesBefore(s, i) % 2 = 1
    BY DEF Inside
  <2> HIDE DEF a
  <2> QED
    BY <1>5, <2>2, <2>3, <2>4
<1>11. QuotesBefore(s, n) % 2 = 0 <=> ~ Inside(s, n)
  <2>1. n \in 0 .. n
    BY <1>1
  <2> QED
    BY <1>5, <1>8, <2>1 DEF Inside
<1> QED
  BY <1>9, <1>10, <1>11 DEF n

\* Its end and its start do not make it part of what is cut off.
Ends(s) == s # <<>> /\ s[1] \notin Separator /\ ~ Loose(s)

\* The quotes of s are apart, and behind no backslash.
Quotes(s) ==
  \A i \in 1 .. Len(s) : s[i] = "quote" /\ i > 1 => s[i - 1] \notin {"quote", "backslash"}

\* What v, the copy of s up to the place i, has kept of it.
IsCopy(s, i, v) ==
  LET r == Start(s, i) IN
  /\ v \in Seq(Char) /\ Plain(v) /\ Apart(v)
  /\ Pending(v) => Pending(r)
  /\ Free(v) <=> ~ Inside(s, i) /\ Free(r)
  /\ v = <<>> => i = 0 \/ (Inside(s, i) /\ s[i] = "quote")
  /\ v # <<>> => v[1] \notin Separator
  /\ Loose(v) => IF Inside(s, i) THEN i > 0 /\ s[i] = "quote" ELSE Loose(r)

\* One more character that is copied as it is.
LEMMA CopiedPlain ==
  ASSUME NEW s \in Seq(Char), Apart(s), NEW i \in 1 .. Len(s),
         i = 1 => s[i] \notin Separator,
         s[i] # "quote", Inside(s, i) <=> Inside(s, i - 1),
         Inside(s, i) => s[i] \notin Special,
         NEW v, IsCopy(s, i - 1, v), NEW w, IsJoined(w, v, <<s[i]>>)
  PROVE  IsCopy(s, i, w)
<1> DEFINE c == s[i]
           p == Start(s, i - 1)
           r == Start(s, i)
           in == Inside(s, i)
<1>1. Len(s) \in Nat /\ i - 1 \in 0 .. Len(s) /\ i \in 0 .. Len(s) /\ c \in Char
      /\ (i - 1) + 1 = i /\ i - 1 < Len(s)
  OBVIOUS
<1>2. p \in Seq(Char) /\ r \in Seq(Char) /\ IsJoined(r, p, <<c>>)
  BY <1>1, StartRule
<1>3. c = "comma" => ~ Pending(p)
  BY <1>1, StartEnds
<1>4. /\ v \in Seq(Char) /\ Plain(v) /\ Apart(v)
      /\ Pending(v) => Pending(p)
      /\ Free(v) <=> ~ in /\ Free(p)
      /\ v = <<>> => i - 1 = 0 \/ (in /\ s[i - 1] = "quote")
      /\ v # <<>> => v[1] \notin Separator
  BY DEF IsCopy
<1> HIDE DEF p, r, in, c
<1>5. /\ Free(r) <=> c = "backslash" /\ ~ Free(p)
      /\ Loose(r) <=> c \in Separator /\ ~ Free(p)
      /\ Pending(r) <=> c = "comma" \/ (c \in {"space", "quote"} /\ Pending(p))
  BY <1>1, <1>2, OneMore
<1>6. IsJoined(w, v, <<c>>)
  BY DEF c
<1>7. /\ Free(w) <=> c = "backslash" /\ ~ Free(v)
      /\ Loose(w) <=> c \in Separator /\ ~ Free(v)
      /\ Pending(w) <=> c = "comma" \/ (c \in {"space", "quote"} /\ Pending(v))
      /\ Apart(v) /\ (c = "comma" => ~ Pending(v)) => Apart(w)
  BY <1>1, <1>4, <1>6, OneMore
<1>8. /\ w \in Seq(Char) /\ w # <<>> /\ Len(w) = Len(v) + 1 /\ w[Len(v) + 1] = c
      /\ \A k \in 1 .. Len(v) : w[k] = v[k]
  BY <1>1, <1>4, <1>6, OneMorePlaces
<1>9. c # "quote" /\ (in => c \notin Special) /\ (i = 1 => c \notin Separator)
  BY DEF c, in
<1>10. Plain(w)
  <2>1. Len(v) \in Nat
    BY <1>4
  <2>2. \A k \in 1 .. Len(w) : k \in 1 .. Len(v) \/ k = Len(v) + 1
    BY <1>8, <2>1
  <2> QED
    BY <1>4, <1>8, <1>9, <2>2 DEF Plain
<1>11. w[1] \notin Separator
  <2>1. CASE v = <<>>
    <3>1. Len(v) = 0
      BY <2>1
    <3>2. w[1] = c
      BY <1>8, <3>1
    <3>3. in \/ i = 1
      BY <1>1, <1>4, <2>1
    <3> QED
      BY <1>9, <3>2, <3>3 DEF Special
  <2>2. CASE v # <<>>
    <3>1. 1 \in 1 .. Len(v)
      BY <1>4, <2>2, EmptySeq
    <3> QED
      BY <1>4, <1>8, <2>2, <3>1
  <2> QED
    BY <2>1, <2>2
<1>12. Apart(w)
  BY <1>3, <1>4, <1>7
<1>13. Pending(w) => Pending(r)
  BY <1>4, <1>5, <1>7
<1>14. Free(w) <=> ~ in /\ Free(r)
  BY <1>4, <1>5, <1>7, <1>9 DEF Special
<1>15. Loose(w) => ~ in /\ Loose(r)
  BY <1>4, <1>5, <1>7, <1>9 DEF Special
<1> QED
  BY <1>8, <1>10, <1>11, <1>12, <1>13, <1>14, <1>15, Zenon DEF IsCopy, in, r

\* One more character between quotes, with a backslash before it.
LEMMA CopiedEscaped ==
  ASSUME NEW s \in Seq(Char), NEW i \in 1 .. Len(s),
         s[i] \in Special, Inside(s, i), Inside(s, i - 1),
         NEW v, IsCopy(s, i - 1, v), NEW w, IsJoined(w, v, <<"backslash", s[i]>>)
  PROVE  IsCopy(s, i, w)
<1> DEFINE c == s[i]
           r == Start(s, i)
           b == Append(v, "backslash")
<1>1. Len(s) \in Nat /\ i - 1 \in 0 .. Len(s) /\ i \in 0 .. Len(s) /\ c \in Char
      /\ "backslash" \in Char
  BY DEF Char
<1>2. r \in Seq(Char) /\ IsJoined(r, Start(s, i - 1), <<c>>) /\ Start(s, i - 1) \in Seq(Char)
  BY <1>1, StartRule
<1>3. c = "comma" => Pending(r)
  BY <1>1, <1>2, OneMore
<1>4. /\ v \in Seq(Char) /\ Plain(v) /\ Apart(v) /\ ~ Free(v)
      /\ v # <<>> => v[1] \notin Separator
  BY DEF IsCopy
<1> HIDE DEF Char
<1>5. IsJoined(b, v, <<"backslash">>) /\ b \in Seq(Char)
  BY <1>1, <1>4, AppendIsConcat, AppendProperties DEF IsJoined
<1>6. IsJoined(w, b, <<c>>)
  <2>1. <<"backslash">> \in Seq(Char) /\ <<c>> \in Seq(Char)
    BY <1>1
  <2>2. v \o (<<"backslash">> \o <<c>>) = (v \o <<"backslash">>) \o <<c>>
    BY <1>4, <2>1, ConcatAssociative
  <2>3. IsJoined(<<"backslash", c>>, <<"backslash">>, <<c>>)
    BY <1>1, PairIsJoined
  <2>4. b = v \o <<"backslash">>
    BY <1>5 DEF IsJoined
  <2>5. w = v \o <<"backslash", c>>
    BY DEF IsJoined
  <2> HIDE DEF b, c
  <2> QED
    BY <2>2, <2>3, <2>4, <2>5, Zenon DEF IsJoined
<1> HIDE DEF b, c, r
<1>7. /\ b # <<>> /\ Len(b) = Len(v) + 1 /\ b[Len(v) + 1] = "backslash"
      /\ \A k \in 1 .. Len(v) : b[k] = v[k]
  BY <1>1, <1>4, <1>5, OneMorePlaces
<1>8. Free(b) /\ ~ Pending(b) /\ Apart(b)
  BY <1>1, <1>4, <1>5, OneMore
<1>9. /\ ~ Free(w) /\ ~ Loose(w) /\ Apart(w)
      /\ Pending(w) => c = "comma"
  BY <1>1, <1>5, <1>6, <1>8, OneMore
<1>10. /\ w \in Seq(Char) /\ w # <<>> /\ Len(w) = Len(b) + 1 /\ w[Len(b) + 1] = c
       /\ \A k \in 1 .. Len(b) : w[k] = b[k]
  BY <1>1, <1>5, <1>6, OneMorePlaces
<1>11. c # "quote"
  BY DEF c, Special, Separator
<1>12. Len(v) \in Nat /\ Len(b) \in Nat
  BY <1>4, <1>5
<1>13. Plain(w)
  <2>1. \A k \in 1 .. Len(w) : k \in 1 .. Len(v) \/ k = Len(v) + 1 \/ k = Len(b) + 1
    BY <1>7, <1>10, <1>12
  <2>2. \A k \in 1 .. Len(v) : w[k] = v[k]
    <3>1. \A k \in 1 .. Len(v) : k \in 1 .. Len(b)
      BY <1>7, <1>12
    <3> QED
      BY <1>7, <1>10, <3>1
  <2>3. w[Len(v) + 1] = "backslash"
    BY <1>7, <1>10, <1>12
  <2> QED
    BY <1>4, <1>10, <1>11, <2>1, <2>2, <2>3 DEF Plain
<1>14. w[1] \notin Separator
  <2>1. w[1] = b[1]
    BY <1>7, <1>10, <1>12
  <2>2. CASE v = <<>>
    <3>1. Len(v) = 0
      BY <2>2
    <3> QED
      BY <1>7, <2>1, <3>1 DEF Separator
  <2>3. CASE v # <<>>
    <3>1. 1 \in 1 .. Len(v)
      BY <1>4, <2>3, EmptySeq
    <3> QED
      BY <1>4, <1>7, <2>1, <2>3, <3>1
  <2> QED
    BY <2>2, <2>3
<1> QED
  BY <1>3, <1>9, <1>10, <1>13, <1>14, Zenon DEF IsCopy, r

\* A quote, which is left out.
LEMMA CopiedQuote ==
  ASSUME NEW s \in Seq(Char), Quotes(s), NEW i \in 1 .. Len(s),
         s[i] = "quote", Inside(s, i) <=> ~ Inside(s, i - 1), ~ Inside(s, 0),
         NEW v, IsCopy(s, i - 1, v)
  PROVE  IsCopy(s, i, v)
<1> DEFINE p == Start(s, i - 1)
           r == Start(s, i)
<1>1. Len(s) \in Nat /\ i - 1 \in 0 .. Len(s) /\ i \in 0 .. Len(s) /\ s[i] \in Char /\ i > 0
  OBVIOUS
<1>2. p \in Seq(Char) /\ r \in Seq(Char) /\ IsJoined(r, p, <<s[i]>>)
  BY <1>1, StartRule
<1>3. i > 1 => s[i - 1] \notin {"quote", "backslash"}
  BY DEF Quotes
<1>4. ~ Free(p)
  <2>1. Free(p) <=> i - 1 \in Protects(s)
    BY <1>1, StartEnds
  <2>2. \A k \in Protects(s) : k \in 1 .. Len(s) /\ s[k] = "backslash"
    BY ProtectsRule
  <2>3. i - 1 \in 1 .. Len(s) => i > 1
    BY <1>1
  <2> QED
    BY <1>3, <2>1, <2>2, <2>3
<1>5. ~ Free(r) /\ (Pending(p) => Pending(r))
  BY <1>1, <1>2, OneMore
<1>6. /\ v \in Seq(Char) /\ Plain(v) /\ Apart(v)
      /\ Pending(v) => Pending(p)
      /\ Free(v) <=> ~ Inside(s, i - 1) /\ Free(p)
      /\ v = <<>> => i - 1 = 0 \/ (Inside(s, i - 1) /\ s[i - 1] = "quote")
      /\ v # <<>> => v[1] \notin Separator
      /\ Loose(v) => IF Inside(s, i - 1) THEN i - 1 > 0 /\ s[i - 1] = "quote" ELSE Loose(p)
  BY DEF IsCopy
<1> HIDE DEF p, r
<1>7. v = <<>> => Inside(s, i)
  <2>1. CASE i - 1 = 0
    BY <2>1
  <2>2. CASE i - 1 # 0
    <3>1. i > 1
      BY <1>1, <2>2
    <3> QED
      BY <1>3, <1>6, <2>2, <3>1
  <2> QED
    BY <2>1, <2>2
<1>8. Loose(v) => Inside(s, i)
  <2>1. i - 1 > 0 => i > 1
    BY <1>1
  <2> QED
    BY <1>3, <1>6, <2>1
<1> QED
  BY <1>1, <1>4, <1>5, <1>6, <1>7, <1>8 DEF IsCopy, r

\* Nothing of a trimmed text with paired quotes is cut off once the quotes are left out.
LEMMA UnquotedKeeps ==
  ASSUME NEW s \in Seq(Char), Ends(s), Apart(s), Quotes(s), ~ Inside(s, Len(s))
  PROVE  Unquoted(s) \in Seq(Char) /\ Ends(Unquoted(s)) /\ Plain(Unquoted(s)) /\ Apart(Unquoted(s))
<1> DEFINE n == Len(s)
           Copy(i) == CASE s[i] = "quote" -> <<>>
                        [] QuotesBefore(s, i) % 2 = 1 /\ s[i] \in Separator \cup {"backslash"}
                             -> <<"backslash", s[i]>>
                        [] OTHER -> <<s[i]>>
           H == [i \in 1 .. n |-> Copy(i)]
<1>1. n \in Nat /\ \A i \in 1 .. n : s[i] \in Char
  OBVIOUS
<1>2. Unquoted(s) = FlattenSeq(H)
  <2>1. DOMAIN s = 1 .. n
    OBVIOUS
  <2> QED
    BY <2>1, Zenon DEF Unquoted
<1>3. ASSUME NEW i \in 1 .. n
      PROVE  H[i] = IF s[i] = "quote" THEN <<>>
                    ELSE IF Inside(s, i) /\ s[i] \in Special THEN <<"backslash", s[i]>>
                    ELSE <<s[i]>>
  <2>1. H[i] = Copy(i)
    BY Zenon
  <2> HIDE DEF H
  <2>2. CASE s[i] = "quote"
    <3>1. s[i] \notin Separator \cup {"backslash"}
      BY <2>2 DEF Separator
    <3>2. Copy(i) = <<>>
      <4> HIDE DEF Separator
      <4> QED
        BY <2>2, <3>1
    <3> QED
      BY <2>1, <2>2, <3>2
  <2>3. CASE s[i] # "quote"
    <3>1. Copy(i) = IF Inside(s, i) /\ s[i] \in Special THEN <<"backslash", s[i]>> ELSE <<s[i]>>
      BY <2>3, Zenon DEF Inside, Special
    <3> QED
      BY <2>1, <2>3, <3>1
  <2> QED
    BY <2>2, <2>3
<1> HIDE DEF H
<1>4. H \in [1 .. n -> Seq(Char)]
  <2>1. \A e, c \in Char : <<e, c>> \in Seq(Char) /\ <<c>> \in Seq(Char)
    <3> HIDE DEF Char
    <3> QED
      OBVIOUS
  <2>2. "backslash" \in Char /\ <<>> \in Seq(Char)
    BY DEF Char
  <2>3. \A i \in 1 .. n : H[i] \in Seq(Char)
    BY <1>1, <1>3, <2>1, <2>2
  <2>4. H = [i \in 1 .. n |-> H[i]]
    BY DEF H
  <2> QED
    BY <2>3, <2>4
<1>5. PICK f : Joins(f, H, n, Char)
  BY <1>1, <1>4, FlattenRule
<1>6. /\ f \in [0 .. n -> Seq(Char)] /\ f[0] = <<>> /\ FlattenSeq(H) = f[n]
      /\ \A i \in 1 .. n : IsJoined(f[i], f[i - 1], H[i])
  BY <1>5 DEF Joins, IsJoined
<1>7. /\ ~ Inside(s, 0)
      /\ \A i \in 1 .. n :
           Inside(s, i) <=> IF s[i] = "quote" THEN ~ Inside(s, i - 1) ELSE Inside(s, i - 1)
  BY QuotesStep
<1> DEFINE G == {i \in 0 .. n : IsCopy(s, i, f[i])}
<1>8. 0 \in G
  <2>1. Start(s, 0) = <<>>
    BY StartRule
  <2>2. <<>> \in Seq(Char) /\ Plain(<<>>)
    BY DEF Plain
  <2>3. IsCopy(s, 0, <<>>)
    BY <1>7, <2>1, <2>2, NothingAtTheEnd DEF IsCopy
  <2> QED
    BY <1>1, <1>6, <2>3
<1>9. ASSUME NEW i \in 1 .. n, i - 1 \in G
      PROVE  i \in G
  <2> DEFINE v == f[i - 1]
             w == f[i]
  <2>1. IsCopy(s, i - 1, v)
    BY <1>9
  <2>2. IsJoined(w, v, H[i])
    BY <1>6
  <2>3. i \in 0 .. n /\ i - 1 \in 0 .. n
    BY <1>1
  <2>4. v \in Seq(Char)
    BY <1>6, <2>3
  <2>5. i = 1 => s[i] \notin Separator
    BY DEF Ends
  <2> HIDE DEF v, w, G, n
  <2>6. CASE s[i] = "quote"
    <3>1. w = v
      <4>1. H[i] = <<>>
        BY <1>3, <2>6
      <4>2. IsJoined(w, v, <<>>)
        BY <2>2, <4>1
      <4> QED
        BY <2>4, <4>2, ConcatEmptySeq DEF IsJoined
    <3>2. Inside(s, i) <=> ~ Inside(s, i - 1)
      BY <1>7, <2>6
    <3>3. IsCopy(s, i, v)
      BY <1>7, <2>1, <2>6, <3>2, CopiedQuote DEF n
    <3> QED
      BY <2>3, <3>1, <3>3 DEF G, w
  <2>7. CASE s[i] # "quote" /\ Inside(s, i) /\ s[i] \in Special
    <3>1. H[i] = <<"backslash", s[i]>>
      BY <1>3, <2>7
    <3>2. IsJoined(w, v, <<"backslash", s[i]>>)
      BY <2>2, <3>1
    <3>3. Inside(s, i - 1)
      BY <1>7, <2>7
    <3>4. IsCopy(s, i, w)
      BY <2>1, <2>7, <3>2, <3>3, CopiedEscaped DEF n
    <3> QED
      BY <2>3, <3>4 DEF G, w
  <2>8. CASE s[i] # "quote" /\ ~ (Inside(s, i) /\ s[i] \in Special)
    <3>1. H[i] = <<s[i]>>
      BY <1>3, <2>8
    <3>2. IsJoined(w, v, <<s[i]>>)
      BY <2>2, <3>1
    <3>3. Inside(s, i) <=> Inside(s, i - 1)
      BY <1>7, <2>8
    <3>4. IsCopy(s, i, w)
      BY <2>1, <2>5, <2>8, <3>2, <3>3, CopiedPlain DEF n
    <3> QED
      BY <2>3, <3>4 DEF G, w
  <2> QED
    BY <2>6, <2>7, <2>8
<1>10. IsCopy(s, n, f[n])
  <2>1. n \in G
    <3> HIDE DEF G, n
    <3> QED
      BY <1>1, <1>8, <1>9, UpToTheEnd
  <2> QED
    BY <2>1
<1> DEFINE u == f[n]
<1>11. Start(s, n) = s /\ s # <<>> /\ ~ Loose(s) /\ n # 0
  BY StartRule, EmptySeq DEF Ends
<1> HIDE DEF u, n
<1>12. u \in Seq(Char) /\ Ends(u) /\ Plain(u) /\ Apart(u)
  BY <1>10, <1>11 DEF IsCopy, Ends, u, n
<1> QED
  BY <1>2, <1>6, <1>12 DEF u

-----------------------------------------------------------------------------
(* Arguments: spaces are left out.                                          *)

OnlySeparators(s) == \A k \in 1 .. Len(s) : s[k] \in Separator

\* Every space of s is protected.
NoSpaces(s) == \A k \in 1 .. Len(s) : s[k] = "space" => k - 1 \in Protects(s)

\* What the passes for commas and spaces work on: without quotes and commas that meet.
\* Where nothing is left without the quotes these are separators only.
Neat(s) == Plain(s) /\ Apart(s) /\ (Ends(s) \/ OnlySeparators(s))

\* What v, the copy of s up to the place i, has kept of it when spaces are left out.
Spaced(s, i, v) ==
  LET r == Start(s, i) IN
  /\ v \in Seq(Char) /\ Plain(v) /\ Apart(v) /\ NoSpaces(v)
  /\ Pending(v) => Pending(r)
  /\ Free(v) <=> Free(r)
  /\ Loose(v) => Loose(r)
  /\ i = 0 => v = <<>>
  /\ i > 0 /\ s[1] \notin Separator => v # <<>> /\ v[1] = s[1]
  /\ OnlySeparators(s) => OnlySeparators(v)

\* One more character that is kept.
LEMMA SpacedKept ==
  ASSUME NEW s \in Seq(Char), Plain(s), Apart(s), NEW i \in 1 .. Len(s),
         s[i] = "space" => Free(Start(s, i - 1)),
         NEW v, Spaced(s, i - 1, v), NEW w, IsJoined(w, v, <<s[i]>>)
  PROVE  Spaced(s, i, w)
<1> DEFINE c == s[i]
           p == Start(s, i - 1)
           r == Start(s, i)
           m == Len(v)
<1>1. Len(s) \in Nat /\ i - 1 \in 0 .. Len(s) /\ i \in 0 .. Len(s) /\ c \in Char
      /\ (i - 1) + 1 = i /\ i - 1 < Len(s) /\ c # "quote"
  BY DEF Plain
<1>2. p \in Seq(Char) /\ r \in Seq(Char) /\ IsJoined(r, p, <<c>>)
  BY <1>1, StartRule
<1>3. c = "comma" => ~ Pending(p)
  BY <1>1, StartEnds
<1>4. /\ v \in Seq(Char) /\ Plain(v) /\ Apart(v) /\ NoSpaces(v)
      /\ Pending(v) => Pending(p)
      /\ Free(v) <=> Free(p)
      /\ i - 1 = 0 => v = <<>>
      /\ i - 1 > 0 /\ s[1] \notin Separator => v # <<>> /\ v[1] = s[1]
      /\ OnlySeparators(s) => OnlySeparators(v)
  BY DEF Spaced
<1>5. (c = "space" => Free(p)) /\ (OnlySeparators(s) => c \in Separator)
  BY DEF OnlySeparators
<1>6. m \in Nat
  BY <1>4
<1>7. IsJoined(w, v, <<c>>) /\ (i = 1 => c = s[1])
  OBVIOUS
<1> HIDE DEF p, r, c, m
<1>8. /\ Free(r) <=> c = "backslash" /\ ~ Free(p)
      /\ Loose(r) <=> c \in Separator /\ ~ Free(p)
      /\ Pending(r) <=> c = "comma" \/ (c \in {"space", "quote"} /\ Pending(p))
  BY <1>1, <1>2, OneMore
<1>9. /\ Free(w) <=> c = "backslash" /\ ~ Free(v)
      /\ Loose(w) <=> c \in Separator /\ ~ Free(v)
      /\ Pending(w) <=> c = "comma" \/ (c \in {"space", "quote"} /\ Pending(v))
      /\ Apart(v) /\ (c = "comma" => ~ Pending(v)) => Apart(w)
      /\ \A k \in 1 .. m : k \in Protects(w) <=> k \in Protects(v)
  BY <1>1, <1>4, <1>7, OneMore DEF m
<1>10. /\ w \in Seq(Char) /\ w # <<>> /\ Len(w) = m + 1 /\ w[m + 1] = c
       /\ \A k \in 1 .. m : w[k] = v[k]
  BY <1>1, <1>4, <1>7, OneMorePlaces DEF m
<1>11. \A k \in 1 .. Len(w) : k \in 1 .. m \/ k = m + 1
  BY <1>6, <1>10
<1>12. Plain(w)
  BY <1>1, <1>4, <1>10, <1>11 DEF Plain, m
<1>13. NoSpaces(w)
  <2>1. SUFFICES ASSUME NEW k \in 1 .. Len(w), w[k] = "space"
                 PROVE  k - 1 \in Protects(w)
    BY DEF NoSpaces
  <2>2. \A j \in Protects(v) : j \in 1 .. m
    BY <1>4, ProtectsRule DEF m
  <2>3. CASE k \in 1 .. m
    <3>1. k - 1 \in Protects(v)
      BY <1>4, <1>10, <2>1, <2>3 DEF NoSpaces, m
    <3> QED
      BY <1>9, <2>2, <3>1
  <2>4. CASE k = m + 1
    <3>1. m \in Protects(v)
      BY <1>4, <1>5, <1>10, <2>1, <2>4 DEF Free, m
    <3>2. k - 1 = m
      BY <1>6, <2>4
    <3> QED
      BY <1>9, <2>2, <3>1, <3>2
  <2> QED
    BY <1>11, <2>3, <2>4
<1>14. i > 0 /\ s[1] \notin Separator => w # <<>> /\ w[1] = s[1]
  <2>1. CASE v = <<>> /\ s[1] \notin Separator
    <3>1. m = 0
      BY <2>1 DEF m
    <3>2. i = 1
      BY <1>1, <1>4, <2>1
    <3> QED
      BY <1>7, <1>10, <3>1, <3>2
  <2>2. CASE v # <<>> /\ s[1] \notin Separator
    <3>1. 1 \in 1 .. m
      BY <1>4, <1>6, <2>2, EmptySeq DEF m
    <3>2. i - 1 > 0 => w[1] = s[1]
      BY <1>4, <1>10, <2>2, <3>1
    <3>3. i # 1
      BY <1>1, <1>4, <2>2
    <3> QED
      BY <1>1, <1>10, <3>2, <3>3
  <2> QED
    BY <2>1, <2>2
<1>15. OnlySeparators(s) => OnlySeparators(w)
  BY <1>4, <1>5, <1>10, <1>11 DEF OnlySeparators, m
<1>16. Apart(w) /\ (Pending(w) => Pending(r)) /\ (Free(w) <=> Free(r)) /\ (Loose(w) => Loose(r))
  BY <1>3, <1>4, <1>8, <1>9
<1>17. i # 0
  OBVIOUS
<1> QED
  BY <1>10, <1>12, <1>13, <1>14, <1>15, <1>16, <1>17, Zenon DEF Spaced, r

\* A space that is left out.
LEMMA SpacedOut ==
  ASSUME NEW s \in Seq(Char), NEW i \in 1 .. Len(s),
         s[i] = "space", ~ Free(Start(s, i - 1)), NEW v, Spaced(s, i - 1, v)
  PROVE  Spaced(s, i, v)
<1> DEFINE p == Start(s, i - 1)
           r == Start(s, i)
<1>1. Len(s) \in Nat /\ i - 1 \in 0 .. Len(s) /\ i \in 0 .. Len(s) /\ s[i] \in Char
      /\ (i - 1 > 0 \/ i = 1)
  OBVIOUS
<1>2. p \in Seq(Char) /\ r \in Seq(Char) /\ IsJoined(r, p, <<s[i]>>) /\ ~ Free(p)
  BY <1>1, StartRule
<1>3. /\ v \in Seq(Char) /\ Plain(v) /\ Apart(v) /\ NoSpaces(v)
      /\ Pending(v) => Pending(p)
      /\ Free(v) <=> Free(p)
      /\ Loose(v) => Loose(p)
      /\ i - 1 > 0 /\ s[1] \notin Separator => v # <<>> /\ v[1] = s[1]
      /\ OnlySeparators(s) => OnlySeparators(v)
  BY DEF Spaced
<1> HIDE DEF p, r
<1>4. ~ Free(r) /\ Loose(r) /\ (Pending(p) => Pending(r))
  BY <1>1, <1>2, OneMore DEF Separator
<1>5. (i = 1 => s[1] \in Separator) /\ i # 0
  BY <1>1 DEF Separator
<1> QED
  BY <1>1, <1>2, <1>3, <1>4, <1>5 DEF Spaced, r

\* The marks of one more character.
LEMMA RestoredOneMore ==
  ASSUME NEW a \in Seq(Content), NEW c \in Content, NEW b, IsJoined(b, a, <<c>>)
  PROVE  /\ b \in Seq(Content)
         /\ IsJoined(Restored(b), Restored(a), <<IF c = "mark" THEN "backslash" ELSE c>>)
<1> DEFINE n == Len(a)
           R(k) == IF k = "mark" THEN "backslash" ELSE k
           A == Restored(a)
           B == Restored(b)
           J == Append(A, R(c))
<1>1. \A k \in Content : R(k) \in Content
  BY DEF Content, Char
<1> HIDE DEF Content
<1>2. b = Append(a, c)
  BY AppendIsConcat DEF IsJoined
<1>3. b \in Seq(Content) /\ Len(b) = n + 1 /\ b[n + 1] = c /\ \A i \in 1 .. n : b[i] = a[i]
  BY <1>2, AppendProperties
<1>4. n \in Nat /\ \A i \in 1 .. n : a[i] \in Content
  OBVIOUS
<1>5. A = [i \in 1 .. n |-> R(a[i])]
  BY DEF Restored, ReplaceAll
<1>6. B = [i \in 1 .. n + 1 |-> R(b[i])]
  BY <1>3 DEF Restored, ReplaceAll
<1>7. \A i \in 1 .. n + 1 : b[i] \in Content
  BY <1>3
<1> HIDE DEF A, B, R, n
<1>8. A \in Seq(Content) /\ Len(A) = n /\ \A i \in 1 .. n : A[i] = R(a[i])
  <2>1. A \in [1 .. n -> Content]
    BY <1>1, <1>4, <1>5
  <2> QED
    BY <1>4, <1>5, <2>1, SequenceOfLength
<1>9. B \in Seq(Content) /\ Len(B) = n + 1 /\ \A i \in 1 .. n + 1 : B[i] = R(b[i])
  <2>1. B \in [1 .. n + 1 -> Content] /\ n + 1 \in Nat
    BY <1>1, <1>4, <1>6, <1>7
  <2> QED
    BY <1>6, <2>1, SequenceOfLength
<1>10. R(c) \in Content
  BY <1>1
<1>11. /\ J \in Seq(Content) /\ Len(J) = n + 1 /\ J[n + 1] = R(c)
       /\ \A i \in 1 .. n : J[i] = A[i]
  BY <1>8, <1>10, AppendProperties
<1>12. J = A \o <<R(c)>>
  BY <1>8, <1>10, AppendIsConcat
<1> HIDE DEF J
<1>13. \A i \in 1 .. Len(B) : B[i] = J[i]
  <2>1. \A i \in 1 .. n + 1 : i = n + 1 \/ i \in 1 .. n
    BY <1>4
  <2>2. n + 1 \in 1 .. n + 1 /\ \A i \in 1 .. n : i \in 1 .. n + 1
    BY <1>4
  <2> QED
    BY <1>3, <1>8, <1>9, <1>11, <2>1, <2>2
<1>14. B = J
  BY <1>9, <1>11, <1>13, SeqEqual
<1> QED
  BY <1>3, <1>12, <1>14 DEF IsJoined, A, B, R

\* The pass for commas finds none to leave out.
LEMMA ApartKept ==
  ASSUME NEW s \in Seq(Char), Apart(s)
  PROVE  WithoutDoubled("comma", Marked(s)) = Marked(s)
<1> DEFINE n == Len(s)
           M == Marked(s)
<1>1. n \in Nat /\ \A i \in 1 .. n - 1 : i \in 1 .. n /\ i + 1 \in 1 .. n /\ i < i + 1
  OBVIOUS
<1>2. /\ M \in Seq(Content) /\ Len(M) = n
      /\ \A i \in 1 .. n : s[i] # "backslash" => M[i] = s[i]
      /\ \A i \in 1 .. n : s[i] = "backslash" => M[i] \in {"mark", "backslash"}
  BY MarkedText
<1> HIDE DEF M
<1>3. ASSUME NEW i \in 1 .. n - 1, M[i] = "comma", M[i + 1] = "comma"
      PROVE  FALSE
  <2>1. s[i] = "comma" /\ s[i + 1] = "comma"
    BY <1>1, <1>2, <1>3
  <2>2. PICK k \in i .. i + 1 : s[k] \notin Separator \cup {"quote"}
    BY <1>1, <2>1 DEF Apart
  <2>3. k = i \/ k = i + 1
    BY <1>1
  <2> QED
    BY <2>1, <2>2, <2>3 DEF Separator
<1> HIDE DEF n
<1>4. WithoutDoubled("comma", M) = M
  BY <1>2, <1>3, WithoutDoubledKeeps
<1> QED
  BY <1>4 DEF M

\* The passes for commas and spaces leave a text that they would not change.
LEMMA SpacesLeftOut ==
  ASSUME NEW s \in Seq(Char), Neat(s), NEW before, before # "backslash"
  PROVE  LET v == Restored(WithoutSpaces(WithoutDoubled("comma", Marked(s)), before)) IN
         v \in Seq(Char) /\ Neat(v) /\ NoSpaces(v)
<1> DEFINE n == Len(s)
           M == Marked(s)
           Kept(i) == \/ M[i] # "space"
                      \/ (IF i = 1 THEN before ELSE M[i - 1]) = "backslash"
           H == [i \in 1 .. n |-> IF Kept(i) THEN <<M[i]>> ELSE <<>>]
<1>1. n \in Nat /\ Plain(s) /\ Apart(s) /\ (Ends(s) \/ OnlySeparators(s))
  BY DEF Neat
<1>2. /\ M \in Seq(Content) /\ Len(M) = n
      /\ \A i \in 1 .. n : s[i] # "backslash" => M[i] = s[i]
      /\ \A i \in 1 .. n : s[i] = "backslash" => M[i] \in {"mark", "backslash"}
      /\ \A i \in 1 .. n :
           M[i] = "backslash" <=>
             s[i] = "backslash" /\ i \in Protects(s) /\ CharAt(s, i + 1) # "backslash"
  BY MarkedText
<1>3. WithoutDoubled("comma", M) = M
  BY <1>1, ApartKept
<1> HIDE DEF M
<1>4. WithoutSpaces(M, before) = FlattenSeq(H)
  <2>1. DOMAIN M = 1 .. n
    BY <1>2
  <2> QED
    BY <2>1, Zenon DEF WithoutSpaces
<1>5. \A i \in 1 .. n : s[i] \in Char /\ M[i] \in Content
  BY <1>2
<1>6. ASSUME NEW i \in 1 .. n
      PROVE  /\ s[i] = (IF M[i] = "mark" THEN "backslash" ELSE M[i])
             /\ Kept(i) <=> (s[i] = "space" => Free(Start(s, i - 1)))
  <2>1. s[i] = (IF M[i] = "mark" THEN "backslash" ELSE M[i])
    BY <1>2, <1>5 DEF Char
  <2>2. M[i] = "space" <=> s[i] = "space"
    BY <1>2, <2>1
  <2>3. Free(Start(s, i - 1)) <=> i - 1 \in Protects(s)
    <3>1. i - 1 \in 0 .. Len(s)
      BY <1>1
    <3> QED
      BY <3>1, StartEnds
  <2>4. CASE i = 1
    <3>1. i - 1 \notin Protects(s)
      BY <2>4, ProtectsRule
    <3> QED
      BY <2>1, <2>2, <2>3, <2>4, <3>1
  <2>5. CASE i # 1
    <3>1. i - 1 \in 1 .. n /\ (i - 1) + 1 = i
      BY <1>1, <2>5
    <3>2. i - 1 \in Protects(s) => s[i - 1] = "backslash"
      BY <3>1, ProtectsRule
    <3>3. s[i] = "space" => CharAt(s, i) # "backslash"
      BY DEF CharAt
    <3>4. s[i] = "space" => (M[i - 1] = "backslash" <=> i - 1 \in Protects(s))
      BY <1>2, <3>1, <3>2, <3>3
    <3> QED
      BY <2>1, <2>2, <2>3, <2>5, <3>4
  <2> QED
    BY <2>4, <2>5
<1>7. \A i \in 1 .. n : H[i] = IF Kept(i) THEN <<M[i]>> ELSE <<>>
  BY Zenon
<1>8. H \in [1 .. n -> Seq(Content)]
  <2> HIDE DEF Kept, Content
  <2> QED
    BY <1>5
<1> HIDE DEF H, Kept
<1>9. PICK f : Joins(f, H, n, Content)
  BY <1>1, <1>8, FlattenRule
<1>10. /\ f \in [0 .. n -> Seq(Content)] /\ f[0] = <<>> /\ FlattenSeq(H) = f[n]
       /\ \A i \in 1 .. n : IsJoined(f[i], f[i - 1], H[i])
  BY <1>9 DEF Joins, IsJoined
<1> DEFINE G == {i \in 0 .. n : Spaced(s, i, Restored(f[i]))}
<1>11. 0 \in G
  <2>1. Start(s, 0) = <<>>
    BY StartRule
  <2> DEFINE e == <<>>
  <2>2. e \in Seq(Char) /\ Len(e) = 0 /\ Restored(e) = e /\ e = <<>>
    BY DEF Restored, ReplaceAll
  <2> HIDE DEF e
  <2>3. Plain(e) /\ NoSpaces(e) /\ OnlySeparators(e)
    BY <2>2 DEF Plain, NoSpaces, OnlySeparators
  <2>4. Spaced(s, 0, e)
    BY <2>1, <2>2, <2>3, NothingAtTheEnd DEF Spaced
  <2>5. Restored(f[0]) = e
    BY <1>10, <2>2
  <2> QED
    BY <1>1, <2>4, <2>5
<1>12. ASSUME NEW i \in 1 .. n, i - 1 \in G
       PROVE  i \in G
  <2> DEFINE v == Restored(f[i - 1])
             w == Restored(f[i])
  <2>1. Spaced(s, i - 1, v)
    BY <1>12
  <2>2. IsJoined(f[i], f[i - 1], H[i])
    BY <1>10
  <2>3. i \in 0 .. n /\ i - 1 \in 0 .. n
    BY <1>1
  <2>4. f[i - 1] \in Seq(Content)
    BY <1>10, <2>3
  <2>5. CASE Kept(i)
    <3>1. IsJoined(f[i], f[i - 1], <<M[i]>>)
      BY <1>7, <2>2, <2>5
    <3>2. IsJoined(w, v, <<IF M[i] = "mark" THEN "backslash" ELSE M[i]>>)
      BY <1>5, <2>4, <3>1, RestoredOneMore
    <3>3. IsJoined(w, v, <<s[i]>>)
      BY <1>6, <3>2
    <3> HIDE DEF v, w, n
    <3>4. Spaced(s, i, w)
      BY <1>1, <1>6, <2>1, <2>5, <3>3, SpacedKept DEF n
    <3> QED
      BY <2>3, <3>4 DEF w
  <2>6. CASE ~ Kept(i)
    <3>1. IsJoined(f[i], f[i - 1], <<>>)
      BY <1>7, <2>2, <2>6
    <3>2. f[i] = f[i - 1]
      BY <2>4, <3>1, ConcatEmptySeq DEF IsJoined
    <3>3. s[i] = "space" /\ ~ Free(Start(s, i - 1))
      BY <1>6, <2>6
    <3> HIDE DEF n
    <3>4. Spaced(s, i, v)
      <4> HIDE DEF v
      <4> QED
        BY <2>1, <3>3, SpacedOut DEF n
    <3> QED
      BY <2>3, <3>2, <3>4
  <2> QED
    BY <2>5, <2>6
<1> DEFINE v == Restored(f[n])
<1>13. Spaced(s, n, v)
  <2>1. n \in G
    <3> HIDE DEF G, n
    <3> QED
      BY <1>1, <1>11, <1>12, UpToTheEnd
  <2> QED
    BY <2>1
<1>14. Start(s, n) = s
  BY StartRule
<1>15. s # <<>> => n > 0
  BY EmptySeq
<1> HIDE DEF v, n
<1>16. v \in Seq(Char) /\ Neat(v) /\ NoSpaces(v)
  BY <1>1, <1>13, <1>14, <1>15 DEF Spaced, Neat, Ends
<1>17. v = Restored(WithoutSpaces(WithoutDoubled("comma", Marked(s)), before))
  BY <1>3, <1>4, <1>10 DEF v, M
<1> QED
  BY <1>16, <1>17

-----------------------------------------------------------------------------
(* Arguments: separators are cut off.                                       *)

\* The quotes of a text are in pairs if and only if those are that stand in the part r
\* with all of them.
LEMMA InsidePlaced ==
  ASSUME NEW S, NEW s \in Seq(S), NEW r \in Seq(S), NEW a \in Nat, a + Len(r) <= Len(s),
         \A i \in 1 .. Len(r) : s[a + i] = r[i],
         \A i \in 1 .. Len(s) : s[i] = "quote" => a < i /\ i <= a + Len(r)
  PROVE  Inside(s, Len(s)) <=> Inside(r, Len(r))
<1> DEFINE n == Len(s)
           m == Len(r)
           G == {k \in 0 .. n : Inside(s, k) <=>
                   \/ a < k /\ k <= a + m /\ Inside(r, k - a)
                   \/ a + m < k /\ Inside(r, m)}
<1>1. n \in Nat /\ m \in Nat /\ a + m <= n
  OBVIOUS
<1>2. /\ ~ Inside(s, 0)
      /\ \A i \in 1 .. n :
           Inside(s, i) <=> IF s[i] = "quote" THEN ~ Inside(s, i - 1) ELSE Inside(s, i - 1)
  BY QuotesStep
<1>3. /\ ~ Inside(r, 0)
      /\ \A i \in 1 .. m :
           Inside(r, i) <=> IF r[i] = "quote" THEN ~ Inside(r, i - 1) ELSE Inside(r, i - 1)
  BY QuotesStep
<1>4. \A i \in 1 .. m : s[a + i] = r[i]
  OBVIOUS
<1>5. \A i \in 1 .. n : s[i] = "quote" => a < i /\ i <= a + m
  OBVIOUS
<1> HIDE DEF n, m
<1>6. 0 \in G
  BY <1>1, <1>2
<1>7. ASSUME NEW i \in 1 .. n, i - 1 \in G
      PROVE  i \in G
  <2>1. i \in 0 .. n
    BY <1>1
  <2>2. CASE i <= a
    <3>1. ~ Inside(s, i - 1) /\ s[i] # "quote"
      BY <1>1, <1>5, <1>7, <2>2
    <3> QED
      BY <1>1, <1>2, <2>1, <2>2, <3>1
  <2>3. CASE a < i /\ i <= a + m
    <3> DEFINE j == i - a
    <3>1. j \in 1 .. m /\ a + j = i /\ j - 1 = (i - 1) - a
      BY <1>1, <2>3
    <3>2. s[i] = r[j]
      BY <1>4, <3>1
    <3>3. Inside(s, i - 1) <=> Inside(r, j - 1)
      <4>1. CASE j = 1
        <5>1. ~ Inside(s, i - 1)
          BY <1>1, <1>7, <3>1, <4>1
        <5>2. j - 1 = 0
          BY <4>1
        <5> QED
          BY <1>3, <5>1, <5>2
      <4>2. CASE j # 1
        <5>1. a < i - 1 /\ i - 1 <= a + m /\ ~ (a + m < i - 1)
          BY <1>1, <2>3, <3>1, <4>2
        <5> QED
          BY <1>7, <3>1, <5>1
      <4> QED
        BY <4>1, <4>2
    <3>4. Inside(s, i) <=> Inside(r, j)
      BY <1>2, <1>3, <3>1, <3>2, <3>3
    <3> QED
      BY <1>1, <2>1, <2>3, <3>4
  <2>4. CASE a + m < i
    <3>1. s[i] # "quote" /\ i - 1 >= a + m
      BY <1>1, <1>5, <2>4
    <3>2. Inside(s, i - 1) <=> Inside(r, m)
      <4>1. CASE i - 1 = a + m
        <5>1. CASE m = 0
          <6>1. ~ (a < i - 1) /\ ~ (a + m < i - 1)
            BY <1>1, <4>1, <5>1
          <6> QED
            BY <1>3, <1>7, <5>1, <6>1
        <5>2. CASE m # 0
          <6>1. a < i - 1 /\ i - 1 <= a + m /\ ~ (a + m < i - 1) /\ (i - 1) - a = m
            BY <1>1, <4>1, <5>2
          <6> QED
            BY <1>7, <6>1
        <5> QED
          BY <5>1, <5>2
      <4>2. CASE i - 1 # a + m
        <5>1. a + m < i - 1 /\ ~ (i - 1 <= a + m)
          BY <1>1, <3>1, <4>2
        <5> QED
          BY <1>7, <5>1
      <4> QED
        BY <4>1, <4>2
    <3>3. Inside(s, i) <=> Inside(r, m)
      BY <1>2, <3>1, <3>2
    <3>4. ~ (i <= a + m)
      BY <1>1, <2>4
    <3> QED
      BY <2>1, <2>4, <3>3, <3>4
  <2> QED
    BY <1>1, <2>2, <2>3, <2>4
<1>8. n \in G
  <2> HIDE DEF G
  <2> QED
    BY <1>1, <1>6, <1>7, UpToTheEnd
<1>9. Inside(s, n) <=> Inside(r, m)
  <2>1. CASE a + m = n
    <3>1. CASE m = 0
      <4>1. ~ (a < n) /\ ~ (a + m < n)
        BY <1>1, <2>1, <3>1
      <4> QED
        BY <1>3, <1>8, <3>1, <4>1
    <3>2. CASE m # 0
      <4>1. a < n /\ n <= a + m /\ ~ (a + m < n) /\ n - a = m
        BY <1>1, <2>1, <3>2
      <4> QED
        BY <1>8, <4>1
    <3> QED
      BY <3>1, <3>2
  <2>2. CASE a + m # n
    <3>1. a + m < n /\ ~ (n <= a + m)
      BY <1>1, <2>2
    <3> QED
      BY <1>8, <3>1
  <2> QED
    BY <2>1, <2>2
<1> QED
  BY <1>9 DEF n, m

\* A text with its separators cut off: nothing but separators is cut off, which no
\* backslash protects.
CutOff(s, t, p, q) ==
  /\ p \in 1 .. Len(s) /\ q \in 1 .. Len(s) /\ p <= q
  /\ t = SubSeq(Marked(s), p, q)
  /\ s[p] \notin Separator
  /\ s[q] \in Separator => p < q /\ Marked(s)[q - 1] = "backslash"
  /\ \A i \in 1 .. Len(s) : i < p \/ q < i => s[i] \in Separator

\* Trimmed does so, unless there is nothing else.
LEMMA TrimmedText ==
  ASSUME NEW s \in Seq(Char), NEW before, before # "backslash"
  PROVE  LET t == Trimmed(Marked(s), before) IN
         \/ t = <<>> /\ OnlySeparators(s)
         \/ \E p, q \in Nat : CutOff(s, t, p, q)
<1> DEFINE n == Len(s)
           M == Marked(s)
           kept == {i \in DOMAIN M : \/ M[i] \notin Separator
                                     \/ i > 1 /\ M[i - 1] = "backslash"
                                     \/ i = 1 /\ before = "backslash"}
           first == CHOOSE i \in kept : \A j \in kept : i <= j
           last == CHOOSE i \in kept : \A j \in kept : j <= i
           t == Trimmed(M, before)
<1>1. n \in Nat /\ \A i \in 1 .. n : s[i] \in Char
  OBVIOUS
<1>2. /\ M \in Seq(Content) /\ Len(M) = n
      /\ \A i \in 1 .. n : s[i] # "backslash" => M[i] = s[i]
      /\ \A i \in 1 .. n : s[i] = "backslash" => M[i] \in {"mark", "backslash"}
  BY MarkedText
<1> HIDE DEF M
<1>3. DOMAIN M = 1 .. n
  BY <1>2
<1>4. \A i \in 1 .. n : M[i] \in Separator <=> s[i] \in Separator
  BY <1>2 DEF Separator
<1>5. /\ kept \subseteq 1 .. n
      /\ \A i \in 1 .. n : i \in kept <=> s[i] \notin Separator \/ (i > 1 /\ M[i - 1] = "backslash")
  BY <1>3, <1>4
<1>6. t = IF kept = {} THEN <<>> ELSE SubSeq(M, first, last)
  BY Zenon DEF Trimmed
<1> HIDE DEF kept, n, t
<1>7. CASE kept = {}
  <2>1. t = <<>>
    BY <1>6, <1>7
  <2>2. OnlySeparators(s)
    BY <1>5, <1>7 DEF OnlySeparators, n
  <2> QED
    BY <2>1, <2>2 DEF t, M
<1>8. CASE kept # {}
  <2>1. first \in kept /\ \A j \in kept : first <= j
    <3>1. kept \in SUBSET Nat
      BY <1>1, <1>5
    <3>2. \E i \in kept : \A j \in kept : i <= j
      BY <1>8, <3>1, LeastNumber
    <3> QED
      BY <3>2, Zenon
  <2>2. last \in kept /\ \A j \in kept : j <= last
    <3>1. kept \in SUBSET (0 .. n)
      BY <1>1, <1>5
    <3>2. \E i \in kept : \A j \in kept : j <= i
      BY <1>1, <1>8, <3>1, GreatestNumber
    <3> QED
      BY <3>2, Zenon
  <2>3. t = SubSeq(M, first, last)
    BY <1>6, <1>8
  <2> DEFINE p == first
             q == last
  <2> HIDE DEF p, q
  <2>4. p \in kept /\ q \in kept /\ \A j \in kept : p <= j /\ j <= q
    BY <2>1, <2>2 DEF p, q
  <2>5. p \in 1 .. n /\ q \in 1 .. n /\ p <= q
    BY <1>5, <2>4
  <2>6. \A i \in 1 .. n : i > 1 /\ M[i - 1] = "backslash" => i - 1 \in kept
    <3>1. SUFFICES ASSUME NEW i \in 1 .. n, i > 1, M[i - 1] = "backslash"
                   PROVE  i - 1 \in kept
      OBVIOUS
    <3>2. i - 1 \in 1 .. n
      BY <1>1, <3>1
    <3>3. s[i - 1] \notin Separator
      BY <1>4, <3>1, <3>2 DEF Separator
    <3> QED
      BY <1>5, <3>2, <3>3
  <2>7. s[p] \notin Separator
    <3>1. ~ (p > 1 /\ M[p - 1] = "backslash")
      BY <1>1, <2>4, <2>5, <2>6
    <3> QED
      BY <1>5, <2>4, <2>5, <3>1
  <2>8. s[q] \in Separator => p < q /\ M[q - 1] = "backslash"
    <3>1. ASSUME s[q] \in Separator
          PROVE  p < q /\ M[q - 1] = "backslash"
      <4>1. q > 1 /\ M[q - 1] = "backslash"
        BY <1>5, <2>4, <2>5, <3>1
      <4>2. p <= q - 1
        BY <2>4, <2>5, <2>6, <4>1
      <4> QED
        BY <1>1, <2>5, <4>1, <4>2
    <3> QED
      BY <3>1
  <2>9. ASSUME NEW i \in 1 .. n, i < p \/ q < i
        PROVE  s[i] \in Separator
    <3>1. i \notin kept
      BY <1>1, <2>4, <2>5, <2>9
    <3> QED
      BY <1>5, <3>1
  <2>10. CutOff(s, t, p, q)
    BY <2>3, <2>5, <2>7, <2>8, <2>9 DEF CutOff, n, M, p, q
  <2> QED
    BY <1>1, <2>5, <2>10 DEF t, M
<1> QED
  BY <1>7, <1>8

\* What is left over ends and starts with what is not cut off.
LEMMA CutOffKeeps ==
  ASSUME NEW s \in Seq(Char), Apart(s), Quotes(s), ~ Inside(s, Len(s)),
         NEW t, NEW p \in Nat, NEW q \in Nat, CutOff(s, t, p, q)
  PROVE  LET r == Restored(t) IN
         /\ r \in Seq(Char) /\ Ends(r) /\ Apart(r) /\ Quotes(r) /\ ~ Inside(r, Len(r))
         /\ QuotesBefore(t, Len(t)) % 2 = 0
<1> DEFINE n == Len(s)
           M == Marked(s)
           a == p - 1
           m == (q - p) + 1
           r == Restored(t)
<1>1. n \in Nat /\ \A i \in 1 .. n : s[i] \in Char
  OBVIOUS
<1>2. /\ M \in Seq(Content) /\ Len(M) = n
      /\ \A i \in 1 .. n : s[i] # "backslash" => M[i] = s[i]
      /\ \A i \in 1 .. n : s[i] = "backslash" => M[i] \in {"mark", "backslash"}
      /\ \A i \in 1 .. n :
           M[i] = "backslash" <=>
             s[i] = "backslash" /\ i \in Protects(s) /\ CharAt(s, i + 1) # "backslash"
  BY MarkedText
<1>3. /\ p \in 1 .. n /\ q \in 1 .. n /\ p <= q /\ t = SubSeq(M, p, q)
      /\ s[p] \notin Separator
      /\ s[q] \in Separator => p < q /\ M[q - 1] = "backslash"
      /\ \A i \in 1 .. n : i < p \/ q < i => s[i] \in Separator
  BY DEF CutOff
<1> HIDE DEF M, n
<1>4. /\ a \in Nat /\ m \in Nat /\ m >= 1 /\ a + m = q /\ a + 1 = p /\ q <= n
      /\ \A i \in 1 .. m : a + i \in 1 .. n
  BY <1>1, <1>3
<1>5. t \in Seq(Content) /\ Len(t) = m /\ \A i \in 1 .. m : t[i] = M[a + i]
  <2> DEFINE u == SubSeq(M, p, q)
  <2>1. p \in Int /\ q \in Int /\ \A i \in p .. q : M[i] \in Content
    BY <1>1, <1>2, <1>3
  <2>2. /\ u \in Seq(Content) /\ Len(u) = (IF p <= q THEN (q - p) + 1 ELSE 0)
        /\ \A i \in 1 .. (q - p) + 1 : u[i] = M[(p + i) - 1]
    BY <2>1, SubSeqProperties
  <2> HIDE DEF u
  <2>3. \A i \in 1 .. m : (p + i) - 1 = a + i
    BY <1>3
  <2>4. Len(u) = m
    BY <1>3, <2>2
  <2>5. \A i \in 1 .. m : u[i] = M[a + i]
    BY <2>2, <2>3
  <2> QED
    BY <1>3, <2>2, <2>4, <2>5 DEF u
<1>6. r \in Seq(Char) /\ Len(r) = m /\ \A i \in 1 .. m : r[i] = s[a + i]
  <2>1. r = [i \in 1 .. m |-> IF t[i] = "mark" THEN "backslash" ELSE t[i]]
    BY <1>5 DEF Restored, ReplaceAll
  <2> HIDE DEF r, m, a
  <2>2. \A i \in 1 .. m : (IF t[i] = "mark" THEN "backslash" ELSE t[i]) = s[a + i]
    <3>1. SUFFICES ASSUME NEW i \in 1 .. m
                   PROVE  (IF t[i] = "mark" THEN "backslash" ELSE t[i]) = s[a + i]
      OBVIOUS
    <3>2. t[i] = M[a + i] /\ s[a + i] \in Char /\ a + i \in 1 .. n
      BY <1>1, <1>4, <1>5
    <3> QED
      BY <1>2, <3>2 DEF Char
  <2>3. r = [i \in 1 .. m |-> s[a + i]]
    BY <2>1, <2>2
  <2>4. [i \in 1 .. m |-> s[a + i]] \in [1 .. m -> Char]
    BY <1>1, <1>4
  <2>5. r \in Seq(Char) /\ Len(r) = m
    BY <1>4, <2>3, <2>4, SequenceOfLength
  <2> QED
    BY <2>3, <2>5
<1> HIDE DEF r
<1>7. \A i \in 1 .. n : s[i] \notin Separator => a < i /\ i <= a + m
  BY <1>1, <1>3
<1> HIDE DEF a, m
<1>8. Placed(s, a, r)
  <2>1. \A i \in 1 .. n : s[i] = "backslash" => a < i /\ i <= a + m
    BY <1>7 DEF Separator
  <2> QED
    BY <1>4, <1>6, <2>1 DEF Placed, n
<1>9. Protects(s) = {a + i : i \in Protects(r)}
  BY <1>4, <1>6, <1>8, ProtectsPlaced
<1>10. Ends(r)
  <2>1. 1 \in 1 .. m
    BY <1>4
  <2>2. r # <<>>
    BY <1>4, <1>6
  <2>3. r[1] \notin Separator
    BY <1>3, <1>4, <1>6, <2>1
  <2>4. ~ Loose(r)
    <3>1. SUFFICES ASSUME r[m] \in Separator
                   PROVE  m - 1 \in Protects(r)
      BY <1>6 DEF Loose
    <3>2. m \in 1 .. m
      BY <1>4
    <3>3. p < q /\ M[q - 1] = "backslash"
      BY <1>3, <1>4, <1>6, <3>1, <3>2
    <3>4. q - 1 \in 1 .. n
      BY <1>1, <1>3, <3>3
    <3>5. q - 1 \in Protects(s)
      BY <1>2, <3>3, <3>4
    <3>6. PICK i \in Protects(r) : q - 1 = a + i
      BY <1>9, <3>5
    <3>7. i \in 1 .. m
      BY <1>6, ProtectsRule
    <3>8. i = m - 1
      BY <1>4, <3>6, <3>7
    <3> QED
      BY <3>8
  <2> QED
    BY <2>2, <2>3, <2>4 DEF Ends
<1>11. Apart(r)
  <2>1. SUFFICES ASSUME NEW i \in 1 .. m, NEW j \in 1 .. m,
                        r[i] = "comma", r[j] = "comma", i < j
                 PROVE  \E k \in i .. j : r[k] \notin Separator \cup {"quote"}
    BY <1>6 DEF Apart
  <2>2. a + i \in 1 .. n /\ a + j \in 1 .. n /\ a + i < a + j
    BY <1>4, <2>1
  <2>3. PICK k \in a + i .. a + j : s[k] \notin Separator \cup {"quote"}
    BY <1>6, <2>1, <2>2 DEF Apart, n
  <2>4. k - a \in i .. j /\ k - a \in 1 .. m /\ a + (k - a) = k
    BY <1>4, <2>1
  <2> QED
    BY <1>6, <2>3, <2>4
<1>12. Quotes(r)
  <2>1. SUFFICES ASSUME NEW i \in 1 .. m, r[i] = "quote", i > 1
                 PROVE  r[i - 1] \notin {"quote", "backslash"}
    BY <1>6 DEF Quotes
  <2>2. a + i \in 1 .. n /\ a + i > 1 /\ i - 1 \in 1 .. m /\ a + (i - 1) = (a + i) - 1
    BY <1>4, <2>1
  <2>3. s[(a + i) - 1] \notin {"quote", "backslash"}
    BY <1>6, <2>1, <2>2 DEF Quotes, n
  <2> QED
    BY <1>6, <2>2, <2>3
<1>13. ~ Inside(r, Len(r))
  <2>1. a + Len(r) <= Len(s)
    BY <1>4, <1>6 DEF n
  <2>2. \A i \in 1 .. Len(r) : s[a + i] = r[i]
    BY <1>6
  <2>3. \A i \in 1 .. Len(s) : s[i] = "quote" => a < i /\ i <= a + Len(r)
    BY <1>6, <1>7 DEF Separator, n
  <2> QED
    BY <1>4, <1>6, <2>1, <2>2, <2>3, InsidePlaced
<1>14. QuotesBefore(t, Len(t)) = QuotesBefore(r, Len(r))
  <2>1. \A i \in 1 .. m : t[i] = "quote" <=> r[i] = "quote"
    <3>1. SUFFICES ASSUME NEW i \in 1 .. m
                   PROVE  t[i] = "quote" <=> r[i] = "quote"
      OBVIOUS
    <3>2. t[i] = M[a + i] /\ r[i] = s[a + i] /\ a + i \in 1 .. n
      BY <1>4, <1>5, <1>6
    <3> QED
      BY <1>2, <3>2
  <2>2. {i \in 1 .. m : t[i] = "quote"} = {i \in 1 .. m : r[i] = "quote"}
    BY <2>1
  <2> QED
    BY <1>5, <1>6, <2>2 DEF QuotesBefore
<1>15. QuotesBefore(t, Len(t)) % 2 = 0
  BY <1>6, <1>13, <1>14, QuotesStep
<1> QED
  BY <1>6, <1>10, <1>11, <1>12, <1>13, <1>15 DEF r

-----------------------------------------------------------------------------
(* Arguments: formatted once and again.                                     *)

\* Of an empty text nothing is left.
LEMMA NothingTrimmed ==
  Unquoted(Restored(<<>>)) = <<>> /\ QuotesBefore(<<>>, Len(<<>>)) % 2 = 0
<1> DEFINE e == <<>>
<1>1. e \in Seq(Char) /\ Len(e) = 0 /\ Restored(e) = e /\ e = <<>>
  BY DEF Restored, ReplaceAll
<1> HIDE DEF e
<1>2. Plain(e)
  BY <1>1 DEF Plain
<1>3. Unquoted(e) = e
  BY <1>1, <1>2, UnquotedPlain
<1>4. QuotesBefore(e, Len(e)) % 2 = 0
  BY <1>1, QuotesStep
<1> QED
  BY <1>1, <1>3, <1>4

\* The arguments of a tidy line are formatted to a text that the passes leave alone.
LEMMA FormattedIsNeat ==
  ASSUME NEW x \in Seq(Char), Apart(x), Quotes(x), ~ Inside(x, Len(x)),
         NEW before, before # "backslash"
  PROVE  LET y == FormattedArguments(x, before) IN
         y \in Seq(Char) /\ Neat(y) /\ NoSpaces(y)
<1> DEFINE t == Trimmed(Marked(x), before)
           u == Unquoted(Restored(t))
           Passed(text) == Restored(WithoutSpaces(WithoutDoubled("comma", Marked(text)), before))
<1>1. WithoutDoubled("quote", x) = x
  <2>1. ASSUME NEW i \in 1 .. Len(x) - 1, x[i] = "quote", x[i + 1] = "quote"
        PROVE  FALSE
    <3>1. i + 1 \in 1 .. Len(x) /\ i + 1 > 1 /\ (i + 1) - 1 = i
      OBVIOUS
    <3> QED
      BY <2>1, <3>1 DEF Quotes
  <2> QED
    BY <2>1, WithoutDoubledKeeps
<1>2. \/ t = <<>> /\ OnlySeparators(x)
      \/ \E p, q \in Nat : CutOff(x, t, p, q)
  BY TrimmedText
<1> HIDE DEF t
<1>3. FormattedArguments(x, before) =
        Passed(IF ~ (QuotesBefore(t, Len(t)) % 2 = 0) THEN t ELSE IF u = <<>> THEN x ELSE u)
  BY <1>1, Zenon DEF FormattedArguments, t
<1> HIDE DEF u
<1>4. ASSUME NEW text \in Seq(Char), Neat(text)
      PROVE  Passed(text) \in Seq(Char) /\ Neat(Passed(text)) /\ NoSpaces(Passed(text))
  BY <1>4, SpacesLeftOut
<1> HIDE DEF Passed
<1>5. CASE t = <<>> /\ OnlySeparators(x)
  <2>1. u = <<>> /\ QuotesBefore(t, Len(t)) % 2 = 0
    BY <1>5, NothingTrimmed DEF u
  <2>2. Neat(x)
    BY <1>5 DEF Neat, Plain, OnlySeparators, Separator
  <2> QED
    BY <1>3, <1>4, <2>1, <2>2
<1>6. CASE \E p, q \in Nat : CutOff(x, t, p, q)
  <2>1. PICK p, q \in Nat : CutOff(x, t, p, q)
    BY <1>6
  <2> DEFINE r == Restored(t)
  <2>2. /\ r \in Seq(Char) /\ Ends(r) /\ Apart(r) /\ Quotes(r) /\ ~ Inside(r, Len(r))
        /\ QuotesBefore(t, Len(t)) % 2 = 0
    BY <2>1, CutOffKeeps
  <2>3. u \in Seq(Char) /\ Ends(u) /\ Plain(u) /\ Apart(u)
    <3> HIDE DEF r
    <3>1. Unquoted(r) \in Seq(Char) /\ Ends(Unquoted(r)) /\ Plain(Unquoted(r)) /\ Apart(Unquoted(r))
      BY <2>2, UnquotedKeeps
    <3> QED
      BY <3>1 DEF u, r
  <2>4. Neat(u) /\ u # <<>>
    BY <2>3 DEF Neat, Ends
  <2> QED
    BY <1>3, <1>4, <2>2, <2>3, <2>4
<1> QED
  BY <1>2, <1>5, <1>6

\* Such a text stays as it is when it is formatted.
LEMMA NeatIsKept ==
  ASSUME NEW y \in Seq(Char), Neat(y), NoSpaces(y), NEW before, before # "backslash"
  PROVE  FormattedArguments(y, before) = y
<1> DEFINE n == Len(y)
           M == Marked(y)
           t == Trimmed(M, before)
           u == Unquoted(Restored(t))
           P == Protects(y)
<1>1. n \in Nat /\ Plain(y) /\ Apart(y) /\ (Ends(y) \/ OnlySeparators(y))
  BY DEF Neat
<1>2. /\ M \in Seq(Content) /\ Len(M) = n /\ Restored(M) = y
      /\ \A i \in 1 .. n : y[i] # "backslash" => M[i] = y[i]
      /\ \A i \in 1 .. n : y[i] = "backslash" => M[i] \in {"mark", "backslash"}
      /\ \A i \in 1 .. n :
           M[i] = "backslash" <=>
             y[i] = "backslash" /\ i \in P /\ CharAt(y, i + 1) # "backslash"
  BY MarkedText
<1>3. WithoutDoubled("quote", y) = y
  <2>1. \A i \in 1 .. n - 1 : i \in 1 .. n
    BY <1>1
  <2>2. \A i \in 1 .. n - 1 : ~ (y[i] = "quote" /\ y[i + 1] = "quote")
    BY <1>1, <2>1 DEF Plain
  <2> QED
    BY <2>2, WithoutDoubledKeeps
<1>4. WithoutDoubled("comma", M) = M
  BY <1>1, ApartKept
<1>5. P \subseteq 1 .. n /\ \A i \in P : y[i] = "backslash"
  BY ProtectsRule
<1> HIDE DEF M, P
<1>6. \A i \in 1 .. n : M[i] \in Separator => y[i] = M[i] /\ y[i] \in Separator
  BY <1>2 DEF Separator
<1>7. ASSUME NEW i \in 1 .. n, i - 1 \in P, y[i] # "backslash"
      PROVE  i > 1 /\ M[i - 1] = "backslash"
  <2>1. i - 1 \in 1 .. n /\ (i - 1) + 1 = i /\ i > 1
    BY <1>1, <1>5, <1>7
  <2>2. CharAt(y, i) # "backslash"
    BY <1>7 DEF CharAt
  <2> QED
    BY <1>2, <1>5, <1>7, <2>1, <2>2
<1>8. WithoutSpaces(M, before) = M
  <2> DEFINE Kept(i) == \/ M[i] # "space"
                        \/ (IF i = 1 THEN before ELSE M[i - 1]) = "backslash"
             H == [i \in 1 .. n |-> IF Kept(i) THEN <<M[i]>> ELSE <<>>]
  <2>1. DOMAIN M = 1 .. n
    BY <1>2
  <2>2. WithoutSpaces(M, before) = FlattenSeq(H)
    BY <2>1, Zenon DEF WithoutSpaces
  <2>3. ASSUME NEW i \in 1 .. n
        PROVE  Kept(i)
    <3>1. CASE M[i] = "space"
      <4>1. y[i] = "space"
        BY <1>6, <3>1 DEF Separator
      <4>2. i - 1 \in P
        BY <4>1 DEF NoSpaces, P
      <4>3. i > 1 /\ M[i - 1] = "backslash"
        BY <1>7, <4>1, <4>2
      <4>4. i # 1
        BY <4>3
      <4> QED
        BY <4>3, <4>4
    <3>2. CASE M[i] # "space"
      BY <3>2
    <3> QED
      BY <3>1, <3>2
  <2> HIDE DEF Kept
  <2>4. H = [i \in 1 .. Len(M) |-> <<M[i]>>]
    BY <1>2, <2>3
  <2> HIDE DEF H
  <2> QED
    BY <1>2, <2>2, <2>4, FlattenSingles
<1>9. (IF u = <<>> THEN y ELSE u) = y
  <2>1. CASE Ends(y)
    <3>1. M # <<>>
      <4>1. n # 0
        BY <2>1, EmptySeq DEF Ends
      <4>2. Len(<<>>) = 0
        OBVIOUS
      <4> QED
        BY <1>2, <4>1, <4>2
    <3>2. n >= 1 /\ 1 \in 1 .. n /\ n \in 1 .. n
      BY <1>1, <1>2, <3>1, EmptySeq
    <3>3. M[1] \notin Separator
      BY <1>6, <2>1, <3>2 DEF Ends
    <3>4. M[n] \notin Separator \/ (n > 1 /\ M[n - 1] = "backslash")
      <4>1. ASSUME M[n] \in Separator
            PROVE  n > 1 /\ M[n - 1] = "backslash"
        <5>1. y[n] \in Separator
          BY <1>6, <3>2, <4>1
        <5>2. n - 1 \in P
          BY <2>1, <5>1 DEF Ends, Loose, P
        <5>3. y[n] # "backslash"
          BY <5>1 DEF Separator
        <5> QED
          BY <1>7, <3>2, <5>2, <5>3
      <4> QED
        BY <4>1
    <3>5. t = M
      BY <1>2, <3>1, <3>3, <3>4, TrimmedKeeps
    <3>6. u = y
      <4>1. Restored(t) = y
        BY <1>2, <3>5
      <4> QED
        BY <1>1, <4>1, UnquotedPlain
    <3> QED
      BY <3>6
  <2>2. CASE OnlySeparators(y)
    <3>1. \A p, q \in Nat : ~ CutOff(y, t, p, q)
      BY <2>2 DEF CutOff, OnlySeparators
    <3>2. t = <<>>
      BY <3>1, TrimmedText DEF M
    <3>3. u = <<>>
      BY <3>2, NothingTrimmed
    <3> QED
      BY <3>3
  <2> QED
    BY <1>1, <2>1, <2>2
<1>10. QuotesBefore(t, Len(t)) % 2 = 0
  <2>1. CASE t = <<>>
    BY <2>1, NothingTrimmed
  <2>2. CASE t # <<>>
    <3>1. PICK p, q \in Nat : CutOff(y, t, p, q)
      BY <2>2, TrimmedText DEF M
    <3>2. Quotes(y) /\ ~ Inside(y, Len(y))
      <4>1. Quotes(y)
        BY <1>1 DEF Quotes, Plain
      <4>2. QuotesBefore(y, Len(y)) = 0
        <5>1. Len(y) \in 0 .. Len(y)
          BY <1>1
        <5> QED
          BY <1>1, <5>1, NoQuotesCounted DEF Plain
      <4>3. ~ Inside(y, Len(y))
        BY <4>2 DEF Inside
      <4> QED
        BY <4>1, <4>3
    <3> HIDE DEF t
    <3> QED
      BY <1>1, <3>1, <3>2, CutOffKeeps
  <2> QED
    BY <2>1, <2>2
<1> HIDE DEF u, t
<1>11. FormattedArguments(y, before) =
         Restored(WithoutSpaces(WithoutDoubled("comma", Marked(
           IF ~ (QuotesBefore(t, Len(t)) % 2 = 0) THEN t ELSE IF u = <<>> THEN y ELSE u)), before))
  BY <1>3, Zenon DEF FormattedArguments, t, u, M
<1>12. FormattedArguments(y, before) =
         Restored(WithoutSpaces(WithoutDoubled("comma", Marked(y)), before))
  BY <1>9, <1>10, <1>11
<1> QED
  BY <1>2, <1>4, <1>8, <1>12 DEF M

-----------------------------------------------------------------------------
(* Arguments: the command and the arguments of a line.                      *)

\* The command of a line starts with no space, and the line may be empty.
LEMMA LeadingSpaces ==
  ASSUME NEW s \in Seq(Char)
  PROVE  /\ WithoutLeadingSpaces(s) \in Seq(Char)
         /\ WithoutLeadingSpaces(s) # <<>> => WithoutLeadingSpaces(s)[1] # "space"
         /\ (s # <<>> => s[1] # "space") => WithoutLeadingSpaces(s) = s
<1> DEFINE n == Len(s)
           kept == {i \in DOMAIN s : s[i] # "space"}
           first == CHOOSE i \in kept : \A j \in kept : i <= j
           w == WithoutLeadingSpaces(s)
<1>1. n \in Nat /\ DOMAIN s = 1 .. n /\ (n = 0 => s = <<>>) /\ (s = <<>> => n = 0)
  BY EmptySeq
<1>2. w = IF kept = {} THEN <<>> ELSE SubSeq(s, first, n)
  BY Zenon DEF WithoutLeadingSpaces
<1>3. \A i \in kept : i \in 1 .. n /\ s[i] # "space"
  BY <1>1
<1>4. 1 \in 1 .. n /\ s[1] # "space" => 1 \in kept
  BY <1>1
<1> HIDE DEF n, w, kept
<1>5. CASE kept = {}
  <2>1. w = <<>>
    BY <1>2, <1>5
  <2>2. (s # <<>> => s[1] # "space") => s = <<>>
    BY <1>1, <1>4, <1>5
  <2>3. <<>> \in Seq(Char)
    OBVIOUS
  <2> QED
    BY <2>1, <2>2, <2>3 DEF w
<1>6. CASE kept # {}
  <2>1. first \in kept /\ \A j \in kept : first <= j
    <3>1. kept \in SUBSET Nat
      BY <1>1, <1>3
    <3>2. \E i \in kept : \A j \in kept : i <= j
      BY <1>6, <3>1, LeastNumber
    <3> QED
      BY <3>2, Zenon
  <2>2. w = SubSeq(s, first, n)
    BY <1>2, <1>6
  <2> DEFINE p == first
             a == p - 1
  <2> HIDE DEF p
  <2>3. p \in 1 .. n /\ s[p] # "space" /\ (1 \in kept => p <= 1)
    BY <1>3, <2>1 DEF p
  <2>4. a \in Nat /\ a <= n /\ a + 1 = p /\ 1 \in 1 .. n - a
    BY <1>1, <2>3
  <2>5. w = SubSeq(s, a + 1, n)
    BY <2>2, <2>4 DEF p
  <2> HIDE DEF a
  <2>6. w \in Seq(Char) /\ w[1] = s[a + 1]
    BY <1>1, <2>4, <2>5, PartPlaces DEF n
  <2>7. s # <<>> /\ s[1] # "space" => w = s
    <3>1. ASSUME s # <<>>, s[1] # "space"
          PROVE  w = s
      <4>1. p = 1
        BY <1>1, <1>4, <2>3, <3>1
      <4>2. a + 1 = 1
        BY <2>4, <4>1
      <4> QED
        BY <2>5, <4>2, SubSeqFull DEF n
    <3> QED
      BY <3>1
  <2>8. s # <<>>
    BY <1>1, <2>3
  <2> QED
    BY <2>3, <2>4, <2>6, <2>7, <2>8 DEF w
<1> QED
  BY <1>5, <1>6

\* It ends in front of the first space.
LEMMA CommandEnds ==
  ASSUME NEW s \in Seq(Char)
  PROVE  /\ CommandEnd(s) \in 1 .. Len(s) + 1
         /\ \A i \in 1 .. Len(s) : i < CommandEnd(s) => s[i] # "space"
         /\ CommandEnd(s) <= Len(s) => s[CommandEnd(s)] = "space"
         /\ \A e \in 1 .. Len(s) + 1 :
              /\ \A i \in 1 .. Len(s) : i < e => s[i] # "space"
              /\ e <= Len(s) => s[e] = "space"
              => CommandEnd(s) = e
<1> DEFINE n == Len(s)
           ends == {i \in DOMAIN s : s[i] = "space"} \cup {n + 1}
           first == CHOOSE i \in ends : \A j \in ends : i <= j
<1>1. n \in Nat /\ DOMAIN s = 1 .. n
  OBVIOUS
<1>2. \A i \in Int : i \in ends <=> (i \in 1 .. n /\ s[i] = "space") \/ i = n + 1
  BY <1>1
<1>3. ends \in SUBSET (1 .. n + 1) /\ n + 1 \in ends
  BY <1>1
<1>4. CommandEnd(s) = first
  BY Zenon DEF CommandEnd
<1> HIDE DEF n, ends
<1>5. first \in ends /\ \A j \in ends : first <= j
  <2>1. ends \in SUBSET Nat /\ ends # {}
    BY <1>1, <1>3
  <2>2. \E i \in ends : \A j \in ends : i <= j
    BY <2>1, LeastNumber
  <2> QED
    BY <2>2, Zenon
<1> DEFINE p == first
<1> HIDE DEF p
<1>6. p \in ends /\ (\A j \in ends : p <= j) /\ CommandEnd(s) = p
  BY <1>4, <1>5 DEF p
<1>7. p \in 1 .. n + 1
  BY <1>3, <1>6
<1>8. \A i \in 1 .. n : i < p => s[i] # "space"
  BY <1>1, <1>2, <1>6, <1>7
<1>9. p <= n => s[p] = "space"
  BY <1>1, <1>2, <1>6, <1>7
<1>10. ASSUME NEW e \in 1 .. n + 1, \A i \in 1 .. n : i < e => s[i] # "space",
              e <= n => s[e] = "space"
       PROVE  p = e
  <2>1. e \in ends
    BY <1>1, <1>2, <1>10
  <2>2. p <= e
    BY <1>6, <2>1
  <2>3. ~ (p < e)
    BY <1>1, <1>2, <1>6, <1>7, <1>10
  <2> QED
    BY <1>1, <1>7, <2>2, <2>3
<1> QED
  BY <1>6, <1>7, <1>8, <1>9, <1>10 DEF n

\* A command and the arguments that follow it.
Command(c) == c \in Seq(Char) /\ \A i \in 1 .. Len(c) : c[i] # "space"

\* The two parts of a line that starts with no space.
LEMMA LineParts ==
  ASSUME NEW s \in Seq(Char), s # <<>> => s[1] # "space"
  PROVE  LET e == CommandEnd(s)
             c == SubSeq(s, 1, e - 1)
             x == SubSeq(s, e + 1, Len(s))
         IN  /\ Command(c) /\ x \in Seq(Char) /\ e \in Nat
             /\ x # <<>> => c # <<>> /\ e + Len(x) = Len(s)
             /\ \A i \in 1 .. Len(x) : s[e + i] = x[i]
<1> DEFINE n == Len(s)
           e == CommandEnd(s)
           c == SubSeq(s, 1, e - 1)
           x == SubSeq(s, e + 1, n)
<1>1. n \in Nat /\ e \in 1 .. n + 1
      /\ (\A i \in 1 .. n : i < e => s[i] # "space")
      /\ (e <= n => s[e] = "space")
  BY CommandEnds
<1>2. n = 0 <=> s = <<>>
  BY EmptySeq
<1> HIDE DEF e, n
<1>3. c \in Seq(Char) /\ Len(c) = e - 1 /\ \A i \in 1 .. e - 1 : c[i] = s[i]
  <2> DEFINE b == e - 1
  <2>1. b \in Nat /\ 0 \in Nat /\ 0 <= b /\ b <= n /\ 0 + 1 = 1 /\ b - 0 = b
    BY <1>1
  <2>2. \A i \in 1 .. b : 0 + i = i
    BY <2>1
  <2> HIDE DEF b
  <2>3. /\ SubSeq(s, 0 + 1, b) \in Seq(Char) /\ Len(SubSeq(s, 0 + 1, b)) = b - 0
        /\ \A i \in 1 .. b - 0 : SubSeq(s, 0 + 1, b)[i] = s[0 + i]
    BY <2>1, PartPlaces DEF n
  <2>4. /\ SubSeq(s, 1, b) \in Seq(Char) /\ Len(SubSeq(s, 1, b)) = b
        /\ \A i \in 1 .. b : SubSeq(s, 1, b)[i] = s[i]
    BY <2>1, <2>2, <2>3
  <2> QED
    BY <2>4 DEF b
<1>4. Command(c)
  <2> HIDE DEF c
  <2> QED
    BY <1>1, <1>3 DEF Command
<1>5. ASSUME e <= n
      PROVE  /\ x \in Seq(Char) /\ (x # <<>> => c # <<>> /\ e + Len(x) = n)
             /\ \A i \in 1 .. Len(x) : s[e + i] = x[i]
  <2>1. x \in Seq(Char) /\ Len(x) = n - e /\ \A i \in 1 .. n - e : x[i] = s[e + i]
    BY <1>1, <1>5, PartPlaces DEF n
  <2> HIDE DEF x
  <2>2. e # 1
    BY <1>1, <1>2, <1>5
  <2>3. c # <<>>
    <3>1. Len(c) # 0
      BY <1>1, <1>3, <2>2
    <3> HIDE DEF c
    <3> QED
      BY <3>1
  <2>4. e + Len(x) = n /\ \A i \in 1 .. Len(x) : s[e + i] = x[i]
    BY <1>1, <1>5, <2>1
  <2> QED
    BY <2>1, <2>3, <2>4 DEF x
<1>6. ASSUME e = n + 1
      PROVE  /\ x \in Seq(Char) /\ (x # <<>> => c # <<>> /\ e + Len(x) = n)
             /\ \A i \in 1 .. Len(x) : s[e + i] = x[i]
  <2>1. x = <<>>
    <3>1. e + 1 > n
      BY <1>1, <1>6
    <3> QED
      BY <1>1, <3>1, SubSeqEmpty
  <2>2. x \in Seq(Char) /\ \A i \in 1 .. Len(x) : s[e + i] = x[i]
    <3>1. <<>> \in Seq(Char) /\ Len(<<>>) = 0
      OBVIOUS
    <3> HIDE DEF x
    <3> QED
      BY <2>1, <3>1
  <2> QED
    BY <2>1, <2>2
<1>7. e \in Nat /\ (e <= n \/ e = n + 1)
  BY <1>1
<1> QED
  BY <1>4, <1>5, <1>6, <1>7, Zenon DEF x, c, e, n

\* A line of a command alone is taken apart to it.
LEMMA CommandAlone ==
  ASSUME NEW c, Command(c)
  PROVE  /\ WithoutLeadingSpaces(c) = c /\ CommandEnd(c) = Len(c) + 1
         /\ SubSeq(c, 1, CommandEnd(c) - 1) = c
         /\ SubSeq(c, CommandEnd(c) + 1, Len(c)) = <<>>
<1> DEFINE n == Len(c)
<1>1. c \in Seq(Char) /\ \A i \in 1 .. n : c[i] # "space"
  BY DEF Command
<1>2. n \in Nat /\ (n = 0 <=> c = <<>>)
  BY <1>1, EmptySeq
<1> HIDE DEF n
<1>3. WithoutLeadingSpaces(c) = c
  <2>1. c # <<>> => 1 \in 1 .. n
    BY <1>2
  <2> QED
    BY <1>1, <2>1, LeadingSpaces
<1>4. CommandEnd(c) = n + 1
  <2>1. n + 1 \in 1 .. n + 1 /\ ~ (n + 1 <= n)
    BY <1>2
  <2> QED
    BY <1>1, <2>1, CommandEnds DEF n
<1>5. SubSeq(c, 1, n) = c
  BY <1>1, SubSeqFull DEF n
<1>6. SubSeq(c, (n + 1) + 1, n) = <<>>
  <2>1. (n + 1) + 1 > n /\ (n + 1) + 1 \in Int /\ n \in Int
    BY <1>2
  <2> QED
    BY <1>1, <2>1, SubSeqEmpty
<1>7. (n + 1) - 1 = n
  BY <1>2
<1> QED
  BY <1>3, <1>4, <1>5, <1>6, <1>7 DEF n

\* A line of a command and its arguments is taken apart to them.
LEMMA CommandFirst ==
  ASSUME NEW c, Command(c), c # <<>>, NEW y \in Seq(Char),
         NEW l, AreJoined(l, c, <<"space">>, y)
  PROVE  /\ WithoutLeadingSpaces(l) = l
         /\ SubSeq(l, 1, CommandEnd(l) - 1) = c
         /\ SubSeq(l, CommandEnd(l) + 1, Len(l)) = y
<1> DEFINE m == Len(c)
           k == Len(y)
           e == m + 1
           n == Len(l)
<1>1. c \in Seq(Char) /\ \A i \in 1 .. m : c[i] # "space"
  BY DEF Command
<1>2. <<"space">> \in Seq(Char) /\ Len(<<"space">>) = 1 /\ <<"space">>[1] = "space"
  BY DEF Char
<1>3. /\ l \in Seq(Char) /\ n = (m + 1) + k
      /\ \A i \in 1 .. m : l[i] = c[i]
      /\ l[m + 1] = "space"
      /\ \A i \in 1 .. k : l[(m + 1) + i] = y[i]
  <2> DEFINE d == <<"space">>
  <2>1. d \in Seq(Char) /\ Len(d) = 1 /\ d[1] = "space" /\ AreJoined(l, c, d, y)
    BY <1>2
  <2> HIDE DEF d
  <2>2. c \in Seq(Char) /\ d \in Seq(Char) /\ y \in Seq(Char) /\ AreJoined(l, c, d, y)
    BY <1>1, <2>1
  <2> HIDE DEF m, k, n, e
  <2>4. /\ l \in Seq(Char) /\ Len(l) = (Len(c) + Len(d)) + Len(y)
        /\ \A i \in 1 .. Len(c) : l[i] = c[i]
        /\ \A i \in 1 .. Len(d) : l[Len(c) + i] = d[i]
        /\ \A i \in 1 .. Len(y) : l[(Len(c) + Len(d)) + i] = y[i]
    BY <2>2, JoinedPlaces
  <2>3. 1 \in 1 .. Len(d)
    BY <2>1
  <2> QED
    BY <2>1, <2>3, <2>4 DEF m, k, n
<1>4. m \in Nat /\ m # 0 /\ k \in Nat
  BY <1>1, EmptySeq
<1> HIDE DEF m, k, n
<1>5. e \in Nat /\ e <= n /\ e \in 1 .. n + 1 /\ m <= n /\ n \in Nat /\ n - e = k /\ 1 \in 1 .. m
  BY <1>3, <1>4
<1>6. WithoutLeadingSpaces(l) = l
  <2>1. l[1] # "space"
    BY <1>1, <1>3, <1>5
  <2> QED
    BY <1>3, <2>1, LeadingSpaces
<1>7. CommandEnd(l) = e
  <2>1. \A i \in 1 .. n : i < e => i \in 1 .. m
    BY <1>4, <1>5
  <2>2. \A i \in 1 .. n : i < e => l[i] # "space"
    BY <1>1, <1>3, <2>1
  <2> HIDE DEF e
  <2> QED
    BY <1>3, <1>5, <2>2, CommandEnds DEF n, e
<1>8. SubSeq(l, 1, m) = c
  <2>1. 0 \in Nat /\ 0 <= m /\ m - 0 = m /\ 0 + 1 = 1 /\ \A i \in 1 .. m : 0 + i = i
    BY <1>4
  <2>2. /\ SubSeq(l, 0 + 1, m) \in Seq(Char) /\ Len(SubSeq(l, 0 + 1, m)) = m - 0
        /\ \A i \in 1 .. m - 0 : SubSeq(l, 0 + 1, m)[i] = l[0 + i]
    BY <1>3, <1>4, <1>5, <2>1, PartPlaces DEF n
  <2> DEFINE u == SubSeq(l, 1, m)
  <2>3. u \in Seq(Char) /\ Len(u) = m /\ \A i \in 1 .. m : u[i] = l[i]
    BY <2>1, <2>2
  <2> HIDE DEF u
  <2>4. u = c
    BY <1>1, <1>3, <2>3, SeqEqual DEF m
  <2> QED
    BY <2>4 DEF u
<1>9. SubSeq(l, e + 1, n) = y
  <2> DEFINE u == SubSeq(l, e + 1, n)
  <2>1. u \in Seq(Char) /\ Len(u) = n - e /\ \A i \in 1 .. n - e : u[i] = l[e + i]
    BY <1>3, <1>5, PartPlaces DEF n
  <2> HIDE DEF u
  <2>2. u = y
    BY <1>3, <1>5, <2>1, SeqEqual DEF k
  <2> QED
    BY <2>2 DEF u
<1>10. e - 1 = m
  BY <1>4
<1> HIDE DEF e
<1> QED
  BY <1>6, <1>7, <1>8, <1>9, <1>10 DEF n

\* A line that its command and its arguments make up, where nothing is left of the
\* arguments it is the command alone.
IsLine(l, c, y) == IF y = <<>> THEN l = c ELSE AreJoined(l, c, <<"space">>, y)

\* Formatted arguments stay as they are when their line is formatted again.
LEMMA LineIsKept ==
  ASSUME NEW c, Command(c), NEW y \in Seq(Char), Neat(y), NoSpaces(y), y # <<>> => c # <<>>,
         NEW l, IsLine(l, c, y), NEW before, before # "backslash"
  PROVE  argformat(l, before) = l
<1> DEFINE s == WithoutLeadingSpaces(l)
           command == SubSeq(s, 1, CommandEnd(s) - 1)
           arguments == SubSeq(s, CommandEnd(s) + 1, Len(s))
<1>1. command = c /\ arguments = y
  <2>1. CASE y = <<>>
    <3>1. l = c
      BY <2>1 DEF IsLine
    <3> QED
      BY <2>1, <3>1, CommandAlone
  <2>2. CASE y # <<>>
    <3>1. AreJoined(l, c, <<"space">>, y)
      BY <2>2 DEF IsLine
    <3> QED
      BY <2>2, <3>1, CommandFirst
  <2> QED
    BY <2>1, <2>2
<1>2. FormattedArguments(y, before) = y
  BY NeatIsKept
<1> HIDE DEF command, arguments
<1>3. argformat(l, before) = IF FormattedArguments(arguments, before) = <<>> THEN command
                             ELSE (command \o <<"space">>) \o FormattedArguments(arguments, before)
  BY Zenon DEF argformat, command, arguments, s
<1>4. argformat(l, before) = IF y = <<>> THEN c ELSE (c \o <<"space">>) \o y
  BY <1>1, <1>2, <1>3, Zenon
<1>5. CASE y = <<>>
  BY <1>4, <1>5 DEF IsLine
<1>6. CASE y # <<>>
  BY <1>4, <1>6 DEF IsLine, AreJoined
<1> QED
  BY <1>5, <1>6

\* The arguments of a tidy line.
LEMMA TidyArguments ==
  ASSUME NEW cmd \in Seq(Char), Tidy(cmd)
  PROVE  LET s == WithoutLeadingSpaces(cmd)
             x == SubSeq(s, CommandEnd(s) + 1, Len(s))
         IN  x \in Seq(Char) /\ Apart(x) /\ Quotes(x) /\ ~ Inside(x, Len(x))
<1> DEFINE s == WithoutLeadingSpaces(cmd)
           e == CommandEnd(s)
           x == SubSeq(s, e + 1, Len(s))
           n == Len(s)
           m == Len(x)
           quotes == {i \in DOMAIN s : s[i] = "quote"}
<1>1. s \in Seq(Char) /\ (s # <<>> => s[1] # "space")
  BY LeadingSpaces
<1>2. /\ Cardinality(quotes) % 2 = 0
      /\ \A i \in quotes : i > e /\ CharAt(s, i - 1) \notin {"quote", "backslash"}
      /\ \A i, j \in DOMAIN s :
           s[i] = "comma" /\ s[j] = "comma" /\ i < j =>
             \E k \in i .. j : s[k] \notin Separator \cup {"quote"}
  BY Zenon DEF Tidy
<1> HIDE DEF s
<1>3. x \in Seq(Char) /\ e \in Nat /\ (x # <<>> => e + m = n) /\ \A i \in 1 .. m : s[e + i] = x[i]
  BY <1>1, LineParts
<1>4. DOMAIN s = 1 .. n /\ n \in Nat
  BY <1>1
<1>5. m \in Nat /\ (m # 0 => e + m = n)
  BY <1>3, EmptySeq
<1> HIDE DEF x, e
<1>6. \A i \in 1 .. m : e + i \in 1 .. n
  <2>1. e \in Nat
    BY <1>3
  <2> HIDE DEF m, n
  <2> QED
    BY <1>4, <1>5, <2>1
<1>7. Apart(x)
  <2>1. SUFFICES ASSUME NEW i \in 1 .. m, NEW j \in 1 .. m,
                        x[i] = "comma", x[j] = "comma", i < j
                 PROVE  \E k \in i .. j : x[k] \notin Separator \cup {"quote"}
    BY DEF Apart
  <2>2. e + i \in 1 .. n /\ e + j \in 1 .. n /\ e + i < e + j
    BY <1>3, <1>6, <2>1
  <2>3. PICK k \in e + i .. e + j : s[k] \notin Separator \cup {"quote"}
    BY <1>2, <1>3, <1>4, <2>1, <2>2
  <2>4. k - e \in i .. j /\ k - e \in 1 .. m /\ e + (k - e) = k
    BY <1>3, <1>5, <2>1
  <2> QED
    BY <1>3, <2>3, <2>4
<1>8. Quotes(x)
  <2>1. SUFFICES ASSUME NEW i \in 1 .. m, x[i] = "quote", i > 1
                 PROVE  x[i - 1] \notin {"quote", "backslash"}
    BY DEF Quotes
  <2>2. e + i \in 1 .. n /\ i - 1 \in 1 .. m /\ e + (i - 1) = (e + i) - 1
    BY <1>3, <1>5, <1>6, <2>1
  <2>3. e + i \in quotes
    BY <1>3, <1>4, <2>1, <2>2
  <2>4. CharAt(s, (e + i) - 1) \notin {"quote", "backslash"}
    BY <1>2, <2>3
  <2>5. (e + i) - 1 \in DOMAIN s
    BY <1>4, <1>6, <2>2
  <2>6. s[(e + i) - 1] \notin {"quote", "backslash"}
    BY <2>4, <2>5 DEF CharAt
  <2> QED
    BY <1>3, <2>2, <2>6
<1>9. ~ Inside(x, m)
  <2>1. CASE m = 0
    BY <1>3, <2>1, QuotesStep
  <2>2. CASE m # 0
    <3>1. e + m = n
      BY <1>5, <2>2
    <3>2. \A i \in 1 .. n : s[i] = "quote" => e < i /\ i <= e + m
      <4>1. SUFFICES ASSUME NEW i \in 1 .. n, s[i] = "quote"
                     PROVE  e < i /\ i <= e + m
        OBVIOUS
      <4>2. i > e
        BY <1>2, <1>4, <4>1
      <4> QED
        BY <1>3, <3>1, <4>2
    <3>3. QuotesBefore(s, n) % 2 = 0
      BY <1>2, <1>4 DEF QuotesBefore
    <3>4. ~ Inside(s, n)
      BY <1>1, <3>3, QuotesStep
    <3>5. e + m <= n
      BY <1>4, <3>1
    <3> QED
      BY <1>1, <1>3, <3>2, <3>4, <3>5, InsidePlaced
  <2> QED
    BY <2>1, <2>2
<1> QED
  BY <1>3, <1>7, <1>8, <1>9 DEF x, e, s

\* A tidy line that is formatted is left as it is by another argformat.
LEMMA TidyIsKept ==
  ASSUME NEW cmd \in Seq(Char), Tidy(cmd), NEW before, before # "backslash",
         NEW again, again # "backslash"
  PROVE  argformat(argformat(cmd, before), again) = argformat(cmd, before)
<1> DEFINE s == WithoutLeadingSpaces(cmd)
           c == SubSeq(s, 1, CommandEnd(s) - 1)
           x == SubSeq(s, CommandEnd(s) + 1, Len(s))
           y == FormattedArguments(x, before)
           l == argformat(cmd, before)
<1>1. s \in Seq(Char) /\ (s # <<>> => s[1] # "space")
  BY LeadingSpaces
<1>2. x \in Seq(Char) /\ Apart(x) /\ Quotes(x) /\ ~ Inside(x, Len(x))
  BY TidyArguments
<1>3. l = IF y = <<>> THEN c ELSE (c \o <<"space">>) \o y
  BY Zenon DEF argformat
<1> HIDE DEF s
<1>4. Command(c) /\ (x # <<>> => c # <<>>)
  BY <1>1, LineParts
<1> HIDE DEF c, x, l
<1>5. y \in Seq(Char) /\ Neat(y) /\ NoSpaces(y)
  BY <1>2, FormattedIsNeat
<1>6. y # <<>> => c # <<>>
  <2>1. ASSUME x = <<>>
        PROVE  y = <<>>
    <3>1. Neat(x) /\ NoSpaces(x)
      <4>1. Len(x) = 0
        BY <2>1
      <4>2. \A i \in 1 .. Len(x) : FALSE
        BY <4>1
      <4> QED
        BY <1>2, <4>2 DEF Neat, NoSpaces, Plain, OnlySeparators
    <3>2. y = x
      BY <1>2, <3>1, NeatIsKept
    <3> QED
      BY <2>1, <3>2
  <2> QED
    BY <1>4, <2>1
<1> HIDE DEF y
<1>7. IsLine(l, c, y)
  BY <1>3 DEF IsLine, AreJoined
<1>8. argformat(l, again) = l
  BY <1>4, <1>5, <1>6, <1>7, LineIsKept
<1> QED
  BY <1>8 DEF l

\* A line of a script is left as it is when it is run, however long it is, as long as
\* no buffer ends in a backslash in front of the one that argformat works on.
THEOREM ScriptAlwaysKeepsLine ==
  ASSUME "backslash" \notin Before
  PROVE  ArgumentsSpec => ScriptKeepsLine
<1>1. ASSUME ArgumentsInv, Format, passes = 1, Tidy(typed)
      PROVE  line' = line
  <2>1. typed \in Seq(Char)
    BY <1>1 DEF ArgumentsInv
  <2>2. PICK before \in Before : line = argformat(typed, before)
    BY <1>1 DEF ArgumentsInv
  <2>3. PICK again \in Before : line' = argformat(line, again)
    BY <1>1 DEF Format
  <2>4. before # "backslash" /\ again # "backslash"
    OBVIOUS
  <2> QED
    BY <1>1, <2>1, <2>2, <2>3, <2>4, TidyIsKept
<1>2. ArgumentsInv /\ [ArgumentsNext]_argumentVars
      => [Format /\ passes = 1 /\ Tidy(typed) => line' = line]_argumentVars
  BY <1>1
<1> QED
  BY <1>2, ArgumentsInvariant, PTL DEF ArgumentsSpec, ScriptKeepsLine
=============================================================================
