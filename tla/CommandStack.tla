---------------------------- MODULE CommandStack ----------------------------
(***************************************************************************)
(* What the message stack of the command loop promises (msgqueue.h): a     *)
(* bounded stack.  A send puts a message on top or is refused when the     *)
(* stack is full, a get takes the top.  `broken` ends the promise: from    *)
(* then on nothing is said about the stack.                                *)
(***************************************************************************)
EXTENDS Naturals, Sequences, SequencesExt

CONSTANTS Message, MaxMessages

VARIABLES
  stack,        \* messages accepted and not taken, the newest last
  delivered,    \* messages taken, in order
  broken

vars == <<stack, delivered, broken>>

Init == stack = <<>> /\ delivered = <<>> /\ broken = FALSE

Send(m) ==
  /\ ~broken
  /\ Len(stack) < MaxMessages
  /\ stack' = Append(stack, m)
  /\ UNCHANGED <<delivered, broken>>

Get ==
  /\ ~broken
  /\ stack # <<>>
  /\ delivered' = Append(delivered, Last(stack))
  /\ stack' = Front(stack)
  /\ UNCHANGED broken

Break == broken' = TRUE /\ stack' \in Seq(Message) /\ delivered' \in Seq(Message)

Next == (\E m \in Message : Send(m)) \/ Get \/ Break

Spec == Init /\ [][Next]_vars
=============================================================================
