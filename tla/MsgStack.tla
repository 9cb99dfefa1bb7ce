------------------------------ MODULE MsgStack ------------------------------
(***************************************************************************)
(* The message stack between _dbg_dbgcmdexec and the command loop          *)
(* (msgqueue.cpp): an array of message pointers and a stack pointer, both  *)
(* under a critical section.  msgsend reads the stack pointer before it    *)
(* enters the critical section, so the slot it writes may be stale.        *)
(*                                                                         *)
(* Definitions marked "Mutant of" are not part of the model: they are      *)
(* plausible mistakes that show which property would catch them.           *)
(***************************************************************************)
EXTENDS Naturals, Sequences, SequencesExt

CONSTANTS
  Sender,       \* threads that call _dbg_dbgcmdexec (today the GUI thread)
  Message,      \* commands, each sent at most once: bounds the run
  MaxMessages,  \* MAX_MESSAGES
  Null          \* an empty slot

ASSUME MaxMessagesAssumption == MaxMessages \in Nat \ {0}
ASSUME NullAssumption == Null \notin Message

VARIABLES
  msg,          \* msgstack->msg: the slots of the array
  stackpos,     \* msgstack->stackpos
  pos,          \* a sender's copy of stackpos (meaningful while sending)
  newmsg,       \* the message a sender is sending, Null when it sends none
  fresh,        \* commands nobody has sent yet
  accepted,     \* messages for which msgsend returned true, in order
  delivered,    \* messages msgget returned, in order
  crashed,      \* msgget read an empty slot or outside the array
  stale         \* a sender wrote to a slot that was no longer the top (auxiliary)

senders == <<pos, newmsg, fresh, accepted>>
vars == <<msg, stackpos, senders, delivered, crashed, stale>>

Slot == 0 .. MaxMessages - 1

TypeOK ==
  /\ msg \in [Slot -> Message \cup {Null}]
  /\ stackpos \in Nat
  /\ pos \in [Sender -> Slot]
  /\ newmsg \in [Sender -> Message \cup {Null}]
  /\ fresh \in SUBSET Message
  /\ accepted \in Seq(Message)
  /\ delivered \in Seq(Message)
  /\ crashed \in BOOLEAN
  /\ stale \in BOOLEAN

Init ==
  /\ msg = [i \in Slot |-> Null]
  /\ stackpos = 0
  /\ pos = [t \in Sender |-> 0]
  /\ newmsg = [t \in Sender |-> Null]
  /\ fresh = Message
  /\ accepted = <<>>
  /\ delivered = <<>>
  /\ crashed = FALSE
  /\ stale = FALSE

\* Mutant of SendBegin: the test for a full stack off by one.
SendBeginOffByOne(t, m) ==
  /\ ~crashed
  /\ newmsg[t] = Null
  /\ m \in fresh
  /\ stackpos <= MaxMessages
  /\ pos' = [pos EXCEPT ![t] = stackpos]
  /\ newmsg' = [newmsg EXCEPT ![t] = m]
  /\ fresh' = fresh \ {m}
  /\ UNCHANGED <<msg, stackpos, accepted, delivered, crashed, stale>>

\* msgsend up to EnterCriticalSection: stackpos is read without the lock.
SendBegin(t, m) ==
  /\ ~crashed
  /\ newmsg[t] = Null
  /\ m \in fresh
  /\ stackpos < MaxMessages
  /\ pos' = [pos EXCEPT ![t] = stackpos]
  /\ newmsg' = [newmsg EXCEPT ![t] = m]
  /\ fresh' = fresh \ {m}
  /\ UNCHANGED <<msg, stackpos, accepted, delivered, crashed, stale>>

\* msgsend finds the stack full; Bridge::execCmd drops the command.
SendRefused(m) ==
  /\ ~crashed
  /\ m \in fresh
  /\ stackpos >= MaxMessages
  /\ fresh' = fresh \ {m}
  /\ UNCHANGED <<msg, stackpos, pos, newmsg, accepted, delivered, crashed, stale>>

\* Mutant of SendEnd: stackpos is not incremented.
SendEndStays(t) ==
  /\ ~crashed
  /\ newmsg[t] # Null
  /\ msg' = [msg EXCEPT ![pos[t]] = newmsg[t]]
  /\ accepted' = Append(accepted, newmsg[t])
  /\ newmsg' = [newmsg EXCEPT ![t] = Null]
  /\ stale' = (stale \/ pos[t] # stackpos)
  /\ UNCHANGED <<stackpos, pos, fresh, delivered, crashed>>

\* The critical section of msgsend.
SendEnd(t) ==
  /\ ~crashed
  /\ newmsg[t] # Null
  /\ msg' = [msg EXCEPT ![pos[t]] = newmsg[t]]
  /\ stackpos' = stackpos + 1
  /\ accepted' = Append(accepted, newmsg[t])
  /\ newmsg' = [newmsg EXCEPT ![t] = Null]
  /\ stale' = (stale \/ pos[t] # stackpos)
  /\ UNCHANGED <<pos, fresh, delivered, crashed>>

Present(i) == i \in Slot /\ msg[i] # Null

\* Mutants of Get: the slot is not emptied; the oldest message is taken; the
\* last message is left on the stack.
GetKeeps ==
  /\ ~crashed
  /\ stackpos > 0
  /\ Present(stackpos - 1)
  /\ delivered' = Append(delivered, msg[stackpos - 1])
  /\ stackpos' = stackpos - 1
  /\ UNCHANGED <<msg, senders, crashed, stale>>

GetOldest ==
  /\ ~crashed
  /\ stackpos > 0
  /\ Present(stackpos - 1)
  /\ delivered' = Append(delivered, msg[0])
  /\ msg' = [i \in Slot |-> IF i + 1 \in Slot THEN msg[i + 1] ELSE Null]
  /\ stackpos' = stackpos - 1
  /\ UNCHANGED <<senders, crashed, stale>>

GetLeavesLast ==
  /\ ~crashed
  /\ stackpos > 1
  /\ Present(stackpos - 1)
  /\ delivered' = Append(delivered, msg[stackpos - 1])
  /\ msg' = [msg EXCEPT ![stackpos - 1] = Null]
  /\ stackpos' = stackpos - 1
  /\ UNCHANGED <<senders, crashed, stale>>

\* msgget with a message on the stack.
Get ==
  /\ ~crashed
  /\ stackpos > 0
  /\ Present(stackpos - 1)
  /\ delivered' = Append(delivered, msg[stackpos - 1])
  /\ msg' = [msg EXCEPT ![stackpos - 1] = Null]
  /\ stackpos' = stackpos - 1
  /\ UNCHANGED <<senders, crashed, stale>>

\* msgget copies from a null pointer, or from beyond the array.
GetCrashes ==
  /\ ~crashed
  /\ stackpos > 0
  /\ ~Present(stackpos - 1)
  /\ crashed' = TRUE
  /\ UNCHANGED <<msg, stackpos, senders, delivered, stale>>

Next ==
  \/ \E t \in Sender, m \in Message : SendBegin(t, m)
  \/ \E m \in Message : SendRefused(m)
  \/ \E t \in Sender : SendEnd(t)
  \/ Get
  \/ GetCrashes

Spec == Init /\ [][Next]_vars

\* A sender leaves msgsend; the command loop polls the stack (msgwait).
Fairness ==
  /\ \A t \in Sender : WF_vars(SendEnd(t))
  /\ WF_vars(Get \/ GetCrashes)

FairSpec == Spec /\ Fairness

-----------------------------------------------------------------------------
(* Properties.                                                              *)

\* Until a sender uses a stale slot, the messages are exactly the slots below
\* stackpos, and msgget never reads an empty slot.
IntactUntilStale ==
  ~stale => ~crashed /\ \A i \in Slot : i < stackpos <=> msg[i] # Null

\* However sends and gets interleave, a command is executed at most once: its
\* message is never in two places of: being sent, one slot, delivered.
AtMostOnce ==
  /\ IsInjective(delivered)
  /\ \A i, j \in Slot : msg[i] # Null /\ msg[i] = msg[j] => i = j
  /\ \A i \in Slot : msg[i] \notin Range(delivered)
  /\ \A t \in Sender : newmsg[t] # Null =>
       /\ newmsg[t] \notin Range(delivered)
       /\ \A i \in Slot : msg[i] # newmsg[t]

\* With one sender, stale or not, stackpos never passes the end of the array.
StackposInBounds ==
  (\A t, u \in Sender : t = u) => stackpos \in 0 .. MaxMessages

\* Under Fairness, and while no sender used a stale slot, every accepted command
\* is executed: with finitely many commands the stack is emptied.
AcceptedIsExecuted ==
  \A m \in Message :
    (m \in Range(accepted)) ~> (m \in Range(delivered) \/ stale)

\* The stack of CommandStack, as long as no stale slot was written.
Intact == INSTANCE CommandStack WITH
  stack <- IF stale THEN <<>> ELSE [i \in 1 .. stackpos |-> msg[i - 1]],
  delivered <- delivered,
  broken <- stale

ImplementsStack == Intact!Spec
=============================================================================
