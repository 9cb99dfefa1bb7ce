----------------------------- MODULE RunControl -----------------------------
(***************************************************************************)
(* Run control of the debugger: how the command loop, the debug loops and  *)
(* the GUI thread start, stop, pause, step and resume a debuggee.          *)
(*                                                                         *)
(* Every InitDebug creates a debug thread (threadDebugLoop).  The command  *)
(* thread and the debug threads meet in two spin flags of threading.cpp:   *)
(* WAITID_SYSBREAK, on which InitDebug waits until the system breakpoint,  *)
(* and WAITID_RUN, on which a debug callback waits until the user resumes. *)
(* waitclear() resets both, whoever waits on them.                         *)
(*                                                                         *)
(* TitanEngine (IsFileBeingDebugged, StopDebug, DebugLoop, StepInto) and   *)
(* the debuggee are external: debuggee, killed, armed and breakIn are what *)
(* the code can see of them.                                               *)
(*                                                                         *)
(* Definitions marked "Mutant of" are not part of the model: they are      *)
(* plausible mistakes that show which property would catch them.           *)
(***************************************************************************)
EXTENDS Naturals, FiniteSets

CONSTANTS
  Session,      \* debug threads, one per InitDebug: bounds how many are made
  NoSession,    \* the value 0 of $pid and $hp
  MayExit       \* whether the user closes the program during the behaviour

ASSUME NoSessionAssumption == NoSession \notin Session
ASSUME MayExitAssumption == MayExit \in BOOLEAN

VARIABLES
  cmd,          \* the command in progress
  at,           \* its next step
  exit,         \* where the GUI thread is in _dbg_dbgexitsignal
  pc,           \* where every debug thread is
  evt,          \* the debug event every debug thread is handling
  waitarray,    \* the ids whose flag is set
  pid,          \* whose ids the variables $hp and $pid hold
  gui,          \* the last state given to GuiSetDebugState
  pauseAsked,   \* isPausedByUser
  cont,         \* last SetNextDbgContinueStatus
  debuggee,     \* sessions whose process the engine debugs
  booted,       \* sessions that reported the system breakpoint
  killed,       \* sessions whose process was terminated by StopDebug
  armed,        \* step callback the engine will call: "no", "step", "rtr"
  breakIn,      \* sessions with the thread of DebugBreakProcess pending
  creator,      \* session the command thread created last (auxiliary)
  overlap       \* InitDebug set its flag while a debug thread ran (auxiliary)

userVars  == <<cmd, at, exit, creator, overlap>>
engine    == <<debuggee, booted, killed, armed, breakIn>>
handling  == <<evt, cont, pauseAsked>>
vars == <<waitarray, userVars, engine, handling, pc, pid, gui>>

Command == {"none", "init", "run", "step", "rtr", "stop", "pause"}
Step == {"idle", "clear", "lock", "create", "wait",
         "arm", "check", "show", "unlock", "kill", "break"}

At(c, step) == cmd = c /\ at = step
Idle == At("none", "idle")

\* Positions of threadDebugLoop; "gui" to "wait" are inside a debug callback.
Position == {"none", "init", "fail", "copy", "vars", "ready", "loop",
             "gui", "sys", "lock", "wait", "stopped", "unset", "clear", "done"}
Callback == {"gui", "sys", "lock", "wait"}
Alive(s) == pc[s] \notin {"none", "done"}

Event == {"none", "sys", "bp", "step", "breakin", "int3", "exc", "last"}

WaitId == {"SYSBREAK", "RUN"}

lock(id) == waitarray' = waitarray \cup {id}
unlock(id) == waitarray' = waitarray \ {id}
waitclear == waitarray' = {}
waitislocked(id) == id \in waitarray

IsFileBeingDebugged == debuggee # {}

TypeOK ==
  /\ cmd \in Command
  /\ at \in Step
  /\ cmd = "none" <=> at = "idle"
  /\ exit \in {"no", "kill", "unlock", "gone"}
  /\ pc \in [Session -> Position]
  /\ evt \in [Session -> Event]
  /\ waitarray \in SUBSET WaitId
  /\ pid \in Session \cup {NoSession}
  /\ gui \in {"stopped", "initialized", "paused", "running"}
  /\ pauseAsked \in BOOLEAN
  /\ cont \in {"continue", "not_handled"}
  /\ debuggee \in SUBSET Session
  /\ booted \in SUBSET Session
  /\ killed \in SUBSET Session
  /\ armed \in {"no", "step", "rtr"}
  /\ breakIn \in SUBSET Session
  /\ creator \in Session \cup {NoSession}
  /\ overlap \in BOOLEAN

Init ==
  /\ Idle
  /\ exit = "no"
  /\ pc = [s \in Session |-> "none"]
  /\ evt = [s \in Session |-> "none"]
  /\ waitarray = {}
  /\ pid = NoSession
  /\ gui = "stopped"
  /\ pauseAsked = FALSE
  /\ cont = "continue"
  /\ debuggee = {}
  /\ booted = {}
  /\ killed = {}
  /\ armed = "no"
  /\ breakIn = {}
  /\ creator = NoSession
  /\ overlap = FALSE

-----------------------------------------------------------------------------
(* The command thread: cmdloop takes one command at a time and runs it to   *)
(* its end.  Its debug-only commands are refused when nothing is debugged.  *)

Take(c, step) ==
  /\ Idle
  /\ cmd' = c
  /\ at' = step
  /\ UNCHANGED <<waitarray, exit, creator, overlap, engine, handling, pc, pid, gui>>

Goto(step) == at' = step /\ UNCHANGED cmd

\* Mutant of Return: the step of the command is not reset.
ReturnUnreset == cmd' = "none" /\ at' = "unlock"

Return == cmd' = "none" /\ at' = "idle"

\* Mutant of TakeInit: cbDebugInit without its IsFileBeingDebugged test.
TakeInitAnyway == Take("init", "clear")

\* cbDebugInit up to the flags; a second debuggee is refused here.
TakeInit == ~IsFileBeingDebugged /\ Take("init", "clear")

\* cmdloop lets a debug-only command through only while debugging.
TakeDebugOnly ==
  /\ IsFileBeingDebugged
  /\ \/ Take("run", "check")
     \/ Take("step", "arm")
     \/ Take("rtr", "arm")
     \/ Take("stop", "kill")
     \/ Take("pause", "check")

InitClear ==
  /\ At("init", "clear")
  /\ waitclear
  /\ Goto("lock")
  /\ UNCHANGED <<exit, creator, overlap, engine, handling, pc, pid, gui>>

InitLock ==
  /\ At("init", "lock")
  /\ lock("SYSBREAK")
  /\ overlap' = (overlap \/ \E s \in Session : Alive(s))
  /\ Goto("create")
  /\ UNCHANGED <<exit, creator, engine, handling, pc, pid, gui>>

\* CreateThread; the init structure it passes points into this stack frame.
InitCreate(s) ==
  /\ At("init", "create")
  /\ pc[s] = "none"
  /\ pc' = [pc EXCEPT ![s] = "init"]
  /\ creator' = s
  /\ Goto("wait")
  /\ UNCHANGED <<waitarray, exit, overlap, engine, handling, pid, gui>>

\* CreateThread fails; also bounds the run when every session is used.
InitCreateFails ==
  /\ At("init", "create")
  /\ Return
  /\ UNCHANGED <<waitarray, exit, creator, overlap, engine, handling, pc, pid, gui>>

InitReturns ==
  /\ At("init", "wait")
  /\ ~waitislocked("SYSBREAK")
  /\ Return
  /\ UNCHANGED <<waitarray, exit, creator, overlap, engine, handling, pc, pid, gui>>

\* StepInto, StepOver, SingleStep (cbStep) and rtr (cbRtrStep): the engine is
\* told to step before cbDebugRun checks that the debuggee is paused.
StepArm(kind) ==
  /\ At(kind, "arm")
  /\ armed' = IF IsFileBeingDebugged THEN kind ELSE armed
  /\ Goto("check")
  /\ UNCHANGED <<waitarray, exit, creator, overlap, debuggee, booted, killed,
                 breakIn, handling, pc, pid, gui>>

Resuming(step) == \E kind \in {"run", "step", "rtr"} : At(kind, step)

\* cbDebugRun, "program is already running".
RunRefused ==
  /\ Resuming("check")
  /\ ~waitislocked("RUN")
  /\ Return
  /\ UNCHANGED <<waitarray, exit, creator, overlap, engine, handling, pc, pid, gui>>

\* Mutant of RunAccepted: the dbgisrunning test dropped.
RunAcceptedAnyway ==
  /\ Resuming("check")
  /\ Goto("show")
  /\ UNCHANGED <<waitarray, exit, creator, overlap, engine, handling, pc, pid, gui>>

RunAccepted ==
  /\ Resuming("check")
  /\ waitislocked("RUN")
  /\ Goto("show")
  /\ UNCHANGED <<waitarray, exit, creator, overlap, engine, handling, pc, pid, gui>>

RunShow ==
  /\ Resuming("show")
  /\ gui' = "running"
  /\ Goto("unlock")
  /\ UNCHANGED <<waitarray, exit, creator, overlap, engine, handling, pc, pid>>

\* Mutant of RunUnlock: the flag is not reset.
RunUnlockForgotten ==
  /\ Resuming("unlock")
  /\ Return
  /\ UNCHANGED <<waitarray, exit, creator, overlap, engine, handling, pc, pid, gui>>

RunUnlock ==
  /\ Resuming("unlock")
  /\ unlock("RUN")
  /\ Return
  /\ UNCHANGED <<exit, creator, overlap, engine, handling, pc, pid, gui>>

\* StopDebug terminates the process of the engine's session, if it has one.
StopDebug ==
  /\ \/ \E s \in debuggee : killed' = killed \cup {s}
     \/ debuggee = {} /\ UNCHANGED killed
  /\ UNCHANGED <<debuggee, booted, armed, breakIn>>

StopKill ==
  /\ At("stop", "kill")
  /\ StopDebug
  /\ Goto("unlock")
  /\ UNCHANGED <<waitarray, exit, creator, overlap, handling, pc, pid, gui>>

\* Mutant of StopUnlock: the callback that waits is not released.
StopUnlockForgotten ==
  /\ At("stop", "unlock")
  /\ Return
  /\ UNCHANGED <<waitarray, exit, creator, overlap, engine, handling, pc, pid, gui>>

StopUnlock ==
  /\ At("stop", "unlock")
  /\ unlock("RUN")
  /\ Return
  /\ UNCHANGED <<exit, creator, overlap, engine, handling, pc, pid, gui>>

PauseCheck ==
  /\ At("pause", "check")
  /\ IF waitislocked("RUN") THEN Return ELSE Goto("break")
  /\ UNCHANGED <<waitarray, exit, creator, overlap, engine, handling, pc, pid, gui>>

PauseBreak ==
  /\ At("pause", "break")
  /\ pauseAsked' = TRUE
  /\ breakIn' = breakIn \cup debuggee
  /\ Return
  /\ UNCHANGED <<waitarray, exit, creator, overlap, debuggee, booted, killed,
                 armed, evt, cont, pc, pid, gui>>

\* What the command thread does on its own once it has taken a command.
CmdContinues ==
  \/ InitClear \/ InitLock \/ (\E s \in Session : InitCreate(s)) \/ InitCreateFails
  \/ InitReturns
  \/ (\E kind \in {"step", "rtr"} : StepArm(kind))
  \/ RunRefused \/ RunAccepted \/ RunShow \/ RunUnlock
  \/ StopKill \/ StopUnlock \/ PauseCheck \/ PauseBreak

-----------------------------------------------------------------------------
(* The GUI thread: closing the program calls cbStopDebug from this thread.  *)

ExitSignal ==
  /\ MayExit
  /\ exit = "no"
  /\ exit' = "kill"
  /\ UNCHANGED <<waitarray, cmd, at, creator, overlap, engine, handling, pc, pid, gui>>

ExitKill ==
  /\ exit = "kill"
  /\ StopDebug
  /\ exit' = "unlock"
  /\ UNCHANGED <<waitarray, cmd, at, creator, overlap, handling, pc, pid, gui>>

ExitUnlock ==
  /\ exit = "unlock"
  /\ unlock("RUN")
  /\ exit' = "gone"
  /\ UNCHANGED <<cmd, at, creator, overlap, engine, handling, pc, pid, gui>>

-----------------------------------------------------------------------------
(* A debug thread: threadDebugLoop before and after DebugLoop.              *)

Move(s, from, to) == pc[s] = from /\ pc' = [pc EXCEPT ![s] = to]

\* Mutant of Start: InitDebug is released when the process exists.
StartUnlocks(s) ==
  /\ Move(s, "init", "copy")
  /\ debuggee' = debuggee \cup {s}
  /\ unlock("SYSBREAK")
  /\ UNCHANGED <<userVars, booted, killed, armed, breakIn, handling, pid, gui>>

\* InitDebugEx or InitDLLDebug creates the process.
Start(s) ==
  /\ Move(s, "init", "copy")
  /\ debuggee' = debuggee \cup {s}
  /\ UNCHANGED <<waitarray, userVars, booted, killed, armed, breakIn, handling, pid, gui>>

StartFails(s) ==
  /\ Move(s, "init", "fail")
  /\ UNCHANGED <<waitarray, userVars, engine, handling, pid, gui>>

\* Mutant of Fail: the error path returns without unlock.
FailSilently(s) ==
  /\ Move(s, "fail", "done")
  /\ UNCHANGED <<waitarray, userVars, engine, handling, pid, gui>>

Fail(s) ==
  /\ Move(s, "fail", "done")
  /\ unlock("SYSBREAK")
  /\ UNCHANGED <<userVars, engine, handling, pid, gui>>

\* strcpy(szFileName, init->exe): the last use of the command's stack frame.
CopyName(s) ==
  /\ Move(s, "copy", "vars")
  /\ UNCHANGED <<waitarray, userVars, engine, handling, pid, gui>>

SetIds(s) ==
  /\ Move(s, "vars", "ready")
  /\ pid' = s
  /\ UNCHANGED <<waitarray, userVars, engine, handling, gui>>

Ready(s) ==
  /\ Move(s, "ready", "loop")
  /\ gui' = "initialized"
  /\ UNCHANGED <<waitarray, userVars, engine, handling, pid>>

ShowStopped(s) ==
  /\ Move(s, "stopped", "unset")
  /\ gui' = "stopped"
  /\ UNCHANGED <<waitarray, userVars, engine, handling, pid>>

\* Mutant of UnsetIds: $pid and $hp keep their values.
UnsetNothing(s) ==
  /\ Move(s, "unset", "clear")
  /\ UNCHANGED <<waitarray, userVars, engine, handling, pid, gui>>

UnsetIds(s) ==
  /\ Move(s, "unset", "clear")
  /\ pid' = NoSession
  /\ UNCHANGED <<waitarray, userVars, engine, handling, gui>>

WaitClear(s) ==
  /\ Move(s, "clear", "done")
  /\ waitclear
  /\ UNCHANGED <<userVars, engine, handling, pid, gui>>

-----------------------------------------------------------------------------
(* A debug thread inside DebugLoop: the engine delivers an event, a callback *)
(* shows it and waits.  Loading and unloading a DLL changes none of this.    *)

\* The event reaches a callback that ends by waiting on WAITID_RUN.
Deliver(s, e) ==
  /\ Move(s, "loop", "gui")
  /\ s \in debuggee \ killed
  /\ evt' = [evt EXCEPT ![s] = e]
  /\ UNCHANGED <<waitarray, userVars, debuggee, killed, pid, gui, pauseAsked>>

SystemBreakpoint(s) ==
  /\ s \notin booted
  /\ Deliver(s, "sys")
  /\ booted' = booted \cup {s}
  /\ UNCHANGED <<armed, breakIn, cont>>

\* Entry, software, hardware and memory breakpoints.
Breakpoint(s) ==
  /\ s \in booted
  /\ Deliver(s, "bp")
  /\ UNCHANGED <<booted, armed, breakIn, cont>>

\* cbStep, or cbRtrStep at a RET; elsewhere cbRtrStep only steps again.
StepDone(s) ==
  /\ s \in booted
  /\ armed # "no"
  /\ Deliver(s, "step")
  /\ armed' = "no"
  /\ UNCHANGED <<booted, breakIn, cont>>

\* cbException for the INT3 of DebugBreakProcess or one of the debuggee's own.
Int3(s, e) ==
  /\ s \in booted
  /\ Deliver(s, e)
  /\ e = "breakin" => s \in breakIn
  /\ breakIn' = IF e = "breakin" THEN breakIn \ {s} ELSE breakIn
  /\ cont' = IF pauseAsked THEN "continue" ELSE "not_handled"
  /\ UNCHANGED <<booted, armed>>

\* cbException for another first chance exception, or a last chance one.
OtherException(s, e) ==
  /\ s \in booted
  /\ Deliver(s, e)
  /\ cont' = IF e = "last" THEN "continue" ELSE "not_handled"
  /\ UNCHANGED <<booted, armed, breakIn>>

ShowPaused(s) ==
  /\ Move(s, "gui", IF evt[s] = "sys" THEN "sys" ELSE "lock")
  /\ gui' = "paused"
  /\ UNCHANGED <<waitarray, userVars, engine, handling, pid>>

UnlockSysBreak(s) ==
  /\ Move(s, "sys", "lock")
  /\ unlock("SYSBREAK")
  /\ UNCHANGED <<userVars, engine, handling, pid, gui>>

LockRun(s) ==
  /\ Move(s, "lock", "wait")
  /\ lock("RUN")
  /\ UNCHANGED <<userVars, engine, handling, pid, gui>>

\* Mutant of Resume: wait() returns without looking at the flag.
ResumeAnyway(s) ==
  /\ Move(s, "wait", "loop")
  /\ evt' = [evt EXCEPT ![s] = "none"]
  /\ UNCHANGED <<waitarray, userVars, engine, cont, pauseAsked, pid, gui>>

Resume(s) ==
  /\ ~waitislocked("RUN")
  /\ Move(s, "wait", "loop")
  /\ evt' = [evt EXCEPT ![s] = "none"]
  /\ UNCHANGED <<waitarray, userVars, engine, cont, pauseAsked, pid, gui>>

\* The process exits, by itself or killed, and DebugLoop returns.
ProcessExit(s) ==
  /\ Move(s, "loop", "stopped")
  /\ debuggee' = debuggee \ {s}
  /\ killed' = killed \ {s}
  /\ breakIn' = breakIn \ {s}
  /\ armed' = "no"
  /\ UNCHANGED <<waitarray, userVars, booted, handling, pid, gui>>

ThreadStep(s) ==
  \/ Start(s) \/ StartFails(s) \/ Fail(s) \/ CopyName(s) \/ SetIds(s) \/ Ready(s)
  \/ ShowPaused(s) \/ UnlockSysBreak(s) \/ LockRun(s) \/ Resume(s)
  \/ ShowStopped(s) \/ UnsetIds(s) \/ WaitClear(s)

DebugEvent(s) ==
  \/ SystemBreakpoint(s) \/ Breakpoint(s) \/ StepDone(s)
  \/ (\E e \in {"breakin", "int3"} : Int3(s, e))
  \/ (\E e \in {"exc", "last"} : OtherException(s, e))
  \/ ProcessExit(s)

Next ==
  \/ TakeInit \/ TakeDebugOnly \/ CmdContinues
  \/ ExitSignal \/ ExitKill \/ ExitUnlock
  \/ \E s \in Session : ThreadStep(s) \/ DebugEvent(s)

Spec == Init /\ [][Next]_vars

\* A new process reaches its system breakpoint or dies; a killed one dies.
ProcessProgress(s) ==
  \/ SystemBreakpoint(s)
  \/ ProcessExit(s) /\ (s \notin booted \/ s \in killed)

\* The threads run; no command, debug event or exit of the user's is owed.
Fairness ==
  /\ WF_vars(CmdContinues)
  /\ WF_vars(ExitKill) /\ WF_vars(ExitUnlock)
  /\ \A s \in Session : WF_vars(ThreadStep(s)) /\ WF_vars(ProcessProgress(s))

FairSpec == Spec /\ Fairness

-----------------------------------------------------------------------------
(* Safety.  Most of it holds as long as InitDebug does not set its flag while *)
(* an older debug thread still has lines to run; the code does not prevent   *)
(* that, and the plain forms below are violated when it happens.             *)

\* Until a session reports its system breakpoint, or ends without one.
Booting(s) ==
  /\ Alive(s)
  /\ s \notin booted \/ (evt[s] = "sys" /\ pc[s] \in {"gui", "sys"})

\* InitDebug_initdbg_init.htm: the command gives control back to the user
\* after the system breakpoint is reached.  It also keeps alive the strings on
\* cbDebugInit's stack that the debug thread reads through the init structure.
ControlReturnsAtSystemBreakpoint ==
  \A s \in Session : Booting(s) => At("init", "wait") /\ creator = s

\* The same promise of cbDebugInit, for sessions that do not overlap.
ControlReturnsUnlessOverlap == overlap \/ ControlReturnsAtSystemBreakpoint

\* InitDebug_initdbg_init.htm: $pid and $hp are set; from the system breakpoint
\* until the debug loop ends they name the session being debugged.
IdsNameDebuggee ==
  \A s \in Session : pc[s] \in {"ready", "loop"} \cup Callback => pid = s

\* The same for sessions that do not overlap, and no id outlives its session.
IdsNameDebuggeeUnlessOverlap ==
  \/ overlap
  \/ IdsNameDebuggee /\ ((\A s \in Session : ~Alive(s)) => pid = NoSession)

\* cbDebugRun and cbDebugPause take WAITID_RUN for "the debuggee is paused":
\* it is set only while a debug thread waits on it in a callback.
RunLockHasWaiter ==
  overlap \/ (waitislocked("RUN") => \E s \in Session : pc[s] = "wait")

\* A debuggee held at WAITID_RUN is shown as paused, so the user knows to
\* resume it: GuiSetDebugState(paused) is not overtaken by another state.  Not
\* so once the GUI exits: its StopDebug may resume the debuggee under a run.
PausedIsShown ==
  \/ overlap
  \/ exit # "no"
  \/ \A s \in Session :
       pc[s] = "wait" /\ waitislocked("RUN") /\ ~Resuming("unlock") => gui = "paused"

\* WAITID_RUN of a held debuggee is released only by run, a stepping command,
\* StopDebug or the exit signal, never by a waitclear() meant for another.
OnlyUserReleasesRun ==
  [][~overlap /\ waitislocked("RUN") /\ "RUN" \notin waitarray' =>
       Resuming("unlock") \/ At("stop", "unlock") \/ exit = "unlock"]_vars

-----------------------------------------------------------------------------
(* Liveness, under Fairness.                                                *)

\* InitDebug always gives control back: every way a debug thread can end or
\* reach the user releases WAITID_SYSBREAK.
InitReturnsEventually == (cmd = "init") ~> Idle

\* A run that was accepted lets the held debuggee go.
AcceptedRunResumes ==
  (Resuming("unlock") /\ ~overlap /\ \E s \in Session : pc[s] = "wait")
    ~> ((\A s \in Session : pc[s] # "wait") \/ overlap)

\* StopDebug on a held debuggee ends its session.
StopWhilePausedEnds ==
  (At("stop", "unlock") /\ ~overlap /\ \E s \in killed : pc[s] = "wait")
    ~> ((\A s \in Session : ~Alive(s)) \/ overlap)

\* "debug loop (returns when process debugging is stopped)": StopDebug on any
\* debuggee ends its session.
StopEndsSession == \A s \in Session : (s \in killed) ~> (pc[s] = "done")
=============================================================================
