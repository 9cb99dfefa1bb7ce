-------------------------- MODULE RunControl_proofs --------------------------
(***************************************************************************)
(* Theorems about RunControl, for any set of debug threads.                *)
(***************************************************************************)
EXTENDS RunControl, TLAPS

\* Positions with a process the engine debugs, and after DebugLoop returned.
Debugged == {"copy", "vars", "ready", "loop"} \cup Callback
Tail     == {"stopped", "unset", "clear"}

\* Positions between setting $pid and $hp and clearing them.
Named == {"ready", "loop", "stopped", "unset"} \cup Callback

\* While no InitDebug overlapped an older debug thread there is one debug
\* thread, and the command thread knows how far it is.
OneThread ==
  /\ \A s, t \in Session : Alive(s) /\ Alive(t) => s = t
  /\ \A s \in Session : Alive(s) => creator = s
  /\ At("init", "create") =>
       waitislocked("SYSBREAK") /\ \A s \in Session : ~Alive(s)
  /\ At("init", "clear") \/ At("init", "lock") =>
       \A s \in Session : Alive(s) => pc[s] \in Tail

Boot ==
  /\ \A s \in Session : Booting(s) => At("init", "wait") /\ waitislocked("SYSBREAK")
  /\ \A s \in Session :
       pc[s] \in {"none", "init", "fail", "copy", "vars", "ready"} => s \notin booted
  /\ \A s \in Session : pc[s] = "sys" => evt[s] = "sys"
  /\ \A s \in Session : pc[s] \in Callback => s \in booted
  /\ \A s \in Session : pc[s] \in Debugged => s \in debuggee

RunLock == waitislocked("RUN") => \E s \in Session : pc[s] = "wait"

Ids ==
  /\ \A s \in Session : pc[s] \in Named => pid = s
  /\ pid \in Session => pc[pid] \in Named

\* Until the GUI exits only the command thread resumes a debuggee.
Shown ==
  exit = "no" =>
    /\ Resuming("show") \/ Resuming("unlock") => waitislocked("RUN")
    /\ \A s \in Session : pc[s] \in {"sys", "lock"} => gui = "paused"
    /\ \A s \in Session :
         pc[s] = "wait" /\ waitislocked("RUN") /\ ~Resuming("unlock") => gui = "paused"

IndInv == TypeOK /\ (overlap \/ (OneThread /\ Boot /\ RunLock /\ Ids /\ Shown))

-----------------------------------------------------------------------------
\* The variables keep the types the C++ declarations give them: in particular
\* every debug thread is at a line of threadDebugLoop or of a callback.
THEOREM TypeCorrect == Spec => []TypeOK
<1>1. Init => TypeOK
  BY DEF Init, TypeOK, WaitId, Idle, At, Command, Step, Position, Event
<1>2. TypeOK /\ [Next]_vars => TypeOK'
  <2> SUFFICES ASSUME TypeOK, [Next]_vars
               PROVE  TypeOK'
    OBVIOUS
  <2> USE DEF TypeOK, Idle, At, Command, Step, Position, Event, Callback,
             WaitId, lock, unlock, waitclear, waitislocked, userVars, engine, handling
  <2>1. ASSUME TakeInit
        PROVE  TypeOK'
    BY <2>1 DEF TakeInit, Take, IsFileBeingDebugged
  <2>2. ASSUME NEW c \in {"run", "step", "rtr", "stop", "pause"},
               NEW step \in {"check", "arm", "kill"}, Take(c, step)
        PROVE  TypeOK'
    BY <2>2 DEF Take
  <2>3. ASSUME InitClear
        PROVE  TypeOK'
    BY <2>3 DEF InitClear, Goto, Return
  <2>4. ASSUME InitLock
        PROVE  TypeOK'
    BY <2>4 DEF InitLock, Goto, Return
  <2>5. ASSUME NEW s \in Session, InitCreate(s)
        PROVE  TypeOK'
    BY <2>5 DEF InitCreate, Goto, Return
  <2>6. ASSUME InitCreateFails
        PROVE  TypeOK'
    BY <2>6 DEF InitCreateFails, Goto, Return
  <2>7. ASSUME InitReturns
        PROVE  TypeOK'
    BY <2>7 DEF InitReturns, Goto, Return
  <2>8. ASSUME NEW kind \in {"step", "rtr"}, StepArm(kind)
        PROVE  TypeOK'
    BY <2>8 DEF StepArm, At, Goto, IsFileBeingDebugged
  <2>9. ASSUME RunRefused
        PROVE  TypeOK'
    BY <2>9 DEF RunRefused, Resuming, Goto, Return
  <2>10. ASSUME RunAccepted
        PROVE  TypeOK'
    BY <2>10 DEF RunAccepted, Resuming, Goto, Return
  <2>11. ASSUME RunShow
        PROVE  TypeOK'
    BY <2>11 DEF RunShow, Resuming, Goto, Return
  <2>12. ASSUME RunUnlock
        PROVE  TypeOK'
    BY <2>12 DEF RunUnlock, Resuming, Goto, Return
  <2>13. ASSUME StopKill
        PROVE  TypeOK'
    BY <2>13 DEF StopKill, Goto, Return, StopDebug
  <2>14. ASSUME StopUnlock
        PROVE  TypeOK'
    BY <2>14 DEF StopUnlock, Goto, Return
  <2>15. ASSUME PauseCheck
        PROVE  TypeOK'
    BY <2>15 DEF PauseCheck, Goto, Return
  <2>16. ASSUME PauseBreak
        PROVE  TypeOK'
    BY <2>16 DEF PauseBreak, Goto, Return
  <2>17. ASSUME ExitSignal
        PROVE  TypeOK'
    BY <2>17 DEF ExitSignal
  <2>18. ASSUME ExitKill
        PROVE  TypeOK'
    BY <2>18 DEF ExitKill, StopDebug
  <2>19. ASSUME ExitUnlock
        PROVE  TypeOK'
    BY <2>19 DEF ExitUnlock
  <2>20. ASSUME NEW s \in Session, Start(s)
        PROVE  TypeOK'
    BY <2>20 DEF Start, Move
  <2>21. ASSUME NEW s \in Session, StartFails(s)
        PROVE  TypeOK'
    BY <2>21 DEF StartFails, Move
  <2>22. ASSUME NEW s \in Session, Fail(s)
        PROVE  TypeOK'
    BY <2>22 DEF Fail, Move
  <2>23. ASSUME NEW s \in Session, CopyName(s)
        PROVE  TypeOK'
    BY <2>23 DEF CopyName, Move
  <2>24. ASSUME NEW s \in Session, SetIds(s)
        PROVE  TypeOK'
    BY <2>24 DEF SetIds, Move
  <2>25. ASSUME NEW s \in Session, Ready(s)
        PROVE  TypeOK'
    BY <2>25 DEF Ready, Move
  <2>26. ASSUME NEW s \in Session, ShowPaused(s)
        PROVE  TypeOK'
    BY <2>26 DEF ShowPaused, Move
  <2>27. ASSUME NEW s \in Session, UnlockSysBreak(s)
        PROVE  TypeOK'
    BY <2>27 DEF UnlockSysBreak, Move
  <2>28. ASSUME NEW s \in Session, LockRun(s)
        PROVE  TypeOK'
    BY <2>28 DEF LockRun, Move
  <2>29. ASSUME NEW s \in Session, Resume(s)
        PROVE  TypeOK'
    BY <2>29 DEF Resume, Move
  <2>30. ASSUME NEW s \in Session, ShowStopped(s)
        PROVE  TypeOK'
    BY <2>30 DEF ShowStopped, Move
  <2>31. ASSUME NEW s \in Session, UnsetIds(s)
        PROVE  TypeOK'
    BY <2>31 DEF UnsetIds, Move
  <2>32. ASSUME NEW s \in Session, WaitClear(s)
        PROVE  TypeOK'
    BY <2>32 DEF WaitClear, Move
  <2>33. ASSUME NEW s \in Session, SystemBreakpoint(s)
        PROVE  TypeOK'
    BY <2>33 DEF SystemBreakpoint, Move, Deliver
  <2>34. ASSUME NEW s \in Session, Breakpoint(s)
        PROVE  TypeOK'
    BY <2>34 DEF Breakpoint, Move, Deliver
  <2>35. ASSUME NEW s \in Session, StepDone(s)
        PROVE  TypeOK'
    BY <2>35 DEF StepDone, Move, Deliver
  <2>36. ASSUME NEW s \in Session, ProcessExit(s)
        PROVE  TypeOK'
    BY <2>36 DEF ProcessExit, Move
  <2>37. ASSUME NEW s \in Session, NEW e \in {"breakin", "int3"}, Int3(s, e)
        PROVE  TypeOK'
    BY <2>37 DEF Int3, Deliver, Move
  <2>38. ASSUME NEW s \in Session, NEW e \in {"exc", "last"}, OtherException(s, e)
        PROVE  TypeOK'
    BY <2>38 DEF OtherException, Deliver, Move
  <2>39. ASSUME UNCHANGED vars
        PROVE  TypeOK'
    BY <2>39 DEF vars
  <2> QED
    BY <2>1, <2>2, <2>3, <2>4, <2>5, <2>6, <2>7, <2>8, <2>9, <2>10, <2>11,
       <2>12, <2>13, <2>14, <2>15, <2>16, <2>17, <2>18, <2>19, <2>20,
       <2>21, <2>22, <2>23, <2>24, <2>25, <2>26, <2>27, <2>28, <2>29,
       <2>30, <2>31, <2>32, <2>33, <2>34, <2>35, <2>36, <2>37, <2>38,
       <2>39 DEF Next, TakeDebugOnly, CmdContinues, ThreadStep, DebugEvent
<1> QED
  BY <1>1, <1>2, PTL DEF Spec

-----------------------------------------------------------------------------
\* IndInv is inductive.  An action that could disturb it is either refused by
\* the position of the command thread (Boot, OneThread) or disturbs it only by
\* making overlap true.
LEMMA IndInvInductive == TypeOK /\ TypeOK' /\ IndInv /\ [Next]_vars => IndInv'
<1> DEFINE Clean == OneThread /\ Boot /\ RunLock /\ Ids /\ Shown
<1>1. ASSUME TypeOK, TypeOK', Clean, ~overlap', [Next]_vars
      PROVE  Clean'
  <2> USE <1>1, NoSessionAssumption
      DEF TypeOK, OneThread, Boot, RunLock, Ids, Shown, Alive, Booting, Resuming,
          Idle, At, Debugged, Tail, Named, Position, Event, Callback,
          WaitId, lock, unlock, waitclear, waitislocked, userVars, engine, handling
  <2>1. ASSUME TakeInit
        PROVE  Clean'
    BY <2>1 DEF TakeInit, Take, IsFileBeingDebugged
  <2>2. ASSUME NEW c \in {"run", "step", "rtr", "stop", "pause"},
               NEW step \in {"check", "arm", "kill"}, Take(c, step)
        PROVE  Clean'
    BY <2>2 DEF Take
  <2>3. ASSUME InitClear
        PROVE  Clean'
    BY <2>3 DEF InitClear, Goto, Return
  <2>4. ASSUME InitLock
        PROVE  Clean'
    BY <2>4 DEF InitLock, Goto, Return
  <2>5. ASSUME NEW s \in Session, InitCreate(s)
        PROVE  Clean'
    <3> USE <2>5 DEF InitCreate, Goto, Return
    <3>1. OneThread'
      <4>1. \A t \in Session : ~Alive(t) /\ (Alive(t)' => t = s) OBVIOUS
      <4> HIDE DEF Alive
      <4> QED BY <4>1
    <3>2. Boot' OBVIOUS
    <3>3. RunLock' OBVIOUS
    <3>4. Ids' OBVIOUS
    <3>5. Shown' OBVIOUS
    <3> QED BY <3>1, <3>2, <3>3, <3>4, <3>5
  <2>6. ASSUME InitCreateFails
        PROVE  Clean'
    BY <2>6 DEF InitCreateFails, Goto, Return
  <2>7. ASSUME InitReturns
        PROVE  Clean'
    BY <2>7 DEF InitReturns, Goto, Return
  <2>8. ASSUME NEW kind \in {"step", "rtr"}, StepArm(kind)
        PROVE  Clean'
    BY <2>8 DEF StepArm, At, Goto, IsFileBeingDebugged
  <2>9. ASSUME RunRefused
        PROVE  Clean'
    BY <2>9 DEF RunRefused, Resuming, Goto, Return
  <2>10. ASSUME RunAccepted
        PROVE  Clean'
    BY <2>10 DEF RunAccepted, Resuming, Goto, Return
  <2>11. ASSUME RunShow
        PROVE  Clean'
    BY <2>11 DEF RunShow, Resuming, Goto, Return
  <2>12. ASSUME RunUnlock
        PROVE  Clean'
    BY <2>12 DEF RunUnlock, Resuming, Goto, Return
  <2>13. ASSUME StopKill
        PROVE  Clean'
    BY <2>13 DEF StopKill, Goto, Return, StopDebug
  <2>14. ASSUME StopUnlock
        PROVE  Clean'
    BY <2>14 DEF StopUnlock, Goto, Return
  <2>15. ASSUME PauseCheck
        PROVE  Clean'
    BY <2>15 DEF PauseCheck, Goto, Return
  <2>16. ASSUME PauseBreak
        PROVE  Clean'
    BY <2>16 DEF PauseBreak, Goto, Return
  <2>17. ASSUME ExitSignal
        PROVE  Clean'
    BY <2>17 DEF ExitSignal
  <2>18. ASSUME ExitKill
        PROVE  Clean'
    BY <2>18 DEF ExitKill, StopDebug
  <2>19. ASSUME ExitUnlock
        PROVE  Clean'
    BY <2>19 DEF ExitUnlock
  <2>20. ASSUME NEW s \in Session, Start(s)
        PROVE  Clean'
    BY <2>20 DEF Start, Move
  <2>21. ASSUME NEW s \in Session, StartFails(s)
        PROVE  Clean'
    BY <2>21 DEF StartFails, Move
  <2>22. ASSUME NEW s \in Session, Fail(s)
        PROVE  Clean'
    BY <2>22 DEF Fail, Move
  <2>23. ASSUME NEW s \in Session, CopyName(s)
        PROVE  Clean'
    BY <2>23 DEF CopyName, Move
  <2>24. ASSUME NEW s \in Session, SetIds(s)
        PROVE  Clean'
    BY <2>24 DEF SetIds, Move
  <2>25. ASSUME NEW s \in Session, Ready(s)
        PROVE  Clean'
    BY <2>25 DEF Ready, Move
  <2>26. ASSUME NEW s \in Session, ShowPaused(s)
        PROVE  Clean'
    BY <2>26 DEF ShowPaused, Move
  <2>27. ASSUME NEW s \in Session, UnlockSysBreak(s)
        PROVE  Clean'
    <3> USE <2>27 DEF UnlockSysBreak, Move
    <3>1. OneThread' OBVIOUS
    <3>2. Boot'
      <4>1. ASSUME NEW t \in Session PROVE ~Booting(t)'
        BY <4>1
      <4>2. ASSUME NEW t \in Session
            PROVE  (/\ pc[t] \in {"none", "init", "fail", "copy", "vars", "ready"}
                         => t \notin booted
                    /\ pc[t] = "sys" => evt[t] = "sys"
                    /\ pc[t] \in Callback => t \in booted
                    /\ pc[t] \in Debugged => t \in debuggee)'
        OBVIOUS
      <4> HIDE DEF Booting, UnlockSysBreak, Debugged
      <4> QED BY <4>1, <4>2
    <3>3. RunLock' OBVIOUS
    <3>4. Ids' OBVIOUS
    <3>5. Shown' OBVIOUS
    <3> QED BY <3>1, <3>2, <3>3, <3>4, <3>5
  <2>28. ASSUME NEW s \in Session, LockRun(s)
        PROVE  Clean'
    BY <2>28 DEF LockRun, Move
  <2>29. ASSUME NEW s \in Session, Resume(s)
        PROVE  Clean'
    BY <2>29 DEF Resume, Move
  <2>30. ASSUME NEW s \in Session, ShowStopped(s)
        PROVE  Clean'
    BY <2>30 DEF ShowStopped, Move
  <2>31. ASSUME NEW s \in Session, UnsetIds(s)
        PROVE  Clean'
    BY <2>31 DEF UnsetIds, Move
  <2>32. ASSUME NEW s \in Session, WaitClear(s)
        PROVE  Clean'
    BY <2>32 DEF WaitClear, Move
  <2>33. ASSUME NEW s \in Session, SystemBreakpoint(s)
        PROVE  Clean'
    BY <2>33 DEF SystemBreakpoint, Move, Deliver
  <2>34. ASSUME NEW s \in Session, Breakpoint(s)
        PROVE  Clean'
    BY <2>34 DEF Breakpoint, Move, Deliver
  <2>35. ASSUME NEW s \in Session, StepDone(s)
        PROVE  Clean'
    BY <2>35 DEF StepDone, Move, Deliver
  <2>36. ASSUME NEW s \in Session, ProcessExit(s)
        PROVE  Clean'
    BY <2>36 DEF ProcessExit, Move
  <2>37. ASSUME NEW s \in Session, NEW e \in {"breakin", "int3"}, Int3(s, e)
        PROVE  Clean'
    BY <2>37 DEF Int3, Deliver, Move
  <2>38. ASSUME NEW s \in Session, NEW e \in {"exc", "last"}, OtherException(s, e)
        PROVE  Clean'
    BY <2>38 DEF OtherException, Deliver, Move
  <2>39. ASSUME UNCHANGED vars
        PROVE  Clean'
    <3>1. OneThread' /\ Boot' BY <2>39 DEF vars
    <3>2. RunLock' BY <2>39 DEF vars
    <3>3. Ids' BY <2>39 DEF vars
    <3>4. Shown' BY <2>39 DEF vars
    <3> QED BY <3>1, <3>2, <3>3, <3>4
  <2> HIDE DEF Clean, TypeOK, Resuming
  <2> QED
    BY <2>1, <2>2, <2>3, <2>4, <2>5, <2>6, <2>7, <2>8, <2>9, <2>10, <2>11,
       <2>12, <2>13, <2>14, <2>15, <2>16, <2>17, <2>18, <2>19, <2>20,
       <2>21, <2>22, <2>23, <2>24, <2>25, <2>26, <2>27, <2>28, <2>29,
       <2>30, <2>31, <2>32, <2>33, <2>34, <2>35, <2>36, <2>37, <2>38,
       <2>39 DEF Next, TakeDebugOnly, CmdContinues, ThreadStep, DebugEvent
<1>2. ASSUME [Next]_vars, overlap
      PROVE  overlap'
  BY <1>2 DEF Next, vars, userVars, TakeInit, TakeDebugOnly, Take, CmdContinues,
     InitClear, InitLock, InitCreate, InitCreateFails, InitReturns, StepArm,
     RunRefused, RunAccepted, RunShow, RunUnlock, StopKill, StopUnlock,
     PauseCheck, PauseBreak, ExitSignal, ExitKill, ExitUnlock, ThreadStep,
     Start, StartFails, Fail, CopyName, SetIds, Ready, ShowPaused,
     UnlockSysBreak, LockRun, Resume, ShowStopped, UnsetIds, WaitClear,
     DebugEvent, SystemBreakpoint, Breakpoint, StepDone, Int3, OtherException,
     Deliver, ProcessExit
<1> QED
  BY <1>1, <1>2 DEF IndInv

\* IndInv holds throughout every behaviour of Spec; the theorems below follow.
LEMMA IndInvAlways == Spec => []IndInv
<1>1. Init => IndInv
  BY NoSessionAssumption DEF Init, IndInv, TypeOK, OneThread, Boot, RunLock, Ids, Shown, Alive,
     Booting, Resuming, Idle, At, Debugged, Tail, Named, Callback, Position,
     Event, Command, Step, WaitId, waitislocked
<1>2. IndInv /\ TypeOK /\ TypeOK' /\ [Next]_vars => IndInv'
  BY IndInvInductive
<1> QED
  BY <1>1, <1>2, TypeCorrect, PTL DEF Spec

\* InitDebug_initdbg_init.htm: InitDebug gives control back only after the
\* system breakpoint, so cbDebugInit's stack outlives the debug thread's use of
\* it, in every run in which InitDebug does not overlap an older debug thread.
THEOREM ControlReturns == Spec => []ControlReturnsUnlessOverlap
<1>1. IndInv => ControlReturnsUnlessOverlap
  BY DEF IndInv, OneThread, Boot, ControlReturnsUnlessOverlap,
     ControlReturnsAtSystemBreakpoint, Booting
<1> QED
  BY <1>1, IndInvAlways, PTL

\* $pid and $hp name the debuggee from the system breakpoint to the end of the
\* debug loop and name nothing afterwards, unless sessions overlap.
THEOREM IdsAreRight == Spec => []IdsNameDebuggeeUnlessOverlap
<1>1. IndInv => IdsNameDebuggeeUnlessOverlap
  <2> SUFFICES ASSUME IndInv, ~overlap
               PROVE  IdsNameDebuggee
                      /\ ((\A s \in Session : ~Alive(s)) => pid = NoSession)
    BY DEF IdsNameDebuggeeUnlessOverlap
  <2>1. IdsNameDebuggee
    BY DEF IndInv, Ids, Named, IdsNameDebuggee, Callback
  <2>2. pid # NoSession => \E s \in Session : Alive(s)
    BY DEF IndInv, TypeOK, Ids, Named, Callback, Alive
  <2> QED
    BY <2>1, <2>2
<1> QED
  BY <1>1, IndInvAlways, PTL

\* WAITID_RUN means "paused": its flag is set only while a debug thread waits
\* on it, so cbDebugRun and cbDebugPause read it rightly, unless sessions overlap.
THEOREM RunLockIsHeld == Spec => []RunLockHasWaiter
<1>1. IndInv => RunLockHasWaiter
  BY DEF IndInv, RunLock, RunLockHasWaiter
<1> QED
  BY <1>1, IndInvAlways, PTL

\* A held debuggee is shown as paused until the GUI exits.
THEOREM HeldIsShown == Spec => []PausedIsShown
<1>1. IndInv => PausedIsShown
  BY DEF IndInv, TypeOK, Shown, PausedIsShown
<1> QED
  BY <1>1, IndInvAlways, PTL

\* WAITID_RUN of a held debuggee is released only by run, a stepping command,
\* StopDebug or the exit signal, unless sessions overlap: waitclear() of an
\* ending debug thread or of InitDebug never finds it set.
THEOREM RunIsReleasedByUser == Spec => OnlyUserReleasesRun
<1> DEFINE Released == waitislocked("RUN") /\ "RUN" \notin waitarray'
           ByUser == \/ Resuming("unlock")
                     \/ At("stop", "unlock")
                     \/ exit = "unlock"
<1>1. ASSUME Next, Released
      PROVE  InitClear \/ RunUnlock \/ StopUnlock \/ ExitUnlock
               \/ \E s \in Session : WaitClear(s)
  BY <1>1 DEF Next, TakeInit, TakeDebugOnly, Take, CmdContinues,
     InitLock, InitCreate, InitCreateFails, InitReturns, StepArm,
     RunRefused, RunAccepted, RunShow, StopKill, PauseCheck, PauseBreak,
     ExitSignal, ExitKill, ThreadStep, Start, StartFails, Fail, CopyName,
     SetIds, Ready, ShowPaused, UnlockSysBreak, LockRun, Resume, ShowStopped,
     UnsetIds, DebugEvent, SystemBreakpoint, Breakpoint, StepDone, Int3,
     OtherException, Deliver, ProcessExit, lock, unlock, waitislocked
<1>2. ASSUME IndInv, ~overlap, Released, InitClear
      PROVE  FALSE
  BY <1>2 DEF IndInv, OneThread, RunLock, InitClear, At, Tail, Alive
<1>3. ASSUME IndInv, ~overlap, Released, NEW s \in Session, WaitClear(s)
      PROVE  FALSE
  BY <1>3 DEF IndInv, OneThread, RunLock, WaitClear, Move, Alive
<1>4. RunUnlock \/ StopUnlock \/ ExitUnlock => ByUser
  BY DEF RunUnlock, StopUnlock, ExitUnlock
<1>5. IndInv /\ [Next]_vars => [~overlap /\ Released => ByUser]_vars
  BY <1>1, <1>2, <1>3, <1>4
<1> QED
  BY <1>5, IndInvAlways, PTL DEF Spec, OnlyUserReleasesRun
=============================================================================
