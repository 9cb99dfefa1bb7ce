SPECIFICATION Spec
CONSTANTS
  Session = {s1, s2}
  s1 = s1
  s2 = s2
  NoSession = NoSession
  MayExit = TRUE
SYMMETRY Symmetry
INVARIANT TypeOK
INVARIANT ControlReturnsUnlessOverlap
INVARIANT IdsNameDebuggeeUnlessOverlap
INVARIANT RunLockHasWaiter
INVARIANT PausedIsShown
PROPERTY OnlyUserReleasesRun
