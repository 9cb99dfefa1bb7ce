SPECIFICATION FairSpec
CONSTANTS
  Session = {s1, s2}
  s1 = s1
  s2 = s2
  NoSession = NoSession
  MayExit = FALSE
PROPERTY StopEndsSession
