SPECIFICATION FairSpec
CONSTANTS
  Sender = {gui}
  gui = gui
  Message = {c1, c2, c3, c4}
  c1 = c1
  c2 = c2
  c3 = c3
  c4 = c4
  MaxMessages = 2
  Null = Null
INVARIANT IntactUntilStale
INVARIANT AtMostOnce
INVARIANT StackposInBounds
PROPERTY ImplementsStack
PROPERTY AcceptedIsExecuted
CHECK_DEADLOCK FALSE
