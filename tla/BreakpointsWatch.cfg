SPECIFICATION Spec
CONSTANTS
  SwAddr = {a1}
  HwAddr = {h1, h2}
  MemAddr = {m1, m2}
  a1 = a1
  h1 = h1
  h2 = h2
  m1 = m1
  m2 = m2
  BaseOf <- AtBase
  Name = {}
  NoName = NoName
  MaxHardware = 1
  Reader = {"gui"}
  MayFail = {h1, m1}
INVARIANT HardwareIsListed
 
CHECK_DEADLOCK FALSE
