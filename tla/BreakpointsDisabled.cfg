SPECIFICATION Spec
CONSTANTS
  SwAddr = {a1}
  HwAddr = {h1}
  MemAddr = {}
  a1 = a1
  h1 = h1
  BaseOf <- AtBase
  Name = {n1}
  n1 = n1
  NoName = NoName
  MaxHardware = 1
  Reader = {"gui"}
  MayFail = {}
INVARIANT DisabledStaysDisabled
CHECK_DEADLOCK FALSE
