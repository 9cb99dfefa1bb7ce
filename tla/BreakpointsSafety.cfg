SPECIFICATION Spec
CONSTANTS
  SwAddr = {a1, a2}
  HwAddr = {h1}
  MemAddr = {}
  a1 = a1
  a2 = a2
  h1 = h1
  BaseOf <- AtBase
  Name = {n1}
  n1 = n1
  NoName = NoName
  MaxHardware = 1
  Reader = {"gui", "cmd"}
  MayFail = {a1, h1}
INVARIANT EntriesUnique
 
 
CHECK_DEADLOCK FALSE
