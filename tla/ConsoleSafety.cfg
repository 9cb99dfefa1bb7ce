SPECIFICATION ConsoleSpec
CONSTANTS
  Word <- MCWord
  Value <- MCValue
  Typed = {}
  TypedValue = {}
  PageSize = 4
  Image = {2, 3}
  Heap = {}
  Byte = {0, 1}
  Session = {1}
  ByteBits = 1
  UintBytes = 4
  UsedRegister = {"eax", "ax", "al", "ah"}
  UsedFlag = {"cf", "pf"}
  HexWord <- MCHexWord
  Api <- MCApi
  Line <- MCLine
  Odd <- MCOdd
INVARIANTS
  RegistersAreTheirBytes
  
  AssignedIsShown
