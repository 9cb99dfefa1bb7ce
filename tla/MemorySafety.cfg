SPECIFICATION MemorySpec
CONSTANTS
  Word <- MCWord
  Value <- MCValue
  Typed <- MCTyped
  TypedValue <- MCTypedValue
  PageSize = 3
  Image = {1}
  Heap = {2, 3}
  Byte = {0, 1}
  Session = {1}
INVARIANTS
  MemoryTypeOK
  NamesUnique
  ReservedStay
  ReadStaysInBuffer
  ReadIsExact
  LastAllocIsAllocated
  
