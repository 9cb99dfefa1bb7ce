SPECIFICATION RowSpec
CONSTANTS
  ColumnCount = 2
  MinWidth = 3
  Grip = 1
  Width = 9
  Height = 7
  HeaderHeight = 2
  RowHeight = 2
  FirstWidth = 5
  Inside <- MCInside
  Outside <- MCOutside
  IntMax = 3
  IntBits = 3
  Win64 = TRUE
  Regions = {0, 10}
  DumpSize = {6}
  mDumpByteWidth = 2
INVARIANTS
  
  
  
  
  SliderReachesTable
