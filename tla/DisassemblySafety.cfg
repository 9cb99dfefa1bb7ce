SPECIFICATION DisSpec
CONSTANTS
  ColumnCount = 1
  MinWidth = 3
  Grip = 1
  Width = 9
  Height = 7
  HeaderHeight = 2
  RowHeight = 2
  FirstWidth = 9
  Inside <- MCInside
  Outside = {}
  IntMax = 127
  IntBits = 8
  Win64 = TRUE
  Page <- MCPage
  Unmapped = "none"
  Code <- MCCode
  MaxLength = 2
  MaxBack = 3

  
  
PROPERTIES
  
  AddressIsShown
