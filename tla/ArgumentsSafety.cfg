SPECIFICATION ArgumentsSpec
CONSTANTS
  Before = {"nul"}
  MaxLength = 8
INVARIANTS
  ProtectedTextArrives
PROPERTIES
  ScriptKeepsLine
