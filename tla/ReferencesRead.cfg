SPECIFICATION Spec
CONSTANTS
  IntMin <- MCIntMin
  IntMax = 7
  VarName = {"a", "x"}
  Globals = {"a"}
  Code <- MCCode
  Expressions <- MCExpressions
  Arguments <- MCArguments
  Keys <- MCKeys
  Paths <- MCPaths
  Signatures <- MCSignatures
  MaxSize = 4
  MaxScopes = 3
INVARIANT IndexGivesItem
CHECK_DEADLOCK FALSE
