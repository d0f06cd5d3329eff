SPECIFICATION Spec
CONSTANTS
  Names = {"a", "b"}
  Pointers <- MCPointers
  Ints <- MCInts
  Floats = {}
  Strings = {"s", "# in quotes"}
  Hashed = {"# in quotes"}
  IntMax = 2
  Scripts <- MCScripts
  Bodies <- MCBodies
INVARIANTS
  ReadsAsGrammar
  LinesApart
  SameRightHandSide
CHECK_DEADLOCK FALSE
