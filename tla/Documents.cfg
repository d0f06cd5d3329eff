SPECIFICATION StoredSpec
CONSTANTS
  IntMin <- MCIntMin
  IntMax = 7
  MaxDepth = 4
  PlainChar <- MCPlainChar
  Operands <- MCOperands
  KeyNames <- MCKeyNames
  MaxPath = 2
  MaxSize = 4
INVARIANTS
  ArithmeticExact
  RangesAgree
  AssignExact
  ReadsBack
  TextsAgree
