SPECIFICATION Spec
CONSTANTS
  Word <- MCWord
  Path = "x"
  NameOf <- MCNameOf
  Letters <- MCLetters
  Arguments <- MCArguments
  Statement <- MCStatement
  MaxMode = 2
  MaxBlock = 2
  MaxActs = 5
INVARIANTS
  ArgumentsOwn TakenInOrder HandledFits DealtOnce
CHECK_DEADLOCK FALSE
