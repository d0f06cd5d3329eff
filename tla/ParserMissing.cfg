SPECIFICATION Spec
CONSTANTS
  Scripts <- NestedSwitches
  Executed = {}
  Modules = {}
  FuncName = {f}
  Builtin = {}
  Alias = {}
  NoName = NoName
  MaxImports = 0
  MaxParses = 1
INVARIANTS FewerFiMeansMissing
CHECK_DEADLOCK FALSE
