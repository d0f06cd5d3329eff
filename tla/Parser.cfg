SPECIFICATION FairSpec
CONSTANTS
  Scripts <- MCScripts
  Executed <- MCExecuted
  Modules <- MCModules
  FuncName = {f, g}
  Builtin = {g}
  Alias = {m}
  NoName = NoName
  MaxImports = 2
  MaxParses = 2
INVARIANTS DecidesAsGrammar MasksNest NestingCovers
PROPERTIES AlarmReal ParseEnds
CHECK_DEADLOCK FALSE
