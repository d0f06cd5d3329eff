SPECIFICATION FairSpec
CONSTANTS
  Scope = {sg, gl, s1, s2, s3}
  super_global_scope = sg
  global_scope = gl
  NoScope = NoScope
  Constructs = {"if", "switch", "while", "for", "forin", "func", "builtin", "map", "import", "try", "execute", "flags", "flag"}
  MaxDepth = 3
  LoopLimit = 1
INVARIANTS TypeOK PendingFlow EnvInnermost NoDanglingScope ExecutedCannotDefine
PROPERTIES CallsTransparent StructuredErrors RaisedErrorLands
CHECK_DEADLOCK FALSE
