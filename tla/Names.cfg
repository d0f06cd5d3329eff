SPECIFICATION MCSpec
CONSTANTS
  super_global_scope = sg
  global_scope = gl
  LocalScope = {s1, s2}
  Name = {max_loop, pid, x}
  Internal = {max_loop, pid}
  Settable = {max_loop}
  Underscore = {}
  LavaNames = {x}
  Contexts = {"func", "import", "forglobal", "forin", "execute", "try"}
  Type = {int, string}
  Payload = {0}
  Initial <- MCInitial
  MaxSaved = 2
  MaxShadow = 1
SYMMETRY FreeAddresses
INVARIANTS PlainNoClash InternalTypes
PROPERTIES WriteOnce
CHECK_DEADLOCK FALSE
