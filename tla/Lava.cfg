SPECIFICATION Spec
CONSTANTS
  Embedded = {m}
  Module = {m, n}
  Prefix = {a, b}
  NoPrefix = NoPrefix
  Function = {f, g}
  TempName = {t1, t2}
  LAVA_MAX_SLOTS = 3
  MaxLibraries = 3
SYMMETRY Interchangeable
INVARIANTS NamesLead LoaderRestored TempsAccounted
CHECK_DEADLOCK FALSE
