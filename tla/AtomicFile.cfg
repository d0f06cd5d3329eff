SPECIFICATION Spec
CONSTANTS
  Proc = {p1, p2}
  Data = {d1, d2}
  Inode = {i1, i2, i3}
  NoFile = NoFile
SYMMETRY Interchangeable
INVARIANTS NoLitter
PROPERTY Atomic
CHECK_DEADLOCK FALSE
