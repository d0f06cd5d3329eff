SPECIFICATION FairSpec
CONSTANTS
  Process = {p1, p2, p3}
  MaxCommands = 1
INVARIANTS NoLitter DirRemoved LostToSweep
PROPERTIES KilledSwept
CHECK_DEADLOCK FALSE
