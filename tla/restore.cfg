CONSTANTS
  Key = {k1}
  File = {f1, f2}
  Job = {j1}
  MaxQueue = 2
  None = None
SPECIFICATION CalmSpec
CHECK_DEADLOCK FALSE
SYMMETRY Symmetry
INVARIANT DataIsKept
