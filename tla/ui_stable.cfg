CONSTANTS
  Key = {k1, k2}
  Command = {p1, p2}
  Autoconnect = {k1, k2}
  HasClient = TRUE
  MaxClients = 2
  None = None
SPECIFICATION StableSpec
CHECK_DEADLOCK FALSE
SYMMETRY Symmetry
INVARIANT RestIsHonest
