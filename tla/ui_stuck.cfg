CONSTANTS
  Key = {k1}
  Command = {p1}
  Autoconnect = {}
  HasClient = TRUE
  MaxClients = 0
  None = None
SPECIFICATION FairStableSpec
CHECK_DEADLOCK FALSE
PROPERTY GivenUpIsRetried
