CONSTANTS
  Key = {k1}
  Command = {p1}
  Autoconnect = {k1}
  HasClient = TRUE
  MaxClients = 1
  None = None
SPECIFICATION FairUiSpec
CHECK_DEADLOCK FALSE
INVARIANT UiTypeOK
PROPERTIES
  GraceBeforeQuit
  LaunchIsServed
  ConnectedIsCorrected
  QuitEnds
