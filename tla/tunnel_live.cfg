CONSTANTS
  h1 = h1
  k1 = k1
  k2 = k2
  x1 = x1
  x2 = x2
  Host = {h1}
  Key = {k1}
  HostOf <- OneHost
  PortOf <- OwnPort
  Client = {c1}
  Lease = {l1, l2}
  Command = {p1}
  Monitor = {m1}
  MaxAttempts = 2
  None = None
SPECIFICATION FairSpec
CHECK_DEADLOCK FALSE
INVARIANTS
  TunnelTypeOK
  AliveXorReconnecting
  QuietIsEmpty
PROPERTIES
  Implements
  ReconnectSettles
  ShutdownEnds
  MonitorsEnd
  CommandsReturn
