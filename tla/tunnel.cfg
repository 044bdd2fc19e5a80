CONSTANTS
  h1 = h1
  k1 = k1
  k2 = k2
  x1 = x1
  x2 = x2
  Host = {h1}
  Key = {k1}
  HostOf <- OneHost
  PortOf <- OwnPort
  Client = {c1, c2}
  Lease = {l1, l2, l3}
  Command = {p1, p2}
  Monitor = {m1, m2}
  MaxAttempts = 1
  None = None
SPECIFICATION RunningSpec
SYMMETRY Symmetry
INVARIANTS
  LiveIsOwned
  HeldLiveIsPooled
  RefsCovered
  EveryTunnelMonitored
  ReconnectingIsServed
  OneOwner
  BoundIsHeld
