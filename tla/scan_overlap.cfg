CONSTANTS
  h1 = h1
  h2 = h2
  Host = {h1, h2}
  HostOf <- TwoHosts
  None = None
  Keys = 2
  Scan = {s1, s2}
  PortMin = 1
  PortMax = 3
SPECIFICATION DiscoverySpec
CHECK_DEADLOCK FALSE
PROPERTY FinalizesWhole
