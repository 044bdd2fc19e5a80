CONSTANTS
  h1 = h1
  h2 = h2
  Host = {h1, h2}
  HostOf <- TwoHosts
  None = None
  Keys = 3
  Scan = {s1}
  PortMin = 2
  PortMax = 4
SPECIFICATION FairSteadySpec
INVARIANTS
  DiscTypeOK
  ListedOnce
  PortsAgree
PROPERTIES
  FinalizesWhole
  FirstPortsUnique
  DiscoveryEnds
