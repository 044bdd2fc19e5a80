CONSTANTS
  Host = {h1, h2}
  Client = {c1, c2, c3, c4}
  Lease = {l1, l2, l3}
  None = None
SYMMETRY Symmetry
SPECIFICATION LossySpec
PROPERTIES
  ReleaseSparesHolders
