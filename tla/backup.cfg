CONSTANTS
  Key = {k1}
  File = {f1, f2}
  Job = {j1, j2}
  MaxQueue = 2
  None = None
SPECIFICATION FairCalmSpec
INVARIANTS
  BackupTypeOK
  BackupIsWatched
  CompleteIsWhole
PROPERTY OverlaysEnd
