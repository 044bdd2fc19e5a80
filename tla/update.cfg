CONSTANTS
  Program = {p1, p2}
  Temp = {t1, t2}
  v109 = v109
  v110 = v110
  Dev = Dev
  Release = {Dev, v109, v110}
  Signed = {v110}
  NameOf <- Names
  None = None
SPECIFICATION FairUpdaterSpec
INVARIANTS
  UpdaterTypeOK
  ProgramKept
  TempsAreOwned
PROPERTIES
  OnlyUpgrades
  UpdateAnswered
