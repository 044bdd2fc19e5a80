CONSTANTS
  Keys = 2
  v = v
  Value = {v}
  Draft <- Drafts
  Toggled = {2}
  None = None
SPECIFICATION SettingsSpec
INVARIANTS
  SettingsTypeOK
  FileIsMemory
  ShownIsOverride
PROPERTY ActsOnChosen
