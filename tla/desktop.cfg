SPECIFICATION Spec
CONSTANTS
  i1 = i1
  i2 = i2
  Instances <- TwoInstances
  None = None
  UserKeys = {"enabled", "accept"}
  ForeignKeys = {"notify"}
  PrefsLogin <- MCLogin
  NoEffectDropped = TRUE
  Texts = {"", "secret"}
  MaxForeign = 1
  MaxLaunched = 2
INVARIANTS
  PreferencesTypeOK
  UserChoiceKept
  ShownIsStored
  RefreshesNest
  SecondOnlyByRace
PROPERTIES
  DaemonComes
