SPECIFICATION Spec
CONSTANTS
  i1 = i1
  i2 = i2
  Instances <- TwoInstances
  None = None
  UserKeys = {}
  ForeignKeys = {}
  PrefsLogin <- TwoSwitchesOn
  NoEffectDropped = TRUE
  Texts = {"", "secret"}
  MaxForeign = 0
  MaxLaunched = 2
INVARIANTS
  AtMostOneDaemon
