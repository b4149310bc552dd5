CONSTANTS
  Releases = {1, 2, 3, 4}
  Reinstall = {4}
  Baseline = 1
  None = None
  MaxQueue = 2
  MaxCrashes = 1
  MaxDamage = 1
SPECIFICATION Spec
INVARIANTS StoreOK GateHolds
PROPERTIES StagedSurvives
