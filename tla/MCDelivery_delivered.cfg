CONSTANTS
  Releases = {1, 2, 3}
  Reinstall = {3}
  Baseline = 1
  None = None
  MaxQueue = 1
  MaxCrashes = 1
  MaxDamage = 1
SPECIFICATION PatientSpec
PROPERTIES StartupEnds Delivered
