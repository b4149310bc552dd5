CONSTANTS
  None = None
  MinReport = 1
  MaxTraffic = 1
  MaxMessages = 3
  MaxFaults = 1
  MaxRefused = 1
  MaxKills = 1
  MaxDeleted = 1
  MaxFlips = 1
SPECIFICATION FairSpec
INVARIANTS OneStatusMessage CountersOK LastAlertTrue
PROPERTIES StatusShown
CHECK_DEADLOCK FALSE
