CONSTANTS
  a1 = a1  a2 = a2  a3 = a3  s1 = s1  s2 = s2  g1 = g1  g2 = g2  g3 = g3
  Attempts = {a1, a2}
  Sessions = {s1}
  Targets = {g1}
  None = None
  MaxAttempts = 1
  MaxEvents = 3
  MaxQueue = 2
SPECIFICATION FairSpec
PROPERTIES ReconnectEnds SignOutEnds CloseEnds
CHECK_DEADLOCK FALSE
