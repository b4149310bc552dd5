CONSTANTS
  a1 = a1  a2 = a2  a3 = a3  s1 = s1  s2 = s2  g1 = g1  g2 = g2  g3 = g3
  Attempts = {a1, a2}
  Sessions = {s1, s2}
  Targets = {g1, g2}
  None = None
  MaxAttempts = 2
  MaxEvents = 4
  MaxQueue = 2
SPECIFICATION Spec
SYMMETRY IdentitySymmetry
INVARIANTS RightGone AttemptsOK
CHECK_DEADLOCK FALSE
