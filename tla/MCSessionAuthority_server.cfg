CONSTANTS
  Launchers = {w1, w2}
  Calls = {c1, c2}
  None = None
  Lapse = 1
  Window = 2
  Limit = 1
  MaxTime = 2
  MaxClaims = 2
  MaxAttempts = 2
SPECIFICATION Spec
SYMMETRY Interchangeable
INVARIANTS AuthorityOK
