CONSTANTS
  r1 = r1  r2 = r2  t1 = t1
  Releases = {r1, r2}
  SeqNo <- MCSeq
  Ids = {t1}
  None = None  Torn = Torn  Short = Short
  Baseline = r1
  MaxFaults = 1
  MaxOutages = 1
  MaxLosses = 0
SPECIFICATION EnrollSpec
INVARIANTS PowerSafe
PROPERTIES EnrollmentSafe HelperEnds
