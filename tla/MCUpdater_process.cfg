CONSTANTS
  r1 = r1  r2 = r2  r2x = r2x  r3 = r3  t1 = t1  t2 = t2
  Releases = {r1, r2, r3}
  SeqNo <- MCSeq
  Ids = {t1, t2}
  None = None  Torn = Torn  Short = Short
  Baseline = r1
  MaxFaults = 1
  MaxOutages = 0
  MaxLosses = 1
SPECIFICATION ProcessSpec
SYMMETRY TokenSymmetry
VIEW ProcessView
INVARIANTS TypeOK Recoverable FloorOrder NotRetried GenerationsKept RecoveryEffective NextUpdateBuildable
PROPERTIES OwnershipKept AuthoritySpec
