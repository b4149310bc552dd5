CONSTANTS
  r1 = r1  r2 = r2  r2x = r2x  r3 = r3  t1 = t1  t2 = t2
  Releases = {r1, r2}
  SeqNo <- MCSeq
  Ids = {t1}
  None = None  Torn = Torn  Short = Short
  Baseline = r1
  MaxFaults = 0
  MaxOutages = 0
  MaxLosses = 0
SPECIFICATION FairSessionSpec
PROPERTY CleaningEnds
