SPECIFICATION Spec
CONSTANTS
  w1 = w1
  w2 = w2
  a1 = a1
  a2 = a2
  b1 = b1
  b2 = b2
  Worker <- MCWorker
  Art <- MCArt
  Bytes <- MCBytes
  MaxIndexes = 3
  MaxFetches = 2
  CacheSize = 1
  Calls = 2
  Absent = Absent
SYMMETRY MCSymmetry
INVARIANTS
  NoProbeAfterVerdict
  CapHolds
  DisclosedBeforeContact
  StoredIsUncontradicted
PROPERTY
  FetchAdvances
