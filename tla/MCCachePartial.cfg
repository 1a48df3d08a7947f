SPECIFICATION Spec
CONSTANTS
  w1 = w1
  w2 = w2
  a1 = a1
  a2 = a2
  b1 = b1
  Worker <- MCWorker
  Art <- MCArt
  Bytes <- MCBytes
  CacheSize = 1
  Calls = 2
  Absent = Absent
  Empty = Empty
INVARIANT
  PartialWriteNotVisible
SYMMETRY Workers
