SPECIFICATION FairSpec
CONSTANTS
  a = a
  b = b
  c = c
  d1 = d1
  d2 = d2
  d3 = d3
  npm = npm
  pypi = pypi
  NoRoot = NoRoot
  Name <- MCNames
  Dep <- MCDeps
  Eco <- MCEcos
  Inputs <- MCInputs
INVARIANTS
  NoSafeChildOfInUse
  VerdictsAreDetermined
  RedundantParentKeepsItAlive
PROPERTY
  SweepEnds
