SPECIFICATION MCSpec
CONSTANTS
  c1 = c1
  c2 = c2
  w1 = w1
  w2 = w2
  m1 = m1
  m2 = m2
  d1 = d1
  d2 = d2
  s1 = s1
  s2 = s2
  Worker <- MCWorker
  Coord <- MCCoord
  Version <- MCVersion
  Nodes <- MCNodes
  Multi <- MCMulti
  Inputs <- MCInputs
  MaxSlots = 4
  MaxClasses = 1
  Faults <- IndexFaults
  None = None
  Member <- MCMember
  Descriptor <- MCDescriptor
  Shape <- MCShape
INVARIANT
  EveryContributionIsTagged
