SPECIFICATION FairSpec
CONSTANTS
  a = a
  b = b
  x = x
  y = y
  Coord <- MCCoord
  Version <- MCVersion
  Inputs <- MCInputs
  Sanitised <- MCSanitised
  MaxNodes = 3
  Root = Root
  NoVersion = NoVersion
  Broken = Broken
  NoPom = NoPom
  None = None
INVARIANTS
  EdgesOfOnePom
  EveryEdgeIsReported
  AgreedPomIsRead
PROPERTY
  WalkEnds
