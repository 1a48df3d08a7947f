SPECIFICATION JSpec
CONSTANTS
  a = a
  b = b
  NoDep = NoDep
  Root = Root
  Unset = Unset
  Coord <- MCCoord
  Version <- MCVersion
  Covers <- MCCovers
  Cap = 2
  Inputs <- MCInputs
INVARIANTS
  RemovableOnlyIfUnused
  CapKeepsResolved
  PinnedNeverSafe
  FailsClosed
  LiftedKeepsAVersion
