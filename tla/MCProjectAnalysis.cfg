CONSTANTS
  Scenarios <- MCScenarios
  Canon <- MCCanon
  Aliases <- MCAliases
  Installed <- MCInstalled
  DistInfos <- MCDistInfos
  Private <- MCPrivate
  ToolPackage <- MCToolPackage
  Builtin <- MCBuiltin
  Scopes <- MCScopes
  Normal <- MCNormal
  Stdlib <- MCStdlib
  NotNpm <- MCNotNpm
  StubOf <- MCStubOf
  TestLike <- MCTestLike
  MaxDepth = 3
  MaxEdges = 3
  MaxOverrides = 2
  MaxNesting = 2
SPECIFICATION ASpec
INVARIANTS
  UsedIsNotSafe
  OrphansAreUnreachable
  AccountedFor
  NothingDeclaredIsLost
  CyclesAreNoted
  StrongestSourceOwns
