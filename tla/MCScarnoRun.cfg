SPECIFICATION MCSpec
CONSTANTS
  Runs <- MCRuns
  Settings <- MCSettings
  EcoOrder <- MCEcoOrder
  Addresses <- MCAddresses
  Replies <- MCReplies
  MaxRedirects = 2
INVARIANTS
  ExitFitsReport
  ReportedSafeIsUnreached
  NothingIsLost
  
  ConnectionsAreVetted
PROPERTIES
  RunEnds
