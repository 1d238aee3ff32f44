SPECIFICATION FairSpec
CONSTANTS
  Procs <- ThreePids
  MAX_SOCKETS = 2
  MaxSends <- OneSends
  MaxCrashes = 1
INVARIANTS
  InUseHasUser
PROPERTIES
  DeadOwnersCollected
