\* The agents keep stepping; the kill switch and the broker do as they like.
CONSTANTS
  Underlyings = {spy}
  NoSymbol = NoSymbol
  MaxProposals = 3
  ExpiryOf <- MCExpiryOf
  PendingBatch = 1
  KilledBatch = 2
  MaxConcurrentPositions = 1
  MaxPositionsPerUnderlying = 1
  MaxRetries = 0
  DryRun = FALSE
  Events = {"kill_switch", "lost_answer"}
SPECIFICATION FairSpec
PROPERTIES ClosesDrain DeadOrderReleasedEventually ClosedPositionLeavesCache
