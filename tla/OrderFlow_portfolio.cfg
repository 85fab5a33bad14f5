\* Three underlyings and two slots; no crash and no lost answer.
CONSTANTS
  Underlyings = {spy, aapl, qqq}
  NoSymbol = NoSymbol
  MaxProposals = 3
  ExpiryOf <- MCExpiryOf
  PendingBatch = 2
  KilledBatch = 3
  MaxConcurrentPositions = 2
  MaxPositionsPerUnderlying = 1
  MaxRetries = 0
  DryRun = FALSE
  Events = {"kill_switch", "read_error"}
SPECIFICATION Spec
SYMMETRY Symmetry
INVARIANTS ConcurrencyCap KillBoundsEntries NoOrphanOrder DeadOrderReleased
