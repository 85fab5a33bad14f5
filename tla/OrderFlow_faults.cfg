\* Every fault that may lose, repeat or cut short a step.
CONSTANTS
  Underlyings = {spy}
  NoSymbol = NoSymbol
  MaxProposals = 2
  ExpiryOf <- MCExpiryOf
  PendingBatch = 2
  KilledBatch = 3
  MaxConcurrentPositions = 1
  MaxPositionsPerUnderlying = 1
  MaxRetries = 1
  DryRun = FALSE
  Events = {"crash", "lost_answer", "store_error", "read_error", "external_close", "partial_fill", "redeploy"}
SPECIFICATION Spec
INVARIANTS TypeOK OneActiveEntry NoDoubleTrackedEntry
PROPERTIES FollowsLedger DryRunNeverTrades
