\* A lost answer, then a second entry.
CONSTANTS
  Underlyings = {spy}
  NoSymbol = NoSymbol
  MaxProposals = 3
  ExpiryOf <- MCExpiryOf
  PendingBatch = 2
  KilledBatch = 3
  MaxConcurrentPositions = 1
  MaxPositionsPerUnderlying = 1
  MaxRetries = 0
  DryRun = FALSE
  Events = {"lost_answer"}
SPECIFICATION Spec
INVARIANT OneTradePerStock
