\* An account far below its peak, once the peak is older than what is read back.
CONSTANTS
  None = None
  Worlds <- PeakWorlds
  Betas <- MCBetas
SPECIFICATION DecisionSpec
INVARIANT HaltsBelowPeak
