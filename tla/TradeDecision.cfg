\* Every structure, over chains and accounts that go wrong in the usual ways.
CONSTANTS
  None = None
  Worlds <- MCWorlds
  Betas <- MCBetas
SPECIFICATION DecisionSpec
INVARIANTS WorstCaseIsMaxLoss StatedProfitIsReal LimitBetweenMidAndTouch SizeFitsCeilings StructurePasses SoldOnlyAtLevel3 HoldsASession NoPartialExposure CloseFlattens NoMartingale

