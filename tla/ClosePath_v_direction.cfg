\* No fault at all.
CONSTANTS
  Families = {"long"}
  Marks = {5}
  NudgePct = 25
  MaxAttempts = 1
  MaxOrders = 3
  LostAnswers = FALSE
  MaxRestarts = 0
SPECIFICATION Spec
PROPERTY ClosesTowardMarket
