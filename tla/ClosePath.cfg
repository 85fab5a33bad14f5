\* A mark whose rungs round up, down and half to even.
CONSTANTS
  Families = {"long"}
  Marks = {5}
  NudgePct = 25
  MaxAttempts = 1
  MaxOrders = 3
  LostAnswers = TRUE
  MaxRestarts = 1
SPECIFICATION FairSpec
INVARIANT LimitWithinLadder
PROPERTIES EnrichedEventually RowSettles
