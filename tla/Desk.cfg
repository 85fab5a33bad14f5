CONSTANTS
  kill = kill
  fill = fill
  started = started
  stopped = stopped
  spy = spy
  Texts <- MC_Texts
  StartText = started
  StopText = stopped
  NoText = NoText
  QueueMax = 2
  Deduplicate = TRUE
  Orders = {1}
  Proposals = {2}
  Hopeless = {1}
  TokenCounts = {1}
  NoUsage = NoUsage
  DailyTokenBudget = 2
  LastUtcDay = 2
  MaxSpent = 3
  Universe = {spy}
  Sessions <- MC_Sessions
  FirstDay = 5
  LastDay = 9
  Lookback = 4
  Horizon = 5
  Margin = 2
  CampaignStart = 5
  CampaignDays = 2
  RankWindow = 2
  SymbolsPerTick = 1
SPECIFICATION DeskSpec
INVARIANTS TasksAccounted LastWordIsStop BudgetCountsToday OwnTokensRecorded NoInventedSession CalendarFetchBounded FlattensFinalSession RankWindowKeepsLive
PROPERTIES NotifierCloses OthersReflected
\* The process exits, and days are bounded.
CHECK_DEADLOCK FALSE
