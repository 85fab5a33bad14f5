CONSTANTS
  main = main
  pulse = pulse
  trader = trader
  Main = main
  Agents <- MC_Agents
  Callers <- MC_Callers
  MaxRetries = 1
  MaxServers = 3
  FloatLimit = 1
SPECIFICATION FairSpec
INVARIANTS TypeOK OneServer ExitLeavesNoServer
PROPERTIES CallsEnd ShutdownCompletes
\* The process exits.
CHECK_DEADLOCK FALSE
