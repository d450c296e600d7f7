SPECIFICATION FairSpec
CONSTANTS
  NoChain = NoChain
  Programs <- Both
  Configs <- TwoConfigs
  MaxStarts = 3
  MaxSignals = 2
INVARIANTS
  SetupReplaces
  LiveChainsComplete
  NetworkExitCleans
  EarlyShutdownDisarms
  LaunchedComplete
PROPERTIES
  SignalEnds
CHECK_DEADLOCK FALSE
