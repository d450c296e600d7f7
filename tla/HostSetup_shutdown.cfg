SPECIFICATION Spec
CONSTANTS
  NoChain = NoChain
  Programs <- EntryOnly
  Configs <- LanOnly
  MaxStarts = 1
  MaxSignals = 1
INVARIANTS
  ShutdownCleans
CHECK_DEADLOCK FALSE
