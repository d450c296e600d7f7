SPECIFICATION FairSpec
CONSTANTS
  Doorbells = {"d1"}
  Bridges = {"b1", "b2", "t1"}
  TcpAddrs = {"t1"}
  NoAddr = NoAddr
  MAX_MISSES = 2
  MaxRead = 2
  MaxRequests = 2
  MaxAnswers = 2
INVARIANTS
  ClientsApart
  LateOnlyAfterGivingUp
  DormantMeansUnheard
PROPERTIES
  EveryoneServed
CHECK_DEADLOCK FALSE
