SPECIFICATION FairSpec
CONSTANTS
  Transports <- UdpAndList
  Callers <- BothCall
  Dests <- AnyDest
  SendErrors <- MayFail
  FreshLimit = 1
  ChimeLimit = 1
  PendingTimeout = 1
  MaxCalls = 2
INVARIANTS
  CalledAtMostOnce
PROPERTIES
  QueuedNotLost
  NotCalledLate
  WakeupDelivers
