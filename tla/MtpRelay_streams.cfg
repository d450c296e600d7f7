SPECIFICATION FairSpec
CONSTANTS
  Conns = {c1, c2}
  c1 = c1
  c2 = c2
  IpRoles <- BridgeIpOnly
  PollLimit = 2
  MaxChunks = 2
  MaxLinkId = 1
  NoPair = NoPair
INVARIANTS NoDuplicates LoopKeepsOrder
PROPERTIES WaiterResolved RelayTornDown
CHECK_DEADLOCK FALSE
