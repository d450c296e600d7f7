SPECIFICATION Spec
CONSTANTS
  Conns = {c1, c2}
  c1 = c1
  c2 = c2
  IpRoles <- KnownIpRoles
  PollLimit = 2
  MaxChunks = 2
  MaxLinkId = 1
  NoPair = NoPair
INVARIANT RelayedStaysOpen
CHECK_DEADLOCK FALSE
