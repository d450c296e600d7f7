SPECIFICATION Spec
CONSTANTS
  Conns = {c1, c2, c3}
  c1 = c1
  c2 = c2
  c3 = c3
  IpRoles <- AllIpRoles
  PollLimit = 1
  MaxChunks = 1
  MaxLinkId = 2
  NoPair = NoPair
SYMMETRY ConnSymmetry
INVARIANTS TypeOK PairedOnce ReturnedIsClosed NoCrossTalk
PROPERTY Implements
CHECK_DEADLOCK FALSE
