SPECIFICATION DispatchSpec
CONSTANTS
  u1 = u1
  t1 = t1
  t2 = t2
  UdpClients = {u1}
  TcpClients = {t1, t2}
  MaxRequests = 4
  MaxAcks = 2
SYMMETRY ClientSymmetry
INVARIANTS UdpAckBeforeResp AckAtMostOnce UdpAckToOwner
CHECK_DEADLOCK FALSE
