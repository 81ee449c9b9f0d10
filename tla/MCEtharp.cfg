CONSTANTS
  a = a
  b = b
  gw = gw
  far = far
  all = all
  m1 = m1
  m2 = m2
  p1 = p1
  p2 = p2
  Broadcast = Broadcast
  NoRoute = NoRoute
  NULL = NULL
  ARP_TABLE_SIZE = 2
  ARP_MAXAGE = 3
  ARP_MAXPENDING = 2
  ARP_AGE_REREQUEST_USED_UNICAST = 1
  IPs <- MCIPs
  MACs <- MCMACs
  Dests <- MCDests
  NextHop <- MCNextHop
  Announced <- MCAnnounced
  Static <- MCStatic
  Pbufs <- MCPbufs
  Volatile <- MCVolatile
  Kept <- MCKept
SPECIFICATION Spec
INVARIANTS
  TableOK
  RefsCounted
  SentToLatest
PROPERTIES
  StaticStays
  NoneWaitsForever
