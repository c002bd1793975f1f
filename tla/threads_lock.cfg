SPECIFICATION Spec
CONSTANTS
  Port = {p1, p2}
  DhcpServer = {a, b}
  UdpServer = {c}
  Gateway = {g}
  InterfaceIp = ip
  Null = Null
  MaxServers = 2
  MaxLeak = 1
INVARIANTS
  TypeOK
  TablesWhole
  ReceiverSafe
  RelaysView
PROPERTIES
  LockedOpsAtomic
  LockReleased
