SPECIFICATION Spec
CONSTANTS
  p1 = p1
  p2 = p2
  Port = {p1, p2}
  HelperIp = {a, b}
  ForwardIp = {c}
  GatewayIp = {g}
  NoIp = NoIp
  BadIp = BadIp
  DHCPS_PORT = 67
  UdpPort = {53}
  NamePrefix <- DistinctNames
  MaxServers = 2
  MaxHelpers = 1
  MaxForwards = 1
  MaxLeak = 1
SYMMETRY Symmetry
INVARIANTS
  TypeOK
  NoDuplicateRefs
  RefCountsExact
  Converged
PROPERTY ImplementsRelayTable
CHECK_DEADLOCK FALSE
