SPECIFICATION Spec
CONSTANTS
  p1 = p1
  p2 = p2
  Port = {p1}
  HelperIp = {a, b}
  ForwardIp = {c}
  GatewayIp = {g}
  NoIp = NoIp
  BadIp = BadIp
  DHCPS_PORT = 67
  UdpPort = {53}
  NamePrefix <- OneName
  MaxServers = 3
  MaxHelpers = 2
  MaxForwards = 1
  MaxLeak = 1
INVARIANT LocalDbUpdated
CHECK_DEADLOCK FALSE
