SPECIFICATION Spec
CONSTANTS
  s1 = s1
  s2 = s2
  Session = {s1, s2}
  DHCPS_PORT = 67
  UdpPort = {dns, ntp}
  Server = {a, b, c}
  g1 = g1
  a1 = a1
  Gateway = {g1}
  NoGateway = NoGateway
  Address = {a1}
  NamePrefix <- OnePrefix
  MaxHelpers = 2
  MaxForwards = 2
SYMMETRY Symmetry
INVARIANTS
  RowLimit
PROPERTIES
  Obeyed
  OthersKept
  NoRowLeftEmpty
  WithinLimit
