SPECIFICATION Spec
CONSTANTS
  p1 = p1
  p2 = p2
  Port = {p1}
  NamePrefix <- DistinctNames
  Addr = {1, 2}
  AddrPrefix <- DistinctTexts
  MaxServers = 2
INVARIANT UcastSynced
