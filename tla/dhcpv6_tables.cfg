SPECIFICATION Spec
CONSTANTS
  p1 = p1
  p2 = p2
  Port = {p1, p2}
  NamePrefix <- Names
  Addr = {1, 2, 3}
  AddrPrefix <- Texts
  MaxServers = 2
INVARIANTS
  TypeOK
  NoDuplicateRefs
  RefCountsExact
  FirstPassExact
PROPERTY Settles
