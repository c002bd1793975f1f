SPECIFICATION Spec
CONSTANTS
  r1 = r1
  r2 = r2
  i1 = i1
  i2 = i2
  i3 = i3
  Relay = {r1, r2}
  Interface = {i1, i2, i3}
  RelayOf <- RelayOfInterface
  NoInterface = NoInterface
  Address = {1, 2, 3}
  Home <- HomeOfAddress
  Places <- PlacesOfAddress
  Server = Server
  Nodes <- SomeNodes
  NoNode = NoNode
  NoJob = NoJob
  Features <- SomeFeatures
  Default <- Started
  Clients = {i1, i3}
  Unaddressed = {i3}
  Failing = {r1}
  MaxHops = 0
  Capacity = 1
  MaxUnderWay = 2
PROPERTIES
  ReplyToItsClient
  RequestsEnd
  ClientsAnswered
