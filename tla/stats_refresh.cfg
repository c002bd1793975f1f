SPECIFICATION Spec
CONSTANTS
  Port = {p1, p2}
  Counter = {requests, replies}
  MaxCount = 1
  Interval = {0, 1}
  Default = 2
  MaxSent = 1
PROPERTIES
  DifferencesSent
  ShownAgain
  Rests
