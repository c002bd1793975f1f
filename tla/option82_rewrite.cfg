SPECIFICATION OptionsSpec
CONSTANTS
  HEADER = 240
  RECV_BUFFER_SIZE = 9228
  MaxOptions = 5
  Option <- Option1
  Packet <- Packet1
  Config <- Config1
INVARIANTS
  OptionsTypeOK
  OptionsKept
  OneRelayOption
  ForeignOptions
  RepliesStripped
  FitsMaxSize
CHECK_DEADLOCK FALSE
