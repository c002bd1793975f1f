SPECIFICATION OptionsSpec
CONSTANTS
  HEADER = 240
  RECV_BUFFER_SIZE = 9228
  MaxOptions = 3
  Option <- OptionFF
  Packet <- PacketFF
  Config <- ConfigMac
INVARIANT OptionsKept
CHECK_DEADLOCK FALSE
