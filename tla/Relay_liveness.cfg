\* One relay with any peers, and one or two relays with peers that read.
SPECIFICATION RelayFairSpec
CONSTANTS
  Setups <- MCLive
  Cap = 1
  BufSize = 1
PROPERTIES
  WindsDown
  NoStall
  AllWindDown
  FlushesOnClose
CHECK_DEADLOCK FALSE
