\* A client and a server with a framed link between them, and one relay, raw on both sides.
SPECIFICATION RelaySpec
CONSTANTS
  Setups <- MCBusy
  Cap = 2
  BufSize = 2
INVARIANTS
  RelayTypeOK
  FramesAligned
  NothingLostWhileCopying
PROPERTY
  DeliversInOrder
CHECK_DEADLOCK FALSE
