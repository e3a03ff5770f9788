\* Two connections, the configuration file is left alone.
SPECIFICATION FairSpec
CONSTANTS
  c1 = c1
  c2 = c2
  Conns = {c1, c2}
  TLSEnable = TRUE
  Reloads = FALSE
INVARIANT
  SpeaksCommandProtocol
PROPERTIES
  ShutdownEnds
  TunnelSettles
