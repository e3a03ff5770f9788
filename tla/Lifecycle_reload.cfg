\* One connection and a rewritten configuration file.
SPECIFICATION Spec
CONSTANTS
  c1 = c1
  Conns = {c1}
  TLSEnable = TRUE
  Reloads = TRUE
INVARIANT
  SpeaksCommandProtocol
