\* One client of every kind, whole and in pieces, while the configuration is replaced.
SPECIFICATION MixedFairSpec
CONSTANTS
  Nil = Nil
  Scripts <- MCScripts
  Configs <- MCConfigs
  PieceBound = 60
  Socks4Buf = 20
  HttpBuf = 14
  Packets = {p1, p2, p3}
  Fragments = {p2}
  Truncated = {p3}
  MaxAnswers = 1
INVARIANTS
  MixedTypeOK
  TakenAsGiven
  ServedAsVerified
  CrashOnlyWhen
  MapShared
PROPERTIES
  ServedWhenWhole
  EndsWhenGone
  UdpSocketsClosed
  ImplementsLifecycle
CHECK_DEADLOCK FALSE
