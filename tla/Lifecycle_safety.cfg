\* Two connections, configuration reloads allowed.
SPECIFICATION Spec
CONSTANTS
  c1 = c1
  c2 = c2
  Conns = {c1, c2}
  TLSEnable = TRUE
  Reloads = TRUE
SYMMETRY ConnSymmetry
INVARIANTS
  TypeOK
  WgAccounting
  RegistryFaithful
  SocketsReleased
  GrantedMeansRelayed
  PanicOnlyAfterShutdown
PROPERTY
  DrainMeansIdle
